------------------------------- MODULE Kernels -------------------------------
(***************************************************************************)
(* Jupyter kernels of a notebook (kernel/manager.py), the WebSocket that   *)
(* drives them (api/ws_kernel.py), and the installation of ipykernel       *)
(* (api/routes/kernel.py; on a remote host the daemon's handler and its    *)
(* background thread, _rws_daemon.py).  A kernel answers an execution with *)
(* output on the iopub channel and a reply on the shell channel; each      *)
(* channel has its reader, in a thread of its own.                         *)
(***************************************************************************)
EXTENDS Naturals, Sequences

CONSTANTS
  Notebooks,    \* WebSockets of browsers with the same notebook open
  MaxKernels,   \* bound: kernel sessions ever made
  MaxRuns       \* bound: executions

ASSUME KernelBounds == MaxKernels \in Nat /\ MaxRuns \in Nat

VARIABLES
  install,      \* _kernel_install_state, what is installed, the thread
  kernel,       \* kernel sessions
  pooled,       \* the pool's kernel of the notebook, 0 for none
  made,         \* kernels and executions so far
  notebook,     \* a WebSocket's kernel_session, 0 for none
  sent          \* what subscribers were sent of an execution

kernelVars == <<install, kernel, pooled, made, notebook, sent>>

KernelIds == 1 .. MaxKernels
Runs == 1 .. MaxRuns
NoKernel ==
  [status |-> "starting", alive |-> FALSE, channels |-> FALSE,
   iopubReader |-> FALSE, shellReader |-> FALSE, iopub |-> <<>>,
   shell |-> <<>>, cells |-> {}, managed |-> FALSE,
   restarts |-> [w \in Notebooks |-> "no"], subscribers |-> {}]

KernelsInit ==
  /\ install = [active |-> FALSE, result |-> "none", here |-> FALSE,
                threads |-> {}]
  /\ kernel = [k \in KernelIds |-> NoKernel]
  /\ pooled = 0
  /\ made = [kernels |-> 0, runs |-> 0]
  /\ notebook = [w \in Notebooks |-> 0]
  /\ sent = [m \in Runs |-> <<>>]

-----------------------------------------------------------------------------
(* Installation.  The daemon answers a poll: installed, in progress, the   *)
(* result or error of the last installation, or it starts one.             *)

PollInstall ==
  /\ ~install.here
  /\ install' =
       IF install.active THEN install
       ELSE IF install.result # "none" THEN [install EXCEPT !.result = "none"]
       ELSE [install EXCEPT !.active = TRUE,
                            !.threads = @ \cup {"work"}]
  /\ UNCHANGED <<kernel, pooled, made, notebook, sent>>

\* Mutant: the result and the end of the activity are told at once, before
\* the thread is through.
InstallWorksEarly ==
  /\ "work" \in install.threads
  /\ \E outcome \in {"ok", "error"} :
       install' = [install EXCEPT !.result = outcome, !.active = FALSE,
                                  !.here = @ \/ outcome = "ok",
                                  !.threads = (@ \ {"work"}) \cup {"end"}]
  /\ UNCHANGED <<kernel, pooled, made, notebook, sent>>

\* _do_kernel_install: venv, pip and registration succeed or one fails.
InstallWorks ==
  /\ "work" \in install.threads
  /\ \E outcome \in {"ok", "error"} :
       install' = [install EXCEPT !.result = outcome,
                                  !.here = @ \/ outcome = "ok",
                                  !.threads = (@ \ {"work"}) \cup {"end"}]
  /\ UNCHANGED <<kernel, pooled, made, notebook, sent>>

InstallEnds ==
  /\ "end" \in install.threads
  /\ install' = [install EXCEPT !.active = FALSE, !.threads = @ \ {"end"}]
  /\ UNCHANGED <<kernel, pooled, made, notebook, sent>>

-----------------------------------------------------------------------------
(* A WebSocket's messages, one at a time: it waits for its own restart.    *)

Attends(w) == notebook[w] # 0 => kernel[notebook[w]].restarts[w] = "no"

Subscribes(w, k) ==
  /\ kernel' = [kernel EXCEPT ![k].subscribers = @ \cup {w}]
  /\ notebook' = [notebook EXCEPT ![w] = k]

\* "start" with a kernel in the pool that is not dead.
JoinKernel(w) ==
  /\ Attends(w) /\ install.here /\ pooled # 0 /\ kernel[pooled].status # "dead"
  /\ Subscribes(w, pooled)
  /\ UNCHANGED <<install, pooled, made, sent>>

\* Otherwise a new session takes the pool's place before it starts.  An
\* unknown kernel, or a process that cannot be made, leaves it "starting"; a
\* process that does not get ready leaves it dead.
StartKernel(w) ==
  LET k == made.kernels + 1 IN
  /\ Attends(w) /\ install.here /\ k \in KernelIds
  /\ pooled # 0 => kernel[pooled].status = "dead"
  /\ made' = [made EXCEPT !.kernels = k]
  /\ pooled' = k
  /\ \/ /\ kernel' = [kernel EXCEPT ![k] =
             [NoKernel EXCEPT !.status = "idle", !.alive = TRUE,
                !.channels = TRUE, !.managed = TRUE, !.iopubReader = TRUE,
                !.shellReader = TRUE, !.subscribers = {w}]]
        /\ notebook' = [notebook EXCEPT ![w] = k]
     \/ /\ \E status \in {"starting", "dead"} :
             kernel' =
               [kernel EXCEPT ![k] = [NoKernel EXCEPT !.status = status]]
        /\ UNCHANGED notebook
  /\ UNCHANGED <<install, sent>>

Execute(w) ==
  LET k == notebook[w]
      m == made.runs + 1
  IN /\ k # 0 /\ m \in Runs /\ Attends(w)
     /\ kernel[k].channels /\ kernel[k].alive
     /\ made' = [made EXCEPT !.runs = m]
     /\ kernel' = [kernel EXCEPT ![k].cells = @ \cup {m},
                                 ![k].iopub = Append(@, m),
                                 ![k].shell = Append(@, m)]
     /\ UNCHANGED <<install, pooled, notebook, sent>>

\* KernelSession.restart, in an executor: the old process goes, which may be
\* the one another WebSocket's restart has just brought up, ...
RestartKernel(w) ==
  LET k == notebook[w] IN
  /\ k # 0 /\ kernel[k].managed /\ Attends(w)
  /\ kernel' = [kernel EXCEPT ![k].status = "starting", ![k].alive = FALSE,
                              ![k].restarts[w] = "down"]
  /\ UNCHANGED <<install, pooled, made, notebook, sent>>

\* ... and a new one comes up.
ProcessRespawns(k, w) ==
  /\ kernel[k].restarts[w] = "down"
  /\ kernel' = [kernel EXCEPT ![k].alive = TRUE, ![k].restarts[w] = "up",
                              ![k].iopub = <<>>, ![k].shell = <<>>]
  /\ UNCHANGED <<install, pooled, made, notebook, sent>>

RestartReady(k, w) ==
  /\ kernel[k].restarts[w] = "up"
  /\ kernel' = [kernel EXCEPT ![k] =
       IF @.channels /\ @.alive
       THEN [@ EXCEPT !.status = "idle", !.restarts[w] = "no", !.cells = {}]
       ELSE [@ EXCEPT !.status = "dead", !.restarts[w] = "no"]]
  /\ UNCHANGED <<install, pooled, made, notebook, sent>>

\* KernelSession.shutdown, for the kernel the pool has by now.  The manager of
\* a process that is dead already stays.
ShutsDown(k) ==
  [k EXCEPT !.status = "dead", !.alive = FALSE, !.managed = @ /\ ~k.alive,
            !.channels = FALSE,
            !.iopubReader = FALSE, !.shellReader = FALSE,
            !.subscribers = {}]

ShutdownKernel(w) ==
  /\ notebook[w] # 0 /\ Attends(w)
  /\ notebook' = [notebook EXCEPT ![w] = 0]
  /\ kernel' = [k \in KernelIds |->
       IF k = pooled THEN ShutsDown(kernel[k])
       ELSE [kernel[k] EXCEPT !.subscribers = @ \ {w}]]
  /\ pooled' = 0
  /\ UNCHANGED <<install, made, sent>>

\* The application stops.
ShutdownAllKernels ==
  /\ pooled # 0
  /\ kernel' = [kernel EXCEPT ![pooled] = ShutsDown(@)]
  /\ pooled' = 0
  /\ UNCHANGED <<install, made, notebook, sent>>

\* The browser leaves: its kernel goes on.
LeaveNotebook(w) ==
  /\ notebook[w] # 0 /\ Attends(w)
  /\ kernel' = [kernel EXCEPT ![notebook[w]].subscribers = @ \ {w}]
  /\ notebook' = [notebook EXCEPT ![w] = 0]
  /\ UNCHANGED <<install, pooled, made, sent>>

-----------------------------------------------------------------------------
(* The kernel and the readers of its channels.                             *)

KernelDies(k) ==
  /\ kernel[k].alive
  /\ kernel' = [kernel EXCEPT ![k].alive = FALSE]
  /\ UNCHANGED <<install, pooled, made, notebook, sent>>

\* Output goes to the execution's cell while the cell is known.
IopubReads(k) ==
  LET m == Head(kernel[k].iopub) IN
  /\ kernel[k].iopubReader /\ kernel[k].iopub # <<>>
  /\ kernel' = [kernel EXCEPT ![k].iopub = Tail(@)]
  /\ sent' = IF m \in kernel[k].cells
             THEN [sent EXCEPT ![m] = Append(@, "output")] ELSE sent
  /\ UNCHANGED <<install, pooled, made, notebook>>

\* Mutant: the cell of a complete execution stays known.
ShellReadsKeepsCell(k) ==
  LET m == Head(kernel[k].shell) IN
  /\ kernel[k].shellReader /\ kernel[k].shell # <<>>
  /\ kernel' = [kernel EXCEPT ![k].shell = Tail(@)]
  /\ sent' = IF m \in kernel[k].cells
             THEN [sent EXCEPT ![m] = Append(@, "complete")] ELSE sent
  /\ UNCHANGED <<install, pooled, made, notebook>>

ShellReads(k) ==
  LET m == Head(kernel[k].shell) IN
  /\ kernel[k].shellReader /\ kernel[k].shell # <<>>
  /\ kernel' = [kernel EXCEPT ![k].shell = Tail(@), ![k].cells = @ \ {m}]
  /\ sent' = IF m \in kernel[k].cells
             THEN [sent EXCEPT ![m] = Append(@, "complete")] ELSE sent
  /\ UNCHANGED <<install, pooled, made, notebook>>

\* A reader that times out on a dead process ends, during a restart too.
IopubGivesUp(k) ==
  /\ kernel[k].iopubReader /\ ~kernel[k].alive /\ kernel[k].iopub = <<>>
  /\ kernel' = [kernel EXCEPT ![k].status = "dead",
                              ![k].iopubReader = FALSE]
  /\ UNCHANGED <<install, pooled, made, notebook, sent>>

ShellGivesUp(k) ==
  /\ kernel[k].shellReader /\ ~kernel[k].alive /\ kernel[k].shell = <<>>
  /\ kernel' = [kernel EXCEPT ![k].shellReader = FALSE]
  /\ UNCHANGED <<install, pooled, made, notebook, sent>>

KernelsNext ==
  \/ PollInstall \/ InstallWorks \/ InstallEnds \/ ShutdownAllKernels
  \/ \E w \in Notebooks :
       \/ JoinKernel(w) \/ StartKernel(w) \/ Execute(w) \/ RestartKernel(w)
       \/ ShutdownKernel(w) \/ LeaveNotebook(w)
  \/ \E k \in KernelIds :
       \/ KernelDies(k) \/ IopubReads(k) \/ ShellReads(k)
       \/ IopubGivesUp(k) \/ ShellGivesUp(k)
       \/ \E w \in Notebooks : ProcessRespawns(k, w) \/ RestartReady(k, w)

KernelsSpec == KernelsInit /\ [][KernelsNext]_kernelVars

-----------------------------------------------------------------------------
\* A cell that was told its execution is complete is sent nothing more of it
\* and told once, although output and reply come over two channels
\* (kernel/manager.py, _iopub_reader and _shell_reader).
CompleteIsLast ==
  \A m \in Runs : \A i \in DOMAIN sent[m] :
    sent[m][i] = "complete" => i = Len(sent[m])

\* The daemon never has two installation threads in one venv: the handler
\* starts none while one is active (_rws_daemon.py, handle_kernel_install).
OneInstallThread == install.threads \in {{}, {"work"}, {"end"}}
=============================================================================
