-------------------------- MODULE WorkbenchProofs ---------------------------
(***************************************************************************)
(* What the user's tools beside the sessions guarantee, for any number of  *)
(* requests: a notebook installs ipykernel once at a time and a cell hears *)
(* nothing after its completion; a save spares what its editor has not     *)
(* seen; a text sent to an agent is given to it once; pruning keeps a      *)
(* backup.                                                                 *)
(***************************************************************************)
EXTENDS Kernels, FileAccess, AgentInput, Backup, FiniteSetTheorems,
        WellFoundedInduction, TLAPS

-----------------------------------------------------------------------------
(* Notebook kernels.                                                       *)

Installs ==
  [active : BOOLEAN, result : {"none", "ok", "error"}, here : BOOLEAN,
   threads : SUBSET {"work", "end"}]
KernelSessions ==
  [status : {"starting", "idle", "dead"}, alive : BOOLEAN,
   channels : BOOLEAN, iopubReader : BOOLEAN, shellReader : BOOLEAN,
   iopub : Seq(Runs), shell : Seq(Runs), cells : SUBSET Runs,
   managed : BOOLEAN, restarts : [Notebooks -> {"no", "down", "up"}],
   subscribers : SUBSET Notebooks]

KernelTypeOK ==
  /\ install \in Installs
  /\ kernel \in [KernelIds -> KernelSessions]
  /\ pooled \in 0..MaxKernels
  /\ made \in [kernels : 0..MaxKernels, runs : 0..MaxRuns]
  /\ notebook \in [Notebooks -> 0..MaxKernels]
  /\ sent \in [Runs -> Seq({"output", "complete"})]

\* The flag that the daemon's handler looks at covers the whole thread.
ActiveWhileThread == install.active <=> install.threads # {}

\* An execution's cell is known to one kernel, and not complete.
NotComplete(m) == \A i \in DOMAIN sent[m] : sent[m][i] # "complete"
CellsOpen ==
  /\ \A k \in KernelIds : \A m \in kernel[k].cells :
       m <= made.runs /\ NotComplete(m)
  /\ \A j, k \in KernelIds :
       j # k => kernel[j].cells \cap kernel[k].cells = {}
  /\ \A m \in Runs : m > made.runs => NotComplete(m)

KernelsInv ==
  KernelTypeOK /\ ActiveWhileThread /\ OneInstallThread
  /\ CellsOpen /\ CompleteIsLast

-----------------------------------------------------------------------------
LEMMA KernelsStart == KernelsInit => KernelsInv
<1> SUFFICES ASSUME KernelsInit PROVE KernelsInv
  OBVIOUS
<1> USE KernelBounds DEF KernelsInit
<1>1. KernelTypeOK
  BY DEF KernelTypeOK, Installs, KernelSessions, NoKernel
<1>2. ActiveWhileThread /\ OneInstallThread
  BY DEF ActiveWhileThread, OneInstallThread
<1>3. CellsOpen /\ CompleteIsLast
  BY DEF CellsOpen, NotComplete, CompleteIsLast, NoKernel
<1> QED
  BY <1>1, <1>2, <1>3 DEF KernelsInv

-----------------------------------------------------------------------------
(* The installation.                                                       *)

LEMMA InstallKeepsInv ==
  ASSUME KernelsInv, PollInstall \/ InstallWorks \/ InstallEnds
  PROVE  KernelsInv'
<1> USE DEF KernelsInv, ActiveWhileThread, OneInstallThread
<1>1. install' \in Installs /\ ActiveWhileThread' /\ OneInstallThread'
  <2>1. CASE PollInstall
    BY <2>1 DEF PollInstall, KernelTypeOK, Installs
  <2>2. CASE InstallWorks
    <3>1. PICK outcome \in {"ok", "error"} :
            /\ "work" \in install.threads
            /\ install' = [install EXCEPT !.result = outcome,
                             !.here = @ \/ outcome = "ok",
                             !.threads = (@ \ {"work"}) \cup {"end"}]
      BY <2>2 DEF InstallWorks
    <3>2. install' \in Installs
      BY <3>1 DEF KernelTypeOK, Installs
    <3>3. install'.active = install.active /\ install'.threads = {"end"}
      BY <3>1 DEF KernelTypeOK, Installs
    <3> QED
      BY <3>1, <3>2, <3>3
  <2>3. CASE InstallEnds
    BY <2>3 DEF InstallEnds, KernelTypeOK, Installs
  <2> QED
    BY <2>1, <2>2, <2>3
<1>2. UNCHANGED <<kernel, pooled, made, notebook, sent>>
  BY DEF PollInstall, InstallWorks, InstallEnds
<1> QED
  BY <1>1, <1>2 DEF KernelTypeOK, CellsOpen, NotComplete, CompleteIsLast

-----------------------------------------------------------------------------
(* Steps in which no execution begins and nothing is sent: they change     *)
(* kernel sessions and forget cells.                                       *)

LEMMA QuietKeepsInv ==
  ASSUME KernelsInv, KernelTypeOK', install' = install, sent' = sent,
         made'.runs = made.runs,
         \A k \in KernelIds : kernel'[k].cells \subseteq kernel[k].cells
  PROVE  KernelsInv'
<1>1. CellsOpen'
  BY DEF KernelsInv, CellsOpen, NotComplete
<1> QED
  BY <1>1 DEF KernelsInv, ActiveWhileThread, OneInstallThread, CompleteIsLast

LEMMA UpdateKeepsInv ==
  ASSUME KernelsInv, NEW k \in KernelIds, NEW r \in KernelSessions,
         kernel' = [kernel EXCEPT ![k] = r], r.cells \subseteq kernel[k].cells,
         pooled' \in 0..MaxKernels, notebook' \in [Notebooks -> 0..MaxKernels],
         made' \in [kernels : 0..MaxKernels, runs : 0..MaxRuns],
         made'.runs = made.runs, UNCHANGED <<install, sent>>
  PROVE  KernelsInv'
<1>1. KernelTypeOK'
  BY DEF KernelsInv, KernelTypeOK
<1>2. \A j \in KernelIds : kernel'[j].cells \subseteq kernel[j].cells
  BY DEF KernelsInv, KernelTypeOK
<1> QED
  BY <1>1, <1>2, QuietKeepsInv

\* What one kernel session goes through without an execution.
LEMMA SessionChanges ==
  ASSUME NEW r \in KernelSessions, NEW w \in Notebooks
  PROVE  /\ [r EXCEPT !.subscribers = @ \cup {w}] \in KernelSessions
         /\ [r EXCEPT !.subscribers = @ \cup {w}].cells = r.cells
         /\ [r EXCEPT !.subscribers = @ \ {w}] \in KernelSessions
         /\ [r EXCEPT !.subscribers = @ \ {w}].cells = r.cells
BY DEF KernelSessions

LEMMA ProcessChanges ==
  ASSUME NEW r \in KernelSessions, NEW w \in Notebooks,
         NEW status \in {"starting", "idle", "dead"}
  PROVE  /\ [r EXCEPT !.status = status] \in KernelSessions
         /\ [r EXCEPT !.status = status].cells = r.cells
         /\ [r EXCEPT !.status = status, !.alive = FALSE,
                      !.restarts[w] = "down"] \in KernelSessions
         /\ [r EXCEPT !.status = status, !.alive = FALSE,
                      !.restarts[w] = "down"].cells = r.cells
BY DEF KernelSessions

LEMMA RespawnChanges ==
  ASSUME NEW r \in KernelSessions, NEW w \in Notebooks
  PROVE  /\ [r EXCEPT !.alive = TRUE, !.restarts[w] = "up", !.iopub = <<>>,
                      !.shell = <<>>] \in KernelSessions
         /\ [r EXCEPT !.alive = TRUE, !.restarts[w] = "up", !.iopub = <<>>,
                      !.shell = <<>>].cells = r.cells
<1>1. <<>> \in Seq(Runs)
  OBVIOUS
<1> QED
  BY <1>1 DEF KernelSessions

LEMMA NewSession ==
  ASSUME NEW w \in Notebooks
  PROVE  /\ NoKernel \in KernelSessions /\ NoKernel.cells = {}
         /\ [NoKernel EXCEPT !.status = "idle", !.alive = TRUE,
                !.channels = TRUE, !.managed = TRUE, !.iopubReader = TRUE,
                !.shellReader = TRUE, !.subscribers = {w}] \in KernelSessions
         /\ [NoKernel EXCEPT !.status = "idle", !.alive = TRUE,
                !.channels = TRUE, !.managed = TRUE, !.iopubReader = TRUE,
                !.shellReader = TRUE, !.subscribers = {w}].cells = {}
<1>1. <<>> \in Seq(Runs) /\ {} \in SUBSET Runs /\ {} \in SUBSET Notebooks
  OBVIOUS
<1>2. NoKernel \in KernelSessions /\ NoKernel.cells = {}
  BY <1>1 DEF NoKernel, KernelSessions
<1>3. ASSUME NEW r \in KernelSessions
      PROVE  /\ [r EXCEPT !.status = "idle", !.alive = TRUE,
                    !.channels = TRUE, !.managed = TRUE, !.iopubReader = TRUE,
                    !.shellReader = TRUE, !.subscribers = {w}]
                 \in KernelSessions
             /\ [r EXCEPT !.status = "idle", !.alive = TRUE,
                    !.channels = TRUE, !.managed = TRUE, !.iopubReader = TRUE,
                    !.shellReader = TRUE, !.subscribers = {w}].cells = r.cells
  BY DEF KernelSessions
<1> QED
  BY <1>2, <1>3

LEMMA ShutdownChanges ==
  ASSUME NEW r \in KernelSessions
  PROVE  ShutsDown(r) \in KernelSessions /\ ShutsDown(r).cells = r.cells
BY DEF KernelSessions, ShutsDown

LEMMA SessionsKeepInv ==
  ASSUME KernelsInv, NEW w \in Notebooks,
         \/ JoinKernel(w) \/ StartKernel(w) \/ RestartKernel(w)
         \/ ShutdownKernel(w) \/ LeaveNotebook(w)
  PROVE  KernelsInv'
<1>t. /\ kernel \in [KernelIds -> KernelSessions]
      /\ pooled \in 0..MaxKernels /\ notebook \in [Notebooks -> 0..MaxKernels]
      /\ made \in [kernels : 0..MaxKernels, runs : 0..MaxRuns]
  BY DEF KernelsInv, KernelTypeOK
<1>k. \A k \in 0..MaxKernels : k # 0 => k \in KernelIds
  BY KernelBounds DEF KernelIds
<1>z. 0 \in 0..MaxKernels
  BY KernelBounds
<1>1. CASE JoinKernel(w)
  <2> DEFINE r == [kernel[pooled] EXCEPT !.subscribers = @ \cup {w}]
  <2>1. pooled \in KernelIds
    BY <1>1, <1>t, <1>k DEF JoinKernel
  <2>2. r \in KernelSessions /\ r.cells = kernel[pooled].cells
    BY <1>t, <2>1, SessionChanges
  <2>3. /\ kernel' = [kernel EXCEPT ![pooled] = r]
        /\ notebook' = [notebook EXCEPT ![w] = pooled]
        /\ UNCHANGED <<install, pooled, made, sent>>
    BY <1>1 DEF JoinKernel, Subscribes
  <2> HIDE DEF r
  <2> QED
    BY <1>t, <2>1, <2>2, <2>3, UpdateKeepsInv
<1>2. CASE StartKernel(w)
  <2> DEFINE k == made.kernels + 1
  <2>1. /\ k \in KernelIds /\ made' = [made EXCEPT !.kernels = k]
        /\ pooled' = k /\ UNCHANGED <<install, sent>>
        /\ notebook' \in {notebook, [notebook EXCEPT ![w] = k]}
    BY <1>2 DEF StartKernel
  <2>2. PICK r \in KernelSessions :
          r.cells = {} /\ kernel' = [kernel EXCEPT ![k] = r]
    <3> DEFINE Up == [NoKernel EXCEPT !.status = "idle", !.alive = TRUE,
                        !.channels = TRUE, !.managed = TRUE,
                        !.iopubReader = TRUE, !.shellReader = TRUE,
                        !.subscribers = {w}]
               Down(status) == [NoKernel EXCEPT !.status = status]
    <3>1. Up \in KernelSessions /\ Up.cells = {}
      BY NewSession
    <3>2. \A status \in {"starting", "dead"} :
            Down(status) \in KernelSessions /\ Down(status).cells = {}
      BY NewSession, ProcessChanges
    <3>3. \/ kernel' = [kernel EXCEPT ![k] = Up]
          \/ \E status \in {"starting", "dead"} :
                kernel' = [kernel EXCEPT ![k] = Down(status)]
      BY <1>2 DEF StartKernel
    <3> HIDE DEF Up, Down
    <3> QED
      BY <3>1, <3>2, <3>3
  <2> HIDE DEF k
  <2>3. k \in 0..MaxKernels
    BY <2>1, KernelBounds DEF KernelIds
  <2>4. made' \in [kernels : 0..MaxKernels, runs : 0..MaxRuns]
        /\ made'.runs = made.runs
    BY <1>t, <2>1, <2>3
  <2> QED
    BY <1>t, <2>1, <2>2, <2>3, <2>4, UpdateKeepsInv
<1>3. CASE RestartKernel(w)
  <2> DEFINE k == notebook[w]
             r == [kernel[k] EXCEPT !.status = "starting", !.alive = FALSE,
                                    !.restarts[w] = "down"]
  <2>1. k \in KernelIds
    BY <1>3, <1>t, <1>k DEF RestartKernel
  <2>2. r \in KernelSessions /\ r.cells = kernel[k].cells
    BY <1>t, <2>1, ProcessChanges
  <2>3. /\ kernel' = [kernel EXCEPT ![k] = r]
        /\ UNCHANGED <<install, pooled, made, notebook, sent>>
    BY <1>3, <1>t, <2>1 DEF RestartKernel
  <2> HIDE DEF k, r
  <2> QED
    BY <1>t, <2>1, <2>2, <2>3, UpdateKeepsInv
<1>4. CASE ShutdownKernel(w)
  <2> DEFINE Left(k) == [kernel[k] EXCEPT !.subscribers = @ \ {w}]
  <2>1. \A k \in KernelIds :
          /\ Left(k) \in KernelSessions /\ Left(k).cells = kernel[k].cells
          /\ ShutsDown(kernel[k]) \in KernelSessions
          /\ ShutsDown(kernel[k]).cells = kernel[k].cells
    BY <1>t, SessionChanges, ShutdownChanges
  <2>2. kernel' = [k \in KernelIds |-> IF k = pooled THEN ShutsDown(kernel[k])
                                                    ELSE Left(k)]
        /\ notebook' = [notebook EXCEPT ![w] = 0] /\ pooled' = 0
        /\ UNCHANGED <<install, made, sent>>
    BY <1>4 DEF ShutdownKernel
  <2> HIDE DEF Left
  <2>3. /\ kernel' \in [KernelIds -> KernelSessions]
        /\ \A k \in KernelIds : kernel'[k].cells = kernel[k].cells
    BY <2>1, <2>2
  <2>4. KernelTypeOK'
    BY <1>t, <1>z, <2>2, <2>3 DEF KernelsInv, KernelTypeOK
  <2> QED
    BY <2>2, <2>3, <2>4, QuietKeepsInv
<1>5. CASE LeaveNotebook(w)
  <2> DEFINE k == notebook[w]
             r == [kernel[k] EXCEPT !.subscribers = @ \ {w}]
  <2>1. k \in KernelIds
    BY <1>5, <1>t, <1>k DEF LeaveNotebook
  <2>2. r \in KernelSessions /\ r.cells = kernel[k].cells
    BY <1>t, <2>1, SessionChanges
  <2>3. /\ kernel' = [kernel EXCEPT ![k] = r]
        /\ notebook' = [notebook EXCEPT ![w] = 0]
        /\ UNCHANGED <<install, pooled, made, sent>>
    BY <1>5 DEF LeaveNotebook
  <2> HIDE DEF k, r
  <2> QED
    BY <1>t, <1>z, <2>1, <2>2, <2>3, UpdateKeepsInv
<1> QED
  BY <1>1, <1>2, <1>3, <1>4, <1>5

LEMMA ProcessesKeepInv ==
  ASSUME KernelsInv, NEW k \in KernelIds,
         \/ KernelDies(k) \/ IopubGivesUp(k) \/ ShellGivesUp(k)
         \/ \E w \in Notebooks : ProcessRespawns(k, w) \/ RestartReady(k, w)
  PROVE  KernelsInv'
<1>t. /\ kernel \in [KernelIds -> KernelSessions]
      /\ pooled \in 0..MaxKernels /\ notebook \in [Notebooks -> 0..MaxKernels]
      /\ made \in [kernels : 0..MaxKernels, runs : 0..MaxRuns]
  BY DEF KernelsInv, KernelTypeOK
<1>u. UNCHANGED <<install, pooled, made, notebook, sent>>
  BY DEF ProcessRespawns, RestartReady, KernelDies, IopubGivesUp, ShellGivesUp
<1> DEFINE old == kernel[k]
<1>o. old \in KernelSessions
  BY <1>t
<1>1. ASSUME NEW w \in Notebooks, ProcessRespawns(k, w) PROVE KernelsInv'
  <2> DEFINE r == [old EXCEPT !.alive = TRUE, !.restarts[w] = "up",
                              !.iopub = <<>>, !.shell = <<>>]
  <2>1. r \in KernelSessions /\ r.cells = old.cells
    BY <1>o, RespawnChanges
  <2>2. kernel' = [kernel EXCEPT ![k] = r]
    BY <1>1, <1>t DEF ProcessRespawns
  <2> HIDE DEF r
  <2> QED
    BY <1>t, <1>u, <2>1, <2>2, UpdateKeepsInv
<1>2. ASSUME NEW w \in Notebooks, RestartReady(k, w) PROVE KernelsInv'
  <2> DEFINE up == [old EXCEPT !.status = "idle", !.restarts[w] = "no",
                               !.cells = {}]
             dead == [old EXCEPT !.status = "dead", !.restarts[w] = "no"]
  <2>1. /\ up \in KernelSessions /\ up.cells = {}
        /\ dead \in KernelSessions /\ dead.cells = old.cells
    BY <1>o DEF KernelSessions
  <2>2. \/ kernel' = [kernel EXCEPT ![k] = up]
        \/ kernel' = [kernel EXCEPT ![k] = dead]
    BY <1>2 DEF RestartReady
  <2> HIDE DEF up, dead
  <2> QED
    BY <1>t, <1>u, <2>1, <2>2, UpdateKeepsInv
<1>3. CASE KernelDies(k)
  <2> DEFINE r == [old EXCEPT !.alive = FALSE]
  <2>1. r \in KernelSessions /\ r.cells = old.cells
    BY <1>o DEF KernelSessions
  <2>2. kernel' = [kernel EXCEPT ![k] = r]
    BY <1>3 DEF KernelDies
  <2> HIDE DEF r
  <2> QED
    BY <1>t, <1>u, <2>1, <2>2, UpdateKeepsInv
<1>4. CASE IopubGivesUp(k)
  <2> DEFINE r == [old EXCEPT !.status = "dead", !.iopubReader = FALSE]
  <2>1. r \in KernelSessions /\ r.cells = old.cells
    BY <1>o DEF KernelSessions
  <2>2. kernel' = [kernel EXCEPT ![k] = r]
    BY <1>4, <1>t DEF IopubGivesUp
  <2> HIDE DEF r
  <2> QED
    BY <1>t, <1>u, <2>1, <2>2, UpdateKeepsInv
<1>5. CASE ShellGivesUp(k)
  <2> DEFINE r == [old EXCEPT !.shellReader = FALSE]
  <2>1. r \in KernelSessions /\ r.cells = old.cells
    BY <1>o DEF KernelSessions
  <2>2. kernel' = [kernel EXCEPT ![k] = r]
    BY <1>5 DEF ShellGivesUp
  <2> HIDE DEF r
  <2> QED
    BY <1>t, <1>u, <2>1, <2>2, UpdateKeepsInv
<1> QED
  BY <1>1, <1>2, <1>3, <1>4, <1>5

LEMMA ShutdownAllKeepsInv ==
  ASSUME KernelsInv, ShutdownAllKernels
  PROVE  KernelsInv'
<1>1. pooled \in KernelIds /\ kernel[pooled] \in KernelSessions
      /\ 0 \in 0..MaxKernels
  BY KernelBounds DEF ShutdownAllKernels, KernelsInv, KernelTypeOK, KernelIds
<1>2. /\ kernel' = [kernel EXCEPT ![pooled] = ShutsDown(kernel[pooled])]
      /\ pooled' = 0 /\ UNCHANGED <<install, made, notebook, sent>>
  BY DEF ShutdownAllKernels
<1>3. /\ ShutsDown(kernel[pooled]) \in KernelSessions
      /\ ShutsDown(kernel[pooled]).cells = kernel[pooled].cells
  BY <1>1, ShutdownChanges
<1>4. /\ notebook \in [Notebooks -> 0..MaxKernels]
      /\ made \in [kernels : 0..MaxKernels, runs : 0..MaxRuns]
  BY DEF KernelsInv, KernelTypeOK
<1> QED
  BY <1>1, <1>2, <1>3, <1>4, UpdateKeepsInv

-----------------------------------------------------------------------------
(* An execution and what its cell is sent.                                 *)

LEMMA QueueChanges ==
  ASSUME NEW r \in KernelSessions, NEW m \in Runs
  PROVE  /\ [r EXCEPT !.cells = @ \cup {m}, !.iopub = Append(@, m),
                      !.shell = Append(@, m)] \in KernelSessions
         /\ [r EXCEPT !.cells = @ \cup {m}, !.iopub = Append(@, m),
                      !.shell = Append(@, m)].cells = r.cells \cup {m}
         /\ r.iopub # <<>> =>
              /\ Head(r.iopub) \in Runs
              /\ [r EXCEPT !.iopub = Tail(@)] \in KernelSessions
              /\ [r EXCEPT !.iopub = Tail(@)].cells = r.cells
         /\ r.shell # <<>> =>
              /\ Head(r.shell) \in Runs
              /\ [r EXCEPT !.shell = Tail(@), !.cells = @ \ {m}]
                   \in KernelSessions
              /\ [r EXCEPT !.shell = Tail(@), !.cells = @ \ {m}].cells
                   = r.cells \ {m}
<1>1. /\ r.iopub \in Seq(Runs) /\ r.shell \in Seq(Runs)
      /\ r.cells \subseteq Runs
  BY DEF KernelSessions
<1>2. Append(r.iopub, m) \in Seq(Runs) /\ Append(r.shell, m) \in Seq(Runs)
  BY <1>1
<1>3. r.iopub # <<>> => Head(r.iopub) \in Runs /\ Tail(r.iopub) \in Seq(Runs)
  BY <1>1
<1>4. r.shell # <<>> => Head(r.shell) \in Runs /\ Tail(r.shell) \in Seq(Runs)
  BY <1>1
<1>5. \A q \in Seq(Runs) : \A c \in SUBSET Runs :
        /\ [r EXCEPT !.iopub = q] \in KernelSessions
        /\ [r EXCEPT !.iopub = q].cells = r.cells
        /\ [r EXCEPT !.shell = q, !.cells = c] \in KernelSessions
        /\ [r EXCEPT !.shell = q, !.cells = c].cells = c
  BY DEF KernelSessions
<1>6. r.cells \cup {m} \in SUBSET Runs /\ r.cells \ {m} \in SUBSET Runs
  BY <1>1
<1>7. /\ [r EXCEPT !.cells = @ \cup {m}, !.iopub = Append(@, m),
                     !.shell = Append(@, m)] \in KernelSessions
      /\ [r EXCEPT !.cells = @ \cup {m}, !.iopub = Append(@, m),
                     !.shell = Append(@, m)].cells = r.cells \cup {m}
  <2> DEFINE cells == r.cells \cup {m}
             iopub == Append(r.iopub, m)
             shell == Append(r.shell, m)
  <2>1. iopub \in Seq(Runs) /\ shell \in Seq(Runs) /\ cells \in SUBSET Runs
    BY <1>2, <1>6
  <2> HIDE DEF cells, iopub, shell
  <2>2. /\ [r EXCEPT !.cells = cells, !.iopub = iopub, !.shell = shell]
             \in KernelSessions
        /\ [r EXCEPT !.cells = cells, !.iopub = iopub, !.shell = shell].cells
             = cells
    BY <2>1 DEF KernelSessions
  <2> QED
    BY <2>2 DEF cells, iopub, shell
<1>8. ASSUME r.iopub # <<>>
      PROVE  /\ Head(r.iopub) \in Runs
             /\ [r EXCEPT !.iopub = Tail(@)] \in KernelSessions
             /\ [r EXCEPT !.iopub = Tail(@)].cells = r.cells
  BY <1>3, <1>5, <1>6, <1>8
<1>9. ASSUME r.shell # <<>>
      PROVE  /\ Head(r.shell) \in Runs
             /\ [r EXCEPT !.shell = Tail(@), !.cells = @ \ {m}]
                  \in KernelSessions
             /\ [r EXCEPT !.shell = Tail(@), !.cells = @ \ {m}].cells
                  = r.cells \ {m}
  BY <1>4, <1>5, <1>6, <1>9
<1> QED
  BY <1>7, <1>8, <1>9

LEMMA ExecuteKeepsInv ==
  ASSUME KernelsInv, NEW w \in Notebooks, Execute(w)
  PROVE  KernelsInv'
<1> USE DEF KernelsInv
<1>1. PICK k \in KernelIds, m \in Runs : k = notebook[w] /\ m = made.runs + 1
  BY KernelBounds DEF Execute, KernelTypeOK, KernelIds
<1>2. made.runs \in 0..MaxRuns /\ kernel[k] \in KernelSessions
  BY <1>1 DEF KernelTypeOK
<1> DEFINE r == [kernel[k] EXCEPT !.cells = @ \cup {m},
                   !.iopub = Append(@, m), !.shell = Append(@, m)]
<1>3. r \in KernelSessions /\ r.cells = kernel[k].cells \cup {m}
  BY <1>2, QueueChanges
<1>4. /\ made' = [made EXCEPT !.runs = m]
      /\ kernel' = [kernel EXCEPT ![k] = r]
      /\ UNCHANGED <<install, pooled, notebook, sent>>
  BY <1>1 DEF Execute, KernelTypeOK
<1> HIDE DEF r
<1>5. \A j \in KernelIds :
        kernel'[j].cells = IF j = k THEN kernel[j].cells \cup {m}
                                    ELSE kernel[j].cells
  BY <1>3, <1>4 DEF KernelTypeOK
<1>6. made'.runs = m /\ m > made.runs
      /\ made' \in [kernels : 0..MaxKernels, runs : 0..MaxRuns]
  <2>1. m \in 0..MaxRuns /\ m > made.runs
    BY <1>1, <1>2, KernelBounds DEF Runs
  <2>2. made \in [kernels : 0..MaxKernels, runs : 0..MaxRuns]
    BY DEF KernelTypeOK
  <2> QED
    BY <1>4, <2>1, <2>2
<1>7. KernelTypeOK'
  BY <1>3, <1>4, <1>6 DEF KernelTypeOK
<1>8. \A j \in KernelIds : kernel[j].cells \subseteq Runs
  BY DEF KernelTypeOK, KernelSessions
<1>9. \A j \in KernelIds : m \notin kernel[j].cells
  BY <1>1, <1>2, <1>6, <1>8 DEF CellsOpen, Runs
<1>10. NotComplete(m)
  BY <1>6 DEF CellsOpen
<1>11. CellsOpen'
  <2>1. \A j \in KernelIds : \A n \in kernel'[j].cells :
          n <= m /\ NotComplete(n)
    <3> SUFFICES ASSUME NEW j \in KernelIds, NEW n \in kernel'[j].cells
                 PROVE  n <= m /\ NotComplete(n)
      OBVIOUS
    <3>1. CASE n = m
      BY <1>10, <3>1 DEF Runs
    <3>2. CASE n # m
      <4>1. n \in kernel[j].cells /\ n \in Runs
        BY <1>5, <1>8, <3>2
      <4> QED
        BY <1>2, <1>6, <4>1 DEF CellsOpen, Runs
    <3> QED
      BY <3>1, <3>2
  <2>2. \A i, j \in KernelIds :
          i # j => kernel'[i].cells \cap kernel'[j].cells = {}
    BY <1>5, <1>9 DEF CellsOpen
  <2>3. \A n \in Runs : n > m => NotComplete(n)
    BY <1>2, <1>6 DEF CellsOpen, Runs
  <2> QED
    BY <1>4, <1>6, <2>1, <2>2, <2>3 DEF CellsOpen, NotComplete
<1> QED
  BY <1>4, <1>7, <1>11 DEF ActiveWhileThread, OneInstallThread, CompleteIsLast

LEMMA IopubKeepsInv ==
  ASSUME KernelsInv, NEW k \in KernelIds, IopubReads(k)
  PROVE  KernelsInv'
<1> USE DEF KernelsInv
<1> DEFINE r == [kernel[k] EXCEPT !.iopub = Tail(@)]
<1>1. kernel[k] \in KernelSessions
  BY DEF KernelTypeOK
<1>2. PICK m \in Runs : m = Head(kernel[k].iopub)
  BY <1>1 DEF IopubReads, KernelSessions
<1>3. r \in KernelSessions /\ r.cells = kernel[k].cells
  BY <1>1, <1>2, QueueChanges DEF IopubReads
<1>4. /\ kernel' = [kernel EXCEPT ![k] = r]
      /\ sent' = IF m \in kernel[k].cells
                 THEN [sent EXCEPT ![m] = Append(@, "output")] ELSE sent
      /\ UNCHANGED <<install, pooled, made, notebook>>
  BY <1>2 DEF IopubReads
<1> HIDE DEF r
<1>5. KernelTypeOK'
  BY <1>3, <1>4 DEF KernelTypeOK
<1>6. \A j \in KernelIds : kernel'[j].cells = kernel[j].cells
  BY <1>3, <1>4 DEF KernelTypeOK
<1>7. \A n \in Runs : NotComplete(n) => NotComplete(n)'
  BY <1>4 DEF KernelTypeOK, NotComplete
<1>8. CellsOpen'
  <2>1. \A j \in KernelIds : kernel[j].cells \subseteq Runs
    BY DEF KernelTypeOK, KernelSessions
  <2> QED
    BY <1>4, <1>6, <1>7, <2>1 DEF CellsOpen
<1>9. CompleteIsLast'
  <2>1. CASE m \in kernel[k].cells
    <3>1. NotComplete(m)
      BY <2>1 DEF CellsOpen
    <3>2. NotComplete(m)'
      BY <1>7, <3>1
    <3>3. \A n \in Runs : n # m => sent'[n] = sent[n]
      BY <1>4 DEF KernelTypeOK
    <3> QED
      BY <3>2, <3>3 DEF CompleteIsLast, NotComplete
  <2>2. CASE m \notin kernel[k].cells
    BY <1>4, <2>2 DEF CompleteIsLast
  <2> QED
    BY <2>1, <2>2
<1> QED
  BY <1>4, <1>5, <1>8, <1>9 DEF ActiveWhileThread, OneInstallThread

LEMMA ShellKeepsInv ==
  ASSUME KernelsInv, NEW k \in KernelIds, ShellReads(k)
  PROVE  KernelsInv'
<1> USE DEF KernelsInv
<1>1. kernel[k] \in KernelSessions
  BY DEF KernelTypeOK
<1>2. PICK m \in Runs : m = Head(kernel[k].shell)
  BY <1>1 DEF ShellReads, KernelSessions
<1> DEFINE r == [kernel[k] EXCEPT !.shell = Tail(@), !.cells = @ \ {m}]
<1>3. r \in KernelSessions /\ r.cells = kernel[k].cells \ {m}
  BY <1>1, QueueChanges DEF ShellReads
<1>4. /\ kernel' = [kernel EXCEPT ![k] = r]
      /\ sent' = IF m \in kernel[k].cells
                 THEN [sent EXCEPT ![m] = Append(@, "complete")] ELSE sent
      /\ UNCHANGED <<install, pooled, made, notebook>>
  BY <1>2 DEF ShellReads, KernelTypeOK
<1> HIDE DEF r
<1>5. \A j \in KernelIds :
        kernel'[j].cells = IF j = k THEN kernel[j].cells \ {m}
                                    ELSE kernel[j].cells
  BY <1>3, <1>4 DEF KernelTypeOK
<1>6. KernelTypeOK'
  BY <1>3, <1>4 DEF KernelTypeOK
<1>7. CASE m \notin kernel[k].cells
  <2>1. sent' = sent
    BY <1>4, <1>7
  <2>2. \A j \in KernelIds : kernel'[j].cells \subseteq kernel[j].cells
    BY <1>5
  <2>3. install' = install /\ made'.runs = made.runs
    BY <1>4
  <2> QED
    BY <1>6, <2>1, <2>2, <2>3, QuietKeepsInv
<1>8. CASE m \in kernel[k].cells
  <2>1. sent' = [sent EXCEPT ![m] = Append(@, "complete")]
    BY <1>4, <1>8
  <2>2. m <= made.runs /\ NotComplete(m)
    BY <1>8 DEF CellsOpen
  <2>3. \A n \in Runs : n # m => sent'[n] = sent[n]
    BY <2>1 DEF KernelTypeOK
  <2>4. \A j \in KernelIds : m \notin kernel'[j].cells
    BY <1>5, <1>8 DEF CellsOpen
  <2>5. CellsOpen'
    <3>1. \A j \in KernelIds : kernel'[j].cells \subseteq kernel[j].cells
      BY <1>5
    <3>2. \A j \in KernelIds : kernel[j].cells \subseteq Runs
      BY DEF KernelTypeOK, KernelSessions
    <3>3. \A n \in Runs : n # m /\ NotComplete(n) => NotComplete(n)'
      BY <2>3 DEF NotComplete
    <3>4. \A n \in Runs : n > made.runs => n # m
      BY <2>2, KernelBounds DEF KernelTypeOK, Runs
    <3>5. \A j \in KernelIds : \A n \in kernel'[j].cells :
            n <= made.runs /\ NotComplete(n)'
      BY <2>4, <3>1, <3>2, <3>3 DEF CellsOpen
    <3>6. \A n \in Runs : n > made.runs => NotComplete(n)'
      BY <3>3, <3>4 DEF CellsOpen
    <3>7. \A i, j \in KernelIds :
            i # j => kernel'[i].cells \cap kernel'[j].cells = {}
      BY <3>1 DEF CellsOpen
    <3> QED
      BY <1>4, <3>5, <3>6, <3>7 DEF CellsOpen
  <2>6. CompleteIsLast'
    <3>1. sent[m] \in Seq({"output", "complete"})
      BY DEF KernelTypeOK
    <3>2. sent'[m] = Append(sent[m], "complete")
      BY <2>1 DEF KernelTypeOK
    <3>3. \A i \in DOMAIN sent'[m] :
            sent'[m][i] = "complete" => i = Len(sent'[m])
      BY <2>2, <3>1, <3>2 DEF NotComplete
    <3> QED
      BY <2>3, <3>3 DEF CompleteIsLast
  <2> QED
    BY <1>4, <1>6, <2>5, <2>6 DEF ActiveWhileThread, OneInstallThread
<1> QED
  BY <1>7, <1>8

-----------------------------------------------------------------------------
LEMMA KernelsStep ==
  ASSUME KernelsInv, [KernelsNext]_kernelVars
  PROVE  KernelsInv'
<1>1. CASE UNCHANGED kernelVars
  BY <1>1 DEF kernelVars, KernelsInv, KernelTypeOK, ActiveWhileThread,
     OneInstallThread, CellsOpen, NotComplete, CompleteIsLast
<1> QED
  BY <1>1, InstallKeepsInv, SessionsKeepInv, ProcessesKeepInv,
     ShutdownAllKeepsInv, ExecuteKeepsInv, IopubKeepsInv, ShellKeepsInv
     DEF KernelsNext

\* Two installation threads never work in one venv.
THEOREM OneInstallerAtATime == KernelsSpec => []OneInstallThread
<1>1. KernelsInv => OneInstallThread
  BY DEF KernelsInv
<1> QED
  BY <1>1, KernelsStart, KernelsStep, PTL DEF KernelsSpec

\* A cell is told its execution is complete at most once, and nothing after.
THEOREM NothingAfterCompletion == KernelsSpec => []CompleteIsLast
<1>1. KernelsInv => CompleteIsLast
  BY DEF KernelsInv
<1> QED
  BY <1>1, KernelsStart, KernelsStep, PTL DEF KernelsSpec

-----------------------------------------------------------------------------
(* The files of a session, as its editor reads and saves them.             *)

Stamps == [version : Nat, time : Nat]
FileRequests ==
  [at : {"free", "content", "store", "replace", "saved"},
   op : {"none", "read", "refresh", "raw", "save", "create"},
   path : Paths, got : Stamps, base : Stamps]

FileTypeOK ==
  /\ place \in {"unset", "local", "remote"}
  /\ disk \in [Paths -> [version : Nat, by : {"nobody", "agent", "editor"}]]
  /\ written \in Nat
  /\ contents \in [Paths -> Stamps]
  /\ request \in [Requests -> FileRequests]

\* Nothing happens before the session is resolved; no file is newer than the
\* last write.
Unresolved ==
  place = "unset" => /\ \A r \in Requests : request[r] = NoRequest
                     /\ \A p \in Paths : contents[p] = Unread
NothingNewer == \A p \in Paths : disk[p].version <= written

\* The time an editor or the cache has with a content is not that of a later
\* write: a save that knows it conflicts when the content is stale.
Paired(stamp) == stamp.time <= stamp.version

\* What holds of one request in the state it is in.
Sound(k) ==
  /\ Paired(k.base) /\ Paired(k.got)
  /\ k.at = "content" => k.got.time <= disk[k.path].version
  /\ k.at = "replace" /\ k.op = "save" =>
       /\ k.got.version <= k.base.version
       /\ \/ disk[k.path].version = k.got.version
          \/ disk[k.path].by \in {"agent", "nobody"}

InHandler(k) == k.at \in {"content", "replace"}

\* The daemon's handlers run one at a time.
RemoteSound ==
  place = "remote" =>
    /\ \A p \in Paths : Paired(contents[p])
    /\ \A r \in Requests : Sound(request[r])
    /\ \A r, q \in Requests :
         InHandler(request[r]) /\ InHandler(request[q]) => r = q

FileInv == FileTypeOK /\ Unresolved /\ NothingNewer /\ RemoteSound

LEMMA FreshRequest ==
  /\ Unread \in Stamps /\ Paired(Unread)
  /\ NoRequest \in FileRequests /\ NoRequest.at = "free"
  /\ NoRequest.base = Unread /\ NoRequest.got = Unread
<1>1. Unread \in Stamps /\ Paired(Unread)
  BY DEF Unread, Stamps, Paired
<1>2. (CHOOSE p \in Paths : TRUE) \in Paths
  BY PathsAssumption
<1> QED
  BY <1>1, <1>2 DEF NoRequest, FileRequests

LEMMA FileStart == FileInit => FileInv
<1> SUFFICES ASSUME FileInit PROVE FileInv
  OBVIOUS
<1>1. NoFile \in [version : Nat, by : {"nobody", "agent", "editor"}]
      /\ NoFile.version = 0
  BY DEF NoFile
<1>2. FileTypeOK
  BY <1>1, FreshRequest DEF FileInit, FileTypeOK
<1> QED
  BY <1>1, <1>2 DEF FileInit, FileInv, Unresolved, NothingNewer, RemoteSound

\* What a request's editor opens is a request at rest.
LEMMA OpenedRequest ==
  ASSUME NEW p \in Paths, NEW stamp \in Stamps
  PROVE  LET k == [NoRequest EXCEPT !.path = p, !.base = stamp]
         IN /\ k \in FileRequests /\ k.at = "free" /\ k.base = stamp
            /\ k.got = Unread /\ k.path = p
BY FreshRequest DEF FileRequests

\* A step of one request that leaves the files alone.
LEMMA RequestKeepsFiles ==
  ASSUME FileInv, place # "unset", NEW r \in Requests, NEW k \in FileRequests,
         request' = [request EXCEPT ![r] = k],
         contents' \in [Paths -> Stamps],
         UNCHANGED <<place, disk, written>>,
         place = "remote" =>
           /\ \A p \in Paths : Paired(contents'[p])
           /\ Sound(k)
           /\ InHandler(k) => InHandler(request[r]) \/ ~DaemonBusy
  PROVE  FileInv'
<1>t. FileTypeOK
  BY DEF FileInv
<1>1. FileTypeOK' /\ Unresolved' /\ NothingNewer'
  BY <1>t DEF FileInv, FileTypeOK, Unresolved, NothingNewer
<1>2. ASSUME place = "remote" PROVE RemoteSound'
  <2>1. \A x : Sound(x)' <=> Sound(x)
    BY DEF Sound
  <2>2. \A q \in Requests : Sound(request'[q])
    BY <1>2, <1>t DEF FileInv, RemoteSound, FileTypeOK
  <2>3. \A q, x \in Requests :
          InHandler(request'[q]) /\ InHandler(request'[x]) => q = x
    BY <1>2, <1>t DEF FileInv, RemoteSound, FileTypeOK, DaemonBusy, InHandler
  <2> QED
    BY <1>2, <2>1, <2>2, <2>3 DEF RemoteSound
<1> QED
  BY <1>1, <1>2 DEF FileInv, RemoteSound

LEMMA ReadsKeepFiles ==
  ASSUME FileInv, NEW r \in Requests, NEW p \in Paths,
         \/ ReadCached(r, p) \/ ReadContent(r) \/ StoreContent(r)
         \/ CheckMtimes(r) \/ ListFiles(r)
         \/ \E op \in {"read", "refresh", "raw"} : StatFile(r, p, op)
  PROVE  FileInv'
<1>t. FileTypeOK /\ request[r] \in FileRequests
  BY DEF FileInv, FileTypeOK
<1>r. place # "unset"
  BY FreshRequest
     DEF FileInv, Unresolved, ReadCached, ReadContent, StoreContent,
         CheckMtimes, ListFiles, StatFile, Free, Reaches, Resolved
<1>o. ASSUME NEW q \in Paths, NEW stamp \in Stamps, Opens(r, q, stamp),
             place = "remote" => Paired(stamp),
             contents' \in [Paths -> Stamps],
             UNCHANGED <<place, disk, written>>,
             place = "remote" => \A x \in Paths : Paired(contents'[x])
      PROVE  FileInv'
  <2> DEFINE k == [NoRequest EXCEPT !.path = q, !.base = stamp]
  <2>1. request' = [request EXCEPT ![r] = k]
    BY <1>o DEF Opens
  <2>2. /\ k \in FileRequests /\ k.at = "free" /\ k.base = stamp
        /\ k.got = Unread
    BY <1>o, FreshRequest DEF FileRequests
  <2> HIDE DEF k
  <2>3. place = "remote" => Sound(k)
    BY <1>o, <2>2, FreshRequest DEF Sound
  <2> QED
    BY <1>o, <1>r, <2>1, <2>2, <2>3, RequestKeepsFiles DEF InHandler
<1>c. place = "remote" => \A x \in Paths : Paired(contents[x])
  BY DEF FileInv, RemoteSound
<1>s. place = "remote" => Sound(request[r])
  BY DEF FileInv, RemoteSound
<1>u. Unread \in Stamps /\ Paired(Unread)
  BY FreshRequest
<1>1. CASE ReadCached(r, p)
  BY <1>1, <1>o, <1>t, <1>c DEF ReadCached, FileTypeOK
<1>2. CASE \E op \in {"read", "refresh", "raw"} : StatFile(r, p, op)
  <2>1. PICK op \in {"read", "refresh", "raw"} : StatFile(r, p, op)
    BY <1>2
  <2> DEFINE v == disk[p].version
             k == [request[r] EXCEPT !.at = "content", !.op = op, !.path = p,
                                     !.got = [version |-> v, time |-> v]]
  <2>2. CASE Opens(r, p, Unread)
    BY <2>1, <2>2, <1>o, <1>t, <1>c, <1>u DEF StatFile, FileTypeOK
  <2>3. CASE request' = [request EXCEPT ![r] = k]
    <3>1. v \in Nat
      BY <1>t DEF FileTypeOK
    <3>2. /\ k \in FileRequests /\ k.at = "content" /\ k.path = p
          /\ k.got = [version |-> v, time |-> v] /\ k.base = request[r].base
      BY <1>t, <3>1 DEF FileRequests, Stamps
    <3> HIDE DEF k
    <3>3. place = "remote" => Sound(k)
      BY <1>s, <3>1, <3>2 DEF Sound, Paired
    <3> QED
      BY <2>1, <2>3, <3>2, <3>3, <1>r, <1>t, <1>c, RequestKeepsFiles
         DEF StatFile, Reaches, FileTypeOK
  <2> QED
    BY <2>1, <2>2, <2>3, <1>t DEF StatFile, FileTypeOK
<1>3. CASE ReadContent(r)
  <2> DEFINE old == request[r]
             stamp == [old.got EXCEPT !.version = disk[old.path].version]
             k == [old EXCEPT !.at = "store", !.got = stamp]
  <2>1. old.path \in Paths /\ old.got \in Stamps /\ old.base \in Stamps
    BY <1>t DEF FileRequests
  <2>2. stamp \in Stamps /\ stamp.time = old.got.time
        /\ stamp.version = disk[old.path].version
    BY <1>t, <2>1 DEF Stamps, FileTypeOK
  <2>3. place = "remote" => Paired(stamp)
    BY <1>3, <1>s, <2>2 DEF ReadContent, Sound, Paired
  <2>4. \/ Opens(r, old.path, Unread)
        \/ Opens(r, old.path, stamp)
        \/ request' = [request EXCEPT ![r] = k]
    BY <1>3 DEF ReadContent
  <2>5. /\ k \in FileRequests /\ k.at = "store" /\ k.got = stamp
        /\ k.base = old.base
    BY <1>t, <2>2 DEF FileRequests
  <2>6. UNCHANGED <<place, disk, written, contents>>
    BY <1>3 DEF ReadContent
  <2> HIDE DEF stamp, k
  <2>7. CASE request' = [request EXCEPT ![r] = k]
    <3>1. place = "remote" => Sound(k)
      BY <1>s, <2>3, <2>5 DEF Sound
    <3> QED
      BY <2>5, <2>6, <2>7, <3>1, <1>r, <1>t, <1>c, RequestKeepsFiles
         DEF InHandler, FileTypeOK
  <2> QED
    BY <2>1, <2>2, <2>3, <2>4, <2>6, <2>7, <1>o, <1>t, <1>c, <1>u
       DEF FileTypeOK
<1>4. CASE StoreContent(r)
  <2> DEFINE k == request[r]
  <2>1. k.path \in Paths /\ k.got \in Stamps
    BY <1>t DEF FileRequests
  <2>2. /\ contents' = [contents EXCEPT ![k.path] = k.got]
        /\ Opens(r, k.path, k.got) /\ UNCHANGED <<place, disk, written>>
    BY <1>4 DEF StoreContent
  <2>3. place = "remote" => Paired(k.got)
    BY <1>s DEF Sound
  <2> HIDE DEF k
  <2>4. contents' \in [Paths -> Stamps]
        /\ (place = "remote" => \A x \in Paths : Paired(contents'[x]))
    BY <1>t, <1>c, <2>1, <2>2, <2>3 DEF FileTypeOK
  <2> QED
    BY <2>1, <2>2, <2>3, <2>4, <1>o
<1>5. CASE CheckMtimes(r)
  BY <1>5, <1>o, <1>t, <1>c, <1>u DEF CheckMtimes, FileTypeOK, FileRequests
<1>6. CASE ListFiles(r)
  BY <1>6, <1>t DEF ListFiles, FileInv, FileTypeOK, Unresolved, NothingNewer,
       RemoteSound, Sound
<1> QED
  BY <1>1, <1>2, <1>3, <1>4, <1>5, <1>6

LEMMA ChecksKeepFiles ==
  ASSUME FileInv, NEW r \in Requests, NEW p \in Paths,
         CheckSave(r) \/ CheckCreate(r, p) \/ ForgetContent(r)
  PROVE  FileInv'
<1>t. FileTypeOK /\ request[r] \in FileRequests
  BY DEF FileInv, FileTypeOK
<1>r. place # "unset"
  BY FreshRequest
     DEF FileInv, Unresolved, CheckSave, CheckCreate, ForgetContent, Free,
         Reaches, Resolved
<1>c. place = "remote" => \A x \in Paths : Paired(contents[x])
  BY DEF FileInv, RemoteSound
<1>s. place = "remote" => Sound(request[r])
  BY DEF FileInv, RemoteSound
<1>1. CASE CheckSave(r)
  <2> DEFINE old == request[r]
             v == disk[old.path].version
             k == [old EXCEPT !.at = "replace", !.op = "save",
                              !.got = [version |-> v, time |-> v]]
  <2>1. v \in Nat /\ old.base \in Stamps /\ old.path \in Paths
    BY <1>t DEF FileTypeOK, FileRequests
  <2>2. /\ k \in FileRequests /\ k.at = "replace" /\ k.path = old.path
        /\ k.got = [version |-> v, time |-> v] /\ k.base = old.base
    BY <1>t, <2>1 DEF FileRequests, Stamps
  <2>3. /\ v = old.base.time /\ ~DaemonBusy
        /\ request' = [request EXCEPT ![r] = k]
        /\ UNCHANGED <<place, disk, written, contents>>
    BY <1>1 DEF CheckSave, Reaches, Conflicts
  <2> HIDE DEF k
  <2>4. place = "remote" => Sound(k)
    BY <1>s, <2>1, <2>2, <2>3 DEF Sound, Paired
  <2> QED
    BY <2>2, <2>3, <2>4, <1>r, <1>t, <1>c, RequestKeepsFiles DEF FileTypeOK
<1>2. CASE CheckCreate(r, p)
  <2> DEFINE k == [NoRequest EXCEPT !.at = "replace", !.op = "create",
                                    !.path = p]
  <2>1. /\ k \in FileRequests /\ k.at = "replace" /\ k.op = "create"
        /\ k.got = Unread /\ k.base = Unread
    BY FreshRequest DEF FileRequests
  <2>2. /\ request' = [request EXCEPT ![r] = k] /\ ~DaemonBusy
        /\ UNCHANGED <<place, disk, written, contents>>
    BY <1>2 DEF CheckCreate, Reaches
  <2> HIDE DEF k
  <2>3. Sound(k)
    BY <2>1, FreshRequest DEF Sound
  <2> QED
    BY <2>1, <2>2, <2>3, <1>r, <1>t, <1>c, RequestKeepsFiles DEF FileTypeOK
<1>3. CASE ForgetContent(r)
  <2> DEFINE old == request[r]
             k == [NoRequest EXCEPT !.path = old.path, !.base = old.got]
  <2>1. old.path \in Paths /\ old.got \in Stamps
    BY <1>t DEF FileRequests
  <2>2. /\ k \in FileRequests /\ k.at = "free" /\ k.base = old.got
        /\ k.got = Unread
    BY <2>1, FreshRequest DEF FileRequests
  <2>3. /\ request' = [request EXCEPT ![r] = k]
        /\ contents' = [contents EXCEPT ![old.path] = Unread]
        /\ UNCHANGED <<place, disk, written>>
    BY <1>3 DEF ForgetContent, Opens
  <2> HIDE DEF k
  <2>4. place = "remote" => Sound(k)
    BY <1>s, <2>2, FreshRequest DEF Sound
  <2>5. contents' \in [Paths -> Stamps]
        /\ (place = "remote" => \A x \in Paths : Paired(contents'[x]))
    BY <1>t, <1>c, <2>1, <2>3, FreshRequest DEF FileTypeOK
  <2> QED
    BY <2>2, <2>3, <2>4, <2>5, <1>r, RequestKeepsFiles DEF InHandler
<1> QED
  BY <1>1, <1>2, <1>3

\* The agent's write is newer than everything; the daemon is in no handler
\* when a file is deleted or moved.
LEMMA AgentKeepsFiles ==
  ASSUME FileInv, NEW p \in Paths, AgentWrites(p)
  PROVE  FileInv'
<1>t. FileTypeOK
  BY DEF FileInv
<1>1. /\ disk' = [disk EXCEPT ![p] = [version |-> written + 1, by |-> "agent"]]
      /\ written' = written + 1 /\ UNCHANGED <<place, contents, request>>
      /\ place # "unset"
  BY DEF AgentWrites, WriteVersion, Resolved
<1>2. FileTypeOK' /\ Unresolved'
  BY <1>1, <1>t DEF FileTypeOK, Unresolved
<1>3. NothingNewer'
  BY <1>1, <1>t DEF FileInv, FileTypeOK, NothingNewer
<1>4. ASSUME place = "remote", NEW r \in Requests PROVE Sound(request[r])'
  <2> DEFINE k == request[r]
  <2>1. Sound(k) /\ k \in FileRequests
    BY <1>4, <1>t DEF FileInv, RemoteSound, FileTypeOK
  <2>2. /\ k.path \in Paths /\ disk[k.path].version <= written
        /\ k.got.time \in Nat
        /\ disk[k.path].version \in Nat /\ written \in Nat
    BY <2>1, <1>t DEF FileInv, FileTypeOK, NothingNewer, FileRequests, Stamps
  <2>3. disk'[k.path] = IF k.path = p
                        THEN [version |-> written + 1, by |-> "agent"]
                        ELSE disk[k.path]
    BY <1>1, <1>t, <2>2 DEF FileTypeOK
  <2> QED
    BY <1>1, <2>1, <2>2, <2>3 DEF Sound
<1> QED
  BY <1>1, <1>2, <1>3, <1>4 DEF FileInv, RemoteSound

LEMMA RemovalsKeepFiles ==
  ASSUME FileInv, NEW r \in Requests, NEW p \in Paths, NEW q \in Paths,
         DeleteFile(r, p) \/ MoveFile(r, p, q)
  PROVE  FileInv'
<1>t. FileTypeOK
  BY DEF FileInv
<1>n. NoFile \in [version : Nat, by : {"nobody", "agent", "editor"}]
      /\ NoFile.version = 0
  BY DEF NoFile
<1>1. /\ ~DaemonBusy /\ place # "unset"
      /\ UNCHANGED <<place, written, contents, request>>
  BY DEF DeleteFile, MoveFile, Reaches, Free, Resolved
<1>2. disk' \in [Paths -> [version : Nat, by : {"nobody", "agent", "editor"}]]
      /\ NothingNewer'
  <2> DEFINE Files == [version : Nat, by : {"nobody", "agent", "editor"}]
  <2>1. /\ disk \in [Paths -> Files] /\ written \in Nat
        /\ \A x \in Paths : disk[x].version <= written
    BY <1>t DEF FileTypeOK, FileInv, NothingNewer
  <2>2. DeleteFile(r, p) =>
          \A x \in Paths : disk'[x] \in {disk[x], NoFile}
    BY <2>1 DEF DeleteFile
  <2>3. MoveFile(r, p, q) =>
          \A x \in Paths : disk'[x] \in {disk[x], disk[p], NoFile}
    BY <2>1 DEF MoveFile
  <2>4. \A x \in Paths : \E y \in Paths : disk'[x] \in {disk[y], NoFile}
    BY <2>2, <2>3
  <2>5. disk' = [x \in Paths |-> disk'[x]]
    BY <2>1 DEF DeleteFile, MoveFile
  <2>6. \A x \in Paths : disk'[x] \in Files /\ disk'[x].version <= written
    BY <1>n, <2>1, <2>4
  <2> QED
    BY <1>1, <2>5, <2>6 DEF NothingNewer
<1>3. ASSUME place = "remote", NEW x \in Requests PROVE Sound(request[x])'
  <2>1. Sound(request[x]) /\ ~InHandler(request[x])
    BY <1>1, <1>3 DEF FileInv, RemoteSound, DaemonBusy, InHandler
  <2> QED
    BY <1>1, <2>1 DEF Sound, InHandler
<1> QED
  BY <1>1, <1>2, <1>3, <1>t
     DEF FileInv, FileTypeOK, Unresolved, RemoteSound

LEMMA ReplaceKeepsFiles ==
  ASSUME FileInv, NEW r \in Requests, ReplaceFile(r)
  PROVE  FileInv'
<1>t. FileTypeOK /\ request[r] \in FileRequests
  BY DEF FileInv, FileTypeOK
<1> DEFINE old == request[r]
           w == written + 1
           stamp == [version |-> w, time |-> w]
           saved == [old EXCEPT !.at = "saved", !.got = stamp]
           opened == [NoRequest EXCEPT !.path = old.path, !.base = stamp]
<1>1. /\ old.at = "replace" /\ written' = w
      /\ disk' = [disk EXCEPT ![old.path] = [version |-> w, by |-> "editor"]]
      /\ UNCHANGED <<place, contents>>
      /\ request' = [request EXCEPT ![r] = IF place = "remote" THEN saved
                                           ELSE opened]
  BY DEF ReplaceFile, WriteVersion, Opens
<1>2. /\ old.path \in Paths /\ w \in Nat /\ stamp \in Stamps
      /\ stamp.version = w /\ stamp.time = w
  BY <1>t DEF FileTypeOK, FileRequests, Stamps
<1>3. /\ saved \in FileRequests /\ saved.at = "saved" /\ saved.got = stamp
      /\ saved.base = old.base /\ opened \in FileRequests
  BY <1>t, <1>2, OpenedRequest DEF FileRequests
<1>r. place # "unset"
  BY <1>1, FreshRequest DEF FileInv, Unresolved
<1> HIDE DEF stamp, saved, opened
<1>4. FileTypeOK' /\ Unresolved'
  BY <1>1, <1>2, <1>3, <1>t, <1>r DEF FileTypeOK, Unresolved
<1>5. NothingNewer'
  BY <1>1, <1>2, <1>t DEF FileInv, FileTypeOK, NothingNewer
<1>6. ASSUME place = "remote", NEW x \in Requests
      PROVE  Sound(request[x])'
             /\ (InHandler(request'[x]) => InHandler(request[x]) /\ x # r)
  <2>1. Sound(request[x]) /\ Sound(old)
    BY <1>6 DEF FileInv, RemoteSound
  <2>2. CASE x = r
    <3>1. request'[x] = saved
      BY <1>1, <1>6, <2>2, <1>t DEF FileTypeOK
    <3> QED
      BY <1>2, <1>3, <2>1, <3>1 DEF Sound, Paired, InHandler
  <2>3. CASE x # r
    <3>1. request'[x] = request[x] /\ ~InHandler(request[x])
      BY <1>1, <1>6, <2>3, <1>t DEF FileInv, FileTypeOK, RemoteSound, InHandler
    <3> QED
      BY <2>1, <3>1 DEF Sound, InHandler
  <2> QED
    BY <2>2, <2>3
<1> QED
  BY <1>1, <1>4, <1>5, <1>6 DEF FileInv, RemoteSound

LEMMA CachesKeepFiles ==
  ASSUME FileInv,
         \/ ResolveSession \/ ListingExpires \/ UNCHANGED fileVars
         \/ \E p \in Paths : ContentExpires(p)
  PROVE  FileInv'
<1>t. FileTypeOK
  BY DEF FileInv
<1>1. CASE ResolveSession
  <2>1. /\ \A r \in Requests : request[r] = NoRequest
        /\ \A p \in Paths : contents[p] = Unread
        /\ place' \in {"local", "remote"}
        /\ UNCHANGED <<disk, written, contents, request>>
    BY <1>1 DEF ResolveSession, FileInv, Unresolved
  <2>2. Sound(NoRequest)' /\ ~InHandler(NoRequest)
    BY FreshRequest DEF Sound, InHandler
  <2> QED
    BY <1>t, <2>1, <2>2, FreshRequest
       DEF FileInv, FileTypeOK, Unresolved, NothingNewer, RemoteSound
<1>2. CASE ListingExpires \/ UNCHANGED fileVars
  BY <1>2, <1>t DEF ListingExpires, fileVars, FileInv, FileTypeOK, Unresolved,
       NothingNewer, RemoteSound, Sound
<1>3. CASE \E p \in Paths : ContentExpires(p)
  <2>1. PICK p \in Paths : ContentExpires(p)
    BY <1>3
  <2>2. /\ contents' = [contents EXCEPT ![p] = Unread] /\ contents[p] # Unread
        /\ UNCHANGED <<place, disk, written, request>>
    BY <2>1 DEF ContentExpires
  <2>3. contents' \in [Paths -> Stamps]
        /\ \A x \in Paths : contents'[x] \in {contents[x], Unread}
    BY <1>t, <2>2, FreshRequest DEF FileTypeOK
  <2> QED
    BY <1>t, <2>2, <2>3, FreshRequest
       DEF FileInv, FileTypeOK, Unresolved, NothingNewer, RemoteSound, Sound
<1> QED
  BY <1>1, <1>2, <1>3

LEMMA FileStepInv == FileInv /\ [FileNext]_fileVars => FileInv'
<1> SUFFICES ASSUME FileInv, [FileNext]_fileVars PROVE FileInv'
  OBVIOUS
<1>1. CASE \/ ResolveSession \/ ListingExpires \/ UNCHANGED fileVars
           \/ \E p \in Paths : ContentExpires(p)
  BY <1>1, CachesKeepFiles
<1>2. CASE \E p \in Paths : AgentWrites(p)
  BY <1>2, AgentKeepsFiles
<1>3. CASE \E r \in Requests : FileStep(r)
  <2>1. PICK r \in Requests : FileStep(r)
    BY <1>3
  <2>2. PICK p \in Paths : TRUE
    BY PathsAssumption
  <2> QED
    BY <2>1, <2>2, ReadsKeepFiles, ChecksKeepFiles, ReplaceKeepsFiles
       DEF FileStep
<1>4. CASE \E r \in Requests : \E p \in Paths :
             \/ ReadCached(r, p) \/ CheckCreate(r, p)
             \/ \E op \in {"read", "refresh", "raw"} : StatFile(r, p, op)
  BY <1>4, ReadsKeepFiles, ChecksKeepFiles
<1>5. CASE \E r \in Requests : \E p \in Paths :
             DeleteFile(r, p) \/ \E q \in Paths : MoveFile(r, p, q)
  BY <1>5, RemovalsKeepFiles
<1> QED
  BY <1>1, <1>2, <1>3, <1>4, <1>5 DEF FileNext

\* On a remote host a save replaces nothing newer than what its editor had
\* opened, whatever the cache held; what is lost is a write of the agent
\* between the daemon's check and its replacement.
THEOREM SavesSpareTheNewer == FileSpec => SavesReplaceNothingNewer
<1>1. ASSUME FileInv, NEW r \in Requests, place = "remote",
             request[r].op = "save", request[r].at = "replace"
      PROVE  /\ request[r].got.version <= request[r].base.version
             /\ disk[request[r].path].version # request[r].got.version =>
                  disk[request[r].path].by \in {"agent", "nobody"}
  BY <1>1 DEF FileInv, RemoteSound, Sound
<1>2. FileInv /\ [FileNext]_fileVars =>
        [\A r \in Requests :
           LET p == request[r].path
               checked == request[r].got.version
           IN place = "remote" /\ request[r].op = "save"
                /\ request[r].at = "replace" /\ request'[r].at # "replace"
              => /\ checked <= request[r].base.version
                 /\ disk[p].version # checked =>
                      disk[p].by \in {"agent", "nobody"}]_fileVars
  BY <1>1
<1> QED
  BY <1>2, FileStart, FileStepInv, PTL DEF FileSpec, SavesReplaceNothingNewer

-----------------------------------------------------------------------------
(* Texts sent to the terminal of an agent.                                 *)

SendSteps ==
  {"new", "plain", "keys", "enter", "typed", "verify", "command",
   "last enter", "done"}
Bringing == {"new", "plain", "keys", "command"}
Sends == [at : SendSteps, enters : Nat]

InputTypeOK ==
  /\ line \in Seq(Senders) /\ submitted \in Seq(Seq(Senders))
  /\ sender \in [Senders -> Sends]

\* A request that may still bring its text has brought it nowhere.
Unbrought(r) == sender[r].at \in Bringing
TextsBrought ==
  /\ \A i \in DOMAIN line : ~Unbrought(line[i])
  /\ \A k \in DOMAIN submitted : \A i \in DOMAIN submitted[k] :
       ~Unbrought(submitted[k][i])

\* No text is twice in the line, in the line and a submitted one, or twice in
\* what was submitted.
OnceInLine == \A i, j \in DOMAIN line : line[i] = line[j] => i = j
NotBoth ==
  \A k \in DOMAIN submitted : \A i \in DOMAIN submitted[k], j \in DOMAIN line :
    submitted[k][i] # line[j]
OnceSubmitted ==
  \A k, m \in DOMAIN submitted :
    \A i \in DOMAIN submitted[k], j \in DOMAIN submitted[m] :
      submitted[k][i] = submitted[m][j] => k = m /\ i = j

InputInv ==
  InputTypeOK /\ TextsBrought /\ OnceInLine /\ NotBoth /\ OnceSubmitted

LEMMA InputStart == InputInit => InputInv
<1> SUFFICES ASSUME InputInit PROVE InputInv
  OBVIOUS
<1>1. NewSend \in Sends
  BY DEF NewSend, Sends, SendSteps
<1>2. InputTypeOK
  BY <1>1 DEF InputInit, InputTypeOK
<1>3. DOMAIN line = {} /\ DOMAIN submitted = {}
  BY DEF InputInit
<1> QED
  BY <1>2, <1>3
     DEF InputInv, TextsBrought, OnceInLine, NotBoth, OnceSubmitted

\* A request's step that types nothing: the line stays or is emptied.
LEMMA QuietKeepsInput ==
  ASSUME InputInv, NEW r \in Senders,
         sender' \in [Senders -> Sends],
         \A x \in Senders \ {r} : sender'[x] = sender[x],
         sender'[r].at \in Bringing => Unbrought(r),
         line' \in {line, <<>>}, submitted' = submitted
  PROVE  InputInv'
<1>0. \A x \in Senders : ~Unbrought(x) => ~Unbrought(x)'
  BY DEF Unbrought
<1>1. CASE line' = line
  BY <1>0, <1>1 DEF InputInv, InputTypeOK, TextsBrought, OnceInLine, NotBoth,
       OnceSubmitted
<1>2. CASE line' = <<>>
  BY <1>0, <1>2 DEF InputInv, InputTypeOK, TextsBrought, OnceInLine, NotBoth,
       OnceSubmitted
<1> QED
  BY <1>1, <1>2

LEMMA TypingKeepsInput ==
  ASSUME InputInv, NEW r \in Senders,
         sender' \in [Senders -> Sends],
         Unbrought(r), sender'[r].at \notin Bringing,
         \A x \in Senders \ {r} : sender'[x] = sender[x],
         line' = Append(line, r), submitted' = submitted
  PROVE  InputInv'
<1>0. \A x \in Senders : ~Unbrought(x) => ~Unbrought(x)'
  BY DEF Unbrought
<1> USE DEF InputInv, InputTypeOK
<1>1. /\ line' \in Seq(Senders) /\ DOMAIN line' = 1..Len(line) + 1
      /\ DOMAIN line = 1..Len(line) /\ Len(line) \in Nat
      /\ line'[Len(line) + 1] = r
      /\ \A i \in DOMAIN line : line'[i] = line[i]
  OBVIOUS
<1>2. \A i \in DOMAIN line : line[i] \in Senders /\ line[i] # r
  BY DEF TextsBrought
<1>3. \A k \in DOMAIN submitted : \A i \in DOMAIN submitted[k] :
        submitted[k][i] \in Senders /\ submitted[k][i] # r
  <2>1. \A k \in DOMAIN submitted : submitted[k] \in Seq(Senders)
    OBVIOUS
  <2> QED
    BY <2>1 DEF TextsBrought
<1>4. OnceInLine'
  BY <1>1, <1>2 DEF OnceInLine
<1>5. NotBoth'
  BY <1>1, <1>3 DEF NotBoth
<1>6. TextsBrought'
  <2>1. ~Unbrought(r)'
    BY DEF Unbrought
  <2> QED
    BY <1>0, <1>1, <1>2, <1>3, <2>1 DEF TextsBrought
<1> QED
  BY <1>1, <1>4, <1>5, <1>6 DEF OnceSubmitted

LEMMA EnterKeepsInput ==
  ASSUME InputInv, NEW r \in Senders,
         sender' \in [Senders -> Sends],
         \A x \in Senders \ {r} : sender'[x] = sender[x],
         sender'[r].at \in Bringing => Unbrought(r),
         PressEnter
  PROVE  InputInv'
<1>0. \A x \in Senders : ~Unbrought(x) => ~Unbrought(x)'
  BY DEF Unbrought
<1> USE DEF InputInv, InputTypeOK
<1>1. CASE line = <<>>
  BY <1>1, QuietKeepsInput DEF PressEnter, Unbrought
<1>2. CASE line # <<>>
  <2> DEFINE n == Len(submitted)
  <2>1. line' = <<>> /\ submitted' = Append(submitted, line)
    BY <1>2 DEF PressEnter
  <2>2. /\ submitted' \in Seq(Seq(Senders)) /\ n \in Nat
        /\ DOMAIN submitted' = 1..n + 1 /\ DOMAIN submitted = 1..n
        /\ submitted'[n + 1] = line
        /\ \A k \in DOMAIN submitted : submitted'[k] = submitted[k]
    BY <2>1
  <2>3. /\ \A i \in DOMAIN line : line[i] \in Senders
        /\ \A k \in DOMAIN submitted : \A i \in DOMAIN submitted[k] :
             submitted[k][i] \in Senders
    <3>1. \A k \in DOMAIN submitted : submitted[k] \in Seq(Senders)
      OBVIOUS
    <3> QED
      BY <3>1
  <2> HIDE DEF n
  <2>4. TextsBrought'
    BY <1>0, <2>1, <2>2, <2>3 DEF TextsBrought
  <2>5. OnceSubmitted'
    BY <2>1, <2>2, <2>3 DEF OnceSubmitted, NotBoth, OnceInLine
  <2> QED
    BY <2>1, <2>2, <2>4, <2>5 DEF OnceInLine, NotBoth
<1> QED
  BY <1>1, <1>2

LEMMA InputStep == InputInv /\ [InputNext]_inputVars => InputInv'
<1> SUFFICES ASSUME InputInv, [InputNext]_inputVars PROVE InputInv'
  OBVIOUS
<1>t. InputTypeOK
  BY DEF InputInv
\* Where a step leaves its request.
<1>d. ASSUME NEW r \in Senders, NEW at \in SendSteps, Does(r, at)
      PROVE  /\ sender' \in [Senders -> Sends]
             /\ sender'[r].at = at
             /\ \A x \in Senders \ {r} : sender'[x] = sender[x]
  BY <1>d, <1>t DEF Does, InputTypeOK, Sends
<1>v. ASSUME NEW r \in Senders,
             sender' = [sender EXCEPT ![r].at = "verify", ![r].enters = @ + 1]
      PROVE  /\ sender' \in [Senders -> Sends]
             /\ sender'[r].at = "verify"
             /\ \A x \in Senders \ {r} : sender'[x] = sender[x]
  <2> DEFINE k == [at |-> "verify", enters |-> sender[r].enters + 1]
  <2>1. k \in Sends /\ k.at = "verify"
    <3>1. sender[r] \in Sends
      BY <1>t DEF InputTypeOK
    <3>2. sender[r].enters + 1 \in Nat
      BY <3>1 DEF Sends
    <3> QED
      BY <3>2, Zenon DEF Sends, SendSteps
  <2>2. sender' = [sender EXCEPT ![r] = k]
    BY <1>v, <1>t DEF InputTypeOK, Sends
  <2> HIDE DEF k
  <2> QED
    BY <1>t, <2>1, <2>2 DEF InputTypeOK
\* A request that has brought its text nowhere brings it, or goes on.
<1>b. ASSUME NEW r \in Senders, Unbrought(r),
             line' \in {line, Append(line, r)}, UNCHANGED submitted,
             \/ \E at \in {"enter", "typed", "last enter", "done"} :
                  Does(r, at)
             \/ line' = line /\ \E at \in {"plain", "keys"} : Does(r, at)
      PROVE  InputInv'
  <2>1. PICK at \in SendSteps : /\ Does(r, at)
                                /\ line' = line \/ at \notin Bringing
    BY <1>b DEF SendSteps, Bringing
  <2>2. CASE line' = line
    BY <1>b, <2>1, <2>2, <1>d, QuietKeepsInput
  <2>3. CASE line' = Append(line, r) /\ line' # line
    BY <1>b, <2>1, <2>3, <1>d, TypingKeepsInput
  <2> QED
    BY <1>b, <2>2, <2>3
<1>1. ASSUME NEW r \in Senders, PasteText(r) \/ PastePlain(r) \/ TypeLiteral(r)
      PROVE  InputInv'
  BY <1>1, <1>b DEF PasteText, PastePlain, TypeLiteral, Types, Replies, AtStep,
       Unbrought, Bringing
<1>2. ASSUME NEW r \in Senders,
             TypedOnly(r) \/ VerifySent(r) \/ DismissTrust(r)
      PROVE  InputInv'
  <2>1. /\ \E at \in {"done", "enter"} : Does(r, at)
        /\ UNCHANGED <<line, submitted>>
    BY <1>2 DEF TypedOnly, VerifySent, DismissTrust, Replies
  <2> QED
    BY <2>1, <1>d, QuietKeepsInput DEF SendSteps, Bringing
<1>3. ASSUME NEW r \in Senders, SendEnter(r) PROVE InputInv'
  <2>1. CASE Replies(r, "failed") /\ UNCHANGED <<line, submitted>>
    BY <2>1, <1>d, QuietKeepsInput DEF Replies, SendSteps, Bringing
  <2>3. CASE Replies(r, "failed") /\ PressEnter
    BY <2>3, <1>d, EnterKeepsInput DEF Replies, SendSteps, Bringing
  <2>2. CASE /\ PressEnter
             /\ sender' = [sender EXCEPT ![r].at = "verify",
                                         ![r].enters = @ + 1]
    BY <2>2, <1>v, EnterKeepsInput DEF Bringing
  <2> QED
    BY <1>3, <2>1, <2>2, <2>3 DEF SendEnter
<1>4. ASSUME NEW r \in Senders, EnterSwallowed(r) PROVE InputInv'
  BY <1>4, <1>v, QuietKeepsInput DEF EnterSwallowed, Bringing
<1>5. ASSUME NEW r \in Senders, Interrupt(r) PROVE InputInv'
  BY <1>5, <1>d, QuietKeepsInput DEF Interrupt, AtStep, SendSteps, Unbrought,
       Bringing
<1>6. ASSUME NEW r \in Senders, TypeCommand(r) PROVE InputInv'
  BY <1>6, <1>b DEF TypeCommand, AtStep, Unbrought, Bringing
<1>7. ASSUME NEW r \in Senders, CommandEnter(r) PROVE InputInv'
  <2>1. CASE PressEnter
    BY <1>7, <2>1, <1>d, EnterKeepsInput DEF CommandEnter, Replies, SendSteps,
         Bringing
  <2>2. CASE UNCHANGED <<line, submitted>>
    BY <1>7, <2>2, <1>d, QuietKeepsInput DEF CommandEnter, Replies, SendSteps,
         Bringing
  <2> QED
    BY <1>7, <2>1, <2>2 DEF CommandEnter
<1>8. CASE UNCHANGED inputVars
  BY <1>8 DEF inputVars, InputInv, InputTypeOK, TextsBrought, Unbrought,
       OnceInLine, NotBoth, OnceSubmitted
<1> QED
  BY <1>1, <1>2, <1>3, <1>4, <1>5, <1>6, <1>7, <1>8 DEF InputNext

\* Whoever presses Enter, and however often, the agent is given each request's
\* text at most once.
THEOREM TextsAreGivenOnce == InputSpec => []GivenAtMostOnce
<1>1. InputInv => GivenAtMostOnce
  <2> SUFFICES ASSUME InputInv PROVE GivenAtMostOnce
    OBVIOUS
  <2> DEFINE lines == Append(submitted, line)
             n == Len(submitted)
  <2>1. /\ n \in Nat /\ DOMAIN lines = 1..n + 1 /\ lines[n + 1] = line
        /\ DOMAIN submitted = 1..n
        /\ \A k \in 1..n : lines[k] = submitted[k]
    BY DEF InputInv, InputTypeOK
  <2> HIDE DEF lines, n
  <2>2. ASSUME NEW k \in DOMAIN lines, NEW m \in DOMAIN lines,
               NEW i \in DOMAIN lines[k], NEW j \in DOMAIN lines[m],
               lines[k][i] = lines[m][j]
        PROVE  k = m /\ i = j
    BY <2>1, <2>2 DEF InputInv, OnceInLine, NotBoth, OnceSubmitted
  <2> QED
    BY <2>2 DEF GivenAtMostOnce, lines
<1> QED
  BY <1>1, InputStart, InputStep, PTL DEF InputSpec

-----------------------------------------------------------------------------
(* Backups of the database.                                                *)

Archives == [second : 0..MaxTime, complete : BOOLEAN]
BackupSteps ==
  [at : {"idle", "write", "close", "list", "prune"}, second : 0..MaxTime,
   old : SUBSET Archives]

BackupTypeOK ==
  /\ archives \subseteq Archives /\ IsFiniteSet(archives)
  /\ backup \in [Backups -> BackupSteps]
  /\ time \in 0..MaxTime /\ failures \in 0..MaxFailures
  /\ succeeded \in BOOLEAN /\ clash \in BOOLEAN /\ overtaken \in BOOLEAN

\* Unless two backups began in one second: a backup has a name of its own,
\* nothing has that name before it writes, and what has it afterwards is
\* complete.
OwnNames ==
  /\ \A b, c \in Backups :
       backup[b].at # "idle" /\ backup[c].at # "idle"
         /\ backup[b].second = backup[c].second => b = c
  /\ \A b \in Backups : \A a \in archives :
       a.second = backup[b].second =>
         /\ backup[b].at # "write"
         /\ backup[b].at \in {"list", "prune"} => a.complete

\* At least as many archives as are kept have a later name.
Outnumbered(second) == Cardinality(Newer(second)) >= Retention

\* That is so of what is listed for removal, and of an archive that was removed
\* before its backup looked for old ones.
ListedHaveNewer ==
  \A b \in Backups :
    backup[b].at = "prune" =>
      IF Retention = 0 THEN backup[b].old = {}
      ELSE \A a \in backup[b].old : Outnumbered(a.second)
GoneHaveNewer ==
  Retention # 0 =>
    \A b \in Backups : backup[b].at \in {"close", "list"} =>
      backup[b].second \in Names \/ Outnumbered(backup[b].second)

\* Whatever the backups are about to remove, by lists that may be stale, there
\* is a complete archive that is newer than all of it.
Doomed == UNION {backup[b].old : b \in {c \in Backups : backup[c].at = "prune"}}
NewerThan(as) == \E c \in archives : c.complete
                                     /\ \A a \in as : a.second < c.second
DoomedAreOlder == Doomed # {} => NewerThan(Doomed)

HasComplete == succeeded => \E a \in archives : a.complete

BackupInv ==
  /\ BackupTypeOK
  /\ ListedHaveNewer /\ GoneHaveNewer
  /\ ~clash /\ ~overtaken => OwnNames /\ DoomedAreOlder /\ HasComplete

-----------------------------------------------------------------------------
LEMMA LeastByOrder ==
  ASSUME NEW Less, IsWellFoundedOn(Less, Nat),
         \A x, y \in Nat : <<y, x>> \in Less <=> y < x,
         NEW T \in SUBSET Nat, T # {}
  PROVE  \E x \in T : \A y \in T : x <= y
<1>1. PICK x \in T : \A y \in T : ~ (<<y, x>> \in Less)
  BY WFMin
<1>2. ASSUME NEW y \in T PROVE x <= y
  <2>1. x \in Nat /\ y \in Nat
    OBVIOUS
  <2>2. ~ (y < x)
    BY <1>1, <2>1
  <2> QED
    BY <2>1, <2>2
<1> QED
  BY <1>2

LEMMA LeastNumber ==
  ASSUME NEW T \in SUBSET Nat, T # {}
  PROVE  \E x \in T : \A y \in T : x <= y
<1>1. \A x, y \in Nat : <<y, x>> \in OpToRel(<, Nat) <=> y < x
  BY DEF OpToRel
<1> QED
  BY <1>1, NatLessThanWellFounded, LeastByOrder, Zenon

\* Among complete archives there is a newest.
LEMMA NewestComplete ==
  ASSUME archives \subseteq Archives, NEW a \in archives, a.complete
  PROVE  \E c \in archives :
           c.complete /\ \A d \in archives : d.complete => d.second <= c.second
<1> DEFINE T == {MaxTime - d.second : d \in {x \in archives : x.complete}}
<1>1. \A d \in archives : d.second \in 0..MaxTime
  BY DEF Archives
<1>2. T \in SUBSET Nat /\ T # {}
  BY <1>1, BackupBounds
<1>3. PICK n \in T : \A m \in T : n <= m
  BY <1>2, LeastNumber
<1>4. PICK c \in archives : c.complete /\ n = MaxTime - c.second
  BY <1>3
<1>5. ASSUME NEW d \in archives, d.complete PROVE d.second <= c.second
  <2>1. MaxTime - c.second <= MaxTime - d.second
    BY <1>3, <1>4, <1>5
  <2> QED
    BY <2>1, <1>1, BackupBounds
<1> QED
  BY <1>4, <1>5

LEMMA NamesAreFinite ==
  ASSUME BackupTypeOK
  PROVE  /\ Names \subseteq 0..MaxTime /\ IsFiniteSet(Names)
         /\ \A x : IsFiniteSet(Newer(x)) /\ Cardinality(Newer(x)) \in Nat
<1>1. Names \subseteq 0..MaxTime
  BY DEF BackupTypeOK, Archives, Names
<1>2. IsFiniteSet(Names)
  <2>1. IsFiniteSet(0..MaxTime)
    BY FS_Interval, BackupBounds
  <2> QED
    BY <1>1, <2>1, FS_Subset
<1>3. ASSUME NEW x PROVE IsFiniteSet(Newer(x)) /\ Cardinality(Newer(x)) \in Nat
  <2>1. Newer(x) \subseteq Names
    BY DEF Newer
  <2> QED
    BY <2>1, <1>2, FS_Subset, FS_CardinalityType
<1> QED
  BY <1>1, <1>2, <1>3

\* As long as no name goes, what has many newer ones keeps them.
LEMMA MoreNamesMoreNewer ==
  ASSUME BackupTypeOK', Names \subseteq Names', NEW x, Outnumbered(x)
  PROVE  Cardinality({n \in Names' : n > x}) >= Retention
<1> DEFINE later == {n \in Names' : n > x}
<1>1. IsFiniteSet(Names')
  <2>1. IsFiniteSet(0..MaxTime)
    BY FS_Interval, BackupBounds
  <2>2. Names' \subseteq 0..MaxTime
    BY DEF BackupTypeOK, Archives, Names
  <2> QED
    BY <2>1, <2>2, FS_Subset
<1>2. later \subseteq Names' /\ Newer(x) \subseteq later
  BY DEF Newer
<1> HIDE DEF later
<1>3. /\ IsFiniteSet(later) /\ IsFiniteSet(Newer(x))
      /\ Cardinality(Newer(x)) <= Cardinality(later)
  BY <1>1, <1>2, FS_Subset
<1>4. Cardinality(Newer(x)) \in Nat /\ Cardinality(later) \in Nat
  BY <1>3, FS_CardinalityType
<1>5. Cardinality(later) >= Retention
  BY <1>3, <1>4, BackupBounds DEF Outnumbered
<1> QED
  BY <1>5 DEF later

LEMMA KeepsNewer ==
  ASSUME BackupTypeOK, BackupTypeOK', ListedHaveNewer, GoneHaveNewer,
         Names \subseteq Names',
         \A c \in Backups :
           \/ UNCHANGED backup[c]
           \/ backup'[c].at \in {"idle", "write"}
           \/ backup'[c].at = "close" /\ backup'[c].second \in Names'
           \/ /\ backup'[c].at = "list" /\ backup[c].at = "close"
              /\ backup'[c].second = backup[c].second
  PROVE  ListedHaveNewer' /\ GoneHaveNewer'
<1>1. ASSUME NEW c \in Backups, backup'[c].at = "prune"
      PROVE  IF Retention = 0 THEN backup'[c].old = {}
             ELSE \A a \in backup'[c].old :
                    Cardinality({n \in Names' : n > a.second}) >= Retention
  BY <1>1, MoreNamesMoreNewer DEF ListedHaveNewer
<1>2. ASSUME NEW c \in Backups, backup'[c].at \in {"close", "list"},
             Retention # 0
      PROVE  \/ backup'[c].second \in Names'
             \/ Cardinality({n \in Names' : n > backup'[c].second})
                  >= Retention
  BY <1>2, MoreNamesMoreNewer DEF GoneHaveNewer
<1> QED
  BY <1>1, <1>2 DEF ListedHaveNewer, GoneHaveNewer, Outnumbered, Newer

\* What is removed has many newer ones, and the newest of it many that stay.
LEMMA PruneLeavesNewer ==
  ASSUME BackupTypeOK, ListedHaveNewer, Retention # 0,
         NEW b \in Backups, Prune(b), NEW x \in 0..MaxTime, Outnumbered(x)
  PROVE  Cardinality({n \in Names' : n > x}) >= Retention
<1> DEFINE old == {a.second : a \in backup[b].old}
           later == {n \in Names' : n > x}
           gone == Newer(x) \cap old
<1>1. /\ backup[b].at = "prune"
      /\ Names' = Names \ old
  BY DEF Prune, Names
<1>2. \A y \in old : Outnumbered(y)
  BY <1>1 DEF ListedHaveNewer
<1>3. /\ Names \subseteq 0..MaxTime /\ IsFiniteSet(Names)
      /\ \A y : IsFiniteSet(Newer(y)) /\ Cardinality(Newer(y)) \in Nat
  BY NamesAreFinite
<1>4. later \subseteq Names /\ gone \subseteq 0..MaxTime
  BY <1>1, <1>3 DEF Newer
<1> HIDE DEF old
<1>5. \E y : Outnumbered(y) /\ Newer(y) \subseteq later
  <2>1. CASE gone = {}
    <3>1. Newer(x) \subseteq later
      BY <2>1, <1>1 DEF Newer
    <3> QED
      BY <3>1
  <2>2. CASE gone # {}
    <3> DEFINE T == {MaxTime - y : y \in gone}
    <3>1. T \in SUBSET Nat /\ T # {}
      BY <2>2, <1>4, BackupBounds
    <3>2. PICK n \in T : \A m \in T : n <= m
      BY <3>1, LeastNumber
    <3>3. PICK y \in gone : n = MaxTime - y
      BY <3>2
    <3>4. \A z \in gone : z <= y
      <4>1. ASSUME NEW z \in gone PROVE z <= y
        <5>1. MaxTime - y <= MaxTime - z
          BY <3>2, <3>3
        <5> QED
          BY <5>1, <1>4, BackupBounds
      <4> QED
        BY <4>1
    <3>5. Outnumbered(y)
      BY <1>2
    <3>6. Newer(y) \subseteq later
      <4>1. y > x /\ y \in 0..MaxTime
        BY <1>4 DEF Newer
      <4>2. ASSUME NEW z \in Newer(y) PROVE z \in later
        <5>1. z \in Names /\ z > y /\ z \in 0..MaxTime
          BY <4>2, <1>3 DEF Newer
        <5>2. z > x
          BY <4>1, <5>1, BackupBounds
        <5>3. z \notin gone
          BY <3>4, <4>1, <5>1, BackupBounds
        <5>4. z \notin old
          BY <5>1, <5>2, <5>3 DEF Newer
        <5> QED
          BY <1>1, <5>1, <5>2, <5>4
      <4> QED
        BY <4>2
    <3> QED
      BY <3>5, <3>6
  <2> QED
    BY <2>1, <2>2
<1>6. PICK y : Outnumbered(y) /\ Newer(y) \subseteq later
  BY <1>5
<1> HIDE DEF later
<1>7. /\ IsFiniteSet(later)
      /\ Cardinality(Newer(y)) <= Cardinality(later)
      /\ Cardinality(Newer(y)) \in Nat /\ Cardinality(later) \in Nat
  BY <1>3, <1>4, <1>6, FS_Subset, FS_CardinalityType
<1>8. Cardinality(later) >= Retention
  BY <1>6, <1>7, BackupBounds DEF Outnumbered
<1> QED
  BY <1>8 DEF later

\* Of two archives the later one has fewer newer ones.
LEMMA LaterHasFewer ==
  ASSUME BackupTypeOK, NEW x \in Nat, NEW y \in Nat,
         Outnumbered(x), ~Outnumbered(y)
  PROVE  x < y
<1>1. /\ Names \subseteq 0..MaxTime
      /\ \A z : IsFiniteSet(Newer(z)) /\ Cardinality(Newer(z)) \in Nat
  BY NamesAreFinite
<1>2. SUFFICES ASSUME y <= x PROVE FALSE
  OBVIOUS
<1>3. Newer(x) \subseteq Newer(y)
  <2>1. ASSUME NEW z \in Names, z > x PROVE z > y
    <3>1. z \in Nat
      BY <1>1, BackupBounds
    <3> QED
      BY <1>2, <2>1, <3>1
  <2> QED
    BY <2>1 DEF Newer
<1>4. Cardinality(Newer(x)) <= Cardinality(Newer(y))
  BY <1>1, <1>3, FS_Subset
<1> QED
  BY <1>1, <1>4, BackupBounds DEF Outnumbered

-----------------------------------------------------------------------------
LEMMA BackupStart == BackupInit => BackupInv
<1> SUFFICES ASSUME BackupInit PROVE BackupInv
  OBVIOUS
<1>1. NoBackup \in BackupSteps /\ NoBackup.at = "idle"
  BY BackupBounds DEF NoBackup, BackupSteps
<1>2. BackupTypeOK
  <2>1. IsFiniteSet(archives)
    BY FS_EmptySet DEF BackupInit
  <2>2. time \in 0..MaxTime /\ failures \in 0..MaxFailures
    BY BackupBounds DEF BackupInit
  <2> QED
    BY <1>1, <2>1, <2>2 DEF BackupInit, BackupTypeOK
<1>3. \A b \in Backups : backup[b].at = "idle"
  BY <1>1 DEF BackupInit
<1>4. OwnNames /\ HasComplete /\ ListedHaveNewer /\ GoneHaveNewer
  BY <1>3 DEF BackupInit, OwnNames, HasComplete, ListedHaveNewer, GoneHaveNewer
<1>5. DoomedAreOlder
  <2>1. Doomed = {}
    BY <1>3 DEF Doomed
  <2> QED
    BY <2>1 DEF DoomedAreOlder
<1> QED
  BY <1>2, <1>4, <1>5 DEF BackupInv

LEMMA OthersKeepBackups ==
  ASSUME BackupInv, Tick \/ UNCHANGED retentionVars
  PROVE  BackupInv'
<1>1. UNCHANGED <<archives, succeeded, clash, overtaken, backup, failures>>
      /\ time' \in 0..MaxTime
  BY BackupBounds DEF Tick, retentionVars, BackupInv, BackupTypeOK
<1> QED
  BY <1>1 DEF BackupInv, BackupTypeOK, OwnNames, ListedHaveNewer,
       GoneHaveNewer, Outnumbered, Newer, Names, DoomedAreOlder, Doomed,
       NewerThan, HasComplete

LEMMA BeginKeepsBackups ==
  ASSUME BackupInv, NEW b \in Backups, BeginBackup(b)
  PROVE  BackupInv'
<1>t. BackupTypeOK
  BY DEF BackupInv
<1> DEFINE r == [backup[b] EXCEPT !.at = "write", !.second = time]
<1>1. /\ backup[b] \in BackupSteps
      /\ r \in BackupSteps /\ r.at = "write" /\ r.second = time
      /\ backup[b].at = "idle"
  BY <1>t DEF BackupSteps, BackupTypeOK, BeginBackup
<1>2. backup' = [backup EXCEPT ![b] = r]
  BY <1>t DEF BeginBackup, BackupTypeOK, BackupSteps
<1>3. UNCHANGED <<archives, succeeded, overtaken, time, failures>>
  BY DEF BeginBackup
<1> HIDE DEF r
<1>4. clash' \in BOOLEAN
  BY DEF BeginBackup
<1>5. BackupTypeOK'
  BY <1>t, <1>1, <1>2, <1>3, <1>4 DEF BackupTypeOK
<1>6. ListedHaveNewer' /\ GoneHaveNewer'
  <2>1. Names' = Names
    BY <1>3 DEF Names
  <2>2. \A c \in Backups : backup'[c] = IF c = b THEN r ELSE backup[c]
    BY <1>t, <1>2 DEF BackupTypeOK
  <2> QED
    BY <2>1, <2>2, <1>t, <1>1, <1>5, KeepsNewer DEF BackupInv
<1>7. ASSUME ~clash' /\ ~overtaken
      PROVE OwnNames' /\ DoomedAreOlder' /\ HasComplete'
  <2>1. ~clash /\ Named(time) = {}
        /\ \A c \in Backups : backup[c].at # "idle" => backup[c].second # time
    BY <1>7 DEF BeginBackup
  <2>2. OwnNames /\ DoomedAreOlder /\ HasComplete
    BY <2>1, <1>7 DEF BackupInv
  <2>3. OwnNames'
    BY <2>1, <2>2, <1>t, <1>1, <1>2, <1>3 DEF OwnNames, BackupTypeOK, Named
  <2>4. Doomed' = Doomed
    BY <1>t, <1>1, <1>2 DEF Doomed, BackupTypeOK
  <2> QED
    BY <2>2, <2>3, <2>4, <1>3 DEF DoomedAreOlder, NewerThan, HasComplete
<1> QED
  BY <1>3, <1>5, <1>6, <1>7 DEF BackupInv

\* A new file of the backup's own name: no other archive is touched.
LEMMA OpenKeepsBackups ==
  ASSUME BackupInv, NEW b \in Backups, OpenArchive(b)
  PROVE  BackupInv'
<1>t. BackupTypeOK
  BY DEF BackupInv
<1> DEFINE r == [backup[b] EXCEPT !.at = "close"]
           new == [second |-> backup[b].second, complete |-> FALSE]
<1>1. /\ backup[b] \in BackupSteps /\ backup[b].at = "write"
      /\ r \in BackupSteps /\ r.at = "close" /\ r.second = backup[b].second
      /\ new \in Archives /\ new.second = backup[b].second /\ ~new.complete
  BY <1>t DEF BackupSteps, BackupTypeOK, OpenArchive, Archives
<1>2. backup' = [backup EXCEPT ![b] = r]
  BY <1>t DEF OpenArchive, BackupStep, BackupTypeOK, BackupSteps
<1>3. /\ archives' = (archives \ Named(backup[b].second)) \cup {new}
      /\ UNCHANGED <<succeeded, clash, overtaken, time, failures>>
  BY DEF OpenArchive
<1> HIDE DEF r, new
<1>4. BackupTypeOK'
  <2>1. IsFiniteSet(archives \ Named(backup[b].second))
    BY <1>t, FS_Subset DEF BackupTypeOK
  <2>2. IsFiniteSet(archives')
    BY <2>1, <1>3, FS_AddElement
  <2> QED
    BY <2>2, <1>t, <1>1, <1>2, <1>3 DEF BackupTypeOK
<1>5. ListedHaveNewer' /\ GoneHaveNewer'
  <2>1. Names \subseteq Names' /\ r.second \in Names'
    BY <1>1, <1>3 DEF Names, Named
  <2>2. \A c \in Backups : backup'[c] = IF c = b THEN r ELSE backup[c]
    BY <1>t, <1>2 DEF BackupTypeOK
  <2> QED
    BY <2>1, <2>2, <1>t, <1>1, <1>4, KeepsNewer DEF BackupInv
<1>6. ASSUME ~clash /\ ~overtaken
      PROVE OwnNames' /\ DoomedAreOlder' /\ HasComplete'
  <2>1. OwnNames /\ DoomedAreOlder /\ HasComplete
    BY <1>6 DEF BackupInv
  <2>2. archives' = archives \cup {new}
    BY <2>1, <1>1, <1>3 DEF OwnNames, Named
  <2>3. OwnNames'
    BY <2>1, <2>2, <1>t, <1>1, <1>2 DEF OwnNames, BackupTypeOK
  <2>4. Doomed' = Doomed
    BY <1>t, <1>1, <1>2 DEF Doomed, BackupTypeOK
  <2> QED
    BY <2>1, <2>2, <2>3, <2>4, <1>3 DEF DoomedAreOlder, NewerThan, HasComplete
<1> QED
  BY <1>3, <1>4, <1>5, <1>6 DEF BackupInv

LEMMA CloseKeepsBackups ==
  ASSUME BackupInv, NEW b \in Backups, CloseArchive(b)
  PROVE  BackupInv'
<1>t. BackupTypeOK
  BY DEF BackupInv
<1> DEFINE r == [backup[b] EXCEPT !.at = "list"]
           mine == Named(backup[b].second)
           done == {[a EXCEPT !.complete = TRUE] : a \in mine}
<1>1. /\ backup[b] \in BackupSteps /\ backup[b].at = "close"
      /\ r \in BackupSteps /\ r.at = "list" /\ r.second = backup[b].second
  BY <1>t DEF BackupSteps, BackupTypeOK, CloseArchive
<1>2. backup' = [backup EXCEPT ![b] = r]
  BY <1>t DEF CloseArchive, BackupStep, BackupTypeOK, BackupSteps
<1>3. /\ archives' = (archives \ mine) \cup done
      /\ UNCHANGED <<succeeded, clash, overtaken, time, failures>>
  BY DEF CloseArchive
<1>4. /\ \A a \in done : a \in Archives /\ a.complete
                         /\ a.second = backup[b].second
      /\ \A a \in mine : \E d \in done : d.second = a.second
      /\ \A a \in archives : a \in mine <=> a.second = backup[b].second
  <2>1. \A a \in archives : a \in mine <=> a.second = backup[b].second
    BY DEF Named
  <2>2. ASSUME NEW a \in mine
        PROVE  LET d == [a EXCEPT !.complete = TRUE]
               IN d \in Archives /\ d.complete /\ d.second = a.second
                  /\ a.second = backup[b].second /\ d \in done
    BY <1>t DEF BackupTypeOK, Archives, Named
  <2> QED
    BY <2>1, <2>2
<1>5. IsFiniteSet(done)
  <2> DEFINE d == [second |-> backup[b].second, complete |-> TRUE]
  <2>1. done \subseteq {d}
    BY <1>4 DEF Archives
  <2> HIDE DEF done, d
  <2> QED
    BY <2>1, FS_Singleton, FS_Subset
<1> HIDE DEF r, mine, done
<1>6. BackupTypeOK'
  <2>1. IsFiniteSet(archives \ mine)
    BY <1>t, FS_Subset DEF BackupTypeOK
  <2>2. IsFiniteSet(archives')
    BY <2>1, <1>3, <1>5, FS_Union
  <2> QED
    BY <2>2, <1>t, <1>1, <1>2, <1>3, <1>4 DEF BackupTypeOK
<1>7. ListedHaveNewer' /\ GoneHaveNewer'
  <2>1. Names \subseteq Names'
    BY <1>3, <1>4 DEF Names
  <2>2. \A c \in Backups : backup'[c] = IF c = b THEN r ELSE backup[c]
    BY <1>t, <1>2 DEF BackupTypeOK
  <2> QED
    BY <2>1, <2>2, <1>t, <1>1, <1>6, KeepsNewer DEF BackupInv
<1>8. ASSUME ~clash /\ ~overtaken
      PROVE OwnNames' /\ DoomedAreOlder' /\ HasComplete'
  <2>1. OwnNames /\ DoomedAreOlder /\ HasComplete
    BY <1>8 DEF BackupInv
  \* A complete archive stays, completed again at most.
  <2>2. \A a \in archives : a.complete =>
          \E d \in archives' : d.complete /\ d.second = a.second
    BY <1>3, <1>4
  <2>3. OwnNames'
    <3>1. \A a \in archives' :
            \/ a \in archives /\ a.second # backup[b].second
            \/ a.second = backup[b].second /\ a.complete
      BY <1>3, <1>4
    <3>2. \A c \in Backups : backup'[c] = IF c = b THEN r ELSE backup[c]
      BY <1>t, <1>2 DEF BackupTypeOK
    <3>3. \A c \in Backups \ {b} : backup[c].at # "idle" =>
            backup[c].second # backup[b].second
      BY <2>1, <1>1 DEF OwnNames
    <3> QED
      BY <2>1, <1>1, <3>1, <3>2, <3>3 DEF OwnNames
  <2>4. Doomed' = Doomed
    BY <1>t, <1>1, <1>2 DEF Doomed, BackupTypeOK
  <2>5. DoomedAreOlder'
    BY <2>1, <2>2, <2>4 DEF DoomedAreOlder, NewerThan
  <2> QED
    BY <2>1, <2>2, <2>3, <2>5, <1>3 DEF HasComplete
<1> QED
  BY <1>3, <1>6, <1>7, <1>8 DEF BackupInv

\* What a run that fails wrote stays, complete or not.
LEMMA FailKeepsBackups ==
  ASSUME BackupInv, NEW b \in Backups, BackupFails(b)
  PROVE  BackupInv'
<1>t. BackupTypeOK
  BY DEF BackupInv
<1>n. NoBackup \in BackupSteps /\ NoBackup.at = "idle"
  BY BackupBounds DEF NoBackup, BackupSteps
<1>1. /\ backup[b].at \in {"write", "close"}
      /\ failures' \in 0..MaxFailures
      /\ backup' = [backup EXCEPT ![b] = NoBackup]
      /\ UNCHANGED <<archives, succeeded, clash, overtaken, time>>
  BY <1>t, BackupBounds DEF BackupFails, EndBackup, BackupTypeOK
<1>2. BackupTypeOK'
  BY <1>t, <1>n, <1>1 DEF BackupTypeOK
<1>3. ListedHaveNewer' /\ GoneHaveNewer'
  <2>1. Names' = Names
    BY <1>1 DEF Names
  <2>2. \A c \in Backups : backup'[c] = IF c = b THEN NoBackup ELSE backup[c]
    BY <1>t, <1>1 DEF BackupTypeOK
  <2> QED
    BY <2>1, <2>2, <1>t, <1>n, <1>2, KeepsNewer DEF BackupInv
<1>4. ASSUME ~clash /\ ~overtaken
      PROVE OwnNames' /\ DoomedAreOlder' /\ HasComplete'
  <2>1. OwnNames /\ DoomedAreOlder /\ HasComplete
    BY <1>4 DEF BackupInv
  <2>2. OwnNames'
    BY <2>1, <1>t, <1>n, <1>1 DEF OwnNames, BackupTypeOK
  <2>3. Doomed' = Doomed
    BY <1>t, <1>n, <1>1 DEF Doomed, BackupTypeOK
  <2> QED
    BY <2>1, <2>2, <2>3, <1>1 DEF DoomedAreOlder, NewerThan, HasComplete
<1> QED
  BY <1>1, <1>2, <1>3, <1>4 DEF BackupInv

\* A backup that is not overtaken still has its archive, complete and newer
\* than what it lists; so the newest complete archive is newer than that and
\* than what other backups listed before.
LEMMA ListKeepsBackups ==
  ASSUME BackupInv, NEW b \in Backups, ListOld(b)
  PROVE  BackupInv'
<1>t. BackupTypeOK
  BY DEF BackupInv
<1> DEFINE as == IF Retention = 0 THEN {} ELSE Oldest
           r == [backup[b] EXCEPT !.at = "prune", !.old = as]
<1>0. as \subseteq archives
  BY DEF Oldest
<1>1. /\ backup[b] \in BackupSteps /\ backup[b].at = "list"
      /\ r \in BackupSteps /\ r.at = "prune" /\ r.second = backup[b].second
      /\ r.old = as
  <2>1. as \in SUBSET Archives
    BY <1>0, <1>t DEF BackupTypeOK
  <2> HIDE DEF as
  <2> QED
    BY <2>1, <1>t DEF BackupSteps, BackupTypeOK, ListOld
<1>2. backup' = [backup EXCEPT ![b] = r]
  BY <1>t DEF ListOld, BackupTypeOK, BackupSteps
<1>3. /\ UNCHANGED <<archives, succeeded, clash, time, failures>>
      /\ overtaken' = (\/ overtaken
                       \/ Retention # 0 /\ Outnumbered(backup[b].second))
  BY DEF ListOld, Outnumbered
<1> HIDE DEF r
<1>4. BackupTypeOK'
  BY <1>t, <1>1, <1>2, <1>3 DEF BackupTypeOK
<1>c. \A c \in Backups : backup'[c] = IF c = b THEN r ELSE backup[c]
  BY <1>t, <1>2 DEF BackupTypeOK
<1>5. ListedHaveNewer' /\ GoneHaveNewer'
  <2>1. \A x : {n \in Names' : n > x} = Newer(x)
    BY <1>3 DEF Newer, Names
  <2>2. \A c \in Backups : backup'[c].at = "prune" =>
          IF Retention = 0 THEN backup'[c].old = {}
          ELSE \A a \in backup'[c].old : Outnumbered(a.second)
    BY <1>1, <1>c DEF BackupInv, ListedHaveNewer, Oldest, Outnumbered
  <2>3. Retention # 0 =>
          \A c \in Backups : backup'[c].at \in {"close", "list"} =>
            backup'[c].second \in Names \/ Outnumbered(backup'[c].second)
    BY <1>1, <1>c DEF BackupInv, GoneHaveNewer
  <2>4. Names' = Names
    BY <1>3 DEF Names
  <2> QED
    BY <2>1, <2>2, <2>3, <2>4
       DEF ListedHaveNewer, GoneHaveNewer, Outnumbered, Newer
<1>6. ASSUME ~clash /\ ~overtaken'
      PROVE OwnNames' /\ DoomedAreOlder' /\ HasComplete'
  <2>1. /\ OwnNames /\ DoomedAreOlder /\ HasComplete
        /\ Retention # 0 => ~Outnumbered(backup[b].second)
    BY <1>3, <1>6 DEF BackupInv
  <2>2. OwnNames'
    BY <2>1, <1>t, <1>1, <1>2, <1>3 DEF OwnNames, BackupTypeOK
  <2>3. Doomed' \subseteq Doomed \cup as
    <3> HIDE DEF as
    <3> QED
      BY <1>t, <1>1, <1>2 DEF Doomed, BackupTypeOK
  <2>4. \A a \in as : \E c \in archives : c.complete /\ a.second < c.second
    <3> SUFFICES ASSUME Retention # 0, NEW a \in Oldest
                 PROVE  \E c \in archives : c.complete /\ a.second < c.second
      OBVIOUS
    <3>1. PICK c \in archives : c.second = backup[b].second
      BY <2>1, <1>1 DEF BackupInv, GoneHaveNewer, Names
    <3>2. c.complete
      BY <2>1, <3>1, <1>1 DEF OwnNames
    <3>3. a.second \in Nat /\ c.second \in Nat /\ Outnumbered(a.second)
      BY <1>t DEF BackupTypeOK, Archives, Oldest, Outnumbered
    <3>4. a.second < c.second
      BY <3>1, <3>3, <2>1, <1>t, LaterHasFewer
    <3> QED
      BY <3>2, <3>4
  <2>5. Doomed \subseteq Archives /\ as \subseteq Archives
    BY <1>0, <1>t DEF Doomed, BackupTypeOK, BackupSteps
  <2> HIDE DEF as
  <2>6. DoomedAreOlder'
    <3> SUFFICES ASSUME Doomed' # {} PROVE NewerThan(Doomed)'
      BY DEF DoomedAreOlder
    <3>1. \E c \in archives : c.complete
      BY <2>1, <2>3, <2>4 DEF DoomedAreOlder, NewerThan
    <3>2. PICK c \in archives :
            c.complete /\ \A d \in archives : d.complete => d.second <= c.second
      BY <3>1, <1>t, NewestComplete DEF BackupTypeOK
    <3>3. \A d \in archives : d.second \in Nat
      BY <1>t DEF BackupTypeOK, Archives
    <3>4. \A a \in Archives : a.second \in Nat
      BY DEF Archives
    <3>5. ASSUME NEW a \in as PROVE a.second < c.second
      <4>1. PICK d \in archives : d.complete /\ a.second < d.second
        BY <2>4
      <4>2. /\ d.second <= c.second /\ a.second \in Nat
            /\ d.second \in Nat /\ c.second \in Nat
        BY <2>5, <3>2, <3>3, <3>4, <4>1
      <4> QED
        BY <4>1, <4>2
    <3>6. \A a \in Doomed : a.second < c.second
      BY <2>1, <2>5, <3>2, <3>3, <3>4 DEF DoomedAreOlder, NewerThan
    <3>7. \A a \in Doomed' : a.second < c.second
      BY <2>3, <3>5, <3>6
    <3> QED
      BY <1>3, <3>2, <3>7 DEF NewerThan
  <2> QED
    BY <2>1, <2>2, <2>6, <1>3 DEF HasComplete
<1> QED
  BY <1>3, <1>4, <1>5, <1>6 DEF BackupInv

\* What is removed was doomed; the complete archive that is newer stays.
LEMMA PruneKeepsBackups ==
  ASSUME BackupInv, NEW b \in Backups, Prune(b)
  PROVE  BackupInv'
<1>t. BackupTypeOK
  BY DEF BackupInv
<1>n. NoBackup \in BackupSteps /\ NoBackup.at = "idle"
  BY BackupBounds DEF NoBackup, BackupSteps
<1> DEFINE old == {a.second : a \in backup[b].old}
<1>1. /\ backup[b].at = "prune" /\ backup[b] \in BackupSteps
      /\ archives' = {a \in archives : a.second \notin old}
      /\ backup' = [backup EXCEPT ![b] = NoBackup]
      /\ UNCHANGED <<clash, overtaken, time, failures>>
      /\ succeeded' = (\/ succeeded
                       \/ /\ \A s \in old : Named(s) # {}
                          /\ \E a \in archives' : a.second = backup[b].second)
  BY <1>t DEF Prune, EndBackup, BackupTypeOK
<1>o. \A s \in old : Retention # 0 => Outnumbered(s)
  BY <1>1 DEF BackupInv, ListedHaveNewer
<1> HIDE DEF old
<1>2. BackupTypeOK'
  <2>1. IsFiniteSet(archives') /\ archives' \subseteq Archives
    BY <1>1, <1>t, FS_Subset DEF BackupTypeOK
  <2>2. succeeded' \in BOOLEAN
    BY <1>t, <1>1 DEF BackupTypeOK
  <2> QED
    BY <2>1, <2>2, <1>t, <1>n, <1>1 DEF BackupTypeOK
<1>3. ListedHaveNewer' /\ GoneHaveNewer'
  <2>1. \A c \in Backups : backup'[c] = IF c = b THEN NoBackup ELSE backup[c]
    BY <1>t, <1>1 DEF BackupTypeOK
  <2>2. ASSUME NEW x \in 0..MaxTime, Retention # 0, Outnumbered(x)
        PROVE  Cardinality({n \in Names' : n > x}) >= Retention
    BY <2>2, <1>t, PruneLeavesNewer DEF BackupInv
  <2>3. \A c \in Backups : backup[c] \in BackupSteps
    BY <1>t DEF BackupTypeOK
  <2>4. ASSUME NEW c \in Backups, backup'[c].at = "prune"
        PROVE  IF Retention = 0 THEN backup'[c].old = {}
               ELSE \A a \in backup'[c].old :
                      Cardinality({n \in Names' : n > a.second}) >= Retention
    <3>1. backup'[c] = backup[c]
      BY <2>1, <2>4, <1>n
    <3>2. \A a \in backup[c].old : a.second \in 0..MaxTime
      BY <2>3 DEF BackupSteps, Archives
    <3> QED
      BY <2>2, <2>4, <3>1, <3>2 DEF BackupInv, ListedHaveNewer
  <2>5. ASSUME NEW c \in Backups, backup'[c].at \in {"close", "list"},
               Retention # 0
        PROVE  \/ backup'[c].second \in Names'
               \/ Cardinality({n \in Names' : n > backup'[c].second})
                    >= Retention
    <3>1. backup'[c] = backup[c] /\ backup[c].second \in 0..MaxTime
      BY <2>1, <2>3, <2>5, <1>n DEF BackupSteps
    <3>2. CASE Outnumbered(backup[c].second)
      BY <2>2, <2>5, <3>1, <3>2
    <3>3. CASE ~Outnumbered(backup[c].second)
      <4>1. /\ backup[c].second \in Names
            /\ backup[c].second \notin old
        BY <1>o, <2>5, <3>1, <3>3 DEF BackupInv, GoneHaveNewer
      <4> QED
        BY <4>1, <3>1, <1>1 DEF Names
    <3> QED
      BY <3>2, <3>3
  <2> QED
    BY <2>4, <2>5 DEF ListedHaveNewer, GoneHaveNewer, Outnumbered, Newer
<1>4. ASSUME ~clash /\ ~overtaken
      PROVE OwnNames' /\ DoomedAreOlder' /\ HasComplete'
  <2>1. OwnNames /\ DoomedAreOlder /\ HasComplete
    BY <1>4 DEF BackupInv
  <2>2. OwnNames'
    BY <2>1, <1>t, <1>n, <1>1 DEF OwnNames, BackupTypeOK
  <2>5. Doomed' \subseteq Doomed /\ backup[b].old \subseteq Doomed
    BY <1>t, <1>n, <1>1 DEF Doomed, BackupTypeOK
  <2>6. \A a \in Archives : a.second \in Nat
    BY DEF Archives
  <2>7. Doomed \subseteq Archives
    BY <1>t DEF Doomed, BackupTypeOK, BackupSteps
  \* A complete archive that is newer than all that is doomed stays.
  <2>8. ASSUME NEW c \in archives, \A a \in Doomed : a.second < c.second
        PROVE  c \in archives'
    <3>1. \A a \in backup[b].old : a.second \in Nat /\ a.second < c.second
      BY <2>5, <2>6, <2>7, <2>8
    <3>2. c.second \notin old
      BY <3>1 DEF old
    <3> QED
      BY <1>1, <3>2
  <2>9. DoomedAreOlder'
    BY <2>1, <2>5, <2>8 DEF DoomedAreOlder, NewerThan
  <2>10. HasComplete'
    <3>1. CASE Doomed # {}
      BY <2>1, <2>8, <3>1 DEF DoomedAreOlder, NewerThan, HasComplete
    <3>2. CASE Doomed = {}
      <4>1. archives' = archives
        BY <2>5, <3>2, <1>1 DEF old
      <4>2. CASE succeeded
        BY <2>1, <4>1, <4>2 DEF HasComplete
      <4>3. CASE ~succeeded /\ succeeded'
        BY <2>1, <4>1, <4>3, <1>1 DEF HasComplete, OwnNames
      <4> QED
        BY <4>2, <4>3 DEF HasComplete
    <3> QED
      BY <3>1, <3>2
  <2> QED
    BY <2>2, <2>9, <2>10
<1> QED
  BY <1>1, <1>2, <1>3, <1>4 DEF BackupInv

LEMMA BackupStepInv ==
  ASSUME BackupInv, [BackupNext]_backupVars
  PROVE  BackupInv'
<1>1. CASE Tick
  BY <1>1, OthersKeepBackups
<1>2. CASE \E b \in Backups :
             \/ BeginBackup(b) \/ OpenArchive(b) \/ CloseArchive(b)
             \/ BackupFails(b) \/ ListOld(b) \/ Prune(b)
  BY <1>2, BeginKeepsBackups, OpenKeepsBackups, CloseKeepsBackups,
     FailKeepsBackups, ListKeepsBackups, PruneKeepsBackups
<1>3. CASE \E r \in Restorers :
             \/ BeginRestore(r) \/ StopSchedule(r) \/ ReplaceDatabase(r)
             \/ ReopenDatabase(r)
  <2>1. UNCHANGED retentionVars
    BY <1>3 DEF BeginRestore, StopSchedule, ReplaceDatabase, ReopenDatabase
  <2> QED
    BY <2>1, OthersKeepBackups
<1>4. CASE \E w \in Writers : WriterOpens(w) \/ WriterCloses(w)
  <2>1. UNCHANGED retentionVars
    BY <1>4 DEF WriterOpens, WriterCloses
  <2> QED
    BY <2>1, OthersKeepBackups
<1>5. CASE UNCHANGED backupVars
  <2>1. UNCHANGED retentionVars
    BY <1>5 DEF backupVars, retentionVars
  <2> QED
    BY <2>1, OthersKeepBackups
<1> QED
  BY <1>1, <1>2, <1>3, <1>4, <1>5 DEF BackupNext

\* For any number of backups and failures and every retention: once a backup
\* succeeded there is a complete archive, unless two began in one second, or
\* one that looked for old archives was overtaken by as many as are kept.
THEOREM ABackupIsKept == BackupSpec => []KeepsABackup
<1>1. BackupInv /\ [BackupNext]_backupVars => BackupInv'
  BY BackupStepInv
<1>2. BackupInv => KeepsABackup
  BY DEF BackupInv, HasComplete, KeepsABackup
<1> QED
  BY <1>1, <1>2, BackupStart, PTL DEF BackupSpec
=============================================================================
