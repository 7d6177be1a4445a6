----------------------------- MODULE Reconnect -----------------------------
(***************************************************************************)
(* Reconnecting the remote worker sessions of one host                     *)
(* (session/reconnect.py with the session routes and repository around it).*)
(*                                                                         *)
(* A route or the health check calls trigger_reconnect, which tests the    *)
(* session's lock, writes "connecting" and starts a background thread.     *)
(* The thread takes the per-session lock and runs the pipeline of          *)
(* reconnect_remote_worker against the daemon that owns the agents' PTYs   *)
(* on the host: list, re-attach or kill-and-create, record, verify, retry, *)
(* give up.  Database rows, the lock registry, the daemon and the network  *)
(* change between any two of its steps.                                    *)
(***************************************************************************)
EXTENDS SessionStatus, Naturals, FiniteSets

CONSTANTS
  Sessions,     \* remote worker sessions, all on the same host
  Threads,      \* request/background threads that may reconnect a session
  Ptys,         \* PTY ids the daemon may hand out; none is ever reused
  NoPty,        \* rws_pty_id is NULL
  MaxOutages,   \* bound: network outages and lost replies
  MaxDeaths,    \* bound: agents that exit by themselves
  MaxOps,       \* bound: status writes by hooks, users and task routes
  MaxRestarts,  \* bound: restarts of the orchestrator process
  MaxAttempts   \* bound: the backoff counter saturates here

ASSUME SessionsAssumption == Sessions # {}
ASSUME NoPtyAssumption == NoPty \notin Ptys
ASSUME BoundsAssumption ==
  /\ MaxOutages \in Nat /\ MaxDeaths \in Nat /\ MaxOps \in Nat
  /\ MaxRestarts \in Nat
  /\ MaxAttempts \in Nat \ {0}

VARIABLES
  \* database
  status,       \* sessions.status, Absent when there is no row
  ptyId,        \* sessions.rws_pty_id
  assigned,     \* sessions with at least one assigned task
  \* _reconnect_locks: a lock object is <<session, generation>>
  registry,     \* generation of the lock object registered for the session
  locked,       \* lock objects that are held
  \* threads
  pc,           \* what the thread does next
  job,          \* its local variables, see FreshJob
  \* process memory
  step,         \* _reconnect_steps, reduced to running / failed / none
  attempts,     \* _ReconnectBackoff._attempts
  \* the remote host
  pty,          \* life of each PTY
  owner,        \* session_id tag of each PTY
  up,           \* the host answers
  outages, deaths, ops, restarts,
  unsure        \* history: sessions whose old agents a pipeline could not
                \* rule out (kill not delivered, or a create delivered twice),
                \* or whose pipelines have lost their common lock

dbVars     == <<status, ptyId, assigned>>
lockVars   == <<registry, locked>>
threadVars == <<pc, job>>
memVars    == <<step, attempts>>
daemonVars == <<pty, owner>>
envVars    == <<up, outages, deaths, ops, restarts>>
vars == <<dbVars, lockVars, threadVars, memVars, daemonVars, envVars, unsure>>

PtyStates == {"unused", "live", "dead", "gone"}
Steps     == {"none", "running", "failed"}

\* The program counters at which a thread owns the lock of its session.
Pipeline == {"rdev", "check", "attach", "kill", "create", "record", "verify",
             "kill2", "create2", "record2", "verify2", "giveup", "failing",
             "releaseOk", "releaseExc"}
PCs == Pipeline \cup {"free", "ask", "mark", "start", "wait", "ok", "exc"}

-----------------------------------------------------------------------------
(* Operators of the repository and of the daemon.                          *)

\* repo.update_session(status=...): an UPDATE that matches no row does nothing.
WithStatus(s, st) ==
  IF status[s] = Absent THEN status ELSE [status EXCEPT ![s] = st]
WithPty(s, p) ==
  IF status[s] = Absent THEN ptyId ELSE [ptyId EXCEPT ![s] = p]

RecoveryStatus(s) ==
  IF s \notin assigned THEN "idle"
  ELSE IF status[s] = "blocked" THEN "blocked" ELSE "waiting"

\* Mutant: the session_id tag is not compared.
LiveOfAnyone(s) == {p \in Ptys : pty[p] = "live"}

\* PTYs the daemon lists as alive for the session (role "main" only).
LiveOf(s) == {p \in Ptys : pty[p] = "live" /\ owner[p] = s}

\* Mutant: exited children are never collected.
ReapedNever(f) == f

\* The daemon drops exited children before it waits for the next request.
Reaped(f) == [p \in Ptys |-> IF f[p] = "dead" THEN "gone" ELSE f[p]]

\* The local variables of a thread: the Session object it was given (id and
\* rws_pty_id), the generation of the lock object it fetched, the PTY it found
\* by session id or created, and whether its pty_list was answered.
FreshJob(s, p) ==
  [target |-> s, snap |-> p, gen |-> 0, found |-> NoPty, heard |-> FALSE]
Jobs == [target : Sessions, snap : Ptys \cup {NoPty}, gen : Nat,
         found : Ptys \cup {NoPty}, heard : BOOLEAN]
NoJob == FreshJob(CHOOSE s \in Sessions : TRUE, NoPty)
Finish(t) ==
  /\ pc' = [pc EXCEPT ![t] = "free"]
  /\ job' = [job EXCEPT ![t] = NoJob]

LockOf(t) == <<job[t].target, job[t].gen>>

Goto(t, label) == pc' = [pc EXCEPT ![t] = label]

\* _set_reconnect_step: every stage of the pipeline announces itself.
SetStep(s) == step' = [step EXCEPT ![s] = "running"]

-----------------------------------------------------------------------------
\* Nothing has happened yet, on a host that answers.
InitRest ==
  /\ ptyId = [s \in Sessions |-> NoPty]
  /\ registry = [s \in Sessions |-> 0]
  /\ locked = {}
  /\ pc = [t \in Threads |-> "free"]
  /\ job = [t \in Threads |-> NoJob]
  /\ step = [s \in Sessions |-> "none"]
  /\ attempts = [s \in Sessions |-> 0]
  /\ pty = [p \in Ptys |-> "unused"]
  /\ owner = [p \in Ptys |-> NoJob.target]
  /\ up = TRUE
  /\ outages = 0 /\ deaths = 0 /\ ops = 0 /\ restarts = 0
  /\ unsure = {}

\* Rows as create_session leaves them (its setup thread always ends in
\* "disconnected", see SessionLifecycle): no PTY yet, any tasks.
Init ==
  /\ status = [s \in Sessions |-> "disconnected"]
  /\ assigned \in SUBSET Sessions
  /\ InitRest

-----------------------------------------------------------------------------
(* trigger_reconnect.                                                      *)

\* A route (reconnect, viewed, auto-reconnect toggle) or the auto-reconnect
\* loop of the health check has read a reconnectable row.
Ask(t, s) ==
  /\ pc[t] = "free"
  /\ is_reconnectable(status[s])
  /\ job' = [job EXCEPT ![t] = FreshJob(s, ptyId[s])]
  /\ Goto(t, "ask")
  /\ UNCHANGED <<dbVars, lockVars, memVars, daemonVars, envVars, unsure>>

\* lock.locked(): refuse when a reconnect is in progress.
TestLock(t) ==
  /\ pc[t] = "ask"
  /\ IF <<job[t].target, registry[job[t].target]>> \in locked
       THEN Finish(t)
       ELSE Goto(t, "mark") /\ UNCHANGED job
  /\ UNCHANGED <<dbVars, lockVars, memVars, daemonVars, envVars, unsure>>

MarkConnecting(t) ==
  /\ pc[t] = "mark"
  /\ status' = WithStatus(job[t].target, "connecting")
  /\ Goto(t, "start")
  /\ UNCHANGED <<ptyId, assigned, lockVars, job, memVars, daemonVars, envVars,
                 unsure>>

-----------------------------------------------------------------------------
(* reconnect_remote_worker and _reconnect_rws_pty_worker.                  *)

\* record_attempt, then get_reconnect_lock; the acquire below may wait 5 s.
FetchLock(t) ==
  /\ pc[t] = "start"
  /\ job' = [job EXCEPT ![t].gen = registry[job[t].target]]
  /\ Goto(t, "wait")
  /\ UNCHANGED <<dbVars, lockVars, memVars, daemonVars, envVars, unsure>>

\* Mutant: the result of acquire(timeout=5) is ignored.
AcquireIgnored(t) ==
  /\ pc[t] = "wait"
  /\ locked' = locked \cup {LockOf(t)}
  /\ Goto(t, "rdev")
  /\ UNCHANGED <<dbVars, registry, job, memVars, daemonVars, envVars, unsure>>

Acquire(t) ==
  /\ pc[t] = "wait"
  /\ LockOf(t) \notin locked
  /\ locked' = locked \cup {LockOf(t)}
  /\ Goto(t, "rdev")
  /\ UNCHANGED <<dbVars, registry, job, memVars, daemonVars, envVars, unsure>>

\* The acquire timed out: the function returns, and returning is success.
AcquireTimeout(t) ==
  /\ pc[t] = "wait"
  /\ LockOf(t) \in locked
  /\ Goto(t, "ok")
  /\ UNCHANGED <<dbVars, lockVars, job, memVars, daemonVars, envVars, unsure>>

\* _ensure_rdev_running failed: mark disconnected and return normally.
RdevStopped(t) ==
  /\ pc[t] = "rdev" /\ ~up
  /\ status' = WithStatus(job[t].target, "disconnected")
  /\ Goto(t, "releaseOk")
  /\ UNCHANGED <<ptyId, assigned, lockVars, job, memVars, daemonVars, envVars,
                 unsure>>

\* Steps "tunnel" and "daemon": the tunnel and the daemon connection are up,
\* or one of the calls raises.
EnsureTunnelAndDaemon(t) ==
  /\ pc[t] = "rdev"
  /\ SetStep(job[t].target)
  /\ Goto(t, IF up THEN "check" ELSE "failing")
  /\ UNCHANGED <<dbVars, lockVars, job, attempts, daemonVars, envVars, unsure>>

\* Mutant: no look-up by session id.
CheckPtyById(t) ==
  LET mine == job[t].snap IN
  /\ pc[t] = "check" /\ up
  /\ pty' = Reaped(pty)
  /\ IF mine \in Ptys /\ pty[mine] = "live"
       THEN /\ job' = [job EXCEPT ![t].heard = TRUE, ![t].found = mine]
            /\ Goto(t, "attach")
       ELSE job' = [job EXCEPT ![t].heard = TRUE] /\ Goto(t, "kill")
  /\ SetStep(job[t].target)
  /\ UNCHANGED <<dbVars, lockVars, attempts, owner, envVars, unsure>>

\* Step "pty_check": look for our PTY by id, then by session id.  A query
\* that fails is treated as an empty list.
CheckPty(t) ==
  LET s == job[t].target
      mine == job[t].snap
      listed == mine \in Ptys /\ pty[mine] \in {"live", "dead"}
      found == IF listed /\ pty[mine] = "live" THEN {mine}
               ELSE IF listed THEN {} ELSE LiveOf(s)
  IN
  /\ pc[t] = "check"
  /\ IF up
       THEN /\ pty' = Reaped(pty)
            /\ \/ /\ found = {}
                  /\ Goto(t, "kill")
                  /\ job' = [job EXCEPT ![t].heard = TRUE]
               \/ \E p \in found :
                    /\ job' = [job EXCEPT ![t].heard = TRUE, ![t].found = p]
                    /\ Goto(t, "attach")
       ELSE /\ Goto(t, "kill")
            /\ UNCHANGED <<pty, job>>
  /\ SetStep(s)
  /\ UNCHANGED <<dbVars, lockVars, attempts, owner, envVars, unsure>>

\* The agent is alive: write the recovery status, and rws_pty_id when the PTY
\* was found by session id.
Attach(t) ==
  /\ pc[t] = "attach"
  /\ status' = WithStatus(job[t].target, RecoveryStatus(job[t].target))
  /\ ptyId' = IF job[t].found = job[t].snap THEN ptyId
              ELSE WithPty(job[t].target, job[t].found)
  /\ Goto(t, "releaseOk")
  /\ UNCHANGED <<assigned, lockVars, job, memVars, daemonVars, envVars,
                 unsure>>

\* Mutant: only the PTY of the row is destroyed.
KillSnapOnly(t) ==
  /\ pc[t] = "kill"
  /\ pty' = IF up THEN [p \in Ptys |-> IF p = job[t].snap THEN "gone"
                                       ELSE Reaped(pty)[p]]
            ELSE pty
  /\ SetStep(job[t].target)
  /\ Goto(t, "create")
  /\ UNCHANGED <<dbVars, lockVars, job, attempts, owner, envVars, unsure>>

\* Step 5: destroy our dead PTY and kill the session's agent processes; both
\* are best effort and swallow their errors.
KillOrphans(t) ==
  LET s == job[t].target IN
  /\ pc[t] = "kill"
  /\ IF up
       THEN /\ pty' = [p \in Ptys |-> IF p \in LiveOf(s) THEN "dead"
                                      ELSE Reaped(pty)[p]]
            /\ UNCHANGED unsure
       ELSE /\ unsure' = unsure \cup {s}
            /\ UNCHANGED pty
  /\ SetStep(s)
  /\ Goto(t, "create")
  /\ UNCHANGED <<dbVars, lockVars, job, attempts, owner, envVars>>

\* Steps "deploy" and "pty_create": the copy or the create may raise.
CreateFails(t) ==
  /\ pc[t] \in {"create", "create2"} /\ ~up
  /\ Goto(t, "failing")
  /\ UNCHANGED <<dbVars, lockVars, job, memVars, daemonVars, envVars, unsure>>

\* A new id (a uuid) other than those of ps; which one does not matter.
FreshPty(ps) ==
  LET unused == {p \in Ptys \ ps : pty[p] = "unused"} IN
  IF unused = {} THEN {} ELSE {CHOOSE p \in unused : TRUE}

\* The daemon forks an agent for every create command it executes.
Spawned(s, ps) ==
  /\ pty' = [p \in Ptys |-> IF p \in ps THEN "live" ELSE Reaped(pty)[p]]
  /\ owner' = [p \in Ptys |-> IF p \in ps THEN s ELSE owner[p]]

CreatePty(t) ==
  /\ pc[t] \in {"create", "create2"} /\ up
  /\ \E p \in FreshPty({}) :
       /\ Spawned(job[t].target, {p})
       /\ job' = [job EXCEPT ![t].found = p]
  /\ Goto(t, IF pc[t] = "create" THEN "record" ELSE "record2")
  /\ UNCHANGED <<dbVars, lockVars, memVars, envVars, unsure>>

\* The command socket breaks after the daemon executed the create: execute()
\* reconnects and sends the command a second time.
CreatePtyTwice(t) ==
  /\ pc[t] \in {"create", "create2"} /\ up
  /\ outages < MaxOutages
  /\ outages' = outages + 1
  /\ \E p \in FreshPty({}) : \E q \in FreshPty({p}) :
       /\ Spawned(job[t].target, {p, q})
       /\ job' = [job EXCEPT ![t].found = q]
  /\ unsure' = unsure \cup {job[t].target}
  /\ Goto(t, IF pc[t] = "create" THEN "record" ELSE "record2")
  /\ UNCHANGED <<dbVars, lockVars, memVars, up, deaths, ops, restarts>>

\* The reply to the create times out: execute() raises, the agent runs.
CreateReplyLost(t) ==
  /\ pc[t] \in {"create", "create2"} /\ up
  /\ outages < MaxOutages
  /\ outages' = outages + 1
  /\ \E p \in FreshPty({}) : Spawned(job[t].target, {p})
  /\ Goto(t, "failing")
  /\ UNCHANGED <<dbVars, lockVars, job, memVars, up, deaths, ops, restarts,
                 unsure>>

RecordPty(t) ==
  /\ pc[t] \in {"record", "record2"}
  /\ status' = WithStatus(job[t].target, RecoveryStatus(job[t].target))
  /\ ptyId' = WithPty(job[t].target, job[t].found)
  /\ Goto(t, IF pc[t] = "record" THEN "verify" ELSE "verify2")
  /\ IF pc[t] = "record" THEN SetStep(job[t].target) ELSE UNCHANGED step
  /\ UNCHANGED <<assigned, lockVars, job, attempts, daemonVars, envVars,
                 unsure>>

\* Step "verify": an agent that died after creation is retried once; a list
\* that cannot be read counts as alive.
VerifyPty(t) ==
  LET dead == up /\ pty[job[t].found] # "live" IN
  /\ pc[t] \in {"verify", "verify2"}
  /\ Goto(t, IF ~dead THEN "releaseOk"
             ELSE IF pc[t] = "verify" THEN "kill2" ELSE "giveup")
  /\ pty' = IF up THEN Reaped(pty) ELSE pty
  /\ UNCHANGED <<dbVars, lockVars, job, memVars, owner, envVars, unsure>>

\* Before the retry, what still runs under the session's id is killed, best
\* effort (and its conversation deleted).
CleanupStale(t) ==
  /\ pc[t] = "kill2"
  /\ pty' = [p \in Ptys |-> IF up /\ p \in LiveOf(job[t].target) THEN "dead"
                            ELSE pty[p]]
  /\ Goto(t, "create2")
  /\ UNCHANGED <<dbVars, lockVars, job, memVars, owner, envVars, unsure>>

\* Mutant: the label of the step is written as the status.
GiveUpMislabelled(t) ==
  /\ pc[t] = "giveup"
  /\ status' = WithStatus(job[t].target, "failed")
  /\ Goto(t, "releaseOk")
  /\ UNCHANGED <<ptyId, assigned, lockVars, job, memVars, daemonVars, envVars,
                 unsure>>

\* The retry died too: mark disconnected and return normally.
GiveUp(t) ==
  /\ pc[t] = "giveup"
  /\ status' = WithStatus(job[t].target, "disconnected")
  /\ Goto(t, "releaseOk")
  /\ UNCHANGED <<ptyId, assigned, lockVars, job, memVars, daemonVars, envVars,
                 unsure>>

\* except Exception: mark disconnected, re-raise.
PipelineRaises(t) ==
  /\ pc[t] = "failing"
  /\ status' = WithStatus(job[t].target, "disconnected")
  /\ Goto(t, "releaseExc")
  /\ UNCHANGED <<ptyId, assigned, lockVars, job, memVars, daemonVars, envVars,
                 unsure>>

\* Mutant: the lock is released on success only.
ReleaseOnSuccess(t) ==
  /\ pc[t] \in {"releaseOk", "releaseExc"}
  /\ locked' = IF pc[t] = "releaseOk" THEN locked \ {LockOf(t)} ELSE locked
  /\ Goto(t, IF pc[t] = "releaseOk" THEN "ok" ELSE "exc")
  /\ UNCHANGED <<dbVars, registry, job, memVars, daemonVars, envVars, unsure>>

\* finally: lock.release().  Releasing a lock that somebody else has already
\* released raises RuntimeError.
Release(t) ==
  /\ pc[t] \in {"releaseOk", "releaseExc"}
  /\ locked' = locked \ {LockOf(t)}
  /\ Goto(t, IF pc[t] = "releaseOk" /\ LockOf(t) \in locked
             THEN "ok" ELSE "exc")
  /\ UNCHANGED <<dbVars, registry, job, memVars, daemonVars, envVars, unsure>>

\* _bg_reconnect after a normal return: clear the step, reset the backoff.
RecordSuccess(t) ==
  /\ pc[t] = "ok"
  /\ step' = [step EXCEPT ![job[t].target] = "none"]
  /\ attempts' = [attempts EXCEPT ![job[t].target] = 0]
  /\ Finish(t)
  /\ UNCHANGED <<dbVars, lockVars, daemonVars, envVars, unsure>>

\* _bg_reconnect after an exception, with the lock already released.
RecordFailure(t) ==
  LET s == job[t].target IN
  /\ pc[t] = "exc"
  /\ attempts' = [attempts EXCEPT ![s] =
                    IF @ < MaxAttempts THEN @ + 1 ELSE @]
  /\ step' = [step EXCEPT ![s] = IF @ = "running" THEN "failed" ELSE @]
  /\ status' = WithStatus(s, "disconnected")
  /\ Finish(t)
  /\ UNCHANGED <<ptyId, assigned, lockVars, daemonVars, envVars, unsure>>

-----------------------------------------------------------------------------
(* The other writers of the row: hooks of a running agent, user routes.    *)

CountOp == ops < MaxOps /\ ops' = ops + 1
RouteUnchanged == UNCHANGED <<lockVars, threadVars, memVars, daemonVars, up,
                              outages, deaths, restarts, unsure>>

\* PATCH /sessions/{id} from a hook or CLI of the agent; "idle" is promoted
\* by the worker's tasks.
PatchStatus(s, st) ==
  /\ CountOp
  /\ status[s] # Absent /\ LiveOf(s) # {}
  /\ status' = WithStatus(s, IF st = "idle" THEN RecoveryStatus(s) ELSE st)
  /\ RouteUnchanged /\ UNCHANGED <<ptyId, assigned>>

pause_session(s) ==
  /\ CountOp
  /\ status[s] # Absent
  /\ status' = WithStatus(s, "paused")
  /\ RouteUnchanged /\ UNCHANGED <<ptyId, assigned>>

continue_session(s) ==
  /\ CountOp
  /\ status[s] # Absent
  /\ status' = WithStatus(s, "working")
  /\ RouteUnchanged /\ UNCHANGED <<ptyId, assigned>>

stop_session(s) ==
  /\ CountOp
  /\ status[s] # Absent
  /\ status' = WithStatus(s, "idle")
  /\ assigned' = assigned \ {s}
  /\ RouteUnchanged /\ UNCHANGED ptyId

AssignTask(s) ==
  /\ CountOp
  /\ status[s] # Absent /\ s \notin assigned
  /\ assigned' = assigned \cup {s}
  /\ RouteUnchanged /\ UNCHANGED <<status, ptyId>>

-----------------------------------------------------------------------------
(* Environment.                                                            *)

AgentDies(p) ==
  /\ deaths < MaxDeaths /\ deaths' = deaths + 1
  /\ pty[p] = "live"
  /\ pty' = [pty EXCEPT ![p] = "dead"]
  /\ UNCHANGED <<dbVars, lockVars, threadVars, memVars, owner, up, outages,
                 ops, restarts, unsure>>

DaemonReaps ==
  /\ \E p \in Ptys : pty[p] = "dead"
  /\ pty' = Reaped(pty)
  /\ UNCHANGED <<dbVars, lockVars, threadVars, memVars, owner, envVars,
                 unsure>>

NetworkDown ==
  /\ up /\ outages < MaxOutages
  /\ up' = FALSE /\ outages' = outages + 1
  /\ UNCHANGED <<dbVars, lockVars, threadVars, memVars, daemonVars, deaths,
                 ops, restarts, unsure>>

NetworkUp ==
  /\ ~up
  /\ up' = TRUE
  /\ UNCHANGED <<dbVars, lockVars, threadVars, memVars, daemonVars, outages,
                 deaths, ops, restarts, unsure>>

\* migrate_legacy_screen_sessions: on startup a remote session that has no PTY
\* and is neither idle nor disconnected is marked disconnected.
Migrated ==
  [s \in Sessions |->
     IF ptyId[s] = NoPty /\ status[s] \notin {Absent, "idle", "disconnected"}
     THEN "disconnected" ELSE status[s]]

\* The orchestrator process restarts: daemon threads, locks and in-memory
\* state are lost; rows and the host's PTYs survive.
ServerRestart ==
  /\ restarts < MaxRestarts /\ restarts' = restarts + 1
  /\ status' = Migrated
  /\ pc' = [t \in Threads |-> "free"]
  /\ locked' = {}
  /\ step' = [s \in Sessions |-> "none"]
  /\ attempts' = [s \in Sessions |-> 0]
  /\ job' = [t \in Threads |-> NoJob]
  /\ UNCHANGED <<ptyId, assigned, registry, daemonVars, up, outages, deaths,
                 ops, unsure>>

-----------------------------------------------------------------------------
PipelineStep(t) ==
  \/ EnsureTunnelAndDaemon(t) \/ RdevStopped(t) \/ CheckPty(t) \/ Attach(t)
  \/ KillOrphans(t) \/ CreatePty(t) \/ CreatePtyTwice(t) \/ CreateReplyLost(t)
  \/ CreateFails(t) \/ RecordPty(t) \/ VerifyPty(t) \/ CleanupStale(t)
  \/ GiveUp(t) \/ PipelineRaises(t) \/ Release(t)

ThreadStep(t) ==
  \/ TestLock(t) \/ MarkConnecting(t) \/ FetchLock(t) \/ Acquire(t)
  \/ AcquireTimeout(t) \/ PipelineStep(t) \/ RecordSuccess(t)
  \/ RecordFailure(t)

RouteStep(s) ==
  \/ \E st \in {"idle", "working", "waiting", "blocked"} : PatchStatus(s, st)
  \/ pause_session(s) \/ continue_session(s) \/ stop_session(s)
  \/ AssignTask(s)

EnvStepButRestart ==
  \/ \E p \in Ptys : AgentDies(p)
  \/ DaemonReaps \/ NetworkDown \/ NetworkUp

Next ==
  \/ \E t \in Threads, s \in Sessions : Ask(t, s)
  \/ \E t \in Threads : ThreadStep(t)
  \/ \E s \in Sessions : RouteStep(s)
  \/ EnvStepButRestart
  \/ ServerRestart

Spec == Init /\ [][Next]_vars

\* Started threads are scheduled, the network comes back.
Fairness ==
  /\ \A t \in Threads : WF_vars(ThreadStep(t))
  /\ WF_vars(NetworkUp)

-----------------------------------------------------------------------------
(* Properties.                                                             *)

\* Every variable has its type: rows, locks, pipeline threads and the PTYs of
\* the daemon.
TypeOK ==
  /\ status \in [Sessions -> Statuses \cup {Absent}]
  /\ ptyId \in [Sessions -> Ptys \cup {NoPty}]
  /\ assigned \subseteq Sessions
  /\ registry \in [Sessions -> Nat]
  /\ locked \subseteq Sessions \X Nat
  /\ pc \in [Threads -> PCs]
  /\ job \in [Threads -> Jobs]
  /\ step \in [Sessions -> Steps]
  /\ attempts \in [Sessions -> 0..MaxAttempts]
  /\ pty \in [Ptys -> PtyStates]
  /\ owner \in [Ptys -> Sessions]
  /\ up \in BOOLEAN
  /\ outages \in 0..MaxOutages /\ deaths \in 0..MaxDeaths
  /\ ops \in 0..MaxOps /\ restarts \in 0..MaxRestarts
  /\ unsure \subseteq Sessions

InPipeline(t) == pc[t] \in Pipeline

\* Two threads are never inside the reconnect pipeline of one session: the
\* per-session lock serialises reconnects however many callers passed the
\* locked() test of trigger_reconnect before any of them took the lock.
OnePipelinePerSession ==
  \A t, u \in Threads :
    InPipeline(t) /\ InPipeline(u) /\ job[t].target = job[u].target => t = u

\* A session has at most one running agent, through crashes, restarts, lost
\* replies and racing reconnects, unless a pipeline could not tell: its kill
\* did not reach the host, or its create was executed twice.
OneAgentPerSession ==
  \A p, q \in Ptys :
    /\ pty[p] = "live" /\ pty[q] = "live"
    /\ owner[p] = owner[q] /\ owner[p] \notin unsure
    => p = q

\* The agents of a session that a step of its own pipeline terminates.
KilledBy(t) ==
  {p \in LiveOf(job[t].target) :
     pc[t] \in {"kill", "kill2"} /\ pty'[p] = "dead"}

\* A PTY left behind by a reconnect that failed or died partway is found by
\* its session id and re-used: a pipeline whose pty_list was answered never
\* kills a running agent to replace it.
OrphanReused ==
  [][\A t \in Threads :
       job[t].heard /\ job[t].target \notin unsure' => KilledBy(t) = {}]_vars

\* No reconnect lock is ever left held by nobody: a session whose pipeline
\* raised, gave up, or died with the process can be reconnected again.
NoAbandonedLock ==
  locked \subseteq {LockOf(t) : t \in {u \in Threads : InPipeline(u)}}

-----------------------------------------------------------------------------
(* The abstract specification, see AgentSlots: the agents that run, and the *)
(* sessions some thread is in the pipeline of.                              *)
Running == [s \in Sessions |-> LiveOf(s)]
Claimed == {job[t].target : t \in {u \in Threads : InPipeline(u)}}

Slots == INSTANCE AgentSlots WITH
  Agents <- Ptys, running <- Running, claimed <- Claimed, doubtful <- unsure

\* Every step of threads, routes, checks, daemon and network is a step of
\* AgentSlots or none: a pipeline launches an agent only with the session's
\* lock and when it knows that none runs (reconnect_remote_worker).
ImplementsAgentSlots == Slots!SlotsSpec

-----------------------------------------------------------------------------
(* What the documents say and the code does not do.                        *)

\* docs/learnings/008: "Never destroy remote resources to recover from local
\* connection failures."  A reconnect never terminates a running agent.
ReconnectKeepsAgents == [][\A t \in Threads : KilledBy(t) = {}]_vars

=============================================================================
