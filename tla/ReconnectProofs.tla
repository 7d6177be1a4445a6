-------------------------- MODULE ReconnectProofs --------------------------
(***************************************************************************)
(* Proofs about Reconnect: type correctness, and the safety properties its *)
(* runs check, for every number of sessions, threads, PTYs and failures.   *)
(***************************************************************************)
EXTENDS Reconnect, TLAPS

(***************************************************************************)
(* Type correctness.                                                       *)
(***************************************************************************)
\* What the repository writes has the type of the column.
LEMMA RowTypes ==
  ASSUME TypeOK, NEW s \in Sessions
  PROVE  /\ \A st \in Statuses :
              WithStatus(s, st) \in [Sessions -> Statuses \cup {Absent}]
         /\ \A p \in Ptys \cup {NoPty} :
              WithPty(s, p) \in [Sessions -> Ptys \cup {NoPty}]
         /\ RecoveryStatus(s) \in Statuses
BY DEF TypeOK, WithStatus, WithPty, RecoveryStatus, Statuses

\* The locals a thread starts or ends with are well typed.
LEMMA JobTypes ==
  /\ NoJob \in Jobs
  /\ \A s \in Sessions, p \in Ptys \cup {NoPty} : FreshJob(s, p) \in Jobs
<1>1. \A s \in Sessions, p \in Ptys \cup {NoPty} : FreshJob(s, p) \in Jobs
  BY DEF FreshJob, Jobs
<1>2. (CHOOSE s \in Sessions : TRUE) \in Sessions
  BY SessionsAssumption
<1> QED
  BY <1>1, <1>2 DEF NoJob

\* Assigning one local of a thread keeps the locals well typed.
LEMMA ThreadTypes ==
  ASSUME TypeOK, NEW t \in Threads
  PROVE  /\ job[t] \in Jobs /\ job[t].target \in Sessions
         /\ \A l \in PCs : [pc EXCEPT ![t] = l] \in [Threads -> PCs]
         /\ \A j \in Jobs : [job EXCEPT ![t] = j] \in [Threads -> Jobs]
         /\ \A g \in Nat : [job EXCEPT ![t].gen = g] \in [Threads -> Jobs]
         /\ \A p \in Ptys : [job EXCEPT ![t].found = p] \in [Threads -> Jobs]
         /\ [job EXCEPT ![t].heard = TRUE] \in [Threads -> Jobs]
         /\ \A p \in Ptys : [job EXCEPT ![t].heard = TRUE, ![t].found = p]
                              \in [Threads -> Jobs]
<1>1. /\ job[t] \in Jobs /\ job[t].target \in Sessions
      /\ pc \in [Threads -> PCs] /\ job \in [Threads -> Jobs]
  BY DEF TypeOK, Jobs
<1>2. \A g \in Nat : [job[t] EXCEPT !.gen = g] \in Jobs
  BY <1>1 DEF Jobs
<1>3. /\ [job[t] EXCEPT !.heard = TRUE] \in Jobs
      /\ \A p \in Ptys : /\ [job[t] EXCEPT !.found = p] \in Jobs
                         /\ [job[t] EXCEPT !.heard = TRUE, !.found = p] \in Jobs
  BY <1>1 DEF Jobs
<1>4. \A j \in Jobs : [job EXCEPT ![t] = j] \in [Threads -> Jobs]
  BY <1>1
<1>5. \A l \in PCs : [pc EXCEPT ![t] = l] \in [Threads -> PCs]
  BY <1>1
<1>6. /\ \A g \in Nat : [job EXCEPT ![t].gen = g] \in [Threads -> Jobs]
      /\ [job EXCEPT ![t].heard = TRUE] \in [Threads -> Jobs]
  BY <1>2, <1>3, <1>4
<1>7. \A p \in Ptys :
        /\ [job EXCEPT ![t].found = p] \in [Threads -> Jobs]
        /\ [job EXCEPT ![t].heard = TRUE, ![t].found = p] \in [Threads -> Jobs]
  BY <1>3, <1>4, <1>1
<1> QED
  BY <1>1, <1>4, <1>5, <1>6, <1>7

\* What the daemon does to its PTYs keeps them well typed.
LEMMA PtyTypes ==
  ASSUME TypeOK
  PROVE  /\ Reaped(pty) \in [Ptys -> PtyStates]
         /\ \A s \in Sessions, ps \in SUBSET Ptys :
              Spawned(s, ps) => /\ pty' \in [Ptys -> PtyStates]
                                /\ owner' \in [Ptys -> Sessions]
         /\ \A ps \in SUBSET Ptys : FreshPty(ps) \subseteq Ptys
<1>1. \A ps \in SUBSET Ptys : FreshPty(ps) \subseteq Ptys
  <2> TAKE ps \in SUBSET Ptys
  <2> DEFINE unused == {p \in Ptys \ ps : pty[p] = "unused"}
  <2>1. unused # {} => (CHOOSE p \in unused : TRUE) \in unused
    OBVIOUS
  <2> QED
    BY <2>1 DEF FreshPty
<1> QED
  BY <1>1 DEF TypeOK, PtyStates, Reaped, Spawned

\* The initial state is well typed.
LEMMA TypeInit == Init => TypeOK
BY JobTypes, BoundsAssumption, SessionsAssumption
DEF Init, InitRest, TypeOK, Statuses, PCs, Steps, PtyStates, NoJob, FreshJob,
    Jobs

\* A step of a thread; each fact is about the thread t and its session s.
LEMMA TypeThread ==
  ASSUME TypeOK, NEW t \in Threads, ThreadStep(t)
  PROVE  TypeOK'
<1> DEFINE s == job[t].target
<1>1. /\ s \in Sessions /\ job[t].found \in Ptys \cup {NoPty}
      /\ LockOf(t) \in Sessions \X Nat
  BY ThreadTypes DEF Jobs, LockOf
<1>2. /\ \A l \in PCs : Goto(t, l) => pc' \in [Threads -> PCs]
      /\ Finish(t) => pc' \in [Threads -> PCs]
  BY DEF TypeOK, Goto, Finish, PCs
<1>3. /\ \A g \in Nat : [job EXCEPT ![t].gen = g] \in [Threads -> Jobs]
      /\ [job EXCEPT ![t].heard = TRUE] \in [Threads -> Jobs]
      /\ \A p \in Ptys :
           /\ [job EXCEPT ![t].found = p] \in [Threads -> Jobs]
           /\ [job EXCEPT ![t].heard = TRUE, ![t].found = p]
                \in [Threads -> Jobs]
      /\ Finish(t) => job' \in [Threads -> Jobs]
  <2>1. Finish(t) => job' \in [Threads -> Jobs]
    BY ThreadTypes, JobTypes DEF Finish
  <2> QED
    BY <2>1, ThreadTypes
<1>4. /\ \A st \in Statuses :
           WithStatus(s, st) \in [Sessions -> Statuses \cup {Absent}]
      /\ WithStatus(s, RecoveryStatus(s))
           \in [Sessions -> Statuses \cup {Absent}]
      /\ WithPty(s, job[t].found) \in [Sessions -> Ptys \cup {NoPty}]
      /\ {"connecting", "disconnected"} \subseteq Statuses
  BY <1>1, RowTypes DEF Statuses
<1>5. /\ SetStep(s) => step' \in [Sessions -> Steps]
      /\ \A x \in Steps : [step EXCEPT ![s] = x] \in [Sessions -> Steps]
      /\ {"none", "running", "failed"} = Steps
  BY <1>1 DEF TypeOK, SetStep, Steps
<1>6. /\ Reaped(pty) \in [Ptys -> PtyStates]
      /\ \A ps \in SUBSET Ptys :
           Spawned(s, ps) => /\ pty' \in [Ptys -> PtyStates]
                             /\ owner' \in [Ptys -> Sessions]
      /\ FreshPty({}) \subseteq Ptys
      /\ \A p \in Ptys : FreshPty({p}) \subseteq Ptys
  BY <1>1, PtyTypes
<1> USE <1>1 DEF TypeOK, dbVars, lockVars, threadVars, memVars, daemonVars,
                envVars
<1>7. CASE TestLock(t)
  BY <1>7, <1>2, <1>3 DEF TestLock, PCs, Pipeline
<1>8. CASE MarkConnecting(t)
  BY <1>8, <1>2, <1>4 DEF MarkConnecting, PCs, Pipeline
<1>9. CASE FetchLock(t)
  BY <1>9, <1>2, <1>3 DEF FetchLock, PCs, Pipeline
<1>10. CASE Acquire(t)
  BY <1>10, <1>2 DEF Acquire, PCs, Pipeline
<1>11. CASE AcquireTimeout(t)
  BY <1>11, <1>2 DEF AcquireTimeout, PCs, Pipeline
<1>12. CASE EnsureTunnelAndDaemon(t)
  BY <1>12, <1>2, <1>5 DEF EnsureTunnelAndDaemon, PCs, Pipeline
<1>13. CASE RdevStopped(t)
  BY <1>13, <1>2, <1>4 DEF RdevStopped, PCs, Pipeline
<1>14. CASE CheckPty(t)
  <2>1. pty' \in [Ptys -> PtyStates]
    BY <1>14, <1>6 DEF CheckPty
  <2>2. pc' \in [Threads -> PCs]
    BY <1>14, <1>2 DEF CheckPty, PCs, Pipeline
  <2>3. job' \in [Threads -> Jobs]
    <3>1. CASE UNCHANGED job
      BY <3>1
    <3>2. CASE job' = [job EXCEPT ![t].heard = TRUE]
      BY <3>2, <1>3
    <3>3. ASSUME NEW p \in Ptys,
                 job' = [job EXCEPT ![t].heard = TRUE, ![t].found = p]
          PROVE  job' \in [Threads -> Jobs]
      BY <3>3, <1>3
    <3> QED
      BY <1>14, <3>1, <3>2, <3>3 DEF CheckPty, LiveOf
  <2> QED
    BY <1>14, <1>5, <2>1, <2>2, <2>3 DEF CheckPty
<1>15. CASE Attach(t)
  BY <1>15, <1>2, <1>4 DEF Attach, PCs, Pipeline
<1>16. CASE KillOrphans(t)
  BY <1>16, <1>2, <1>5, <1>6 DEF KillOrphans, PtyStates, PCs, Pipeline
<1>17. CASE CreatePty(t)
  <2>1. pty' \in [Ptys -> PtyStates] /\ owner' \in [Ptys -> Sessions]
    BY <1>17, <1>6 DEF CreatePty
  <2>2. pc' \in [Threads -> PCs]
    BY <1>17, <1>2 DEF CreatePty, PCs, Pipeline
  <2>3. job' \in [Threads -> Jobs]
    <3>1. PICK p \in Ptys : job' = [job EXCEPT ![t].found = p]
      BY <1>17, <1>6 DEF CreatePty
    <3> QED
      BY <3>1, <1>3
  <2> QED
    BY <1>17, <2>1, <2>2, <2>3 DEF CreatePty
<1>18. CASE CreatePtyTwice(t)
  <2>1. pty' \in [Ptys -> PtyStates] /\ owner' \in [Ptys -> Sessions]
    BY <1>18, <1>6 DEF CreatePtyTwice
  <2>2. pc' \in [Threads -> PCs]
    BY <1>18, <1>2 DEF CreatePtyTwice, PCs, Pipeline
  <2>3. job' \in [Threads -> Jobs]
    <3>1. PICK p \in Ptys : job' = [job EXCEPT ![t].found = p]
      BY <1>18, <1>6 DEF CreatePtyTwice
    <3> QED
      BY <3>1, <1>3
  <2> QED
    BY <1>18, <2>1, <2>2, <2>3, BoundsAssumption DEF CreatePtyTwice
<1>19. CASE CreateReplyLost(t)
  BY <1>19, <1>2, <1>6, BoundsAssumption DEF CreateReplyLost, PCs, Pipeline
<1>20. CASE CreateFails(t)
  BY <1>20, <1>2 DEF CreateFails, PCs, Pipeline
<1>21. CASE RecordPty(t)
  BY <1>21, <1>2, <1>4, <1>5 DEF RecordPty, PCs, Pipeline
<1>22. CASE VerifyPty(t)
  BY <1>22, <1>2, <1>6 DEF VerifyPty, PCs, Pipeline
<1>28. CASE CleanupStale(t)
  BY <1>28, <1>2 DEF CleanupStale, PtyStates, PCs, Pipeline
<1>23. CASE GiveUp(t)
  BY <1>23, <1>2, <1>4 DEF GiveUp, PCs, Pipeline
<1>24. CASE PipelineRaises(t)
  BY <1>24, <1>2, <1>4 DEF PipelineRaises, PCs, Pipeline
<1>25. CASE Release(t)
  BY <1>25, <1>2 DEF Release, PCs, Pipeline
<1>26. CASE RecordSuccess(t)
  <2>1. attempts' \in [Sessions -> 0..MaxAttempts]
    BY <1>26, BoundsAssumption DEF RecordSuccess
  <2> QED
    BY <1>26, <1>2, <1>3, <1>5, <2>1 DEF RecordSuccess
<1>27. CASE RecordFailure(t)
  <2>1. attempts' \in [Sessions -> 0..MaxAttempts]
    BY <1>27, BoundsAssumption DEF RecordFailure
  <2>2. step' \in [Sessions -> Steps]
    BY <1>27, <1>5 DEF RecordFailure
  <2> QED
    BY <1>27, <1>2, <1>3, <1>4, <2>1, <2>2 DEF RecordFailure
<1> QED
  BY <1>7, <1>8, <1>9, <1>10, <1>11, <1>12, <1>13, <1>14, <1>15, <1>16, <1>17,
     <1>18, <1>19, <1>20, <1>21, <1>22, <1>23, <1>24, <1>25, <1>26, <1>27,
     <1>28
  DEF ThreadStep, PipelineStep

\* A step that is no thread's: a request, a route, the environment.
LEMMA TypeOthers ==
  ASSUME TypeOK,
         \/ \E t \in Threads, s \in Sessions : Ask(t, s)
         \/ \E s \in Sessions : RouteStep(s)
         \/ EnvStepButRestart
         \/ ServerRestart
  PROVE  TypeOK'
<1> USE DEF TypeOK, dbVars, lockVars, threadVars, memVars, daemonVars, envVars
<1>1. ASSUME NEW t \in Threads, NEW s \in Sessions, Ask(t, s)
      PROVE  TypeOK'
  <2>1. job' \in [Threads -> Jobs]
    BY <1>1, ThreadTypes, JobTypes DEF Ask
  <2> QED
    BY <1>1, <2>1 DEF Ask, Goto, PCs
<1>2. ASSUME NEW s \in Sessions, RouteStep(s)
      PROVE  TypeOK'
  <2>1. /\ \A st \in Statuses :
             WithStatus(s, st) \in [Sessions -> Statuses \cup {Absent}]
        /\ WithStatus(s, RecoveryStatus(s))
             \in [Sessions -> Statuses \cup {Absent}]
        /\ {"idle", "working", "waiting", "blocked", "paused"}
             \subseteq Statuses
    BY RowTypes DEF Statuses
  <2>2. CountOp => ops' \in 0..MaxOps
    BY BoundsAssumption DEF CountOp
  <2>3. ASSUME NEW st \in {"idle", "working", "waiting", "blocked"},
               PatchStatus(s, st)
        PROVE  TypeOK'
    BY <2>1, <2>2, <2>3 DEF PatchStatus, RouteUnchanged
  <2>4. CASE pause_session(s)
    BY <2>1, <2>2, <2>4 DEF pause_session, RouteUnchanged
  <2>5. CASE continue_session(s)
    BY <2>1, <2>2, <2>5 DEF continue_session, RouteUnchanged
  <2>6. CASE stop_session(s)
    BY <2>1, <2>2, <2>6 DEF stop_session, RouteUnchanged
  <2>7. CASE AssignTask(s)
    BY <2>2, <2>7 DEF AssignTask, RouteUnchanged
  <2> QED
    BY <1>2, <2>3, <2>4, <2>5, <2>6, <2>7 DEF RouteStep
<1>3. CASE EnvStepButRestart
  <2>1. ASSUME NEW p \in Ptys, AgentDies(p)
        PROVE  TypeOK'
    BY <2>1, BoundsAssumption DEF AgentDies, PtyStates
  <2>2. CASE DaemonReaps
    BY <2>2, PtyTypes DEF DaemonReaps
  <2>3. CASE NetworkDown
    <3>1. outages < MaxOutages /\ outages' = outages + 1 /\ up' \in BOOLEAN
      BY <2>3, Zenon DEF NetworkDown
    <3>2. outages' \in 0..MaxOutages
      BY <3>1, BoundsAssumption
    <3> QED
      BY <2>3, <3>1, <3>2 DEF NetworkDown
  <2>4. CASE NetworkUp
    BY <2>4 DEF NetworkUp
  <2> QED
    BY <1>3, <2>1, <2>2, <2>3, <2>4 DEF EnvStepButRestart
<1>4. CASE ServerRestart
  <2>1. status' \in [Sessions -> Statuses \cup {Absent}]
    BY <1>4 DEF ServerRestart, Migrated, Statuses
  <2>2. /\ pc' \in [Threads -> PCs]
        /\ job' \in [Threads -> Jobs]
    BY <1>4, JobTypes DEF ServerRestart, PCs
  <2>3. /\ step' \in [Sessions -> Steps]
        /\ attempts' \in [Sessions -> 0..MaxAttempts]
        /\ restarts' \in 0..MaxRestarts
    BY <1>4, BoundsAssumption DEF ServerRestart, Steps
  <2> QED
    BY <1>4, <2>1, <2>2, <2>3 DEF ServerRestart
<1> QED
  BY <1>1, <1>2, <1>3, <1>4

\* Every step keeps the types.
LEMMA TypeStep == TypeOK /\ [Next]_vars => TypeOK'
<1> SUFFICES ASSUME TypeOK, [Next]_vars PROVE TypeOK'
  OBVIOUS
<1>1. CASE UNCHANGED vars
  BY <1>1 DEF vars, dbVars, lockVars, threadVars, memVars, daemonVars, envVars,
              TypeOK
<1> QED
  BY <1>1, TypeThread, TypeOthers DEF Next

\* Every variable keeps its type: no sequence of legal calls and failures
\* leaves a row, a lock, a thread or the daemon in an unnamed state.
THEOREM TypeCorrect == Spec => []TypeOK
BY TypeInit, TypeStep, PTL DEF Spec

-----------------------------------------------------------------------------
(* Rows.  No step of this module creates or deletes one: every write is an *)
(* UPDATE that may match no row.                                           *)

Exists(s) == status[s] # Absent

\* The steps that create and delete leave alone.
ReconnectStep ==
  \/ \E t \in Threads, s \in Sessions : Ask(t, s)
  \/ \E t \in Threads : ThreadStep(t)
  \/ \E s \in Sessions : RouteStep(s)
  \/ EnvStepButRestart

SameRows == \A s \in Sessions : status'[s] = Absent <=> status[s] = Absent

LEMMA UpdateKeepsRows ==
  ASSUME TypeOK, NEW s \in Sessions, NEW st \in Statuses,
         status' = WithStatus(s, st)
  PROVE  SameRows
BY DEF SameRows, TypeOK, WithStatus, Statuses, Absent

LEMMA StatusWords ==
  /\ {"idle", "connecting", "working", "paused", "waiting", "blocked",
      "disconnected"} \subseteq Statuses
  /\ TypeOK => \A s \in Sessions : RecoveryStatus(s) \in Statuses
BY RowTypes DEF Statuses

LEMMA ReconnectKeepsRows ==
  ASSUME TypeOK, ReconnectStep \/ ServerRestart
  PROVE  SameRows
<1>1. CASE status' = status
  BY <1>1 DEF SameRows
<1>2. ASSUME NEW t \in Threads, ThreadStep(t)
      PROVE  SameRows
  <2>1. job[t].target \in Sessions
    BY ThreadTypes
  <2>2. CASE \/ MarkConnecting(t) \/ RdevStopped(t) \/ Attach(t)
             \/ RecordPty(t) \/ GiveUp(t) \/ PipelineRaises(t)
             \/ RecordFailure(t)
    BY <2>1, <2>2, UpdateKeepsRows, StatusWords
       DEF MarkConnecting, RdevStopped, Attach, RecordPty, GiveUp,
           PipelineRaises, RecordFailure
  <2>3. CASE \/ TestLock(t) \/ FetchLock(t) \/ Acquire(t) \/ AcquireTimeout(t)
             \/ EnsureTunnelAndDaemon(t) \/ CheckPty(t) \/ KillOrphans(t)
             \/ CreatePty(t) \/ CreatePtyTwice(t) \/ CreateReplyLost(t)
             \/ CreateFails(t) \/ VerifyPty(t) \/ CleanupStale(t)
             \/ Release(t) \/ RecordSuccess(t)
    BY <1>1, <2>3
       DEF TestLock, FetchLock, Acquire, AcquireTimeout, EnsureTunnelAndDaemon,
           CheckPty, KillOrphans, CreatePty, CreatePtyTwice, CreateReplyLost,
           CreateFails, VerifyPty, CleanupStale, Release, RecordSuccess, dbVars
  <2> QED
    BY <1>2, <2>2, <2>3 DEF ThreadStep, PipelineStep
<1>3. ASSUME NEW s \in Sessions, RouteStep(s)
      PROVE  SameRows
  <2>1. CASE \E st \in {"idle", "working", "waiting", "blocked"} :
               PatchStatus(s, st)
    BY <2>1, UpdateKeepsRows, StatusWords DEF PatchStatus
  <2>2. CASE pause_session(s) \/ continue_session(s) \/ stop_session(s)
    BY <2>2, UpdateKeepsRows, StatusWords
       DEF pause_session, continue_session, stop_session
  <2>3. CASE AssignTask(s)
    BY <1>1, <2>3 DEF AssignTask
  <2> QED
    BY <1>3, <2>1, <2>2, <2>3 DEF RouteStep
<1>4. CASE EnvStepButRestart \/ \E t \in Threads, s \in Sessions : Ask(t, s)
  BY <1>1, <1>4 DEF EnvStepButRestart, AgentDies, DaemonReaps, NetworkDown,
                    NetworkUp, Ask, dbVars
<1>5. CASE ServerRestart
  BY <1>5 DEF ServerRestart, Migrated, SameRows, Absent
<1> QED
  BY <1>2, <1>3, <1>4, <1>5 DEF ReconnectStep

LEMMA NextKeepsRows == TypeOK /\ [Next]_vars => SameRows
BY ReconnectKeepsRows DEF Next, ReconnectStep, vars, dbVars, SameRows

RowsExist == \A s \in Sessions : Exists(s)

LEMMA RowsStay == RowsExist /\ SameRows => RowsExist'
BY DEF RowsExist, SameRows, Exists

LEMMA RowsExistHolds == Spec => []RowsExist
<1>1. Init => RowsExist
  BY DEF Init, RowsExist, Exists, Absent
<1> QED
  BY <1>1, TypeCorrect, NextKeepsRows, RowsStay, PTL DEF Spec

-----------------------------------------------------------------------------
(***************************************************************************)
(* The lock.  What a step of a thread does to it is one of four things.    *)
(***************************************************************************)
SameLock(t) ==
  job'[t].target = job[t].target /\ job'[t].gen = job[t].gen

Outside(t) ==
  /\ ~InPipeline(t) /\ ~InPipeline(t)' /\ locked' = locked
  /\ pc'[t] = "wait" => job'[t].gen = registry[job'[t].target]

Enters(t) ==
  /\ pc[t] = "wait" /\ InPipeline(t)' /\ SameLock(t)
  /\ LockOf(t) \notin locked /\ locked' = locked \cup {LockOf(t)}

Stays(t) ==
  InPipeline(t) /\ InPipeline(t)' /\ SameLock(t) /\ locked' = locked

Leaves(t) ==
  /\ InPipeline(t) /\ ~InPipeline(t)' /\ pc'[t] # "wait"
  /\ locked' = locked \ {LockOf(t)}

OthersKept(t) ==
  \A u \in Threads \ {t} : pc'[u] = pc[u] /\ job'[u] = job[u]

\* Each action of a thread is one of the four, and no other thread moves.
LEMMA ThreadLocks ==
  ASSUME TypeOK, NEW t \in Threads, ThreadStep(t)
  PROVE  /\ registry' = registry /\ OthersKept(t)
         /\ Outside(t) \/ Enters(t) \/ Stays(t) \/ Leaves(t)
<1>1. /\ pc \in [Threads -> PCs] /\ job \in [Threads -> Jobs]
      /\ job[t] \in Jobs
  BY DEF TypeOK
<1> USE <1>1 DEF OthersKept, InPipeline, Pipeline, lockVars, threadVars, Finish,
                 Goto
<1>2. ASSUME TestLock(t) \/ MarkConnecting(t) \/ AcquireTimeout(t)
             \/ RecordSuccess(t) \/ RecordFailure(t)
      PROVE  registry' = registry /\ OthersKept(t) /\ Outside(t)
  BY <1>2 DEF TestLock, MarkConnecting, AcquireTimeout, RecordSuccess,
              RecordFailure, Outside
<1>3. CASE FetchLock(t)
  BY <1>3 DEF FetchLock, Outside, Jobs
<1>4. CASE Acquire(t)
  BY <1>4 DEF Acquire, Enters, SameLock
<1>5. ASSUME EnsureTunnelAndDaemon(t) \/ RdevStopped(t) \/ Attach(t)
             \/ KillOrphans(t) \/ CreateReplyLost(t) \/ CreateFails(t)
             \/ RecordPty(t) \/ VerifyPty(t) \/ CleanupStale(t) \/ GiveUp(t)
             \/ PipelineRaises(t)
      PROVE  registry' = registry /\ OthersKept(t) /\ Stays(t)
  BY <1>5 DEF EnsureTunnelAndDaemon, RdevStopped, Attach, KillOrphans,
              CreateReplyLost, CreateFails, RecordPty, VerifyPty, CleanupStale,
              GiveUp, PipelineRaises, Stays, SameLock
<1>6. CASE CheckPty(t)
  BY <1>6 DEF CheckPty, Stays, SameLock, Jobs
<1>7. ASSUME CreatePty(t) \/ CreatePtyTwice(t)
      PROVE  registry' = registry /\ OthersKept(t) /\ Stays(t)
  <2>1. PICK p \in Ptys : job' = [job EXCEPT ![t].found = p]
    BY <1>7, PtyTypes DEF CreatePty, CreatePtyTwice
  <2>2. OthersKept(t)
    BY <1>7 DEF CreatePty, CreatePtyTwice
  <2>3. job'[t] = [job[t] EXCEPT !.found = p]
    BY <2>1
  <2>4. SameLock(t)
    BY <2>3 DEF SameLock, Jobs
  <2> QED
    BY <1>7, <2>2, <2>4 DEF CreatePty, CreatePtyTwice, Stays
<1>8. CASE Release(t)
  BY <1>8 DEF Release, Leaves
<1> QED
  BY <1>2, <1>3, <1>4, <1>5, <1>6, <1>7, <1>8 DEF ThreadStep, PipelineStep

\* A thread that waits for a lock or holds it has the registered lock object,
\* and a thread in the pipeline does hold it: this is what makes mutual
\* exclusion and the absence of abandoned locks inductive.
LocksOwned ==
  \A t \in Threads :
    /\ pc[t] \in Pipeline \cup {"wait"} => job[t].gen = registry[job[t].target]
    /\ InPipeline(t) => LockOf(t) \in locked

LocksInv == LocksOwned /\ OnePipelinePerSession /\ NoAbandonedLock

\* The lock invariant is inductive.
LEMMA LocksStep == TypeOK /\ LocksInv /\ [Next]_vars => LocksInv'
<1> SUFFICES ASSUME TypeOK, LocksInv, [Next]_vars PROVE LocksInv'
  OBVIOUS
<1> USE DEF LocksInv
<1>1. ASSUME UNCHANGED <<pc, job, registry, locked>>
      PROVE  LocksInv'
  BY <1>1 DEF LocksOwned, OnePipelinePerSession, NoAbandonedLock, InPipeline,
              LockOf
<1>2. ASSUME NEW t \in Threads, NEW s \in Sessions, Ask(t, s)
      PROVE  LocksInv'
  <2>1. /\ registry' = registry /\ locked' = locked /\ OthersKept(t)
        /\ ~InPipeline(t) /\ ~InPipeline(t)' /\ pc'[t] # "wait"
    BY <1>2 DEF Ask, Goto, TypeOK, lockVars, OthersKept, InPipeline, Pipeline
  <2> QED
    BY <2>1 DEF LocksOwned, OnePipelinePerSession, NoAbandonedLock, InPipeline,
                LockOf, OthersKept, Pipeline
<1>3. ASSUME NEW t \in Threads, ThreadStep(t)
      PROVE  LocksInv'
  <2>1. registry' = registry /\ OthersKept(t)
    BY <1>3, ThreadLocks
  <2>2. CASE Outside(t)
    BY <2>1, <2>2 DEF Outside, OthersKept, LocksOwned, OnePipelinePerSession,
                      NoAbandonedLock, InPipeline, LockOf
  <2>3. CASE Enters(t)
    <3>1. \A u \in Threads :
            InPipeline(u) => job[u].target # job[t].target /\ u # t
      BY <2>3 DEF Enters, LocksOwned, InPipeline, Pipeline, LockOf
    <3>2. LocksOwned'
      BY <2>1, <2>3 DEF Enters, SameLock, OthersKept, LocksOwned, InPipeline,
                        LockOf
    <3>3. OnePipelinePerSession'
      BY <2>1, <2>3, <3>1 DEF Enters, SameLock, OthersKept, InPipeline,
                              OnePipelinePerSession
    <3>4. NoAbandonedLock'
      BY <2>1, <2>3, <3>1 DEF Enters, SameLock, OthersKept, InPipeline, LockOf,
                              NoAbandonedLock
    <3> QED
      BY <3>2, <3>3, <3>4
  <2>4. CASE Stays(t)
    BY <2>1, <2>4 DEF Stays, SameLock, OthersKept, LocksOwned,
                      OnePipelinePerSession, NoAbandonedLock, InPipeline, LockOf
  <2>5. CASE Leaves(t)
    BY <2>1, <2>5 DEF Leaves, OthersKept, LocksOwned,
                      OnePipelinePerSession, NoAbandonedLock, InPipeline, LockOf
  <2> QED
    BY <1>3, ThreadLocks, <2>2, <2>3, <2>4, <2>5
<1>4. CASE ServerRestart
  BY <1>4 DEF ServerRestart, LocksOwned, OnePipelinePerSession,
              NoAbandonedLock, InPipeline, Pipeline
<1>5. ASSUME NEW s \in Sessions, RouteStep(s)
      PROVE  UNCHANGED <<pc, job, registry, locked>>
  BY <1>5 DEF RouteStep, PatchStatus, pause_session, continue_session,
              stop_session, AssignTask, RouteUnchanged, lockVars, threadVars
<1>6. CASE EnvStepButRestart
  BY <1>1, <1>6 DEF EnvStepButRestart, AgentDies, DaemonReaps, NetworkDown,
                    NetworkUp, lockVars, threadVars
<1>7. CASE UNCHANGED vars
  BY <1>1, <1>7 DEF vars, lockVars, threadVars
<1> QED
  BY <1>1, <1>2, <1>3, <1>4, <1>5, <1>6, <1>7 DEF Next

\* The lock invariant holds in every reachable state.
LEMMA LocksCorrect == Spec => []LocksInv
<1>1. Init => LocksInv
  BY DEF Init, InitRest, LocksInv, LocksOwned, OnePipelinePerSession,
         NoAbandonedLock, InPipeline, Pipeline
<1> QED
  BY <1>1, LocksStep, TypeCorrect, PTL DEF Spec

\* Reconnects of one session exclude each other however many callers passed
\* the locked() test of trigger_reconnect at once.
THEOREM MutualExclusion == Spec => []OnePipelinePerSession
BY LocksCorrect, PTL DEF LocksInv

\* Every lock that is held belongs to a thread that will release it.
THEOREM NoLockAbandoned == Spec => []NoAbandonedLock
BY LocksCorrect, PTL DEF LocksInv

-----------------------------------------------------------------------------
(***************************************************************************)
(* The agents.  A PTY id in a row or in a thread is one of that session's  *)
(* agents; a thread that is about to create an agent knows that none runs; *)
(* a dead PTY is never listed beside a live one of its session.  All of it *)
(* is said of sessions with a row, so that it can be used beside deletes:  *)
(* once the row is gone, the lock of the session excludes nobody.          *)
(***************************************************************************)
Certain(s) == s \notin unsure /\ Exists(s)

\* Steps that make no session certain again.
DoubtLasts == \A s \in Sessions : Certain(s)' => Certain(s)

OwnPty(p, s) == p # NoPty => owner[p] = s /\ pty[p] # "unused"

PtysOwned ==
  /\ \A s \in Sessions : OwnPty(ptyId[s], s)
  /\ \A t \in Threads : /\ OwnPty(job[t].snap, job[t].target)
                        /\ OwnPty(job[t].found, job[t].target)

Knows(t) ==
  LET s == job[t].target IN
  /\ pc[t] \in {"ask", "mark", "start", "wait", "rdev", "check"}
       => ~job[t].heard
  /\ Certain(s) /\ (pc[t] \in {"create", "kill2", "create2"} \/
                    (pc[t] = "kill" /\ job[t].heard))
       => LiveOf(s) = {}
  /\ Certain(s) /\ pc[t] \in {"record", "verify", "record2", "verify2"}
       => LiveOf(s) \subseteq {job[t].found}

OneAgentEach ==
  \A p, q \in Ptys :
    /\ pty[p] = "live" /\ pty[q] = "live"
    /\ owner[p] = owner[q] /\ Certain(owner[p])
    => p = q

NoCorpseBesideAgent ==
  \A p, q \in Ptys :
    pty[p] = "live" /\ owner[p] = owner[q] /\ Certain(owner[p])
    => pty[q] # "dead"

AgentsInv ==
  /\ PtysOwned /\ (\A t \in Threads : Knows(t))
  /\ OneAgentEach /\ NoCorpseBesideAgent

\* What a step of a thread does to the daemon's PTYs: it may reap, kill the
\* agents of its session, or spawn one for it (or several, unsure).
Observes ==
  /\ owner' = owner
  /\ \A p \in Ptys : pty'[p] # pty[p] => pty[p] = "dead" /\ pty'[p] = "gone"

Kills(s) ==
  /\ owner' = owner
  /\ \A p \in Ptys :
       /\ pty'[p] = "live" => pty[p] = "live" /\ owner[p] # s
       /\ pty'[p] = "dead" => \/ pty[p] = "dead"
                              \/ pty[p] = "live" /\ owner[p] = s
       /\ pty'[p] = "unused" => pty[p] = "unused"

Spawns(s, ps) ==
  /\ \A p \in ps : pty[p] = "unused"
  /\ owner' = [p \in Ptys |-> IF p \in ps THEN s ELSE owner[p]]
  /\ pty' = [p \in Ptys |-> IF p \in ps THEN "live" ELSE Reaped(pty)[p]]

\* A new PTY id is one the daemon has not used yet.
LEMMA FreshIsUnused ==
  \A ps : \A p \in FreshPty(ps) : p \in Ptys \ ps /\ pty[p] = "unused"
<1> TAKE ps
<1> DEFINE unused == {p \in Ptys \ ps : pty[p] = "unused"}
<1>1. unused # {} => (CHOOSE p \in unused : TRUE) \in unused
  OBVIOUS
<1> QED
  BY <1>1 DEF FreshPty

LEMMA DoubtStays == SameRows /\ unsure \subseteq unsure' => DoubtLasts
BY DEF SameRows, DoubtLasts, Certain, Exists

\* Each action of a thread does one of the three.
LEMMA ThreadPtys ==
  ASSUME TypeOK, NEW t \in Threads, ThreadStep(t)
  PROVE  LET s == job[t].target IN
         /\ unsure \subseteq unsure'
         /\ \/ Observes
            \/ pc[t] \in {"kill", "kill2"} /\ Kills(s)
            \/ /\ pc[t] \in {"create", "create2"}
               /\ \E ps \in SUBSET Ptys :
                    /\ Spawns(s, ps)
                    /\ s \in unsure' \/ \E p \in ps : ps = {p}
<1> DEFINE s == job[t].target
<1>1. pty \in [Ptys -> PtyStates] /\ unsure \subseteq Sessions
  BY DEF TypeOK
<1>2. pty' = Reaped(pty) /\ owner' = owner => Observes
  BY <1>1 DEF Reaped, Observes
<1>3. ASSUME UNCHANGED daemonVars
      PROVE  Observes
  BY <1>3 DEF Observes, daemonVars
<1>4. ASSUME TestLock(t) \/ MarkConnecting(t) \/ FetchLock(t) \/ Acquire(t)
             \/ AcquireTimeout(t) \/ EnsureTunnelAndDaemon(t) \/ RdevStopped(t)
             \/ Attach(t) \/ CreateFails(t) \/ RecordPty(t) \/ GiveUp(t)
             \/ PipelineRaises(t) \/ Release(t) \/ RecordSuccess(t)
             \/ RecordFailure(t)
      PROVE  UNCHANGED daemonVars /\ unsure' = unsure
  BY <1>4 DEF TestLock, MarkConnecting, FetchLock, Acquire, AcquireTimeout,
              EnsureTunnelAndDaemon, RdevStopped, Attach, CreateFails,
              RecordPty, GiveUp, PipelineRaises, Release, RecordSuccess,
              RecordFailure
<1>5. ASSUME CheckPty(t) \/ VerifyPty(t)
      PROVE  Observes /\ unsure' = unsure
  BY <1>2, <1>3, <1>5 DEF CheckPty, VerifyPty, daemonVars
<1>9. CASE CleanupStale(t)
  <2>1. CASE up
    BY <1>1, <1>9, <2>1 DEF CleanupStale, Kills, LiveOf
  <2>2. CASE ~up
    BY <1>1, <1>9, <2>2 DEF CleanupStale, Observes
  <2>3. unsure' = unsure
    BY <1>9 DEF CleanupStale
  <2> QED
    BY <1>9, <2>1, <2>2, <2>3 DEF CleanupStale
<1>6. CASE KillOrphans(t)
  <2>1. CASE up
    BY <1>1, <1>6, <2>1 DEF KillOrphans, Kills, LiveOf, Reaped
  <2>2. CASE ~up
    BY <1>3, <1>6, <2>2 DEF KillOrphans, daemonVars
  <2> QED
    BY <2>1, <2>2
<1>7. ASSUME CreatePty(t) \/ CreateReplyLost(t)
      PROVE  /\ pc[t] \in {"create", "create2"} /\ unsure' = unsure
             /\ \E p \in Ptys : Spawns(s, {p})
  BY <1>7, FreshIsUnused DEF CreatePty, CreateReplyLost, Spawned, Spawns
<1>8. CASE CreatePtyTwice(t)
  <2>1. PICK p \in FreshPty({}) : \E q \in FreshPty({p}) :
               Spawned(s, {p, q})
    BY <1>8 DEF CreatePtyTwice
  <2>2. PICK q \in FreshPty({p}) : Spawned(s, {p, q})
    BY <2>1
  <2>3. Spawns(s, {p, q}) /\ {p, q} \in SUBSET Ptys
    BY <2>2, FreshIsUnused DEF Spawned, Spawns
  <2> QED
    BY <1>8, <2>3 DEF CreatePtyTwice
<1> QED
  BY <1>3, <1>4, <1>5, <1>6, <1>7, <1>8, <1>9 DEF ThreadStep, PipelineStep

\* Steps after which no session has an agent it did not have.
Shrinks ==
  /\ owner' = owner /\ DoubtLasts
  /\ \A p \in Ptys : /\ pty'[p] = "live" => pty[p] = "live"
                     /\ pty'[p] = "unused" => pty[p] = "unused"

\* Losing agents disturbs no other thread and no PTY id.
LEMMA ShrinksKeeps ==
  ASSUME TypeOK, AgentsInv, Shrinks
  PROVE  /\ \A s \in Sessions : LiveOf(s)' \subseteq LiveOf(s)
         /\ \A p \in Ptys \cup {NoPty}, s \in Sessions :
              OwnPty(p, s) => OwnPty(p, s)'
         /\ \A t \in Threads : pc'[t] = pc[t] /\ job'[t] = job[t] => Knows(t)'
         /\ OneAgentEach'
<1>1. \A s : LiveOf(s)' \subseteq LiveOf(s)
  BY DEF Shrinks, LiveOf
<1>2. \A p \in Ptys \cup {NoPty}, s \in Sessions : OwnPty(p, s) => OwnPty(p, s)'
  BY DEF Shrinks, OwnPty
<1>3. ASSUME NEW t \in Threads, pc'[t] = pc[t], job'[t] = job[t]
      PROVE  Knows(t)'
  <2>1. job[t].target \in Sessions
    BY DEF TypeOK, Jobs
  <2> QED
    BY <1>1, <1>3, <2>1 DEF Shrinks, DoubtLasts, AgentsInv, Knows
<1>4. OneAgentEach'
  BY DEF Shrinks, DoubtLasts, AgentsInv, OneAgentEach, TypeOK
<1> QED
  BY <1>1, <1>2, <1>3, <1>4

\* Whoever only lets agents go, and leaves the threads alone, keeps it all.
LEMMA ShrinkingKeeps ==
  ASSUME TypeOK, AgentsInv, Shrinks, UNCHANGED <<pc, job>>,
         NoCorpseBesideAgent', \A s \in Sessions : OwnPty(ptyId[s], s)'
  PROVE  AgentsInv'
<1>1. \A t \in Threads : job[t] \in Jobs
  BY DEF TypeOK
<1>2. PtysOwned'
  BY <1>1, ShrinksKeeps DEF AgentsInv, PtysOwned, Jobs
<1> QED
  BY <1>2, ShrinksKeeps DEF AgentsInv

LEMMA ReapingShrinks ==
  ASSUME TypeOK, AgentsInv, DoubtLasts, owner' = owner,
         pty' = pty \/ pty' = Reaped(pty)
  PROVE  Shrinks /\ NoCorpseBesideAgent'
BY DEF TypeOK, Shrinks, Reaped, DoubtLasts, AgentsInv, NoCorpseBesideAgent

\* Only its own session's agents change when a thread spawns.
LEMMA SpawnsKeeps ==
  ASSUME TypeOK, AgentsInv, DoubtLasts,
         NEW s \in Sessions, NEW ps \in SUBSET Ptys, Spawns(s, ps),
         \/ s \in unsure' \/ ~Certain(s)
         \/ LiveOf(s) = {} /\ \E p \in ps : ps = {p}
  PROVE  /\ \A r \in Sessions : LiveOf(r)' \subseteq
                                IF r = s THEN LiveOf(s) \cup ps ELSE LiveOf(r)
         /\ \A p \in Ptys \cup {NoPty}, r \in Sessions :
              OwnPty(p, r) => OwnPty(p, r)'
         /\ \A p \in ps : OwnPty(p, s)'
         /\ OneAgentEach' /\ NoCorpseBesideAgent'
<1>1. \A p \in Ptys : /\ owner'[p] = IF p \in ps THEN s ELSE owner[p]
                      /\ p \in ps => pty[p] = "unused" /\ pty'[p] = "live"
                      /\ p \notin ps /\ pty'[p] = "live" => pty[p] = "live"
                      /\ pty'[p] # "dead"
                      /\ pty'[p] = "unused" => pty[p] = "unused"
  BY DEF Spawns, Reaped, TypeOK
<1>2. \A r \in Sessions : LiveOf(r)' \subseteq
                          IF r = s THEN LiveOf(s) \cup ps ELSE LiveOf(r)
  BY <1>1 DEF LiveOf
<1>3. /\ \A p \in Ptys \cup {NoPty}, r \in Sessions :
           OwnPty(p, r) => OwnPty(p, r)'
      /\ \A p \in ps : OwnPty(p, s)'
  BY <1>1 DEF OwnPty
<1>4. NoCorpseBesideAgent'
  BY <1>1 DEF NoCorpseBesideAgent
<1>5. OneAgentEach'
  <2> SUFFICES ASSUME NEW p \in Ptys, NEW q \in Ptys,
                      pty'[p] = "live", pty'[q] = "live",
                      owner'[p] = owner'[q], Certain(owner[p])'
               PROVE  p = q
    BY DEF OneAgentEach
  <2>1. CASE owner'[p] = s
    <3>1. LiveOf(s) = {} /\ \E x \in ps : ps = {x}
      BY <2>1 DEF DoubtLasts, Certain
    <3>2. p \in ps /\ q \in ps
      BY <1>1, <2>1, <3>1 DEF LiveOf
    <3> QED
      BY <3>1, <3>2
  <2>2. CASE owner'[p] # s
    BY <1>1, <2>2 DEF DoubtLasts, AgentsInv, OneAgentEach, TypeOK
  <2> QED
    BY <2>1, <2>2
<1> QED
  BY <1>2, <1>3, <1>4, <1>5

\* What a thread's own step makes of its knowledge and its PTY ids.
OwnKept(t) ==
  /\ \A r \in Sessions : \/ ptyId'[r] = ptyId[r]
                         \/ r = job[t].target /\ ptyId'[r] = job[t].found
  /\ OwnPty(job[t].snap, job[t].target)'
  /\ OwnPty(job[t].found, job[t].target)'
  /\ Knows(t)'

\* Steps that touch neither the daemon nor what the thread knows of it.
LEMMA OwnQuiet ==
  ASSUME TypeOK, AgentsInv, DoubtLasts, NEW t \in Threads,
         \/ TestLock(t) \/ MarkConnecting(t) \/ FetchLock(t) \/ Acquire(t)
         \/ AcquireTimeout(t) \/ EnsureTunnelAndDaemon(t) \/ RdevStopped(t)
         \/ Attach(t) \/ CreateFails(t) \/ RecordPty(t) \/ GiveUp(t)
         \/ PipelineRaises(t) \/ Release(t) \/ RecordSuccess(t)
         \/ RecordFailure(t)
  PROVE  OwnKept(t)
<1> USE DEF Goto, dbVars, daemonVars, threadVars
<1>0. /\ Knows(t) /\ OwnPty(job[t].snap, job[t].target)
      /\ OwnPty(job[t].found, job[t].target)
      /\ pc \in [Threads -> PCs] /\ job \in [Threads -> Jobs]
      /\ ptyId \in [Sessions -> Ptys \cup {NoPty}]
  BY DEF AgentsInv, PtysOwned, TypeOK
<1>1. UNCHANGED <<pty, owner, unsure>>
  BY DEF TestLock, MarkConnecting, FetchLock, Acquire, AcquireTimeout,
         EnsureTunnelAndDaemon, RdevStopped, Attach, CreateFails, RecordPty,
         GiveUp, PipelineRaises, Release, RecordSuccess, RecordFailure
<1>2. \A r \in Sessions : \/ ptyId'[r] = ptyId[r]
                          \/ r = job[t].target /\ ptyId'[r] = job[t].found
  BY <1>0 DEF TestLock, MarkConnecting, FetchLock, Acquire, AcquireTimeout,
         EnsureTunnelAndDaemon, RdevStopped, Attach, CreateFails, RecordPty,
         GiveUp, PipelineRaises, Release, RecordSuccess, RecordFailure, WithPty
<1>3. CASE job'[t] = NoJob /\ pc'[t] = "free"
  BY <1>2, <1>3 DEF OwnKept, OwnPty, Knows, NoJob, FreshJob
<1>4. ASSUME job'[t].target = job[t].target, job'[t].snap = job[t].snap,
             job'[t].found = job[t].found, job'[t].heard = job[t].heard,
             \/ pc[t] \in {"ask", "mark", "start", "wait", "rdev"}
                /\ pc'[t] \in {"mark", "start", "wait", "rdev", "check"}
             \/ pc[t] = "record" /\ pc'[t] = "verify"
             \/ pc[t] = "record2" /\ pc'[t] = "verify2"
             \/ pc'[t] \in {"ok", "exc", "failing", "releaseOk", "releaseExc"}
      PROVE  OwnKept(t)
  <2>1. \A x \in Sessions : LiveOf(x)' = LiveOf(x)
    BY <1>1 DEF LiveOf
  <2>2. job[t].target \in Sessions
    BY <1>0 DEF Jobs
  <2>3. Knows(t)'
    BY <1>0, <1>1, <1>4, <2>1, <2>2 DEF Knows, DoubtLasts
  <2> QED
    BY <1>0, <1>1, <1>2, <1>4, <2>3 DEF OwnKept, OwnPty
<1>5. CASE TestLock(t) \/ RecordSuccess(t) \/ RecordFailure(t)
  BY <1>0, <1>3, <1>4, <1>5 DEF TestLock, RecordSuccess, RecordFailure, Finish
<1>6. CASE FetchLock(t)
  <2>1. job'[t] = [job[t] EXCEPT !.gen = registry[job[t].target]]
    BY <1>0, <1>6 DEF FetchLock
  <2> QED
    BY <1>0, <1>4, <1>6, <2>1 DEF FetchLock, Jobs
<1>7. CASE \/ MarkConnecting(t) \/ Acquire(t) \/ AcquireTimeout(t)
           \/ EnsureTunnelAndDaemon(t) \/ RdevStopped(t) \/ Attach(t)
           \/ CreateFails(t) \/ RecordPty(t) \/ GiveUp(t) \/ PipelineRaises(t)
           \/ Release(t)
  BY <1>0, <1>4, <1>7 DEF MarkConnecting, Acquire, AcquireTimeout,
         EnsureTunnelAndDaemon, RdevStopped, Attach, CreateFails, RecordPty,
         GiveUp, PipelineRaises, Release
<1> QED
  BY <1>5, <1>6, <1>7

\* The list answers "none" only when no agent of the session runs.
LEMMA OwnCheck ==
  ASSUME TypeOK, AgentsInv, DoubtLasts, NEW t \in Threads, CheckPty(t)
  PROVE  OwnKept(t)
<1> DEFINE s == job[t].target
           mine == job[t].snap
           listed == mine \in Ptys /\ pty[mine] \in {"live", "dead"}
           found == IF listed /\ pty[mine] = "live" THEN {mine}
                    ELSE IF listed THEN {} ELSE LiveOf(s)
<1>0. /\ Knows(t) /\ OwnPty(mine, s) /\ OwnPty(job[t].found, s)
      /\ pc \in [Threads -> PCs] /\ job \in [Threads -> Jobs] /\ job[t] \in Jobs
      /\ s \in Sessions /\ pty \in [Ptys -> PtyStates]
  BY DEF AgentsInv, PtysOwned, TypeOK, Jobs
<1>1. pc[t] = "check" /\ UNCHANGED <<ptyId, owner, unsure>>
  BY DEF CheckPty, dbVars
<1>2. Observes /\ Shrinks
  <2>1. Observes
    BY ThreadPtys, <1>0, <1>1 DEF CheckPty, Observes, Reaped
  <2> QED
    BY <2>1, <1>1 DEF Shrinks, Observes
<1>3. \A r \in Sessions :
        /\ LiveOf(r)' \subseteq LiveOf(r)
        /\ \A p \in Ptys \cup {NoPty} : OwnPty(p, r) => OwnPty(p, r)'
  BY <1>0, <1>2, ShrinksKeeps
<1>4. Certain(s) /\ found = {} => LiveOf(s) = {}
  BY <1>0, NoPtyAssumption
  DEF AgentsInv, NoCorpseBesideAgent, LiveOf, OwnPty
<1>5. \A p \in found : p \in Ptys /\ OwnPty(p, s)
  BY <1>0 DEF LiveOf, OwnPty
<1>6. CASE /\ pc'[t] = "kill" /\ found = {}
           /\ job' = [job EXCEPT ![t].heard = TRUE]
  <2>1. job'[t] = [job[t] EXCEPT !.heard = TRUE]
    BY <1>0, <1>6
  <2>2. /\ job'[t].target = s /\ job'[t].snap = mine
        /\ job'[t].found = job[t].found
    BY <1>0, <2>1 DEF Jobs
  <2> QED
    BY <1>0, <1>1, <1>3, <1>4, <1>6, <2>2 DEF OwnKept, Knows, DoubtLasts,
                                              Jobs, OwnPty
<1>7. ASSUME NEW p \in found, pc'[t] = "attach",
             job' = [job EXCEPT ![t].heard = TRUE, ![t].found = p]
      PROVE  OwnKept(t)
  <2>1. job'[t] = [[job[t] EXCEPT !.heard = TRUE] EXCEPT !.found = p]
    BY <1>0, <1>7
  <2>2. job'[t].target = s /\ job'[t].snap = mine /\ job'[t].found = p
    BY <1>0, <2>1 DEF Jobs
  <2>3. p \in Ptys /\ OwnPty(p, s)
    BY <1>5
  <2> QED
    BY <1>0, <1>1, <1>3, <1>7, <2>2, <2>3 DEF OwnKept, Knows, Jobs, OwnPty
<1>8. CASE pc'[t] = "kill" /\ job' = job
  BY <1>0, <1>1, <1>3, <1>8 DEF OwnKept, Knows, Jobs, OwnPty
<1> QED
  <2>1. \/ /\ pc'[t] = "kill" /\ found = {}
           /\ job' = [job EXCEPT ![t].heard = TRUE]
        \/ \E p \in found :
             /\ pc'[t] = "attach"
             /\ job' = [job EXCEPT ![t].heard = TRUE, ![t].found = p]
        \/ pc'[t] = "kill" /\ job' = job
    BY <1>0 DEF CheckPty, Goto
  <2> QED
    BY <2>1, <1>6, <1>7, <1>8

\* After the kill no agent of the session runs, or the thread is unsure; an
\* agent found dead leaves none either.
LEMMA OwnKillVerify ==
  ASSUME TypeOK, AgentsInv, DoubtLasts, NEW t \in Threads,
         KillOrphans(t) \/ VerifyPty(t) \/ CleanupStale(t)
  PROVE  OwnKept(t)
<1> DEFINE s == job[t].target
<1>0. /\ Knows(t) /\ OwnPty(job[t].snap, s) /\ OwnPty(job[t].found, s)
      /\ pc \in [Threads -> PCs] /\ job[t] \in Jobs /\ s \in Sessions
      /\ pty \in [Ptys -> PtyStates]
  BY DEF AgentsInv, PtysOwned, TypeOK, Jobs
<1>1. UNCHANGED <<ptyId, owner, job>>
  BY DEF KillOrphans, VerifyPty, CleanupStale, dbVars
<1>2. Shrinks
  BY <1>0, <1>1 DEF KillOrphans, VerifyPty, CleanupStale, Shrinks, Reaped,
     LiveOf
<1>3. \A r \in Sessions :
        /\ LiveOf(r)' \subseteq LiveOf(r)
        /\ \A p \in Ptys \cup {NoPty} : OwnPty(p, r) => OwnPty(p, r)'
  BY <1>0, <1>2, ShrinksKeeps
<1>4. OwnPty(job[t].snap, s)' /\ OwnPty(job[t].found, s)'
  BY <1>0, <1>1, <1>3 DEF Jobs
<1>5. CASE KillOrphans(t)
  <2>1. pc'[t] = "create"
    BY <1>0, <1>5 DEF KillOrphans, Goto
  <2>2. s \in unsure' \/ LiveOf(s)' = {}
    <3>1. CASE up
      BY <1>0, <1>5, <3>1 DEF KillOrphans, LiveOf, Reaped
    <3>2. CASE ~up
      BY <1>5, <3>2 DEF KillOrphans
    <3> QED
      BY <3>1, <3>2
  <2> QED
    BY <1>1, <1>4, <2>1, <2>2 DEF OwnKept, Knows, Certain
<1>6. CASE VerifyPty(t)
  <2>1. unsure' = unsure /\ pc[t] \in {"verify", "verify2"}
    BY <1>6 DEF VerifyPty
  <2>2. \/ pc'[t] \in {"releaseOk", "giveup"}
        \/ pc'[t] = "kill2" /\ pty[job[t].found] # "live"
    BY <1>0, <1>6 DEF VerifyPty, Goto
  <2>3. pty[job[t].found] # "live" /\ Certain(s) => LiveOf(s) = {}
    BY <1>0, <2>1 DEF Knows, LiveOf
  <2>4. LiveOf(s)' \subseteq LiveOf(s)
    BY <1>0, <1>1, <1>3
  <2> QED
    BY <1>0, <1>1, <1>4, <2>1, <2>2, <2>3, <2>4
    DEF OwnKept, Knows, DoubtLasts
<1>7. CASE CleanupStale(t)
  <2>1. pc'[t] = "create2" /\ pc[t] = "kill2" /\ unsure' = unsure
    BY <1>0, <1>7 DEF CleanupStale, Goto
  <2> QED
    BY <1>0, <1>1, <1>3, <1>4, <2>1 DEF OwnKept, Knows, DoubtLasts
<1> QED
  BY <1>5, <1>6, <1>7

\* The pieces of a create: which PTYs it spawned and where it leads.
LEMMA OwnCreate ==
  ASSUME TypeOK, AgentsInv, DoubtLasts, NEW t \in Threads,
         CreatePty(t) \/ CreatePtyTwice(t) \/ CreateReplyLost(t)
  PROVE  OwnKept(t)
<1> DEFINE s == job[t].target
<1>0. /\ Knows(t) /\ OwnPty(job[t].snap, s) /\ OwnPty(job[t].found, s)
      /\ pc \in [Threads -> PCs] /\ job \in [Threads -> Jobs]
      /\ job[t] \in Jobs /\ s \in Sessions
  BY DEF AgentsInv, PtysOwned, TypeOK, Jobs
<1>1. /\ UNCHANGED ptyId
      /\ pc[t] \in {"create", "create2"}
  BY DEF CreatePty, CreatePtyTwice, CreateReplyLost, dbVars
<1>2. Certain(s) => LiveOf(s) = {}
  BY <1>0, <1>1 DEF Knows
<1>3. \/ pc'[t] = "failing" /\ job' = job
      \/ pc'[t] \in {"record", "record2"}
  BY <1>0 DEF CreatePty, CreatePtyTwice, CreateReplyLost, Goto
<1>4. ASSUME NEW ps \in SUBSET Ptys, Spawns(s, ps),
             s \in unsure' \/ \E p \in ps : ps = {p},
             \/ pc'[t] = "failing" /\ job' = job
             \/ /\ pc'[t] \in {"record", "record2"}
                /\ \E p \in ps : job' = [job EXCEPT ![t].found = p]
      PROVE  OwnKept(t)
  <2>1. /\ \A r \in Sessions : LiveOf(r)' \subseteq
                               IF r = s THEN LiveOf(s) \cup ps ELSE LiveOf(r)
        /\ \A p \in Ptys \cup {NoPty}, r \in Sessions :
             OwnPty(p, r) => OwnPty(p, r)'
        /\ \A p \in ps, r \in Sessions : r = s => OwnPty(p, r)'
    BY <1>0, <1>1, <1>2, <1>4, SpawnsKeeps
  <2>2. CASE pc'[t] = "failing" /\ job' = job
    BY <1>0, <1>1, <2>1, <2>2 DEF OwnKept, Knows, Jobs
  <2>3. ASSUME NEW p \in ps, job' = [job EXCEPT ![t].found = p],
               pc'[t] \in {"record", "record2"}
        PROVE  OwnKept(t)
    <3>1. job'[t] = [job[t] EXCEPT !.found = p]
      BY <1>0, <2>3
    <3>2. /\ job'[t].target = s /\ job'[t].snap = job[t].snap
          /\ job'[t].found = p
      BY <1>0, <3>1 DEF Jobs
    <3>3. OwnPty(job[t].snap, s)' /\ OwnPty(job[t].found, s)'
      BY <1>0, <2>1, <3>2 DEF Jobs
    <3>4. ASSUME s \notin unsure', Certain(s)
          PROVE  LiveOf(s)' \subseteq {p}
      <4>1. LiveOf(s) = {} /\ ps = {p}
        BY <1>2, <1>4, <3>4
      <4>2. \A r \in Sessions : r = s => LiveOf(r)' \subseteq {p}
        BY <2>1, <4>1
      <4> QED
        BY <1>0, <3>2, <4>2
    <3>5. Knows(t)'
      <4>1. Certain(job[t].target)' => s \notin unsure' /\ Certain(s)
        BY <1>0, <3>2 DEF DoubtLasts, Certain
      <4> QED
        BY <2>3, <3>2, <3>4, <4>1 DEF Knows
    <3> QED
      BY <1>1, <3>3, <3>5 DEF OwnKept
  <2> QED
    BY <1>4, <2>2, <2>3
<1>5. CASE CreatePty(t)
  <2>1. PICK p \in FreshPty({}) : /\ Spawned(s, {p})
                                  /\ job' = [job EXCEPT ![t].found = p]
    BY <1>5 DEF CreatePty
  <2>2. {p} \in SUBSET Ptys /\ Spawns(s, {p})
    BY <2>1, FreshIsUnused DEF Spawned, Spawns
  <2>3. pc'[t] \in {"record", "record2"}
    BY <1>0, <1>5 DEF CreatePty, Goto
  <2> QED
    BY <1>4, <2>1, <2>2, <2>3
<1>6. CASE CreatePtyTwice(t)
  <2>1. PICK p \in FreshPty({}) : \E q \in FreshPty({p}) :
               Spawned(s, {p, q}) /\ job' = [job EXCEPT ![t].found = q]
    BY <1>6 DEF CreatePtyTwice
  <2>2. PICK q \in FreshPty({p}) :
               Spawned(s, {p, q}) /\ job' = [job EXCEPT ![t].found = q]
    BY <2>1
  <2>3. {p, q} \in SUBSET Ptys /\ Spawns(s, {p, q})
    BY <2>2, FreshIsUnused DEF Spawned, Spawns
  <2>4. pc'[t] \in {"record", "record2"} /\ s \in unsure'
    BY <1>0, <1>6 DEF CreatePtyTwice, Goto
  <2> QED
    BY <1>4, <2>2, <2>3, <2>4
<1>7. CASE CreateReplyLost(t)
  <2>1. PICK p \in FreshPty({}) : Spawned(s, {p})
    BY <1>7 DEF CreateReplyLost
  <2>2. {p} \in SUBSET Ptys /\ Spawns(s, {p})
    BY <2>1, FreshIsUnused DEF Spawned, Spawns
  <2>3. pc'[t] = "failing" /\ job' = job
    BY <1>0, <1>7 DEF CreateReplyLost, Goto
  <2> QED
    BY <1>4, <2>2, <2>3
<1> QED
  BY <1>5, <1>6, <1>7

\* What every step leaves true of the threads that do not take it.
OthersSafe(t) ==
  /\ \A p \in Ptys \cup {NoPty}, r \in Sessions : OwnPty(p, r) => OwnPty(p, r)'
  /\ \A u \in Threads \ {t} : Knows(u)'
  /\ OneAgentEach' /\ NoCorpseBesideAgent'

\* Nobody else is in the pipeline of the thread's session, while it exists
\* and its pipelines share a lock.
Alone(t) ==
  \A u \in Threads \ {t} :
    /\ InPipeline(t) /\ InPipeline(u) /\ job[u].target = job[t].target
    => ~Certain(job[t].target)

LEMMA LocksExclude == LocksInv => \A t \in Threads : Alone(t)
BY DEF LocksInv, OnePipelinePerSession, Alone

\* A thread's step keeps the agent invariant.
LEMMA AgentsThread ==
  ASSUME TypeOK, AgentsInv, NEW t \in Threads, Alone(t), ThreadStep(t)
  PROVE  AgentsInv'
<1> DEFINE s == job[t].target
<1>0. /\ s \in Sessions /\ OthersKept(t) /\ DoubtLasts
      /\ \A u \in Threads : job[u] \in Jobs /\ job[u].target \in Sessions
  <2>1. SameRows
    BY ReconnectKeepsRows DEF ReconnectStep
  <2> QED
    BY <2>1, ThreadLocks, ThreadPtys, DoubtStays DEF TypeOK, Jobs
<1>1. OwnKept(t)
  BY <1>0, OwnQuiet, OwnCheck, OwnKillVerify, OwnCreate
  DEF ThreadStep, PipelineStep
<1>2. OthersSafe(t)
  <2>1. CASE Observes
    <3>1. Shrinks
      BY <1>0, <2>1 DEF Observes, Shrinks
    <3>2. NoCorpseBesideAgent'
      BY <1>0, <2>1 DEF Observes, DoubtLasts, AgentsInv, NoCorpseBesideAgent,
                        TypeOK
    <3> QED
      BY <1>0, <3>1, <3>2, ShrinksKeeps DEF OthersKept, OthersSafe
  <2>2. CASE Kills(s)
    <3>1. Shrinks
      BY <1>0, <2>2 DEF Kills, Shrinks
    <3>2. NoCorpseBesideAgent'
      BY <1>0, <2>2, <3>1
         DEF AgentsInv, Kills, NoCorpseBesideAgent, Shrinks, DoubtLasts, TypeOK
    <3> QED
      BY <1>0, <3>1, <3>2, ShrinksKeeps DEF OthersKept, OthersSafe
  <2>3. ASSUME pc[t] \in {"create", "create2"}, NEW ps \in SUBSET Ptys,
               Spawns(s, ps), s \in unsure' \/ \E p \in ps : ps = {p}
        PROVE  OthersSafe(t)
    <3>1. \/ s \in unsure' \/ ~Certain(s)
          \/ LiveOf(s) = {} /\ \E p \in ps : ps = {p}
      BY <1>0, <2>3 DEF AgentsInv, Knows
    <3>2. /\ \A r \in Sessions : LiveOf(r)' \subseteq
                                 IF r = s THEN LiveOf(s) \cup ps ELSE LiveOf(r)
          /\ \A p \in Ptys \cup {NoPty}, r \in Sessions :
               OwnPty(p, r) => OwnPty(p, r)'
          /\ OneAgentEach' /\ NoCorpseBesideAgent'
      BY <1>0, <2>3, <3>1, SpawnsKeeps
    <3>3. ASSUME NEW u \in Threads \ {t}
          PROVE  Knows(u)'
      <4>1. InPipeline(u) => job[u].target # s \/ ~Certain(s)
        BY <2>3, <3>3 DEF Alone, InPipeline, Pipeline, Certain
      <4>2. job[u].target # s => LiveOf(job[u].target)' \subseteq
                                 LiveOf(job[u].target)
        BY <1>0, <3>2, <3>3 DEF OthersKept
      <4>3. Knows(u) /\ pc'[u] = pc[u] /\ job'[u] = job[u]
        BY <1>0, <3>3 DEF AgentsInv, OthersKept
      <4> QED
        BY <1>0, <4>1, <4>2, <4>3 DEF Knows, DoubtLasts, InPipeline, Pipeline
    <3> QED
      BY <3>2, <3>3 DEF OthersSafe
  <2> QED
    BY <2>1, <2>2, <2>3, ThreadPtys
<1>3. PtysOwned'
  <2>1. ASSUME NEW r \in Sessions
        PROVE  OwnPty(ptyId[r], r)'
    <3>1. /\ OwnPty(ptyId[r], r) /\ ptyId[r] \in Ptys \cup {NoPty}
          /\ OwnPty(job[t].found, s) /\ job[t].found \in Ptys \cup {NoPty}
      BY <1>0, <2>1 DEF AgentsInv, PtysOwned, TypeOK, Jobs
    <3>2. ptyId'[r] = ptyId[r] \/ (r = s /\ ptyId'[r] = job[t].found)
      BY <1>1, <2>1 DEF OwnKept
    <3>3. \A p \in Ptys \cup {NoPty} : OwnPty(p, r) => OwnPty(p, r)'
      BY <1>2, <2>1 DEF OthersSafe
    <3> QED
      BY <3>1, <3>2, <3>3 DEF OwnPty
  <2>2. ASSUME NEW u \in Threads
        PROVE  OwnPty(job[u].snap, job[u].target)'
               /\ OwnPty(job[u].found, job[u].target)'
    BY <1>0, <1>1, <1>2, <2>2 DEF OwnKept, OthersKept, OthersSafe, AgentsInv,
                                  PtysOwned, Jobs
  <2> QED
    BY <2>1, <2>2 DEF PtysOwned
<1> QED
  BY <1>1, <1>2, <1>3 DEF AgentsInv, OwnKept, OthersSafe

\* What a pipeline could not rule out stays possible.
LEMMA UnsureGrows == TypeOK /\ [Next]_vars => unsure \subseteq unsure'
<1> SUFFICES ASSUME TypeOK, [Next]_vars PROVE unsure \subseteq unsure'
  OBVIOUS
<1>1. ASSUME NEW t \in Threads, ThreadStep(t)
      PROVE  unsure \subseteq unsure'
  BY <1>1, ThreadPtys
<1>2. ASSUME NEW s \in Sessions, RouteStep(s)
      PROVE  unsure' = unsure
  BY <1>2 DEF RouteStep, PatchStatus, pause_session, continue_session,
              stop_session, AssignTask, RouteUnchanged
<1>3. CASE EnvStepButRestart
  BY <1>3 DEF EnvStepButRestart, AgentDies, DaemonReaps, NetworkDown, NetworkUp
<1> QED
  BY <1>1, <1>2, <1>3 DEF Next, Ask, ServerRestart, vars

\* Requests, routes and the environment keep the agent invariant.
LEMMA AgentsOthers ==
  ASSUME TypeOK, AgentsInv,
         \/ \E t \in Threads, s \in Sessions : Ask(t, s)
         \/ \E s \in Sessions : RouteStep(s)
         \/ EnvStepButRestart
         \/ ServerRestart
         \/ UNCHANGED vars
  PROVE  AgentsInv'
<1> USE DEF vars, dbVars, threadVars, daemonVars, envVars
<1>0. /\ pc \in [Threads -> PCs] /\ job \in [Threads -> Jobs]
      /\ pty \in [Ptys -> PtyStates] /\ unsure \subseteq Sessions
      /\ ptyId \in [Sessions -> Ptys \cup {NoPty}]
      /\ \A t \in Threads : job[t] \in Jobs
  BY DEF TypeOK
<1>d. DoubtLasts
  <2>1. SameRows
    BY ReconnectKeepsRows DEF ReconnectStep, SameRows
  <2> QED
    BY <2>1, UnsureGrows, DoubtStays DEF Next
<1>1. ASSUME UNCHANGED <<ptyId, pty, owner, unsure>>
      PROVE  /\ Shrinks /\ NoCorpseBesideAgent'
             /\ \A s \in Sessions : OwnPty(ptyId[s], s)'
  BY <1>d, <1>1 DEF AgentsInv, PtysOwned, Shrinks, NoCorpseBesideAgent, OwnPty,
                    DoubtLasts, TypeOK
<1>2. ASSUME UNCHANGED <<ptyId, pc, job>>, Shrinks, NoCorpseBesideAgent'
      PROVE  AgentsInv'
  BY <1>0, <1>2, ShrinksKeeps, ShrinkingKeeps DEF AgentsInv, PtysOwned
<1>3. ASSUME NEW t \in Threads, NEW s \in Sessions, Ask(t, s)
      PROVE  AgentsInv'
  <2>1. /\ UNCHANGED <<ptyId, pty, owner, unsure>>
        /\ job'[t] = FreshJob(s, ptyId[s]) /\ pc'[t] = "ask"
        /\ \A u \in Threads \ {t} : job'[u] = job[u] /\ pc'[u] = pc[u]
    BY <1>0, <1>3 DEF Ask, Goto
  <2>2. Shrinks /\ NoCorpseBesideAgent' /\ OneAgentEach'
    BY <1>1, <2>1, ShrinksKeeps
  <2>3. PtysOwned'
    BY <2>1 DEF AgentsInv, PtysOwned, OwnPty, FreshJob
  <2>4. \A u \in Threads : Knows(u)'
    <3>1. Knows(t)'
      BY <2>1 DEF Knows, FreshJob
    <3> QED
      BY <2>1, <2>2, <3>1, ShrinksKeeps
  <2> QED
    BY <2>2, <2>3, <2>4 DEF AgentsInv
<1>4. ASSUME NEW s \in Sessions, RouteStep(s)
      PROVE  UNCHANGED <<ptyId, pty, owner, unsure, pc, job>>
  BY <1>4 DEF RouteStep, PatchStatus, pause_session, continue_session,
              stop_session, AssignTask, RouteUnchanged
<1>5. CASE EnvStepButRestart
  <2>1. ASSUME NEW p \in Ptys, AgentDies(p)
        PROVE  AgentsInv'
    <3>1. /\ UNCHANGED <<ptyId, pc, job, owner, unsure>> /\ pty[p] = "live"
          /\ \A q \in Ptys : pty'[q] = IF q = p THEN "dead" ELSE pty[q]
      BY <1>0, <2>1 DEF AgentDies
    <3>2. Shrinks
      BY <1>d, <3>1 DEF Shrinks
    <3>3. NoCorpseBesideAgent'
      BY <1>d, <3>1 DEF AgentsInv, OneAgentEach, NoCorpseBesideAgent,
                        DoubtLasts, TypeOK
    <3> QED
      BY <1>2, <3>1, <3>2, <3>3
  <2>2. CASE DaemonReaps
    <3>1. /\ UNCHANGED <<ptyId, pc, job, owner, unsure>> /\ pty' = Reaped(pty)
      BY <2>2 DEF DaemonReaps
    <3>2. Shrinks /\ NoCorpseBesideAgent'
      BY <1>d, <3>1, ReapingShrinks
    <3> QED
      BY <1>2, <3>1, <3>2
  <2>3. CASE NetworkDown \/ NetworkUp
    BY <1>1, <1>2, <2>3 DEF NetworkDown, NetworkUp
  <2> QED
    BY <1>5, <2>1, <2>2, <2>3 DEF EnvStepButRestart
<1>6. CASE ServerRestart
  <2>1. /\ UNCHANGED <<ptyId, pty, owner, unsure>>
        /\ \A t \in Threads : job'[t] = NoJob /\ pc'[t] = "free"
    BY <1>6 DEF ServerRestart
  <2>2. Shrinks /\ NoCorpseBesideAgent' /\ OneAgentEach'
    BY <1>1, <2>1, ShrinksKeeps
  <2>3. \A t \in Threads : /\ job'[t].snap = NoPty /\ job'[t].found = NoPty
                           /\ pc'[t] = "free"
    <3>1. NoJob.snap = NoPty /\ NoJob.found = NoPty
      BY DEF NoJob, FreshJob
    <3> QED
      BY <2>1, <3>1
  <2>4. PtysOwned'
    BY <1>1, <2>1, <2>3 DEF PtysOwned, OwnPty
  <2>5. \A t \in Threads : Knows(t)'
    BY <2>3 DEF Knows
  <2> QED
    BY <2>2, <2>4, <2>5 DEF AgentsInv
<1>7. CASE UNCHANGED vars
  BY <1>1, <1>2, <1>7
<1> QED
  BY <1>1, <1>2, <1>3, <1>4, <1>5, <1>6, <1>7

\* The agent invariant is inductive, given types and locks.
LEMMA AgentsStep == TypeOK /\ LocksInv /\ AgentsInv /\ [Next]_vars => AgentsInv'
BY AgentsThread, AgentsOthers, LocksExclude DEF Next

\* No agent runs at first.
LEMMA AgentsInit == Init => AgentsInv
<1> SUFFICES ASSUME Init PROVE AgentsInv
  OBVIOUS
<1> USE DEF Init, InitRest
<1>1. \A s \in Sessions : LiveOf(s) = {}
  BY DEF LiveOf
<1>2. \A t \in Threads : job[t].snap = NoPty /\ job[t].found = NoPty
                         /\ pc[t] = "free"
  BY DEF NoJob, FreshJob
<1> QED
  BY <1>1, <1>2 DEF AgentsInv, PtysOwned, OwnPty, Knows, OneAgentEach,
                    NoCorpseBesideAgent

\* The agent invariant holds in every reachable state.
LEMMA AgentsCorrect == Spec => []AgentsInv
BY AgentsInit, AgentsStep, TypeCorrect, LocksCorrect, PTL DEF Spec

\* Whatever crashes, restarts and races, a session has one agent at most,
\* unless a pipeline's kill was not delivered or its create executed twice.
THEOREM AtMostOneAgent == Spec => []OneAgentPerSession
<1>1. TypeOK /\ AgentsInv /\ RowsExist => OneAgentPerSession
  BY DEF TypeOK, AgentsInv, OneAgentEach, RowsExist, Certain,
         OneAgentPerSession
<1> QED
  BY <1>1, TypeCorrect, AgentsCorrect, RowsExistHolds, PTL

\* A pipeline whose pty_list was answered kills no running agent: it found
\* none, and while it holds the lock nobody else creates one.
THEOREM OrphansAreReused == Spec => OrphanReused
<1>1. TypeOK /\ AgentsInv /\ RowsExist /\ [Next]_vars =>
        [\A t \in Threads :
           job[t].heard /\ job[t].target \notin unsure'
           => KilledBy(t) = {}]_vars
  <2> SUFFICES ASSUME TypeOK, AgentsInv, RowsExist, [Next]_vars,
                      NEW t \in Threads, job[t].heard,
                      job[t].target \notin unsure',
                      pc[t] \in {"kill", "kill2"}
               PROVE  LiveOf(job[t].target) = {}
    BY DEF KilledBy
  <2>1. unsure \subseteq unsure'
    BY UnsureGrows
  <2> QED
    BY <2>1 DEF AgentsInv, Knows, Certain, RowsExist, TypeOK, Jobs
<1> QED
  BY <1>1, TypeCorrect, AgentsCorrect, RowsExistHolds, PTL
  DEF Spec, OrphanReused

-----------------------------------------------------------------------------
(***************************************************************************)
(* Reconnect implements AgentSlots.  Claims follow the locks, launches and *)
(* terminations the pipeline of the session that is claimed.               *)
(***************************************************************************)

\* Agents that are only observed are the same agents.
LEMMA ObservedRun ==
  ASSUME TypeOK, Observes
  PROVE  Running' = Running
<1>1. \A s \in Sessions : LiveOf(s)' = LiveOf(s)
  BY DEF Observes, LiveOf
<1> QED
  BY <1>1 DEF Running

\* A thread that neither enters nor leaves the pipeline moves no claim.
LEMMA ClaimsKept ==
  ASSUME TypeOK, NEW t \in Threads, OthersKept(t), Outside(t) \/ Stays(t)
  PROVE  Claimed' = Claimed
BY DEF OthersKept, Outside, Stays, SameLock, Claimed, InPipeline

\* A thread claims the session when it takes the lock, gives it back when it
\* releases the lock, and does neither otherwise.
LEMMA ThreadClaims ==
  ASSUME TypeOK, LocksInv, NEW t \in Threads, ThreadStep(t),
         NEW s \in Sessions, s = job[t].target
  PROVE  /\ InPipeline(t) => s \in Claimed
         /\ Acquire(t) => s \notin Claimed /\ Claimed' = Claimed \cup {s}
         /\ Release(t) => s \in Claimed /\ Claimed' = Claimed \ {s}
         /\ ~Acquire(t) /\ ~Release(t) => Claimed' = Claimed
<1>1. OthersKept(t) /\ (Outside(t) \/ Enters(t) \/ Stays(t) \/ Leaves(t))
  BY ThreadLocks
<1>2. InPipeline(t) => s \in Claimed
  BY DEF Claimed
<1>3. ASSUME Enters(t)
      PROVE  s \notin Claimed /\ Claimed' = Claimed \cup {s}
  <2>1. \A u \in Threads : InPipeline(u) => job[u].target # s /\ u # t
    BY <1>3 DEF LocksInv, Enters, LocksOwned, InPipeline, Pipeline, LockOf
  <2> QED
    BY <1>1, <1>3, <2>1 DEF Enters, SameLock, OthersKept, InPipeline, Claimed
<1>4. ASSUME Leaves(t)
      PROVE  s \in Claimed /\ Claimed' = Claimed \ {s}
  <2>1. \A u \in Threads \ {t} : InPipeline(u) => job[u].target # s
    BY <1>4 DEF LocksInv, Leaves, OnePipelinePerSession
  <2> QED
    BY <1>1, <1>4, <2>1 DEF Leaves, OthersKept, InPipeline, Claimed
<1>5. Acquire(t) => Enters(t)
  <2> SUFFICES ASSUME Acquire(t) PROVE InPipeline(t)' /\ pc[t] = "wait"
    BY <1>1 DEF Outside, Stays, Leaves, InPipeline, Pipeline
  <2> QED
    BY DEF Acquire, Goto, InPipeline, Pipeline, TypeOK
<1>6. Release(t) => Leaves(t)
  <2> SUFFICES ASSUME Release(t) PROVE InPipeline(t) /\ ~InPipeline(t)'
    BY <1>1 DEF Outside, Enters, Stays, InPipeline, Pipeline
  <2> QED
    BY DEF Release, Goto, InPipeline, Pipeline, TypeOK
<1>7. ASSUME ~Acquire(t), ~Release(t)
      PROVE  Claimed' = Claimed
  <2>1. ~Enters(t) /\ ~Leaves(t)
    BY <1>7 DEF ThreadStep, PipelineStep, Enters, Leaves, TestLock,
         MarkConnecting, FetchLock, AcquireTimeout, EnsureTunnelAndDaemon,
         RdevStopped, CheckPty, Attach, KillOrphans, CreatePty,
         CreatePtyTwice, CreateReplyLost, CreateFails, RecordPty, VerifyPty,
         CleanupStale, GiveUp, PipelineRaises, RecordSuccess, RecordFailure,
         Goto, InPipeline, Pipeline, TypeOK
  <2> QED
    BY <1>1, <2>1, ClaimsKept
<1> QED
  BY <1>2, <1>3, <1>4, <1>5, <1>6, <1>7

\* A step of a thread is a step of AgentSlots, or changes none of it.
LEMMA SlotsThread ==
  ASSUME TypeOK, LocksInv, AgentsInv, RowsExist,
         NEW t \in Threads, ThreadStep(t)
  PROVE  [Slots!SlotsNext]_(Slots!slotVars)
<1>1. PICK s \in Sessions : s = job[t].target
  BY DEF TypeOK, Jobs
<1>2. /\ InPipeline(t) => s \in Claimed
      /\ Acquire(t) => s \notin Claimed /\ Claimed' = Claimed \cup {s}
      /\ Release(t) => s \in Claimed /\ Claimed' = Claimed \ {s}
      /\ ~Acquire(t) /\ ~Release(t) => Claimed' = Claimed
  BY <1>1, ThreadClaims
<1>3. UNCHANGED daemonVars => Running' = Running
  BY DEF daemonVars, Running, LiveOf
<1>4. CASE Acquire(t)
  <2>1. UNCHANGED <<Running, unsure>>
    BY <1>3, <1>4 DEF Acquire
  <2>2. Slots!Claim(s)
    BY <1>2, <1>4, <2>1 DEF Slots!Claim
  <2> QED
    BY <2>2 DEF Slots!SlotsNext
<1>5. CASE Release(t)
  <2>1. UNCHANGED <<Running, unsure>>
    BY <1>3, <1>5 DEF Release
  <2>2. Slots!GiveBack(s)
    BY <1>2, <1>5, <2>1 DEF Slots!GiveBack
  <2> QED
    BY <2>2 DEF Slots!SlotsNext
<1>6. CASE KillOrphans(t)
  <2>1. s \in Claimed /\ Claimed' = Claimed
    BY <1>2, <1>6 DEF KillOrphans, Acquire, Release, InPipeline, Pipeline
  <2>2. CASE up
    <3>1. \A r \in Sessions :
            LiveOf(r)' = IF r = s THEN {} ELSE LiveOf(r)
      BY <1>1, <1>6, <2>2 DEF KillOrphans, LiveOf, Reaped, TypeOK
    <3>2. Running' = [Running EXCEPT ![s] = {}] /\ unsure' = unsure
      BY <1>6, <2>2, <3>1 DEF Running, KillOrphans
    <3>3. Slots!Terminate(s)
      BY <2>1, <3>2 DEF Slots!Terminate
    <3> QED
      BY <3>3 DEF Slots!SlotsNext
  <2>3. CASE ~up
    <3>1. UNCHANGED daemonVars /\ unsure' = unsure \cup {s}
      BY <1>1, <1>6, <2>3 DEF KillOrphans, daemonVars
    <3>2. Slots!LoseTrack(s)
      BY <1>3, <2>1, <3>1 DEF Slots!LoseTrack
    <3> QED
      BY <3>2 DEF Slots!SlotsNext
  <2> QED
    BY <2>2, <2>3
<1>7. CASE CreatePty(t) \/ CreatePtyTwice(t) \/ CreateReplyLost(t)
  <2>1. s \in Claimed /\ Claimed' = Claimed
    BY <1>2, <1>7 DEF CreatePty, CreatePtyTwice, CreateReplyLost, Acquire,
                      Release, InPipeline, Pipeline
  <2>2. LiveOf(s) = {} \/ s \in unsure
    BY <1>1, <1>7 DEF AgentsInv, Knows, Certain, RowsExist, CreatePty,
                      CreatePtyTwice, CreateReplyLost
  <2>3. PICK ps \in SUBSET Ptys :
               /\ Spawns(s, ps)
               /\ \/ (\E p \in ps : ps = {p}) /\ unsure' = unsure
                  \/ unsure' = unsure \cup {s}
    <3>1. ASSUME CreatePty(t) \/ CreateReplyLost(t)
          PROVE  /\ unsure' = unsure
                 /\ \E p \in FreshPty({}) : Spawned(s, {p})
      BY <1>1, <3>1 DEF CreatePty, CreateReplyLost
    <3>2. ASSUME CreatePtyTwice(t)
          PROVE  /\ unsure' = unsure \cup {s}
                 /\ \E p \in FreshPty({}) : \E q \in FreshPty({p}) :
                      Spawned(s, {p, q})
      BY <1>1, <3>2 DEF CreatePtyTwice
    <3>3. \A ps \in SUBSET Ptys :
            Spawned(s, ps) /\ (\A p \in ps : pty[p] = "unused")
            => Spawns(s, ps)
      BY DEF Spawned, Spawns
    <3>4. CASE CreatePty(t) \/ CreateReplyLost(t)
      <4>1. PICK p \in FreshPty({}) : Spawned(s, {p})
        BY <3>1, <3>4
      <4>2. {p} \in SUBSET Ptys /\ pty[p] = "unused"
        BY FreshIsUnused
      <4>3. Spawns(s, {p}) /\ \E x \in {p} : {p} = {x}
        BY <3>3, <4>1, <4>2
      <4> QED
        BY <3>1, <3>4, <4>2, <4>3
    <3>5. CASE CreatePtyTwice(t)
      <4>1. PICK p \in FreshPty({}) : \E q \in FreshPty({p}) :
                   Spawned(s, {p, q})
        BY <3>2, <3>5
      <4>2. PICK q \in FreshPty({p}) : Spawned(s, {p, q})
        BY <4>1
      <4>3. {p, q} \in SUBSET Ptys /\ \A x \in {p, q} : pty[x] = "unused"
        BY FreshIsUnused
      <4> QED
        BY <3>2, <3>3, <3>5, <4>2, <4>3
    <3> QED
      BY <1>7, <3>4, <3>5
  <2>4. \A r \in Sessions :
          LiveOf(r)' = IF r = s THEN LiveOf(s) \cup ps ELSE LiveOf(r)
    BY <2>3 DEF Spawns, LiveOf, Reaped, TypeOK
  <2>5. Running' = [Running EXCEPT ![s] = @ \cup ps]
    BY <2>4 DEF Running
  <2>6. \A r \in Sessions : ps \cap Running[r] = {}
    BY <2>3 DEF Spawns, Running, LiveOf
  <2>7. Running[s] = LiveOf(s)
    BY DEF Running
  <2>8. Slots!Launch(s, ps)
    BY <2>1, <2>2, <2>3, <2>5, <2>6, <2>7 DEF Slots!Launch
  <2> QED
    BY <2>8 DEF Slots!SlotsNext
<1>9. CASE CleanupStale(t)
  <2>1. s \in Claimed /\ Claimed' = Claimed /\ unsure' = unsure
    BY <1>2, <1>9 DEF CleanupStale, Acquire, Release, InPipeline, Pipeline
  <2>2. CASE up
    <3>1. \A r \in Sessions :
            LiveOf(r)' = IF r = s THEN {} ELSE LiveOf(r)
      BY <1>1, <1>9, <2>2 DEF CleanupStale, LiveOf, TypeOK
    <3>2. Slots!Terminate(s)
      BY <2>1, <3>1 DEF Running, Slots!Terminate
    <3> QED
      BY <3>2 DEF Slots!SlotsNext
  <2>3. CASE ~up
    <3>1. \A r \in Sessions : LiveOf(r)' = LiveOf(r)
      BY <1>9, <2>3 DEF CleanupStale, LiveOf, TypeOK
    <3> QED
      BY <2>1, <3>1 DEF Running, Slots!slotVars
  <2> QED
    BY <2>2, <2>3
<1>8. ASSUME ~Acquire(t), ~Release(t), ~KillOrphans(t), ~CreatePty(t),
             ~CreatePtyTwice(t), ~CreateReplyLost(t), ~CleanupStale(t)
      PROVE  UNCHANGED Slots!slotVars
  <2>1. CASE CheckPty(t) \/ VerifyPty(t)
    <3>1. Observes /\ unsure' = unsure
      BY <2>1 DEF CheckPty, VerifyPty, Observes, Reaped, daemonVars, TypeOK
    <3> QED
      BY <1>2, <1>8, <3>1, ObservedRun DEF Slots!slotVars
  <2>2. CASE ~CheckPty(t) /\ ~VerifyPty(t)
    <3>1. UNCHANGED <<daemonVars, unsure>>
      BY <1>8, <2>2 DEF ThreadStep, PipelineStep, TestLock, MarkConnecting,
           FetchLock, AcquireTimeout, EnsureTunnelAndDaemon, RdevStopped,
           Attach, CreateFails, RecordPty, GiveUp, PipelineRaises,
           RecordSuccess, RecordFailure, daemonVars
    <3> QED
      BY <1>2, <1>3, <1>8, <3>1 DEF Slots!slotVars
  <2> QED
    BY <2>1, <2>2
<1> QED
  BY <1>4, <1>5, <1>6, <1>7, <1>8, <1>9

\* Requests, routes, the environment and restarts.
LEMMA SlotsOthers ==
  ASSUME TypeOK,
         \/ \E t \in Threads, s \in Sessions : Ask(t, s)
         \/ \E s \in Sessions : RouteStep(s)
         \/ EnvStepButRestart
         \/ ServerRestart
         \/ UNCHANGED vars
  PROVE  [Slots!SlotsNext]_(Slots!slotVars)
<1> USE DEF daemonVars, threadVars, vars
<1>1. UNCHANGED <<pty, owner>> => Running' = Running
  BY DEF Running, LiveOf
<1>2. UNCHANGED <<pc, job>> => Claimed' = Claimed
  BY DEF Claimed, InPipeline
<1>3. UNCHANGED <<pty, owner, pc, job, unsure>> => UNCHANGED Slots!slotVars
  BY <1>1, <1>2 DEF Slots!slotVars
<1>4. ASSUME NEW t \in Threads, NEW s \in Sessions, Ask(t, s)
      PROVE  UNCHANGED Slots!slotVars
  <2>1. OthersKept(t) /\ ~InPipeline(t) /\ ~InPipeline(t)'
    BY <1>4 DEF Ask, Goto, TypeOK, OthersKept, InPipeline, Pipeline
  <2>2. Claimed' = Claimed
    BY <2>1 DEF OthersKept, Claimed, InPipeline
  <2> QED
    BY <1>1, <1>4, <2>2 DEF Ask, Slots!slotVars
<1>5. ASSUME NEW s \in Sessions, RouteStep(s)
      PROVE  UNCHANGED <<pty, owner, pc, job, unsure>>
  BY <1>5 DEF RouteStep, PatchStatus, pause_session, continue_session,
              stop_session, AssignTask, RouteUnchanged
<1>6. ASSUME NEW p \in Ptys, AgentDies(p)
      PROVE  [Slots!SlotsNext]_(Slots!slotVars)
  <2>1. PICK s \in Sessions : s = owner[p]
    BY DEF TypeOK
  <2>2. \A r \in Sessions :
          LiveOf(r)' = IF r = s THEN LiveOf(s) \ {p} ELSE LiveOf(r)
    BY <1>6, <2>1 DEF AgentDies, LiveOf, TypeOK
  <2>3. Running' = [Running EXCEPT ![s] = @ \ {p}]
    BY <2>2 DEF Running
  <2>4. Slots!Exit(s, p)
    BY <1>2, <1>6, <2>3 DEF AgentDies, Slots!Exit
  <2> QED
    BY <2>4 DEF Slots!SlotsNext
<1>7. CASE DaemonReaps
  <2>1. Observes
    BY <1>7 DEF DaemonReaps, Observes, Reaped, TypeOK
  <2> QED
    BY <1>2, <1>7, <2>1, ObservedRun DEF DaemonReaps, Slots!slotVars
<1>8. CASE NetworkDown \/ NetworkUp
  BY <1>3, <1>8 DEF NetworkDown, NetworkUp
<1>9. CASE ServerRestart
  <2>1. Claimed' = {}
    BY <1>9 DEF ServerRestart, Claimed, InPipeline, Pipeline
  <2>2. Slots!Restart
    BY <1>1, <1>9, <2>1 DEF ServerRestart, Slots!Restart
  <2> QED
    BY <2>2 DEF Slots!SlotsNext
<1> QED
  BY <1>3, <1>4, <1>5, <1>6, <1>7, <1>8, <1>9 DEF EnvStepButRestart

\* The initial states correspond.
LEMMA SlotsStart == Init => Slots!SlotsInit
<1> SUFFICES ASSUME Init PROVE Slots!SlotsInit
  OBVIOUS
<1>1. /\ \A s \in Sessions : LiveOf(s) = {}
      /\ \A t \in Threads : ~InPipeline(t)
      /\ unsure = {}
  BY DEF Init, InitRest, LiveOf, InPipeline, Pipeline
<1>2. Running = [s \in Sessions |-> {}] /\ Claimed = {}
  BY <1>1 DEF Running, Claimed
<1> QED
  BY <1>1, <1>2 DEF Slots!SlotsInit

\* Every step maps to a step of AgentSlots or a stutter.
LEMMA SlotsAnyStep ==
  TypeOK /\ LocksInv /\ AgentsInv /\ RowsExist /\ [Next]_vars
    => [Slots!SlotsNext]_(Slots!slotVars)
BY SlotsThread, SlotsOthers DEF Next

\* Reconnecting, with its threads, locks, rows and daemon, keeps the promise
\* of AgentSlots: every behaviour of Reconnect is one of the abstract
\* specification.
THEOREM Refinement == Spec => ImplementsAgentSlots
BY SlotsAnyStep, SlotsStart, TypeCorrect, LocksCorrect, AgentsCorrect,
   RowsExistHolds, PTL
  DEF Spec, ImplementsAgentSlots, Slots!SlotsSpec

=============================================================================
