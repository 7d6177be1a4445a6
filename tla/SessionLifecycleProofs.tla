----------------------- MODULE SessionLifecycleProofs -----------------------
(***************************************************************************)
(* Creating and deleting sessions beside the reconnect threads, for every  *)
(* number of sessions, threads and deletes: pipelines of a session exclude *)
(* each other for as long as its row exists, unless a delete failed to     *)
(* remove it, and no lock outlives those that took it, although a delete   *)
(* releases a lock it may not hold.                                        *)
(***************************************************************************)
EXTENDS SessionLifecycle, ReconnectProofs

DeleteTypes ==
  /\ created \subseteq Sessions /\ setup \subseteq created
  /\ dpc \in [Deleters -> DPCs]
  /\ djob \in [Deleters -> DJobs]
  /\ kept \subseteq unsure

LEMMA NoDeleteTyped == NoDelete \in DJobs
BY JobTypes DEF NoDelete, DJobs, Jobs

LEMMA DeleterTypes ==
  ASSUME TypeOK, DeleteTypes, NEW d \in Deleters
  PROVE  /\ djob[d].target \in Sessions /\ djob[d].gen \in Nat
         /\ djob[d].snap \in Ptys \cup {NoPty}
         /\ DLock(d) \in Sessions \X Nat
         /\ \A l \in DPCs : DGoto(d, l) => dpc' \in [Deleters -> DPCs]
BY DEF DeleteTypes, DJobs, DLock, DGoto

-----------------------------------------------------------------------------
(* Types.                                                                  *)

LEMMA LTypeSessions ==
  ASSUME LTypeOK, NEW s \in Sessions, create_session(s) \/ SetupRaises(s)
  PROVE  LTypeOK'
<1> USE DEF LTypeOK, TypeOK, lockVars, threadVars, memVars, daemonVars, envVars
<1>1. CASE create_session(s)
  BY <1>1 DEF create_session, Statuses
<1>2. CASE SetupRaises(s)
  BY <1>2, RowTypes DEF SetupRaises, Statuses
<1> QED
  BY <1>1, <1>2

LEMMA LTypeDelete ==
  ASSUME LTypeOK, NEW d \in Deleters,
         DeleterStep(d) \/ \E s \in Sessions : DeleteResolves(d, s)
  PROVE  LTypeOK'
<1>0. TypeOK /\ DeleteTypes
  BY DEF LTypeOK, DeleteTypes
<1>1. /\ djob[d] \in DJobs /\ djob[d].target \in Sessions
      /\ djob[d].gen \in Nat /\ djob[d].snap \in Ptys \cup {NoPty}
      /\ DLock(d) \in Sessions \X Nat
      /\ \A l \in DPCs : DGoto(d, l) => dpc' \in [Deleters -> DPCs]
  BY <1>0, DeleterTypes DEF DeleteTypes
<1>2. /\ UNCHANGED <<pc, job, owner, envVars, created, setup>>
      /\ unsure \subseteq unsure' /\ unsure' \subseteq Sessions
      /\ kept' \subseteq unsure'
  BY <1>0, <1>1 DEF TypeOK, DeleteTypes, threadVars, daemonVars, DeleterStep,
         DeleteResolves, DeleteFetchesLock, DeleteAcquires, DeleteTimesOut,
         DestroyPty, DeleteRow, DeleteRowRaises, DeleteUnlocks, CleanupLock,
         DeleteLeaves
<1>3. dpc' \in [Deleters -> DPCs]
  BY <1>0, <1>1
     DEF DeleterStep, DeleteResolves, DeleteFetchesLock, DeleteAcquires,
         DeleteTimesOut, DestroyPty, DeleteRow, DeleteRowRaises, DeleteUnlocks,
         CleanupLock, DeleteTypes, DPCs
<1>4. djob' \in [Deleters -> DJobs]
  <2>1. ASSUME NEW s \in Sessions, DeleteResolves(d, s)
        PROVE  djob' \in [Deleters -> DJobs]
    BY <1>0, <2>1 DEF DeleteResolves, TypeOK, DeleteTypes, DJobs
  <2>2. CASE DeleteFetchesLock(d)
    <3>1. registry[djob[d].target] \in Nat
      BY <1>0, <1>1 DEF TypeOK
    <3>2. [djob[d] EXCEPT !.gen = registry[djob[d].target]] \in DJobs
      BY <1>1, <3>1 DEF DJobs
    <3> QED
      BY <1>0, <2>2, <3>2 DEF DeleteFetchesLock, DeleteTypes
  <2>3. CASE CleanupLock(d)
    BY <1>0, <2>3, NoDeleteTyped DEF CleanupLock, DeleteTypes
  <2>4. CASE \/ DeleteAcquires(d) \/ DeleteTimesOut(d) \/ DestroyPty(d)
             \/ DeleteRow(d) \/ DeleteRowRaises(d) \/ DeleteUnlocks(d)
    BY <1>0, <2>4 DEF DeleteAcquires, DeleteTimesOut, DestroyPty, DeleteRow,
                      DeleteRowRaises, DeleteUnlocks, DeleteTypes
  <2> QED
    BY <2>1, <2>2, <2>3, <2>4 DEF DeleterStep
<1>5. TypeOK'
  <2> USE <1>0, <1>1, <1>2
      DEF TypeOK, dbVars, lockVars, memVars, envVars
  <2>1. CASE \/ DeleteFetchesLock(d) \/ DeleteTimesOut(d)
             \/ \E s \in Sessions : DeleteResolves(d, s)
    BY <2>1 DEF DeleteFetchesLock, DeleteTimesOut, DeleteResolves
  <2>2. CASE DeleteAcquires(d) \/ DeleteUnlocks(d)
    BY <2>2 DEF DeleteAcquires, DeleteUnlocks
  <2>3. CASE DestroyPty(d)
    BY <2>3, PtyTypes DEF DestroyPty, PtyStates
  <2>4. CASE DeleteRow(d) \/ DeleteRowRaises(d)
    BY <2>4 DEF DeleteRow, DeleteRowRaises, daemonVars
  <2>5. CASE CleanupLock(d)
    BY <2>5, BoundsAssumption DEF CleanupLock, Steps
  <2> QED
    BY <2>1, <2>2, <2>3, <2>4, <2>5 DEF DeleterStep
<1> QED
  BY <1>0, <1>2, <1>3, <1>4, <1>5 DEF LTypeOK, DeleteTypes

LEMMA LTypeStep == LTypeOK /\ [LNext]_lvars => LTypeOK'
<1> SUFFICES ASSUME LTypeOK, [LNext]_lvars PROVE LTypeOK'
  OBVIOUS
<1>1. CASE UNCHANGED lvars
  BY <1>1 DEF lvars, lifeVars, vars, dbVars, lockVars, threadVars, memVars,
              daemonVars, envVars, LTypeOK, TypeOK
<1>2. CASE ReconnectStep /\ UNCHANGED lifeVars
  <2>1. unsure \subseteq unsure'
    BY <1>2, UnsureGrows DEF ReconnectStep, Next, LTypeOK
  <2> QED
    BY <1>2, <2>1, TypeThread, TypeOthers DEF ReconnectStep, lifeVars, LTypeOK
<1>3. CASE LServerRestart
  <2>1. TypeOK'
    BY <1>3, TypeOthers DEF LServerRestart, LTypeOK
  <2> QED
    BY <1>3, <2>1, NoDeleteTyped DEF LServerRestart, LTypeOK, DPCs
<1> QED
  BY <1>1, <1>2, <1>3, LTypeSessions, LTypeDelete DEF LNext, ReconnectStep

\* Every variable keeps its type while sessions come and go.
THEOREM LifecycleTypes == LSpec => []LTypeOK
<1>1. LInit => LTypeOK
  BY NoDeleteTyped, JobTypes, BoundsAssumption, SessionsAssumption
  DEF LInit, InitRest, NoRequests, LTypeOK, TypeOK, Statuses, PCs, Steps,
      PtyStates, NoJob, FreshJob, Jobs, DPCs
<1> QED
  BY <1>1, LTypeStep, PTL DEF LSpec

-----------------------------------------------------------------------------
(* Locks.                                                                  *)

\* A step of the reconnect threads and their surroundings, as the locks see
\* it: one thread does one of four things, or a thread takes up a session
\* whose row exists, or nothing moves.
ThreadMoves(t) ==
  OthersKept(t) /\ (Outside(t) \/ Enters(t) \/ Stays(t) \/ Leaves(t))

LEMMA ReconnectLocks ==
  ASSUME TypeOK, ReconnectStep
  PROVE  /\ registry' = registry
         /\ \/ UNCHANGED <<pc, job, locked>>
            \/ \E t \in Threads :
                 /\ ThreadMoves(t)
                 /\ \/ pc'[t] = "free"
                    \/ pc[t] # "free" /\ job'[t].target = job[t].target
                    \/ /\ status[job'[t].target] # Absent
                       /\ job'[t].target \in Sessions
<1>1. ASSUME NEW t \in Threads, NEW s \in Sessions, Ask(t, s)
      PROVE  /\ registry' = registry /\ ThreadMoves(t)
             /\ status[job'[t].target] # Absent /\ job'[t].target \in Sessions
  <2>1. job'[t].target = s /\ pc'[t] = "ask" /\ pc[t] = "free"
    BY <1>1 DEF Ask, Goto, TypeOK, FreshJob
  <2>2. status[s] # Absent
    BY <1>1 DEF Ask, is_reconnectable, RECONNECTABLE_STATES, Absent
  <2>3. registry' = registry /\ locked' = locked /\ OthersKept(t)
    BY <1>1 DEF Ask, Goto, TypeOK, lockVars, OthersKept
  <2> QED
    BY <2>1, <2>2, <2>3 DEF ThreadMoves, Outside, InPipeline, Pipeline
<1>2. ASSUME NEW t \in Threads, ThreadStep(t)
      PROVE  /\ registry' = registry /\ ThreadMoves(t)
             /\ \/ pc'[t] = "free"
                \/ pc[t] # "free" /\ job'[t].target = job[t].target
  <2>1. registry' = registry /\ ThreadMoves(t)
    BY <1>2, ThreadLocks DEF ThreadMoves
  <2>2. /\ pc \in [Threads -> PCs] /\ job \in [Threads -> Jobs]
        /\ job[t] \in Jobs
    BY DEF TypeOK
  <2>3. pc'[t] = "free" \/ job'[t].target = job[t].target
    <3>1. CASE TestLock(t) \/ RecordSuccess(t) \/ RecordFailure(t)
      BY <2>2, <3>1 DEF TestLock, RecordSuccess, RecordFailure, Finish
    <3>2. CASE FetchLock(t)
      BY <2>2, <3>2 DEF FetchLock, Jobs
    <3>3. CASE CheckPty(t)
      BY <2>2, <3>3 DEF CheckPty, Jobs
    <3>4. CASE CreatePty(t) \/ CreatePtyTwice(t)
      <4>1. \E p : job' = [job EXCEPT ![t].found = p]
        BY <3>4 DEF CreatePty, CreatePtyTwice
      <4> QED
        BY <2>2, <4>1 DEF Jobs
    <3>5. CASE \/ MarkConnecting(t) \/ Acquire(t) \/ AcquireTimeout(t)
               \/ EnsureTunnelAndDaemon(t) \/ RdevStopped(t) \/ Attach(t)
               \/ KillOrphans(t) \/ CreateReplyLost(t) \/ CreateFails(t)
               \/ RecordPty(t) \/ VerifyPty(t) \/ CleanupStale(t) \/ GiveUp(t)
               \/ PipelineRaises(t) \/ Release(t)
      BY <3>5 DEF MarkConnecting, Acquire, AcquireTimeout,
           EnsureTunnelAndDaemon, RdevStopped, Attach, KillOrphans,
           CreateReplyLost, CreateFails, RecordPty, VerifyPty, CleanupStale,
           GiveUp, PipelineRaises, Release
    <3> QED
      BY <1>2, <3>1, <3>2, <3>3, <3>4, <3>5 DEF ThreadStep, PipelineStep
  <2>4. pc[t] # "free"
    BY <1>2 DEF ThreadStep, PipelineStep, TestLock, MarkConnecting, FetchLock,
         Acquire, AcquireTimeout, EnsureTunnelAndDaemon, RdevStopped, CheckPty,
         Attach, KillOrphans, CreatePty, CreatePtyTwice, CreateReplyLost,
         CreateFails, RecordPty, VerifyPty, CleanupStale, GiveUp,
         PipelineRaises, Release,
         RecordSuccess, RecordFailure
  <2> QED
    BY <2>1, <2>3, <2>4
<1>3. ASSUME NEW s \in Sessions, RouteStep(s)
      PROVE  UNCHANGED <<pc, job, registry, locked>>
  BY <1>3 DEF RouteStep, PatchStatus, pause_session, continue_session,
              stop_session, AssignTask, RouteUnchanged, lockVars, threadVars
<1>4. EnvStepButRestart => UNCHANGED <<pc, job, registry, locked>>
  BY DEF EnvStepButRestart, AgentDies, DaemonReaps, NetworkDown, NetworkUp,
         lockVars, threadVars
<1> QED
  BY <1>1, <1>2, <1>3, <1>4 DEF ReconnectStep

\* What a delete does to the threads and the locks.
LEMMA DeleteLocks ==
  ASSUME LTypeOK, NEW d \in Deleters, DeleterStep(d)
  PROVE  /\ UNCHANGED <<pc, job, created>>
         /\ \A e \in Deleters \ {d} : dpc'[e] = dpc[e] /\ djob'[e] = djob[e]
BY DEF threadVars, DeleterStep, DeleteFetchesLock, DeleteAcquires,
       DeleteTimesOut, DestroyPty, DeleteRow, DeleteRowRaises, DeleteUnlocks,
       CleanupLock, DeleteLeaves, DGoto, LTypeOK

-----------------------------------------------------------------------------
(* No lock survives its holder: what a thread or a delete releases is at   *)
(* most too much, never too little.                                        *)

LEMMA HeldStep ==
  ASSUME LTypeOK, NoLockSurvivesItsHolder, [LNext]_lvars
  PROVE  NoLockSurvivesItsHolder'
<1> USE DEF NoLockSurvivesItsHolder
<1>1. ASSUME UNCHANGED <<pc, job, locked, dpc, djob>>
      PROVE  NoLockSurvivesItsHolder'
  BY <1>1 DEF InPipeline, LockOf, DLock
<1>2. CASE ReconnectStep /\ UNCHANGED lifeVars
  <2>1. ASSUME NEW t \in Threads, ThreadMoves(t)
        PROVE  NoLockSurvivesItsHolder'
    <3>1. UNCHANGED <<dpc, djob>>
      BY <1>2 DEF lifeVars
    <3>2. \A u \in Threads \ {t} : InPipeline(u)' = InPipeline(u)
                                   /\ LockOf(u)' = LockOf(u)
      BY <2>1 DEF ThreadMoves, OthersKept, InPipeline, LockOf
    <3>3. \A e \in Deleters : DLock(e)' = DLock(e)
      BY <3>1 DEF DLock
    <3>4. CASE Outside(t)
      BY <3>1, <3>2, <3>3, <3>4 DEF Outside
    <3>5. CASE Enters(t) \/ Stays(t)
      BY <3>1, <3>2, <3>3, <3>5 DEF Enters, Stays, SameLock, LockOf
    <3>6. CASE Leaves(t)
      BY <3>1, <3>2, <3>3, <3>6 DEF Leaves
    <3> QED
      BY <2>1, <3>4, <3>5, <3>6 DEF ThreadMoves
  <2> QED
    BY <1>1, <1>2, <2>1, ReconnectLocks DEF LTypeOK, lifeVars
<1>3. CASE LServerRestart
  BY <1>3 DEF LServerRestart, ServerRestart
<1>4. ASSUME NEW s \in Sessions, create_session(s) \/ SetupRaises(s)
      PROVE  NoLockSurvivesItsHolder'
  BY <1>1, <1>4 DEF create_session, SetupRaises, lockVars, threadVars
<1>5. ASSUME NEW d \in Deleters, NEW s \in Sessions, DeleteResolves(d, s)
      PROVE  NoLockSurvivesItsHolder'
  <2>1. /\ UNCHANGED <<pc, job, locked>> /\ dpc[d] = "free"
        /\ \A e \in Deleters \ {d} : dpc'[e] = dpc[e] /\ djob'[e] = djob[e]
    BY <1>5 DEF DeleteResolves, DeleteLeaves, lockVars, DGoto, LTypeOK
  <2> QED
    BY <2>1 DEF InPipeline, LockOf, DLock
<1>6. ASSUME NEW d \in Deleters, DeleterStep(d)
      PROVE  NoLockSurvivesItsHolder'
  <2>1. /\ UNCHANGED <<pc, job>>
        /\ \A e \in Deleters \ {d} : dpc'[e] = dpc[e] /\ djob'[e] = djob[e]
    BY <1>6, DeleteLocks
  <2>2. /\ \A t \in Threads : /\ InPipeline(t)' = InPipeline(t)
                              /\ LockOf(t)' = LockOf(t)
        /\ \A e \in Deleters \ {d} : DLock(e)' = DLock(e)
    BY <2>1 DEF InPipeline, LockOf, DLock
  <2>3. dpc \in [Deleters -> DPCs]
    BY DEF LTypeOK
  <2>4. CASE DeleteFetchesLock(d) \/ CleanupLock(d)
    <3>1. locked' = locked /\ dpc[d] \notin {"destroy", "row", "unlock"}
      BY <2>4 DEF DeleteFetchesLock, CleanupLock, lockVars
    <3> QED
      BY <2>1, <2>2, <3>1
  <2>5. CASE DeleteAcquires(d) \/ DeleteTimesOut(d)
    <3>1. /\ locked' \subseteq locked \cup {DLock(d)} /\ DLock(d)' = DLock(d)
          /\ dpc[d] = "wait" /\ dpc'[d] = "destroy"
      BY <2>3, <2>5 DEF DeleteAcquires, DeleteTimesOut, lockVars, DLock, DGoto
    <3> QED
      BY <2>1, <2>2, <3>1
  <2>6. CASE DestroyPty(d) \/ DeleteRow(d) \/ DeleteRowRaises(d)
    <3>1. /\ locked' = locked /\ DLock(d)' = DLock(d)
          /\ dpc'[d] \in {"row", "unlock"}
      BY <2>3, <2>6 DEF DestroyPty, DeleteRow, DeleteRowRaises, lockVars, DLock,
                        DGoto
    <3> QED
      BY <2>1, <2>2, <3>1
  <2>7. CASE DeleteUnlocks(d)
    <3>1. locked' = locked \ {DLock(d)}
      BY <2>7 DEF DeleteUnlocks
    <3> QED
      BY <2>1, <2>2, <3>1
  <2> QED
    BY <1>6, <2>4, <2>5, <2>6, <2>7 DEF DeleterStep
<1>7. CASE UNCHANGED lvars
  BY <1>1, <1>7 DEF lvars, lifeVars, vars, lockVars, threadVars
<1> QED
  BY <1>2, <1>3, <1>4, <1>5, <1>6, <1>7 DEF LNext, ReconnectStep

\* A lock that is held belongs to a pipeline or to a delete in flight, however
\* many deletes release and forget locks that are not theirs.
THEOREM LocksDieWithTheirHolders == LSpec => []NoLockSurvivesItsHolder
<1>1. LInit => NoLockSurvivesItsHolder
  BY DEF LInit, InitRest, NoLockSurvivesItsHolder
<1> QED
  BY <1>1, LifecycleTypes, HeldStep, PTL DEF LSpec

-----------------------------------------------------------------------------
(* While a row exists the registered lock is the one its pipelines hold:   *)
(* only a delete that has removed the row, or could not, releases or       *)
(* replaces it.                                                            *)

RowsHandedOut ==
  /\ \A s \in Sessions : Exists(s) => s \in created
  /\ \A t \in Threads : pc[t] # "free" => job[t].target \in created
  /\ \A d \in Deleters : dpc[d] # "free" => djob[d].target \in created

Locking(s) == Exists(s) /\ s \notin kept

RowGoesFirst ==
  \A d \in Deleters :
    dpc[d] \in {"unlock", "cleanup"} => ~Locking(djob[d].target)

RowLocksOwned ==
  \A t \in Threads :
    Locking(job[t].target) =>
      /\ pc[t] \in Pipeline \cup {"wait"} =>
           job[t].gen = registry[job[t].target]
      /\ InPipeline(t) => LockOf(t) \in locked

RowInv ==
  RowsHandedOut /\ RowGoesFirst /\ RowLocksOwned /\ OnePipelineWhileRowExists

\* Steps that leave the rows and the locks.
LEMMA RowsUntouched ==
  ASSUME LTypeOK, RowInv, SameRows, created' = created,
         UNCHANGED <<pc, job, registry, locked, dpc, djob, kept>>
  PROVE  RowInv'
<1>1. \A t \in Threads : job[t].target \in Sessions
  BY DEF LTypeOK, TypeOK, Jobs
<1>2. \A d \in Deleters : djob[d].target \in Sessions
  BY DEF LTypeOK, DJobs
<1>3. RowsHandedOut' /\ RowGoesFirst'
  BY <1>1, <1>2 DEF RowInv, RowsHandedOut, RowGoesFirst, SameRows,
                    Exists, Locking
<1>4. RowLocksOwned' /\ OnePipelineWhileRowExists'
  BY <1>1 DEF RowInv, RowLocksOwned, OnePipelineWhileRowExists, SameRows,
              Exists, Locking, InPipeline, LockOf
<1> QED
  BY <1>3, <1>4 DEF RowInv

\* Steps of the reconnect threads.
LEMMA RowsThread ==
  ASSUME LTypeOK, RowInv, NEW t \in Threads, ThreadMoves(t), SameRows,
         registry' = registry, UNCHANGED lifeVars,
         \/ pc'[t] = "free"
         \/ pc[t] # "free" /\ job'[t].target = job[t].target
         \/ Exists(job'[t].target) /\ job'[t].target \in Sessions
  PROVE  RowInv'
<1>0. /\ \A u \in Threads : job[u].target \in Sessions
      /\ \A e \in Deleters : djob[e].target \in Sessions
      /\ UNCHANGED <<created, dpc, djob, kept>>
  BY DEF LTypeOK, TypeOK, Jobs, DJobs, lifeVars
<1>1. \A u \in Threads \ {t} : pc'[u] = pc[u] /\ job'[u] = job[u]
  BY DEF ThreadMoves, OthersKept
<1>2. RowsHandedOut'
  BY <1>0, <1>1 DEF RowInv, RowsHandedOut, SameRows, Exists, Locking
<1>3. RowGoesFirst'
  BY <1>0 DEF RowInv, RowGoesFirst, SameRows, Exists, Locking
<1>4. \A u \in Threads \ {t} :
        /\ InPipeline(u)' = InPipeline(u) /\ LockOf(u)' = LockOf(u)
        /\ Locking(job[u].target)' <=> Locking(job[u].target)
  BY <1>0, <1>1 DEF InPipeline, LockOf, SameRows, Exists, Locking
<1>5. CASE Outside(t)
  <2>1. RowLocksOwned'
    BY <1>0, <1>1, <1>4, <1>5
       DEF RowInv, RowLocksOwned, Outside, InPipeline, Pipeline
  <2>2. OnePipelineWhileRowExists'
    BY <1>1, <1>4, <1>5
       DEF RowInv, OnePipelineWhileRowExists, Outside, Exists, Locking
  <2> QED
    BY <1>2, <1>3, <2>1, <2>2 DEF RowInv
<1>6. CASE Enters(t)
  <2>1. /\ job'[t].target = job[t].target /\ LockOf(t)' = LockOf(t)
        /\ job'[t].gen = job[t].gen
        /\ Locking(job[t].target)' <=> Locking(job[t].target)
    BY <1>0, <1>6 DEF Enters, SameLock, LockOf, SameRows, Exists, Locking
  <2>2. ASSUME NEW u \in Threads, InPipeline(u), Locking(job[u].target)
        PROVE  job[u].target # job[t].target
    BY <1>6, <2>2
       DEF Enters, RowInv, RowLocksOwned, InPipeline, Pipeline, LockOf
  <2>3. RowLocksOwned'
    BY <1>0, <1>1, <1>4, <1>6, <2>1
       DEF RowInv, RowLocksOwned, Enters, InPipeline, Pipeline
  <2>4. OnePipelineWhileRowExists'
    BY <1>1, <1>4, <1>6, <2>1, <2>2
       DEF RowInv, OnePipelineWhileRowExists, Exists, Locking
  <2> QED
    BY <1>2, <1>3, <2>3, <2>4 DEF RowInv
<1>7. CASE Stays(t)
  <2>1. /\ job'[t].target = job[t].target /\ LockOf(t)' = LockOf(t)
        /\ job'[t].gen = job[t].gen
        /\ Locking(job[t].target)' <=> Locking(job[t].target)
    BY <1>0, <1>7 DEF Stays, SameLock, LockOf, SameRows, Exists, Locking
  <2>2. RowLocksOwned'
    BY <1>0, <1>1, <1>4, <1>7, <2>1
       DEF RowInv, RowLocksOwned, Stays, InPipeline, Pipeline
  <2>3. OnePipelineWhileRowExists'
    BY <1>1, <1>4, <1>7, <2>1
       DEF RowInv, OnePipelineWhileRowExists, Stays, Exists, Locking
  <2> QED
    BY <1>2, <1>3, <2>2, <2>3 DEF RowInv
<1>8. CASE Leaves(t)
  <2>1. \A u \in Threads \ {t} :
          InPipeline(u) /\ Locking(job[u].target) => LockOf(u) # LockOf(t)
    BY <1>8 DEF Leaves, RowInv, OnePipelineWhileRowExists, Exists,
                Locking, LockOf
  <2>2. RowLocksOwned'
    BY <1>0, <1>1, <1>4, <1>8, <2>1
       DEF RowInv, RowLocksOwned, Leaves, InPipeline, Pipeline
  <2>3. OnePipelineWhileRowExists'
    BY <1>1, <1>4, <1>8
       DEF RowInv, OnePipelineWhileRowExists, Leaves, Exists, Locking
  <2> QED
    BY <1>2, <1>3, <2>2, <2>3 DEF RowInv
<1> QED
  BY <1>5, <1>6, <1>7, <1>8 DEF ThreadMoves

\* Steps of a delete.
LEMMA RowsDelete ==
  ASSUME LTypeOK, RowInv, NEW d \in Deleters, DeleterStep(d)
  PROVE  RowInv'
<1>0. /\ \A u \in Threads : job[u].target \in Sessions
      /\ \A e \in Deleters : djob[e].target \in Sessions
      /\ djob \in [Deleters -> DJobs] /\ dpc \in [Deleters -> DPCs]
      /\ registry \in [Sessions -> Nat]
      /\ status \in [Sessions -> Statuses \cup {Absent}]
  BY DEF LTypeOK, TypeOK, Jobs, DJobs
<1>1. /\ UNCHANGED <<pc, job, created>>
      /\ \A e \in Deleters \ {d} : dpc'[e] = dpc[e] /\ djob'[e] = djob[e]
      /\ \A t \in Threads : InPipeline(t)' = InPipeline(t)
                            /\ LockOf(t)' = LockOf(t)
  BY DeleteLocks DEF InPipeline, LockOf
<1>2. dpc[d] # "free" /\ djob[d].target \in created
  BY DEF RowInv, RowsHandedOut, DeleterStep, DeleteFetchesLock, DeleteAcquires,
         DeleteTimesOut, DestroyPty, DeleteRow, DeleteRowRaises, DeleteUnlocks,
         CleanupLock
<1>3. \A s \in Sessions : Exists(s)' => Exists(s)
  BY <1>0 DEF DeleterStep, DeleteFetchesLock, DeleteAcquires, DeleteTimesOut,
     DestroyPty, DeleteRow, DeleteRowRaises, DeleteUnlocks, CleanupLock,
     dbVars, Exists
<1>4. dpc'[d] = "free" \/ djob'[d].target = djob[d].target
  BY <1>0 DEF DeleterStep, DeleteFetchesLock, DeleteAcquires, DeleteTimesOut,
     DestroyPty, DeleteRow, DeleteRowRaises, DeleteUnlocks, CleanupLock, DJobs
<1>5. RowsHandedOut'
  BY <1>0, <1>1, <1>2, <1>3, <1>4 DEF RowInv, RowsHandedOut
<1>6. dpc'[d] \in {"unlock", "cleanup"} => ~Locking(djob[d].target)'
  <2>1. CASE DeleteRow(d) \/ DeleteRowRaises(d)
    BY <1>0, <2>1 DEF DeleteRow, DeleteRowRaises, Exists, Locking
  <2>2. CASE DeleteUnlocks(d)
    BY <1>0, <2>2 DEF DeleteUnlocks, DeleteLeaves, RowInv, RowGoesFirst, dbVars,
                      Exists, Locking
  <2>3. CASE \/ DeleteFetchesLock(d) \/ DeleteAcquires(d) \/ DeleteTimesOut(d)
             \/ DestroyPty(d) \/ CleanupLock(d)
    BY <1>0, <2>3 DEF DeleteFetchesLock, DeleteAcquires, DeleteTimesOut,
       DestroyPty, CleanupLock, DGoto
  <2> QED
    BY <2>1, <2>2, <2>3 DEF DeleterStep
<1>l. /\ kept \subseteq kept'
      /\ \A s \in Sessions : Locking(s)' => Locking(s)
  BY <1>0, <1>3
     DEF DeleterStep, DeleteFetchesLock, DeleteAcquires, DeleteTimesOut,
         DestroyPty, DeleteRow, DeleteRowRaises, DeleteUnlocks, CleanupLock,
         DeleteLeaves, Locking
<1>7. RowGoesFirst'
  BY <1>0, <1>1, <1>l, <1>4, <1>6 DEF RowInv, RowGoesFirst
<1>8. \A s \in Sessions : Locking(s)' =>
        /\ registry'[s] = registry[s]
        /\ \A g : <<s, g>> \in locked => <<s, g>> \in locked'
  <2>1. CASE DeleteUnlocks(d)
    BY <1>0, <1>l, <2>1 DEF DeleteUnlocks, RowInv, RowGoesFirst, dbVars, DLock
  <2>2. CASE CleanupLock(d)
    BY <1>0, <1>l, <2>2 DEF CleanupLock, RowInv, RowGoesFirst, dbVars
  <2>3. CASE \/ DeleteFetchesLock(d) \/ DeleteAcquires(d) \/ DeleteTimesOut(d)
             \/ DestroyPty(d) \/ DeleteRow(d) \/ DeleteRowRaises(d)
    BY <2>3 DEF DeleteFetchesLock, DeleteAcquires, DeleteTimesOut, DestroyPty,
                DeleteRow, DeleteRowRaises, lockVars
  <2> QED
    BY <2>1, <2>2, <2>3 DEF DeleterStep
<1>9. RowLocksOwned'
  BY <1>0, <1>1, <1>l, <1>8 DEF RowInv, RowLocksOwned, LockOf
<1>10. OnePipelineWhileRowExists'
  BY <1>0, <1>1, <1>l DEF RowInv, OnePipelineWhileRowExists, Exists, Locking
<1> QED
  BY <1>5, <1>7, <1>9, <1>10 DEF RowInv

LEMMA RowsStep ==
  ASSUME LTypeOK, RowInv, [LNext]_lvars
  PROVE  RowInv'
<1>1. CASE ReconnectStep /\ UNCHANGED lifeVars
  BY <1>1, ReconnectKeepsRows, ReconnectLocks, RowsUntouched, RowsThread
     DEF LTypeOK, lifeVars, Exists
<1>2. CASE LServerRestart
  <2>1. SameRows
    BY <1>2, ReconnectKeepsRows DEF LServerRestart, LTypeOK
  <2> QED
    BY <1>2, <2>1 DEF LServerRestart, ServerRestart, RowInv, RowsHandedOut,
       RowGoesFirst, RowLocksOwned, OnePipelineWhileRowExists, InPipeline,
       Pipeline, SameRows, Exists, Locking
<1>3. ASSUME NEW s \in Sessions, create_session(s)
      PROVE  RowInv'
  <2>1. /\ s \notin created /\ created' = created \cup {s}
        /\ UNCHANGED <<pc, job, registry, locked, dpc, djob, kept>>
        /\ \A r \in Sessions \ {s} : Exists(r)' <=> Exists(r)
    BY <1>3 DEF create_session, lockVars, threadVars, LTypeOK, TypeOK, Exists
  <2>2. /\ \A t \in Threads : pc[t] # "free" => job[t].target # s
        /\ \A d \in Deleters : dpc[d] # "free" => djob[d].target # s
    BY <2>1 DEF RowInv, RowsHandedOut
  <2>3. /\ \A u \in Threads : job[u].target \in Sessions
        /\ \A e \in Deleters : djob[e].target \in Sessions
    BY DEF LTypeOK, TypeOK, Jobs, DJobs
  <2>4. RowsHandedOut' /\ RowGoesFirst'
    BY <2>1, <2>2, <2>3 DEF RowInv, RowsHandedOut, RowGoesFirst, Locking
  <2>5. RowLocksOwned' /\ OnePipelineWhileRowExists'
    BY <2>1, <2>2, <2>3 DEF RowInv, RowLocksOwned, OnePipelineWhileRowExists,
       InPipeline, Pipeline, LockOf, Exists, Locking
  <2> QED
    BY <2>4, <2>5 DEF RowInv
<1>4. ASSUME NEW s \in Sessions, SetupRaises(s)
      PROVE  RowInv'
  <2>1. SameRows
    BY <1>4, UpdateKeepsRows, StatusWords DEF SetupRaises, LTypeOK
  <2> QED
    BY <1>4, <2>1, RowsUntouched DEF SetupRaises, lockVars, threadVars
<1>5. ASSUME NEW d \in Deleters, NEW s \in Sessions, DeleteResolves(d, s)
      PROVE  RowInv'
  <2>1. /\ UNCHANGED <<pc, job, registry, locked, status, created, kept>>
        /\ dpc'[d] = "fetch" /\ djob'[d].target = s /\ Exists(s)
        /\ \A e \in Deleters \ {d} : dpc'[e] = dpc[e] /\ djob'[e] = djob[e]
    BY <1>5 DEF DeleteResolves, DeleteLeaves, lockVars, dbVars, DGoto, LTypeOK,
                Exists
  <2> QED
    BY <2>1 DEF RowInv, RowsHandedOut, RowGoesFirst, RowLocksOwned,
       OnePipelineWhileRowExists, InPipeline, LockOf, Exists, Locking
<1>6. CASE UNCHANGED lvars
  BY <1>6, RowsUntouched DEF lvars, lifeVars, vars, dbVars, lockVars,
                             threadVars, SameRows
<1> QED
  BY <1>1, <1>2, <1>3, <1>4, <1>5, <1>6, RowsDelete DEF LNext, ReconnectStep

LEMMA RowStart == LInit => RowInv
BY DEF LInit, InitRest, NoRequests, RowInv, RowsHandedOut, RowGoesFirst,
       RowLocksOwned, OnePipelineWhileRowExists, InPipeline, Pipeline, Exists

\* The reconnect lock excludes while it matters: a delete that timed out and
\* released a lock it did not hold has deleted the row before, or failed to.
THEOREM PipelinesExcludeWhileRowExists == LSpec => []OnePipelineWhileRowExists
<1>1. RowInv => OnePipelineWhileRowExists
  BY DEF RowInv
<1> QED
  BY <1>1, RowStart, LifecycleTypes, RowsStep, PTL DEF LSpec

-----------------------------------------------------------------------------
(* Agents.  What the pipelines know of the agents of a session stays true  *)
(* for as long as it has a row: nobody else is in its pipeline until then, *)
(* and a session that is created has no PTY yet.                           *)

AgentsHandedOut == \A p \in Ptys : pty[p] = "live" => owner[p] \in created

LEMMA AgentsReconnect ==
  ASSUME LTypeOK, AgentsInv, OnePipelineWhileRowExists,
         ReconnectStep \/ ServerRestart
  PROVE  AgentsInv'
<1>1. TypeOK /\ \A t \in Threads : Alone(t)
  BY DEF LTypeOK, OnePipelineWhileRowExists, Alone, Certain, Exists
<1> QED
  BY <1>1, AgentsThread, AgentsOthers DEF ReconnectStep

LEMMA HandedOutReconnect ==
  ASSUME TypeOK, RowsHandedOut, AgentsHandedOut, created' = created,
         ReconnectStep \/ ServerRestart
  PROVE  AgentsHandedOut'
<1>0. pty \in [Ptys -> PtyStates] /\ owner \in [Ptys -> Sessions]
  BY DEF TypeOK
<1>1. ASSUME NEW t \in Threads, ThreadStep(t)
      PROVE  AgentsHandedOut'
  <2>1. CASE Observes \/ Kills(job[t].target)
    BY <2>1 DEF Observes, Kills, AgentsHandedOut
  <2>2. ASSUME NEW ps \in SUBSET Ptys, Spawns(job[t].target, ps),
               pc[t] \in {"create", "create2"}
        PROVE  AgentsHandedOut'
    <3>1. job[t].target \in created
      BY <2>2 DEF RowsHandedOut
    <3> QED
      BY <1>0, <2>2, <3>1 DEF Spawns, Reaped, AgentsHandedOut
  <2> QED
    BY <1>1, <2>1, <2>2, ThreadPtys
<1>2. ASSUME UNCHANGED <<pty, owner>>
      PROVE  AgentsHandedOut'
  BY <1>2 DEF AgentsHandedOut
<1>3. ASSUME NEW s \in Sessions, RouteStep(s)
      PROVE  UNCHANGED <<pty, owner>>
  BY <1>3 DEF RouteStep, PatchStatus, pause_session, continue_session,
              stop_session, AssignTask, RouteUnchanged, daemonVars
<1>4. CASE EnvStepButRestart
  BY <1>0, <1>4 DEF EnvStepButRestart, AgentDies, DaemonReaps, NetworkDown,
                    NetworkUp, daemonVars, Reaped, AgentsHandedOut
<1>5. CASE ServerRestart \/ \E t \in Threads, s \in Sessions : Ask(t, s)
  BY <1>2, <1>5 DEF ServerRestart, Ask, daemonVars
<1> QED
  BY <1>1, <1>2, <1>3, <1>4, <1>5 DEF ReconnectStep

LEMMA AgentsSessions ==
  ASSUME LTypeOK, RowsHandedOut, AgentsInv, AgentsHandedOut,
         NEW s \in Sessions, create_session(s) \/ SetupRaises(s)
  PROVE  AgentsInv' /\ AgentsHandedOut'
<1>0. /\ UNCHANGED <<ptyId, pc, job, pty, owner, unsure>>
      /\ created \subseteq created' /\ TypeOK
  BY DEF create_session, SetupRaises, threadVars, daemonVars, LTypeOK
<1>1. AgentsHandedOut'
  BY <1>0 DEF AgentsHandedOut
<1>2. CASE create_session(s)
  <2>1. /\ s \notin created
        /\ \A r \in Sessions \ {s} : Certain(r)' => Certain(r)
    BY <1>0, <1>2 DEF create_session, TypeOK, Certain, Exists
  <2>2. /\ \A p \in Ptys : pty[p] = "live" => owner[p] # s
        /\ \A t \in Threads : pc[t] # "free" => job[t].target # s
    BY <2>1 DEF AgentsHandedOut, RowsHandedOut
  <2>3. /\ \A t \in Threads : job[t].target \in Sessions
        /\ \A p \in Ptys : owner[p] \in Sessions
    BY <1>0 DEF TypeOK, Jobs
  <2>4. PtysOwned'
    BY <1>0 DEF AgentsInv, PtysOwned, OwnPty
  <2>5. \A t \in Threads : Knows(t)'
    BY <1>0, <2>1, <2>2, <2>3 DEF AgentsInv, Knows, LiveOf
  <2>6. OneAgentEach' /\ NoCorpseBesideAgent'
    BY <1>0, <2>1, <2>2, <2>3 DEF AgentsInv, OneAgentEach, NoCorpseBesideAgent
  <2> QED
    BY <1>1, <2>4, <2>5, <2>6 DEF AgentsInv
<1>3. CASE SetupRaises(s)
  <2>1. SameRows
    BY <1>0, <1>3, UpdateKeepsRows, StatusWords DEF SetupRaises
  <2>2. Shrinks /\ NoCorpseBesideAgent'
    BY <1>0, <2>1, DoubtStays, ReapingShrinks
  <2>3. \A r \in Sessions : OwnPty(ptyId[r], r)'
    BY <1>0 DEF AgentsInv, PtysOwned, OwnPty
  <2> QED
    BY <1>0, <1>1, <2>2, <2>3, ShrinkingKeeps
<1> QED
  BY <1>2, <1>3

LEMMA AgentsDelete ==
  ASSUME LTypeOK, AgentsInv, AgentsHandedOut, NEW d \in Deleters,
         DeleterStep(d) \/ \E s \in Sessions : DeleteResolves(d, s)
  PROVE  AgentsInv' /\ AgentsHandedOut'
<1>0. /\ UNCHANGED <<pc, job, owner, created>> /\ TypeOK
      /\ unsure \subseteq unsure' /\ djob[d] \in DJobs
  BY DEF threadVars, daemonVars, DeleterStep, DeleteResolves,
         DeleteFetchesLock, DeleteAcquires, DeleteTimesOut, DestroyPty,
         DeleteRow, DeleteRowRaises, DeleteUnlocks, CleanupLock, DeleteLeaves,
         LTypeOK
<1>1. DoubtLasts
  BY <1>0
  DEF DeleterStep, DeleteResolves, DeleteFetchesLock, DeleteAcquires,
      DeleteTimesOut, DestroyPty, DeleteRow, DeleteRowRaises, DeleteUnlocks,
      CleanupLock, dbVars, TypeOK, DJobs, DoubtLasts, Certain, Exists
<1>2. Shrinks /\ NoCorpseBesideAgent'
  <2>1. CASE pty' = pty
    BY <1>0, <1>1, <2>1, ReapingShrinks
  <2>2. CASE DestroyPty(d)
    <3>1. \/ pty' = pty
          \/ \E p \in Ptys : pty' = [Reaped(pty) EXCEPT ![p] = "gone"]
      BY <1>0, <2>2 DEF DestroyPty, DJobs
    <3> QED
      BY <1>0, <1>1, <2>1, <3>1
      DEF TypeOK, Reaped, Shrinks, NoCorpseBesideAgent
  <2> QED
    BY <2>1, <2>2
    DEF daemonVars, DeleterStep, DeleteResolves, DeleteFetchesLock,
        DeleteAcquires, DeleteTimesOut, DeleteRow, DeleteRowRaises,
        DeleteUnlocks, CleanupLock
<1>3. \A s \in Sessions : OwnPty(ptyId[s], s)'
  <2>1. \A s \in Sessions : ptyId'[s] \in {ptyId[s], NoPty}
    BY <1>0
    DEF DeleterStep, DeleteResolves, DeleteFetchesLock, DeleteAcquires,
        DeleteTimesOut, DestroyPty, DeleteRow, DeleteRowRaises, DeleteUnlocks,
        CleanupLock, dbVars, TypeOK
  <2>2. \A p \in Ptys \cup {NoPty}, s \in Sessions :
          OwnPty(p, s) => OwnPty(p, s)'
    BY <1>0, <1>2, ShrinksKeeps
  <2>3. \A s \in Sessions : /\ OwnPty(ptyId[s], s)
                            /\ ptyId[s] \in Ptys \cup {NoPty}
    BY <1>0 DEF AgentsInv, PtysOwned, TypeOK
  <2> QED
    BY <2>1, <2>2, <2>3 DEF OwnPty
<1>4. AgentsHandedOut'
  BY <1>0, <1>2 DEF Shrinks, AgentsHandedOut
<1> QED
  BY <1>0, <1>2, <1>3, <1>4, ShrinkingKeeps

LEMMA AgentsWhileRowStep ==
  ASSUME LTypeOK, RowInv, AgentsInv, AgentsHandedOut, [LNext]_lvars
  PROVE  AgentsInv' /\ AgentsHandedOut'
<1>0. TypeOK /\ RowsHandedOut /\ OnePipelineWhileRowExists
  BY DEF LTypeOK, RowInv
<1>1. CASE ReconnectStep /\ UNCHANGED lifeVars
  BY <1>0, <1>1, AgentsReconnect, HandedOutReconnect DEF lifeVars
<1>2. CASE LServerRestart
  BY <1>0, <1>2, AgentsReconnect, HandedOutReconnect DEF LServerRestart
<1>3. CASE UNCHANGED lvars
  BY <1>0, <1>3, AgentsOthers
  DEF lvars, lifeVars, vars, daemonVars, AgentsHandedOut
<1> QED
  BY <1>0, <1>1, <1>2, <1>3, AgentsSessions, AgentsDelete
  DEF LNext, ReconnectStep

\* One agent at most, for as long as the session has a row: a delete that did
\* not get the lock, and one that kills the PTY of an old row, do no harm to
\* what the pipelines know until the row is gone.
THEOREM OneAgentBesideDeletes == LSpec => []OneAgentWhileRowExists
<1>1. LInit => RowInv /\ AgentsInv /\ AgentsHandedOut
  <2> SUFFICES ASSUME LInit PROVE RowInv /\ AgentsInv /\ AgentsHandedOut
    OBVIOUS
  <2>1. /\ \A p \in Ptys : pty[p] = "unused"
        /\ \A s \in Sessions : ptyId[s] = NoPty
        /\ \A t \in Threads : /\ job[t].snap = NoPty /\ job[t].found = NoPty
                              /\ pc[t] = "free"
    BY DEF LInit, InitRest, NoJob, FreshJob
  <2>2. AgentsInv /\ AgentsHandedOut
    BY <2>1 DEF AgentsInv, PtysOwned, OwnPty, Knows, OneAgentEach,
                NoCorpseBesideAgent, AgentsHandedOut
  <2> QED
    BY <2>2, RowStart
<1>2. LTypeOK /\ AgentsInv => OneAgentWhileRowExists
  BY DEF LTypeOK, AgentsInv, OneAgentEach, Certain, Exists,
         OneAgentWhileRowExists
<1> QED
  BY <1>1, <1>2, LifecycleTypes, RowsStep, AgentsWhileRowStep, PTL DEF LSpec

=============================================================================
