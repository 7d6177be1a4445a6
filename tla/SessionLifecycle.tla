-------------------------- MODULE SessionLifecycle --------------------------
(***************************************************************************)
(* Creating and deleting remote sessions beside the reconnect threads      *)
(* (api/routes/sessions.py: create_session, delete_session).  A session id *)
(* is created once.  Delete takes the reconnect lock, but proceeds when it *)
(* does not get it in 10 s, releases the lock in either case, and drops it *)
(* from the registry.                                                      *)
(***************************************************************************)
EXTENDS Reconnect

CONSTANT Deleters   \* delete requests

VARIABLES
  created,          \* session ids that have been handed out
  setup,            \* sessions whose background setup runs
  dpc,              \* what the delete request does next
  djob,             \* the Session object it resolved, and its lock object
  kept              \* history: sessions whose lock a delete gave up although
                    \* the row stayed, since the server started

lifeVars == <<created, setup, dpc, djob, kept>>
lvars == <<vars, lifeVars>>

DPCs == {"free", "fetch", "wait", "destroy", "row", "unlock", "cleanup"}
DJobs == [target : Sessions, snap : Ptys \cup {NoPty}, gen : Nat]
NoDelete == [target |-> NoJob.target, snap |-> NoPty, gen |-> 0]

DGoto(d, label) == dpc' = [dpc EXCEPT ![d] = label]
DLock(d) == <<djob[d].target, djob[d].gen>>

NoRequests ==
  /\ created = {} /\ setup = {} /\ kept = {}
  /\ dpc = [d \in Deleters |-> "free"]
  /\ djob = [d \in Deleters |-> NoDelete]

LInit ==
  /\ status = [s \in Sessions |-> Absent]
  /\ assigned = {}
  /\ InitRest /\ NoRequests

DeleteLeaves ==
  UNCHANGED <<pc, job, owner, envVars, unsure, created, setup, kept>>

-----------------------------------------------------------------------------
\* The row is inserted, marked "connecting", and the setup thread started.
create_session(s) ==
  /\ s \notin created
  /\ created' = created \cup {s}
  /\ setup' = setup \cup {s}
  /\ status' = [status EXCEPT ![s] = "connecting"]
  /\ UNCHANGED <<ptyId, assigned, lockVars, threadVars, memVars, daemonVars,
                 envVars, unsure, dpc, djob, kept>>

\* Mutant: the label of the step is written as the status.
SetupRaisesMislabelled(s) ==
  /\ s \in setup
  /\ setup' = setup \ {s}
  /\ status' = WithStatus(s, "failed")
  /\ UNCHANGED <<ptyId, assigned, lockVars, threadVars, memVars, daemonVars,
                 envVars, unsure, created, dpc, djob, kept>>

\* _background_setup: evaluating the arguments of setup_remote_worker looks
\* up "skip_preferences", a key the launch preferences never have; the
\* KeyError is caught and the session marked disconnected.
SetupRaises(s) ==
  /\ s \in setup
  /\ setup' = setup \ {s}
  /\ status' = WithStatus(s, "disconnected")
  /\ UNCHANGED <<ptyId, assigned, lockVars, threadVars, memVars, daemonVars,
                 envVars, unsure, created, dpc, djob, kept>>

-----------------------------------------------------------------------------
\* _resolve_session reads the row, rws_pty_id with it.
DeleteResolves(d, s) ==
  /\ dpc[d] = "free"
  /\ status[s] # Absent
  /\ djob' = [djob EXCEPT ![d] = [target |-> s, snap |-> ptyId[s], gen |-> 0]]
  /\ DGoto(d, "fetch")
  /\ DeleteLeaves /\ UNCHANGED <<dbVars, lockVars, memVars, pty>>

DeleteFetchesLock(d) ==
  /\ dpc[d] = "fetch"
  /\ djob' = [djob EXCEPT ![d].gen = registry[djob[d].target]]
  /\ DGoto(d, "wait")
  /\ DeleteLeaves /\ UNCHANGED <<dbVars, lockVars, memVars, pty>>

DeleteAcquires(d) ==
  /\ dpc[d] = "wait"
  /\ DLock(d) \notin locked
  /\ locked' = locked \cup {DLock(d)}
  /\ DGoto(d, "destroy")
  /\ DeleteLeaves /\ UNCHANGED <<dbVars, registry, memVars, pty, djob>>

\* acquire(timeout=10) failed: delete proceeds without the lock.
DeleteTimesOut(d) ==
  /\ dpc[d] = "wait"
  /\ DLock(d) \in locked
  /\ DGoto(d, "destroy")
  /\ DeleteLeaves /\ UNCHANGED <<dbVars, lockVars, memVars, pty, djob>>

\* Mutant: the lock is released before the row is deleted.
DestroyPtyUnlocked(d) ==
  LET p == djob[d].snap IN
  /\ dpc[d] = "destroy"
  /\ locked' = locked \ {DLock(d)}
  /\ pty' = IF p # NoPty /\ up
            THEN [Reaped(pty) EXCEPT ![p] = "gone"] ELSE pty
  /\ DGoto(d, "row")
  /\ DeleteLeaves /\ UNCHANGED <<dbVars, registry, memVars, djob>>

\* pty_destroy of the PTY the row had when it was resolved; best effort.
DestroyPty(d) ==
  LET p == djob[d].snap IN
  /\ dpc[d] = "destroy"
  /\ pty' = IF p # NoPty /\ up
            THEN [Reaped(pty) EXCEPT ![p] = "gone"] ELSE pty
  /\ DGoto(d, "row")
  /\ DeleteLeaves /\ UNCHANGED <<dbVars, lockVars, memVars, djob>>

\* repo.delete_session: unassign the tasks and delete the row.
DeleteRow(d) ==
  LET s == djob[d].target IN
  /\ dpc[d] = "row"
  /\ status' = [status EXCEPT ![s] = Absent]
  /\ ptyId' = [ptyId EXCEPT ![s] = NoPty]
  /\ assigned' = assigned \ {s}
  /\ DGoto(d, "unlock")
  /\ DeleteLeaves /\ UNCHANGED <<lockVars, memVars, pty, djob>>

\* It raises, the database being locked after all its retries: the row stays,
\* but the lock is given up and dropped as if it were gone.
DeleteRowRaises(d) ==
  LET s == djob[d].target IN
  /\ dpc[d] = "row" /\ status[s] # Absent
  /\ kept' = kept \cup {s} /\ unsure' = unsure \cup {s}
  /\ DGoto(d, "unlock")
  /\ UNCHANGED <<dbVars, lockVars, threadVars, memVars, daemonVars, envVars,
                 created, setup, djob>>

\* Mutant: dropping the lock from the registry is taken for a release.
DeleteForgetsRelease(d) ==
  /\ dpc[d] = "unlock"
  /\ DGoto(d, "cleanup")
  /\ DeleteLeaves /\ UNCHANGED <<dbVars, lockVars, memVars, pty, djob>>

\* finally: lock.release(), whoever holds the lock; RuntimeError is ignored.
DeleteUnlocks(d) ==
  /\ dpc[d] = "unlock"
  /\ locked' = locked \ {DLock(d)}
  /\ DGoto(d, "cleanup")
  /\ DeleteLeaves /\ UNCHANGED <<dbVars, registry, memVars, pty, djob>>

\* cleanup_reconnect_lock: the next get_reconnect_lock makes a new lock.
CleanupLock(d) ==
  LET s == djob[d].target IN
  /\ dpc[d] = "cleanup"
  /\ registry' = [registry EXCEPT ![s] = @ + 1]
  /\ step' = [step EXCEPT ![s] = "none"]
  /\ attempts' = [attempts EXCEPT ![s] = 0]
  /\ dpc' = [dpc EXCEPT ![d] = "free"]
  /\ djob' = [djob EXCEPT ![d] = NoDelete]
  /\ DeleteLeaves /\ UNCHANGED <<dbVars, locked, pty>>

DeleterStep(d) ==
  \/ DeleteFetchesLock(d) \/ DeleteAcquires(d) \/ DeleteTimesOut(d)
  \/ DestroyPty(d) \/ DeleteRow(d) \/ DeleteRowRaises(d)
  \/ DeleteUnlocks(d) \/ CleanupLock(d)

LServerRestart ==
  /\ ServerRestart
  /\ setup' = {} /\ kept' = {}
  /\ dpc' = [d \in Deleters |-> "free"]
  /\ djob' = [d \in Deleters |-> NoDelete]
  /\ UNCHANGED created

LNext ==
  \/ /\ \/ \E t \in Threads, s \in Sessions : Ask(t, s)
        \/ \E t \in Threads : ThreadStep(t)
        \/ \E s \in Sessions : RouteStep(s)
        \/ EnvStepButRestart
     /\ UNCHANGED lifeVars
  \/ LServerRestart
  \/ \E s \in Sessions : create_session(s) \/ SetupRaises(s)
  \/ \E d \in Deleters, s \in Sessions : DeleteResolves(d, s)
  \/ \E d \in Deleters : DeleterStep(d)

LSpec == LInit /\ [][LNext]_lvars

-----------------------------------------------------------------------------
\* Every variable has its type, those of setups and deletes included.
LTypeOK ==
  /\ TypeOK
  /\ created \subseteq Sessions /\ setup \subseteq created
  /\ dpc \in [Deleters -> DPCs]
  /\ djob \in [Deleters -> DJobs]
  /\ kept \subseteq unsure

\* While the row exists its pipelines exclude each other, although a delete
\* that timed out releases a lock it does not hold: it deletes the row first,
\* unless the database raises.
OnePipelineWhileRowExists ==
  \A t, u \in Threads :
    /\ InPipeline(t) /\ InPipeline(u) /\ job[t].target = job[u].target
    /\ status[job[t].target] # Absent /\ job[t].target \notin kept
    => t = u

\* A session with a row has one running agent at most, whatever deletes of it
\* time out, kill the PTY they read long ago, and release locks of pipelines
\* ("unsure" as in OneAgentPerSession, or since a delete left the row).
OneAgentWhileRowExists ==
  \A p, q \in Ptys :
    /\ pty[p] = "live" /\ pty[q] = "live"
    /\ owner[p] = owner[q] /\ owner[p] \notin unsure
    /\ status[owner[p]] # Absent
    => p = q

\* Tearing down and releasing foreign locks leaves no lock held by nobody.
NoLockSurvivesItsHolder ==
  locked \subseteq {LockOf(t) : t \in {u \in Threads : InPipeline(u)}}
           \cup {DLock(d) : d \in {e \in Deleters :
                                     dpc[e] \in {"destroy", "row", "unlock"}}}

=============================================================================
