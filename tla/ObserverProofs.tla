---------------------------- MODULE ObserverProofs ----------------------------
(***************************************************************************)
(* Those who look at agents and write rows beside the reconnect threads:   *)
(* health checks and the periodic cycle that starts them, which work from  *)
(* old Session objects, and the handlers of terminals.  For every number   *)
(* of checks, terminals, deletes, threads, sessions and PTYs: what a check *)
(* writes is about the session's own agent, none takes a running agent for *)
(* a dead one, no terminal costs a session its agent, and beside any of    *)
(* them reconnecting still implements AgentSlots.  Last, all of them at    *)
(* once with creates and deletes (SessionActors).                          *)
(***************************************************************************)
EXTENDS SessionActors, SessionLifecycleProofs

-----------------------------------------------------------------------------
(* What pipelines rely on is kept by whoever only looks at the agents,     *)
(* lets the daemon reap the dead ones, and writes PTY ids that belong to   *)
(* the session.                                                            *)

Bystands ==
  /\ UNCHANGED <<registry, locked, pc, job, owner, unsure>> /\ SameRows
  /\ pty' = pty \/ pty' = Reaped(pty)

\* A PTY id that belongs to a session goes on belonging to it.
OwnLasts ==
  \A p \in Ptys \cup {NoPty}, s \in Sessions : OwnPty(p, s) => OwnPty(p, s)'

LEMMA BystanderKeeps ==
  ASSUME TypeOK, AgentsInv, Bystands
  PROVE  /\ OwnLasts
         /\ (\A s \in Sessions : OwnPty(ptyId[s], s)') => AgentsInv'
<1>1. Shrinks /\ NoCorpseBesideAgent'
  BY DoubtStays, ReapingShrinks DEF Bystands
<1> QED
  BY <1>1, ShrinksKeeps, ShrinkingKeeps DEF Bystands, OwnLasts

\* They do nothing AgentSlots can see.
LEMMA BystanderStutters ==
  ASSUME TypeOK, Bystands
  PROVE  UNCHANGED Slots!slotVars
<1>1. pty \in [Ptys -> PtyStates]
  BY DEF TypeOK
<1>2. Observes
  BY <1>1 DEF Bystands, Reaped, Observes
<1>3. Claimed' = Claimed /\ unsure' = unsure
  BY DEF Bystands, Claimed, InPipeline
<1> QED
  BY <1>2, <1>3, ObservedRun DEF Slots!slotVars

\* What holds of the pipelines as long as nobody deletes a session.
PipesInv == TypeOK /\ LocksInv /\ AgentsInv /\ RowsExist

LEMMA PipesStep ==
  ASSUME PipesInv, [Next]_vars \/ (Bystands /\ TypeOK' /\ AgentsInv')
  PROVE  /\ PipesInv' /\ unsure \subseteq unsure'
         /\ [Slots!SlotsNext]_(Slots!slotVars)
<1>0. TypeOK /\ LocksInv /\ AgentsInv /\ RowsExist
  BY DEF PipesInv
<1>1. CASE [Next]_vars
  BY <1>0, <1>1, TypeStep, LocksStep, AgentsStep, NextKeepsRows, RowsStay,
     UnsureGrows, SlotsAnyStep DEF PipesInv
<1>2. CASE Bystands /\ TypeOK' /\ AgentsInv'
  <2>1. LocksInv'
    BY <1>0, <1>2 DEF Bystands, LocksInv, LocksOwned, OnePipelinePerSession,
                      NoAbandonedLock, InPipeline, LockOf
  <2> QED
    BY <1>0, <1>2, <2>1, RowsStay, BystanderStutters DEF PipesInv, Bystands
<1> QED
  BY <1>1, <1>2

LEMMA PipesInit == Init => PipesInv
<1>1. Init => LocksInv
  BY DEF Init, InitRest, LocksInv, LocksOwned, OnePipelinePerSession,
         NoAbandonedLock, InPipeline, Pipeline
<1>2. Init => RowsExist
  BY DEF Init, RowsExist, Exists, Absent
<1> QED
  BY <1>1, <1>2, TypeInit, AgentsInit DEF PipesInv

(***************************************************************************)
(* Health checks.                                                          *)
(***************************************************************************)

\* The PTY ids a check holds belong to its session.
ChecksOwned ==
  \A c \in Checkers : /\ OwnPty(hjob[c].snap, hjob[c].target)
                      /\ OwnPty(hjob[c].found, hjob[c].target)

CheckTypes ==
  /\ hpc \in [Checkers -> HPCs]
  /\ hjob \in [Checkers -> HJobs]

CheckActs(c) == CheckerStep(c) \/ \E s \in Sessions : StartCheck(c, s)

-----------------------------------------------------------------------------
LEMMA NoCheckTyped ==
  NoCheck \in HJobs /\ NoCheck.snap = NoPty /\ NoCheck.found = NoPty
BY JobTypes DEF NoCheck, HJobs, Jobs, Statuses

\* A check keeps or removes no row, and reaps or leaves the daemon alone.
LEMMA CheckTouches ==
  ASSUME HTypeOK, NEW c \in Checkers, CheckActs(c)
  PROVE  Bystands /\ UNCHANGED <<assigned, attempts, envVars>>
<1>1. /\ UNCHANGED <<assigned, lockVars, threadVars, attempts, owner,
                     envVars, unsure>>
      /\ pty' = pty \/ pty' = Reaped(pty)
  BY DEF CheckActs, CheckerStep, StartCheck, QueryDaemon, DaemonUnavailable,
         Reattach, Recover, MarkDead, SshFallback, SshRecover, MarkLost,
         CheckLeaves
<1>2. \/ status' = status
      \/ status' = WithStatus(hjob[c].target, "disconnected")
      \/ status' = WithStatus(hjob[c].target, RecoveryStatus(hjob[c].target))
  BY DEF CheckActs, CheckerStep, StartCheck, QueryDaemon, DaemonUnavailable,
         Reattach, Recover, MarkDead, SshFallback, SshRecover, MarkLost
<1>3. TypeOK /\ hjob[c].target \in Sessions
  BY DEF HTypeOK, HJobs
<1>4. SameRows
  <2>1. status' = status => SameRows
    BY DEF SameRows
  <2> QED
    BY <1>2, <1>3, <2>1, UpdateKeepsRows, StatusWords
<1> QED
  BY <1>1, <1>4 DEF Bystands, lockVars, threadVars

\* What a check makes of its locals, and of the row's PTY id.
CheckMoves(c) ==
  /\ \A e \in Checkers \ {c} : hjob'[e] = hjob[e]
  /\ \/ hjob' = hjob
     \/ hjob'[c] = NoCheck
     \/ \E s \in Sessions : hjob'[c] = [target |-> s, stat |-> status[s],
                                        snap |-> ptyId[s], found |-> NoPty]
     \/ \E p \in Ptys : /\ OwnPty(p, hjob[c].target)
                        /\ hjob'[c] = [hjob[c] EXCEPT !.found = p]
  /\ \A s \in Sessions :
       \/ ptyId'[s] \in {ptyId[s], NoPty}
       \/ s = hjob[c].target /\ ptyId'[s] = hjob[c].found

LEMMA CheckLocals ==
  ASSUME TypeOK, CheckTypes, ChecksOwned, NEW c \in Checkers, CheckActs(c)
  PROVE  CheckMoves(c)
<1>0. /\ hjob \in [Checkers -> HJobs]
      /\ ptyId \in [Sessions -> Ptys \cup {NoPty}]
      /\ hjob[c].target \in Sessions
      /\ OwnPty(hjob[c].snap, hjob[c].target)
  BY DEF TypeOK, CheckTypes, ChecksOwned, HJobs
<1>1. ASSUME NEW s \in Sessions, StartCheck(c, s)
      PROVE  CheckMoves(c)
  BY <1>0, <1>1 DEF StartCheck, CheckMoves
<1>2. CASE QueryDaemon(c)
  <2> DEFINE s == hjob[c].target
             mine == hjob[c].snap
             listed == mine \in Ptys /\ pty[mine] \in {"live", "dead"}
             found == IF listed /\ pty[mine] = "live" THEN {mine}
                      ELSE IF listed THEN {} ELSE LiveOf(s)
  <2>1. \A p \in found : p \in Ptys /\ OwnPty(p, s)
    BY <1>0 DEF LiveOf, OwnPty
  <2>2. ptyId' = ptyId
    BY <1>2 DEF QueryDaemon
  <2>3. \/ hjob' = hjob
        \/ \E p \in found : hjob' = [hjob EXCEPT ![c].found = p]
    BY <1>2 DEF QueryDaemon
  <2> HIDE DEF found
  <2> QED
    BY <1>0, <2>1, <2>2, <2>3 DEF CheckMoves
<1>3. CASE DaemonUnavailable(c) \/ SshFallback(c)
  BY <1>3 DEF DaemonUnavailable, SshFallback, CheckMoves
<1>4. CASE Reattach(c)
  BY <1>0, <1>4 DEF Reattach, WithPty, CheckMoves
<1>5. CASE Recover(c) \/ SshRecover(c) \/ MarkLost(c)
  BY <1>0, <1>5 DEF Recover, SshRecover, MarkLost, HDone, CheckMoves
<1>6. CASE MarkDead(c)
  BY <1>0, <1>6 DEF MarkDead, WithPty, HDone, CheckMoves
<1> QED
  BY <1>1, <1>2, <1>3, <1>4, <1>5, <1>6
  DEF CheckActs, CheckerStep

-----------------------------------------------------------------------------
(* Types.                                                                  *)

LEMMA HTypeCheck ==
  ASSUME HTypeOK, ChecksOwned, NEW c \in Checkers, CheckActs(c)
  PROVE  HTypeOK'
<1>0. TypeOK /\ CheckTypes /\ CheckMoves(c) /\ hjob[c] \in HJobs
  BY CheckLocals DEF HTypeOK, CheckTypes
<1>1. /\ UNCHANGED <<assigned, registry, locked, pc, job, attempts, owner,
                     envVars, unsure>>
      /\ pty' \in [Ptys -> PtyStates]
  BY <1>0, CheckTouches, PtyTypes DEF TypeOK, Bystands
<1>2. ptyId' \in [Sessions -> Ptys \cup {NoPty}]
  BY <1>0, RowTypes DEF TypeOK, HJobs, CheckActs, CheckerStep, StartCheck,
     QueryDaemon, DaemonUnavailable, Reattach, Recover, MarkDead, SshFallback,
     SshRecover, MarkLost
<1>3. /\ status' \in [Sessions -> Statuses \cup {Absent}]
      /\ step' \in [Sessions -> Steps]
  <2>1. hjob[c].target \in Sessions /\ "disconnected" \in Statuses
    BY <1>0 DEF HJobs, Statuses
  <2>2. /\ WithStatus(hjob[c].target, "disconnected")
             \in [Sessions -> Statuses \cup {Absent}]
        /\ WithStatus(hjob[c].target, RecoveryStatus(hjob[c].target))
             \in [Sessions -> Statuses \cup {Absent}]
    BY <1>0, <2>1, RowTypes
  <2> QED
    BY <1>0, <2>1, <2>2 DEF TypeOK, Steps, CheckActs, CheckerStep, StartCheck,
       QueryDaemon, DaemonUnavailable, Reattach, Recover, MarkDead,
       SshFallback, SshRecover, MarkLost
<1>4. hpc' \in [Checkers -> HPCs]
  BY <1>0 DEF CheckTypes, HPCs, HGoto, HDone, CheckActs, CheckerStep,
     StartCheck, QueryDaemon, DaemonUnavailable, Reattach, Recover, MarkDead,
     SshFallback, SshRecover, MarkLost
<1>5. hjob' \in [Checkers -> HJobs]
  <2>1. DOMAIN hjob' = Checkers /\ hjob' = [e \in Checkers |-> hjob'[e]]
    BY <1>0 DEF CheckTypes, HDone, CheckActs, CheckerStep, StartCheck,
       QueryDaemon, DaemonUnavailable, Reattach, Recover, MarkDead, SshFallback,
       SshRecover, MarkLost
  <2>2. ASSUME NEW s \in Sessions, StartCheck(c, s)
        PROVE  hjob' \in [Checkers -> HJobs]
    BY <1>0, <2>2 DEF StartCheck, CheckTypes, TypeOK, HJobs
  <2>3. \A p \in Ptys : [hjob[c] EXCEPT !.found = p] \in HJobs
    BY <1>0 DEF HJobs
  <2>4. CASE QueryDaemon(c)
    <3>1. \/ hjob' = hjob
          \/ \E p \in Ptys : hjob' = [hjob EXCEPT ![c].found = p]
      BY <2>4 DEF QueryDaemon, LiveOf
    <3> QED
      BY <1>0, <2>3, <3>1 DEF CheckTypes
  <2>5. CASE Recover(c) \/ MarkDead(c) \/ SshRecover(c) \/ MarkLost(c)
    BY <1>0, <2>5, NoCheckTyped
       DEF Recover, MarkDead, SshRecover, MarkLost, HDone, CheckTypes
  <2>6. CASE DaemonUnavailable(c) \/ Reattach(c) \/ SshFallback(c)
    BY <1>0, <2>6 DEF DaemonUnavailable, Reattach, SshFallback, CheckTypes
  <2> QED
    BY <2>2, <2>4, <2>5, <2>6 DEF CheckActs, CheckerStep
<1> QED
  BY <1>0, <1>1, <1>2, <1>3, <1>4, <1>5
     DEF HTypeOK, TypeOK, envVars

-----------------------------------------------------------------------------
(* Ownership.                                                              *)

\* Whatever pipelines, routes and the daemon do.
LEMMA OwnershipLasts ==
  ASSUME TypeOK, [Next]_vars
  PROVE  OwnLasts
<1> SUFFICES \A p \in Ptys \cup {NoPty}, s \in Sessions :
               OwnPty(p, s) => OwnPty(p, s)'
  BY DEF OwnLasts
<1>0. pty \in [Ptys -> PtyStates] /\ owner \in [Ptys -> Sessions]
  BY DEF TypeOK
<1>1. ASSUME UNCHANGED <<pty, owner>>
      PROVE  \A p, s : OwnPty(p, s) => OwnPty(p, s)'
  BY <1>1 DEF OwnPty
<1>2. ASSUME NEW t \in Threads, ThreadStep(t)
      PROVE  \A p \in Ptys \cup {NoPty} : \A s : OwnPty(p, s) => OwnPty(p, s)'
  <2>1. CASE Observes
    BY <2>1 DEF Observes, OwnPty
  <2>2. CASE Kills(job[t].target)
    BY <2>2 DEF Kills, OwnPty
  <2>3. ASSUME NEW ps \in SUBSET Ptys, Spawns(job[t].target, ps)
        PROVE  \A p \in Ptys \cup {NoPty} : \A s : OwnPty(p, s) => OwnPty(p, s)'
    BY <1>0, <2>3 DEF Spawns, OwnPty, Reaped
  <2> QED
    BY <1>2, <2>1, <2>2, <2>3, ThreadPtys
<1>3. ASSUME NEW s \in Sessions, RouteStep(s)
      PROVE  UNCHANGED <<pty, owner>>
  BY <1>3 DEF RouteStep, PatchStatus, pause_session, continue_session,
              stop_session, AssignTask, RouteUnchanged, daemonVars
<1>4. CASE EnvStepButRestart
  BY <1>0, <1>4 DEF EnvStepButRestart, AgentDies, DaemonReaps, NetworkDown,
                    NetworkUp, daemonVars, OwnPty, Reaped
<1>5. CASE \/ ServerRestart \/ UNCHANGED vars
           \/ \E t \in Threads, s \in Sessions : Ask(t, s)
  BY <1>1, <1>5 DEF ServerRestart, vars, Ask, daemonVars
<1> QED
  BY <1>1, <1>2, <1>3, <1>4, <1>5 DEF Next

\* The PTY ids that checks hold go on being their sessions'.
LEMMA ChecksStayOwned ==
  ASSUME HTypeOK, ChecksOwned, OwnLasts,
         \A c \in Checkers :
           \/ hjob'[c] \in {hjob[c], NoCheck}
           \/ \E s \in Sessions, p \in Ptys \cup {NoPty} :
                /\ OwnPty(p, s)
                /\ hjob'[c].target = s /\ hjob'[c].snap = p
                /\ hjob'[c].found = NoPty
  PROVE  ChecksOwned'
<1> SUFFICES ASSUME NEW c \in Checkers
             PROVE  /\ OwnPty(hjob[c].snap, hjob[c].target)'
                    /\ OwnPty(hjob[c].found, hjob[c].target)'
  BY DEF ChecksOwned
<1>1. CASE hjob'[c] = hjob[c]
  <2>1. /\ hjob[c].target \in Sessions /\ hjob[c].snap \in Ptys \cup {NoPty}
        /\ hjob[c].found \in Ptys \cup {NoPty}
    BY DEF HTypeOK, HJobs
  <2> QED
    BY <1>1, <2>1 DEF OwnLasts, ChecksOwned
<1>2. CASE hjob'[c] = NoCheck
  BY <1>2, NoCheckTyped DEF OwnPty
<1>3. ASSUME NEW s \in Sessions, NEW p \in Ptys \cup {NoPty}, OwnPty(p, s),
             hjob'[c].target = s, hjob'[c].snap = p, hjob'[c].found = NoPty
      PROVE  /\ OwnPty(hjob[c].snap, hjob[c].target)'
             /\ OwnPty(hjob[c].found, hjob[c].target)'
  <2>1. OwnPty(p, s)'
    BY <1>3 DEF OwnLasts
  <2> QED
    BY <1>3, <2>1 DEF OwnPty
<1> QED
  BY <1>1, <1>2, <1>3

\* A check keeps what the pipelines rely on.
LEMMA CheckKeeps ==
  ASSUME HTypeOK, AgentsInv, ChecksOwned, NEW c \in Checkers, CheckActs(c)
  PROVE  Bystands /\ OwnLasts /\ HTypeOK' /\ AgentsInv' /\ ChecksOwned'
<1>0. /\ TypeOK /\ CheckTypes
      /\ hjob[c] \in HJobs /\ hjob[c].target \in Sessions
      /\ hjob[c].found \in Ptys \cup {NoPty}
      /\ ptyId \in [Sessions -> Ptys \cup {NoPty}]
  BY DEF HTypeOK, CheckTypes, TypeOK, HJobs
<1>1. Bystands
  BY CheckTouches
<1>2. CheckMoves(c)
  BY <1>0, CheckLocals
<1>3. HTypeOK'
  BY HTypeCheck
<1>4. OwnLasts
  BY <1>0, <1>1, BystanderKeeps
<1>5. AgentsInv'
  <2>1. ASSUME NEW s \in Sessions
        PROVE  OwnPty(ptyId[s], s)'
    <3>1. /\ OwnPty(ptyId[s], s) /\ ptyId[s] \in Ptys \cup {NoPty}
          /\ OwnPty(hjob[c].found, hjob[c].target)
      BY <1>0 DEF AgentsInv, PtysOwned, ChecksOwned
    <3>2. \/ ptyId'[s] \in {ptyId[s], NoPty}
          \/ s = hjob[c].target /\ ptyId'[s] = hjob[c].found
      BY <1>2 DEF CheckMoves
    <3> QED
      BY <1>0, <1>4, <3>1, <3>2 DEF OwnPty, OwnLasts
  <2> QED
    BY <1>0, <1>1, <2>1, BystanderKeeps
<1>6. ChecksOwned'
  <2>1. CASE hjob' = hjob
    BY <1>4, <2>1, ChecksStayOwned
  <2>2. CASE hjob'[c] = NoCheck
    BY <1>2, <1>4, <2>2, ChecksStayOwned DEF CheckMoves
  <2>3. ASSUME NEW s \in Sessions,
               hjob'[c] = [target |-> s, stat |-> status[s],
                           snap |-> ptyId[s], found |-> NoPty]
        PROVE  ChecksOwned'
    <3>1. OwnPty(ptyId[s], s) /\ ptyId[s] \in Ptys \cup {NoPty}
      BY <1>0 DEF AgentsInv, PtysOwned
    <3>2. /\ hjob'[c].snap = ptyId[s] /\ hjob'[c].target = s
          /\ hjob'[c].found = NoPty
      BY <2>3
    <3>3. \A e \in Checkers \ {c} : hjob'[e] = hjob[e]
      BY <1>2 DEF CheckMoves
    <3> QED
      BY <1>4, <3>1, <3>2, <3>3, ChecksStayOwned
  <2>4. ASSUME NEW p \in Ptys, OwnPty(p, hjob[c].target),
               hjob'[c] = [hjob[c] EXCEPT !.found = p]
        PROVE  ChecksOwned'
    <3>1. /\ hjob'[c].snap = hjob[c].snap /\ hjob'[c].found = p
          /\ hjob'[c].target = hjob[c].target
      BY <1>0, <2>4 DEF HJobs
    <3>2. \A e \in Checkers : /\ hjob[e].target \in Sessions
                              /\ hjob[e].snap \in Ptys \cup {NoPty}
                              /\ hjob[e].found \in Ptys \cup {NoPty}
      BY DEF HTypeOK, HJobs
    <3>3. \A e \in Checkers : /\ OwnPty(hjob[e].snap, hjob[e].target)'
                              /\ OwnPty(hjob[e].found, hjob[e].target)'
      <4>1. ASSUME NEW e \in Checkers \ {c}
            PROVE  /\ OwnPty(hjob[e].snap, hjob[e].target)'
                   /\ OwnPty(hjob[e].found, hjob[e].target)'
        BY <1>2, <1>4, <3>2, <4>1 DEF CheckMoves, ChecksOwned, OwnLasts
      <4>2. /\ OwnPty(hjob[c].snap, hjob[c].target)'
            /\ OwnPty(hjob[c].found, hjob[c].target)'
        BY <1>4, <2>4, <3>1, <3>2 DEF ChecksOwned, OwnLasts
      <4> QED
        BY <4>1, <4>2
    <3> QED
      BY <3>3 DEF ChecksOwned
  <2> QED
    BY <1>2, <2>1, <2>2, <2>3, <2>4 DEF CheckMoves
<1> QED
  BY <1>1, <1>3, <1>4, <1>5, <1>6

\* A restart of the orchestrator leaves no check.
LEMMA NoChecksLeft ==
  (/\ hpc' = [c \in Checkers |-> "free"]
   /\ hjob' = [c \in Checkers |-> NoCheck]) => CheckTypes' /\ ChecksOwned'
BY NoCheckTyped DEF CheckTypes, ChecksOwned, HPCs, OwnPty

\* Nobody but a check touches its locals, and nobody takes the PTYs away.
LEMMA ChecksBeside ==
  ASSUME HTypeOK, ChecksOwned, OwnLasts, UNCHANGED checkVars
  PROVE  CheckTypes' /\ ChecksOwned'
<1>1. UNCHANGED <<hpc, hjob>>
  BY DEF checkVars
<1>2. ChecksOwned'
  BY <1>1, ChecksStayOwned
<1> QED
  BY <1>1, <1>2 DEF HTypeOK, CheckTypes

\* A check that concludes "dead or gone" is right while the session has a row.
LEMMA ChecksSee ==
  ASSUME HTypeOK, AgentsInv, ChecksOwned,
         NEW c \in Checkers, NEW e \in Checkers,
         CheckActs(e) \/ \E s \in Sessions : SubmitCheck(e, s),
         hpc[c] = "query", hpc'[c] = "dead", Certain(hjob[c].target)
  PROVE  LiveOf(hjob[c].target) = {}
<1> DEFINE s == hjob[c].target
           mine == hjob[c].snap
           listed == mine \in Ptys /\ pty[mine] \in {"live", "dead"}
           found == IF listed /\ pty[mine] = "live" THEN {mine}
                    ELSE IF listed THEN {} ELSE LiveOf(s)
<1>0. hpc \in [Checkers -> HPCs]
  BY DEF HTypeOK
<1>1. QueryDaemon(c)
  BY <1>0 DEF CheckActs, CheckerStep, StartCheck, SubmitCheck, QueryDaemon,
     DaemonUnavailable, Reattach, Recover, MarkDead, SshFallback, SshRecover,
     MarkLost, HGoto, HDone
<1>2. found = {}
  BY <1>0, <1>1 DEF QueryDaemon, HGoto
<1>3. OwnPty(mine, s)
  BY DEF ChecksOwned
<1> QED
  BY <1>2, <1>3, NoPtyAssumption
  DEF AgentsInv, NoCorpseBesideAgent, LiveOf, OwnPty, Certain

-----------------------------------------------------------------------------
(* Checks of single sessions beside the pipelines.                         *)

HInv == PipesInv /\ CheckTypes /\ ChecksOwned

LEMMA HInvStep ==
  ASSUME HInv, [HNext]_hvars
  PROVE  /\ HInv' /\ [Slots!SlotsNext]_(Slots!slotVars)
         /\ [Next]_vars \/ \E c \in Checkers : CheckActs(c)
<1>0. PipesInv /\ HTypeOK /\ AgentsInv /\ ChecksOwned /\ TypeOK
  BY DEF HInv, PipesInv, CheckTypes, HTypeOK
<1>1. ASSUME NEW c \in Checkers, CheckActs(c)
      PROVE  HInv' /\ [Slots!SlotsNext]_(Slots!slotVars)
  <2>1. Bystands /\ HTypeOK' /\ AgentsInv' /\ ChecksOwned'
    BY <1>0, <1>1, CheckKeeps
  <2> QED
    BY <1>0, <2>1, PipesStep DEF HInv, HTypeOK, CheckTypes
<1>2. ASSUME [Next]_vars, CheckTypes' /\ ChecksOwned'
      PROVE  HInv' /\ [Slots!SlotsNext]_(Slots!slotVars)
  BY <1>0, <1>2, PipesStep DEF HInv
<1>3. CASE HServerRestart
  BY <1>2, <1>3, NoChecksLeft DEF HServerRestart, Next
<1>4. CASE [Next]_vars /\ UNCHANGED checkVars
  BY <1>0, <1>2, <1>4, OwnershipLasts, ChecksBeside
<1> QED
  BY <1>1, <1>3, <1>4 DEF HNext, Next, hvars, HServerRestart, CheckActs

LEMMA HInvStart == HInit => HInv
BY PipesInit, NoCheckTyped
DEF HInit, NoChecks, HInv, CheckTypes, ChecksOwned, HPCs, OwnPty

LEMMA HInvHolds == HSpec => []HInv
BY HInvStart, HInvStep, PTL DEF HSpec

\* Every variable keeps its type beside the checks.
THEOREM CheckTypesCorrect == HSpec => []HTypeOK
<1>1. HInv => HTypeOK
  BY DEF HInv, PipesInv, CheckTypes, HTypeOK
<1> QED
  BY <1>1, HInvHolds, PTL

LEMMA PipesOwn == PipesInv => RowPtyIsOwn
BY DEF PipesInv, TypeOK, AgentsInv, PtysOwned, OwnPty, RowPtyIsOwn

\* Checks write rws_pty_id from objects they read long ago, and never write
\* another session's.
THEOREM RowsNameTheirOwnAgent == HSpec => []RowPtyIsOwn
<1>1. HInv => RowPtyIsOwn
  BY PipesOwn DEF HInv
<1> QED
  BY <1>1, HInvHolds, PTL

\* A check that concludes "dead or gone" is right, however old its object.
THEOREM ChecksSeeTheAgent == HSpec => CheckSeesTheAgent
<1>1. ASSUME HInv, [HNext]_hvars, ~UNCHANGED hvars, NEW c \in Checkers,
             hpc[c] = "query", hpc'[c] = "dead", hjob[c].target \notin unsure
      PROVE  LiveOf(hjob[c].target) = {}
  <2>1. HTypeOK /\ AgentsInv /\ ChecksOwned /\ Certain(hjob[c].target)
    BY <1>1 DEF HInv, PipesInv, CheckTypes, HTypeOK, HJobs, RowsExist, Certain
  <2>2. ~UNCHANGED checkVars /\ ~HServerRestart
    BY <1>1 DEF checkVars, HServerRestart
  <2>3. PICK e \in Checkers : CheckActs(e)
    BY <1>1, <2>2 DEF HNext, CheckActs
  <2> QED
    BY <1>1, <2>1, <2>3, ChecksSee
<1>2. HInv /\ [HNext]_hvars =>
        [\A c \in Checkers :
           /\ hpc[c] = "query" /\ hpc'[c] = "dead"
           /\ hjob[c].target \notin unsure
           => LiveOf(hjob[c].target) = {}]_hvars
  BY <1>1
<1> QED
  BY <1>2, HInvHolds, PTL DEF HSpec, CheckSeesTheAgent

\* Reconnecting implements AgentSlots beside any number of health checks.
THEOREM ChecksRefine == HSpec => ImplementsAgentSlots
<1>1. HInv /\ [HNext]_hvars => [Slots!SlotsNext]_(Slots!slotVars)
  BY HInvStep
<1> QED
  BY <1>1, SlotsStart, HInvHolds, PTL
  DEF HSpec, HInit, ImplementsAgentSlots, Slots!SlotsSpec

-----------------------------------------------------------------------------
(***************************************************************************)
(* The periodic cycle, which starts checks from the list its request read. *)
(***************************************************************************)

CycleTypes ==
  /\ cpc \in CPCs
  /\ list \in [Sessions -> [stat : Statuses \cup {Absent},
                            snap : Ptys \cup {NoPty}, late : BOOLEAN]]
  /\ todo \subseteq Sessions /\ pending \subseteq Sessions
  /\ probe \in {"none", "alive", "dead"}
  /\ skipped \subseteq Sessions
  /\ breaker \in {"closed", "open", "half_open"}
  /\ failures \in 0..FailureThreshold
  /\ old \subseteq Sessions /\ window \subseteq Sessions /\ cooling \in BOOLEAN

\* The list names PTYs of the sessions it names.
ListOwned == \A s \in Sessions : OwnPty(list[s].snap, s)

\* Only sessions that had a row are classified, and then checked.
Listed ==
  /\ \A s \in pending : list[s].stat # Absent
  /\ cpc = "classify" => \A s \in todo : list[s].stat # Absent

CycleInv == CycleTypes /\ ListOwned /\ Listed

\* What the cycle does besides asking for a reconnect.
CycleChecks ==
  \/ \E c \in Checkers : CheckProceeds(c)
  \/ \E c \in Checkers, s \in Sessions : SubmitProbe(c, s) \/ SubmitPeer(c, s)

CycleBooks ==
  \/ ListWorkers \/ Classified \/ ProbeTimesOut \/ PeersDone \/ Regathers
  \/ CycleEnds \/ CooldownExpires
  \/ \E s \in Sessions : ClassifyRemote(s) \/ PassOver(s)
                         \/ ConnectingAges(s) \/ WindowExpires(s)

CycleWrites == \E s \in Sessions : ClassifyConnecting(s) \/ FailPeer(s)

CycleAsks == \E t \in Threads, s \in Sessions : AutoReconnect(t, s)

LEMMA CycleActs ==
  CycleStep \/ Regathers \/ CooldownExpires
    \/ (\E c \in Checkers : CheckProceeds(c))
    \/ (\E s \in Sessions : ConnectingAges(s) \/ WindowExpires(s))
  => CycleChecks \/ CycleBooks \/ CycleWrites \/ CycleAsks
BY DEF CycleStep, QueryPool, CycleChecks, CycleBooks, CycleWrites, CycleAsks

-----------------------------------------------------------------------------
(* The cycle's own variables.                                              *)

\* One session of the list.
LEMMA ListTyped ==
  ASSUME CycleTypes, NEW s \in Sessions
  PROVE  /\ list[s].stat \in Statuses \cup {Absent}
         /\ list[s].snap \in Ptys \cup {NoPty}
BY DEF CycleTypes

LEMMA RecordedTypes ==
  ASSUME CycleTypes, NEW alive \in BOOLEAN, Recorded(alive)
  PROVE  /\ breaker' \in {"closed", "open", "half_open"}
         /\ failures' \in 0..FailureThreshold /\ cooling' \in BOOLEAN
<1>1. failures \in 0..FailureThreshold /\ FailureThreshold \in Nat \ {0}
  BY ThresholdAssumption DEF CycleTypes
<1> DEFINE n == IF failures < FailureThreshold THEN failures + 1 ELSE failures
<1>2. n \in 0..FailureThreshold /\ 0 \in 0..FailureThreshold
  BY <1>1
<1>3. \/ breaker' = "closed" /\ failures' = 0 /\ UNCHANGED cooling
      \/ /\ failures' = n
         /\ \/ breaker' = "open" /\ cooling' = TRUE
            \/ UNCHANGED <<breaker, cooling>>
  BY DEF Recorded
<1> HIDE DEF n
<1> QED
  BY <1>2, <1>3 DEF CycleTypes

LEMMA ClockTypes ==
  ASSUME CycleTypes, Clock
  PROVE  old' \subseteq Sessions /\ window' \subseteq Sessions
BY DEF CycleTypes, Clock, Rearmed

\* Whoever leaves the cycle alone leaves its invariant, as PTYs stay with
\* their sessions; the clocks tick.
LEMMA CycleBeside ==
  ASSUME CycleInv, OwnLasts, UNCHANGED cycleVars,
         Clock \/ UNCHANGED <<old, window>>, cooling' \in BOOLEAN
  PROVE  CycleInv'
<1>1. CycleTypes'
  BY ClockTypes DEF CycleInv, CycleTypes, cycleVars
<1>2. ListOwned' /\ Listed'
  BY ListTyped DEF CycleInv, ListOwned, Listed, OwnLasts, cycleVars
<1> QED
  BY <1>1, <1>2 DEF CycleInv

LEMMA EmptyListTyped ==
  ASSUME list' = [s \in Sessions |-> Unlisted]
  PROVE  /\ list' \in [Sessions -> [stat : Statuses \cup {Absent},
                                    snap : Ptys \cup {NoPty}, late : BOOLEAN]]
         /\ \A s \in Sessions : list'[s].stat # Absent /\ list'[s].snap = NoPty
BY DEF Unlisted, Statuses, Absent

LEMMA CycleRestarts ==
  ASSUME CycleInv, CServerRestart
  PROVE  CycleInv'
<1>1. CycleTypes'
  <2>1. 0 \in 0..FailureThreshold
    BY ThresholdAssumption
  <2>2. list' \in [Sessions -> [stat : Statuses \cup {Absent},
                                snap : Ptys \cup {NoPty}, late : BOOLEAN]]
    BY EmptyListTyped DEF CServerRestart
  <2>3. old' \subseteq Sessions /\ window' \subseteq Sessions
    BY ClockTypes DEF CServerRestart, CycleInv
  <2> QED
    BY <2>1, <2>2, <2>3 DEF CServerRestart, CycleTypes, CPCs
<1>2. ListOwned' /\ Listed'
  BY EmptyListTyped DEF CServerRestart, ListOwned, Listed, OwnPty
<1> QED
  BY <1>1, <1>2 DEF CycleInv

LEMMA CycleTypesStep ==
  ASSUME TypeOK, CycleTypes,
         CycleChecks \/ CycleBooks \/ CycleWrites \/ CycleAsks
  PROVE  CycleTypes'
<1> USE DEF CycleTypes, CPCs
<1>1. CASE CycleBooks
  <2>1. CASE ListWorkers
    BY <2>1 DEF ListWorkers, CycleKeeps, timeVars, TypeOK
  <2>2. CASE CycleEnds
    BY <2>2, EmptyListTyped DEF CycleEnds, CycleKeeps, timeVars
  <2>3. CASE \/ Classified \/ ProbeTimesOut \/ PeersDone \/ Regathers
             \/ CooldownExpires
    BY <2>3 DEF Classified, ProbeTimesOut, PeersDone, Regathers,
                CooldownExpires, CycleKeeps, timeVars, cycleVars
  <2>4. ASSUME NEW s \in Sessions,
               \/ ClassifyRemote(s) \/ PassOver(s)
               \/ ConnectingAges(s) \/ WindowExpires(s)
        PROVE  CycleTypes'
    BY <2>4 DEF ClassifyRemote, PassOver, ConnectingAges, WindowExpires,
                CycleKeeps, timeVars, cycleVars
  <2> QED
    BY <1>1, <2>1, <2>2, <2>3, <2>4 DEF CycleBooks
<1>2. CASE CycleWrites
  BY <1>2, ClockTypes, RecordedTypes
  DEF CycleWrites, ClassifyConnecting, FailPeer
<1>3. CASE CycleAsks
  BY <1>3 DEF CycleAsks, AutoReconnect, timeVars
<1>4. ASSUME NEW c \in Checkers, CheckProceeds(c)
      PROVE  CycleTypes'
  <2>1. /\ UNCHANGED <<list, todo, pending, skipped>> /\ Clock
        /\ probe' \in {probe, "alive", "dead"} /\ cpc' \in {cpc, "peers"}
        /\ \/ UNCHANGED <<breaker, failures, cooling>>
           \/ Recorded(hpc[c] \in {"recover", "sshAlive"})
    BY <1>4 DEF CheckProceeds
  <2>2. /\ breaker' \in {"closed", "open", "half_open"}
        /\ failures' \in 0..FailureThreshold /\ cooling' \in BOOLEAN
    <3>1. (hpc[c] \in {"recover", "sshAlive"}) \in BOOLEAN
      OBVIOUS
    <3>2. CASE Recorded(hpc[c] \in {"recover", "sshAlive"})
      BY <3>1, <3>2, RecordedTypes, Zenon
    <3>3. CASE UNCHANGED <<breaker, failures, cooling>>
      BY <3>3
    <3> QED
      BY <2>1, <3>2, <3>3
  <2>3. old' \subseteq Sessions /\ window' \subseteq Sessions
    BY <2>1, ClockTypes
  <2> QED
    BY <2>1, <2>2, <2>3
<1>5. ASSUME NEW c \in Checkers, NEW s \in Sessions,
             SubmitProbe(c, s) \/ SubmitPeer(c, s)
      PROVE  CycleTypes'
  BY <1>5 DEF SubmitProbe, SubmitPeer, SubmitCheck, timeVars
<1> QED
  BY <1>1, <1>2, <1>3, <1>4, <1>5 DEF CycleChecks

LEMMA ListedStep ==
  ASSUME TypeOK, CycleInv,
         CycleChecks \/ CycleBooks \/ CycleWrites \/ CycleAsks
  PROVE  Listed'
<1> USE DEF CycleInv, Listed
<1>1. CASE ListWorkers
  BY <1>1 DEF ListWorkers
<1>2. CASE CycleEnds
  BY <1>2, EmptyListTyped DEF CycleEnds, CycleTypes
<1>3. CASE \/ Classified \/ ProbeTimesOut \/ PeersDone \/ Regathers
           \/ CooldownExpires
  BY <1>3 DEF Classified, ProbeTimesOut, PeersDone, Regathers,
              CooldownExpires, cycleVars
<1>4. ASSUME NEW s \in Sessions,
             \/ ClassifyRemote(s) \/ PassOver(s) \/ ConnectingAges(s)
             \/ WindowExpires(s) \/ ClassifyConnecting(s) \/ FailPeer(s)
      PROVE  Listed'
  <2>1. list' = list /\ cpc' = cpc /\ todo' \subseteq todo
    BY <1>4 DEF ClassifyRemote, PassOver, ConnectingAges, WindowExpires,
                ClassifyConnecting, FailPeer, cycleVars
  <2>2. \/ pending' \subseteq pending
        \/ /\ pending' \subseteq pending \cup {s}
           /\ cpc = "classify" /\ s \in todo
    BY <1>4 DEF ClassifyRemote, PassOver, ConnectingAges, WindowExpires,
                ClassifyConnecting, FailPeer, cycleVars
  <2> QED
    BY <2>1, <2>2
<1>5. CASE CycleAsks
  BY <1>5 DEF CycleAsks, AutoReconnect
<1>6. ASSUME NEW c \in Checkers, CheckProceeds(c)
      PROVE  Listed'
  <2>1. UNCHANGED <<list, todo, pending>> /\ cpc' \in {cpc, "peers"}
    BY <1>6 DEF CheckProceeds
  <2> QED
    BY <2>1
<1>7. ASSUME NEW c \in Checkers, NEW s \in Sessions,
             SubmitProbe(c, s) \/ SubmitPeer(c, s)
      PROVE  Listed'
  BY <1>7 DEF SubmitProbe, SubmitPeer, SubmitCheck
<1> QED
  BY <1>1, <1>2, <1>3, <1>4, <1>5, <1>6, <1>7
  DEF CycleChecks, CycleBooks, CycleWrites

\* The list is of PTYs the rows name, and they are the sessions' own.
LEMMA ListOwnedStep ==
  ASSUME TypeOK, AgentsInv, CycleInv, OwnLasts,
         CycleChecks \/ CycleBooks \/ CycleWrites \/ CycleAsks
  PROVE  ListOwned'
<1>1. CASE list' = list
  BY <1>1, ListTyped DEF CycleInv, ListOwned, OwnLasts
<1>2. CASE ListWorkers
  <2>1. \A s \in Sessions : list'[s].snap = ptyId[s]
    BY <1>2 DEF ListWorkers
  <2>2. \A s \in Sessions : /\ OwnPty(ptyId[s], s)
                            /\ ptyId[s] \in Ptys \cup {NoPty}
    BY DEF AgentsInv, PtysOwned, TypeOK
  <2> QED
    BY <2>1, <2>2 DEF ListOwned, OwnLasts, OwnPty
<1>3. CASE CycleEnds
  BY <1>3, EmptyListTyped DEF CycleEnds, ListOwned, OwnPty
<1> QED
  BY <1>1, <1>2, <1>3
  DEF CycleChecks, CycleBooks, CycleWrites, CycleAsks, CheckProceeds,
      SubmitProbe, SubmitPeer, SubmitCheck, Classified, ProbeTimesOut,
      PeersDone, Regathers, CooldownExpires, ClassifyRemote, PassOver,
      ConnectingAges, WindowExpires, ClassifyConnecting, FailPeer,
      AutoReconnect, cycleVars

-----------------------------------------------------------------------------
(* What the cycle does to everything else.                                 *)

\* A check submitted from the list is one the pipelines and the other checks
\* can live with.
LEMMA SubmitKeeps ==
  ASSUME HTypeOK, AgentsInv, ChecksOwned, CycleInv, NEW c \in Checkers,
         NEW s \in Sessions, SubmitProbe(c, s) \/ SubmitPeer(c, s)
  PROVE  UNCHANGED vars /\ HTypeOK' /\ ChecksOwned'
<1>1. /\ UNCHANGED vars /\ s \in pending
      /\ hjob' = [hjob EXCEPT ![c] = [target |-> s, stat |-> list[s].stat,
                                      snap |-> list[s].snap, found |-> NoPty]]
      /\ hpc' = [hpc EXCEPT ![c] = "query"]
  BY DEF SubmitProbe, SubmitPeer, SubmitCheck, HGoto
<1>2. /\ list[s].stat \in Statuses /\ list[s].snap \in Ptys \cup {NoPty}
      /\ OwnPty(list[s].snap, s)
  BY <1>1, ListTyped DEF CycleInv, Listed, ListOwned
<1>3. CheckTypes'
  BY <1>1, <1>2 DEF HTypeOK, CheckTypes, HPCs, HJobs
<1>4. OwnLasts
  BY <1>1 DEF vars, daemonVars, OwnLasts, OwnPty
<1>5. /\ \A e \in Checkers \ {c} : hjob'[e] = hjob[e]
      /\ hjob'[c].target = s /\ hjob'[c].snap = list[s].snap
      /\ hjob'[c].found = NoPty
  BY <1>1 DEF HTypeOK
<1>6. ChecksOwned'
  BY <1>2, <1>4, <1>5, ChecksStayOwned
<1>7. TypeOK'
  BY <1>1, TypeStep DEF HTypeOK
<1> QED
  BY <1>1, <1>3, <1>6, <1>7 DEF HTypeOK, CheckTypes

\* A cycle's write of a status.
LEMMA WriteKeeps ==
  ASSUME HTypeOK, AgentsInv, CycleWrites
  PROVE  /\ Bystands /\ TypeOK' /\ AgentsInv' /\ UNCHANGED checkVars
         /\ UNCHANGED <<ptyId, pty>>
<1>1. /\ UNCHANGED <<ptyId, assigned, lockVars, threadVars, memVars,
                     daemonVars, envVars, unsure, checkVars>>
      /\ \/ status' = status
         \/ \E s \in Sessions : status' = WithStatus(s, "disconnected")
  BY DEF CycleWrites, ClassifyConnecting, FailPeer
<1>2. TypeOK
  BY DEF HTypeOK
<1>3. SameRows
  BY <1>1, <1>2, UpdateKeepsRows, StatusWords DEF SameRows
<1>4. status' \in [Sessions -> Statuses \cup {Absent}]
  BY <1>1, <1>2, RowTypes, StatusWords DEF TypeOK
<1>5. Bystands
  BY <1>1, <1>3 DEF Bystands, lockVars, threadVars, daemonVars
<1>6. TypeOK'
  BY <1>1, <1>2, <1>4
  DEF TypeOK, lockVars, threadVars, memVars, daemonVars, envVars
<1>7. AgentsInv'
  <2>1. \A s \in Sessions : OwnPty(ptyId[s], s)'
    BY <1>1 DEF AgentsInv, PtysOwned, OwnPty, daemonVars
  <2> QED
    BY <1>2, <1>5, <2>1, BystanderKeeps
<1> QED
  BY <1>1, <1>5, <1>6, <1>7 DEF daemonVars

LEMMA CycleKeepsAll ==
  ASSUME HTypeOK, AgentsInv, ChecksOwned, CycleInv,
         CycleChecks \/ CycleBooks \/ CycleWrites \/ CycleAsks
  PROVE  /\ CheckTypes' /\ ChecksOwned' /\ CycleInv'
         /\ \/ UNCHANGED vars
            \/ \E t \in Threads, s \in Sessions : Ask(t, s)
            \/ Bystands /\ TypeOK' /\ AgentsInv'
<1>0. TypeOK /\ CheckTypes
  BY DEF HTypeOK, CheckTypes
<1>1. OwnLasts /\ CheckTypes' /\ ChecksOwned'
      /\ \/ UNCHANGED vars
         \/ \E t \in Threads, s \in Sessions : Ask(t, s)
         \/ Bystands /\ TypeOK' /\ AgentsInv'
  <2>1. ASSUME NEW c \in Checkers, CheckProceeds(c)
        PROVE  /\ OwnLasts /\ CheckTypes' /\ ChecksOwned'
               /\ Bystands /\ TypeOK' /\ AgentsInv'
    <3>1. CheckActs(c)
      BY <2>1 DEF CheckProceeds, CheckActs
    <3> QED
      BY <3>1, CheckKeeps DEF HTypeOK, CheckTypes
  <2>2. ASSUME UNCHANGED daemonVars
        PROVE  OwnLasts
    BY <2>2 DEF daemonVars, OwnLasts, OwnPty
  <2>3. ASSUME NEW c \in Checkers, NEW s \in Sessions,
               SubmitProbe(c, s) \/ SubmitPeer(c, s)
        PROVE  OwnLasts /\ CheckTypes' /\ ChecksOwned' /\ UNCHANGED vars
    BY <2>2, <2>3, SubmitKeeps DEF vars, HTypeOK, CheckTypes
  <2>4. CASE CycleWrites
    <3>1. /\ Bystands /\ TypeOK' /\ AgentsInv' /\ UNCHANGED checkVars
          /\ UNCHANGED <<ptyId, pty>>
      BY <2>4, WriteKeeps
    <3>2. OwnLasts
      BY <2>2, <3>1 DEF Bystands, daemonVars
    <3> QED
      BY <3>1, <3>2, ChecksBeside
  <2>5. CASE CycleAsks
    <3>1. /\ \E t \in Threads, s \in Sessions : Ask(t, s)
          /\ UNCHANGED daemonVars /\ UNCHANGED checkVars
      BY <2>5 DEF CycleAsks, AutoReconnect, Ask
    <3> QED
      BY <2>2, <3>1, ChecksBeside
  <2>6. CASE CycleBooks
    <3>1. UNCHANGED vars /\ UNCHANGED checkVars
      BY <2>6 DEF CycleBooks, ListWorkers, Classified, ProbeTimesOut,
         PeersDone, Regathers, CycleEnds, CooldownExpires, ClassifyRemote,
         PassOver, ConnectingAges, WindowExpires, CycleKeeps
    <3>2. OwnLasts
      BY <2>2, <3>1 DEF vars
    <3> QED
      BY <3>1, <3>2, ChecksBeside
  <2> QED
    BY <2>1, <2>3, <2>4, <2>5, <2>6 DEF CycleChecks
<1>2. CycleInv'
  BY <1>0, <1>1, CycleTypesStep, ListedStep, ListOwnedStep DEF CycleInv
<1> QED
  BY <1>1, <1>2

-----------------------------------------------------------------------------
(* The cycle beside the pipelines.                                         *)

CInv == HInv /\ CycleInv

LEMMA CInvStep ==
  ASSUME CInv, [CNext]_cvars
  PROVE  CInv' /\ [Slots!SlotsNext]_(Slots!slotVars)
<1>0. /\ PipesInv /\ HTypeOK /\ AgentsInv /\ ChecksOwned /\ TypeOK /\ CycleInv
      /\ HInv /\ cooling \in BOOLEAN
  BY DEF CInv, HInv, PipesInv, CheckTypes, HTypeOK, CycleInv, CycleTypes
<1>1. CASE \/ CycleStep \/ CooldownExpires
           \/ \E c \in Checkers : CheckProceeds(c)
           \/ \E s \in Sessions : ConnectingAges(s) \/ WindowExpires(s)
  <2>1. CycleChecks \/ CycleBooks \/ CycleWrites \/ CycleAsks
    BY <1>1, CycleActs
  <2>2. /\ CheckTypes' /\ ChecksOwned' /\ CycleInv'
        /\ [Next]_vars \/ (Bystands /\ TypeOK' /\ AgentsInv')
    BY <1>0, <2>1, CycleKeepsAll DEF Next
  <2> QED
    BY <1>0, <2>2, PipesStep DEF CInv, HInv
<1>2. CASE [Next]_vars /\ UNCHANGED checkVars /\ UNCHANGED cycleVars
           /\ (Clock \/ UNCHANGED <<old, window>>) /\ UNCHANGED cooling
  <2>1. OwnLasts
    BY <1>0, <1>2, OwnershipLasts
  <2>2. CycleInv' /\ CheckTypes' /\ ChecksOwned'
    BY <1>0, <1>2, <2>1, CycleBeside, ChecksBeside
  <2> QED
    BY <1>0, <1>2, <2>2, PipesStep DEF CInv, HInv
<1>3. CASE CServerRestart
  <2>1. HInv' /\ [Slots!SlotsNext]_(Slots!slotVars)
    BY <1>0, <1>3, HInvStep DEF CServerRestart, HNext
  <2> QED
    BY <1>0, <1>3, <2>1, CycleRestarts DEF CInv
<1> QED
  BY <1>1, <1>2, <1>3 DEF CNext, Next, cvars, hvars, timeVars

LEMMA CycleStart == NoCycle => CycleInv
<1> SUFFICES ASSUME NoCycle PROVE CycleInv
  OBVIOUS
<1>1. /\ list \in [Sessions -> [stat : Statuses \cup {Absent},
                                snap : Ptys \cup {NoPty}, late : BOOLEAN]]
      /\ \A s \in Sessions : list[s].stat # Absent /\ list[s].snap = NoPty
  BY DEF NoCycle, Unlisted, Statuses, Absent
<1>2. 0 \in 0..FailureThreshold
  BY ThresholdAssumption
<1>3. CycleTypes
  BY <1>1, <1>2 DEF NoCycle, CycleTypes, CPCs
<1>4. ListOwned /\ Listed
  BY <1>1 DEF NoCycle, ListOwned, Listed, OwnPty
<1> QED
  BY <1>3, <1>4 DEF CycleInv

LEMMA CInvHolds == CSpec => []CInv
<1>1. CInit => CInv
  BY HInvStart, CycleStart DEF CInit, CInv
<1> QED
  BY <1>1, CInvStep, PTL DEF CSpec

\* Every variable keeps its type beside the cycle.
THEOREM CycleTypesCorrect == CSpec => []CTypeOK
<1>1. CInv => CTypeOK
  BY DEF CInv, HInv, PipesInv, CheckTypes, CycleInv, CycleTypes, HTypeOK,
         CTypeOK
<1> QED
  BY <1>1, CInvHolds, PTL

\* The cycle hands out rws_pty_ids it listed long ago, and still no row is
\* given another session's.
THEOREM CycleRowsOwn == CSpec => []RowPtyIsOwn
<1>1. CInv => RowPtyIsOwn
  BY PipesOwn DEF CInv, HInv
<1> QED
  BY <1>1, CInvHolds, PTL

\* Reconnecting implements AgentSlots beside the cycle, which asks for
\* reconnects itself.
THEOREM CycleRefines == CSpec => ImplementsAgentSlots
<1>1. CInv /\ [CNext]_cvars => [Slots!SlotsNext]_(Slots!slotVars)
  BY CInvStep
<1> QED
  BY <1>1, SlotsStart, CInvHolds, PTL
  DEF CSpec, CInit, HInit, ImplementsAgentSlots, Slots!SlotsSpec

-----------------------------------------------------------------------------
(***************************************************************************)
(* Terminals.                                                              *)
(***************************************************************************)

ViewTypes ==
  /\ vpc \in [Viewers -> VPCs]
  /\ vjob \in [Viewers -> VJobs]

LEMMA NoViewTyped == NoView \in VJobs
BY JobTypes DEF NoView, VJobs, Jobs

\* What a handler does besides asking for a reconnect.
ViewerActs(v) ==
  \/ \E s \in Sessions : OpenTerminal(v, s)
  \/ \E s \in Sessions : OpenDetached(v, s) /\ UNCHANGED vars
  \/ ViewerStep(v)

\* A handler lets the daemon reap and forgets PTY ids, and that is all.
LEMMA ViewerTouches ==
  ASSUME TTypeOK, NEW v \in Viewers, ViewerActs(v)
  PROVE  /\ Bystands /\ UNCHANGED <<assigned, step, attempts, envVars>>
         /\ status' \in [Sessions -> Statuses \cup {Absent}]
         /\ ptyId' \in [Sessions -> Ptys \cup {NoPty}]
         /\ \A s \in Sessions : ptyId'[s] \in {ptyId[s], NoPty}
         /\ ViewTypes'
<1>0. /\ TypeOK /\ ViewTypes
      /\ vjob[v] \in VJobs /\ vjob[v].target \in Sessions
      /\ ptyId \in [Sessions -> Ptys \cup {NoPty}]
      /\ status \in [Sessions -> Statuses \cup {Absent}]
  BY DEF TTypeOK, TypeOK, ViewTypes, VJobs
<1>1. /\ WithStatus(vjob[v].target, "disconnected")
           \in [Sessions -> Statuses \cup {Absent}]
      /\ WithStatus(vjob[v].target, RecoveryStatus(vjob[v].target))
           \in [Sessions -> Statuses \cup {Absent}]
      /\ WithPty(vjob[v].target, NoPty) \in [Sessions -> Ptys \cup {NoPty}]
      /\ \A s \in Sessions :
           WithPty(vjob[v].target, NoPty)[s] \in {ptyId[s], NoPty}
  <2>1. "disconnected" \in Statuses
    BY DEF Statuses
  <2> QED
    BY <1>0, <2>1, RowTypes DEF WithPty
<1>2. /\ \A l \in VPCs : VGoto(v, l) => vpc' \in [Viewers -> VPCs]
      /\ VDone(v) => ViewTypes'
  BY <1>0, NoViewTyped DEF VGoto, VDone, ViewTypes, VPCs
<1>3. ASSUME NEW s \in Sessions, OpenTerminal(v, s) \/ OpenDetached(v, s)
      PROVE  ViewTypes'
  <2>1. \A p \in Ptys \cup {NoPty} : [target |-> s, pty |-> p] \in VJobs
    BY DEF VJobs
  <2>2. ptyId[s] \in Ptys \cup {NoPty}
    BY DEF TTypeOK, TypeOK
  <2>3. \E p \in Ptys \cup {NoPty} :
          vjob' = [vjob EXCEPT ![v] = [target |-> s, pty |-> p]]
    BY <1>3, <2>2 DEF OpenTerminal, OpenDetached
  <2>4. vjob' \in [Viewers -> VJobs]
    BY <1>0, <2>1, <2>3 DEF ViewTypes
  <2>5. vpc' \in [Viewers -> VPCs]
    BY <1>2, <1>3 DEF OpenTerminal, OpenDetached, VPCs
  <2> QED
    BY <2>4, <2>5 DEF ViewTypes
<1>4. ASSUME ViewerStep(v)
      PROVE  ViewTypes'
  BY <1>0, <1>2, <1>4
  DEF ViewerStep, CloseDetached, StreamOpens, StreamFails, ClearNotFound,
      StreamEof, StreamDrops, ConfirmExit, ReadFresh, ClearExited, ViewTypes,
      VPCs
<1>5. ASSUME \E s \in Sessions : OpenTerminal(v, s)
      PROVE  UNCHANGED <<vars>>
  BY <1>5 DEF OpenTerminal, ViewLeaves, vars, dbVars, daemonVars
<1>6. ASSUME UNCHANGED vars
      PROVE  /\ Bystands
             /\ UNCHANGED <<assigned, step, attempts, envVars, status, ptyId>>
  BY <1>6 DEF Bystands, SameRows, vars, dbVars, lockVars, threadVars, memVars,
     daemonVars
<1>7. ASSUME ViewerStep(v)
      PROVE  /\ Bystands /\ UNCHANGED <<assigned, step, attempts, envVars>>
             /\ \/ status' = status
                \/ status' = WithStatus(vjob[v].target, "disconnected")
                \/ status' = WithStatus(vjob[v].target,
                                        RecoveryStatus(vjob[v].target))
             /\ ptyId' = ptyId \/ ptyId' = WithPty(vjob[v].target, NoPty)
  <2>1. CASE CloseDetached(v)
    BY <1>6, <2>1 DEF CloseDetached, vars, dbVars
  <2>2. CASE \/ StreamOpens(v) \/ StreamFails(v) \/ ClearNotFound(v)
             \/ StreamEof(v) \/ StreamDrops(v) \/ ConfirmExit(v)
             \/ ReadFresh(v) \/ ClearExited(v)
    <3>1. /\ ViewLeaves
          /\ pty' = pty \/ pty' = Reaped(pty)
          /\ \/ status' = status
             \/ status' = WithStatus(vjob[v].target, "disconnected")
             \/ status' = WithStatus(vjob[v].target,
                                     RecoveryStatus(vjob[v].target))
          /\ ptyId' = ptyId \/ ptyId' = WithPty(vjob[v].target, NoPty)
      BY <2>2
      DEF StreamOpens, StreamFails, ClearNotFound, StreamEof, StreamDrops,
          ConfirmExit, ReadFresh, ClearExited
    <3>2. SameRows
      <4>1. status' = status => SameRows
        BY DEF SameRows
      <4> QED
        BY <1>0, <3>1, <4>1, UpdateKeepsRows, StatusWords
    <3> QED
      BY <3>1, <3>2 DEF ViewLeaves, Bystands, lockVars, threadVars, memVars
  <2> QED
    BY <1>7, <2>1, <2>2 DEF ViewerStep
<1> QED
  BY <1>0, <1>1, <1>3, <1>4, <1>5, <1>6, <1>7 DEF ViewerActs

LEMMA ViewerKeeps ==
  ASSUME TTypeOK, AgentsInv, NEW v \in Viewers, ViewerActs(v)
  PROVE  Bystands /\ OwnLasts /\ TypeOK' /\ ViewTypes' /\ AgentsInv'
<1>0. TypeOK
  BY DEF TTypeOK
<1>1. /\ Bystands /\ UNCHANGED <<assigned, step, attempts, envVars>>
      /\ status' \in [Sessions -> Statuses \cup {Absent}]
      /\ ptyId' \in [Sessions -> Ptys \cup {NoPty}]
      /\ \A s \in Sessions : ptyId'[s] \in {ptyId[s], NoPty}
      /\ ViewTypes'
  BY ViewerTouches
<1>2. TypeOK'
  <2>1. pty' \in [Ptys -> PtyStates]
    BY <1>0, <1>1, PtyTypes DEF TypeOK, Bystands
  <2> QED
    BY <1>0, <1>1, <2>1 DEF TypeOK, Bystands, envVars
<1>3. OwnLasts
  BY <1>0, <1>1, BystanderKeeps
<1>4. \A s \in Sessions : OwnPty(ptyId[s], s)'
  <2>1. \A s \in Sessions : /\ OwnPty(ptyId[s], s)
                            /\ ptyId[s] \in Ptys \cup {NoPty}
    BY <1>0 DEF TypeOK, AgentsInv, PtysOwned
  <2> QED
    BY <1>1, <1>3, <2>1 DEF OwnPty, OwnLasts
<1> QED
  BY <1>0, <1>1, <1>2, <1>3, <1>4, BystanderKeeps

\* A terminal opened on a row without a PTY may ask for a reconnect.
LEMMA ViewerAsks ==
  ASSUME TTypeOK, NEW v \in Viewers, NEW s \in Sessions, OpenDetached(v, s)
  PROVE  /\ ViewTypes'
         /\ \/ UNCHANGED vars
            \/ \E t \in Threads, r \in Sessions : Ask(t, r)
<1>1. vpc \in [Viewers -> VPCs] /\ vjob \in [Viewers -> VJobs]
  BY DEF TTypeOK
<1>2. [target |-> s, pty |-> NoPty] \in VJobs
  BY DEF VJobs
<1> QED
  BY <1>1, <1>2 DEF OpenDetached, VGoto, ViewTypes, VPCs

\* A restart of the orchestrator leaves no terminal.
LEMMA NoViewsLeft ==
  (/\ vpc' = [v \in Viewers |-> "free"]
   /\ vjob' = [v \in Viewers |-> NoView]) => ViewTypes'
BY NoViewTyped DEF ViewTypes, VPCs

-----------------------------------------------------------------------------
(* Terminals beside the pipelines.                                         *)

TInv == PipesInv /\ ViewTypes

LEMMA TInvStep ==
  ASSUME TInv, [TNext]_tvars
  PROVE  /\ TInv' /\ unsure \subseteq unsure'
         /\ [Slots!SlotsNext]_(Slots!slotVars)
<1>0. PipesInv /\ TTypeOK /\ AgentsInv /\ ViewTypes
  BY DEF TInv, PipesInv, TTypeOK, ViewTypes
<1>1. ASSUME ViewTypes', [Next]_vars \/ (Bystands /\ TypeOK' /\ AgentsInv')
      PROVE  /\ TInv' /\ unsure \subseteq unsure'
             /\ [Slots!SlotsNext]_(Slots!slotVars)
  BY <1>0, <1>1, PipesStep DEF TInv
<1>2. ASSUME NEW v \in Viewers, ViewerActs(v)
      PROVE  Bystands /\ TypeOK' /\ AgentsInv' /\ ViewTypes'
  BY <1>0, <1>2, ViewerKeeps
<1>3. CASE TServerRestart
  BY <1>1, <1>3, NoViewsLeft DEF TServerRestart, Next
<1>4. ASSUME NEW v \in Viewers, NEW s \in Sessions, OpenDetached(v, s)
      PROVE  ViewTypes' /\ [Next]_vars
  BY <1>0, <1>4, ViewerAsks DEF Next
<1>5. ASSUME [Next]_vars, UNCHANGED viewVars
      PROVE  ViewTypes'
  BY <1>0, <1>5 DEF viewVars, ViewTypes
<1> QED
  BY <1>1, <1>2, <1>3, <1>4, <1>5 DEF TNext, Next, ViewerActs, tvars

LEMMA TInvHolds == TSpec => []TInv
<1>1. TInit => TInv
  BY PipesInit, NoViewTyped DEF TInit, NoTerminals, TInv, ViewTypes, VPCs
<1> QED
  BY <1>1, TInvStep, PTL DEF TSpec

\* Every variable keeps its type beside the terminals.
THEOREM TerminalTypesCorrect == TSpec => []TTypeOK
<1>1. TInv => TTypeOK
  BY DEF TInv, PipesInv, ViewTypes, TTypeOK
<1> QED
  BY <1>1, TInvHolds, PTL

\* What a pipeline that heard the daemon kills, while its session has a row.
LEMMA HeardSpares ==
  ASSUME AgentsInv, unsure \subseteq unsure', NEW t \in Threads,
         job[t].heard, job[t].target \notin unsure',
         status[job[t].target] # Absent
  PROVE  KilledBy(t) = {}
BY DEF KilledBy, AgentsInv, Knows, Certain, Exists

\* Terminals make the row forget its PTY under a pipeline; the pipeline finds
\* the agent by session id and never kills it to replace it.
THEOREM TerminalsSpareAgents == TSpec => AgentSurvivesTerminals
<1>1. TInv /\ [TNext]_tvars =>
        [\A t \in Threads :
           /\ job[t].heard /\ job[t].target \notin unsure'
           /\ status[job[t].target] # Absent
           => KilledBy(t) = {}]_tvars
  <2> SUFFICES ASSUME TInv, [TNext]_tvars, NEW t \in Threads,
                      job[t].heard, job[t].target \notin unsure',
                      status[job[t].target] # Absent
               PROVE  KilledBy(t) = {}
    OBVIOUS
  <2>1. AgentsInv /\ unsure \subseteq unsure'
    BY TInvStep DEF TInv, PipesInv
  <2> QED
    BY <2>1, HeardSpares
<1> QED
  BY <1>1, TInvHolds, PTL DEF TSpec, AgentSurvivesTerminals

\* Reconnecting implements AgentSlots beside any number of terminals.
THEOREM TerminalsRefine == TSpec => ImplementsAgentSlots
<1>1. TInv /\ [TNext]_tvars => [Slots!SlotsNext]_(Slots!slotVars)
  BY TInvStep
<1> QED
  BY <1>1, SlotsStart, TInvHolds, PTL
  DEF TSpec, TInit, ImplementsAgentSlots, Slots!SlotsSpec

-----------------------------------------------------------------------------
(***************************************************************************)
(* All of them at once, with creates and deletes.  Rows come and go, so    *)
(* what the pipelines know holds for sessions that have a row (RowInv and  *)
(* AgentsInv of SessionLifecycleProofs); observers keep that, and what the *)
(* observers hold is kept by creates and deletes.                          *)
(***************************************************************************)

LifeInv ==
  /\ LTypeOK /\ RowInv /\ NoLockSurvivesItsHolder
  /\ AgentsInv /\ AgentsHandedOut

LEMMA DeletesOwn ==
  ASSUME LTypeOK, NEW d \in Deleters,
         DeleterStep(d) \/ \E s \in Sessions : DeleteResolves(d, s)
  PROVE  OwnLasts
<1>1. /\ owner' = owner /\ djob[d].snap \in Ptys \cup {NoPty}
      /\ pty \in [Ptys -> PtyStates]
  BY DEF daemonVars, DeleterStep, DeleteResolves, DeleteFetchesLock,
         DeleteAcquires, DeleteTimesOut, DestroyPty, DeleteRow,
         DeleteRowRaises, DeleteUnlocks, CleanupLock, DeleteLeaves, LTypeOK,
         TypeOK, DJobs
<1>2. \A p \in Ptys : pty'[p] = "unused" => pty[p] = "unused"
  BY <1>1
  DEF daemonVars, DeleterStep, DeleteResolves, DeleteFetchesLock,
      DeleteAcquires, DeleteTimesOut, DestroyPty, DeleteRow, DeleteRowRaises,
      DeleteUnlocks, CleanupLock, Reaped
<1> QED
  BY <1>1, <1>2 DEF OwnLasts, OwnPty

LEMMA LifeStep ==
  ASSUME LifeInv, [LNext]_lvars
  PROVE  LifeInv' /\ OwnLasts /\ unsure \subseteq unsure'
<1>0. LTypeOK /\ TypeOK /\ RowInv /\ AgentsInv /\ AgentsHandedOut
      /\ NoLockSurvivesItsHolder
  BY DEF LifeInv, LTypeOK
<1>1. LifeInv'
  BY <1>0, LTypeStep, RowsStep, HeldStep, AgentsWhileRowStep DEF LifeInv
<1>2. CASE [Next]_vars
  BY <1>0, <1>1, <1>2, OwnershipLasts, UnsureGrows
<1>3. ASSUME NEW s \in Sessions, create_session(s) \/ SetupRaises(s)
      PROVE  OwnLasts /\ unsure' = unsure
  BY <1>3 DEF create_session, SetupRaises, daemonVars, OwnLasts, OwnPty
<1>4. ASSUME NEW d \in Deleters,
             DeleterStep(d) \/ \E s \in Sessions : DeleteResolves(d, s)
      PROVE  OwnLasts /\ unsure \subseteq unsure'
  <2>1. unsure \subseteq unsure'
    BY <1>4
    DEF DeleterStep, DeleteResolves, DeleteFetchesLock, DeleteAcquires,
        DeleteTimesOut, DestroyPty, DeleteRow, DeleteRowRaises, DeleteUnlocks,
        CleanupLock, DeleteLeaves
  <2> QED
    BY <1>0, <1>4, <2>1, DeletesOwn
<1> QED
  BY <1>1, <1>2, <1>3, <1>4 DEF LNext, LServerRestart, Next, lvars

LEMMA LifeBeside ==
  ASSUME LifeInv, Bystands, TypeOK', AgentsInv', UNCHANGED lifeVars
  PROVE  LifeInv'
<1>0. /\ UNCHANGED <<created, setup, dpc, djob, kept>>
      /\ UNCHANGED <<registry, locked, pc, job, owner>> /\ SameRows
      /\ pty' = pty \/ pty' = Reaped(pty)
      /\ unsure' = unsure
  BY DEF lifeVars, Bystands
<1>1. LTypeOK'
  BY <1>0 DEF LifeInv, LTypeOK
<1>2. RowInv'
  BY <1>0, RowsUntouched DEF LifeInv
<1>3. NoLockSurvivesItsHolder'
  BY <1>0 DEF LifeInv, NoLockSurvivesItsHolder, InPipeline, LockOf, DLock
<1>4. AgentsHandedOut'
  BY <1>0 DEF LifeInv, AgentsHandedOut, Reaped
<1> QED
  BY <1>1, <1>2, <1>3, <1>4 DEF LifeInv

ActorsInv == LifeInv /\ CheckTypes /\ ChecksOwned /\ CycleInv /\ ViewTypes

LEMMA ActorsStep ==
  ASSUME ActorsInv, [ActorsNext]_avars
  PROVE  ActorsInv' /\ unsure \subseteq unsure'
<1>0. /\ TypeOK /\ HTypeOK /\ TTypeOK /\ AgentsInv /\ ChecksOwned
      /\ CycleInv /\ LifeInv /\ cooling \in BOOLEAN
  BY DEF ActorsInv, LifeInv, LTypeOK, HTypeOK, TTypeOK, CheckTypes, ViewTypes,
         CycleInv, CycleTypes
<1>1. ASSUME UNCHANGED viewVars
      PROVE  ViewTypes'
  BY <1>1 DEF ActorsInv, ViewTypes, viewVars
<1>2. ASSUME UNCHANGED lifeVars,
             \/ UNCHANGED vars
             \/ \E t \in Threads, s \in Sessions : Ask(t, s)
             \/ Bystands /\ TypeOK' /\ AgentsInv'
      PROVE  LifeInv' /\ OwnLasts /\ unsure \subseteq unsure'
  <2>1. CASE Bystands /\ TypeOK' /\ AgentsInv'
    BY <1>0, <1>2, <2>1, LifeBeside, BystanderKeeps DEF Bystands
  <2>2. CASE UNCHANGED vars \/ \E t \in Threads, s \in Sessions : Ask(t, s)
    BY <1>0, <1>2, <2>2, LifeStep DEF LNext, lvars
  <2> QED
    BY <1>2, <2>1, <2>2
<1>3. CASE Reconnecting \/ CreatingOrDeleting
  <2>1. [LNext]_lvars /\ UNCHANGED checkVars /\ UNCHANGED cycleVars
        /\ UNCHANGED viewVars /\ Ticks
    BY <1>3 DEF Reconnecting, CreatingOrDeleting, LNext
  <2>2. LifeInv' /\ OwnLasts /\ unsure \subseteq unsure'
    BY <1>0, <2>1, LifeStep
  <2> QED
    BY <1>0, <1>1, <2>1, <2>2, ChecksBeside, CycleBeside DEF ActorsInv, Ticks
<1>4. CASE Checking
  <2>1. PICK c \in Checkers : CheckActs(c)
    BY <1>4 DEF Checking, CheckActs
  <2>2. Bystands /\ OwnLasts /\ HTypeOK' /\ AgentsInv' /\ ChecksOwned'
    BY <1>0, <2>1, CheckKeeps
  <2>3. UNCHANGED cycleVars /\ UNCHANGED viewVars /\ UNCHANGED lifeVars /\ Ticks
    BY <1>4 DEF Checking
  <2>4. LifeInv' /\ unsure \subseteq unsure'
    BY <1>2, <2>2, <2>3 DEF HTypeOK
  <2> QED
    BY <1>0, <1>1, <2>2, <2>3, <2>4, CycleBeside
    DEF ActorsInv, HTypeOK, CheckTypes, Ticks
<1>5. CASE Cycling
  <2>1. CycleChecks \/ CycleBooks \/ CycleWrites \/ CycleAsks
    BY <1>5, CycleActs DEF Cycling
  <2>2. UNCHANGED viewVars /\ UNCHANGED lifeVars
    BY <1>5 DEF Cycling
  <2> QED
    BY <1>0, <1>1, <1>2, <2>1, <2>2, CycleKeepsAll DEF ActorsInv
<1>6. CASE Viewing
  <2>1. /\ UNCHANGED checkVars /\ UNCHANGED cycleVars /\ UNCHANGED lifeVars
        /\ Ticks
    BY <1>6 DEF Viewing
  <2>2. ViewTypes' /\ LifeInv' /\ OwnLasts /\ unsure \subseteq unsure'
    <3>1. ASSUME NEW v \in Viewers, ViewerActs(v)
          PROVE  Bystands /\ TypeOK' /\ ViewTypes' /\ AgentsInv'
      BY <1>0, <3>1, ViewerKeeps
    <3>2. ASSUME NEW v \in Viewers, NEW s \in Sessions, OpenDetached(v, s)
          PROVE  /\ ViewTypes'
                 /\ \/ UNCHANGED vars
                    \/ \E t \in Threads, r \in Sessions : Ask(t, r)
      BY <1>0, <3>2, ViewerAsks
    <3>3. /\ ViewTypes'
          /\ \/ UNCHANGED vars
             \/ \E t \in Threads, s \in Sessions : Ask(t, s)
             \/ Bystands /\ TypeOK' /\ AgentsInv'
      BY <1>6, <3>1, <3>2 DEF Viewing, ViewerActs
    <3> QED
      BY <1>2, <2>1, <3>3
  <2> QED
    BY <1>0, <2>1, <2>2, ChecksBeside, CycleBeside DEF ActorsInv, Ticks
<1>7. CASE ActorsRestart
  <2>1. CServerRestart /\ TServerRestart /\ LServerRestart
    BY <1>7 DEF ActorsRestart
  <2>2. LifeInv' /\ unsure \subseteq unsure'
    BY <1>0, <2>1, LifeStep DEF LNext
  <2>3. CheckTypes' /\ ChecksOwned'
    BY <2>1, NoChecksLeft DEF CServerRestart, HServerRestart
  <2>4. CycleInv' /\ ViewTypes'
    BY <1>0, <2>1, CycleRestarts, NoViewsLeft DEF TServerRestart
  <2> QED
    BY <2>2, <2>3, <2>4 DEF ActorsInv
<1>8. CASE UNCHANGED avars
  <2>1. /\ UNCHANGED vars /\ UNCHANGED checkVars /\ UNCHANGED cycleVars
        /\ UNCHANGED <<old, window, cooling>>
        /\ UNCHANGED viewVars /\ UNCHANGED lifeVars
    BY <1>8 DEF avars, cvars, hvars, timeVars
  <2>2. LifeInv' /\ OwnLasts /\ unsure \subseteq unsure'
    BY <1>2, <2>1
  <2> QED
    BY <1>0, <1>1, <2>1, <2>2, ChecksBeside, CycleBeside DEF ActorsInv
<1> QED
  BY <1>3, <1>4, <1>5, <1>6, <1>7, <1>8 DEF ActorsNext

LEMMA ActorsStart == ActorsInit => ActorsInv
<1> SUFFICES ASSUME ActorsInit PROVE ActorsInv
  OBVIOUS
<1>1. /\ InitRest /\ created = {s \in Sessions : status[s] # Absent}
      /\ status \in [Sessions -> Statuses \cup {Absent}]
      /\ assigned \subseteq Sessions /\ setup = {} /\ kept = {}
      /\ dpc = [d \in Deleters |-> "free"]
      /\ djob = [d \in Deleters |-> NoDelete]
  BY DEF ActorsInit, Statuses
<1>2. LTypeOK
  BY <1>1, NoDeleteTyped, JobTypes, BoundsAssumption, SessionsAssumption
  DEF InitRest, LTypeOK, TypeOK, PCs, Steps, PtyStates, NoJob, FreshJob, Jobs,
      DPCs
<1>3. RowInv
  BY <1>1 DEF InitRest, RowInv, RowsHandedOut, RowGoesFirst, RowLocksOwned,
              OnePipelineWhileRowExists, InPipeline, Pipeline, Exists, Locking
<1>4. NoLockSurvivesItsHolder
  BY <1>1 DEF InitRest, NoLockSurvivesItsHolder
<1>5. AgentsInv /\ AgentsHandedOut
  <2>1. /\ \A p \in Ptys : pty[p] = "unused"
        /\ \A s \in Sessions : ptyId[s] = NoPty
        /\ \A t \in Threads : /\ job[t].snap = NoPty /\ job[t].found = NoPty
                              /\ pc[t] = "free" /\ ~job[t].heard
    BY <1>1 DEF InitRest, NoJob, FreshJob
  <2> QED
    BY <2>1 DEF AgentsInv, PtysOwned, OwnPty, Knows, OneAgentEach,
                NoCorpseBesideAgent, AgentsHandedOut
<1>6. CheckTypes /\ ChecksOwned
  BY NoCheckTyped
  DEF ActorsInit, NoChecks, CheckTypes, ChecksOwned, HPCs, OwnPty
<1>7. CycleInv
  BY CycleStart DEF ActorsInit
<1>8. ViewTypes
  BY NoViewTyped DEF ActorsInit, NoTerminals, ViewTypes, VPCs
<1> QED
  BY <1>2, <1>3, <1>4, <1>5, <1>6, <1>7, <1>8 DEF ActorsInv, LifeInv

LEMMA ActorsHold == ActorsSpec => []ActorsInv
BY ActorsStart, ActorsStep, PTL DEF ActorsSpec

LEMMA ActorsMean ==
  ASSUME ActorsInv
  PROVE  /\ ActorsTypeOK /\ RowPtyIsOwn /\ OnePipelineWhileRowExists
         /\ NoLockSurvivesItsHolder /\ OneAgentWhileRowExists
<1>1. LTypeOK /\ TypeOK /\ RowInv /\ NoLockSurvivesItsHolder /\ AgentsInv
  BY DEF ActorsInv, LifeInv, LTypeOK
<1>2. ActorsTypeOK
  BY <1>1 DEF ActorsInv, ActorsTypeOK, CTypeOK, TTypeOK, HTypeOK, CheckTypes,
              ViewTypes, CycleInv, CycleTypes
<1>3. RowPtyIsOwn
  BY <1>1 DEF TypeOK, AgentsInv, PtysOwned, OwnPty, RowPtyIsOwn
<1>4. OneAgentWhileRowExists
  BY <1>1 DEF TypeOK, AgentsInv, OneAgentEach, Certain, Exists,
              OneAgentWhileRowExists
<1> QED
  BY <1>1, <1>2, <1>3, <1>4 DEF RowInv

\* Every variable of the composed system keeps its type.
THEOREM ActorsTypesCorrect == ActorsSpec => []ActorsTypeOK
BY ActorsHold, ActorsMean, PTL

\* No row names another session's agent, whoever writes it and however old
\* what the writer read.
THEOREM ActorsRowsOwn == ActorsSpec => []RowPtyIsOwn
BY ActorsHold, ActorsMean, PTL

\* The reconnect lock excludes while the row exists, beside every other actor.
THEOREM ActorsExclude == ActorsSpec => []OnePipelineWhileRowExists
BY ActorsHold, ActorsMean, PTL

\* No lock outlives its holder, beside every other actor.
THEOREM ActorsReleaseLocks == ActorsSpec => []NoLockSurvivesItsHolder
BY ActorsHold, ActorsMean, PTL

\* One agent at most while the row exists, beside every other actor.
THEOREM ActorsKeepOneAgent == ActorsSpec => []OneAgentWhileRowExists
BY ActorsHold, ActorsMean, PTL

\* Checks, cycles and terminals rewrite the row under a pipeline, and it kills
\* no running agent of a session that has one.
THEOREM ActorsSpareAgents == ActorsSpec => AgentSurvivesTerminals
<1>1. ActorsInv /\ [ActorsNext]_avars =>
        [\A t \in Threads :
           /\ job[t].heard /\ job[t].target \notin unsure'
           /\ status[job[t].target] # Absent
           => KilledBy(t) = {}]_tvars
  <2> SUFFICES ASSUME ActorsInv, [ActorsNext]_avars, NEW t \in Threads,
                      job[t].heard, job[t].target \notin unsure',
                      status[job[t].target] # Absent
               PROVE  KilledBy(t) = {}
    OBVIOUS
  <2>1. AgentsInv /\ unsure \subseteq unsure'
    BY ActorsStep DEF ActorsInv, LifeInv
  <2> QED
    BY <2>1, HeardSpares
<1> QED
  BY <1>1, ActorsHold, PTL DEF ActorsSpec, AgentSurvivesTerminals

\* A check, of one session or of the cycle's list, concludes "dead or gone" of
\* a session that has a row only when no agent of it runs.
THEOREM ActorsSeeTheAgent ==
  ActorsSpec =>
    [][\A c \in Checkers :
         /\ hpc[c] = "query" /\ hpc'[c] = "dead"
         /\ hjob[c].target \notin unsure /\ status[hjob[c].target] # Absent
         => LiveOf(hjob[c].target) = {}]_hvars
<1>1. ASSUME ActorsInv, [ActorsNext]_avars, NEW c \in Checkers,
             hpc[c] = "query", hpc'[c] = "dead", hjob[c].target \notin unsure,
             status[hjob[c].target] # Absent
      PROVE  LiveOf(hjob[c].target) = {}
  <2>1. HTypeOK /\ AgentsInv /\ ChecksOwned /\ Certain(hjob[c].target)
    BY <1>1 DEF ActorsInv, LifeInv, LTypeOK, HTypeOK, CheckTypes, Certain,
                Exists
  <2>2. hpc' # hpc /\ hpc'[c] = "dead"
    BY <1>1
  <2>3. ~UNCHANGED checkVars /\ ~CServerRestart
    BY <2>2 DEF checkVars, CServerRestart, HServerRestart
  <2>4. Checking \/ Cycling
    BY <1>1, <2>3 DEF ActorsNext, Reconnecting, Viewing, CreatingOrDeleting,
       ActorsRestart, avars, cvars, hvars
  <2>5. \E e \in Checkers :
          CheckActs(e) \/ \E s \in Sessions : SubmitCheck(e, s)
    <3>1. CASE Checking
      BY <3>1 DEF Checking, CheckActs
    <3>2. CASE Cycling
      <4>1. CycleChecks \/ CycleBooks \/ CycleWrites \/ CycleAsks
        BY <3>2, CycleActs DEF Cycling
      <4>2. CycleChecks
        BY <2>3, <4>1
        DEF CycleBooks, CycleWrites, CycleAsks, ListWorkers, Classified,
            ProbeTimesOut, PeersDone, Regathers, CycleEnds, CooldownExpires,
            ClassifyRemote, PassOver, ConnectingAges, WindowExpires,
            ClassifyConnecting, FailPeer, AutoReconnect, CycleKeeps
      <4> QED
        BY <4>2 DEF CycleChecks, CheckProceeds, SubmitProbe, SubmitPeer,
                    CheckActs
    <3> QED
      BY <2>4, <3>1, <3>2
  <2> QED
    BY <1>1, <2>1, <2>5, ChecksSee
<1>2. ActorsInv /\ [ActorsNext]_avars =>
        [\A c \in Checkers :
           /\ hpc[c] = "query" /\ hpc'[c] = "dead"
           /\ hjob[c].target \notin unsure /\ status[hjob[c].target] # Absent
           => LiveOf(hjob[c].target) = {}]_hvars
  BY <1>1
<1> QED
  BY <1>2, ActorsHold, PTL DEF ActorsSpec

=============================================================================
