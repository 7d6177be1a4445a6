-------------------------- MODULE TransportProofs ---------------------------
(***************************************************************************)
(* What carries commands and callbacks between the orchestrator and remote *)
(* hosts.  The tunnel manager, for any number of sessions of a host,       *)
(* threads and processes, alone and under the tunnel monitor with its      *)
(* reconnects and checks: the cleanup after a check never unregisters the  *)
(* tunnel of a concurrent restart.  The client of the daemon, for any      *)
(* number of threads and connections: a command is run at most twice.  The *)
(* pool of clients of a host, for any number of daemons, clients and       *)
(* troubles: one daemon at most listens.                                   *)
(***************************************************************************)
EXTENDS TunnelMonitor, MCRemote, TLAPS

-----------------------------------------------------------------------------
(* Reverse tunnels and their monitor.                                      *)

\* The process a cleanup is about is dead, and as nothing takes its PID
\* while the check refers to it, it stays so.
CleanupOfDead == \A t \in Threads : tpc[t] = "cleanup" => ~Alive(tjob[t].old)

TunnelInv == UTypeOK /\ CleanupOfDead

-----------------------------------------------------------------------------
(* Helpers.                                                                *)

LEMMA JobHasType ==
  ASSUME NEW s \in Sessions, NEW kind \in Kinds
  PROVE  /\ Job(s, kind) \in TJobs
         /\ Job(s, kind).s = s
BY DEF Job, TJobs

LEMMA NoJobHasType == NoJob \in TJobs /\ NoJob.s \in Sessions
<1>1. (CHOOSE s \in Sessions : TRUE) \in Sessions
  BY TunnelBounds
<1> QED
  BY <1>1, JobHasType DEF NoJob, Kinds

LEMMA KillKeepsTypes ==
  ASSUME UTypeOK, NEW ps, Kill(ps)
  PROVE  /\ proc' \in [Procs -> ProcStates]
         /\ holder' \in Procs \cup {NoProc}
         /\ \A p : p \in Procs \cup {NoProc} /\ ~Alive(p) => ~Alive(p)'
BY DEF UTypeOK, Kill, Alive, ProcStates

LEMMA FreshIsDead ==
  ASSUME FreshProcs # {}
  PROVE  (CHOOSE q \in FreshProcs : TRUE) \in FreshProcs
OBVIOUS

-----------------------------------------------------------------------------
(* Every step keeps the types, and the dead processes of cleanups dead.    *)

LEMMA TunnelInit == UInit => TunnelInv
BY TunnelBounds, NoJobHasType
   DEF UInit, TunnelInv, UTypeOK, CleanupOfDead, ProcStates, TPCs

\* The calls that begin, of checks too, and those that end.
LEMMA CallsKeepInv ==
  ASSUME TunnelInv, NEW t \in Threads, NEW s \in Sessions,
         \/ \E kind \in {"restart", "start", "stop"} : Call(t, s, kind)
         \/ SeeDead(t, s) \/ Recover(t, s)
         \/ Return(t) \/ RestartAfterCheck(t)
  PROVE  TunnelInv'
<1> USE DEF TunnelInv, UTypeOK, CleanupOfDead, Goto, Set, TPCs, managerVars,
            procVars, threadVars, envVars, Alive
<1>1. ASSUME NEW kind \in {"restart", "start", "stop"}, Call(t, s, kind)
      PROVE  TunnelInv'
  <2>1. Job(s, kind) \in TJobs
    BY JobHasType DEF Kinds
  <2> QED
    BY <1>1, <2>1 DEF Call
<1>2. CASE SeeDead(t, s)
  <2>1. [Job(s, "check") EXCEPT !.old = entry[s]] \in TJobs
    BY DEF Job, TJobs, Kinds
  <2>2. [Job(s, "check") EXCEPT !.old = entry[s]].old = entry[s]
    BY DEF Job
  <2> QED
    BY <1>2, <2>1, <2>2 DEF SeeDead
<1>3. CASE Recover(t, s)
  <2>1. Job(s, "recover") \in TJobs
    BY JobHasType DEF Kinds
  <2>2. [Job(s, "recover") EXCEPT !.mine = tunnelPid[s]] \in TJobs
    BY DEF Job, TJobs, Kinds
  <2> QED
    BY <1>3, <2>1, <2>2 DEF Recover
<1>4. CASE Return(t)
  BY <1>4, NoJobHasType DEF Return
<1>5. CASE RestartAfterCheck(t)
  <2>1. tjob[t].s \in Sessions
    BY DEF TJobs
  <2>2. Job(tjob[t].s, "restart") \in TJobs
    BY <2>1, JobHasType DEF Kinds
  <2> QED
    BY <1>5, <2>2 DEF RestartAfterCheck
<1> QED
  BY <1>1, <1>2, <1>3, <1>4, <1>5

\* A thread at work in the manager.
LEMMA ManagerKeepsInv ==
  ASSUME TunnelInv, NEW t \in Threads, ManagerStep(t) \/ ClearFailures(t)
  PROVE  TunnelInv'
<1> USE DEF TunnelInv, UTypeOK, CleanupOfDead, Goto, Set, TPCs, managerVars,
            procVars, threadVars, envVars
<1>j. tjob[t] \in TJobs /\ tjob[t].s \in Sessions
  BY DEF TJobs
<1>f. \A k \in 0..MaxFailures : (IF k < MaxFailures THEN k + 1 ELSE k)
                                  \in 0..MaxFailures
  BY TunnelBounds
<1>1. CASE PopEntry(t)
  <2>1. [tjob[t] EXCEPT !.old = entry[tjob[t].s]] \in TJobs
    BY <1>j DEF TJobs
  <2> QED
    BY <1>1, <1>j, <2>1 DEF PopEntry, Alive
<1>2. CASE KillPopped(t)
  <2>1. [tjob[t] EXCEPT !.old = NoProc,
           !.kind = IF @ = "restart" THEN "start" ELSE @] \in TJobs
    BY <1>j DEF TJobs, Kinds
  <2>2. tpc'[t] \in {"pop", "clear", "spawn", "orphans"}
    BY <1>2 DEF KillPopped
  <2>3. \A u \in Threads : tjob[u].old \in Procs \cup {NoProc}
    BY DEF TJobs
  <2> QED
    BY <1>2, <2>1, <2>2, <2>3, KillKeepsTypes DEF KillPopped
<1>3. CASE KillOrphans(t)
  <2>1. [tjob[t] EXCEPT !.kind = "start"] \in TJobs
    BY <1>j DEF TJobs, Kinds
  <2>3. \A u \in Threads : tjob[u].old \in Procs \cup {NoProc}
    BY DEF TJobs
  <2> QED
    BY <1>3, <2>1, <2>3, KillKeepsTypes DEF KillOrphans
<1>4. CASE Spawn(t)
  <2> DEFINE p == CHOOSE q \in FreshProcs : TRUE
  <2>1. p \in Procs /\ \A u \in Threads : tjob[u].old # p
    BY <1>4, FreshIsDead DEF Spawn, FreshProcs
  <2>2. [tjob[t] EXCEPT !.mine = p, !.refused = FALSE] \in TJobs
    BY <1>j, <2>1 DEF TJobs
  <2>3. /\ proc' = [proc EXCEPT ![p] = "connecting"]
        /\ of' = [of EXCEPT ![p] = tjob[t].s]
        /\ tjob' = [tjob EXCEPT ![t] =
                      [tjob[t] EXCEPT !.mine = p, !.refused = FALSE]]
        /\ tpc' = [tpc EXCEPT ![t] = "inspect"]
        /\ UNCHANGED <<managerVars, tunnelPid, recovering, holder, envVars>>
    BY <1>4 DEF Spawn
  <2> HIDE DEF p
  <2>4. UTypeOK'
    BY <1>j, <2>1, <2>2, <2>3 DEF ProcStates
  <2>5. CleanupOfDead'
    BY <2>1, <2>3 DEF Alive
  <2> QED
    BY <2>4, <2>5
<1>5. CASE InspectDead(t)
  <2>1. [Job(tjob[t].s, "start") EXCEPT !.retry = TRUE] \in TJobs
    BY <1>j DEF Job, TJobs, Kinds
  <2>2. Job(tjob[t].s, tjob[t].kind) \in TJobs
    BY <1>j DEF Job, TJobs
  <2>3. failures' \in [Sessions -> 0..MaxFailures]
    BY <1>5, <1>j, <1>f DEF InspectDead, Failed
  <2>4. tjob' \in [Threads -> TJobs]
    <3>1. \E j \in TJobs : tjob' = [tjob EXCEPT ![t] = j]
      BY <1>5, <2>1, <2>2, Zenon DEF InspectDead, Failed
    <3> QED
      BY <3>1
  <2>9. recovering' \subseteq Sessions
    BY <1>5 DEF InspectDead, Failed
  <2>5. \A u \in Threads : tpc'[u] = "cleanup" => tpc[u] = "cleanup" /\ u # t
    BY <1>5 DEF InspectDead, Failed
  <2>6. \A u \in Threads : u # t => tjob'[u] = tjob[u]
    BY <1>5 DEF InspectDead, Failed
  <2>7. tpc' \in [Threads -> TPCs]
    BY <1>5 DEF InspectDead, Failed
  <2>8. UNCHANGED <<entry, tunnelPid, procVars, envVars>>
    BY <1>5 DEF InspectDead
  <2> QED
    BY <2>3, <2>4, <2>5, <2>6, <2>7, <2>8, <2>9 DEF Alive
<1>6. CASE InspectRefused(t)
  <2>2. Job(tjob[t].s, tjob[t].kind) \in TJobs
    BY <1>j DEF Job, TJobs
  <2>3. \A u \in Threads : tjob[u].old \in Procs \cup {NoProc}
    BY DEF TJobs
  <2> QED
    BY <1>6, <1>j, <1>f, <2>2, <2>3, KillKeepsTypes
       DEF InspectRefused, Failed
<1>7. CASE KillPortHolder(t)
  <2>1. [Job(tjob[t].s, "start") EXCEPT !.retry = TRUE] \in TJobs
    BY <1>j DEF Job, TJobs, Kinds
  <2>3. \A u \in Threads : tjob[u].old \in Procs \cup {NoProc}
    BY DEF TJobs
  <2> QED
    BY <1>7, <2>1, <2>3 DEF KillPortHolder, ProcStates, Alive
<1>8. CASE Register(t)
  <2>1. tjob[t].mine \in Procs \cup {NoProc}
    BY <1>j DEF TJobs
  <2> QED
    BY <1>8, <1>j, <2>1, TunnelBounds DEF Register, Alive
<1>9. CASE SavePid(t)
  <2>1. tjob[t].mine \in Procs \cup {NoProc}
    BY <1>j DEF TJobs
  <2>2. Job(tjob[t].s, tjob[t].kind) \in TJobs
    BY <1>j DEF Job, TJobs
  <2> QED
    BY <1>9, <1>j, <2>1, <2>2 DEF SavePid, Alive
<1>10. CASE CleanupDead(t)
  BY <1>10, <1>j DEF CleanupDead, Alive
<1>11. CASE ClearFailures(t)
  BY <1>11, <1>j, TunnelBounds DEF ClearFailures, Alive
<1> QED
  BY <1>1, <1>2, <1>3, <1>4, <1>5, <1>6, <1>7, <1>8, <1>9, <1>10, <1>11
     DEF ManagerStep

\* Processes, the network, the server.
LEMMA EnvironmentKeepsInv ==
  ASSUME TunnelInv, ProcStep \/ TunnelServerRestart \/ UNCHANGED uvars
  PROVE  TunnelInv'
<1> USE DEF TunnelInv, UTypeOK, CleanupOfDead, TPCs, managerVars,
            procVars, threadVars, envVars
<1>o. \A u \in Threads : tjob[u].old \in Procs \cup {NoProc}
  BY DEF TJobs
<1>f. Fault => faults' \in 0..MaxFaults
  BY TunnelBounds DEF Fault
<1>1. ASSUME NEW p \in Procs, Connects(p)
      PROVE  TunnelInv'
  <2>1. tjob' \in [Threads -> TJobs]
        /\ \A t \in Threads : tjob'[t].old = tjob[t].old
    <3> DEFINE Told(t) ==
          tjob[t].refused \/ (tpc[t] = "inspect" /\ tjob[t].s = of[p])
    <3>1. \A t \in Threads : tjob[t].refused \in BOOLEAN
      BY DEF TJobs
    <3>2. \A t \in Threads : Told(t) \in BOOLEAN
      BY <3>1
    <3>3. \/ tjob' = tjob
          \/ tjob' = [t \in Threads |-> [tjob[t] EXCEPT !.refused = Told(t)]]
      BY <1>1 DEF Connects
    <3> HIDE DEF Told
    <3>4. \A t \in Threads :
            /\ [tjob[t] EXCEPT !.refused = Told(t)] \in TJobs
            /\ [tjob[t] EXCEPT !.refused = Told(t)].old = tjob[t].old
      BY <3>2 DEF TJobs
    <3>5. CASE tjob' = tjob
      BY <3>5
    <3>6. CASE tjob' = [t \in Threads |->
                         [tjob[t] EXCEPT !.refused = Told(t)]]
      BY <3>4, <3>6
    <3> QED
      BY <3>3, <3>5, <3>6
  <2>2. proc' \in [Procs -> ProcStates] /\ holder' \in Procs \cup {NoProc}
    BY <1>1 DEF Connects, ProcStates
  <2>3. \A q \in Procs \cup {NoProc} : ~Alive(q) => ~Alive(q)'
    BY <1>1 DEF Connects, Alive
  <2> QED
    BY <1>1, <1>o, <2>1, <2>2, <2>3 DEF Connects
<1>2. ASSUME NEW p \in Procs, LosesHost(p)
      PROVE  TunnelInv'
  BY <1>2, <1>o DEF LosesHost, Alive, ProcStates
<1>3. ASSUME NEW p \in Procs, Dies(p)
      PROVE  TunnelInv'
  BY <1>3, <1>o, <1>f, KillKeepsTypes DEF Dies
<1>4. CASE ZombieExpires
  BY <1>4 DEF ZombieExpires, Alive
<1>5. CASE NetworkDown \/ NetworkUp
  BY <1>5, <1>f DEF NetworkDown, NetworkUp, Alive
<1>6. CASE TunnelServerRestart
  BY <1>6, <1>f, TunnelBounds, NoJobHasType DEF TunnelServerRestart, Alive
<1>7. CASE UNCHANGED uvars
  BY <1>7 DEF uvars, Alive
<1> QED
  BY <1>1, <1>2, <1>3, <1>4, <1>5, <1>6, <1>7 DEF ProcStep

LEMMA TunnelStep ==
  ASSUME TunnelInv, [UNext]_uvars
  PROVE  TunnelInv'
<1>1. ASSUME NEW t \in Threads, NEW s \in Sessions,
             \/ Call(t, s, "restart") \/ Call(t, s, "start")
             \/ Call(t, s, "stop") \/ SeeDead(t, s) \/ Recover(t, s)
      PROVE  TunnelInv'
  BY <1>1, CallsKeepInv
<1>2. ASSUME NEW t \in Threads, Return(t) \/ RestartAfterCheck(t)
      PROVE  TunnelInv'
  BY <1>2, CallsKeepInv, TunnelBounds
<1>3. ASSUME NEW t \in Threads, ManagerStep(t) \/ ClearFailures(t)
      PROVE  TunnelInv'
  BY <1>3, ManagerKeepsInv
<1>4. CASE ProcStep \/ TunnelServerRestart \/ UNCHANGED uvars
  BY <1>4, EnvironmentKeepsInv
<1> QED
  BY <1>1, <1>2, <1>3, <1>4 DEF UNext

-----------------------------------------------------------------------------
\* The registry, the processes, the callers have their types in every state.
THEOREM TunnelTypesCorrect == USpec => []UTypeOK
<1>1. TunnelInv => UTypeOK
  BY DEF TunnelInv
<1> QED
  BY <1>1, TunnelInit, TunnelStep, PTL DEF USpec

\* Only a cleanup goes from "cleanup" to "none", and it removes the entry of
\* a dead process or nothing.
LEMMA OnlyCleanup ==
  ASSUME TunnelInv, [UNext]_uvars, NEW t \in Threads,
         tpc[t] = "cleanup", tpc'[t] = "none"
  PROVE  CleanupDead(t)
<1> USE DEF TunnelInv, UTypeOK, Goto, managerVars, procVars, threadVars,
            envVars
<1>1. ASSUME NEW u \in Threads, NEW s \in Sessions,
             \/ Call(u, s, "restart") \/ Call(u, s, "start")
             \/ Call(u, s, "stop") \/ SeeDead(u, s) \/ Recover(u, s)
      PROVE  FALSE
  BY <1>1 DEF Call, SeeDead, Recover
<1>2. ASSUME NEW u \in Threads,
             \/ ManagerStep(u) \/ ClearFailures(u) \/ Return(u)
             \/ RestartAfterCheck(u)
      PROVE  CleanupDead(t)
  <2>1. CASE u # t
    <3>1. tpc'[t] = tpc[t]
      BY <1>2, <2>1 DEF ManagerStep, PopEntry, KillPopped, KillOrphans, Spawn,
         InspectDead, InspectRefused, Failed, KillPortHolder, Register,
         SavePid, CleanupDead, ClearFailures, Return, RestartAfterCheck
    <3> QED
      BY <3>1
  <2>2. CASE u = t
    BY <1>2, <2>2 DEF ManagerStep, PopEntry, KillPopped, KillOrphans, Spawn,
       InspectDead, InspectRefused, KillPortHolder, Register, SavePid,
       ClearFailures, Return, RestartAfterCheck
  <2> QED
    BY <2>1, <2>2
<1>3. CASE ProcStep \/ UNCHANGED uvars
  <2>1. tpc' = tpc
    BY <1>3 DEF ProcStep, Connects, LosesHost, Dies, ZombieExpires,
       NetworkDown, NetworkUp, uvars
  <2> QED
    BY <2>1
<1>4. CASE TunnelServerRestart
  BY <1>4 DEF TunnelServerRestart
<1> QED
  BY <1>1, <1>2, <1>3, <1>4 DEF UNext

Spares ==
  \A t \in Threads :
    tpc[t] = "cleanup" /\ tpc'[t] = "none"
    => \A s \in Sessions : Alive(entry[s]) => entry'[s] = entry[s]

LEMMA StepSpares ==
  ASSUME TunnelInv, [UNext]_uvars
  PROVE  Spares
<1> SUFFICES ASSUME NEW t \in Threads, tpc[t] = "cleanup", tpc'[t] = "none",
                    NEW s \in Sessions, Alive(entry[s])
             PROVE  entry'[s] = entry[s]
  BY DEF Spares
<1>1. CleanupDead(t)
  BY OnlyCleanup
<1>2. ~Alive(tjob[t].old)
  BY DEF TunnelInv, CleanupOfDead
<1> QED
  BY <1>1, <1>2 DEF CleanupDead, TunnelInv, UTypeOK

\* A check that found a dead process never unregisters its successor.
THEOREM CleanupIsSafe == USpec => CleanupSparesTheNew
<1>1. TunnelInv /\ [UNext]_uvars => [Spares]_uvars
  BY StepSpares
<1> QED
  BY <1>1, TunnelInit, TunnelStep, PTL DEF USpec, CleanupSparesTheNew, Spares

-----------------------------------------------------------------------------
(***************************************************************************)
(* The monitor.                                                            *)
(***************************************************************************)

MonitorTypes ==
  /\ status \in [Sessions -> {"waiting", "connecting", "disconnected"}]
  /\ checks \in 0..MaxChecks
  /\ mpc \in {"sleep", "check", "restart"}
  /\ cycle \in 0..(ProbeEvery - 1)
  /\ mtodo \subseteq Sessions /\ mprobe \subseteq Sessions
  /\ mbad \subseteq Sessions /\ mlost \subseteq Sessions

MInv == TunnelInv /\ MonitorTypes

\* The monitor's own steps in the manager: it forgets dead entries when it
\* probes, and takes itself from one call to the next.
MonitorMoves ==
  \/ \E s \in Sessions : Probe(s) \/ RestartUnhealthy(s)
  \/ MonitorGivesUp

\* All other steps are steps of the manager, as far as it is concerned.
LEMMA MonitorUsesManager ==
  ASSUME [MNext]_mvars
  PROVE  [UNext]_uvars \/ MonitorMoves
<1>1. CASE MonitorStep
  BY <1>1, MonitorAssumption
  DEF MonitorStep, MonitorMoves, StartCycle, CheckAlive, CheckDead,
      MonitorRestarts, MonitorReturns, MarkLostTunnels, UNext
<1>2. CASE KeepMonitor(Recovers) \/ KeepMonitor(RecoveryReturns)
  BY <1>2, MonitorAssumption DEF KeepMonitor, Recovers, RecoveryReturns, UNext
<1>3. ASSUME NEW t \in Threads, KeepMonitor(ManagerStep(t))
      PROVE  UNext
  BY <1>3 DEF KeepMonitor, UNext
<1>4. ASSUME NEW t \in Reconnecters, NEW s \in Sessions,
             ReconnectStarts(t, s) \/ HealthChecks(t, s)
      PROVE  UNext
  BY <1>4 DEF Reconnecters, ReconnectStarts, HealthChecks, UNext
<1>5. ASSUME NEW t \in Reconnecters, HealthRestarts(t) \/ CallerReturns(t)
      PROVE  UNext
  BY <1>5 DEF Reconnecters, HealthRestarts, CallerReturns, UNext
<1>6. CASE KeepMonitor(ProcStep) \/ MServerRestart \/ UNCHANGED mvars
  BY <1>6 DEF KeepMonitor, MServerRestart, UNext, mvars
<1> QED
  BY <1>1, <1>2, <1>3, <1>4, <1>5, <1>6 DEF MNext

LEMMA MonitorMovesKeepInv ==
  ASSUME TunnelInv, MonitorMoves
  PROVE  TunnelInv' /\ Spares
<1> USE MonitorAssumption DEF TunnelInv, UTypeOK, CleanupOfDead, Goto, Set,
        TPCs, managerVars, procVars, threadVars, envVars, Alive
<1>1. ASSUME NEW s \in Sessions, Probe(s)
      PROVE  TunnelInv' /\ Spares
  BY <1>1 DEF Probe, Spares
<1>2. ASSUME NEW s \in Sessions, RestartUnhealthy(s)
      PROVE  TunnelInv' /\ Spares
  <2>1. Job(s, "check") \in TJobs
    BY JobHasType DEF Kinds
  <2> QED
    BY <1>2, <2>1 DEF RestartUnhealthy, Spares
<1>3. CASE MonitorGivesUp
  BY <1>3, NoJobHasType DEF MonitorGivesUp, Spares
<1> QED
  BY <1>1, <1>2, <1>3 DEF MonitorMoves

LEMMA MonitorTyped ==
  ASSUME MInv, [MNext]_mvars
  PROVE  MonitorTypes'
<1>0. /\ \A t \in Threads : tjob[t].s \in Sessions
      /\ Monitor \in Threads
  BY MonitorAssumption DEF MInv, TunnelInv, UTypeOK, TJobs
<1>c. (cycle + 1) % ProbeEvery \in 0..(ProbeEvery - 1)
  BY MonitorAssumption DEF MInv, MonitorTypes
<1> USE <1>0 DEF MInv, MonitorTypes, monitorVars, rowVars
<1>1. CASE MonitorStep
  BY <1>1, <1>c
  DEF MonitorStep, StartCycle, CheckAlive, CheckDead, Probe, RestartUnhealthy,
      MonitorGivesUp, MonitorRestarts, MonitorReturns, MarkLostTunnels
<1>2. ASSUME UNCHANGED <<rowVars, monitorVars>>
      PROVE  MonitorTypes'
  BY <1>2
<1>3. ASSUME NEW t \in Reconnecters, NEW s \in Sessions,
             ReconnectStarts(t, s) \/ HealthChecks(t, s)
      PROVE  MonitorTypes'
  BY <1>3, MonitorAssumption DEF ReconnectStarts, HealthChecks
<1>4. ASSUME NEW t \in Reconnecters, HealthRestarts(t) \/ CallerReturns(t)
      PROVE  MonitorTypes'
  BY <1>4 DEF HealthRestarts, CallerReturns
<1>5. CASE MServerRestart
  BY <1>5, MonitorAssumption DEF MServerRestart
<1> QED
  BY <1>1, <1>2, <1>3, <1>4, <1>5 DEF MNext, KeepMonitor, mvars

LEMMA MonitorKeepsInv ==
  ASSUME MInv, [MNext]_mvars
  PROVE  MInv' /\ Spares
BY MonitorUsesManager, MonitorMovesKeepInv, MonitorTyped, TunnelStep,
   StepSpares
DEF MInv

LEMMA MInvHolds == MSpec => []MInv
<1>1. MInit => MInv
  BY TunnelInit, MonitorAssumption DEF MInit, MInv, MonitorTypes
<1> QED
  BY <1>1, MonitorKeepsInv, PTL DEF MSpec

\* Rows, cycle and the lists of the monitor keep their types beside
\* reconnects, health checks, outages and restarts of the server.
THEOREM MonitorTypesCorrect == MSpec => []MTypeOK
<1>1. MInv => MTypeOK
  BY DEF MInv, MonitorTypes, MTypeOK, TunnelInv
<1> QED
  BY <1>1, MInvHolds, PTL

\* The monitor's probes forget dead entries too, and no cleanup beside them
\* unregisters a tunnel that lives.
THEOREM MonitoredCleanupIsSafe == MSpec => CleanupSparesTheNew
<1>1. MInv /\ [MNext]_mvars => [Spares]_uvars
  BY MonitorKeepsInv
<1> QED
  BY <1>1, MInvHolds, PTL DEF MSpec, CleanupSparesTheNew, Spares

-----------------------------------------------------------------------------
(* The client of a host's daemon.                                          *)

\* Who connects or waits for an answer has a connection.
UsesSocket(c) == pc[c] \in {"install", "pong", "recv"}
CallersSound == \A c \in Callers : UsesSocket(c) => mine[c] \in Socks

\* Messages on the wire are of calls that were started.
CallsStarted ==
  \A k \in Socks : \A i \in DOMAIN requests[k] :
    requests[k][i].call <= calls[requests[k][i].by]

\* The places at which a connection holds the current command of a caller.
Pending(c, k, i) ==
  /\ k \in Socks /\ i \in DOMAIN requests[k]
  /\ requests[k][i] = Command(c) /\ requests[k][i].call # 0

\* How often the current command was sent at most: once more than retried,
\* unless the attempt has not sent it yet.
Budget(c) ==
  IF \/ pc[c] \in {"ensure", "lock", "send"}
     \/ op[c] = "execute" /\ pc[c] \in {"install", "pong"}
  THEN attempt[c] ELSE attempt[c] + 1

\* At most n copies of the command are still to be read, n = 0, 1 or 2.
NonePending(c) == \A k, i : ~Pending(c, k, i)
OnePending(c) ==
  \A k, l, i, j : Pending(c, k, i) /\ Pending(c, l, j) => k = l /\ i = j
TwoPending(c) ==
  \A k, l, m, h, i, j :
    Pending(c, k, h) /\ Pending(c, l, i) /\ Pending(c, m, j) =>
      \/ k = l /\ h = i
      \/ k = m /\ h = j
      \/ l = m /\ i = j
AtMost(n, c) ==
  /\ n = 0 => NonePending(c)
  /\ n = 1 => OnePending(c)
  /\ n = 2 => TwoPending(c)

\* What was executed and what is pending was sent.
Within(c) == \E n \in 0..2 : executed[c] + n = Budget(c) /\ AtMost(n, c)
ExecutedWithinBudget == \A c \in Callers : Within(c)

ClientInv == RTypeOK /\ CallersSound /\ CallsStarted /\ ExecutedWithinBudget

LEMMA FewerPending ==
  ASSUME NEW c, NEW n \in 0..2, NEW m \in 0..2, n <= m, AtMost(n, c)
  PROVE  AtMost(m, c)
<1>1. NonePending(c) => OnePending(c)
  BY DEF NonePending, OnePending
<1>2. OnePending(c) => TwoPending(c)
  BY DEF OnePending, TwoPending
<1> QED
  BY <1>1, <1>2 DEF AtMost

LEMMA ClientStart == RInit => ClientInv
<1> SUFFICES ASSUME RInit PROVE ClientInv
  OBVIOUS
<1>1. RTypeOK
  BY CallersAssumption, ClientBounds
     DEF RInit, RTypeOK, Socks, RPCs, NoMessage
<1>2. \A k \in Socks : DOMAIN requests[k] = {}
  BY DEF RInit
<1>3. CallersSound /\ CallsStarted
  BY <1>2 DEF RInit, CallersSound, UsesSocket, CallsStarted
<1>4. ExecutedWithinBudget
  <2> SUFFICES ASSUME NEW c \in Callers PROVE Within(c)
    BY DEF ExecutedWithinBudget
  <2>1. Budget(c) = 1 /\ executed[c] = 0
    BY DEF RInit, Budget
  <2>2. OnePending(c)
    BY <1>2 DEF OnePending, Pending
  <2> QED
    BY <2>1, <2>2 DEF AtMost, Within
<1> QED
  BY <1>1, <1>3, <1>4 DEF ClientInv

-----------------------------------------------------------------------------
(* Steps that leave the wire's requests alone.                             *)

LEMMA BudgetType ==
  ASSUME RTypeOK, NEW c \in Callers
  PROVE  Budget(c) \in {attempt[c], attempt[c] + 1} /\ attempt[c] \in 0..1
         /\ Budget(c) \in 0..2
BY DEF RTypeOK, Budget

LEMMA StepWithoutSending ==
  ASSUME ClientInv, RTypeOK', CallersSound', UNCHANGED requests,
         UNCHANGED <<calls, executed>>,
         \A c \in Callers : Budget(c) <= Budget(c)'
  PROVE  ClientInv'
<1>1. CallsStarted'
  BY DEF ClientInv, CallsStarted
<1>2. ASSUME NEW c \in Callers PROVE Within(c)'
  <2>1. PICK n \in 0..2 : executed[c] + n = Budget(c) /\ AtMost(n, c)
    BY DEF ClientInv, ExecutedWithinBudget, Within
  <2>2. Budget(c) \in 0..2 /\ executed[c] \in Nat
    BY BudgetType DEF ClientInv, RTypeOK
  <2>3. Budget(c)' \in 0..2
    <3>1. attempt'[c] \in 0..1
      BY DEF RTypeOK
    <3> QED
      BY <3>1 DEF Budget
  <2>4. PICK m \in 0..2 : m = Budget(c)' - executed[c]
    BY <2>1, <2>2, <2>3
  <2>5. n <= m
    BY <2>1, <2>2, <2>3, <2>4
  <2>6. AtMost(m, c)
    BY <2>1, <2>5, FewerPending
  <2>7. \A k, i : Pending(c, k, i)' <=> Pending(c, k, i)
    BY DEF Pending, Command
  <2>8. AtMost(m, c)'
    BY <2>6, <2>7 DEF AtMost, NonePending, OnePending, TwoPending
  <2> QED
    BY <2>2, <2>3, <2>4, <2>8 DEF Within
<1> QED
  BY <1>1, <1>2 DEF ClientInv, ExecutedWithinBudget

LEMMA LeavingKeepsTypes ==
  ASSUME RTypeOK, NEW c \in Callers, Leave(c)
  PROVE  /\ pc' \in [Callers -> RPCs] /\ mine' \in [Callers -> 0..MaxSocks]
         /\ lock' \in Callers \cup {NoCaller}
         /\ lifecycle' \in Callers \cup {NoCaller}
         /\ pc'[c] = "idle"
         /\ \A x \in Callers \ {c} : pc'[x] = pc[x] /\ mine'[x] = mine[x]
BY ClientBounds DEF Leave, CallGoto, RTypeOK, RPCs

LEMMA ClosingKeepsTypes ==
  ASSUME RTypeOK, NEW ks \in SUBSET Socks, Closed(ks)
  PROVE  broken' \subseteq Socks /\ replies' \in [Socks -> Seq(Messages)]
<1>1. <<>> \in Seq(Messages)
  OBVIOUS
<1> QED
  BY <1>1 DEF Closed, RTypeOK

\* A caller goes on to a step of its own, without sending.
LEMMA CallerGoesOn ==
  ASSUME ClientInv, RTypeOK', NEW c \in Callers, UNCHANGED requests,
         UNCHANGED <<calls, executed>>,
         \A x \in Callers \ {c} :
           /\ pc'[x] = pc[x] /\ mine'[x] = mine[x] /\ op'[x] = op[x]
           /\ attempt'[x] = attempt[x],
         Budget(c) <= Budget(c)',
         pc'[c] \in {"install", "pong", "recv"} => mine'[c] \in Socks
  PROVE  ClientInv'
<1>1. CallersSound'
  BY DEF ClientInv, CallersSound, UsesSocket
<1>2. ASSUME NEW x \in Callers \ {c} PROVE Budget(x) <= Budget(x)'
  <2>1. Budget(x)' = Budget(x) /\ Budget(x) \in 0..2
    BY <1>2, BudgetType DEF Budget, ClientInv
  <2> QED
    BY <2>1
<1> QED
  BY <1>1, <1>2, StepWithoutSending

\* A caller that leaves has nothing more to send than it had.
LEMMA CallerLeaves ==
  ASSUME ClientInv, NEW c \in Callers, Leave(c),
         sock' \in 0..MaxSocks, buffer' \in Seq(Messages),
         broken' \subseteq Socks, replies' \in [Socks -> Seq(Messages)],
         result' \in [Callers -> Messages \cup {NoMessage}],
         UNCHANGED <<tunnel, opened, breaks, requests, op, attempt, calls,
                     executed>>
  PROVE  ClientInv'
<1>t. RTypeOK
  BY DEF ClientInv
<1>1. RTypeOK'
  BY <1>t, LeavingKeepsTypes DEF RTypeOK
<1>2. /\ pc'[c] = "idle"
      /\ \A x \in Callers \ {c} : pc'[x] = pc[x] /\ mine'[x] = mine[x]
  BY <1>t, LeavingKeepsTypes
<1>3. Budget(c) <= Budget(c)'
  <2>1. Budget(c)' = attempt[c] + 1
    BY <1>2 DEF Budget
  <2> QED
    BY <2>1, <1>t, BudgetType
<1> QED
  BY <1>1, <1>2, <1>3, CallerGoesOn

LEMMA ConnectingKeepsInv ==
  ASSUME ClientInv, NEW c \in Callers,
         \/ SeeSocket(c) \/ Connect(c) \/ ConnectFails(c)
         \/ PongArrives(c) \/ PongMissing(c) \/ SocketVanished(c)
  PROVE  ClientInv'
<1>t. RTypeOK
  BY DEF ClientInv
<1>0. RTypeOK /\ mine[c] \in 0..MaxSocks /\ Budget(c) \in 0..2
      /\ <<>> \in Seq(Messages)
      /\ (pc[c] \in {"install", "pong", "recv"} => mine[c] \in Socks)
  <2>1. mine[c] \in 0..MaxSocks /\ <<>> \in Seq(Messages)
    BY <1>t DEF RTypeOK
  <2>2. pc[c] \in {"install", "pong", "recv"} => mine[c] \in Socks
    BY DEF ClientInv, CallersSound, UsesSocket
  <2>3. Budget(c) \in 0..2
    BY <1>t, BudgetType
  <2> QED
    BY <1>t, <2>1, <2>2, <2>3
<1>1. CASE SeeSocket(c)
  <2>1. RTypeOK'
    BY <1>1, <1>t DEF SeeSocket, CallGoto, connVars, wireVars, callVars,
         RTypeOK, RPCs
  <2>2. Budget(c) <= Budget(c)'
    <3>1. Budget(c)' = Budget(c)
      BY <1>1, <1>t DEF SeeSocket, CallGoto, callVars, RTypeOK, Budget
    <3> QED
      BY <3>1, <1>0
  <2> QED
    BY <1>1, <1>0, <2>1, <2>2, CallerGoesOn
       DEF SeeSocket, CallGoto, wireVars, callVars, RTypeOK
<1>2. CASE Connect(c)
  <2>1. RTypeOK'
    <3>1. opened' \in 0..MaxSocks
      BY <1>2, <1>t, ClientBounds DEF Connect, RTypeOK
    <3>2. mine' = [mine EXCEPT ![c] = opened']
          /\ pc' = [pc EXCEPT ![c] = "install"]
      BY <1>2 DEF Connect, CallGoto
    <3>3. mine' \in [Callers -> 0..MaxSocks] /\ pc' \in [Callers -> RPCs]
      BY <1>t, <3>1, <3>2 DEF RTypeOK, RPCs
    <3> QED
      BY <1>2, <1>t, <3>1, <3>3 DEF Connect, wireVars, callVars, RTypeOK
  <2>2. Budget(c) <= Budget(c)'
    <3>1. Budget(c) = attempt[c] /\ attempt'[c] = attempt[c]
          /\ attempt[c] \in 0..1
      BY <1>2, <1>t DEF Connect, callVars, RTypeOK, Budget
    <3>2. Budget(c)' \in {attempt'[c], attempt'[c] + 1}
      BY DEF Budget
    <3> QED
      BY <3>1, <3>2
  <2> QED
    <3>1. mine'[c] \in Socks
      BY <1>2, <1>t, ClientBounds DEF Connect, RTypeOK, Socks
    <3>2. \A x \in Callers \ {c} :
            /\ pc'[x] = pc[x] /\ mine'[x] = mine[x] /\ op'[x] = op[x]
            /\ attempt'[x] = attempt[x]
      BY <1>2, <1>t DEF Connect, CallGoto, callVars, RTypeOK
    <3>3. UNCHANGED <<requests, calls, executed>>
      BY <1>2 DEF Connect, wireVars, callVars
    <3> QED
      BY <2>1, <2>2, <3>1, <3>2, <3>3, CallerGoesOn
<1>3. CASE ConnectFails(c) \/ SocketVanished(c)
  BY <1>3, <1>t, CallerLeaves
     DEF ConnectFails, SocketVanished, connVars, wireVars, callVars, RTypeOK
<1>4. CASE PongArrives(c)
  <2>1. CASE pc' = [pc EXCEPT ![c] = "lock"] /\ op[c] = "execute"
             /\ UNCHANGED <<lock, lifecycle, mine, sock, broken>>
    <3>1. replies' \in [Socks -> Seq(Messages)]
      <4>1. CASE Closed({mine[c]}) /\ mine[c] \in Socks
        <5>1. {mine[c]} \in SUBSET Socks
          BY <4>1
        <5> QED
          BY <1>t, <4>1, <5>1, ClosingKeepsTypes
      <4>2. CASE replies' = [replies EXCEPT ![mine[c]] = <<>>]
        BY <1>0, <4>2 DEF RTypeOK
      <4> QED
        BY <1>4, <1>0, <4>1, <4>2 DEF PongArrives
    <3>2. RTypeOK'
      BY <1>4, <1>0, <2>1, <3>1 DEF PongArrives, callVars, RTypeOK, RPCs
    <3>3. Budget(c)' = Budget(c)
      BY <1>4, <1>t, <2>1 DEF PongArrives, callVars, RTypeOK, Budget
    <3>4. \A x \in Callers \ {c} :
            /\ pc'[x] = pc[x] /\ mine'[x] = mine[x] /\ op'[x] = op[x]
            /\ attempt'[x] = attempt[x]
      BY <1>4, <1>t, <2>1 DEF PongArrives, callVars, RTypeOK
    <3>5. pc'[c] = "lock"
      BY <1>t, <2>1 DEF RTypeOK
    <3>6. Budget(c) <= Budget(c)'
      BY <1>0, <3>3
    <3>7. UNCHANGED <<requests, calls, executed>>
      BY <1>4 DEF PongArrives, callVars
    <3> QED
      BY <3>2, <3>4, <3>5, <3>6, <3>7, CallerGoesOn
  <2>2. CASE Leave(c)
    <3>1. /\ sock' \in 0..MaxSocks
          /\ broken' \subseteq Socks /\ replies' \in [Socks -> Seq(Messages)]
      <4>1. CASE sock' = 0 /\ Closed({mine[c]}) /\ mine[c] \in Socks
        <5>1. {mine[c]} \in SUBSET Socks /\ 0 \in 0..MaxSocks
          BY <4>1, ClientBounds
        <5> QED
          BY <1>t, <4>1, <5>1, ClosingKeepsTypes
      <4>2. CASE sock' = sock /\ broken' = broken
                 /\ replies' = [replies EXCEPT ![mine[c]] = <<>>]
        BY <1>0, <4>2 DEF RTypeOK
      <4> QED
        BY <1>4, <1>0, <4>1, <4>2 DEF PongArrives
    <3> QED
      BY <1>4, <1>t, <2>2, <3>1, CallerLeaves
         DEF PongArrives, callVars, RTypeOK
  <2> QED
    BY <1>4, <2>1, <2>2 DEF PongArrives, CallGoto
<1>5. CASE PongMissing(c)
  <2>1. broken' \subseteq Socks /\ replies' \in [Socks -> Seq(Messages)]
    <3>1. {mine[c]} \in SUBSET Socks /\ Closed({mine[c]})
      BY <1>5, <1>0 DEF PongMissing
    <3> QED
      BY <1>t, <3>1, ClosingKeepsTypes
  <2> QED
    <3>1. sock' \in 0..MaxSocks /\ buffer' \in Seq(Messages)
          /\ result' \in [Callers -> Messages \cup {NoMessage}]
      BY <1>5, <1>t, ClientBounds DEF PongMissing, callVars, RTypeOK
    <3>2. Leave(c) /\ UNCHANGED <<tunnel, opened, breaks, requests, op, attempt,
                                 calls, executed>>
      BY <1>5 DEF PongMissing, callVars
    <3> QED
      BY <2>1, <3>1, <3>2, CallerLeaves
<1> QED
  BY <1>1, <1>2, <1>3, <1>4, <1>5

\* Another connection or the tunnel is lost, or a caller makes a new one.
LEMMA LossesKeepInv ==
  ASSUME ClientInv, TunnelDies \/ \E k \in Socks : SocketBreaks(k)
  PROVE  ClientInv'
<1>t. RTypeOK
  BY DEF ClientInv
<1>1. broken' \subseteq Socks /\ replies' \in [Socks -> Seq(Messages)]
  <2>1. \A k \in Socks : {k} \in SUBSET Socks
    OBVIOUS
  <2>2. 1..opened \in SUBSET Socks
    BY <1>t, ClientBounds DEF RTypeOK, Socks
  <2>3. CASE TunnelDies
    <3>1. Closed(1..opened)
      BY <2>3 DEF TunnelDies
    <3> QED
      BY <1>t, <2>2, <3>1, ClosingKeepsTypes
  <2>4. CASE \E k \in Socks : SocketBreaks(k)
    <3>1. PICK k \in Socks : SocketBreaks(k)
      BY <2>4
    <3>2. {k} \in SUBSET Socks /\ Closed({k})
      BY <2>1, <3>1 DEF SocketBreaks
    <3> QED
      BY <1>t, <3>2, ClosingKeepsTypes
  <2> QED
    BY <2>3, <2>4
<1>2. breaks' \in 0..MaxBreaks /\ tunnel' \in BOOLEAN
  <2>1. /\ breaks < MaxBreaks /\ breaks' = breaks + 1
        /\ tunnel' \in {tunnel, FALSE}
    BY DEF TunnelDies, SocketBreaks
  <2>2. breaks \in 0..MaxBreaks /\ tunnel \in BOOLEAN
    BY <1>t DEF RTypeOK
  <2>3. breaks' \in 0..MaxBreaks
    BY <2>1, <2>2, ClientBounds
  <2> QED
    BY <2>1, <2>2, <2>3
<1>3. UNCHANGED <<sock, buffer, lock, lifecycle, opened, requests, pc, mine,
                  callVars>>
  BY DEF TunnelDies, SocketBreaks
<1>4. RTypeOK'
  BY <1>t, <1>1, <1>2, <1>3 DEF RTypeOK, callVars
<1>5. CallersSound'
  BY <1>3 DEF ClientInv, CallersSound, UsesSocket
<1>6. ASSUME NEW c \in Callers PROVE Budget(c) <= Budget(c)'
  <2>1. Budget(c)' = Budget(c) /\ Budget(c) \in 0..2
    BY <1>t, <1>3, BudgetType DEF Budget, callVars
  <2> QED
    BY <2>1
<1> QED
  BY <1>3, <1>4, <1>5, <1>6, StepWithoutSending DEF callVars

LEMMA ReconnectingKeepsInv ==
  ASSUME ClientInv, NEW c \in Callers, ReconnectTunnel(c)
  PROVE  ClientInv'
<1>t. RTypeOK
  BY DEF ClientInv
<1>1. broken' \subseteq Socks /\ replies' \in [Socks -> Seq(Messages)]
  <2>1. 1..opened \in SUBSET Socks /\ Closed(1..opened)
    BY <1>t, ClientBounds DEF RTypeOK, Socks, ReconnectTunnel
  <2> QED
    BY <1>t, <2>1, ClosingKeepsTypes
<1>2. /\ sock' \in 0..MaxSocks /\ buffer' \in Seq(Messages)
      /\ op' = [op EXCEPT ![c] = "reconnect_tunnel"]
      /\ result' \in [Callers -> Messages \cup {NoMessage}]
      /\ UNCHANGED <<lock, breaks, requests, attempt, calls, executed>>
  <2>1. <<>> \in Seq(Messages) /\ 0 \in 0..MaxSocks
    BY ClientBounds
  <2> QED
    BY <1>t, <2>1 DEF ReconnectTunnel, RTypeOK
<1>3. \/ /\ opened + 1 \in Socks /\ tunnel' = TRUE /\ opened' = opened + 1
         /\ lifecycle' = c /\ mine' = [mine EXCEPT ![c] = opened + 1]
         /\ pc' = [pc EXCEPT ![c] = "install"]
      \/ /\ tunnel' = FALSE /\ UNCHANGED <<opened, lifecycle, mine, pc>>
         /\ pc[c] = "idle"
  <2>1. opened < MaxSocks => opened + 1 \in Socks
    BY <1>t, ClientBounds DEF RTypeOK, Socks
  <2> QED
    BY <2>1 DEF ReconnectTunnel, CallGoto
<1>4. RTypeOK'
  <2>1. /\ tunnel' \in BOOLEAN /\ opened' \in 0..MaxSocks
        /\ lifecycle' \in Callers \cup {NoCaller}
        /\ mine' \in [Callers -> 0..MaxSocks]
    <3>1. \A k \in Socks : k \in 0..MaxSocks
      BY ClientBounds DEF Socks
    <3>2. mine' \in [Callers -> 0..MaxSocks] /\ opened' \in 0..MaxSocks
      BY <1>t, <1>3, <3>1 DEF RTypeOK
    <3> QED
      BY <1>t, <1>3, <3>2 DEF RTypeOK
  <2>2. pc' \in [Callers -> RPCs]
    BY <1>t, <1>3 DEF RTypeOK, RPCs
  <2>3. op' \in [Callers -> {"execute", "reconnect_tunnel"}]
    BY <1>t, <1>2 DEF RTypeOK
  <2> QED
    BY <1>t, <1>1, <1>2, <2>1, <2>2, <2>3 DEF RTypeOK
<1>5. /\ \A x \in Callers \ {c} :
           /\ pc'[x] = pc[x] /\ mine'[x] = mine[x] /\ op'[x] = op[x]
           /\ attempt'[x] = attempt[x]
      /\ pc'[c] \in {"install", "pong", "recv"} => mine'[c] \in Socks
  BY <1>t, <1>2, <1>3 DEF RTypeOK
<1>6. Budget(c) <= Budget(c)'
  <2>1. Budget(c)' = attempt[c] + 1
    <3>1. op'[c] = "reconnect_tunnel" /\ pc'[c] \in {"install", "idle"}
          /\ attempt'[c] = attempt[c]
      BY <1>t, <1>2, <1>3 DEF RTypeOK
    <3> QED
      BY <3>1 DEF Budget
  <2> QED
    BY <1>t, <2>1, BudgetType
<1> QED
  BY <1>2, <1>4, <1>5, <1>6, CallerGoesOn

\* A broken connection: the command may be sent once more.
LEMMA LosingKeepsInv ==
  ASSUME ClientInv, NEW c \in Callers, SendFails(c) \/ RecvEof(c)
  PROVE  ClientInv'
<1>t. RTypeOK
  BY DEF ClientInv
<1>1. /\ sock' \in 0..MaxSocks /\ buffer' \in Seq(Messages)
      /\ UNCHANGED <<connVars, wireVars, op, calls, executed, result>>
  <2>1. <<>> \in Seq(Messages) /\ 0 \in 0..MaxSocks
    BY ClientBounds
  <2>2. ConnectionLost(c)
    BY DEF SendFails, RecvEof
  <2> QED
    BY <2>1, <2>2 DEF ConnectionLost
<1>2. CASE Leave(c) /\ UNCHANGED attempt
  BY <1>t, <1>1, <1>2, CallerLeaves DEF connVars, wireVars, RTypeOK
<1>3. CASE /\ attempt[c] = 0 /\ attempt' = [attempt EXCEPT ![c] = 1]
           /\ lock' = NoCaller /\ CallGoto(c, "ensure")
           /\ UNCHANGED <<lifecycle, mine>>
  <2>1. RTypeOK'
    <3>1. attempt' \in [Callers -> 0..1] /\ pc' \in [Callers -> RPCs]
      BY <1>t, <1>3 DEF RTypeOK, RPCs, CallGoto
    <3> QED
      BY <1>t, <1>1, <1>3, <3>1 DEF connVars, wireVars, RTypeOK
  <2>2. /\ \A x \in Callers \ {c} :
             /\ pc'[x] = pc[x] /\ mine'[x] = mine[x] /\ op'[x] = op[x]
             /\ attempt'[x] = attempt[x]
        /\ pc'[c] = "ensure" /\ attempt'[c] = 1
    BY <1>t, <1>1, <1>3 DEF RTypeOK, CallGoto
  <2>3. Budget(c) <= Budget(c)'
    <3>1. Budget(c)' \in {1, 2}
      BY <2>2 DEF Budget
    <3>2. Budget(c) \in {0, 1}
      BY <1>t, <1>3, BudgetType
    <3> QED
      BY <3>1, <3>2
  <2> QED
    BY <1>1, <2>1, <2>2, <2>3, CallerGoesOn DEF wireVars
<1> QED
  BY <1>2, <1>3 DEF SendFails, RecvEof, ConnectionLost

LEMMA LockingKeepsInv ==
  ASSUME ClientInv, NEW c \in Callers, TakeLock(c)
  PROVE  ClientInv'
<1>t. RTypeOK
  BY DEF ClientInv
<1>1. /\ pc[c] = "lock"
      /\ UNCHANGED <<sock, buffer, connVars, wireVars, op, calls, executed,
                     result>>
  BY DEF TakeLock
<1>2. CASE Leave(c) /\ UNCHANGED attempt
  BY <1>t, <1>1, <1>2, CallerLeaves DEF connVars, wireVars, RTypeOK
<1>3. CASE /\ lock' = c /\ CallGoto(c, "send")
           /\ UNCHANGED <<attempt, lifecycle, mine>>
  <2>1. RTypeOK'
    <3>1. pc' \in [Callers -> RPCs]
      BY <1>t, <1>3 DEF RTypeOK, RPCs, CallGoto
    <3> QED
      BY <1>t, <1>1, <1>3, <3>1 DEF connVars, wireVars, RTypeOK
  <2>2. /\ \A x \in Callers \ {c} :
             /\ pc'[x] = pc[x] /\ mine'[x] = mine[x] /\ op'[x] = op[x]
             /\ attempt'[x] = attempt[x]
        /\ pc'[c] = "send"
    BY <1>t, <1>1, <1>3 DEF RTypeOK, CallGoto
  <2>3. Budget(c)' = Budget(c)
    BY <1>1, <1>3, <2>2 DEF Budget
  <2>4. Budget(c) <= Budget(c)'
    BY <1>t, <2>3, BudgetType
  <2> QED
    BY <1>1, <2>1, <2>2, <2>4, CallerGoesOn DEF wireVars
<1>4. CASE /\ attempt[c] = 0 /\ attempt' = [attempt EXCEPT ![c] = 1]
           /\ CallGoto(c, "ensure") /\ UNCHANGED <<lock, lifecycle, mine>>
  <2>1. RTypeOK'
    <3>1. attempt' \in [Callers -> 0..1]
      BY <1>t, <1>4 DEF RTypeOK
    <3>2. pc' \in [Callers -> RPCs]
      BY <1>t, <1>4 DEF RTypeOK, RPCs, CallGoto
    <3> QED
      BY <1>t, <1>1, <1>4, <3>1, <3>2 DEF connVars, wireVars, RTypeOK
  <2>2. /\ \A x \in Callers \ {c} :
             /\ pc'[x] = pc[x] /\ mine'[x] = mine[x] /\ op'[x] = op[x]
             /\ attempt'[x] = attempt[x]
        /\ pc'[c] = "ensure" /\ attempt'[c] = 1
    BY <1>t, <1>1, <1>4 DEF RTypeOK, CallGoto
  <2>3. Budget(c) <= Budget(c)'
    <3>1. Budget(c)' \in {1, 2}
      BY <2>2 DEF Budget
    <3>2. Budget(c) \in {0, 1}
      BY <1>t, <1>4, BudgetType
    <3> QED
      BY <3>1, <3>2
  <2> QED
    BY <1>1, <2>1, <2>2, <2>3, CallerGoesOn DEF wireVars
<1> QED
  BY <1>2, <1>3, <1>4 DEF TakeLock

LEMMA ReceivingKeepsInv ==
  ASSUME ClientInv, NEW c \in Callers,
         BeginRecv(c) \/ Recv(c) \/ Timeout(c) \/ GiveReply(c)
  PROVE  ClientInv'
<1>t. RTypeOK
  BY DEF ClientInv
<1>1. CASE BeginRecv(c)
  <2>1. /\ mine' = [mine EXCEPT ![c] = sock] /\ sock \in Socks
        /\ pc' = [pc EXCEPT ![c] = "recv"] /\ pc[c] = "more"
        /\ UNCHANGED <<sock, buffer, lock, lifecycle, connVars, wireVars,
                       callVars>>
    BY <1>1, <1>t DEF BeginRecv, CallGoto, RTypeOK, Socks
  <2>2. RTypeOK'
    BY <1>t, <2>1 DEF connVars, wireVars, callVars, RTypeOK, RPCs
  <2>3. /\ \A x \in Callers \ {c} :
             /\ pc'[x] = pc[x] /\ mine'[x] = mine[x] /\ op'[x] = op[x]
             /\ attempt'[x] = attempt[x]
        /\ pc'[c] = "recv" /\ mine'[c] \in Socks
    BY <1>t, <2>1 DEF RTypeOK, callVars
  <2>4. Budget(c)' = Budget(c)
    BY <2>1, <2>3 DEF Budget, callVars
  <2>5. Budget(c) <= Budget(c)'
    BY <1>t, <2>4, BudgetType
  <2> QED
    BY <2>1, <2>2, <2>3, <2>5, CallerGoesOn DEF wireVars, callVars
<1>2. CASE Recv(c)
  <2>1. mine[c] \in Socks
    BY <1>2 DEF Recv, ClientInv, CallersSound, UsesSocket
  <2>2. /\ buffer' \in Seq(Messages) /\ replies' \in [Socks -> Seq(Messages)]
        /\ pc' = [pc EXCEPT ![c] = "more"] /\ pc[c] = "recv"
        /\ UNCHANGED <<sock, lock, lifecycle, connVars, requests, mine,
                       callVars>>
    <3>1. replies[mine[c]] \in Seq(Messages) /\ <<>> \in Seq(Messages)
      BY <1>t, <2>1 DEF RTypeOK
    <3>2. buffer' \in Seq(Messages)
      <4>1. buffer \in Seq(Messages) /\ buffer' = buffer \o replies[mine[c]]
        BY <1>2, <1>t DEF Recv, RTypeOK
      <4> QED
        BY <3>1, <4>1
    <3>3. replies' \in [Socks -> Seq(Messages)]
      BY <1>2, <1>t, <2>1, <3>1 DEF Recv, RTypeOK
    <3> QED
      BY <1>2, <3>2, <3>3 DEF Recv, CallGoto
  <2>3. RTypeOK'
    BY <1>t, <2>2 DEF connVars, callVars, RTypeOK, RPCs
  <2>4. /\ \A x \in Callers \ {c} :
             /\ pc'[x] = pc[x] /\ mine'[x] = mine[x] /\ op'[x] = op[x]
             /\ attempt'[x] = attempt[x]
        /\ pc'[c] = "more"
    BY <1>t, <2>2 DEF RTypeOK, callVars
  <2>5. Budget(c)' = Budget(c)
    BY <2>2, <2>4 DEF Budget, callVars
  <2>6. Budget(c) <= Budget(c)'
    BY <1>t, <2>5, BudgetType
  <2> QED
    BY <2>2, <2>3, <2>4, <2>6, CallerGoesOn DEF callVars
<1>3. CASE Timeout(c)
  <2>1. sock' \in 0..MaxSocks /\ buffer' \in Seq(Messages)
    BY <1>3, ClientBounds DEF Timeout
  <2> QED
    BY <1>3, <1>t, <2>1, CallerLeaves
       DEF Timeout, connVars, wireVars, callVars, RTypeOK
<1>4. CASE GiveReply(c)
  <2>1. /\ buffer' \in Seq(Messages)
        /\ result' \in [Callers -> Messages \cup {NoMessage}]
    <3>1. Head(buffer) \in Messages /\ Tail(buffer) \in Seq(Messages)
      BY <1>4, <1>t DEF GiveReply, RTypeOK
    <3> QED
      BY <1>4, <1>t, <3>1 DEF GiveReply, RTypeOK
  <2> QED
    BY <1>4, <1>t, <2>1, CallerLeaves
       DEF GiveReply, connVars, wireVars, RTypeOK
<1> QED
  BY <1>1, <1>2, <1>3, <1>4

-----------------------------------------------------------------------------
(* Steps that change what is on the wire.                                  *)

\* A new call has sent nothing yet.
LEMMA ExecuteKeepsInv ==
  ASSUME ClientInv, NEW c \in Callers, Execute(c)
  PROVE  ClientInv'
<1>t. RTypeOK
  BY DEF ClientInv
<1>1. /\ calls[c] < MaxCalls /\ calls[c] \in Nat
      /\ calls' = [calls EXCEPT ![c] = @ + 1]
      /\ op' = [op EXCEPT ![c] = "execute"]
      /\ attempt' = [attempt EXCEPT ![c] = 0]
      /\ executed' = [executed EXCEPT ![c] = 0]
      /\ result' = [result EXCEPT ![c] = NoMessage]
      /\ pc' = [pc EXCEPT ![c] = "ensure"]
      /\ UNCHANGED <<sock, buffer, lock, lifecycle, connVars, wireVars, mine>>
  BY <1>t, ClientBounds DEF Execute, CallGoto, RTypeOK
<1>2. RTypeOK'
  <2>1. /\ calls' \in [Callers -> 0..MaxCalls]
        /\ attempt' \in [Callers -> 0..1] /\ executed' \in [Callers -> Nat]
    <3>1. calls[c] + 1 \in 0..MaxCalls /\ 0 \in 0..1 /\ 0 \in Nat
      BY <1>1, ClientBounds
    <3>2. calls' \in [Callers -> 0..MaxCalls]
      BY <1>t, <1>1, <3>1 DEF RTypeOK
    <3>3. attempt' \in [Callers -> 0..1] /\ executed' \in [Callers -> Nat]
      BY <1>t, <1>1, <3>1 DEF RTypeOK
    <3> QED
      BY <3>2, <3>3
  <2>2. /\ op' \in [Callers -> {"execute", "reconnect_tunnel"}]
        /\ pc' \in [Callers -> RPCs]
        /\ result' \in [Callers -> Messages \cup {NoMessage}]
    BY <1>t, <1>1 DEF RTypeOK, RPCs
  <2> QED
    BY <1>t, <1>1, <2>1, <2>2 DEF RTypeOK, connVars, wireVars
<1>3. CallersSound'
  BY <1>t, <1>1 DEF ClientInv, CallersSound, UsesSocket, RTypeOK
<1>4. \A x \in Callers : calls[x] \in Nat /\ calls'[x] \in Nat
                         /\ calls[x] <= calls'[x]
  <2>1. \A x \in Callers : calls[x] \in Nat
    BY <1>t, ClientBounds DEF RTypeOK
  <2>2. \A x \in Callers : calls'[x] \in {calls[x], calls[x] + 1}
    BY <1>t, <1>1 DEF RTypeOK
  <2> QED
    BY <2>1, <2>2
<1>5. \A k \in Socks : \A i \in DOMAIN requests[k] :
        requests[k][i].by \in Callers /\ requests[k][i].call \in Nat
  <2>1. \A k \in Socks : requests[k] \in Seq(Messages)
    BY <1>t DEF RTypeOK
  <2>2. \A k \in Socks : \A i \in DOMAIN requests[k] :
          requests[k][i] \in Messages
    BY <2>1
  <2> QED
    BY <2>2, ClientBounds DEF Messages
<1>6. CallsStarted'
  <2>1. requests' = requests
    BY <1>1 DEF wireVars
  <2> SUFFICES ASSUME NEW k \in Socks, NEW i \in DOMAIN requests[k]
               PROVE  requests[k][i].call <= calls'[requests[k][i].by]
    BY <2>1 DEF CallsStarted
  <2>2. requests[k][i].call <= calls[requests[k][i].by]
    BY DEF ClientInv, CallsStarted
  <2> QED
    BY <1>4, <1>5, <2>2
<1>7. ASSUME NEW x \in Callers \ {c} PROVE Within(x)'
  <2>1. PICK n \in 0..2 : executed[x] + n = Budget(x) /\ AtMost(n, x)
    BY DEF ClientInv, ExecutedWithinBudget, Within
  <2>2. executed'[x] = executed[x] /\ Budget(x)' = Budget(x)
    BY <1>t, <1>1 DEF Budget, RTypeOK
  <2>3. \A k, i : Pending(x, k, i)' <=> Pending(x, k, i)
    BY <1>t, <1>1 DEF Pending, Command, RTypeOK, wireVars
  <2>4. AtMost(n, x)'
    BY <2>1, <2>3 DEF AtMost, NonePending, OnePending, TwoPending
  <2> QED
    BY <2>1, <2>2, <2>4 DEF Within
<1>8. Within(c)'
  <2>1. executed'[c] = 0 /\ Budget(c)' = 0
    BY <1>t, <1>1 DEF Budget, RTypeOK
  <2>2. NonePending(c)'
    <3> SUFFICES ASSUME NEW k, NEW i, Pending(c, k, i)' PROVE FALSE
      BY DEF NonePending
    <3>1. /\ k \in Socks /\ i \in DOMAIN requests[k]
          /\ requests[k][i].by = c /\ requests[k][i].call = calls'[c]
      BY <1>1 DEF Pending, Command, wireVars
    <3>2. requests[k][i].call <= calls[c]
      BY <3>1 DEF ClientInv, CallsStarted
    <3>3. calls'[c] = calls[c] + 1
      BY <1>t, <1>1 DEF RTypeOK
    <3> QED
      BY <1>4, <3>1, <3>2, <3>3
  <2> QED
    BY <2>1, <2>2 DEF Within, AtMost
<1> QED
  BY <1>2, <1>3, <1>6, <1>7, <1>8 DEF ClientInv, ExecutedWithinBudget

\* A message is put at the end of one connection's requests.
LEMMA AppendedMessages ==
  ASSUME RTypeOK, NEW s \in Socks, NEW m \in Messages,
         requests' = [requests EXCEPT ![s] = Append(@, m)]
  PROVE  /\ requests' \in [Socks -> Seq(Messages)]
         /\ \A k \in Socks : \A i \in DOMAIN requests'[k] :
              \/ i \in DOMAIN requests[k] /\ requests'[k][i] = requests[k][i]
              \/ k = s /\ i = Len(requests[s]) + 1 /\ requests'[k][i] = m
<1>1. requests[s] \in Seq(Messages)
  BY DEF RTypeOK
<1>2. /\ Append(requests[s], m) \in Seq(Messages)
      /\ Len(Append(requests[s], m)) = Len(requests[s]) + 1
      /\ \A i \in 1..Len(requests[s]) :
           Append(requests[s], m)[i] = requests[s][i]
      /\ Append(requests[s], m)[Len(requests[s]) + 1] = m
      /\ Len(requests[s]) \in Nat
  BY <1>1
<1>3. requests' \in [Socks -> Seq(Messages)]
  BY <1>2 DEF RTypeOK
<1>4. ASSUME NEW k \in Socks, NEW i \in DOMAIN requests'[k]
      PROVE  \/ i \in DOMAIN requests[k] /\ requests'[k][i] = requests[k][i]
             \/ k = s /\ i = Len(requests[s]) + 1 /\ requests'[k][i] = m
  <2>1. CASE k # s
    <3>1. requests'[k] = requests[k]
      BY <2>1 DEF RTypeOK
    <3> QED
      BY <3>1
  <2>2. CASE k = s
    <3>1. requests'[k] = Append(requests[s], m)
      BY <2>2 DEF RTypeOK
    <3>2. i \in 1..(Len(requests[s]) + 1) /\ DOMAIN requests[s]
                                            = 1..Len(requests[s])
      BY <1>1, <1>2, <3>1
    <3>3. CASE i \in 1..Len(requests[s])
      BY <1>2, <2>2, <3>1, <3>2, <3>3
    <3>4. CASE i = Len(requests[s]) + 1
      BY <1>2, <2>2, <3>1, <3>4
    <3> QED
      BY <1>2, <3>2, <3>3, <3>4
  <2> QED
    BY <2>1, <2>2
<1> QED
  BY <1>3, <1>4

LEMMA AppendingKeepsStarted ==
  ASSUME RTypeOK, CallsStarted, NEW s \in Socks, NEW m \in Messages,
         requests' = [requests EXCEPT ![s] = Append(@, m)],
         m.call <= calls[m.by], UNCHANGED calls
  PROVE  CallsStarted'
<1> SUFFICES ASSUME NEW k \in Socks, NEW i \in DOMAIN requests'[k]
             PROVE  requests'[k][i].call <= calls[requests'[k][i].by]
  BY DEF CallsStarted
<1>1. \/ i \in DOMAIN requests[k] /\ requests'[k][i] = requests[k][i]
      \/ requests'[k][i] = m
  BY AppendedMessages
<1> QED
  BY <1>1 DEF CallsStarted

\* A ping, or the command of another caller, is not a copy of the command.
LEMMA OthersNotPending ==
  ASSUME RTypeOK, NEW s \in Socks, NEW m \in Messages, NEW x \in Callers,
         requests' = [requests EXCEPT ![s] = Append(@, m)],
         UNCHANGED <<calls, executed>>, m.call = 0 \/ m.by # x,
         Within(x), Budget(x)' = Budget(x)
  PROVE  Within(x)'
<1>1. PICK n \in 0..2 : executed[x] + n = Budget(x) /\ AtMost(n, x)
  BY DEF Within
<1>2. ASSUME NEW k, NEW i, Pending(x, k, i)' PROVE Pending(x, k, i)
  <2>1. /\ k \in Socks /\ i \in DOMAIN requests'[k]
        /\ requests'[k][i] = [by |-> x, call |-> calls[x]]
        /\ requests'[k][i].call # 0
    BY <1>2 DEF Pending, Command
  <2>2. requests'[k][i] # m
    BY <2>1
  <2>3. i \in DOMAIN requests[k] /\ requests'[k][i] = requests[k][i]
    BY <2>1, <2>2, AppendedMessages
  <2> QED
    BY <2>1, <2>3 DEF Pending, Command
<1>3. AtMost(n, x)'
  BY <1>1, <1>2 DEF AtMost, NonePending, OnePending, TwoPending
<1> QED
  BY <1>1, <1>3 DEF Within

LEMMA InstallKeepsInv ==
  ASSUME ClientInv, NEW c \in Callers, Install(c)
  PROVE  ClientInv'
<1>t. RTypeOK
  BY DEF ClientInv
<1>1. /\ pc[c] = "install" /\ mine[c] \in Socks /\ mine[c] \in 0..MaxSocks
      /\ sock' = mine[c] /\ buffer' = <<>> /\ <<>> \in Seq(Messages)
      /\ UNCHANGED <<connVars, replies, callVars>>
  BY <1>t DEF Install, ClientInv, CallersSound, UsesSocket, RTypeOK
<1>2. CASE Leave(c) /\ UNCHANGED requests
  BY <1>t, <1>1, <1>2, CallerLeaves DEF connVars, callVars, RTypeOK
<1>3. CASE /\ requests' = [requests EXCEPT ![mine[c]] = Append(@, Ping(c))]
           /\ CallGoto(c, "pong") /\ UNCHANGED <<lock, lifecycle, mine>>
  <2>1. Ping(c) \in Messages /\ Ping(c).call = 0 /\ Ping(c).by = c
    BY ClientBounds DEF Ping, Messages
  <2>2. requests' \in [Socks -> Seq(Messages)]
    BY <1>t, <1>1, <1>3, <2>1, AppendedMessages
  <2>3. pc' = [pc EXCEPT ![c] = "pong"]
    BY <1>3 DEF CallGoto
  <2>4. RTypeOK'
    <3>1. pc' \in [Callers -> RPCs]
      BY <1>t, <2>3 DEF RTypeOK, RPCs
    <3> QED
      BY <1>t, <1>1, <1>3, <2>2, <3>1 DEF connVars, callVars, RTypeOK
  <2>5. CallersSound'
    BY <1>t, <1>1, <1>3, <2>3
       DEF ClientInv, CallersSound, UsesSocket, RTypeOK
  <2>6. CallsStarted'
    <3>1. calls[c] \in Nat /\ Ping(c).call <= calls[Ping(c).by]
      BY <1>t, <2>1, ClientBounds DEF RTypeOK
    <3> QED
      BY <1>t, <1>1, <1>3, <2>1, <3>1, AppendingKeepsStarted
         DEF ClientInv, callVars
  <2>7. ASSUME NEW x \in Callers PROVE Within(x)'
    <3>1. Budget(x)' = Budget(x)
      BY <1>t, <1>1, <2>3 DEF Budget, RTypeOK, callVars
    <3>2. Within(x) /\ UNCHANGED <<calls, executed>>
      BY <1>1 DEF ClientInv, ExecutedWithinBudget, callVars
    <3> QED
      BY <1>t, <1>1, <1>3, <2>1, <3>1, <3>2, OthersNotPending
  <2> QED
    BY <2>4, <2>5, <2>6, <2>7 DEF ClientInv, ExecutedWithinBudget
<1> QED
  BY <1>2, <1>3 DEF Install

LEMMA SendKeepsInv ==
  ASSUME ClientInv, NEW c \in Callers, Send(c)
  PROVE  ClientInv'
<1>t. RTypeOK
  BY DEF ClientInv
<1>1. /\ pc[c] = "send" /\ sock \in Socks
      /\ requests' = [requests EXCEPT ![sock] = Append(@, Command(c))]
      /\ pc' = [pc EXCEPT ![c] = "more"]
      /\ UNCHANGED <<sock, buffer, lock, lifecycle, connVars, replies, mine,
                     callVars>>
  BY <1>t DEF Send, CallGoto, RTypeOK, Socks
<1>2. Command(c) \in Messages /\ Command(c).call = calls[c]
      /\ Command(c).by = c /\ calls[c] \in Nat
  BY <1>t, ClientBounds DEF Command, Messages, RTypeOK
<1>3. RTypeOK'
  <2>1. requests' \in [Socks -> Seq(Messages)]
    BY <1>t, <1>1, <1>2, AppendedMessages
  <2>2. pc' \in [Callers -> RPCs]
    BY <1>t, <1>1 DEF RTypeOK, RPCs
  <2> QED
    BY <1>t, <1>1, <2>1, <2>2 DEF connVars, callVars, RTypeOK
<1>4. CallersSound'
  BY <1>t, <1>1 DEF ClientInv, CallersSound, UsesSocket, RTypeOK
<1>5. CallsStarted'
  <2>1. Command(c).call <= calls[Command(c).by]
    BY <1>2
  <2> QED
    BY <1>t, <1>1, <1>2, <2>1, AppendingKeepsStarted DEF ClientInv, callVars
<1>6. ASSUME NEW x \in Callers \ {c} PROVE Within(x)'
  <2>1. Budget(x)' = Budget(x)
    BY <1>t, <1>1 DEF Budget, RTypeOK, callVars
  <2>2. Within(x) /\ UNCHANGED <<calls, executed>> /\ Command(c).by # x
    BY <1>1, <1>2 DEF ClientInv, ExecutedWithinBudget, callVars
  <2> QED
    BY <1>t, <1>1, <1>2, <2>1, <2>2, OthersNotPending
<1>7. Within(c)'
  <2>1. PICK n \in 0..2 : executed[c] + n = Budget(c) /\ AtMost(n, c)
    BY DEF ClientInv, ExecutedWithinBudget, Within
  <2>2. /\ Budget(c)' = attempt[c] + 1 /\ executed'[c] = executed[c]
        /\ attempt[c] \in 0..1 /\ executed[c] \in Nat
    BY <1>t, <1>1 DEF Budget, RTypeOK, callVars
  <2>3. CASE Budget(c) = attempt[c]
    <3>1. n + 1 \in 0..2 /\ executed'[c] + (n + 1) = Budget(c)'
          /\ n \in 0..1
      BY <2>1, <2>2, <2>3
    <3>2. ASSUME NEW k, NEW i, Pending(c, k, i)'
          PROVE  \/ Pending(c, k, i)
                 \/ k = sock /\ i = Len(requests[sock]) + 1
      <4>1. /\ k \in Socks /\ i \in DOMAIN requests'[k]
            /\ requests'[k][i] = Command(c) /\ requests'[k][i].call # 0
        BY <1>1, <3>2 DEF Pending, Command, callVars
      <4>2. \/ i \in DOMAIN requests[k] /\ requests'[k][i] = requests[k][i]
            \/ k = sock /\ i = Len(requests[sock]) + 1
        BY <1>t, <1>1, <1>2, <4>1, AppendedMessages
      <4> QED
        BY <4>1, <4>2 DEF Pending
    <3>3. CASE n = 0
      <4>1. NonePending(c)
        BY <2>1, <3>3 DEF AtMost
      <4>2. OnePending(c)'
        BY <3>2, <4>1 DEF NonePending, OnePending
      <4>3. AtMost(1, c)' /\ n + 1 = 1
        BY <3>3, <4>2 DEF AtMost
      <4> QED
        BY <3>1, <4>3 DEF Within
    <3>4. CASE n = 1
      <4>1. OnePending(c)
        BY <2>1, <3>4 DEF AtMost
      <4>2. TwoPending(c)'
        BY <3>2, <4>1 DEF OnePending, TwoPending
      <4>3. AtMost(2, c)' /\ n + 1 = 2
        BY <3>4, <4>2 DEF AtMost
      <4> QED
        BY <3>1, <4>3 DEF Within
    <3> QED
      BY <3>1, <3>3, <3>4
  <2>4. Budget(c) = attempt[c]
    BY <1>1 DEF Budget
  <2> QED
    BY <2>3, <2>4
<1> QED
  BY <1>3, <1>4, <1>5, <1>6, <1>7 DEF ClientInv, ExecutedWithinBudget

\* The daemon takes the first message off a connection.
LEMMA TakenMessages ==
  ASSUME RTypeOK, NEW s \in Socks, requests[s] # <<>>,
         requests' = [requests EXCEPT ![s] = Tail(@)]
  PROVE  /\ Head(requests[s]) \in Messages
         /\ 1 \in DOMAIN requests[s] /\ requests[s][1] = Head(requests[s])
         /\ requests' \in [Socks -> Seq(Messages)]
         /\ \A k \in Socks \ {s} : requests'[k] = requests[k]
         /\ \A i \in DOMAIN requests'[s] :
              /\ i \in Nat \ {0} /\ i + 1 \in DOMAIN requests[s]
              /\ requests'[s][i] = requests[s][i + 1]
<1>1. requests[s] \in Seq(Messages)
  BY DEF RTypeOK
<1>2. requests'[s] = Tail(requests[s])
  BY DEF RTypeOK
<1>3. Tail(requests[s]) \in Seq(Messages) /\ Head(requests[s]) \in Messages
  BY <1>1
<1>4. /\ DOMAIN requests[s] = 1..Len(requests[s])
      /\ Len(requests[s]) \in Nat \ {0}
      /\ DOMAIN Tail(requests[s]) = 1..(Len(requests[s]) - 1)
      /\ \A i \in 1..(Len(requests[s]) - 1) :
           Tail(requests[s])[i] = requests[s][i + 1]
      /\ Head(requests[s]) = requests[s][1]
  BY <1>1
<1>5. \A i \in 1..(Len(requests[s]) - 1) :
        i \in Nat \ {0} /\ i + 1 \in 1..Len(requests[s])
  BY <1>4
<1>6. requests' \in [Socks -> Seq(Messages)]
  BY <1>3 DEF RTypeOK
<1>7. \A k \in Socks \ {s} : requests'[k] = requests[k]
  BY DEF RTypeOK
<1>8. 1 \in DOMAIN requests[s]
  BY <1>4
<1> QED
  BY <1>2, <1>3, <1>4, <1>5, <1>6, <1>7, <1>8

LEMMA DaemonKeepsInv ==
  ASSUME ClientInv, NEW s \in Socks, DaemonAnswers(s)
  PROVE  ClientInv'
<1> DEFINE m == Head(requests[s])
           From(k, i) == IF k = s THEN i + 1 ELSE i
<1>t. RTypeOK
  BY DEF ClientInv
<1>1. /\ requests[s] # <<>>
      /\ requests' = [requests EXCEPT ![s] = Tail(@)]
      /\ replies' = IF s \in broken THEN replies
                    ELSE [replies EXCEPT ![s] = Append(@, m)]
      /\ executed' = IF m = Command(m.by) /\ m.call # 0
                     THEN [executed EXCEPT ![m.by] = @ + 1] ELSE executed
      /\ UNCHANGED <<sock, buffer, lock, lifecycle, connVars, pc, mine, op,
                     attempt, calls, result>>
  BY DEF DaemonAnswers
<1>2. /\ m \in Messages /\ 1 \in DOMAIN requests[s] /\ requests[s][1] = m
      /\ requests' \in [Socks -> Seq(Messages)]
      /\ \A k \in Socks \ {s} : requests'[k] = requests[k]
      /\ \A i \in DOMAIN requests'[s] :
           /\ i \in Nat \ {0} /\ i + 1 \in DOMAIN requests[s]
           /\ requests'[s][i] = requests[s][i + 1]
  BY <1>t, <1>1, TakenMessages
<1>3. m.by \in Callers
  BY <1>2 DEF Messages
<1> HIDE DEF m
<1>4. RTypeOK'
  <2>1. executed' \in [Callers -> Nat]
    <3>1. executed \in [Callers -> Nat]
      BY <1>t DEF RTypeOK
    <3>2. executed' \in {executed, [executed EXCEPT ![m.by] = @ + 1]}
      BY <1>1
    <3> QED
      BY <1>3, <3>1, <3>2
  <2>2. replies' \in [Socks -> Seq(Messages)]
    <3>1. Append(replies[s], m) \in Seq(Messages)
      BY <1>t, <1>2 DEF RTypeOK
    <3> QED
      BY <1>t, <1>1, <3>1 DEF RTypeOK
  <2> QED
    BY <1>t, <1>1, <1>2, <2>1, <2>2 DEF RTypeOK, connVars
<1>5. CallersSound'
  BY <1>1 DEF ClientInv, CallersSound, UsesSocket
<1>6. CallsStarted'
  <2> SUFFICES ASSUME NEW k \in Socks, NEW i \in DOMAIN requests'[k]
               PROVE  requests'[k][i].call <= calls[requests'[k][i].by]
    BY <1>1 DEF CallsStarted
  <2>1. CASE k = s
    BY <1>2, <2>1 DEF ClientInv, CallsStarted
  <2>2. CASE k # s
    BY <1>2, <2>2 DEF ClientInv, CallsStarted
  <2> QED
    BY <2>1, <2>2
<1>7. ASSUME NEW c \in Callers PROVE Within(c)'
  <2>1. PICK n \in 0..2 : executed[c] + n = Budget(c) /\ AtMost(n, c)
    BY DEF ClientInv, ExecutedWithinBudget, Within
  <2>2. Budget(c)' = Budget(c) /\ Budget(c) \in 0..2 /\ executed[c] \in Nat
    BY <1>t, <1>1, BudgetType DEF Budget, RTypeOK
  <2>3. ASSUME NEW k, NEW i, Pending(c, k, i)'
        PROVE  /\ Pending(c, k, From(k, i))
               /\ k = s => i \in Nat \ {0} /\ From(k, i) # 1
    <3>1. /\ k \in Socks /\ i \in DOMAIN requests'[k]
          /\ requests'[k][i] = Command(c) /\ requests'[k][i].call # 0
      BY <1>1, <2>3 DEF Pending, Command
    <3>2. CASE k = s
      <4>1. i \in Nat \ {0} /\ i + 1 \in DOMAIN requests[s]
            /\ requests'[s][i] = requests[s][i + 1] /\ i + 1 # 1
        BY <1>2, <3>1, <3>2
      <4> QED
        BY <3>1, <3>2, <4>1 DEF Pending
    <3>3. CASE k # s
      BY <1>2, <3>1, <3>3 DEF Pending
    <3> QED
      BY <3>2, <3>3
  <2>4. ASSUME NEW k, NEW l, NEW i, NEW j,
               Pending(c, k, i)', Pending(c, l, j)',
               k = l, From(k, i) = From(l, j)
        PROVE  i = j
    <3>1. k = s => i \in Nat /\ j \in Nat
      BY <2>3, <2>4
    <3> QED
      BY <2>4, <3>1
  <2> HIDE DEF From
  <2>5. CASE m = Command(m.by) /\ m.call # 0 /\ m.by = c
    <3>1. Pending(c, s, 1)
      BY <1>2, <2>5 DEF Pending
    <3>2. executed'[c] = executed[c] + 1
      BY <1>t, <1>1, <2>5 DEF RTypeOK
    <3>3. n # 0
      BY <2>1, <3>1 DEF AtMost, NonePending
    <3>4. n - 1 \in 0..2 /\ executed'[c] + (n - 1) = Budget(c)'
      BY <2>1, <2>2, <3>2, <3>3
    <3>5. CASE n = 1
      <4>1. OnePending(c)
        BY <2>1, <3>5 DEF AtMost
      <4>2. NonePending(c)'
        <5> SUFFICES ASSUME NEW k, NEW i, Pending(c, k, i)' PROVE FALSE
          BY DEF NonePending
        <5>1. Pending(c, k, From(k, i)) /\ (k = s => From(k, i) # 1)
          BY <2>3
        <5> QED
          BY <3>1, <4>1, <5>1 DEF OnePending
      <4>3. AtMost(0, c)' /\ n - 1 = 0
        BY <3>5, <4>2 DEF AtMost
      <4> QED
        BY <3>4, <4>3 DEF Within
    <3>6. CASE n = 2
      <4>1. TwoPending(c)
        BY <2>1, <3>6 DEF AtMost
      <4>2. OnePending(c)'
        <5> SUFFICES ASSUME NEW k, NEW l, NEW i, NEW j,
                            Pending(c, k, i)', Pending(c, l, j)'
                     PROVE  k = l /\ i = j
          BY DEF OnePending
        <5>1. /\ Pending(c, k, From(k, i)) /\ (k = s => From(k, i) # 1)
              /\ Pending(c, l, From(l, j)) /\ (l = s => From(l, j) # 1)
          BY <2>3
        <5>2. k = l /\ From(k, i) = From(l, j)
          BY <3>1, <4>1, <5>1 DEF TwoPending
        <5> QED
          BY <2>4, <5>2
      <4>3. AtMost(1, c)' /\ n - 1 = 1
        BY <3>6, <4>2 DEF AtMost
      <4> QED
        BY <3>4, <4>3 DEF Within
    <3> QED
      BY <3>3, <3>5, <3>6
  <2>6. CASE ~(m = Command(m.by) /\ m.call # 0 /\ m.by = c)
    <3>1. executed'[c] = executed[c]
      BY <1>t, <1>1, <1>3, <2>6 DEF RTypeOK
    <3>2. NonePending(c) => NonePending(c)'
      BY <2>3 DEF NonePending
    <3>3. OnePending(c) => OnePending(c)'
      <4> SUFFICES ASSUME OnePending(c), NEW k, NEW l, NEW i, NEW j,
                          Pending(c, k, i)', Pending(c, l, j)'
                   PROVE  k = l /\ i = j
        BY DEF OnePending
      <4>1. k = l /\ From(k, i) = From(l, j)
        BY <2>3 DEF OnePending
      <4> QED
        BY <2>4, <4>1
    <3>4. TwoPending(c) => TwoPending(c)'
      <4> SUFFICES ASSUME TwoPending(c),
                          NEW k, NEW l, NEW o, NEW h, NEW i, NEW j,
                          Pending(c, k, h)', Pending(c, l, i)',
                          Pending(c, o, j)'
                   PROVE  \/ k = l /\ h = i
                          \/ k = o /\ h = j
                          \/ l = o /\ i = j
        BY DEF TwoPending
      <4>1. /\ Pending(c, k, From(k, h)) /\ Pending(c, l, From(l, i))
            /\ Pending(c, o, From(o, j))
        BY <2>3
      <4>2. \/ k = l /\ From(k, h) = From(l, i)
            \/ k = o /\ From(k, h) = From(o, j)
            \/ l = o /\ From(l, i) = From(o, j)
        BY <4>1 DEF TwoPending
      <4> QED
        BY <2>4, <4>2
    <3>5. AtMost(n, c)'
      BY <2>1, <3>2, <3>3, <3>4 DEF AtMost
    <3> QED
      BY <2>1, <2>2, <3>1, <3>5 DEF Within
  <2> QED
    BY <2>5, <2>6
<1> QED
  BY <1>4, <1>5, <1>6, <1>7 DEF ClientInv, ExecutedWithinBudget

-----------------------------------------------------------------------------
LEMMA ClientStep == ClientInv /\ [RNext]_rvars => ClientInv'
<1> SUFFICES ASSUME ClientInv, [RNext]_rvars PROVE ClientInv'
  OBVIOUS
<1>1. CASE UNCHANGED rvars
  <2>1. RTypeOK' /\ CallersSound'
    BY <1>1 DEF rvars, connVars, wireVars, callVars, ClientInv, RTypeOK,
         CallersSound, UsesSocket
  <2>2. UNCHANGED <<requests, calls, executed, pc, op, attempt>>
    BY <1>1 DEF rvars, wireVars, callVars
  <2>3. ASSUME NEW c \in Callers PROVE Budget(c) <= Budget(c)'
    <3>1. Budget(c)' = Budget(c) /\ Budget(c) \in 0..2
      BY <2>2, BudgetType DEF Budget, ClientInv
    <3> QED
      BY <3>1
  <2> QED
    BY <2>1, <2>2, <2>3, StepWithoutSending
<1>2. ASSUME NEW c \in Callers,
             Execute(c) \/ ReconnectTunnel(c) \/ CallerStep(c)
      PROVE  ClientInv'
  BY <1>2, ExecuteKeepsInv, ReconnectingKeepsInv, ConnectingKeepsInv,
     InstallKeepsInv, LockingKeepsInv, SendKeepsInv, LosingKeepsInv,
     ReceivingKeepsInv DEF CallerStep
<1>3. ASSUME NEW k \in Socks, DaemonAnswers(k) PROVE ClientInv'
  BY <1>3, DaemonKeepsInv
<1>4. CASE TunnelDies \/ \E k \in Socks : SocketBreaks(k)
  BY <1>4, LossesKeepInv
<1> QED
  BY <1>1, <1>2, <1>3, <1>4 DEF RNext

\* Every variable of the client keeps its type.
THEOREM ClientTypesCorrect == RSpec => []RTypeOK
<1>1. ClientInv => RTypeOK
  BY DEF ClientInv
<1> QED
  BY <1>1, ClientStart, ClientStep, PTL DEF RSpec

\* execute() sends a command once and retries it once, and the daemon runs
\* what it reads once: whatever breaks, and however the calls of threads on
\* the shared socket interleave, no command is run three times.
THEOREM CommandsRunTwice == RSpec => []ExecutedAtMostTwice
<1>1. ClientInv => ExecutedAtMostTwice
  <2> SUFFICES ASSUME ClientInv, NEW c \in Callers PROVE executed[c] <= 2
    BY DEF ExecutedAtMostTwice
  <2>1. PICK n \in 0..2 : executed[c] + n = Budget(c)
    BY DEF ClientInv, ExecutedWithinBudget, Within
  <2>2. executed[c] \in Nat /\ Budget(c) \in 0..2
    BY BudgetType DEF ClientInv, RTypeOK
  <2> QED
    BY <2>1, <2>2
<1> QED
  BY <1>1, ClientStart, ClientStep, PTL DEF RSpec

-----------------------------------------------------------------------------
(* The pool of clients and the daemons of a host.                          *)

Hands == [step : Steps, srv : Servers \cup {None},
          pid : Daemons \cup {None}, again : BOOLEAN]

\* One daemon at most holds the port, and every agent is a child of a daemon
\* that does.
OneDaemonListens ==
  /\ \A d, e \in Listening : d = e
  /\ agent \subseteq Listening

\* A step that stops, connects or installs a client has one in hand, and one
\* that judges a running daemon has its PID.
Equipped(h) ==
  /\ h.step \in {"stale", "phase2", "socket", "deploy", "list", "replace",
                 "ping", "owner", "fork", "tunnel", "retunnel"}
       => h.srv \in Servers
  /\ h.step \in {"list", "replace", "ping"} => h.pid \in Daemons

HostInv ==
  /\ daemon \in [Daemons -> [st : {"none", "forked", "up"}, old : BOOLEAN]]
  /\ busy \in BOOLEAN /\ net \in BOOLEAN
  /\ pidFile \in Daemons \cup {None}
  /\ OneDaemonListens

ClientsInv ==
  /\ server \in [Servers -> [tun : BOOLEAN, sock : Daemons \cup {None}]]
  /\ pool \in Servers \cup {None}
  /\ reconnecting \in BOOLEAN /\ backoff \in BOOLEAN
  /\ troubles \in 0..MaxTroubles

ThreadsInv ==
  /\ th \in [PoolThreads -> Hands]
  /\ \A t \in PoolThreads : Equipped(th[t])

PoolInv == HostInv /\ ClientsInv /\ ThreadsInv

LEMMA PoolTyped == PoolInv => PoolTypeOK
<1> SUFFICES ASSUME PoolInv PROVE PoolTypeOK
  OBVIOUS
<1>1. agent \subseteq Daemons
  BY DEF PoolInv, HostInv, OneDaemonListens, Listening
<1>2. th \in [PoolThreads -> [step : Steps, srv : Servers \cup {None},
                              pid : Daemons \cup {None}, again : BOOLEAN]]
  BY DEF PoolInv, ThreadsInv, Hands
<1>3. /\ daemon \in [Daemons -> [st : {"none", "forked", "up"}, old : BOOLEAN]]
      /\ busy \in BOOLEAN /\ net \in BOOLEAN
      /\ pidFile \in Daemons \cup {None}
  BY DEF PoolInv, HostInv
<1>4. /\ server \in [Servers -> [tun : BOOLEAN, sock : Daemons \cup {None}]]
      /\ pool \in Servers \cup {None}
      /\ reconnecting \in BOOLEAN /\ backoff \in BOOLEAN
      /\ troubles \in 0..MaxTroubles
  BY DEF PoolInv, ClientsInv
<1> QED
  BY <1>1, <1>2, <1>3, <1>4, Zenon DEF PoolTypeOK

LEMMA PoolStart == PoolInit => PoolInv
<1> SUFFICES ASSUME PoolInit PROVE PoolInv
  OBVIOUS
<1>1. ClientsInv
  <2>1. server \in [Servers -> [tun : BOOLEAN, sock : Daemons \cup {None}]]
    BY DEF PoolInit, NoServer
  <2>2. troubles \in 0..MaxTroubles
    BY PoolAssumption DEF PoolInit
  <2>3. /\ pool \in Servers \cup {None}
        /\ reconnecting \in BOOLEAN /\ backoff \in BOOLEAN
    <3>1. pool = None /\ reconnecting = FALSE /\ backoff = FALSE
      BY DEF PoolInit
    <3> QED
      BY <3>1
  <2> QED
    BY <2>1, <2>2, <2>3 DEF ClientsInv
<1>2. ThreadsInv
  BY DEF PoolInit, ThreadsInv, Hands, Equipped, Steps, Resting
<1>3. HostInv
  <2>1. CASE daemon = [d \in Daemons |-> NoDaemon] /\ pidFile = None
    BY <2>1 DEF PoolInit, HostInv, NoDaemon, OneDaemonListens, Listening
  <2>2. ASSUME NEW d \in Daemons, NEW old \in BOOLEAN,
               daemon = [x \in Daemons |-> IF x = d
                           THEN [st |-> "up", old |-> old] ELSE NoDaemon],
               pidFile = d
        PROVE  HostInv
    <3>1. daemon \in [Daemons -> [st : {"none", "forked", "up"},
                                  old : BOOLEAN]]
      BY <2>2 DEF NoDaemon
    <3>2. Listening = {d}
      BY <2>2 DEF Listening, NoDaemon
    <3> QED
      BY <2>2, <3>1, <3>2 DEF PoolInit, HostInv, OneDaemonListens
  <2> QED
    BY <2>1, <2>2 DEF PoolInit
<1> QED
  BY <1>1, <1>2, <1>3 DEF PoolInv

-----------------------------------------------------------------------------
(* What the steps do to a host, to the clients and to a thread.            *)

LEMMA KeptHost == ASSUME HostInv, UNCHANGED hostVars PROVE HostInv'
BY DEF HostInv, hostVars, OneDaemonListens, Listening

\* The PTYs of a daemon die with it.
LEMMA KillingKeepsHost ==
  ASSUME HostInv, NEW d,
         daemon' = [daemon EXCEPT ![d] = NoDaemon],
         agent' = agent \ {d}, busy' = FALSE,
         net' \in BOOLEAN, pidFile' \in Daemons \cup {None}
  PROVE  HostInv'
BY DEF HostInv, NoDaemon, OneDaemonListens, Listening

LEMMA PidFileKeepsHost ==
  ASSUME HostInv, UNCHANGED <<daemon, agent, busy, net>>,
         pidFile' \in Daemons \cup {None}
  PROVE  HostInv'
BY DEF HostInv, OneDaemonListens, Listening

LEMMA KeptClients ==
  ASSUME ClientsInv, KeepsPool, UNCHANGED troubles
  PROVE  ClientsInv'
BY DEF ClientsInv, KeepsPool

LEMMA TroubleCounts ==
  ASSUME ClientsInv, Trouble PROVE troubles' \in 0..MaxTroubles
BY PoolAssumption DEF ClientsInv, Trouble

LEMMA StoppedTyped ==
  ASSUME ClientsInv, NEW x
  PROVE  Stopped(x) \in [Servers -> [tun : BOOLEAN,
                                     sock : Daemons \cup {None}]]
BY DEF ClientsInv, Stopped, NoServer

LEMMA RestingEquipped ==
  ASSUME NEW step \in Steps \ {"stale", "phase2", "socket", "deploy", "list",
           "replace", "ping", "owner", "fork", "tunnel", "retunnel"}
  PROVE  /\ [Resting EXCEPT !.step = step] \in Hands
         /\ Equipped([Resting EXCEPT !.step = step])
BY DEF Hands, Resting, Equipped

LEMMA TakingEquipped ==
  ASSUME NEW step \in Steps \ {"list", "replace", "ping"}, NEW x \in Servers
  PROVE  /\ [Resting EXCEPT !.step = step, !.srv = x] \in Hands
         /\ Equipped([Resting EXCEPT !.step = step, !.srv = x])
BY DEF Hands, Resting, Equipped

LEMMA KeptThreads == ASSUME ThreadsInv, UNCHANGED th PROVE ThreadsInv'
BY DEF ThreadsInv

LEMMA HandChanges ==
  ASSUME ThreadsInv, NEW t \in PoolThreads, NEW h \in Hands, Equipped(h),
         th' = [th EXCEPT ![t] = h]
  PROVE  ThreadsInv'
BY DEF ThreadsInv

\* A thread goes on to a step that needs no more than it has.
LEMMA GoingOn ==
  ASSUME ThreadsInv, NEW t \in PoolThreads, NEW step \in Steps,
         Equipped([th[t] EXCEPT !.step = step]), To(t, step)
  PROVE  ThreadsInv'
<1>1. [th[t] EXCEPT !.step = step] \in Hands
  BY DEF ThreadsInv, Hands
<1>2. th' = [th EXCEPT ![t] = [th[t] EXCEPT !.step = step]]
  BY DEF To
<1> QED
  BY <1>1, <1>2, HandChanges

LEMMA GoingOnFree ==
  ASSUME ThreadsInv, NEW t \in PoolThreads,
         NEW step \in Steps \ {"list", "replace", "ping"},
         th[t].srv \in Servers, ToFree(t, step)
  PROVE  ThreadsInv'
<1> DEFINE h == [th[t] EXCEPT !.step = step, !.pid = None]
<1>1. h \in Hands /\ Equipped(h)
  BY DEF ThreadsInv, Hands, Equipped
<1>2. th' = [th EXCEPT ![t] = h]
  BY DEF ToFree
<1> QED
  BY <1>1, <1>2, HandChanges

LEMMA ComingToRest ==
  ASSUME ThreadsInv, NEW t \in PoolThreads, Rests(t)
  PROVE  ThreadsInv'
<1>1. Resting \in Hands /\ Equipped(Resting)
  BY DEF Resting, Hands, Equipped, Steps
<1> QED
  BY <1>1, HandChanges DEF Rests

-----------------------------------------------------------------------------
(* get_remote_worker_server                                                *)

LEMMA LookingKeepsInv ==
  ASSUME PoolInv, NEW t \in PoolThreads,
         Looks(t) \/ RemovesStale(t) \/ Enters(t) \/ Refused(t) \/ Asks(t)
  PROVE  PoolInv'
<1> USE DEF PoolInv
<1>1. th[t] \in Hands /\ Equipped(th[t])
  BY DEF ThreadsInv
<1>2. HostInv'
  BY KeptHost DEF Looks, RemovesStale, Enters, Refused, Asks, KeepsHost
<1>3. CASE Looks(t)
  <2>1. ClientsInv'
    BY <1>3, KeptClients DEF Looks
  <2>2. CASE pool = None
    <3>1. th' = [th EXCEPT ![t] = [Resting EXCEPT !.step = "phase3"]]
      BY <1>3, <2>2 DEF Looks
    <3> QED
      BY <1>2, <2>1, <3>1, RestingEquipped, HandChanges DEF Steps
  <2>3. CASE pool # None
    <3>1. pool \in Servers
      BY <2>3 DEF ClientsInv
    <3>2. \/ \E step \in {"stale", "phase2"} : th' =
               [th EXCEPT ![t] = [Resting EXCEPT !.step = step, !.srv = pool]]
          \/ Rests(t)
      BY <1>3, <2>3 DEF Looks, Rests
    <3>3. CASE Rests(t)
      BY <1>2, <2>1, <3>3, ComingToRest
    <3>4. CASE \E step \in {"stale", "phase2"} : th' =
                 [th EXCEPT ![t] = [Resting EXCEPT !.step = step, !.srv = pool]]
      BY <1>2, <2>1, <3>1, <3>4, TakingEquipped, HandChanges DEF Steps
    <3> QED
      BY <3>2, <3>3, <3>4
  <2> QED
    BY <2>2, <2>3
<1>4. CASE RemovesStale(t)
  <2>1. ClientsInv'
    BY <1>4, StoppedTyped DEF RemovesStale, ClientsInv
  <2>2. ThreadsInv'
    BY <1>4, RestingEquipped, HandChanges DEF RemovesStale, Steps
  <2> QED
    BY <1>2, <2>1, <2>2
<1>5. CASE Enters(t)
  <2>1. ClientsInv'
    BY <1>5 DEF Enters, ClientsInv
  <2>2. \E step \in {"phase3", "socket"} : To(t, step)
    BY <1>5 DEF Enters
  <2>3. \A step \in {"phase3", "socket"} :
          /\ step \in Steps
          /\ Equipped([th[t] EXCEPT !.step = step])
    BY <1>1, <1>5 DEF Enters, Equipped, Hands, Steps
  <2> QED
    BY <1>2, <2>1, <2>2, <2>3, GoingOn
<1>6. CASE Refused(t)
  BY <1>2, <1>6, KeptClients, ComingToRest DEF Refused
<1>7. CASE Asks(t)
  <2>1. Equipped([th[t] EXCEPT !.step = "look"]) /\ "look" \in Steps
    BY <1>1 DEF Equipped, Hands, Steps
  <2> QED
    BY <1>2, <1>7, <2>1, KeptClients, GoingOn DEF Asks
<1> QED
  BY <1>3, <1>4, <1>5, <1>6, <1>7

LEMMA SocketKeepsInv ==
  ASSUME PoolInv, NEW t \in PoolThreads,
         \/ \E d \in Daemons : ReconnectsSocket(t, d)
         \/ SocketFails(t)
         \/ \E x \in Servers : KicksOff(t, x)
  PROVE  PoolInv'
<1> USE DEF PoolInv
<1>1. HostInv'
  BY KeptHost DEF ReconnectsSocket, SocketFails, KicksOff, KeepsHost
<1>2. CASE \E d \in Daemons : ReconnectsSocket(t, d)
  <2>1. PICK d \in Daemons : ReconnectsSocket(t, d)
    BY <1>2
  <2>2. th[t].srv \in Servers
    BY <2>1 DEF ReconnectsSocket, ThreadsInv, Equipped
  <2>3. server[th[t].srv] \in [tun : BOOLEAN, sock : Daemons \cup {None}]
    BY <2>2 DEF ClientsInv
  <2>4. server' \in [Servers -> [tun : BOOLEAN, sock : Daemons \cup {None}]]
    BY <2>1, <2>2, <2>3 DEF ReconnectsSocket, ClientsInv
  <2>5. ClientsInv'
    BY <2>1, <2>4 DEF ReconnectsSocket, ClientsInv
  <2> QED
    BY <1>1, <2>1, <2>5, ComingToRest DEF ReconnectsSocket
<1>3. CASE SocketFails(t)
  <2>1. ClientsInv'
    BY <1>3, StoppedTyped DEF SocketFails, ClientsInv
  <2>2. ThreadsInv'
    BY <1>3, RestingEquipped, HandChanges DEF SocketFails, Steps
  <2> QED
    BY <1>1, <2>1, <2>2
<1>4. ASSUME NEW x \in Servers, KicksOff(t, x) PROVE PoolInv'
  <2> DEFINE h == [Resting EXCEPT !.step = "deploy", !.srv = x]
  <2>1. ClientsInv'
    BY <1>4, StoppedTyped DEF KicksOff, ClientsInv
  <2>2. h \in Hands /\ Equipped(h) /\ Resting \in Hands /\ Equipped(Resting)
    BY TakingEquipped DEF Steps, Resting, Hands, Equipped
  <2>3. th' = [th EXCEPT ![t] = Resting, ![Bg] = h]
    BY <1>4 DEF KicksOff
  <2>4. ThreadsInv'
    <3> HIDE DEF h
    <3> QED
      BY <2>2, <2>3 DEF ThreadsInv
  <2> QED
    BY <1>1, <2>1, <2>4
<1> QED
  BY <1>2, <1>3, <1>4

-----------------------------------------------------------------------------
(* Deployment of the daemon.                                               *)

LEMMA JudgingKeepsInv ==
  ASSUME PoolInv, NEW t \in PoolThreads,
         \/ ReadsPidFile(t) \/ PingAnswered(t) \/ PingUnanswered(t)
         \/ UpgradeDeferred(t) \/ NothingToLose(t)
  PROVE  PoolInv'
<1> USE DEF PoolInv
<1>1. th[t] \in Hands /\ Equipped(th[t])
  BY DEF ThreadsInv
<1>2. ClientsInv'
  BY KeptClients DEF ReadsPidFile, PingAnswered, PingUnanswered,
     UpgradeDeferred, NothingToLose
<1>3. CASE ReadsPidFile(t)
  <2>1. th[t].srv \in Servers
    BY <1>1, <1>3 DEF ReadsPidFile, Equipped
  <2>2. CASE pidFile \in Running
    <3>1. HostInv'
      BY <1>3, <2>2, PidFileKeepsHost DEF ReadsPidFile, HostInv
    <3>2. \E step \in {"list", "ping"} :
            th' = [th EXCEPT ![t].step = step, ![t].pid = pidFile]
      BY <1>3, <2>2 DEF ReadsPidFile
    <3>3. PICK step \in {"list", "ping"} :
            th' = [th EXCEPT ![t].step = step, ![t].pid = pidFile]
      BY <3>2
    <3> DEFINE h == [th[t] EXCEPT !.step = step, !.pid = pidFile]
    <3>4. h \in Hands /\ Equipped(h)
      BY <1>1, <2>1, <2>2 DEF Hands, Equipped, Running, Steps
    <3>5. th' = [th EXCEPT ![t] = h]
      BY <3>3
    <3> QED
      BY <1>2, <3>1, <3>4, <3>5, HandChanges
  <2>3. CASE pidFile \notin Running
    <3>1. pidFile' = None /\ To(t, "owner")
      BY <1>3, <2>3 DEF ReadsPidFile
    <3>2. HostInv'
      BY <1>3, <3>1, PidFileKeepsHost DEF ReadsPidFile
    <3>3. Equipped([th[t] EXCEPT !.step = "owner"]) /\ "owner" \in Steps
      BY <1>1, <2>1 DEF Equipped, Hands, Steps
    <3> QED
      BY <1>2, <3>1, <3>2, <3>3, GoingOn
  <2> QED
    BY <2>2, <2>3
<1>4. CASE PingAnswered(t) \/ PingUnanswered(t) \/ UpgradeDeferred(t)
  <2>1. th[t].srv \in Servers
    BY <1>1, <1>4
       DEF PingAnswered, PingUnanswered, UpgradeDeferred, Equipped
  <2>2. \E step \in {"tunnel", "owner"} : ToFree(t, step)
    BY <1>4 DEF PingAnswered, PingUnanswered, UpgradeDeferred
  <2>3. ThreadsInv'
    BY <2>1, <2>2, GoingOnFree DEF Steps
  <2>4. HostInv'
    BY <1>4, PidFileKeepsHost, KeptHost
       DEF PingAnswered, PingUnanswered, UpgradeDeferred, KeepsHost
  <2> QED
    BY <1>2, <2>3, <2>4
<1>5. CASE NothingToLose(t)
  <2>1. Equipped([th[t] EXCEPT !.step = "replace"]) /\ "replace" \in Steps
    BY <1>1, <1>5 DEF NothingToLose, Equipped, Hands, Steps
  <2>2. HostInv'
    BY <1>5, KeptHost DEF NothingToLose, KeepsHost
  <2> QED
    BY <1>2, <1>5, <2>1, <2>2, GoingOn DEF NothingToLose
<1> QED
  BY <1>3, <1>4, <1>5

LEMMA ReplacingKeepsInv ==
  ASSUME PoolInv, NEW t \in PoolThreads,
         \/ ReplacesOutdated(t) \/ KillsOwner(t)
         \/ \E d \in Daemons : Forks(t, d)
  PROVE  PoolInv'
<1> USE DEF PoolInv
<1>1. th[t] \in Hands /\ Equipped(th[t])
  BY DEF ThreadsInv
<1>2. ClientsInv'
  BY KeptClients DEF ReplacesOutdated, KillsOwner, Forks
<1>3. CASE ReplacesOutdated(t)
  <2>1. HostInv'
    BY <1>3, KillingKeepsHost DEF ReplacesOutdated, Killed, HostInv
  <2>2. th[t].srv \in Servers
    BY <1>1, <1>3 DEF ReplacesOutdated, Equipped
  <2> QED
    BY <1>2, <1>3, <2>1, <2>2, GoingOnFree DEF ReplacesOutdated, Steps
<1>4. CASE KillsOwner(t)
  <2>1. HostInv'
    <3>1. net' \in BOOLEAN /\ None \in Daemons \cup {None}
      BY <1>4 DEF KillsOwner, HostInv
    <3>2. CASE \E d \in Listening : Killed(d) /\ pidFile' = None
      BY <3>1, <3>2, KillingKeepsHost DEF Killed
    <3>3. CASE UNCHANGED <<daemon, agent, busy, pidFile>>
      BY <1>4, <3>3, KeptHost DEF KillsOwner, hostVars
    <3> QED
      BY <1>4, <3>2, <3>3 DEF KillsOwner
  <2>2. Equipped([th[t] EXCEPT !.step = "fork"]) /\ "fork" \in Steps
    BY <1>1, <1>4 DEF KillsOwner, Equipped, Hands, Steps
  <2> QED
    BY <1>2, <1>4, <2>1, <2>2, GoingOn DEF KillsOwner
<1>5. ASSUME NEW d \in Daemons, Forks(t, d) PROVE PoolInv'
  <2>1. HostInv'
    <3>1. d \notin Listening
      BY <1>5 DEF Forks, FreePids, Running, Listening
    <3>2. Listening' = Listening
      BY <1>5, <3>1 DEF Forks, Listening, HostInv
    <3>3. daemon' \in [Daemons -> [st : {"none", "forked", "up"},
                                   old : BOOLEAN]]
      BY <1>5 DEF Forks, HostInv
    <3> QED
      BY <1>5, <3>2, <3>3 DEF Forks, HostInv, OneDaemonListens
  <2>2. Equipped([th[t] EXCEPT !.step = "tunnel"]) /\ "tunnel" \in Steps
    BY <1>1, <1>5 DEF Forks, Equipped, Hands, Steps
  <2> QED
    BY <1>2, <1>5, <2>1, <2>2, GoingOn DEF Forks
<1> QED
  BY <1>3, <1>4, <1>5

LEMMA InstallingKeepsInv ==
  ASSUME PoolInv, NEW t \in PoolThreads,
         StartFails(t) \/ \E d \in Daemons : Installs(t, d)
  PROVE  PoolInv'
<1> USE DEF PoolInv
<1>1. HostInv'
  BY KeptHost DEF StartFails, Installs, KeepsHost
<1>2. th[t].srv \in Servers
  BY DEF StartFails, Installs, ThreadsInv, Equipped
<1>3. CASE StartFails(t)
  <2>1. backoff' \in BOOLEAN
    BY <1>3 DEF StartFails, ClientsInv
  <2>2. ClientsInv'
    BY <1>3, <2>1, StoppedTyped DEF StartFails, ClientsInv
  <2>3. CASE Rests(t)
    BY <1>1, <2>2, <2>3, ComingToRest
  <2>4. CASE th' = [th EXCEPT ![t] = [Resting EXCEPT !.step = "deploy",
                                        !.srv = th[t].srv, !.again = TRUE]]
    <3> DEFINE h == [Resting EXCEPT !.step = "deploy", !.srv = th[t].srv,
                                    !.again = TRUE]
    <3>1. h \in Hands /\ Equipped(h)
      BY <1>2 DEF Hands, Equipped, Resting, Steps
    <3> HIDE DEF h
    <3>2. th' = [th EXCEPT ![t] = h]
      BY <2>4 DEF h
    <3> QED
      BY <1>1, <2>2, <3>1, <3>2, HandChanges
  <2> QED
    BY <1>3, <2>3, <2>4 DEF StartFails
<1>4. ASSUME NEW d \in Daemons, Installs(t, d) PROVE PoolInv'
  <2>1. server' \in [Servers -> [tun : BOOLEAN, sock : Daemons \cup {None}]]
    BY <1>2, <1>4 DEF Installs, ClientsInv
  <2>2. backoff' \in BOOLEAN
    BY <1>4 DEF Installs, ClientsInv
  <2>3. ClientsInv'
    BY <1>2, <1>4, <2>1, <2>2 DEF Installs, ClientsInv
  <2> QED
    BY <1>1, <1>4, <2>3, ComingToRest DEF Installs
<1> QED
  BY <1>3, <1>4

-----------------------------------------------------------------------------
(* force_restart_server and _reconnect_rws_for_host.                       *)

LEMMA ForcingKeepsInv ==
  ASSUME PoolInv, NEW t \in PoolThreads,
         \/ Forces(t) \/ ForceQueries(t) \/ ForcePops(t)
         \/ \E x \in Servers : ForceKills(t, x)
  PROVE  PoolInv'
<1> USE DEF PoolInv
<1>1. th[t] \in Hands /\ Equipped(th[t])
  BY DEF ThreadsInv
<1>2. CASE Forces(t)
  <2> DEFINE h == [Resting EXCEPT !.step = "query", !.srv = pool]
  <2>1. h \in Hands /\ Equipped(h)
    BY DEF ClientsInv, Hands, Equipped, Resting, Steps
  <2>2. th' = [th EXCEPT ![t] = h]
    BY <1>2 DEF Forces
  <2>3. HostInv' /\ ClientsInv'
    BY <1>2, KeptHost, TroubleCounts
       DEF Forces, KeepsHost, KeepsPool, ClientsInv
  <2> HIDE DEF h
  <2> QED
    BY <2>1, <2>2, <2>3, HandChanges
<1>3. CASE ForceQueries(t)
  <2>1. HostInv' /\ ClientsInv'
    BY <1>3, KeptHost, KeptClients DEF ForceQueries, KeepsHost
  <2>2. Equipped([th[t] EXCEPT !.step = "pop"]) /\ "pop" \in Steps
    BY <1>1 DEF Equipped, Hands, Steps
  <2>3. Rests(t) \/ To(t, "pop")
    BY <1>3 DEF ForceQueries
  <2> QED
    BY <2>1, <2>2, <2>3, GoingOn, ComingToRest
<1>4. CASE ForcePops(t)
  <2>1. HostInv' /\ ClientsInv'
    BY <1>4, KeptHost DEF ForcePops, KeepsHost, ClientsInv
  <2>2. Equipped([th[t] EXCEPT !.step = "kill"]) /\ "kill" \in Steps
    BY <1>1 DEF Equipped, Hands, Steps
  <2> QED
    BY <1>4, <2>1, <2>2, GoingOn DEF ForcePops
<1>5. ASSUME NEW x \in Servers, ForceKills(t, x) PROVE PoolInv'
  <2>1. ThreadsInv'
    BY <1>5, TakingEquipped, HandChanges DEF ForceKills, Steps
  <2>2. ClientsInv'
    <3>1. server' \in [Servers -> [tun : BOOLEAN, sock : Daemons \cup {None}]]
      <4> DEFINE s == Stopped(x)
                 y == IF th[t].srv = None THEN x ELSE th[t].srv
      <4>1. s \in [Servers -> [tun : BOOLEAN, sock : Daemons \cup {None}]]
        BY StoppedTyped
      <4>2. server' = [s EXCEPT ![y] = NoServer]
        BY <1>5 DEF ForceKills
      <4> HIDE DEF s, y
      <4> QED
        BY <4>1, <4>2 DEF NoServer
    <3> QED
      BY <1>5, <3>1 DEF ForceKills, ClientsInv
  <2>3. HostInv'
    <3>1. net' \in BOOLEAN /\ pidFile' \in Daemons \cup {None}
      BY <1>5 DEF ForceKills, HostInv
    <3>2. Killed(pidFile) \/ UNCHANGED <<daemon, agent, busy>>
      BY <1>5 DEF ForceKills
    <3>3. CASE Killed(pidFile)
      BY <3>1, <3>3, KillingKeepsHost DEF Killed
    <3>4. CASE UNCHANGED <<daemon, agent, busy>>
      BY <1>5, <3>1, <3>4, PidFileKeepsHost DEF ForceKills
    <3> QED
      BY <3>2, <3>3, <3>4
  <2> QED
    BY <2>1, <2>2, <2>3
<1> QED
  BY <1>2, <1>3, <1>4, <1>5

LEMMA RetunnelingKeepsInv ==
  ASSUME PoolInv, NEW t \in PoolThreads,
         \/ Reconnects(t) \/ RetunnelFails(t)
         \/ \E d \in Daemons : Retunnels(t, d)
  PROVE  PoolInv'
<1> USE DEF PoolInv
<1>1. th[t] \in Hands /\ Equipped(th[t])
  BY DEF ThreadsInv
<1>2. HostInv'
  BY KeptHost DEF Reconnects, RetunnelFails, Retunnels, KeepsHost
<1>3. CASE Reconnects(t)
  <2>1. troubles' \in 0..MaxTroubles
    BY <1>3, TroubleCounts DEF Reconnects
  <2>2. ClientsInv'
    BY <1>3, <2>1, StoppedTyped DEF Reconnects, ClientsInv
  <2>3. CASE pool = None
    <3>1. Equipped([th[t] EXCEPT !.step = "look"]) /\ "look" \in Steps
      BY <1>1 DEF Equipped, Hands, Steps
    <3> QED
      BY <1>2, <1>3, <2>2, <2>3, <3>1, GoingOn DEF Reconnects
  <2>4. CASE pool # None
    <3>1. pool \in Servers
      BY <2>4 DEF ClientsInv
    <3>2. th' = [th EXCEPT ![t] =
                   [Resting EXCEPT !.step = "retunnel", !.srv = pool]]
      BY <1>3, <2>4 DEF Reconnects
    <3> QED
      BY <1>2, <2>2, <3>1, <3>2, TakingEquipped, HandChanges DEF Steps
  <2> QED
    BY <2>3, <2>4
<1>4. CASE RetunnelFails(t)
  <2>1. ClientsInv'
    BY <1>4, StoppedTyped DEF RetunnelFails, ClientsInv
  <2> QED
    BY <1>2, <1>4, <2>1, RestingEquipped, HandChanges
       DEF RetunnelFails, Steps
<1>5. ASSUME NEW d \in Daemons, Retunnels(t, d) PROVE PoolInv'
  <2>1. server' \in [Servers -> [tun : BOOLEAN, sock : Daemons \cup {None}]]
    BY <1>5 DEF Retunnels, ClientsInv
  <2>2. ClientsInv'
    BY <1>5, <2>1 DEF Retunnels, ClientsInv
  <2>3. CASE daemon[d].old
    <3> DEFINE h == [th[t] EXCEPT !.step = "query", !.srv = pool]
    <3>1. h \in Hands /\ Equipped(h)
      BY <1>1 DEF ClientsInv, Hands, Equipped, Steps
    <3>2. th' = [th EXCEPT ![t] = h]
      BY <1>5, <2>3 DEF Retunnels
    <3> HIDE DEF h
    <3> QED
      BY <1>2, <2>2, <3>1, <3>2, HandChanges
  <2>4. CASE ~daemon[d].old
    BY <1>2, <1>5, <2>2, <2>4, ComingToRest DEF Retunnels
  <2> QED
    BY <2>3, <2>4
<1> QED
  BY <1>3, <1>4, <1>5

-----------------------------------------------------------------------------
(* What happens by itself.                                                 *)

LEMMA DaemonsKeepInv ==
  ASSUME PoolInv,
         \/ \E d \in Daemons : Binds(d) \/ AgentEnds(d)
         \/ AgentStarts \/ DaemonTroubles \/ TroubleEnds
  PROVE  PoolInv'
<1> USE DEF PoolInv
<1>1. ThreadsInv'
  BY KeptThreads
     DEF Binds, AgentEnds, AgentStarts, DaemonTroubles, TroubleEnds
<1>2. ClientsInv'
  BY TroubleCounts DEF Binds, AgentEnds, AgentStarts, DaemonTroubles,
     TroubleEnds, KeepsPool, ClientsInv
<1>3. ASSUME NEW d \in Daemons, Binds(d) PROVE HostInv'
  <2>1. agent' = agent /\ UNCHANGED <<busy, net, pidFile>>
    BY <1>3 DEF Binds
  <2>2. CASE Listening = {}
    <3>1. daemon' = [daemon EXCEPT ![d].st = "up"]
      BY <1>3, <2>2 DEF Binds, HostInv
    <3>2. Listening' = {d} /\ agent' = {}
      BY <2>1, <2>2, <3>1 DEF Listening, HostInv, OneDaemonListens
    <3>3. daemon' \in [Daemons -> [st : {"none", "forked", "up"},
                                   old : BOOLEAN]]
      BY <3>1 DEF HostInv
    <3> QED
      BY <2>1, <3>2, <3>3 DEF HostInv, OneDaemonListens
  <2>3. CASE Listening # {}
    <3>1. daemon' = [daemon EXCEPT ![d] = NoDaemon]
      BY <1>3, <2>3 DEF Binds
    <3>2. Listening' = Listening
      BY <1>3, <3>1 DEF Binds, Listening, HostInv, NoDaemon
    <3>3. daemon' \in [Daemons -> [st : {"none", "forked", "up"},
                                   old : BOOLEAN]]
      BY <3>1 DEF HostInv, NoDaemon
    <3> QED
      BY <2>1, <3>2, <3>3 DEF HostInv, OneDaemonListens
  <2> QED
    BY <2>2, <2>3
<1>4. ASSUME NEW d \in Daemons, AgentEnds(d) PROVE HostInv'
  BY <1>4 DEF AgentEnds, HostInv, OneDaemonListens, Listening
<1>5. ASSUME AgentStarts PROVE HostInv'
  <2>1. server[pool].sock \in Listening
    BY <1>5 DEF AgentStarts, Answering
  <2> QED
    BY <1>5, <2>1 DEF AgentStarts, HostInv, OneDaemonListens, Listening
<1>6. ASSUME DaemonTroubles PROVE HostInv'
  <2>1. pidFile' \in Daemons \cup {None} /\ net' \in BOOLEAN
    BY <1>6 DEF DaemonTroubles, HostInv
  <2>2. CASE \E d \in Running : /\ daemon' = [daemon EXCEPT ![d] = NoDaemon]
                                /\ agent' = agent \ {d} /\ busy' = FALSE
    BY <2>1, <2>2, KillingKeepsHost
  <2>3. CASE UNCHANGED <<daemon, agent>> /\ busy' \in BOOLEAN
    BY <2>1, <2>3 DEF HostInv, OneDaemonListens, Listening
  <2> QED
    BY <1>6, <2>2, <2>3 DEF DaemonTroubles, HostInv
<1>7. ASSUME TroubleEnds PROVE HostInv'
  BY <1>7 DEF TroubleEnds, HostInv, OneDaemonListens, Listening
<1> QED
  BY <1>1, <1>2, <1>3, <1>4, <1>5, <1>6, <1>7

LEMMA ClientsKeepInv ==
  ASSUME PoolInv,
         \/ UseFails \/ BackoffEnds \/ \E x \in Servers : PooledTunnelDies(x)
  PROVE  PoolInv'
<1> USE DEF PoolInv
<1>1. HostInv' /\ ThreadsInv'
  BY KeptHost, KeptThreads
     DEF UseFails, BackoffEnds, PooledTunnelDies, KeepsHost
<1>2. troubles' \in 0..MaxTroubles
  BY TroubleCounts DEF UseFails, BackoffEnds, PooledTunnelDies, ClientsInv
<1>3. server' \in [Servers -> [tun : BOOLEAN, sock : Daemons \cup {None}]]
  BY DEF UseFails, BackoffEnds, PooledTunnelDies, ClientsInv
<1> QED
  BY <1>1, <1>2, <1>3 DEF UseFails, BackoffEnds, PooledTunnelDies, ClientsInv

LEMMA PoolStep == PoolInv /\ [PoolNext]_poolVars => PoolInv'
<1> SUFFICES ASSUME PoolInv, [PoolNext]_poolVars PROVE PoolInv'
  OBVIOUS
<1>1. CASE UNCHANGED poolVars
  BY <1>1, KeptHost, KeptThreads DEF PoolInv, poolVars, ClientsInv
<1>2. ASSUME NEW t \in PoolThreads,
             ThreadStep(t) \/ Asks(t) \/ Forces(t) \/ Reconnects(t)
      PROVE  PoolInv'
  BY <1>2, LookingKeepsInv, SocketKeepsInv, JudgingKeepsInv,
     ReplacingKeepsInv, InstallingKeepsInv, ForcingKeepsInv,
     RetunnelingKeepsInv DEF ThreadStep
<1>3. CASE \/ \E d \in Daemons : Binds(d) \/ AgentEnds(d)
           \/ AgentStarts \/ DaemonTroubles \/ TroubleEnds
  BY <1>3, DaemonsKeepInv
<1>4. CASE UseFails \/ BackoffEnds \/ \E x \in Servers : PooledTunnelDies(x)
  BY <1>4, ClientsKeepInv
<1> QED
  BY <1>1, <1>2, <1>3, <1>4 DEF PoolNext

\* Whoever restarts, replaces and redeploys the daemon of a host, and in
\* whatever order: one process at most owns the port, and no agent outlives
\* the daemon that is its parent.
THEOREM OneDaemonAnswers == PoolSpec => []OneDaemonListens
<1>1. PoolInv => OneDaemonListens
  BY DEF PoolInv, HostInv
<1> QED
  BY <1>1, PoolStart, PoolStep, PTL DEF PoolSpec

\* Every variable of a host's client and of its pool keeps its type, whichever
\* of the two moves.
THEOREM RemoteTypesCorrect == MCSpec => []RemoteTypeOK
<1> DEFINE Inv == ClientInv /\ PoolInv
<1>1. MCInit => Inv
  BY ClientStart, PoolStart DEF MCInit
<1>2. Inv /\ [MCNext]_<<part, rvars, poolVars>> => Inv'
  BY ClientStep, PoolStep DEF MCNext
<1>3. Inv => RemoteTypeOK
  BY PoolTyped DEF ClientInv, RemoteTypeOK
<1> QED
  BY <1>1, <1>2, <1>3, PTL DEF MCSpec
=============================================================================
