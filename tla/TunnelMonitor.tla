--------------------------- MODULE TunnelMonitor ---------------------------
(***************************************************************************)
(* The tunnel monitor (session/tunnel_monitor.py) beside the other callers *)
(* of ReverseTunnel: the reconnects of the health cycle and the tunnel     *)
(* check of a health check.  Sessions are not deleted here.                *)
(***************************************************************************)
EXTENDS ReverseTunnel

CONSTANTS
  Monitor,      \* the thread of tunnel_health_loop
  ProbeEvery,   \* deep_probe_every: cycles per connectivity probe
  MaxChecks     \* bound: health checks that see a dead tunnel

ASSUME MonitorAssumption ==
  /\ Monitor \in Threads /\ Threads # {Monitor}
  /\ ProbeEvery \in Nat \ {0} /\ MaxChecks \in Nat

VARIABLES
  checks,  \* health checks so far that saw a dead tunnel
  status,  \* sessions.status; connected statuses are "waiting"
  mpc,     \* sleeping, checking, or in _restart_tunnel
  cycle,   \* cycle % ProbeEvery
  mtodo,   \* listed sessions still to be checked
  mprobe,  \* needs_probe
  mbad,    \* probed and unhealthy
  mlost    \* newly_disconnected

monitorVars == <<mpc, cycle, mtodo, mprobe, mbad, mlost>>
rowVars == <<status, checks>>
mvars == <<uvars, rowVars, monitorVars>>

MInit ==
  /\ UInit
  /\ status \in [Sessions -> {"waiting", "disconnected"}]
  /\ checks = 0
  /\ mpc = "sleep" /\ cycle = 0
  /\ mtodo = {} /\ mprobe = {} /\ mbad = {} /\ mlost = {}

DeepProbe == cycle = 0

\* probe_tunnel_connectivity: curl on the host reaches the orchestrator
\* through whichever connection holds the port.
PortAnswers == up /\ holder # NoProc /\ proc[holder] = "bound"

-----------------------------------------------------------------------------
(* One cycle of _check_all_tunnels.                                        *)

StartCycle ==
  /\ mpc = "sleep" /\ recovering = {} /\ tpc[Monitor] = "idle"
  /\ mpc' = "check"
  /\ cycle' = (cycle + 1) % ProbeEvery
  /\ mtodo' = {s \in Sessions : status[s] = "waiting"}
  /\ UNCHANGED <<uvars, rowVars, mprobe, mbad, mlost>>

CheckAlive(s) ==
  /\ mpc = "check" /\ s \in mtodo /\ Alive(entry[s])
  /\ mtodo' = mtodo \ {s}
  /\ mprobe' = IF DeepProbe THEN mprobe \cup {s} ELSE mprobe
  /\ UNCHANGED <<uvars, rowVars, mpc, cycle, mbad, mlost>>

CheckDead(s) ==
  /\ mpc = "check" /\ s \in mtodo
  /\ SeeDead(Monitor, s)
  /\ mtodo' = mtodo \ {s}
  /\ mpc' = "restart"
  /\ UNCHANGED <<rowVars, cycle, mprobe, mbad, mlost>>

\* check_connectivity, after all fast checks.
Probe(s) ==
  /\ mpc = "check" /\ mtodo = {} /\ s \in mprobe
  /\ mprobe' = mprobe \ {s}
  /\ mbad' = IF Alive(entry[s]) /\ PortAnswers THEN mbad ELSE mbad \cup {s}
  /\ entry' = [entry EXCEPT ![s] = IF Alive(@) THEN @ ELSE NoProc]
  /\ UNCHANGED <<failures, tunnelPid, recovering, procVars, threadVars,
                 envVars, rowVars, mpc, cycle, mtodo, mlost>>

RestartUnhealthy(s) ==
  /\ mpc = "check" /\ mtodo = {} /\ mprobe = {} /\ s \in mbad
  /\ mbad' = mbad \ {s}
  /\ mpc' = "restart"
  /\ Set(Monitor, Job(s, "check")) /\ Goto(Monitor, "none")
  /\ UNCHANGED <<managerVars, tunnelPid, recovering, procVars, envVars,
                 rowVars, cycle, mtodo, mprobe, mlost>>

-----------------------------------------------------------------------------
(* _restart_tunnel: give up after too many failures, else restart.         *)

GivenUp(s) == failures[s] >= MaxFailures

MonitorGivesUp ==
  LET s == tjob[Monitor].s IN
  /\ mpc = "restart" /\ tpc[Monitor] = "none" /\ tjob[Monitor].kind = "check"
  /\ GivenUp(s)
  /\ mlost' = mlost \cup {s}
  /\ mpc' = "check"
  /\ Goto(Monitor, "idle") /\ Set(Monitor, NoJob)
  /\ UNCHANGED <<managerVars, tunnelPid, recovering, procVars, envVars,
                 rowVars, cycle, mtodo, mprobe, mbad>>

MonitorRestarts ==
  /\ mpc = "restart" /\ ~GivenUp(tjob[Monitor].s)
  /\ RestartAfterCheck(Monitor)
  /\ UNCHANGED <<rowVars, monitorVars>>

MonitorReturns ==
  /\ mpc = "restart" /\ Return(Monitor)
  /\ mlost' = IF tpc[Monitor] = "none" THEN mlost \cup {tjob[Monitor].s}
                                       ELSE mlost
  /\ mpc' = "check"
  /\ UNCHANGED <<rowVars, cycle, mtodo, mprobe, mbad>>

CycleDone == mpc = "check" /\ mtodo = {} /\ mprobe = {} /\ mbad = {}

\* Mutant: the code before docs/learnings/009.
MarkNobody ==
  /\ CycleDone
  /\ mlost' = {} /\ mpc' = "sleep"
  /\ UNCHANGED <<uvars, rowVars, cycle, mtodo, mprobe, mbad>>

\* Mutant: "error", which is no status of the state machine.
MarkLostMislabelled ==
  /\ CycleDone
  /\ status' = [s \in Sessions |-> IF s \in mlost THEN "error" ELSE status[s]]
  /\ mlost' = {} /\ mpc' = "sleep"
  /\ UNCHANGED <<uvars, checks, cycle, mtodo, mprobe, mbad>>

\* The rows are marked without being read again.
MarkLostTunnels ==
  /\ CycleDone
  /\ status' = [s \in Sessions |->
                  IF s \in mlost THEN "disconnected" ELSE status[s]]
  /\ mlost' = {} /\ mpc' = "sleep"
  /\ UNCHANGED <<uvars, checks, cycle, mtodo, mprobe, mbad>>

-----------------------------------------------------------------------------
(* The other callers: reconnects and health checks.                        *)

Reconnecters == Threads \ {Monitor}

\* The health cycle picks up disconnected sessions, and connecting ones that
\* nobody works on.
ReconnectStarts(t, s) ==
  /\ status[s] \in {"disconnected", "connecting"}
  /\ \A u \in Reconnecters : tpc[u] # "idle" => tjob[u].s # s
  /\ Call(t, s, "restart")
  /\ status' = [status EXCEPT ![s] = "connecting"]
  /\ UNCHANGED <<checks, monitorVars>>

\* _check_rws_pty_health, step 1.
HealthChecks(t, s) ==
  /\ SeeDead(t, s)
  /\ checks < MaxChecks /\ checks' = checks + 1
  /\ UNCHANGED <<status, monitorVars>>

HealthRestarts(t) == RestartAfterCheck(t) /\ UNCHANGED <<rowVars, monitorVars>>

\* Pipeline and check go on to the agent whether the tunnel started or not,
\* and end connected when the host answers.
CallerReturns(t) ==
  LET s == tjob[t].s IN
  /\ Return(t)
  /\ status' = [status EXCEPT ![s] = IF up THEN "waiting"
                                           ELSE "disconnected"]
  /\ UNCHANGED <<checks, monitorVars>>

MServerRestart ==
  /\ TunnelServerRestart
  /\ mpc' = "sleep" /\ cycle' = 0
  /\ mtodo' = {} /\ mprobe' = {} /\ mbad' = {} /\ mlost' = {}
  /\ UNCHANGED rowVars

-----------------------------------------------------------------------------
MonitorStep ==
  \/ StartCycle
  \/ \E s \in Sessions :
       CheckAlive(s) \/ CheckDead(s) \/ Probe(s) \/ RestartUnhealthy(s)
  \/ MonitorGivesUp \/ MonitorRestarts \/ MonitorReturns \/ MarkLostTunnels

\* Recovery runs in the starting process; any thread of the model will do.
Recovers == \E s \in Sessions : Recover(Monitor, s)
RecoveryReturns ==
  /\ mpc = "sleep" /\ Return(Monitor)

KeepMonitor(A) == A /\ UNCHANGED <<rowVars, monitorVars>>

MNext ==
  \/ MonitorStep
  \/ KeepMonitor(Recovers) \/ KeepMonitor(RecoveryReturns)
  \/ \E t \in Threads : KeepMonitor(ManagerStep(t))
  \/ \E t \in Reconnecters, s \in Sessions :
       ReconnectStarts(t, s) \/ HealthChecks(t, s)
  \/ \E t \in Reconnecters : HealthRestarts(t) \/ CallerReturns(t)
  \/ KeepMonitor(ProcStep)
  \/ MServerRestart

\* The loop runs every minute, the browser polls the health cycle, manager
\* calls end by their timeouts, outages end, and the sshd of a dead client
\* notices.  Handshakes finish now and then before the process is killed.
MFairness ==
  /\ WF_mvars(MonitorStep)
  /\ WF_mvars(KeepMonitor(Recovers))
  /\ WF_mvars(KeepMonitor(RecoveryReturns))
  /\ \A t \in Threads : WF_mvars(KeepMonitor(ManagerStep(t)))
  /\ \A t \in Reconnecters :
       /\ WF_mvars(\E s \in Sessions : ReconnectStarts(t, s))
       /\ WF_mvars(HealthRestarts(t)) /\ WF_mvars(CallerReturns(t))
  /\ WF_mvars(KeepMonitor(NetworkUp))
  /\ WF_mvars(KeepMonitor(ZombieExpires))
  /\ \A p \in Procs : SF_mvars(KeepMonitor(Connects(p)))

MSpec == MInit /\ [][MNext]_mvars /\ MFairness

-----------------------------------------------------------------------------
\* Every variable has its type, those of the monitor included.
MTypeOK ==
  /\ UTypeOK
  /\ status \in [Sessions ->
                   {"waiting", "connecting", "disconnected"}]
  /\ checks \in 0..MaxChecks
  /\ mpc \in {"sleep", "check", "restart"}
  /\ cycle \in 0..(ProbeEvery - 1)
  /\ mtodo \subseteq Sessions /\ mprobe \subseteq Sessions
  /\ mbad \subseteq Sessions /\ mlost \subseteq Sessions

\* The point of the monitor (tunnel_monitor.py:35-43, docs/learnings/009 and
\* 014): whatever happens to the tunnels, the network and the server, the host
\* of the sessions reaches the orchestrator again and again.
TunnelRecovers ==
  []<>PortAnswers

=============================================================================
