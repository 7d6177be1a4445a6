--------------------------- MODULE ReverseTunnel ---------------------------
(***************************************************************************)
(* The reverse SSH tunnels of the sessions of one host (session/tunnel.py, *)
(* ReverseTunnelManager).  Reconnects, health checks, the monitor, setups  *)
(* and deletes call it from threads of their own; the lock covers single   *)
(* accesses to the registry only.  All tunnels of a host want the same     *)
(* remote port, which one SSH connection can hold; the remote sshd may     *)
(* hold it after its client died.  Tunnel processes outlive the server.    *)
(***************************************************************************)
EXTENDS Naturals, FiniteSets

CONSTANTS
  Sessions, Threads,
  Procs,        \* PIDs; one is used again when nothing refers to it
  NoProc,       \* no process
  MaxFailures,  \* MAX_CONSECUTIVE_FAILURES; the counter saturates here
  MaxFaults     \* bound: outages, tunnels that die by themselves and restarts

ASSUME NoProcAssumption == NoProc \notin Procs
ASSUME TunnelBounds ==
  /\ Sessions # {} /\ Procs # {}
  /\ MaxFailures \in Nat \ {0} /\ MaxFaults \in Nat

VARIABLES
  entry,       \* _tunnels: the process registered for a session
  failures,    \* _failure_counts
  tunnelPid,   \* sessions.tunnel_pid
  recovering,  \* sessions recover_tunnels has still to recover at startup
  proc,        \* life of each process
  of,          \* the session whose log the process writes to
  holder,      \* the process whose sshd holds the remote port
  up,          \* the host answers
  tpc, tjob,   \* what a thread does next in the manager, and its locals
  faults       \* outages, deaths and restarts so far

managerVars == <<entry, failures>>
procVars    == <<proc, of, holder>>
threadVars  == <<tpc, tjob>>
envVars     == <<up, faults>>
uvars == <<managerVars, tunnelPid, recovering, procVars, threadVars, envVars>>

ProcStates == {"dead", "connecting", "bound", "refused"}
TPCs == {"idle", "pop", "kill", "orphans", "spawn", "inspect", "port", "save",
         "clear", "adopt", "cleanup", "ok", "none"}
Kinds == {"restart", "start", "stop", "recover", "check"}
TJobs == [s : Sessions, kind : Kinds, old : Procs \cup {NoProc},
          mine : Procs \cup {NoProc}, retry : BOOLEAN, refused : BOOLEAN]
Job(s, kind) == [s |-> s, kind |-> kind, old |-> NoProc, mine |-> NoProc,
                 retry |-> FALSE, refused |-> FALSE]
NoJob == Job(CHOOSE s \in Sessions : TRUE, "check")

Alive(p) == p # NoProc /\ proc[p] # "dead"
LiveProcs == {p \in Procs : Alive(p)}

\* Processes nothing refers to any more.
FreshProcs ==
  {p \in Procs : /\ ~Alive(p) /\ holder # p
                 /\ \A s \in Sessions : entry[s] # p /\ tunnelPid[s] # p
                 /\ \A t \in Threads : tjob[t].old # p /\ tjob[t].mine # p}

\* SIGTERM, then SIGKILL; the host notices when the network is up.
Kill(ps) ==
  /\ proc' = [p \in Procs |-> IF p \in ps THEN "dead" ELSE proc[p]]
  /\ holder' = IF holder \in ps /\ Alive(holder) /\ up THEN NoProc ELSE holder

Goto(t, label) == tpc' = [tpc EXCEPT ![t] = label]
Set(t, job) == tjob' = [tjob EXCEPT ![t] = job]

UInit ==
  /\ entry = [s \in Sessions |-> NoProc]
  /\ failures = [s \in Sessions |-> 0]
  /\ tunnelPid = [s \in Sessions |-> NoProc]
  /\ recovering = {}
  /\ proc = [p \in Procs |-> "dead"]
  /\ of = [p \in Procs |-> NoJob.s]
  /\ holder = NoProc
  /\ up = TRUE
  /\ tpc = [t \in Threads |-> "idle"]
  /\ tjob = [t \in Threads |-> NoJob]
  /\ faults = 0

-----------------------------------------------------------------------------
(* restart_tunnel, start_tunnel and stop_tunnel.  Startup recovers every   *)
(* tunnel before the server answers its first request.                     *)

Call(t, s, kind) ==
  /\ tpc[t] = "idle" /\ recovering = {}
  /\ kind \in {"restart", "start", "stop"}
  /\ Set(t, Job(s, kind))
  /\ Goto(t, "pop")
  /\ UNCHANGED <<managerVars, tunnelPid, recovering, procVars, envVars>>

\* Pop the entry under the lock.
PopEntry(t) ==
  LET s == tjob[t].s IN
  /\ tpc[t] = "pop"
  /\ entry' = [entry EXCEPT ![s] = NoProc]
  /\ Set(t, [tjob[t] EXCEPT !.old = entry[s]])
  /\ Goto(t, "kill")
  /\ UNCHANGED <<failures, tunnelPid, recovering, procVars, envVars>>

\* Kill what was popped.  restart_tunnel goes on to start_tunnel, which pops
\* again; a first attempt then kills the host's orphans, a retry does not.
KillPopped(t) ==
  LET j == tjob[t] IN
  /\ tpc[t] = "kill"
  /\ Kill({j.old})
  /\ Set(t, [j EXCEPT !.old = NoProc,
                      !.kind = IF @ = "restart" THEN "start" ELSE @])
  /\ Goto(t, CASE j.kind = "restart" -> "pop"
               [] j.kind = "stop"    -> "clear"
               [] OTHER              -> IF j.retry THEN "spawn" ELSE "orphans")
  /\ UNCHANGED <<managerVars, tunnelPid, recovering, of, envVars>>

\* _kill_orphan_tunnels: every reverse tunnel ps shows for the host.
KillOrphans(t) ==
  /\ tpc[t] = "orphans"
  /\ Kill(LiveProcs)
  /\ Set(t, [tjob[t] EXCEPT !.kind = "start"])
  /\ Goto(t, IF tjob[t].kind = "recover" THEN "pop" ELSE "spawn")
  /\ UNCHANGED <<managerVars, tunnelPid, recovering, of, envVars>>

Spawn(t) ==
  LET p == CHOOSE q \in FreshProcs : TRUE IN
  /\ tpc[t] = "spawn" /\ FreshProcs # {}
  /\ proc' = [proc EXCEPT ![p] = "connecting"]
  /\ of' = [of EXCEPT ![p] = tjob[t].s]
  /\ Set(t, [tjob[t] EXCEPT !.mine = p, !.refused = FALSE])
  /\ Goto(t, "inspect")
  /\ UNCHANGED <<managerVars, tunnelPid, recovering, holder, envVars>>

-----------------------------------------------------------------------------
(* Three seconds after Popen start_tunnel looks at its process and at what *)
(* has been appended to the session's log.                                 *)

Failed(t) ==
  /\ failures' = [failures EXCEPT ![tjob[t].s] =
                    IF @ < MaxFailures THEN @ + 1 ELSE @]
  /\ recovering' = recovering \ {tjob[t].s}
  /\ Goto(t, "none") /\ Set(t, Job(tjob[t].s, tjob[t].kind))

\* Exited: try again once with a refreshed SSH configuration, or fail.
InspectDead(t) ==
  LET j == tjob[t] IN
  /\ tpc[t] = "inspect" /\ ~Alive(j.mine)
  /\ \/ /\ ~j.retry
        /\ Set(t, [Job(j.s, "start") EXCEPT !.retry = TRUE])
        /\ Goto(t, "pop")
        /\ UNCHANGED <<failures, recovering>>
     \/ Failed(t)
  /\ UNCHANGED <<entry, tunnelPid, procVars, envVars>>

\* "remote port forwarding failed" in the log, which all tunnels of the
\* session share: kill the process; the first time, free the port and retry.
InspectRefused(t) ==
  LET j == tjob[t] IN
  /\ tpc[t] = "inspect" /\ Alive(j.mine) /\ j.refused
  /\ Kill({j.mine})
  /\ IF j.retry THEN Failed(t)
                ELSE /\ Goto(t, "port")
                     /\ UNCHANGED <<failures, recovering, tjob>>
  /\ UNCHANGED <<entry, tunnelPid, of, envVars>>

\* _kill_remote_port_holder, which may not work (no fuser on the host).
KillPortHolder(t) ==
  /\ tpc[t] = "port"
  /\ \/ /\ up /\ holder' = NoProc
        /\ proc' = [p \in Procs |-> IF p = holder THEN "dead" ELSE proc[p]]
     \/ UNCHANGED <<proc, holder>>
  /\ Set(t, [Job(tjob[t].s, "start") EXCEPT !.retry = TRUE])
  /\ Goto(t, "pop")
  /\ UNCHANGED <<managerVars, tunnelPid, recovering, of, envVars>>

\* Alive and nothing refused so far, which a slow handshake looks like too.
Register(t) ==
  LET j == tjob[t] IN
  /\ tpc[t] = "inspect" /\ Alive(j.mine) /\ ~j.refused
  /\ entry' = [entry EXCEPT ![j.s] = j.mine]
  /\ failures' = [failures EXCEPT ![j.s] = 0]
  /\ Goto(t, "save")
  /\ UNCHANGED <<tunnelPid, recovering, procVars, tjob, envVars>>

\* The caller stores the PID that was returned.
SavePid(t) ==
  LET j == tjob[t] IN
  /\ tpc[t] = "save"
  /\ tunnelPid' = [tunnelPid EXCEPT ![j.s] = j.mine]
  /\ recovering' = recovering \ {j.s}
  /\ Goto(t, "ok") /\ Set(t, Job(j.s, j.kind))
  /\ UNCHANGED <<managerVars, procVars, envVars>>

\* stop_tunnel also forgets the failures.
ClearFailures(t) ==
  /\ tpc[t] = "clear"
  /\ failures' = [failures EXCEPT ![tjob[t].s] = 0]
  /\ Goto(t, "ok")
  /\ UNCHANGED <<entry, tunnelPid, recovering, procVars, tjob, envVars>>

Return(t) ==
  /\ tpc[t] \in {"ok", "none"} /\ tjob[t].kind # "check"
  /\ Goto(t, "idle") /\ Set(t, NoJob)
  /\ UNCHANGED <<managerVars, tunnelPid, recovering, procVars, envVars>>

-----------------------------------------------------------------------------
(* is_alive, and what its callers do when it says no.                      *)

\* A live tunnel changes nothing; a dead one is also unregistered.
SeeDead(t, s) ==
  /\ tpc[t] = "idle" /\ recovering = {}
  /\ ~Alive(entry[s])
  /\ Set(t, [Job(s, "check") EXCEPT !.old = entry[s]])
  /\ Goto(t, IF entry[s] = NoProc THEN "none" ELSE "cleanup")
  /\ UNCHANGED <<managerVars, tunnelPid, recovering, procVars, envVars>>

\* Mutant: the entry is not compared.
CleanupAny(t) ==
  /\ tpc[t] = "cleanup"
  /\ entry' = [entry EXCEPT ![tjob[t].s] = NoProc]
  /\ Goto(t, "none")
  /\ UNCHANGED <<failures, tunnelPid, recovering, procVars, tjob, envVars>>

\* _cleanup_dead_entry: drop the entry "only if it's still the same".
CleanupDead(t) ==
  LET j == tjob[t] IN
  /\ tpc[t] = "cleanup"
  /\ entry' = [entry EXCEPT ![j.s] = IF @ = j.old THEN NoProc ELSE @]
  /\ Goto(t, "none")
  /\ UNCHANGED <<failures, tunnelPid, recovering, procVars, tjob, envVars>>

\* The caller restarts what it saw dead, whatever is registered by now.
RestartAfterCheck(t) ==
  /\ tpc[t] = "none" /\ tjob[t].kind = "check"
  /\ Set(t, Job(tjob[t].s, "restart"))
  /\ Goto(t, "pop")
  /\ UNCHANGED <<managerVars, tunnelPid, recovering, procVars, envVars>>

\* recover_tunnel, one session after the other: adopt the stored process if
\* it is still a tunnel to the host, else kill the orphans and start afresh.
Recover(t, s) ==
  /\ s \in recovering
  /\ \A u \in Threads : tpc[u] = "idle"
  /\ LET p == tunnelPid[s] IN
       IF Alive(p)
         THEN /\ entry' = [entry EXCEPT ![s] = p]
              /\ Set(t, [Job(s, "recover") EXCEPT !.mine = p])
              /\ Goto(t, "save")
         ELSE /\ Set(t, Job(s, "recover"))
              /\ Goto(t, "orphans")
              /\ UNCHANGED entry
  /\ UNCHANGED <<failures, tunnelPid, recovering, procVars, envVars>>

-----------------------------------------------------------------------------
(* The SSH processes, the network and the server process.                  *)

Fault == faults < MaxFaults /\ faults' = faults + 1

\* Bound to the remote port, or refused because another connection holds it;
\* the refusal is appended to a log that starts of the session may be reading.
Connects(p) ==
  /\ proc[p] = "connecting" /\ up
  /\ IF holder = NoProc
       THEN /\ proc' = [proc EXCEPT ![p] = "bound"]
            /\ holder' = p
            /\ UNCHANGED tjob
       ELSE /\ proc' = [proc EXCEPT ![p] = "refused"]
            /\ tjob' = [t \in Threads |->
                 [tjob[t] EXCEPT !.refused =
                    @ \/ (tpc[t] = "inspect" /\ tjob[t].s = of[p])]]
            /\ UNCHANGED holder
  /\ UNCHANGED <<managerVars, tunnelPid, recovering, of, tpc, envVars>>

\* Without a network ssh exits, and the sshd it spoke to does not notice.
LosesHost(p) ==
  /\ Alive(p) /\ ~up
  /\ proc' = [proc EXCEPT ![p] = "dead"]
  /\ UNCHANGED <<managerVars, tunnelPid, recovering, of, holder, threadVars,
                 envVars>>

Dies(p) ==
  /\ Alive(p) /\ Fault
  /\ Kill({p})
  /\ UNCHANGED <<managerVars, tunnelPid, recovering, of, threadVars, up>>

\* The sshd of a dead client gives up at last.
ZombieExpires ==
  /\ holder # NoProc /\ ~Alive(holder)
  /\ holder' = NoProc
  /\ UNCHANGED <<managerVars, tunnelPid, recovering, proc, of, threadVars,
                 envVars>>

NetworkDown ==
  /\ up /\ up' = FALSE /\ Fault
  /\ UNCHANGED <<managerVars, tunnelPid, recovering, procVars, threadVars>>

NetworkUp ==
  /\ ~up /\ up' = TRUE
  /\ UNCHANGED <<managerVars, tunnelPid, recovering, procVars, threadVars,
                 faults>>

TunnelServerRestart ==
  /\ Fault
  /\ entry' = [s \in Sessions |-> NoProc]
  /\ failures' = [s \in Sessions |-> 0]
  /\ recovering' = Sessions
  /\ tpc' = [t \in Threads |-> "idle"]
  /\ tjob' = [t \in Threads |-> NoJob]
  /\ UNCHANGED <<tunnelPid, procVars, up>>

-----------------------------------------------------------------------------
ManagerStep(t) ==
  \/ PopEntry(t) \/ KillPopped(t) \/ KillOrphans(t) \/ Spawn(t)
  \/ InspectDead(t) \/ InspectRefused(t) \/ KillPortHolder(t) \/ Register(t)
  \/ SavePid(t) \/ CleanupDead(t)

ProcStep ==
  \/ \E p \in Procs : Connects(p) \/ LosesHost(p) \/ Dies(p)
  \/ ZombieExpires \/ NetworkDown \/ NetworkUp

UNext ==
  \/ \E t \in Threads, s \in Sessions :
       \/ Call(t, s, "restart") \/ Call(t, s, "start") \/ Call(t, s, "stop")
       \/ SeeDead(t, s) \/ Recover(t, s)
  \/ \E t \in Threads : ManagerStep(t) \/ ClearFailures(t) \/ Return(t)
                        \/ RestartAfterCheck(t)
  \/ ProcStep
  \/ TunnelServerRestart

USpec == UInit /\ [][UNext]_uvars

-----------------------------------------------------------------------------
\* Every variable has its type: the registry, the SSH processes, the callers.
UTypeOK ==
  /\ entry \in [Sessions -> Procs \cup {NoProc}]
  /\ failures \in [Sessions -> 0..MaxFailures]
  /\ tunnelPid \in [Sessions -> Procs \cup {NoProc}]
  /\ recovering \subseteq Sessions
  /\ proc \in [Procs -> ProcStates]
  /\ of \in [Procs -> Sessions]
  /\ holder \in Procs \cup {NoProc}
  /\ up \in BOOLEAN
  /\ tpc \in [Threads -> TPCs] /\ tjob \in [Threads -> TJobs]
  /\ faults \in 0..MaxFaults

\* A check that found a dead process never unregisters the tunnel that a
\* concurrent restart put in its place.
CleanupSparesTheNew ==
  [][\A t \in Threads :
       tpc[t] = "cleanup" /\ tpc'[t] = "none"
       => \A s \in Sessions : Alive(entry[s]) => entry'[s] = entry[s]]_uvars

\* What the docstring of restart_tunnel says and the code does not do: "Holds
\* the internal lock across stop+start to prevent concurrent restarts from
\* creating orphaned SSH processes."  When no call is running, every tunnel
\* process is registered.
NoOrphanTunnels ==
  recovering = {} /\ (\A t \in Threads : tpc[t] = "idle")
  => \A p \in LiveProcs : \E s \in Sessions : entry[s] = p

=============================================================================
