---------------------------- MODULE HealthCycle ----------------------------
(***************************************************************************)
(* The periodic check of all workers (check_all_workers_health) composed   *)
(* with the checks it starts and the reconnects it triggers.  All sessions *)
(* are on one host, with auto_reconnect on.                                *)
(*                                                                         *)
(* A cycle works from the list of sessions its request read: it marks a    *)
(* stuck "connecting" disconnected, leaves out the sessions of a host      *)
(* under the circuit breaker, checks one session of the host as a probe,   *)
(* then its peers (or fails them with the probe), and finally triggers a   *)
(* reconnect of every session the database says is disconnected.           *)
(***************************************************************************)
EXTENDS HealthCheck

CONSTANT FailureThreshold   \* failures that open the circuit breaker

ASSUME ThresholdAssumption == FailureThreshold \in Nat \ {0}

VARIABLES
  cpc,        \* what the cycle does next
  list,       \* the rows the request listed: their status and PTY id, and
              \* whether their status was by then "connecting" for 120 s
  todo,       \* sessions still to classify, check or reconnect
  pending,    \* sessions to check that have been classified
  probe,      \* outcome of the probe of the host: none, alive, dead
  skipped,    \* skipped_session_ids
  breaker,    \* _HostCircuitBreaker: closed, open, half_open
  failures,   \* its consecutive failures, saturating at the threshold
  old,        \* sessions "connecting" for more than 120 s
  window,     \* sessions in their backoff window
  cooling     \* the breaker is in its cooldown

cycleVars == <<cpc, list, todo, pending, probe, skipped, breaker, failures>>
timeVars  == <<old, window, cooling>>
cvars == <<hvars, cycleVars, timeVars>>

CPCs == {"idle", "classify", "probe", "probing", "peers", "joining",
         "reconnect"}

Unlisted == [stat |-> "idle", snap |-> NoPty, late |-> FALSE]

NoCycle ==
  /\ cpc = "idle"
  /\ list = [s \in Sessions |-> Unlisted]
  /\ todo = {} /\ pending = {} /\ probe = "none" /\ skipped = {}
  /\ breaker = "closed" /\ failures = 0
  /\ old = {} /\ window = {} /\ cooling = FALSE

CInit == HInit /\ NoCycle

-----------------------------------------------------------------------------
\* Time.  A row's last_status_changed_at is renewed by every status write, and
\* a backoff window by every failure and every attempt that follows one.
Rewritten == {s \in Sessions : \/ status'[s] # "connecting"
                               \/ \E t \in Threads : /\ pc[t] = "mark"
                                                     /\ pc'[t] = "start"
                                                     /\ job[t].target = s}
Rearmed == {s \in Sessions :
              \E t \in Threads :
                /\ job[t].target = s /\ restarts' = restarts
                /\ \/ pc[t] = "start" /\ pc'[t] = "wait" /\ attempts[s] > 0
                   \/ pc[t] = "exc" /\ pc'[t] = "free"}
Clock ==
  /\ old' = old \ Rewritten
  /\ window' = {s \in window \cup Rearmed : attempts'[s] > 0}

\* record_success and record_failure of the breaker after one check; opening
\* it (again) starts its cooldown.
Recorded(alive) ==
  LET n == IF failures < FailureThreshold THEN failures + 1 ELSE failures IN
  IF alive THEN breaker' = "closed" /\ failures' = 0 /\ UNCHANGED cooling
  ELSE /\ failures' = n
       /\ IF n = FailureThreshold THEN breaker' = "open" /\ cooling' = TRUE
          ELSE UNCHANGED <<breaker, cooling>>

CycleKeeps == UNCHANGED <<vars, checkVars, timeVars>>

-----------------------------------------------------------------------------
\* The route lists the workers; the in-flight guard admits one cycle.
ListWorkers ==
  /\ cpc = "idle" /\ cpc' = "classify"
  /\ list' = [s \in Sessions |-> [stat |-> status[s], snap |-> ptyId[s],
                                  late |-> s \in old]]
  /\ todo' = {s \in Sessions : status[s] # Absent}
  /\ pending' = {} /\ probe' = "none" /\ skipped' = {}
  /\ UNCHANGED <<breaker, failures>> /\ CycleKeeps

\* Mutant: a stuck "connecting" row is not reset.
ClassifyConnectingOnly(s) ==
  /\ cpc = "classify" /\ s \in todo /\ list[s].stat = "connecting"
  /\ todo' = todo \ {s}
  /\ UNCHANGED <<cpc, list, pending, probe, skipped, breaker, failures>>
  /\ CycleKeeps

\* A listed "connecting" row is never checked; one stuck there is reset.  What
\* counts is the time of the row as it was listed: it is past 120 s if it was
\* when listed or if the row's is now (never earlier than the listed one), may
\* have passed them since, and a row written in between is overwritten.
ClassifyConnecting(s) ==
  /\ cpc = "classify" /\ s \in todo /\ list[s].stat = "connecting"
  /\ todo' = todo \ {s}
  /\ \E overdue \in BOOLEAN :
       /\ list[s].late \/ s \in old => overdue
       /\ status' = IF overdue THEN WithStatus(s, "disconnected") ELSE status
  /\ UNCHANGED <<cpc, list, pending, probe, skipped, breaker, failures,
                 cooling, ptyId, assigned, lockVars, threadVars, memVars,
                 daemonVars, envVars, unsure, checkVars>>
  /\ Clock

ShouldSkip == breaker = "open" /\ cooling

ClassifyRemote(s) ==
  /\ cpc = "classify" /\ s \in todo /\ list[s].stat # "connecting"
  /\ todo' = todo \ {s}
  /\ IF ShouldSkip
       THEN skipped' = skipped \cup {s} /\ UNCHANGED pending
       ELSE pending' = pending \cup {s} /\ UNCHANGED skipped
  /\ breaker' = IF breaker = "open" /\ ~ShouldSkip THEN "half_open"
                ELSE breaker
  /\ UNCHANGED <<cpc, list, probe, failures>> /\ CycleKeeps

Classified ==
  /\ cpc = "classify" /\ todo = {}
  /\ cpc' = IF pending = {} THEN "joining" ELSE "probe"
  /\ UNCHANGED <<list, todo, pending, probe, skipped, breaker, failures>>
  /\ CycleKeeps

\* _check_one on an executor thread, with the listed (by now stale) row.
SubmitCheck(c, s) ==
  /\ hpc[c] = "free" /\ s \in pending
  /\ hjob' = [hjob EXCEPT ![c] = [target |-> s, stat |-> list[s].stat,
                                  snap |-> list[s].snap, found |-> NoPty]]
  /\ HGoto(c, "query")
  /\ pending' = pending \ {s}
  /\ UNCHANGED <<vars, timeVars, list, todo, probe, skipped, breaker,
                 failures>>

SubmitProbe(c, s) == cpc = "probe" /\ cpc' = "probing" /\ SubmitCheck(c, s)
SubmitPeer(c, s) ==
  cpc = "peers" /\ probe # "dead" /\ SubmitCheck(c, s) /\ UNCHANGED cpc

\* A step of a submitted check; its result goes to the breaker and, in the
\* first pass, to host_probe_results.
CheckProceeds(c) ==
  LET alive == hpc[c] \in {"recover", "sshAlive"} IN
  /\ CheckerStep(c)
  /\ IF hpc'[c] # "free"
       THEN UNCHANGED <<cpc, probe, breaker, failures, cooling>>
       ELSE /\ Recorded(alive)
            /\ probe' = IF cpc # "probing" THEN probe
                        ELSE IF alive THEN "alive" ELSE "dead"
            /\ cpc' = IF cpc = "probing" THEN "peers" ELSE cpc
  /\ Clock
  /\ UNCHANGED <<list, todo, pending, skipped>>

\* as_completed(timeout=15): the peers are checked without a probe result.
ProbeTimesOut ==
  /\ cpc = "probing" /\ cpc' = "peers"
  /\ UNCHANGED <<list, todo, pending, probe, skipped, breaker, failures>>
  /\ CycleKeeps

\* "Host unreachable -- apply failure to all peers without checking".
FailPeer(s) ==
  /\ cpc = "peers" /\ probe = "dead" /\ s \in pending
  /\ pending' = pending \ {s}
  /\ status' = WithStatus(s, "disconnected")
  /\ Recorded(FALSE)
  /\ UNCHANGED <<cpc, list, todo, probe, skipped, ptyId, assigned, lockVars,
                 threadVars, memVars, daemonVars, envVars, unsure, checkVars>>
  /\ Clock

PeersDone ==
  /\ cpc = "peers" /\ pending = {} /\ cpc' = "joining"
  /\ UNCHANGED <<list, todo, pending, probe, skipped, breaker, failures>>
  /\ CycleKeeps

\* Query the database for the sessions to reconnect.
Regathers ==
  /\ cpc = "joining" /\ cpc' = "reconnect"
  /\ todo' = {s \in Sessions : status[s] = "disconnected"} \ skipped
  /\ UNCHANGED <<list, pending, probe, skipped, breaker, failures>>
  /\ CycleKeeps

\* The executor has joined its threads.
QueryPool == (\A c \in Checkers : hpc[c] = "free") /\ Regathers

\* Backoff window, or the fresh row is no longer disconnected.
PassOver(s) ==
  /\ cpc = "reconnect" /\ s \in todo
  /\ s \in window \/ status[s] # "disconnected"
  /\ todo' = todo \ {s}
  /\ UNCHANGED <<cpc, list, pending, probe, skipped, breaker, failures>>
  /\ CycleKeeps

AutoReconnect(t, s) ==
  /\ cpc = "reconnect" /\ s \in todo /\ s \notin window
  /\ Ask(t, s)
  /\ todo' = todo \ {s}
  /\ UNCHANGED <<cpc, list, pending, probe, skipped, breaker, failures,
                 checkVars, timeVars>>

CycleEnds ==
  /\ cpc = "reconnect" /\ todo = {} /\ cpc' = "idle"
  /\ list' = [s \in Sessions |-> Unlisted]
  /\ probe' = "none" /\ skipped' = {}
  /\ UNCHANGED <<todo, pending, breaker, failures>> /\ CycleKeeps

ConnectingAges(s) ==
  /\ status[s] = "connecting" /\ s \notin old
  /\ old' = old \cup {s}
  /\ UNCHANGED <<vars, checkVars, cycleVars, window, cooling>>

WindowExpires(s) ==
  /\ s \in window
  /\ window' = window \ {s}
  /\ UNCHANGED <<vars, checkVars, cycleVars, old, cooling>>

CooldownExpires ==
  /\ cooling
  /\ cooling' = FALSE
  /\ UNCHANGED <<vars, checkVars, cycleVars, old, window>>

\* A restart also loses the cycle, the breaker and the backoff.
CServerRestart ==
  /\ HServerRestart
  /\ cpc' = "idle"
  /\ list' = [s \in Sessions |-> Unlisted]
  /\ todo' = {} /\ pending' = {} /\ probe' = "none" /\ skipped' = {}
  /\ breaker' = "closed" /\ failures' = 0 /\ cooling' = FALSE
  /\ Clock

-----------------------------------------------------------------------------
CycleStep ==
  \/ ListWorkers \/ Classified \/ ProbeTimesOut \/ PeersDone \/ QueryPool
  \/ CycleEnds
  \/ \E s \in Sessions : ClassifyConnecting(s) \/ ClassifyRemote(s)
                         \/ FailPeer(s) \/ PassOver(s)
  \/ \E c \in Checkers, s \in Sessions : SubmitProbe(c, s)
  \/ \E c \in Checkers, s \in Sessions : SubmitPeer(c, s)
  \/ \E t \in Threads, s \in Sessions : AutoReconnect(t, s)

CNext ==
  \/ CycleStep
  \/ \E c \in Checkers : CheckProceeds(c)
  \/ /\ \/ \E t \in Threads, s \in Sessions : Ask(t, s)
        \/ \E t \in Threads : ThreadStep(t)
        \/ \E s \in Sessions : RouteStep(s)
        \/ EnvStepButRestart
     /\ Clock /\ UNCHANGED <<checkVars, cycleVars, cooling>>
  \/ CServerRestart
  \/ \E s \in Sessions : ConnectingAges(s) \/ WindowExpires(s)
  \/ CooldownExpires

CSpec == CInit /\ [][CNext]_cvars

\* The dashboard polls health-check-all (AppContext.tsx) while it is open, the
\* executor and the background threads are scheduled, delays elapse and the
\* network comes back.
CFairness ==
  /\ Fairness
  /\ WF_cvars(CycleStep)
  /\ \A c \in Checkers : WF_cvars(CheckProceeds(c))
  /\ \A s \in Sessions :
       WF_cvars(ConnectingAges(s)) /\ WF_cvars(WindowExpires(s))
  /\ WF_cvars(CooldownExpires)

CFairSpec == CSpec /\ CFairness

-----------------------------------------------------------------------------
\* Every variable has its type, those of the cycle, the circuit breaker and
\* the backoff included.
CTypeOK ==
  /\ HTypeOK
  /\ cpc \in CPCs
  /\ list \in [Sessions -> [stat : Statuses \cup {Absent},
                            snap : Ptys \cup {NoPty}, late : BOOLEAN]]
  /\ todo \subseteq Sessions /\ pending \subseteq Sessions
  /\ probe \in {"none", "alive", "dead"}
  /\ skipped \subseteq Sessions
  /\ breaker \in {"closed", "open", "half_open"}
  /\ failures \in 0..FailureThreshold
  /\ old \subseteq Sessions /\ window \subseteq Sessions /\ cooling \in BOOLEAN

\* However agents, network, reconnect threads, checks, breaker and backoff
\* interleave, every session is connected with a running agent again and
\* again: nothing leaves it stuck, in "connecting" or under the breaker.
AlwaysRecovers ==
  \A s \in Sessions : []<>(status[s] \in Connected /\ LiveOf(s) # {})

=============================================================================
