---------------------------- MODULE HealthCheck ----------------------------
(***************************************************************************)
(* Health checks of remote worker sessions running beside the reconnect    *)
(* threads (session/health.py, _check_rws_pty_health).  A checker works    *)
(* from a Session object read earlier, asks the daemon, then writes the    *)
(* row; it never takes the per-session reconnect lock.                     *)
(***************************************************************************)
EXTENDS Reconnect

CONSTANT Checkers   \* threads running a health check

VARIABLES
  hpc,              \* what the checker does next
  hjob              \* its local variables

checkVars == <<hpc, hjob>>
hvars == <<vars, checkVars>>

HPCs == {"free", "query", "ssh", "reattach", "recover", "dead", "sshAlive",
         "lost"}

\* The Session object the check was given, and the PTY found by the query.
HJobs == [target : Sessions, stat : Statuses, snap : Ptys \cup {NoPty},
          found : Ptys \cup {NoPty}]
NoCheck == [target |-> NoJob.target, stat |-> "idle", snap |-> NoPty,
            found |-> NoPty]

HGoto(c, label) == hpc' = [hpc EXCEPT ![c] = label]
HDone(c) ==
  /\ hpc' = [hpc EXCEPT ![c] = "free"]
  /\ hjob' = [hjob EXCEPT ![c] = NoCheck]

\* Everything a checker leaves alone whatever it does.
CheckLeaves == UNCHANGED <<assigned, lockVars, threadVars, attempts, owner,
                           envVars, unsure>>

NoChecks ==
  /\ hpc = [c \in Checkers |-> "free"]
  /\ hjob = [c \in Checkers |-> NoCheck]

HInit == Init /\ NoChecks

\* health_check_session, or _check_one for one session of a bulk check.
StartCheck(c, s) ==
  /\ hpc[c] = "free"
  /\ status[s] # Absent
  /\ hjob' = [hjob EXCEPT ![c] = [target |-> s, stat |-> status[s],
                                  snap |-> ptyId[s], found |-> NoPty]]
  /\ HGoto(c, "query")
  /\ CheckLeaves /\ UNCHANGED <<status, ptyId, step, pty>>

\* pty_list answered: our PTY by id, else an alive one by session id.
QueryDaemon(c) ==
  LET s == hjob[c].target
      mine == hjob[c].snap
      listed == mine \in Ptys /\ pty[mine] \in {"live", "dead"}
      found == IF listed /\ pty[mine] = "live" THEN {mine}
               ELSE IF listed THEN {} ELSE LiveOf(s)
  IN
  /\ hpc[c] = "query" /\ up
  /\ pty' = Reaped(pty)
  /\ \/ found = {} /\ HGoto(c, "dead") /\ UNCHANGED hjob
     \/ \E p \in found :
          /\ hjob' = [hjob EXCEPT ![c].found = p]
          /\ HGoto(c, IF p = mine THEN "recover" ELSE "reattach")
  /\ CheckLeaves /\ UNCHANGED <<status, ptyId, step>>

\* No pooled connection, a dead forward tunnel or a failed query.
DaemonUnavailable(c) ==
  /\ hpc[c] = "query"
  /\ HGoto(c, "ssh")
  /\ CheckLeaves /\ UNCHANGED <<status, ptyId, step, pty, hjob>>

\* Found by session id: restore rws_pty_id, before the slow tmp-dir and
\* version checks.
Reattach(c) ==
  /\ hpc[c] = "reattach"
  /\ ptyId' = WithPty(hjob[c].target, hjob[c].found)
  /\ HGoto(c, "recover")
  /\ CheckLeaves /\ UNCHANGED <<status, step, pty, hjob>>

\* Alive: recover the status if the Session object said it was lost.
Recover(c) ==
  LET s == hjob[c].target IN
  /\ hpc[c] = "recover"
  /\ status' = IF hjob[c].stat \in {"disconnected", "connecting"}
               THEN WithStatus(s, RecoveryStatus(s)) ELSE status
  /\ step' = [step EXCEPT ![s] = "none"]
  /\ HDone(c)
  /\ CheckLeaves /\ UNCHANGED <<ptyId, pty>>

\* Dead or gone: one UPDATE clears rws_pty_id and marks disconnected.
MarkDead(c) ==
  /\ hpc[c] = "dead"
  /\ status' = WithStatus(hjob[c].target, "disconnected")
  /\ ptyId' = WithPty(hjob[c].target, NoPty)
  /\ HDone(c)
  /\ CheckLeaves /\ UNCHANGED <<step, pty>>

\* SSH fallback: is an agent process of this session running?
SshFallback(c) ==
  /\ hpc[c] = "ssh"
  /\ HGoto(c, IF up /\ LiveOf(hjob[c].target) # {} THEN "sshAlive" ELSE "lost")
  /\ CheckLeaves /\ UNCHANGED <<status, ptyId, step, pty, hjob>>

\* The fallback recovers "disconnected" only, not "connecting".
SshRecover(c) ==
  LET s == hjob[c].target IN
  /\ hpc[c] = "sshAlive"
  /\ status' = IF hjob[c].stat = "disconnected"
               THEN WithStatus(s, RecoveryStatus(s)) ELSE status
  /\ step' = [step EXCEPT ![s] = "none"]
  /\ HDone(c)
  /\ CheckLeaves /\ UNCHANGED <<ptyId, pty>>

\* Unreachable: mark disconnected, keep rws_pty_id.
MarkLost(c) ==
  /\ hpc[c] = "lost"
  /\ status' = WithStatus(hjob[c].target, "disconnected")
  /\ HDone(c)
  /\ CheckLeaves /\ UNCHANGED <<ptyId, step, pty>>

CheckerStep(c) ==
  \/ QueryDaemon(c) \/ DaemonUnavailable(c) \/ Reattach(c) \/ Recover(c)
  \/ MarkDead(c) \/ SshFallback(c) \/ SshRecover(c) \/ MarkLost(c)

\* A restart of the process ends the checks in flight.
HServerRestart ==
  /\ ServerRestart
  /\ hpc' = [c \in Checkers |-> "free"]
  /\ hjob' = [c \in Checkers |-> NoCheck]

HNext ==
  \/ /\ \/ \E t \in Threads, s \in Sessions : Ask(t, s)
        \/ \E t \in Threads : ThreadStep(t)
        \/ \E s \in Sessions : RouteStep(s)
        \/ EnvStepButRestart
     /\ UNCHANGED checkVars
  \/ HServerRestart
  \/ \E c \in Checkers, s \in Sessions : StartCheck(c, s)
  \/ \E c \in Checkers : CheckerStep(c)

HSpec == HInit /\ [][HNext]_hvars

-----------------------------------------------------------------------------
\* Every variable has its type, those of the checks included.
HTypeOK ==
  /\ TypeOK
  /\ hpc \in [Checkers -> HPCs]
  /\ hjob \in [Checkers -> HJobs]

\* rws_pty_id is never the id of another session's agent, or of none: the
\* browser attaches, and delete destroys, by that id alone.
RowPtyIsOwn ==
  \A s \in Sessions :
    ptyId[s] # NoPty => owner[ptyId[s]] = s /\ pty[ptyId[s]] # "unused"

\* However old the Session object it was given, a check that is answered
\* concludes "PTY dead or gone" only when no agent of the session runs: a dead
\* PTY under the old id is never listed beside a live one that replaced it.
CheckSeesTheAgent ==
  [][\A c \in Checkers :
       /\ hpc[c] = "query" /\ hpc'[c] = "dead"
       /\ hjob[c].target \notin unsure
       => LiveOf(hjob[c].target) = {}]_hvars

=============================================================================
