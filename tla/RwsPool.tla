------------------------------- MODULE RwsPool -------------------------------
(***************************************************************************)
(* The pool of daemon clients (terminal/_rws_pool.py) for one host, with   *)
(* the deployment of the daemon there (terminal/_rws_client.py start, the  *)
(* end of terminal/_rws_daemon.py) and the two callers that replace        *)
(* clients: force_restart_server and _reconnect_rws_for_host.  The state   *)
(* is shared by threads here and, through a PID file and a port, by        *)
(* processes there.                                                        *)
(***************************************************************************)
EXTENDS Naturals, FiniteSets

CONSTANTS
  Users,       \* threads that ask the pool for a server
  Bg,          \* the background thread of _starting
  Daemons,     \* process ids on the host
  Servers,     \* RemoteWorkerServer objects
  None,        \* null
  MaxTroubles  \* bound: forced restarts, reconnects, agents, faults

ASSUME PoolAssumption == MaxTroubles \in Nat

PoolThreads == Users \cup {Bg}

VARIABLES
  daemon,      \* [st, old]: "none", "forked", "up"; an outdated script
  agent,       \* daemons that own a live PTY
  busy,        \* the daemon does not answer within the timeouts
  pidFile,     \* /tmp/orchestrator-rws-9741.pid
  net,         \* the host can be reached
  server,      \* [tun, sock]: tunnel process lives; daemon of the socket
  pool,        \* _server_pool[host]
  reconnecting, backoff,   \* _reconnecting, _last_start_fail
  th,          \* threads: next step, object in hand, pid, second try
  troubles

hostVars == <<daemon, agent, busy, pidFile, net>>
poolVars == <<hostVars, server, pool, reconnecting, backoff, th, troubles>>

NoDaemon == [st |-> "none", old |-> FALSE]
NoServer == [tun |-> FALSE, sock |-> None]
Resting == [step |-> "rest", srv |-> None, pid |-> None, again |-> FALSE]

Running == {d \in Daemons : daemon[d].st # "none"}
Listening == {d \in Daemons : daemon[d].st = "up"}
Answering == IF net /\ ~busy THEN Listening ELSE {}
FreePids ==
  {d \in Daemons \ Running : /\ pidFile # d
                             /\ \A t \in PoolThreads : th[t].pid # d
                             /\ \A x \in Servers : server[x].sock # d}
FreeServers == Servers \ ({pool} \cup {th[t].srv : t \in PoolThreads})

PoolInit ==
  /\ \/ daemon = [d \in Daemons |-> NoDaemon] /\ pidFile = None
     \/ \E d \in Daemons, old \in BOOLEAN :
          /\ daemon = [x \in Daemons |-> IF x = d
                         THEN [st |-> "up", old |-> old] ELSE NoDaemon]
          /\ pidFile = d
  /\ agent = {} /\ busy = FALSE /\ net = TRUE
  /\ server = [x \in Servers |-> NoServer]
  /\ pool = None /\ reconnecting = FALSE /\ backoff = FALSE
  /\ th = [t \in PoolThreads |-> Resting]
  /\ troubles = 0

Trouble == troubles < MaxTroubles /\ troubles' = troubles + 1
To(t, step) == th' = [th EXCEPT ![t].step = step]
ToFree(t, step) == th' = [th EXCEPT ![t].step = step, ![t].pid = None]
Rests(t) == th' = [th EXCEPT ![t] = Resting]
KeepsHost == UNCHANGED hostVars
KeepsPool == UNCHANGED <<server, pool, reconnecting, backoff>>

\* RemoteWorkerServer.stop
Stopped(x) == [server EXCEPT ![x] = NoServer]

\* SIGTERM: the handler kills every PTY and removes the files, whoever wrote
\* them.
Killed(d) ==
  /\ daemon' = [daemon EXCEPT ![d] = NoDaemon]
  /\ agent' = agent \ {d}
  /\ busy' = FALSE

-----------------------------------------------------------------------------
(* get_remote_worker_server                                                *)

\* Phase 1, under the lock.
Looks(t) ==
  LET x == pool IN
  /\ th[t].step = "look"
  /\ th' = [th EXCEPT ![t] =
       IF x = None THEN [Resting EXCEPT !.step = "phase3"]
       ELSE IF ~server[x].tun
            THEN [Resting EXCEPT !.step = "stale", !.srv = x]
       ELSE IF server[x].sock # None THEN Resting
            ELSE [Resting EXCEPT !.step = "phase2", !.srv = x]]
  /\ KeepsHost /\ KeepsPool /\ UNCHANGED troubles

\* Phase 1.5: the port of a dead tunnel is closed.  The entry is popped,
\* whatever it is by now.
RemovesStale(t) ==
  /\ th[t].step = "stale"
  /\ server' = Stopped(th[t].srv)
  /\ pool' = None
  /\ th' = [th EXCEPT ![t] = [Resting EXCEPT !.step = "phase3"]]
  /\ KeepsHost /\ UNCHANGED <<reconnecting, backoff, troubles>>

\* Phase 2: one thread of a host reconnects the socket.
Enters(t) ==
  /\ th[t].step = "phase2"
  /\ IF reconnecting THEN To(t, "phase3") /\ UNCHANGED reconnecting
                     ELSE To(t, "socket") /\ reconnecting' = TRUE
  /\ KeepsHost /\ UNCHANGED <<server, pool, backoff, troubles>>

ReconnectsSocket(t, d) ==
  LET x == th[t].srv IN
  /\ th[t].step = "socket"
  /\ server[x].tun /\ d \in Answering
  /\ server' = [server EXCEPT ![x].sock = d]
  /\ reconnecting' = FALSE
  /\ Rests(t)
  /\ KeepsHost /\ UNCHANGED <<pool, backoff, troubles>>

\* No answer: the client is stopped and popped, the guard cleared.
SocketFails(t) ==
  LET x == th[t].srv IN
  /\ th[t].step = "socket"
  /\ ~server[x].tun \/ Answering = {}
  /\ server' = Stopped(x)
  /\ pool' = None
  /\ reconnecting' = FALSE
  /\ th' = [th EXCEPT ![t] = [Resting EXCEPT !.step = "phase3"]]
  /\ KeepsHost /\ UNCHANGED <<backoff, troubles>>

\* Phase 3, under the lock: one background start at a time, none in the
\* thirty seconds after a failure.
KicksOff(t, x) ==
  /\ th[t].step = "phase3"
  /\ th[Bg].step = "rest" /\ ~backoff
  /\ x \in FreeServers
  /\ th' = [th EXCEPT ![t] = Resting,
                      ![Bg] = [Resting EXCEPT !.step = "deploy", !.srv = x]]
  /\ server' = Stopped(x)
  /\ KeepsHost /\ UNCHANGED <<pool, reconnecting, backoff, troubles>>

Refused(t) ==
  /\ th[t].step = "phase3"
  /\ th[Bg].step # "rest" \/ backoff
  /\ Rests(t)
  /\ KeepsHost /\ KeepsPool /\ UNCHANGED troubles

-----------------------------------------------------------------------------
(* RemoteWorkerServer.start, with what the deployed script does.           *)

\* check_existing_daemon reads the PID file; a dead PID is a stale file.
ReadsPidFile(t) ==
  LET d == pidFile IN
  /\ th[t].step = "deploy" /\ net
  /\ IF d \in Running
     THEN /\ th' = [th EXCEPT ![t].step = IF daemon[d].old THEN "list"
                                          ELSE "ping", ![t].pid = d]
          /\ UNCHANGED pidFile
     ELSE /\ pidFile' = None
          /\ To(t, "owner")
  /\ KeepsPool /\ UNCHANGED <<daemon, agent, busy, net, troubles>>

\* Whoever listens answers for the PID of the file.
PingAnswered(t) ==
  /\ th[t].step = "ping" /\ Listening # {} /\ ~busy
  /\ ToFree(t, "tunnel")
  /\ KeepsHost /\ KeepsPool /\ UNCHANGED troubles

PingUnanswered(t) ==
  /\ th[t].step = "ping" /\ (Listening = {} \/ busy)
  /\ pidFile' = None
  /\ ToFree(t, "owner")
  /\ KeepsPool /\ UNCHANGED <<daemon, agent, busy, net, troubles>>

\* An outdated daemon is kept while it has live PTYs, killed otherwise.
UpgradeDeferred(t) ==
  /\ th[t].step = "list" /\ ~busy /\ agent # {}
  /\ ToFree(t, "tunnel")
  /\ KeepsHost /\ KeepsPool /\ UNCHANGED troubles

NothingToLose(t) ==
  /\ th[t].step = "list" /\ (busy \/ agent = {})
  /\ To(t, "replace")
  /\ KeepsHost /\ KeepsPool /\ UNCHANGED troubles

ReplacesOutdated(t) ==
  /\ th[t].step = "replace"
  /\ Killed(th[t].pid)
  /\ pidFile' = None
  /\ ToFree(t, "fork")
  /\ KeepsPool /\ UNCHANGED <<net, troubles>>

\* The process that holds the port, though no PID file names it, is killed.
KillsOwner(t) ==
  /\ th[t].step = "owner"
  /\ \/ /\ Listening = {}
        /\ UNCHANGED <<daemon, agent, busy, pidFile>>
     \/ \E d \in Listening : Killed(d) /\ pidFile' = None
  /\ To(t, "fork")
  /\ KeepsPool /\ UNCHANGED <<net, troubles>>

\* daemonize writes the PID file before the port is bound.
Forks(t, d) ==
  /\ th[t].step = "fork" /\ d \in FreePids
  /\ daemon' = [daemon EXCEPT ![d] = [st |-> "forked", old |-> FALSE]]
  /\ pidFile' = d
  /\ To(t, "tunnel")
  /\ KeepsPool /\ UNCHANGED <<agent, busy, net, troubles>>

\* run_server: a taken port ends the process, and its PID file stays.
Binds(d) ==
  /\ daemon[d].st = "forked"
  /\ daemon' = [daemon EXCEPT ![d] = IF Listening = {}
                  THEN [@ EXCEPT !.st = "up"] ELSE NoDaemon]
  /\ KeepsPool /\ UNCHANGED <<agent, busy, pidFile, net, th, troubles>>

\* Tunnel and socket, three times; then the server is put into the pool, over
\* whatever is there.
Installs(t, d) ==
  LET x == th[t].srv IN
  /\ th[t].step = "tunnel" /\ d \in Answering
  /\ server' = [server EXCEPT ![x] = [tun |-> TRUE, sock |-> d]]
  /\ pool' = x
  /\ backoff' = (backoff /\ t # Bg)
  /\ Rests(t)
  /\ KeepsHost /\ UNCHANGED <<reconnecting, troubles>>

\* A start fails; a daemon that was forked has bound its port by then, as the
\* script waits half a second and the client tries three times.  The
\* background thread stops the object and tries once more with another, then
\* waits; a forced restart raises.
StartFails(t) ==
  LET x == th[t].srv IN
  /\ \/ th[t].step = "deploy" /\ ~net
     \/ th[t].step = "tunnel" /\ Answering = {} /\ Running = Listening
  /\ server' = Stopped(x)
  /\ IF t = Bg /\ ~th[t].again
     THEN /\ th' = [th EXCEPT ![t] = [Resting EXCEPT !.step = "deploy",
                                        !.srv = x, !.again = TRUE]]
          /\ UNCHANGED backoff
     ELSE /\ Rests(t)
          /\ backoff' = (backoff \/ t = Bg)
  /\ KeepsHost /\ UNCHANGED <<pool, reconnecting, troubles>>

BackoffEnds ==
  /\ backoff /\ backoff' = FALSE
  /\ KeepsHost /\ UNCHANGED <<server, pool, reconnecting, th, troubles>>

-----------------------------------------------------------------------------
(* force_restart_server and _reconnect_rws_for_host                        *)

Asks(t) ==
  /\ th[t].step = "rest" /\ t \in Users
  /\ To(t, "look")
  /\ KeepsHost /\ KeepsPool /\ UNCHANGED troubles

Forces(t) ==
  /\ Trouble
  /\ t \in Users /\ th[t].step = "rest"
  /\ th' = [th EXCEPT ![t] = [Resting EXCEPT !.step = "query", !.srv = pool]]
  /\ KeepsHost /\ KeepsPool

\* Live PTYs put the restart off; no answer does not.
ForceQueries(t) ==
  LET x == th[t].srv IN
  /\ th[t].step = "query"
  /\ IF x # None /\ server[x].tun /\ Answering # {} /\ agent # {}
     THEN Rests(t) ELSE To(t, "pop")
  /\ KeepsHost /\ KeepsPool /\ UNCHANGED troubles

\* The entry is popped, the daemon of the PID file killed over SSH and the
\* old client stopped; a new client is started.
ForcePops(t) ==
  /\ th[t].step = "pop"
  /\ pool' = None
  /\ To(t, "kill")
  /\ KeepsHost /\ UNCHANGED <<server, reconnecting, backoff, troubles>>

ForceKills(t, x) ==
  LET o == th[t].srv IN
  /\ th[t].step = "kill" /\ x \in FreeServers
  /\ IF o # None /\ net /\ pidFile # None
     THEN /\ IF pidFile \in Running THEN Killed(pidFile)
             ELSE UNCHANGED <<daemon, agent, busy>>
          /\ pidFile' = None
     ELSE UNCHANGED <<daemon, agent, busy, pidFile>>
  /\ server' = [Stopped(x) EXCEPT ![IF o = None THEN x ELSE o] = NoServer]
  /\ th' = [th EXCEPT ![t] = [Resting EXCEPT !.step = "deploy", !.srv = x]]
  /\ UNCHANGED <<net, pool, reconnecting, backoff, troubles>>

\* _reconnect_rws_for_host: an existing client gets a new tunnel.
Reconnects(t) ==
  /\ Trouble
  /\ t \in Users /\ th[t].step = "rest"
  /\ IF pool = None
     THEN To(t, "look") /\ UNCHANGED server
     ELSE /\ th' = [th EXCEPT ![t] = [Resting EXCEPT !.step = "retunnel",
                                                     !.srv = pool]]
          /\ server' = Stopped(pool)
  /\ KeepsHost /\ UNCHANGED <<pool, reconnecting, backoff>>

\* Its daemon's version is asked for: an outdated one is restarted.
Retunnels(t, d) ==
  LET x == th[t].srv IN
  /\ th[t].step = "retunnel" /\ d \in Answering
  /\ server' = [server EXCEPT ![x] = [tun |-> TRUE, sock |-> d]]
  /\ IF daemon[d].old
     THEN th' = [th EXCEPT ![t].step = "query", ![t].srv = pool]
     ELSE Rests(t)
  /\ KeepsHost /\ UNCHANGED <<pool, reconnecting, backoff, troubles>>

RetunnelFails(t) ==
  /\ th[t].step = "retunnel" /\ Answering = {}
  /\ server' = Stopped(th[t].srv)
  /\ pool' = None
  /\ th' = [th EXCEPT ![t] = [Resting EXCEPT !.step = "look"]]
  /\ KeepsHost /\ UNCHANGED <<reconnecting, backoff, troubles>>

-----------------------------------------------------------------------------
(* Use, and what fails by itself.                                          *)

\* A PTY is created through the pooled server.
AgentStarts ==
  /\ Trouble
  /\ pool # None /\ server[pool].sock \in Answering
  /\ agent' = agent \cup {server[pool].sock}
  /\ KeepsPool /\ UNCHANGED <<daemon, busy, pidFile, net, th>>

AgentEnds(d) ==
  /\ d \in agent /\ agent' = agent \ {d}
  /\ KeepsPool /\ UNCHANGED <<daemon, busy, pidFile, net, th, troubles>>

\* Mutant: a failed call leaves the dead socket in place.
UseFailsKept ==
  /\ pool # None /\ server[pool].sock # None
  /\ server[pool].sock \notin Answering \/ ~server[pool].tun
  /\ UNCHANGED poolVars

\* execute() finds its socket dead, and cannot connect another.
UseFails ==
  /\ pool # None /\ server[pool].sock # None
  /\ server[pool].sock \notin Answering \/ ~server[pool].tun
  /\ server' = [server EXCEPT ![pool].sock = None]
  /\ KeepsHost /\ UNCHANGED <<pool, reconnecting, backoff, th, troubles>>

PooledTunnelDies(x) ==
  /\ Trouble
  /\ server[x].tun
  /\ server' = [server EXCEPT ![x].tun = FALSE]
  /\ KeepsHost /\ UNCHANGED <<pool, reconnecting, backoff, th>>

DaemonTroubles ==
  /\ Trouble
  /\ \/ \E d \in Running : /\ daemon' = [daemon EXCEPT ![d] = NoDaemon]
                           /\ agent' = agent \ {d} /\ busy' = FALSE
        /\ UNCHANGED net
     \/ Listening # {} /\ busy' = TRUE /\ UNCHANGED <<daemon, agent, net>>
     \/ net' = FALSE /\ UNCHANGED <<daemon, agent, busy>>
  /\ KeepsPool /\ UNCHANGED <<pidFile, th>>

TroubleEnds ==
  /\ busy \/ ~net
  /\ busy' = FALSE /\ net' = TRUE
  /\ KeepsPool /\ UNCHANGED <<daemon, agent, pidFile, th, troubles>>

ThreadStep(t) ==
  \/ Looks(t) \/ RemovesStale(t) \/ Enters(t) \/ SocketFails(t) \/ Refused(t)
  \/ ReadsPidFile(t) \/ PingAnswered(t) \/ PingUnanswered(t)
  \/ UpgradeDeferred(t) \/ NothingToLose(t) \/ ReplacesOutdated(t)
  \/ KillsOwner(t)
  \/ StartFails(t) \/ ForceQueries(t) \/ ForcePops(t) \/ RetunnelFails(t)
  \/ \E d \in Daemons : \/ ReconnectsSocket(t, d) \/ Forks(t, d)
                        \/ Installs(t, d) \/ Retunnels(t, d)
  \/ \E x \in Servers : KicksOff(t, x) \/ ForceKills(t, x)

PoolNext ==
  \/ \E t \in PoolThreads :
       ThreadStep(t) \/ Asks(t) \/ Forces(t) \/ Reconnects(t)
  \/ \E d \in Daemons : Binds(d) \/ AgentEnds(d)
  \/ \E x \in Servers : PooledTunnelDies(x)
  \/ AgentStarts \/ UseFails \/ DaemonTroubles \/ TroubleEnds \/ BackoffEnds

\* Threads and processes run, troubles and the backoff end.
PoolFairness ==
  /\ \A t \in PoolThreads : WF_poolVars(ThreadStep(t))
  /\ \A d \in Daemons : WF_poolVars(Binds(d))
  /\ WF_poolVars(UseFails) /\ WF_poolVars(TroubleEnds)
  /\ WF_poolVars(BackoffEnds)

\* Somebody keeps asking for a server.
KeepsAsking == \A t \in Users : WF_poolVars(Asks(t))

PoolSpec ==
  PoolInit /\ [][PoolNext]_poolVars /\ PoolFairness /\ KeepsAsking

-----------------------------------------------------------------------------
Steps == {"rest", "look", "stale", "phase2", "socket", "phase3", "deploy",
          "list", "replace", "ping", "owner", "fork", "tunnel", "query", "pop",
          "kill", "retunnel"}

PoolTypeOK ==
  /\ daemon \in [Daemons -> [st : {"none", "forked", "up"}, old : BOOLEAN]]
  /\ agent \subseteq Daemons /\ busy \in BOOLEAN /\ net \in BOOLEAN
  /\ pidFile \in Daemons \cup {None}
  /\ server \in [Servers -> [tun : BOOLEAN, sock : Daemons \cup {None}]]
  /\ pool \in Servers \cup {None}
  /\ reconnecting \in BOOLEAN /\ backoff \in BOOLEAN
  /\ th \in [PoolThreads -> [step : Steps, srv : Servers \cup {None},
                         pid : Daemons \cup {None}, again : BOOLEAN]]
  /\ troubles \in 0..MaxTroubles

\* Whatever is killed, replaced or unreachable on either side, the pool
\* offers again and again a server whose socket reaches a running daemon.
PoolRecovers ==
  []<>(pool # None /\ server[pool].tun /\ server[pool].sock \in Answering)

\* "Do NOT kill the daemon - it may have active PTYs with running Claude
\* sessions that we'd destroy": a deployment that was not told to replace the
\* daemon does not kill one that would have answered.
DeploysKeepAgents ==
  [][\A d \in agent :
       (d \in Answering /\ \E t \in PoolThreads : KillsOwner(t))
         => daemon'[d].st = "up"]_poolVars

=============================================================================
