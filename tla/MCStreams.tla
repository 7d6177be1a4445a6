------------------------------ MODULE MCStreams ------------------------------
(* What carries output to terminals: the pipe of a local pane, the daemon of *)
(* a remote host; and the local workers whose windows the panes belong to.   *)
(* The three share no state: a behaviour is a behaviour of one of them.      *)
EXTENDS PaneStream, PtyDaemon, LocalWorker

VARIABLE part

MCInit ==
  /\ part \in {"pane", "daemon", "local"}
  /\ PaneInit /\ DaemonInit /\ LocalInit

Rest(vs) == UNCHANGED <<part, vs>>

\* Output and faults share a bound, and a third reader ends the behaviour: the
\* properties ask nothing once readers have run out.
PaneBound ==
  /\ faults.started < MaxReaders
  /\ window'.screen + faults'.kills + faults'.fails <= MaxOutput

\* The last chunk is written, heartbeats are sent and tunnels cut, where one
\* terminal has been opened at most.
DaemonBound ==
  LET one == CHOOSE t \in Terminals : TRUE IN
  \/ \A t \in Terminals \ {one} : term'[t] = NoTerm
  \/ spent' = 0 /\ \A p \in PtyIds : pty'[p].wrote < MaxChunks

\* The last trouble comes while no request is under way, or is its agent that
\* starts slowly.
LocalBound ==
  \/ troubles' \in {troubles} \cup 0 .. MaxTroubles - 1
  \/ \A r \in Requests : doing[r].at \in {"idle", "verify"}

MCNext ==
  \/ /\ part = "pane" /\ PaneNext /\ PaneBound
     /\ Rest(<<daemonVars, localVars>>)
  \/ /\ part = "daemon" /\ DaemonNext /\ DaemonBound
     /\ Rest(<<paneVars, localVars>>)
  \/ part = "local" /\ LocalNext /\ LocalBound /\ Rest(<<paneVars, daemonVars>>)

\* The fairness of a part that was not chosen asks nothing: none of its fair
\* actions is enabled in its initial states.
MCSpec ==
  /\ MCInit /\ [][MCNext]_<<part, paneVars, daemonVars, localVars>>
  /\ PaneFairness /\ DaemonFairness /\ LocalFairness

=============================================================================
