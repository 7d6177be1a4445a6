--------------------------- MODULE TerminalStream ---------------------------
(***************************************************************************)
(* Terminals: WebSocket handlers that stream a session's PTY beside the    *)
(* reconnect threads (api/ws_terminal.py, stream_remote_pty).  A handler   *)
(* reads rws_pty_id once, connects to that PTY, and when the stream ends   *)
(* may clear the row.  For a row without a PTY it triggers a reconnect,    *)
(* unless it believes that one is running.                                 *)
(***************************************************************************)
EXTENDS Reconnect

CONSTANT Viewers   \* WebSocket handlers

VARIABLES
  vpc,             \* what the handler does next
  vjob             \* the session and the PTY id it was opened with

viewVars == <<vpc, vjob>>
tvars == <<vars, viewVars>>

VPCs == {"free", "connect", "clear", "stream", "confirm", "fresh", "exited",
         "close4004", "close4005"}
VJobs == [target : Sessions, pty : Ptys \cup {NoPty}]
NoView == [target |-> NoJob.target, pty |-> NoPty]

VGoto(v, label) == vpc' = [vpc EXCEPT ![v] = label]
VDone(v) ==
  /\ vpc' = [vpc EXCEPT ![v] = "free"]
  /\ vjob' = [vjob EXCEPT ![v] = NoView]

ViewLeaves == UNCHANGED <<assigned, lockVars, threadVars, memVars, owner,
                          envVars, unsure>>

NoTerminals ==
  /\ vpc = [v \in Viewers |-> "free"]
  /\ vjob = [v \in Viewers |-> NoView]

TInit == Init /\ NoTerminals

-----------------------------------------------------------------------------
OpenTerminal(v, s) ==
  /\ vpc[v] = "free"
  /\ status[s] # Absent /\ ptyId[s] # NoPty
  /\ vjob' = [vjob EXCEPT ![v] = [target |-> s, pty |-> ptyId[s]]]
  /\ VGoto(v, "connect")
  /\ ViewLeaves /\ UNCHANGED <<status, ptyId, pty>>

\* The row has no PTY.  The handler takes a remaining step, "failed:..."
\* included, or a held lock for a reconnect in progress; else it triggers one
\* (a thread's Ask) when the row is reconnectable.
ReconnectActive(s) == step[s] # "none" \/ <<s, registry[s]>> \in locked

OpenDetached(v, s) ==
  /\ vpc[v] = "free"
  /\ status[s] # Absent /\ ptyId[s] = NoPty
  /\ vjob' = [vjob EXCEPT ![v] = [target |-> s, pty |-> NoPty]]
  /\ \/ /\ ReconnectActive(s)
        /\ VGoto(v, "close4004")
        /\ UNCHANGED vars
     \/ /\ ~ReconnectActive(s)
        /\ VGoto(v, "close4004")
        /\ \E t \in Threads : Ask(t, s)
     \/ /\ ~ReconnectActive(s) /\ ~is_reconnectable(status[s])
        /\ VGoto(v, "close4005")
        /\ UNCHANGED vars

\* The WebSocket is closed with the code chosen: keep retrying, or stop.
CloseDetached(v) ==
  /\ vpc[v] \in {"close4004", "close4005"}
  /\ VDone(v)
  /\ UNCHANGED vars

\* connect_pty_stream: the daemon knows the PTY, does not, or is unreachable.
StreamOpens(v) ==
  /\ vpc[v] = "connect" /\ up
  /\ VGoto(v, IF pty[vjob[v].pty] \in {"live", "dead"} THEN "stream"
              ELSE "clear")
  /\ pty' = Reaped(pty)
  /\ ViewLeaves /\ UNCHANGED <<status, ptyId, vjob>>

StreamFails(v) ==
  /\ vpc[v] = "connect" /\ ~up
  /\ VDone(v)
  /\ ViewLeaves /\ UNCHANGED <<status, ptyId, pty>>

\* "PTY not found": clear the row, whatever PTY it references by now.
ClearNotFound(v) ==
  /\ vpc[v] = "clear"
  /\ status' = WithStatus(vjob[v].target, "disconnected")
  /\ ptyId' = WithPty(vjob[v].target, NoPty)
  /\ VDone(v)
  /\ ViewLeaves /\ UNCHANGED pty

\* EOF: the daemon closed the stream when it cleaned the PTY up, or the
\* tunnel died.
StreamEof(v) ==
  /\ vpc[v] = "stream"
  /\ pty[vjob[v].pty] = "gone" \/ ~up
  /\ VGoto(v, "confirm")
  /\ ViewLeaves /\ UNCHANGED <<status, ptyId, pty, vjob>>

\* The browser disconnects, or nothing arrived for 45 s.
StreamDrops(v) ==
  /\ vpc[v] = "stream"
  /\ VDone(v)
  /\ ViewLeaves /\ UNCHANGED <<status, ptyId, pty>>

\* Dead only when the daemon still lists the PTY, with alive = False.
ConfirmExit(v) ==
  /\ vpc[v] = "confirm"
  /\ IF up /\ pty[vjob[v].pty] = "dead"
       THEN VGoto(v, "fresh") /\ UNCHANGED vjob
       ELSE VDone(v)
  /\ pty' = IF up THEN Reaped(pty) ELSE pty
  /\ ViewLeaves /\ UNCHANGED <<status, ptyId>>

\* Re-read the row: does it still reference this PTY?
ReadFresh(v) ==
  /\ vpc[v] = "fresh"
  /\ IF ptyId[vjob[v].target] = vjob[v].pty
       THEN VGoto(v, "exited") /\ UNCHANGED vjob
       ELSE VDone(v)
  /\ ViewLeaves /\ UNCHANGED <<status, ptyId, pty>>

ClearExited(v) ==
  /\ vpc[v] = "exited"
  /\ status' = WithStatus(vjob[v].target, RecoveryStatus(vjob[v].target))
  /\ ptyId' = WithPty(vjob[v].target, NoPty)
  /\ VDone(v)
  /\ ViewLeaves /\ UNCHANGED pty

ViewerStep(v) ==
  \/ CloseDetached(v) \/ StreamOpens(v) \/ StreamFails(v)
  \/ ClearNotFound(v) \/ StreamEof(v) \/ StreamDrops(v) \/ ConfirmExit(v)
  \/ ReadFresh(v) \/ ClearExited(v)

TServerRestart ==
  /\ ServerRestart
  /\ vpc' = [v \in Viewers |-> "free"]
  /\ vjob' = [v \in Viewers |-> NoView]

TNext ==
  \/ /\ \/ \E t \in Threads, s \in Sessions : Ask(t, s)
        \/ \E t \in Threads : ThreadStep(t)
        \/ \E s \in Sessions : RouteStep(s)
        \/ EnvStepButRestart
     /\ UNCHANGED viewVars
  \/ TServerRestart
  \/ \E v \in Viewers, s \in Sessions : OpenTerminal(v, s) \/ OpenDetached(v, s)
  \/ \E v \in Viewers : ViewerStep(v)

TSpec == TInit /\ [][TNext]_tvars

-----------------------------------------------------------------------------
\* Every variable has its type, those of the terminals included.
TTypeOK ==
  /\ TypeOK
  /\ vpc \in [Viewers -> VPCs]
  /\ vjob \in [Viewers -> VJobs]

\* Terminals that clear rws_pty_id under a reconnect do not cost the session
\* its agent: what they make the row forget is found again by session id, as
\* long as the session has a row at all.
AgentSurvivesTerminals ==
  [][\A t \in Threads :
       /\ job[t].heard /\ job[t].target \notin unsure'
       /\ status[job[t].target] # Absent
       => KilledBy(t) = {}]_tvars

=============================================================================
