------------------------------ MODULE PtyDaemon ------------------------------
(***************************************************************************)
(* PTYs of the remote daemon (terminal/_rws_daemon.py) and the terminals   *)
(* that watch them (_rws_client.py, connect_pty_stream, and the data path  *)
(* of api/ws_terminal.py, stream_remote_pty).  The daemon has one thread:  *)
(* each handler is a step.  A PTY's output is a row of numbered chunks; it *)
(* goes to the ring buffer and to the stream connections.  A terminal      *)
(* opens a stream that skips the ring buffer, then fetches the ring buffer *)
(* over the command socket as its history.                                 *)
(***************************************************************************)
EXTENDS Naturals, Sequences, FiniteSets, Functions

CONSTANTS
  PtyIds,       \* PTYs the daemon may create
  Terminals,    \* terminals; each has one stream connection at a time
  MaxChunks,    \* bound: chunks a PTY's child writes
  RingMax,      \* chunks the ring buffer keeps
  SocketMax,    \* items an unread socket holds before sendall fails
  MaxSpent      \* bound: heartbeats, and tunnels cut under a stream

ASSUME PtyDaemonAssumption ==
  /\ {RingMax, SocketMax} \subseteq Nat \ {0}
  /\ {MaxChunks, MaxSpent} \subseteq Nat
  /\ PtyIds # {}

NUL == 0
Ack == MaxChunks + 1
Refused == MaxChunks + 2
Closed == "closed"

VARIABLES
  up,       \* the daemon runs
  pty,      \* a PTY: its state, what was written and read, its ring buffer
  conns,    \* stream_conns of a PTY
  entries,  \* pty_stream_conns: connections and the PTY they were opened for
  pending,  \* pending_conns
  socket,   \* what the daemon sent and the terminal did not read
  open,     \* the daemon's end of a terminal's connection is open
  term,     \* a terminal
  spent     \* heartbeats and cuts so far

daemonVars == <<up, pty, conns, entries, pending, socket, open, term, spent>>

NoTerm == [pc |-> "none", of |-> CHOOSE p \in PtyIds : TRUE,
           history |-> <<>>, fetched |-> FALSE,
           buffer |-> <<>>, live |-> <<>>, exited |-> FALSE]

DaemonInit ==
  /\ up = TRUE
  /\ pty = [p \in PtyIds |-> [state |-> "none", wrote |-> 0, read |-> 0,
                              ring |-> <<>>]]
  /\ conns = [p \in PtyIds |-> {}]
  /\ entries = {}
  /\ pending = {}
  /\ socket = [t \in Terminals |-> <<>>]
  /\ open = [t \in Terminals |-> FALSE]
  /\ term = [t \in Terminals |-> NoTerm]
  /\ spent = 0

Known(p) == pty[p].state \in {"live", "exited"}     \* p is in pty_sessions
Entry(t) == {e \in entries : e[1] = t}

-----------------------------------------------------------------------------
(* The children.                                                           *)

ChildWrites(p) ==
  /\ up /\ pty[p].state = "live" /\ pty[p].wrote < MaxChunks
  /\ pty' = [pty EXCEPT ![p].wrote = @ + 1]
  /\ UNCHANGED <<up, conns, entries, pending, socket, open, term, spent>>

ChildExits(p) ==
  /\ up /\ pty[p].state = "live"
  /\ pty' = [pty EXCEPT ![p].state = "exited"]
  /\ UNCHANGED <<up, conns, entries, pending, socket, open, term, spent>>

-----------------------------------------------------------------------------
(* The daemon.                                                             *)

PtyCreate(p) ==
  /\ up /\ pty[p].state = "none"
  /\ pty' = [pty EXCEPT ![p].state = "live"]
  /\ UNCHANGED <<up, conns, entries, pending, socket, open, term, spent>>

\* cleanup_pty closes the stream connections and leaves their entries.
CleanupPty(p) ==
  /\ pty' = [pty EXCEPT ![p].state = "gone", ![p].ring = <<>>]
  /\ open' = [t \in Terminals |-> open[t] /\ t \notin conns[p]]
  /\ conns' = [conns EXCEPT ![p] = {}]
  /\ UNCHANGED <<entries, pending, socket, spent>>

\* pty_destroy, the end of file of an exited child, and the loop's check of
\* its children, which does not wait for output still unread.
PtyDestroy(p) == up /\ Known(p) /\ CleanupPty(p) /\ UNCHANGED <<up, term>>

PtyReaped(p) ==
  /\ up /\ pty[p].state = "exited"
  /\ CleanupPty(p) /\ UNCHANGED <<up, term>>

\* Mutant: a dropped connection is forgotten but not closed.
DropsSilently(dead) ==
  /\ entries' = {e \in entries : e[1] \notin dead}
  /\ UNCHANGED open
  /\ conns' = [p \in PtyIds |-> conns[p] \ dead]

\* A connection that is closed is dropped from both tables.
Drops(dead) ==
  /\ entries' = {e \in entries : e[1] \notin dead}
  /\ open' = [t \in Terminals |-> open[t] /\ t \notin dead]
  /\ conns' = [p \in PtyIds |-> conns[p] \ dead]

Full(t) == Len(socket[t]) >= SocketMax
Reachable(t) == term[t].pc # Closed

\* Mutant: a client whose socket is full misses the chunk.
PtyOutputSkips(p) ==
  LET chunk == pty[p].read + 1
      ring == Append(pty[p].ring, chunk)
      dead == {t \in conns[p] : ~Reachable(t)}
  IN /\ up /\ Known(p) /\ pty[p].read < pty[p].wrote
     /\ pty' = [pty EXCEPT ![p].read = chunk,
                           ![p].ring = IF Len(ring) > RingMax THEN Tail(ring)
                                       ELSE ring]
     /\ socket' = [t \in Terminals |->
                     IF t \in conns[p] \ dead /\ ~Full(t)
                     THEN Append(socket[t], chunk) ELSE socket[t]]
     /\ Drops(dead)
     /\ UNCHANGED <<up, pending, term, spent>>

\* handle_pty_output: the ring buffer first, then every stream; a client
\* whose socket is full is dropped.
PtyOutput(p) ==
  LET chunk == pty[p].read + 1
      ring == Append(pty[p].ring, chunk)
      dead == {t \in conns[p] : Full(t) \/ ~Reachable(t)}
  IN /\ up /\ Known(p) /\ pty[p].read < pty[p].wrote
     /\ pty' = [pty EXCEPT ![p].read = chunk,
                           ![p].ring = IF Len(ring) > RingMax THEN Tail(ring)
                                       ELSE ring]
     /\ socket' = [t \in Terminals |->
                     IF t \in conns[p] \ dead THEN Append(socket[t], chunk)
                     ELSE socket[t]]
     /\ Drops(dead)
     /\ UNCHANGED <<up, pending, term, spent>>

\* After fifteen quiet seconds.
Heartbeat(p) ==
  LET dead == {t \in conns[p] : Full(t) \/ ~Reachable(t)} IN
  /\ up /\ Known(p) /\ conns[p] # {} /\ spent < MaxSpent
  /\ socket' = [t \in Terminals |->
                  IF t \in conns[p] \ dead THEN Append(socket[t], NUL)
                  ELSE socket[t]]
  /\ Drops(dead)
  /\ spent' = spent + 1
  /\ UNCHANGED <<up, pty, pending, term>>

\* The handshake of a stream that skips the ring buffer.  The connection's
\* file number may be one a forgotten entry still uses: it is overwritten.
Handshake(t) ==
  LET p == term[t].of IN
  /\ up /\ t \in pending /\ term[t].pc = "handshake"
  /\ pending' = pending \ {t}
  /\ IF Known(p)
     THEN /\ entries' = (entries \ Entry(t)) \cup {<<t, p>>}
          /\ conns' = [conns EXCEPT ![p] = @ \cup {t}]
          /\ socket' = [socket EXCEPT ![t] = <<Ack>>]
          /\ UNCHANGED open
     ELSE /\ socket' = [socket EXCEPT ![t] = <<Refused>>]
          /\ open' = [open EXCEPT ![t] = FALSE]
          /\ UNCHANGED <<entries, conns>>
  /\ UNCHANGED <<up, pty, term, spent>>

\* The client's end is closed: the daemon reads an end of file.
HangUp(t) ==
  /\ up /\ open[t] /\ term[t].pc = Closed
  /\ pending' = pending \ {t}
  /\ Drops({t})
  /\ UNCHANGED <<up, pty, socket, term, spent>>

\* An hour without PTYs, commands and stream connections.
InactivityExit ==
  /\ up /\ entries = {} /\ \A p \in PtyIds : ~Known(p)
  /\ \E p \in PtyIds : pty[p].state = "gone"
  /\ up' = FALSE
  /\ open' = [t \in Terminals |-> FALSE]
  /\ pending' = {}
  /\ UNCHANGED <<pty, conns, entries, socket, term, spent>>

-----------------------------------------------------------------------------
(* The terminals.                                                          *)

Unread(t) == socket[t] # <<>>
Ended(t) == ~open[t] /\ socket[t] = <<>>

\* The items of a sequence but one, in their order: as many of those that stay
\* are at places up to that of the k-th as k says.
Without(items, item) ==
  LET stay == {i \in 1 .. Len(items) : items[i] # item}
  IN [k \in 1 .. Cardinality(stay) |->
        items[CHOOSE i \in stay : Cardinality(stay \cap 1 .. i) = k]]

Connect(t, p) ==
  /\ up /\ term[t].pc = "none" /\ pty[p].state # "none"
  /\ term' = [term EXCEPT ![t] = [NoTerm EXCEPT !.pc = "handshake",
                                                !.of = p]]
  /\ pending' = pending \cup {t}
  /\ open' = [open EXCEPT ![t] = TRUE]
  /\ UNCHANGED <<up, pty, conns, entries, socket, spent>>

\* Mutant: heartbeats that arrive with the acknowledgement are kept.
ReadAckKeepsBeats(t) ==
  /\ term[t].pc = "handshake" /\ Unread(t) /\ Head(socket[t]) = Ack
  /\ \E n \in 1 .. Len(socket[t]) :
       LET rest == SubSeq(socket[t], 2, n) IN
       /\ socket' = [socket EXCEPT ![t] = SubSeq(@, n + 1, Len(@))]
       /\ term' = [term EXCEPT ![t] =
            [@ EXCEPT !.live = rest,
                      !.pc = IF rest = <<>> THEN "history" ELSE "stream"]]
  /\ UNCHANGED <<up, pty, conns, entries, pending, open, spent>>

\* connect_pty_stream returns what a read delivered after the ack line; the
\* terminal sends it on as history (heartbeats removed), or goes for the ring.
ReadAck(t) ==
  /\ term[t].pc = "handshake" /\ Unread(t) /\ Head(socket[t]) = Ack
  /\ \E n \in 1 .. Len(socket[t]) :
       LET rest == Without(SubSeq(socket[t], 2, n), NUL) IN
       /\ socket' = [socket EXCEPT ![t] = SubSeq(@, n + 1, Len(@))]
       /\ term' = [term EXCEPT ![t] =
            [@ EXCEPT !.live = rest,
                      !.pc = IF rest = <<>> THEN "history" ELSE "stream"]]
  /\ UNCHANGED <<up, pty, conns, entries, pending, open, spent>>

\* Refused, or the connection ended before the ack.
ConnectFails(t) ==
  /\ term[t].pc = "handshake"
  /\ \/ Unread(t) /\ Head(socket[t]) = Refused
     \/ Ended(t) /\ t \notin pending
  /\ socket' = [socket EXCEPT ![t] = <<>>]
  /\ term' = [term EXCEPT ![t] = [@ EXCEPT !.pc = Closed]]
  /\ UNCHANGED <<up, pty, conns, entries, pending, open, spent>>

\* Mutant: what was captured leaves the ring buffer.
FetchHistoryDrains(t) ==
  LET p == term[t].of IN
  /\ term[t].pc = "history" /\ up /\ Known(p)
  /\ term' = [term EXCEPT ![t] =
       [@ EXCEPT !.history = pty[p].ring, !.fetched = TRUE, !.pc = "stream"]]
  /\ pty' = [pty EXCEPT ![p].ring = <<>>]
  /\ UNCHANGED <<up, conns, entries, pending, socket, open, spent>>

\* pty_capture over the command socket; without an answer there is no history.
FetchHistory(t) ==
  /\ term[t].pc = "history"
  /\ \/ /\ up /\ Known(term[t].of)
        /\ term' = [term EXCEPT ![t] =
             [@ EXCEPT !.history = pty[term[t].of].ring, !.fetched = TRUE,
                       !.pc = "stream"]]
     \/ term' = [term EXCEPT ![t] = [@ EXCEPT !.pc = "stream"]]
  /\ UNCHANGED <<up, pty, conns, entries, pending, socket, open, spent>>

\* read_pty_output hands what arrived, heartbeats removed, to the flusher.
ReadStream(t) ==
  /\ term[t].pc = "stream" /\ Unread(t)
  /\ term' = [term EXCEPT ![t] =
       [@ EXCEPT !.buffer = term[t].buffer \o Without(socket[t], NUL)]]
  /\ socket' = [socket EXCEPT ![t] = <<>>]
  /\ UNCHANGED <<up, pty, conns, entries, pending, open, spent>>

FlushStream(t) ==
  /\ term[t].pc = "stream" /\ term[t].buffer # <<>>
  /\ term' = [term EXCEPT ![t] =
       [@ EXCEPT !.live = term[t].live \o term[t].buffer, !.buffer = <<>>]]
  /\ UNCHANGED <<up, pty, conns, entries, pending, socket, open, spent>>

\* The end of file ends the tasks, what the flusher still held is not sent.
StreamEnds(t) ==
  /\ term[t].pc = "stream" /\ Ended(t)
  /\ term' = [term EXCEPT ![t] = [@ EXCEPT !.pc = Closed, !.exited = TRUE,
                                           !.buffer = <<>>]]
  /\ UNCHANGED <<up, pty, conns, entries, pending, socket, open, spent>>

\* The browser leaves, or the stream is idle for longer than heartbeats allow.
Leave(t) ==
  /\ term[t].pc \in {"history", "stream"}
  /\ term' = [term EXCEPT ![t] = [@ EXCEPT !.pc = Closed, !.buffer = <<>>]]
  /\ socket' = [socket EXCEPT ![t] = <<>>]
  /\ UNCHANGED <<up, pty, conns, entries, pending, open, spent>>

\* The tunnel is cut under the stream: both ends see the connection end, and
\* what was on its way is lost.
TunnelCut(t) ==
  /\ open[t] /\ term[t].pc = "stream" /\ spent < MaxSpent
  /\ spent' = spent + 1
  /\ socket' = [socket EXCEPT ![t] = <<>>]
  /\ Drops({t})
  /\ UNCHANGED <<up, pty, pending, term>>

\* The frontend opens the terminal again.
Reopen(t) ==
  /\ term[t].pc = Closed /\ ~open[t] /\ t \notin pending
  /\ term' = [term EXCEPT ![t] = NoTerm]
  /\ UNCHANGED <<up, pty, conns, entries, pending, socket, open, spent>>

DaemonStep ==
  \/ \E p \in PtyIds : PtyReaped(p) \/ PtyOutput(p) \/ Heartbeat(p)
  \/ \E t \in Terminals : Handshake(t) \/ HangUp(t)

TerminalStep(t) ==
  \/ ReadAck(t) \/ ConnectFails(t) \/ FetchHistory(t) \/ ReadStream(t)
  \/ FlushStream(t) \/ StreamEnds(t)

DaemonNext ==
  \/ DaemonStep
  \/ InactivityExit
  \/ \E p \in PtyIds : \/ ChildWrites(p) \/ ChildExits(p)
                       \/ PtyCreate(p) \/ PtyDestroy(p)
  \/ \E t \in Terminals :
       \/ TerminalStep(t) \/ Leave(t) \/ TunnelCut(t) \/ Reopen(t)
       \/ \E p \in PtyIds : Connect(t, p)

\* The daemon's loop handles what is ready and the event loop runs the tasks.
DaemonFairness ==
  /\ \A p \in PtyIds : WF_daemonVars(PtyOutput(p))
  /\ \A t \in Terminals :
       WF_daemonVars(Handshake(t) \/ HangUp(t) \/ TerminalStep(t))

DaemonSpec == DaemonInit /\ [][DaemonNext]_daemonVars /\ DaemonFairness

-----------------------------------------------------------------------------
Chunks == 1 .. MaxChunks

\* Every variable has its type: the daemon's tables, the sockets between and
\* the terminals.
DaemonTypeOK ==
  /\ up \in BOOLEAN
  /\ pty \in [PtyIds -> [state : {"none", "live", "exited", "gone"},
                         wrote : {0} \cup Chunks, read : {0} \cup Chunks,
                         ring : Seq(Chunks)]]
  /\ conns \in [PtyIds -> SUBSET Terminals]
  /\ entries \subseteq Terminals \X PtyIds /\ pending \subseteq Terminals
  /\ socket \in [Terminals -> Seq(NUL .. Refused)]
  /\ open \in [Terminals -> BOOLEAN]
  /\ term \in [Terminals ->
       [pc : {"none", "handshake", "history", "stream", Closed}, of : PtyIds,
        history : Seq(Chunks), fetched : BOOLEAN, buffer : Seq(Chunks),
        live : Seq(Chunks), exited : BOOLEAN]]
  /\ spent \in 0 .. MaxSpent

Rising(chunks) ==
  \A i \in 1 .. Len(chunks) - 1 : chunks[i + 1] = chunks[i] + 1

\* A terminal's live output has no gap and no repetition: a client that
\* cannot keep up loses its connection, never a chunk in the middle
\* (_rws_daemon.py, handle_pty_output).
LiveHasNoGap ==
  \A t \in Terminals : Rising(term[t].live \o term[t].buffer)

\* Between the fetched history and the live output nothing is missing: the
\* stream is attached before the ring buffer is fetched.
HistoryMeetsLive ==
  \A t \in Terminals :
    LET k == term[t] IN
    k.fetched /\ k.live # <<>> =>
      IF k.history = <<>> THEN Head(k.live) = 1
      ELSE Head(k.live) <= k.history[Len(k.history)] + 1

Shown(t) == Range(term[t].history) \cup Range(term[t].live)

\* A terminal that stays open on a PTY comes to show the last thing the PTY
\* wrote, unless its history could not be fetched and nothing came since
\* (_rws_daemon.py, handle_pty_output; ws_terminal.py, stream_remote_pty).
OutputArrives ==
  \A t \in Terminals, p \in PtyIds :
    []<>(term[t].pc = "stream" /\ term[t].of = p /\ Known(p) /\ open[t] =>
           \/ pty[p].wrote \in Shown(t) \cup {0}
           \/ ~term[t].fetched /\ term[t].live = <<>>)
=============================================================================
