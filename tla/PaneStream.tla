----------------------------- MODULE PaneStream -----------------------------
(***************************************************************************)
(* A local terminal: browsers that watch one tmux window.  A pool keeps    *)
(* one reader per pane (terminal/pty_stream.py): tmux pipes the pane       *)
(* through a cat process into the reader's FIFO, the reader fans chunks    *)
(* out to its consumers.  Each WebSocket handler (api/ws_terminal.py,      *)
(* stream_pane) sends the history, flushes the stream, and runs a drift    *)
(* correction that repairs what the stream lost by capturing the pane.     *)
(* A pane's output is numbered: chunk n leads from screen n-1 to screen n. *)
(***************************************************************************)
EXTENDS Naturals, Sequences, FiniteSets

CONSTANTS
  Watchers,     \* WebSocket handlers
  MaxOutput,    \* bound: screens the window goes through
  MaxPanes,     \* bound: panes the window has, one after the other
  MaxReaders,   \* bound: readers ever started
  MaxBuffer,    \* chunks beyond which a buffer is dropped for a sync
  MaxFaults     \* bound: cat processes killed, pipe-pane commands failed

ASSUME PaneStreamAssumption ==
  /\ {MaxPanes, MaxReaders} \subseteq Nat \ {0}
  /\ {MaxOutput, MaxBuffer, MaxFaults} \subseteq Nat

PaneIds == 1 .. MaxPanes
Readers == 1 .. MaxReaders
None == 0
Garbled == MaxOutput + 1    \* a screen that missed or repeated a chunk

VARIABLES
  window,     \* its pane, the screen it shows, the reader its cat feeds
  fifo,       \* chunks a cat wrote and the event loop did not read
  registered, \* _readers: a pane's reader
  consumers,  \* _consumers: a pane's callbacks
  reader,     \* running, its end of file, staleness, pane
  ended,      \* the end-of-file handler of a reader
  handler,     \* a handler: its stream, drift correction, and its browser
  faults      \* kills, failures and readers so far

paneVars == <<window, fifo, registered, consumers, reader, ended, handler,
              faults>>

NoReader == [running |-> FALSE, eof |-> FALSE, stale |-> FALSE, pane |-> 1]
NoHandler ==
  [pc |-> "none", pane |-> 1, active |-> FALSE, flusher |-> FALSE,
   initial |-> FALSE, buffer |-> <<>>, event |-> FALSE, syncing |-> FALSE,
   wanted |-> FALSE, force |-> FALSE, snap |-> 0, hash |-> "none",
   fresh |-> "no", healthy |-> FALSE, idle |-> FALSE, refreshed |-> FALSE,
   drift |-> "early", shown |-> Garbled]

PaneInit ==
  /\ window = [pane |-> 1, screen |-> 0, feeds |-> None]
  /\ fifo = <<>>
  /\ registered = [p \in PaneIds |-> None]
  /\ consumers = [p \in PaneIds |-> {}]
  /\ reader = [r \in Readers |-> NoReader]
  /\ ended = [r \in Readers |-> "no"]
  /\ handler = [c \in Watchers |-> NoHandler]
  /\ faults = [kills |-> 0, fails |-> 0, started |-> 0]

-----------------------------------------------------------------------------
(* Readers.  A stopped reader's transport reports the loss of its          *)
(* connection, so its end-of-file handler runs after a deliberate stop     *)
(* too.  pipe-pane names the window: it acts on the window's current pane. *)

Alive(r) == r # None /\ reader[r].running /\ ~reader[r].eof

StopReader(rs, r) == IF r = None THEN rs ELSE [rs EXCEPT ![r].running = FALSE]
HandlerDue(r) ==
  IF r # None /\ reader[r].running /\ ~reader[r].eof
  THEN [ended EXCEPT ![r] = "due"] ELSE ended
PipeStopped(r) ==
  IF r # None /\ reader[r].running THEN [window EXCEPT !.feeds = None]
  ELSE window

\* A reader for pane p in place of the stopped reader old.
StartsReader(p, old, subs) ==
  LET r == faults.started + 1 IN
  /\ faults.started < MaxReaders
  /\ faults' = [faults EXCEPT !.started = r]
  /\ reader' = [StopReader(reader, old) EXCEPT ![r] =
                  [running |-> TRUE, eof |-> FALSE, stale |-> FALSE,
                   pane |-> p]]
  /\ registered' = [registered EXCEPT ![p] = r]
  /\ window' = [window EXCEPT !.feeds = r]
  /\ consumers' = subs

FailsReader(p, old) ==
  /\ faults.kills + faults.fails < MaxFaults
  /\ faults' = [faults EXCEPT !.fails = @ + 1]
  /\ reader' = StopReader(reader, old)
  /\ registered' = [registered EXCEPT ![p] = None]
  /\ window' = PipeStopped(old)
  /\ UNCHANGED consumers

\* Mutant: a pane with consumers counts as streamed, whatever became of its
\* reader.
SubscribeOnce(c, p, ok) ==
  LET subs == [consumers EXCEPT ![p] = @ \cup {c}]
      known == consumers[p] # {} \/ Alive(registered[p])
  IN \/ /\ known /\ ok /\ consumers' = subs
        /\ UNCHANGED <<registered, reader, ended, window, faults>>
     \/ /\ ~known /\ ok
        /\ StartsReader(p, registered[p], subs)
        /\ ended' = HandlerDue(registered[p])
     \/ /\ ~known /\ ~ok
        /\ FailsReader(p, registered[p])
        /\ ended' = HandlerDue(registered[p])

\* subscribe, under the pool's lock; ok says whether the stream is up.
Subscribe(c, p, ok) ==
  LET old == registered[p]
      subs == [consumers EXCEPT ![p] = @ \cup {c}]
  IN \/ /\ Alive(old) /\ ok
        /\ consumers' = subs
        /\ UNCHANGED <<registered, reader, ended, window, faults>>
     \/ /\ ~Alive(old) /\ ok
        /\ StartsReader(p, old, subs)
        /\ ended' = HandlerDue(old)
     \/ /\ ~Alive(old) /\ ~ok
        /\ FailsReader(p, old)
        /\ ended' = HandlerDue(old)

\* unsubscribe: the last consumer to leave stops the reader.
Unsubscribe(c, p) ==
  LET left == consumers[p] \ {c}
      last == consumers[p] # {} /\ left = {}
      r == IF last THEN registered[p] ELSE None
  IN /\ consumers' = [consumers EXCEPT ![p] = left]
     /\ registered' =
          IF last THEN [registered EXCEPT ![p] = None] ELSE registered
     /\ reader' = StopReader(reader, r)
     /\ ended' = HandlerDue(r)
     /\ window' = PipeStopped(r)
     /\ UNCHANGED faults

\* Mutant: the end of file removes the pane's entry and stops nothing.
ReaderEndsOnly(r) ==
  LET p == reader[r].pane
      current == registered[p]
  IN /\ ended[r] = "due"
     /\ reader' = [reader EXCEPT ![r].eof = TRUE]
     /\ registered' = [registered EXCEPT ![p] = None]
     /\ ended' = [ended EXCEPT ![r] =
                    IF consumers[p] = {} \/ current = None
                    THEN "done" ELSE "sleep"]
     /\ UNCHANGED <<window, fifo, consumers, handler, faults>>

\* _on_reader_eof removes the pane's reader, whichever it is by now.
ReaderEnds(r) ==
  LET p == reader[r].pane
      current == registered[p]
  IN /\ ended[r] = "due"
     /\ reader' = [StopReader(reader, current) EXCEPT ![r].eof = TRUE]
     /\ registered' = [registered EXCEPT ![p] = None]
     /\ window' = PipeStopped(current)
     /\ ended' = [HandlerDue(current) EXCEPT ![r] =
                    IF consumers[p] = {} \/ current = None
                    THEN "done" ELSE "sleep"]
     /\ UNCHANGED <<fifo, consumers, handler, faults>>

\* Mutant: the restart does not look whether anyone still wants the stream.
EagerRestartUnasked(r) ==
  LET p == reader[r].pane IN
  /\ ended[r] = "sleep"
  /\ ended' = [ended EXCEPT ![r] = "done"]
  /\ \/ /\ registered[p] # None
        /\ UNCHANGED <<registered, reader, window, faults, consumers>>
     \/ /\ registered[p] = None
        /\ \/ StartsReader(p, None, consumers)
           \/ FailsReader(p, None)
  /\ UNCHANGED <<fifo, handler>>

\* The eager restart, half a second later.
EagerRestart(r) ==
  LET p == reader[r].pane IN
  /\ ended[r] = "sleep"
  /\ ended' = [ended EXCEPT ![r] = "done"]
  /\ \/ /\ registered[p] # None \/ consumers[p] = {}
        /\ UNCHANGED <<registered, reader, window, faults, consumers>>
     \/ /\ registered[p] = None /\ consumers[p] # {}
        /\ \/ StartsReader(p, None, consumers)
           \/ FailsReader(p, None)
  /\ UNCHANGED <<fifo, handler>>

-----------------------------------------------------------------------------
(* The pane's output on its way to the browsers.                           *)

PaneWrites ==
  /\ window.screen < MaxOutput
  /\ window' = [window EXCEPT !.screen = @ + 1]
  /\ fifo' = IF window.feeds = None THEN fifo
             ELSE Append(fifo, <<window.feeds, window.screen + 1>>)
  /\ UNCHANGED <<registered, consumers, reader, ended, handler, faults>>

\* The window is destroyed and made anew, with a screen of its own.
WindowRecreated ==
  /\ window.pane < MaxPanes /\ window.screen < MaxOutput
  /\ window' = [pane |-> window.pane + 1, screen |-> window.screen + 1,
                feeds |-> None]
  /\ UNCHANGED <<fifo, registered, consumers, reader, ended, handler, faults>>

\* The cat dies, for one by the orphan cleanup of another server; the FIFO
\* is open for writing in the reader itself, so no end of file arrives.
CatKilled ==
  /\ window.feeds # None /\ faults.kills + faults.fails < MaxFaults
  /\ window' = [window EXCEPT !.feeds = None]
  /\ faults' = [faults EXCEPT !.kills = @ + 1]
  /\ UNCHANGED <<fifo, registered, consumers, reader, ended, handler>>

\* on_stream_data: a buffer beyond its limit is dropped and a sync asked for.
OnStreamData(k, chunk) ==
  LET seen == [k EXCEPT !.fresh = IF @ = "yes" THEN @ ELSE "aged"] IN
  IF Len(k.buffer) >= MaxBuffer
  THEN [seen EXCEPT !.buffer = <<>>, !.event = FALSE, !.wanted = TRUE]
  ELSE [seen EXCEPT !.buffer = Append(@, chunk), !.event = TRUE]

Deliver ==
  /\ fifo # <<>>
  /\ LET r == Head(fifo)[1]
         to == IF reader[r].running THEN consumers[reader[r].pane] ELSE {}
     IN /\ handler' = [c \in Watchers |->
                        IF c \in to THEN OnStreamData(handler[c], Head(fifo)[2])
                        ELSE handler[c]]
        /\ reader' = [reader EXCEPT ![r].stale = FALSE]
  /\ fifo' = Tail(fifo)
  /\ UNCHANGED <<window, registered, consumers, ended, faults>>

\* What a browser shows after chunks that must follow its screen.
Shows(screen, chunks) ==
  IF \A i \in DOMAIN chunks : chunks[i] = screen + i
  THEN screen + Len(chunks) ELSE Garbled

\* stream_flusher: during a sync the event is cleared, the bytes stay.
Flush(c) ==
  LET k == handler[c]
      sends == k.buffer # <<>> /\ ~k.syncing
  IN /\ k.flusher /\ k.event
     /\ handler' = [handler EXCEPT ![c] =
          IF sends
          THEN [k EXCEPT !.event = FALSE, !.buffer = <<>>, !.fresh = "yes",
                         !.shown = Shows(k.shown, k.buffer)]
          ELSE [k EXCEPT !.event = FALSE]]
     /\ UNCHANGED <<window, fifo, registered, consumers, reader, ended,
                    faults>>

\* Five seconds without a flush.  After fifteen without a byte from the FIFO
\* the reader is stale; they leave each drift correction time for a round,
\* which turns "aged" into "no".
FlushAges(c) ==
  /\ handler[c].fresh = "yes"
  /\ handler' = [handler EXCEPT ![c].fresh = "aged"]
  /\ UNCHANGED <<window, fifo, registered, consumers, reader, ended, faults>>

ReaderAges(r) ==
  /\ Alive(r) /\ ~reader[r].stale
  /\ \A c \in consumers[reader[r].pane] :
       handler[c].fresh = "no" /\ ~handler[c].event
  /\ reader' = [reader EXCEPT ![r].stale = TRUE]
  /\ UNCHANGED <<window, fifo, registered, consumers, ended, handler, faults>>

-----------------------------------------------------------------------------
(* The handler.                                                            *)

OpenPane(c) ==
  /\ handler[c].pc = "none"
  /\ handler' = [handler EXCEPT ![c] = [NoHandler EXCEPT !.pc = "open",
                                                      !.pane = window.pane]]
  /\ UNCHANGED <<window, fifo, registered, consumers, reader, ended, faults>>

\* The first resize sends the history; the stream starts after it, unless
\* the drift correction has started one.
Resize(c) ==
  LET k == handler[c] IN
  /\ k.pc = "open"
  /\ \E shown \in {window.screen, k.shown} :     \* the capture may fail
       handler' = [handler EXCEPT ![c] =
         [k EXCEPT !.shown = shown, !.initial = TRUE,
                   !.pc = IF k.active THEN "run" ELSE "start",
                   !.flusher = k.active]]
  /\ UNCHANGED <<window, fifo, registered, consumers, reader, ended, faults>>

StartStreaming(c) ==
  /\ handler[c].pc = "start"
  /\ \E ok \in BOOLEAN :
       /\ Subscribe(c, handler[c].pane, ok)
       /\ handler' = [handler EXCEPT ![c] =
            [@ EXCEPT !.pc = "run", !.active = handler[c].active \/ ok,
                      !.flusher = handler[c].active \/ ok]]
  /\ UNCHANGED fifo

\* The browser leaves: the stream is stopped, both tasks are cancelled.
Close(c) ==
  /\ handler[c].pc \in {"open", "run"}
  /\ \/ handler[c].active /\ Unsubscribe(c, handler[c].pane)
     \/ ~handler[c].active
        /\ UNCHANGED <<window, registered, consumers, reader, ended, faults>>
  /\ handler' = [handler EXCEPT ![c] = NoHandler]
  /\ UNCHANGED fifo

-----------------------------------------------------------------------------
(* Drift correction.                                                       *)

\* Mutant: a stream that was started counts as healthy.
HealthyOnceActive(k) == k.active

Healthy(k) == k.active /\ k.fresh = "yes"

\* An iteration ends at the loop's top, where a healthy stream wakes an idle
\* pane; the sleep follows.
Sleeps(k) ==
  LET woken == Healthy(k) /\ k.idle
  IN [k EXCEPT !.drift = "sleep", !.syncing = FALSE, !.force = FALSE,
               !.snap = 0, !.idle = @ /\ ~woken,
               !.refreshed = @ /\ ~woken]

\* _send_sync drops the buffer, captures the pane, drops the buffer again.
BeginSync(k, forced) ==
  [k EXCEPT !.buffer = <<>>, !.event = FALSE, !.syncing = TRUE,
            !.force = forced, !.drift = "capture"]

Drifts(c, label) == handler[c].pc # "none" /\ handler[c].drift = label

EarlySync(c) ==
  /\ Drifts(c, "early")
  /\ handler' = [handler EXCEPT ![c] =
       IF @.initial THEN BeginSync(@, FALSE) ELSE Sleeps(@)]
  /\ UNCHANGED <<window, fifo, registered, consumers, reader, ended, faults>>

\* After the sleep, with the stream healthy or a sync asked for.  (A healthy
\* stream while somebody types is left alone: no step.)
DriftRests(c) ==
  LET k == handler[c] IN
  /\ Drifts(c, "sleep") /\ (Healthy(k) \/ k.wanted)
  /\ handler' = [handler EXCEPT ![c] =
       IF k.wanted
       THEN BeginSync([k EXCEPT !.wanted = FALSE, !.initial = TRUE,
                                !.healthy = Healthy(k)], TRUE)
       ELSE Sleeps([k EXCEPT !.healthy = TRUE, !.initial = TRUE])]
  /\ UNCHANGED <<window, fifo, registered, consumers, reader, ended, faults>>

\* The stream is unhealthy: a stale reader's cat is started anew once, then
\* its pane is held for idle and not captured; a dead reader is replaced.
DriftRepairs(c) ==
  LET k == handler[c]
      r == registered[k.pane]
      stale == k.active /\ Alive(r) /\ reader[r].stale
      woke == [k EXCEPT !.force = k.healthy, !.healthy = FALSE,
                        !.initial = TRUE, !.fresh = "no"]
      Refreshed == window' = [window EXCEPT !.feeds = r]
  IN /\ Drifts(c, "sleep") /\ ~Healthy(k) /\ ~k.wanted
     /\ \/ /\ stale /\ k.idle
           /\ Refreshed \/ UNCHANGED window
           /\ handler' = [handler EXCEPT ![c] = Sleeps(woke)]
           /\ UNCHANGED <<registered, consumers, reader, ended, faults>>
        \/ /\ stale /\ ~k.idle /\ k.refreshed
           /\ handler' = [handler EXCEPT ![c] =
                          Sleeps([woke EXCEPT !.idle = TRUE])]
           /\ UNCHANGED <<window, registered, consumers, reader, ended,
                          faults>>
        \/ /\ stale /\ ~k.idle /\ ~k.refreshed
           /\ Refreshed
           /\ handler' = [handler EXCEPT ![c] = [woke EXCEPT !.drift = "pane",
                                                        !.refreshed = TRUE]]
           /\ UNCHANGED <<registered, consumers, reader, ended, faults>>
        \/ /\ ~stale
           /\ \/ k.active /\ \E ok \in BOOLEAN : Subscribe(c, k.pane, ok)
              \/ ~k.active /\ UNCHANGED <<window, registered, consumers,
                                          reader, ended, faults>>
           /\ handler' = [handler EXCEPT ![c] = [woke EXCEPT !.drift = "pane"]]
     /\ UNCHANGED fifo

\* The window's pane changed: leave the old pane's stream, join the new one.
DriftMoves(c) ==
  LET k == handler[c] IN
  /\ Drifts(c, "pane") /\ k.pane # window.pane
  /\ handler' = [handler EXCEPT ![c] =
       [k EXCEPT !.active = FALSE, !.pane = window.pane, !.hash = "none",
                 !.drift = "join"]]
  /\ \/ k.active /\ Unsubscribe(c, k.pane)
     \/ ~k.active
        /\ UNCHANGED <<window, registered, consumers, reader, ended, faults>>
  /\ UNCHANGED fifo

DriftJoins(c) ==
  /\ Drifts(c, "join")
  /\ \E ok \in BOOLEAN :
       /\ Subscribe(c, handler[c].pane, ok)
       /\ handler' = [handler EXCEPT ![c] =
            Sleeps([@ EXCEPT !.active = handler[c].active \/ ok,
                             !.wanted = TRUE])]
  /\ UNCHANGED fifo

DriftSyncs(c) ==
  /\ Drifts(c, "pane") /\ handler[c].pane = window.pane
  /\ handler' = [handler EXCEPT ![c] = BeginSync(@, @.force)]
  /\ UNCHANGED <<window, fifo, registered, consumers, reader, ended, faults>>

Capture(c) ==
  /\ Drifts(c, "capture")
  /\ handler' = [handler EXCEPT ![c] = [@ EXCEPT !.snap = window.screen,
                                               !.drift = "send"]]
  /\ UNCHANGED <<window, fifo, registered, consumers, reader, ended, faults>>

\* Screens of equal parity look the same: output may restore a screen.
Hash(screen) == IF screen % 2 = 0 THEN "even" ELSE "odd"

SendSync(c) ==
  LET k == handler[c]
      dropped == [k EXCEPT !.buffer = <<>>, !.event = FALSE]
  IN /\ Drifts(c, "send")
     /\ handler' = [handler EXCEPT ![c] =
          IF k.hash = Hash(k.snap) /\ ~k.force
          THEN Sleeps(dropped)
          ELSE [dropped EXCEPT !.hash = Hash(k.snap), !.shown = k.snap,
                               !.snap = 0, !.drift = "sent"]]
     /\ UNCHANGED <<window, fifo, registered, consumers, reader, ended,
                    faults>>

EndSync(c) ==
  /\ Drifts(c, "sent")
  /\ handler' = [handler EXCEPT ![c] = Sleeps(@)]
  /\ UNCHANGED <<window, fifo, registered, consumers, reader, ended, faults>>

DriftCorrection(c) ==
  \/ EarlySync(c) \/ DriftRests(c) \/ DriftRepairs(c)
  \/ DriftMoves(c) \/ DriftJoins(c) \/ DriftSyncs(c) \/ Capture(c)
  \/ SendSync(c) \/ EndSync(c)

PaneNext ==
  \/ PaneWrites \/ WindowRecreated \/ CatKilled \/ Deliver
  \/ \E r \in Readers : ReaderEnds(r) \/ EagerRestart(r) \/ ReaderAges(r)
  \/ \E c \in Watchers :
       \/ OpenPane(c) \/ Resize(c) \/ StartStreaming(c) \/ Close(c)
       \/ Flush(c) \/ FlushAges(c) \/ DriftCorrection(c)

\* The event loop runs what is ready and timers expire; nobody has to type,
\* open or leave a terminal.
PaneFairness ==
  /\ WF_paneVars(Deliver)
  /\ \A r \in Readers : /\ WF_paneVars(ReaderEnds(r) \/ EagerRestart(r))
                        /\ WF_paneVars(ReaderAges(r))
  /\ \A c \in Watchers : /\ WF_paneVars(Flush(c))
                        /\ WF_paneVars(FlushAges(c))
                        /\ WF_paneVars(StartStreaming(c))
                        /\ WF_paneVars(DriftCorrection(c))

PaneSpec == PaneInit /\ [][PaneNext]_paneVars /\ PaneFairness

-----------------------------------------------------------------------------
\* A running reader is the one its pane's pool entry names (pty_stream.py,
\* _readers): no reader keeps a FIFO nobody can stop.
NoStrayReader ==
  \A r \in Readers : reader[r].running => registered[reader[r].pane] = r

\* A reader of the pool has a consumer: the last to leave stops it.
ReaderHasConsumer ==
  \A p \in PaneIds : registered[p] # None => consumers[p] # {}

\* An open terminal's stream whose reader is gone gets a reader again,
\* through the eager restart or the drift correction, as long as readers
\* can be started at all.
ReaderComesBack ==
  \A c \in Watchers :
    (handler[c].pc = "run" /\ handler[c].active)
      ~> (\/ handler[c].pc # "run" \/ ~handler[c].active
          \/ Alive(registered[handler[c].pane])
          \/ faults.started = MaxReaders)

\* An open terminal comes back in step with its window, a window that was
\* made anew with another pane included: drift correction "provides
\* ground-truth sync even if streaming is active" (ws_terminal.py).  It does
\* not where the window looks as it did at the last sync, and, for a terminal
\* that holds its pane for idle, where that pane was replaced or the cat had
\* died before.
ViewCatchesUp ==
  \A c \in Watchers :
    []<>(\/ handler[c].pc # "run" \/ faults.started = MaxReaders
         \/ handler[c].shown = window.screen
         \/ handler[c].hash = Hash(window.screen)
         \/ handler[c].idle /\ handler[c].pane # window.pane
         \/ handler[c].idle /\ faults.kills > 0)
=============================================================================
