---------------------------- MODULE StreamProofs ----------------------------
(***************************************************************************)
(* What the streams of terminals guarantee, for any number of terminals,   *)
(* panes and PTYs.  The stream pool of local panes: no reader is out of    *)
(* its reach, and none is kept without a consumer.  The streams of remote  *)
(* PTYs: what a terminal shows is one row of chunks without a gap, that    *)
(* begins no later than where its history ends.                            *)
(***************************************************************************)
EXTENDS PaneStream, PtyDaemon, FiniteSetTheorems, SequenceTheorems,
        WellFoundedInduction, TLAPS

\* The parts of the records that the pool depends on.
HasPane(k) == "pane" \in DOMAIN k /\ k.pane \in PaneIds
HasReaderState(k) ==
  {"running", "eof", "stale", "pane"} \subseteq DOMAIN k /\ HasPane(k)

PlacesKnown ==
  /\ HasPane(window)
  /\ handler = [c \in Watchers |-> handler[c]]
  /\ \A c \in Watchers : HasPane(handler[c])

PoolTyped ==
  /\ registered \in [PaneIds -> 0..MaxReaders]
  /\ consumers \in [PaneIds -> SUBSET Watchers]
  /\ reader = [r \in Readers |-> reader[r]]
  /\ \A r \in Readers : HasReaderState(reader[r])
  /\ "started" \in DOMAIN faults /\ faults.started \in 0..MaxReaders

PoolInv == PoolTyped /\ NoStrayReader /\ ReaderHasConsumer
PaneInv == PlacesKnown /\ PoolInv

-----------------------------------------------------------------------------
(* What starting, failing and stopping a reader does to the pool.          *)

LEMMA Bounds == MaxReaders \in Nat /\ MaxReaders > 0 /\ 1 \in PaneIds
BY PaneStreamAssumption DEF PaneIds

LEMMA Stopping ==
  ASSUME PoolTyped, NEW old \in 0..MaxReaders
  PROVE  LET rs == StopReader(reader, old)
         IN /\ rs = [r \in Readers |-> rs[r]]
            /\ \A r \in Readers :
                 /\ HasReaderState(rs[r])
                 /\ rs[r].pane = reader[r].pane
                 /\ rs[r].running => reader[r].running /\ r # old
<1> DEFINE rs == StopReader(reader, old)
<1>1. CASE old = None
  BY <1>1, Bounds DEF StopReader, PoolTyped, Readers, None
<1>2. CASE old # None
  <2>1. old \in Readers /\ rs = [reader EXCEPT ![old].running = FALSE]
    BY <1>2, Bounds DEF StopReader, Readers, None
  <2> QED
    BY <2>1 DEF PoolTyped, HasReaderState, HasPane
<1> QED
  BY <1>1, <1>2

LEMMA Starting ==
  ASSUME PoolInv, NEW p \in PaneIds, NEW old \in 0..MaxReaders,
         NEW subs \in [PaneIds -> SUBSET Watchers],
         registered[p] = old, StartsReader(p, old, subs),
         subs[p] # {},
         \A q \in PaneIds : consumers[q] \subseteq subs[q]
  PROVE  PoolInv'
<1> DEFINE r == faults.started + 1
           rs == StopReader(reader, old)
           new == [running |-> TRUE, eof |-> FALSE, stale |-> FALSE, pane |-> p]
<1>1. r \in Readers /\ r \in 0..MaxReaders /\ r # None
  BY Bounds DEF StartsReader, PoolInv, PoolTyped, Readers, None
<1>2. /\ faults' = [faults EXCEPT !.started = r]
      /\ reader' = [rs EXCEPT ![r] = new]
      /\ registered' = [registered EXCEPT ![p] = r]
      /\ consumers' = subs
  BY DEF StartsReader
<1> HIDE DEF r, rs
<1>3. /\ rs = [s \in Readers |-> rs[s]]
      /\ \A s \in Readers :
           /\ HasReaderState(rs[s]) /\ rs[s].pane = reader[s].pane
           /\ rs[s].running => reader[s].running /\ s # old
  BY Stopping DEF PoolInv, rs
<1>4. HasReaderState(new)
  BY DEF HasReaderState, HasPane
<1>5. PoolTyped'
  BY <1>1, <1>2, <1>3, <1>4 DEF PoolInv, PoolTyped
<1>6. NoStrayReader'
  <2> SUFFICES ASSUME NEW s \in Readers, reader'[s].running
               PROVE  registered'[reader'[s].pane] = s
    BY DEF NoStrayReader
  <2>1. CASE s = r
    BY <1>1, <1>2, <1>3, <2>1 DEF PoolInv, PoolTyped
  <2>2. CASE s # r
    <3>1. reader'[s] = rs[s]
      BY <1>2, <1>3, <2>2
    <3>2. reader[s].running /\ s # old /\ reader'[s].pane = reader[s].pane
      BY <1>3, <3>1
    <3>3. registered[reader[s].pane] = s /\ reader[s].pane \in PaneIds
      BY <3>2 DEF PoolInv, PoolTyped, NoStrayReader, HasReaderState, HasPane
    <3> QED
      BY <1>2, <3>2, <3>3 DEF PoolInv, PoolTyped
  <2> QED
    BY <2>1, <2>2
<1>7. ReaderHasConsumer'
  BY <1>2 DEF PoolInv, PoolTyped, ReaderHasConsumer
<1> QED
  BY <1>5, <1>6, <1>7 DEF PoolInv

\* A pane's reader goes: none of its readers runs any more.
LEMMA Removing ==
  ASSUME PoolInv, NEW p \in PaneIds, NEW subs \in [PaneIds -> SUBSET Watchers],
         reader' = StopReader(reader, registered[p]),
         registered' = [registered EXCEPT ![p] = None],
         consumers' = subs,
         \A q \in PaneIds : q # p => subs[q] = consumers[q],
         "started" \in DOMAIN faults', faults'.started = faults.started
  PROVE  PoolInv'
<1> DEFINE rs == StopReader(reader, registered[p])
<1>1. registered[p] \in 0..MaxReaders /\ None \in 0..MaxReaders
  BY Bounds DEF PoolInv, PoolTyped, None
<1>2. /\ rs = [s \in Readers |-> rs[s]]
      /\ \A s \in Readers :
           /\ HasReaderState(rs[s]) /\ rs[s].pane = reader[s].pane
           /\ rs[s].running => reader[s].running /\ s # registered[p]
  BY <1>1, Stopping DEF PoolInv
<1> HIDE DEF rs
<1>3. reader' = rs
  BY DEF rs
<1>4. PoolTyped'
  BY <1>1, <1>2, <1>3 DEF PoolInv, PoolTyped
<1>5. NoStrayReader'
  BY <1>2, <1>3 DEF PoolInv, PoolTyped, NoStrayReader, HasReaderState, HasPane
<1>6. ReaderHasConsumer'
  BY DEF PoolInv, PoolTyped, ReaderHasConsumer
<1> QED
  BY <1>4, <1>5, <1>6 DEF PoolInv

LEMMA SubscribeKeepsPool ==
  ASSUME PaneInv, NEW c \in Watchers, NEW p \in PaneIds, NEW ok \in BOOLEAN,
         Subscribe(c, p, ok)
  PROVE  PoolInv' /\ HasPane(window')
<1> DEFINE old == registered[p]
           subs == [consumers EXCEPT ![p] = @ \cup {c}]
<1>1. old \in 0..MaxReaders /\ subs \in [PaneIds -> SUBSET Watchers]
      /\ subs[p] # {} /\ \A q \in PaneIds : consumers[q] \subseteq subs[q]
  BY DEF PaneInv, PoolInv, PoolTyped
<1>2. CASE /\ consumers' = subs
           /\ UNCHANGED <<registered, reader, window, faults>>
  <2>1. PoolTyped' /\ NoStrayReader'
    BY <1>1, <1>2 DEF PaneInv, PoolInv, PoolTyped, NoStrayReader
  <2>2. ReaderHasConsumer'
    BY <1>1, <1>2 DEF PaneInv, PoolInv, ReaderHasConsumer
  <2> QED
    BY <1>2, <2>1, <2>2 DEF PaneInv, PoolInv, PlacesKnown
<1>3. CASE StartsReader(p, old, subs)
  <2>1. PoolInv'
    BY <1>1, <1>3, Starting DEF PaneInv
  <2>2. HasPane(window')
    BY <1>3 DEF StartsReader, PaneInv, PlacesKnown, HasPane
  <2> QED
    BY <2>1, <2>2
<1>4. CASE FailsReader(p, old)
  <2>1. /\ reader' = StopReader(reader, registered[p])
        /\ registered' = [registered EXCEPT ![p] = None]
        /\ consumers' = consumers
        /\ faults' = [faults EXCEPT !.fails = @ + 1]
        /\ window' = PipeStopped(old)
    BY <1>4 DEF FailsReader
  <2>2. "started" \in DOMAIN faults' /\ faults'.started = faults.started
    BY <2>1 DEF PaneInv, PoolInv, PoolTyped
  <2>3. PoolInv'
    BY <2>1, <2>2, Removing DEF PaneInv, PoolInv, PoolTyped
  <2>4. HasPane(window')
    BY <2>1 DEF PipeStopped, PaneInv, PlacesKnown, HasPane
  <2> QED
    BY <2>3, <2>4
<1> QED
  BY <1>2, <1>3, <1>4 DEF Subscribe

LEMMA UnsubscribeKeepsPool ==
  ASSUME PaneInv, NEW c \in Watchers, NEW p \in PaneIds, Unsubscribe(c, p)
  PROVE  PoolInv' /\ HasPane(window')
<1> DEFINE left == consumers[p] \ {c}
           last == consumers[p] # {} /\ left = {}
<1>1. /\ consumers' = [consumers EXCEPT ![p] = left]
      /\ consumers' \in [PaneIds -> SUBSET Watchers]
      /\ faults' = faults
  BY DEF Unsubscribe, PaneInv, PoolInv, PoolTyped
<1>2. CASE last
  <2>1. /\ registered' = [registered EXCEPT ![p] = None]
        /\ reader' = StopReader(reader, registered[p])
        /\ window' = PipeStopped(registered[p])
    BY <1>2 DEF Unsubscribe
  <2>2. \A q \in PaneIds : q # p => consumers'[q] = consumers[q]
    BY <1>1 DEF PaneInv, PoolInv, PoolTyped
  <2>3. "started" \in DOMAIN faults'
    BY <1>1 DEF PaneInv, PoolInv, PoolTyped
  <2>4. PoolInv'
    BY <1>1, <2>1, <2>2, <2>3, Removing DEF PaneInv
  <2>5. HasPane(window')
    BY <2>1 DEF PipeStopped, PaneInv, PlacesKnown, HasPane
  <2> QED
    BY <2>4, <2>5
<1>3. CASE ~last
  <2>1. registered' = registered /\ reader' = reader /\ window' = window
    BY <1>3 DEF Unsubscribe, StopReader, PipeStopped
  <2>2. PoolTyped' /\ NoStrayReader'
    BY <1>1, <2>1 DEF PaneInv, PoolInv, PoolTyped, NoStrayReader
  <2>3. ReaderHasConsumer'
    BY <1>1, <1>3, <2>1 DEF PaneInv, PoolInv, PoolTyped, ReaderHasConsumer
  <2> QED
    BY <2>1, <2>2, <2>3 DEF PaneInv, PoolInv, PlacesKnown
<1> QED
  BY <1>2, <1>3

-----------------------------------------------------------------------------
(* The end of a reader, output, and time.                                  *)

\* Steps that leave the pool's entries and which readers run.
LEMMA PoolUntouched ==
  ASSUME PoolInv, UNCHANGED <<registered, consumers>>,
         "started" \in DOMAIN faults', faults'.started = faults.started,
         reader' = [r \in Readers |-> reader'[r]],
         \A r \in Readers : /\ HasReaderState(reader'[r])
                            /\ reader'[r].running = reader[r].running
                            /\ reader'[r].pane = reader[r].pane
  PROVE  PoolInv'
<1>1. PoolTyped'
  BY DEF PoolInv, PoolTyped
<1>2. NoStrayReader'
  BY DEF PoolInv, NoStrayReader
<1>3. ReaderHasConsumer'
  BY DEF PoolInv, ReaderHasConsumer
<1> QED
  BY <1>1, <1>2, <1>3 DEF PoolInv

LEMMA PoolUnchanged ==
  ASSUME PoolInv, UNCHANGED <<registered, consumers, reader, faults>>
  PROVE  PoolInv'
BY DEF PoolInv, PoolTyped, NoStrayReader, ReaderHasConsumer

LEMMA ReaderEndsKeepsInv ==
  ASSUME PaneInv, NEW r \in Readers, ReaderEnds(r)
  PROVE  PaneInv'
<1> DEFINE p == reader[r].pane
           rs == StopReader(reader, registered[p])
<1>1. p \in PaneIds /\ registered[p] \in 0..MaxReaders
  BY DEF PaneInv, PoolInv, PoolTyped, HasReaderState, HasPane
<1>2. /\ reader' = [rs EXCEPT ![r].eof = TRUE]
      /\ registered' = [registered EXCEPT ![p] = None]
      /\ window' = PipeStopped(registered[p])
      /\ UNCHANGED <<consumers, handler, faults>>
  BY DEF ReaderEnds
<1>3. /\ rs = [s \in Readers |-> rs[s]]
      /\ \A s \in Readers :
           /\ HasReaderState(rs[s]) /\ rs[s].pane = reader[s].pane
           /\ rs[s].running => reader[s].running /\ s # registered[p]
  BY <1>1, Stopping DEF PaneInv, PoolInv
<1> HIDE DEF rs, p
<1>4. /\ reader' = [s \in Readers |-> reader'[s]]
      /\ \A s \in Readers :
           /\ HasReaderState(reader'[s]) /\ reader'[s].pane = reader[s].pane
           /\ reader'[s].running =>
                reader[s].running /\ s # registered[p]
  BY <1>2, <1>3 DEF HasReaderState, HasPane
<1>5. PoolTyped'
  <2>1. registered' \in [PaneIds -> 0..MaxReaders]
    BY <1>1, <1>2, Bounds DEF PaneInv, PoolInv, PoolTyped, None
  <2>2. /\ consumers' \in [PaneIds -> SUBSET Watchers]
        /\ "started" \in DOMAIN faults' /\ faults'.started \in 0..MaxReaders
    BY <1>2 DEF PaneInv, PoolInv, PoolTyped
  <2>3. \A s \in Readers : HasReaderState(reader'[s])
    BY <1>4
  <2>4. reader' = [s \in Readers |-> reader'[s]]
    BY <1>4
  <2>5. \A s \in Readers : HasReaderState(reader[s])'
    BY <2>3 DEF HasReaderState, HasPane
  <2> QED
    BY <2>1, <2>2, <2>4, <2>5 DEF PoolTyped
<1>6. NoStrayReader'
  BY <1>1, <1>2, <1>4 DEF PaneInv, PoolInv, PoolTyped, NoStrayReader,
     HasReaderState, HasPane
<1>7. ReaderHasConsumer'
  BY <1>1, <1>2 DEF PaneInv, PoolInv, PoolTyped, ReaderHasConsumer
<1>8. PlacesKnown'
  BY <1>2 DEF PaneInv, PlacesKnown, PipeStopped, HasPane
<1> QED
  BY <1>5, <1>6, <1>7, <1>8 DEF PaneInv, PoolInv

LEMMA EagerRestartKeepsInv ==
  ASSUME PaneInv, NEW r \in Readers, EagerRestart(r)
  PROVE  PaneInv'
<1> DEFINE p == reader[r].pane
<1>1. p \in PaneIds /\ None \in 0..MaxReaders
  BY Bounds DEF PaneInv, PoolInv, PoolTyped, HasReaderState, HasPane, None
<1>2. CASE UNCHANGED <<registered, reader, window, faults, consumers>>
  <2>1. handler' = handler
    BY DEF EagerRestart
  <2> QED
    BY <1>2, <2>1, PoolUnchanged DEF PaneInv, PlacesKnown
<1>3. CASE registered[p] = None /\ consumers[p] # {}
           /\ StartsReader(p, None, consumers)
  <2>1. PoolInv'
    BY <1>1, <1>3, Starting DEF PaneInv, PoolInv, PoolTyped
  <2>2. PlacesKnown'
    BY <1>3 DEF EagerRestart, StartsReader, PaneInv, PlacesKnown, HasPane
  <2> QED
    BY <2>1, <2>2 DEF PaneInv
<1>4. CASE registered[p] = None /\ FailsReader(p, None)
  <2>1. /\ reader' = StopReader(reader, registered[p])
        /\ registered' = [registered EXCEPT ![p] = None]
        /\ consumers' = consumers
        /\ faults' = [faults EXCEPT !.fails = @ + 1]
        /\ window' = PipeStopped(None)
    BY <1>4 DEF FailsReader
  <2>2. "started" \in DOMAIN faults' /\ faults'.started = faults.started
    BY <2>1 DEF PaneInv, PoolInv, PoolTyped
  <2>3. PoolInv'
    BY <1>1, <2>1, <2>2, Removing DEF PaneInv, PoolInv, PoolTyped
  <2>4. PlacesKnown'
    BY <2>1 DEF EagerRestart, PipeStopped, PaneInv, PlacesKnown, HasPane
  <2> QED
    BY <2>3, <2>4 DEF PaneInv
<1> QED
  BY <1>2, <1>3, <1>4 DEF EagerRestart

LEMMA OutputKeepsInv ==
  ASSUME PaneInv, PaneWrites \/ WindowRecreated \/ CatKilled \/ Deliver
  PROVE  PaneInv'
<1>1. CASE PaneWrites
  <2>1. PlacesKnown'
    BY <1>1 DEF PaneWrites, PaneInv, PlacesKnown, HasPane
  <2>2. PoolInv'
    BY <1>1, PoolUnchanged DEF PaneWrites, PaneInv
  <2> QED
    BY <2>1, <2>2 DEF PaneInv
<1>2. CASE WindowRecreated
  <2>1. window.pane + 1 \in PaneIds
    BY <1>2, PaneStreamAssumption
       DEF WindowRecreated, PaneInv, PlacesKnown, HasPane, PaneIds
  <2>2. PlacesKnown'
    BY <1>2, <2>1 DEF WindowRecreated, PaneInv, PlacesKnown, HasPane
  <2>3. PoolInv'
    BY <1>2, PoolUnchanged DEF WindowRecreated, PaneInv
  <2> QED
    BY <2>2, <2>3 DEF PaneInv
<1>3. CASE CatKilled
  <2>1. PlacesKnown'
    BY <1>3 DEF CatKilled, PaneInv, PlacesKnown, HasPane
  <2>2. "started" \in DOMAIN faults' /\ faults'.started = faults.started
    BY <1>3 DEF CatKilled, PaneInv, PoolInv, PoolTyped
  <2>3. UNCHANGED <<registered, consumers, reader>>
    BY <1>3 DEF CatKilled
  <2>4. PoolInv'
    BY <2>2, <2>3, PoolUntouched DEF PaneInv, PoolInv, PoolTyped
  <2> QED
    BY <2>1, <2>4 DEF PaneInv
<1>4. CASE Deliver
  <2> DEFINE r == Head(fifo)[1]
             to == IF reader[r].running THEN consumers[reader[r].pane] ELSE {}
             chunk == Head(fifo)[2]
  <2>1. /\ handler' = [c \in Watchers |->
             IF c \in to THEN OnStreamData(handler[c], chunk) ELSE handler[c]]
        /\ reader' = [reader EXCEPT ![r].stale = FALSE]
        /\ UNCHANGED <<window, registered, consumers, faults>>
    BY <1>4 DEF Deliver
  <2> HIDE DEF r, to, chunk
  <2>2. \A k : HasPane(k) => HasPane(OnStreamData(k, chunk))
    BY DEF HasPane, OnStreamData
  <2>3. PlacesKnown'
    BY <2>1, <2>2 DEF PaneInv, PlacesKnown
  <2>4. PoolInv'
    BY <2>1, PoolUntouched
       DEF PaneInv, PoolInv, PoolTyped, HasReaderState, HasPane
  <2> QED
    BY <2>3, <2>4 DEF PaneInv
<1> QED
  BY <1>1, <1>2, <1>3, <1>4

LEMMA ReaderAgesKeepsInv ==
  ASSUME PaneInv, NEW r \in Readers, ReaderAges(r)
  PROVE  PaneInv'
<1>1. /\ reader' = [reader EXCEPT ![r].stale = TRUE]
      /\ UNCHANGED <<window, registered, consumers, handler, faults>>
  BY DEF ReaderAges
<1>2. PoolInv'
  BY <1>1, PoolUntouched
     DEF PaneInv, PoolInv, PoolTyped, HasReaderState, HasPane
<1> QED
  BY <1>1, <1>2 DEF PaneInv, PlacesKnown

-----------------------------------------------------------------------------
(* Handlers.  They touch the pool through subscribe and unsubscribe only.  *)

LEMMA HandlerMoves ==
  ASSUME PlacesKnown, NEW c \in Watchers, NEW k, HasPane(k),
         handler' = [handler EXCEPT ![c] = k], HasPane(window')
  PROVE  PlacesKnown'
BY DEF PlacesKnown

LEMMA HandlerStays ==
  ASSUME PaneInv, NEW c \in Watchers, NEW k, HasPane(k),
         handler' = [handler EXCEPT ![c] = k], HasPane(window'),
         UNCHANGED <<registered, consumers, reader, faults>>
  PROVE  PaneInv'
BY HandlerMoves, PoolUnchanged DEF PaneInv

LEMMA LoopKeepsPane ==
  ASSUME NEW k, HasPane(k)
  PROVE  /\ HasPane(Sleeps(k))
         /\ \A forced : HasPane(BeginSync(k, forced))
<1>1. HasPane(Sleeps(k))
  BY DEF HasPane, Sleeps
<1>2. \A forced : HasPane(BeginSync(k, forced))
  BY DEF HasPane, BeginSync
<1> QED
  BY <1>1, <1>2

\* Opening, the history, flushes, their age.
LEMMA TerminalKeepsInv ==
  ASSUME PaneInv, NEW c \in Watchers,
         OpenPane(c) \/ Resize(c) \/ Flush(c) \/ FlushAges(c)
  PROVE  PaneInv'
<1>1. HasPane(handler[c]) /\ HasPane(window)
  BY DEF PaneInv, PlacesKnown
<1>2. UNCHANGED <<window, registered, consumers, reader, faults>>
  BY DEF OpenPane, Resize, Flush, FlushAges
<1>3. \E k : HasPane(k) /\ handler' = [handler EXCEPT ![c] = k]
  <2>1. CASE OpenPane(c)
    <3>1. HasPane([NoHandler EXCEPT !.pc = "open", !.pane = window.pane])
      BY <1>1 DEF HasPane, NoHandler
    <3> QED
      BY <2>1, <3>1 DEF OpenPane
  <2>2. CASE Resize(c)
    <3>1. PICK shown :
            handler' = [handler EXCEPT ![c] =
              [handler[c] EXCEPT !.shown = shown, !.initial = TRUE,
                 !.pc = IF handler[c].active THEN "run" ELSE "start",
                 !.flusher = handler[c].active]]
      BY <2>2 DEF Resize
    <3>2. HasPane([handler[c] EXCEPT !.shown = shown, !.initial = TRUE,
                     !.pc = IF handler[c].active THEN "run" ELSE "start",
                     !.flusher = handler[c].active])
      BY <1>1 DEF HasPane
    <3> QED
      BY <3>1, <3>2
  <2>3. CASE Flush(c)
    <3> DEFINE k == handler[c]
               one == [k EXCEPT !.event = FALSE, !.buffer = <<>>,
                         !.fresh = "yes", !.shown = Shows(k.shown, k.buffer)]
               two == [k EXCEPT !.event = FALSE]
    <3>1. HasPane(one) /\ HasPane(two)
      BY <1>1 DEF HasPane
    <3>2. \/ handler' = [handler EXCEPT ![c] = one]
          \/ handler' = [handler EXCEPT ![c] = two]
      BY <2>3 DEF Flush
    <3> QED
      BY <3>1, <3>2
  <2>4. CASE FlushAges(c)
    <3>1. HasPane([handler[c] EXCEPT !.fresh = "aged"])
      BY <1>1 DEF HasPane
    <3> QED
      BY <2>4, <3>1, <1>1 DEF FlushAges, PaneInv, PlacesKnown
  <2> QED
    BY <2>1, <2>2, <2>3, <2>4
<1> QED
  BY <1>1, <1>2, <1>3, HandlerStays

LEMMA StreamsKeepInv ==
  ASSUME PaneInv, NEW c \in Watchers, StartStreaming(c) \/ Close(c)
  PROVE  PaneInv'
<1>1. HasPane(handler[c]) /\ HasPane(window) /\ handler[c].pane \in PaneIds
  BY DEF PaneInv, PlacesKnown, HasPane
<1>2. CASE StartStreaming(c)
  <2>1. PICK ok \in BOOLEAN :
          /\ Subscribe(c, handler[c].pane, ok)
          /\ handler' = [handler EXCEPT ![c] =
               [handler[c] EXCEPT !.pc = "run",
                  !.active = handler[c].active \/ ok,
                  !.flusher = handler[c].active \/ ok]]
    BY <1>2, Zenon DEF StartStreaming
  <2>2. HasPane([handler[c] EXCEPT !.pc = "run",
                  !.active = handler[c].active \/ ok,
                   !.flusher = handler[c].active \/ ok])
    BY <1>1 DEF HasPane
  <2>3. PoolInv' /\ HasPane(window')
    BY <1>1, <2>1, SubscribeKeepsPool
  <2> QED
    BY <2>1, <2>2, <2>3, HandlerMoves DEF PaneInv
<1>3. CASE Close(c)
  <2>1. handler' = [handler EXCEPT ![c] = NoHandler] /\ HasPane(NoHandler)
    BY <1>3, Bounds DEF Close, NoHandler, HasPane
  <2>2. PoolInv' /\ HasPane(window')
    <3>1. CASE Unsubscribe(c, handler[c].pane)
      BY <1>1, <3>1, UnsubscribeKeepsPool
    <3>2. CASE UNCHANGED <<window, registered, consumers, reader, ended,
                           faults>>
      BY <1>1, <3>2, PoolUnchanged DEF PaneInv
    <3> QED
      BY <1>3, <3>1, <3>2 DEF Close
  <2> QED
    BY <2>1, <2>2, HandlerMoves DEF PaneInv
<1> QED
  BY <1>2, <1>3

\* The steps of the drift correction that only look and send.
LEMMA SyncKeepsInv ==
  ASSUME PaneInv, NEW c \in Watchers,
         \/ EarlySync(c) \/ DriftRests(c) \/ DriftSyncs(c) \/ Capture(c)
         \/ SendSync(c) \/ EndSync(c)
  PROVE  PaneInv'
<1> DEFINE k == handler[c]
<1>1. HasPane(k) /\ HasPane(window)
  BY DEF PaneInv, PlacesKnown
<1>2. UNCHANGED <<window, registered, consumers, reader, faults>>
  BY DEF EarlySync, DriftRests, DriftSyncs, Capture, SendSync, EndSync
<1>h. handler = [d \in Watchers |-> handler[d]]
  BY DEF PaneInv, PlacesKnown
<1>3. \E new : HasPane(new) /\ handler' = [handler EXCEPT ![c] = new]
  <2>1. CASE EarlySync(c)
    BY <1>1, <2>1, LoopKeepsPane DEF EarlySync
  <2>2. CASE DriftRests(c)
    <3> DEFINE wanted == [k EXCEPT !.wanted = FALSE, !.initial = TRUE,
                                   !.healthy = Healthy(k)]
               rested == [k EXCEPT !.healthy = TRUE, !.initial = TRUE]
    <3>1. HasPane(wanted) /\ HasPane(rested)
      BY <1>1 DEF HasPane
    <3>2. \/ handler' = [handler EXCEPT ![c] = BeginSync(wanted, TRUE)]
          \/ handler' = [handler EXCEPT ![c] = Sleeps(rested)]
      BY <2>2 DEF DriftRests
    <3> HIDE DEF wanted, rested
    <3> QED
      BY <3>1, <3>2, LoopKeepsPane
  <2>3. CASE DriftSyncs(c)
    BY <1>1, <2>3, LoopKeepsPane DEF DriftSyncs
  <2>4. CASE Capture(c)
    <3>1. HasPane([k EXCEPT !.snap = window.screen, !.drift = "send"])
      BY <1>1 DEF HasPane
    <3> QED
      BY <2>4, <3>1 DEF Capture
  <2>5. CASE SendSync(c)
    <3> DEFINE dropped == [k EXCEPT !.buffer = <<>>, !.event = FALSE]
               sent == [dropped EXCEPT !.hash = Hash(k.snap), !.shown = k.snap,
                          !.snap = 0, !.drift = "sent"]
    <3>1. HasPane(dropped) /\ HasPane(sent)
      BY <1>1 DEF HasPane
    <3>2. \/ handler' = [handler EXCEPT ![c] = Sleeps(dropped)]
          \/ handler' = [handler EXCEPT ![c] = sent]
      BY <2>5 DEF SendSync
    <3> HIDE DEF dropped, sent
    <3> QED
      BY <3>1, <3>2, LoopKeepsPane
  <2>6. CASE EndSync(c)
    BY <1>1, <2>6, LoopKeepsPane DEF EndSync
  <2> QED
    BY <2>1, <2>2, <2>3, <2>4, <2>5, <2>6
<1> QED
  BY <1>1, <1>2, <1>3, HandlerStays

\* Those that repair the stream or follow the window to its new pane.
LEMMA RepairKeepsInv ==
  ASSUME PaneInv, NEW c \in Watchers,
         DriftRepairs(c) \/ DriftMoves(c) \/ DriftJoins(c)
  PROVE  PaneInv'
<1> DEFINE k == handler[c]
<1>1. HasPane(k) /\ HasPane(window) /\ k.pane \in PaneIds
      /\ window.pane \in PaneIds
  BY DEF PaneInv, PlacesKnown, HasPane
<1>2. CASE DriftRepairs(c)
  <2> DEFINE woke == [k EXCEPT !.force = k.healthy, !.healthy = FALSE,
                               !.initial = TRUE, !.fresh = "no"]
             asleep == [woke EXCEPT !.idle = TRUE]
             piped == [woke EXCEPT !.drift = "pane", !.refreshed = TRUE]
             looks == [woke EXCEPT !.drift = "pane"]
             fed == [window EXCEPT !.feeds = registered[k.pane]]
  <2>1. /\ HasPane(woke) /\ HasPane(asleep) /\ HasPane(piped)
        /\ HasPane(looks) /\ HasPane(fed)
    BY <1>1 DEF HasPane
  <2>2. \/ /\ \/ handler' = [handler EXCEPT ![c] = Sleeps(woke)]
              \/ handler' = [handler EXCEPT ![c] = Sleeps(asleep)]
              \/ handler' = [handler EXCEPT ![c] = piped]
           /\ window' = fed \/ window' = window
           /\ UNCHANGED <<registered, consumers, reader, faults>>
        \/ /\ handler' = [handler EXCEPT ![c] = looks]
           /\ \/ \E ok \in BOOLEAN : Subscribe(c, k.pane, ok)
              \/ UNCHANGED <<window, registered, consumers, reader, faults>>
    BY <1>2 DEF DriftRepairs
  <2> HIDE DEF woke, asleep, piped, looks, fed
  <2>3. CASE /\ \/ handler' = [handler EXCEPT ![c] = Sleeps(woke)]
                \/ handler' = [handler EXCEPT ![c] = Sleeps(asleep)]
                \/ handler' = [handler EXCEPT ![c] = piped]
             /\ window' = fed \/ window' = window
             /\ UNCHANGED <<registered, consumers, reader, faults>>
    BY <1>1, <2>1, <2>3, LoopKeepsPane, HandlerStays
  <2>4. CASE /\ handler' = [handler EXCEPT ![c] = looks]
             /\ \/ \E ok \in BOOLEAN : Subscribe(c, k.pane, ok)
                \/ UNCHANGED <<window, registered, consumers, reader, faults>>
    <3>1. PoolInv' /\ HasPane(window')
      BY <1>1, <2>4, SubscribeKeepsPool, PoolUnchanged DEF PaneInv
    <3> QED
      BY <2>1, <2>4, <3>1, HandlerMoves DEF PaneInv
  <2> QED
    BY <2>2, <2>3, <2>4
<1>3. CASE DriftMoves(c)
  <2> DEFINE new == [k EXCEPT !.active = FALSE, !.pane = window.pane,
                              !.hash = "none", !.drift = "join"]
  <2>1. handler' = [handler EXCEPT ![c] = new] /\ HasPane(new)
    BY <1>1, <1>3 DEF DriftMoves, HasPane
  <2>2. PoolInv' /\ HasPane(window')
    <3>1. CASE Unsubscribe(c, k.pane)
      BY <1>1, <3>1, UnsubscribeKeepsPool
    <3>2. CASE UNCHANGED <<window, registered, consumers, reader, ended,
                           faults>>
      BY <1>1, <3>2, PoolUnchanged DEF PaneInv
    <3> QED
      BY <1>3, <3>1, <3>2 DEF DriftMoves
  <2> QED
    BY <2>1, <2>2, HandlerMoves DEF PaneInv
<1>4. CASE DriftJoins(c)
  <2>1. PICK ok \in BOOLEAN :
          /\ Subscribe(c, k.pane, ok)
          /\ handler' = [handler EXCEPT ![c] =
               Sleeps([k EXCEPT !.active = k.active \/ ok, !.wanted = TRUE])]
    BY <1>4, Zenon DEF DriftJoins
  <2>2. HasPane([k EXCEPT !.active = k.active \/ ok, !.wanted = TRUE])
    BY <1>1 DEF HasPane
  <2>3. PoolInv' /\ HasPane(window')
    BY <1>1, <2>1, SubscribeKeepsPool
  <2> QED
    BY <2>1, <2>2, <2>3, LoopKeepsPane, HandlerMoves DEF PaneInv
<1> QED
  BY <1>2, <1>3, <1>4

-----------------------------------------------------------------------------
LEMMA PaneStart == PaneInit => PaneInv
<1> SUFFICES ASSUME PaneInit PROVE PaneInv
  OBVIOUS
<1>1. PlacesKnown
  BY Bounds DEF PaneInit, PlacesKnown, HasPane, NoHandler
<1>2. PoolTyped
  BY Bounds DEF PaneInit, PoolTyped, HasReaderState, HasPane, NoReader, None
<1>3. NoStrayReader /\ ReaderHasConsumer
  BY DEF PaneInit, NoStrayReader, ReaderHasConsumer, NoReader
<1> QED
  BY <1>1, <1>2, <1>3 DEF PaneInv, PoolInv

LEMMA PaneStep ==
  ASSUME PaneInv, [PaneNext]_paneVars
  PROVE  PaneInv'
<1>1. CASE UNCHANGED paneVars
  BY <1>1, PoolUnchanged DEF paneVars, PaneInv, PlacesKnown
<1> QED
  BY <1>1, ReaderEndsKeepsInv, EagerRestartKeepsInv, OutputKeepsInv,
     ReaderAgesKeepsInv, TerminalKeepsInv, StreamsKeepInv, SyncKeepsInv,
     RepairKeepsInv DEF PaneNext, DriftCorrection

\* Every reader that runs is in the pool, where its pane's consumers find it.
THEOREM ReadersAreInThePool == PaneSpec => []NoStrayReader
<1>1. PaneInv => NoStrayReader
  BY DEF PaneInv, PoolInv
<1> QED
  BY <1>1, PaneStart, PaneStep, PTL DEF PaneSpec

\* A pane without consumers has no reader.
THEOREM ReadersHaveConsumers == PaneSpec => []ReaderHasConsumer
<1>1. PaneInv => ReaderHasConsumer
  BY DEF PaneInv, PoolInv
<1> QED
  BY <1>1, PaneStart, PaneStep, PTL DEF PaneSpec

-----------------------------------------------------------------------------
(* The streams of remote PTYs: rows of chunks, and the sockets that carry  *)
(* them.                                                                   *)

\* The chunks after the a-th, up to the b-th.
Row(a, b) == [k \in 1 .. (b - a) |-> a + k]

\* The items of a socket after the i-th, up to the j-th, are the chunks after
\* the a-th, up to the b-th, with heartbeats between them.
Steps(items, i, j, a, b) ==
  \E f \in [i .. j -> Nat] :
    /\ f[i] = a /\ f[j] = b
    /\ \A n \in i + 1 .. j :
         \/ items[n] = NUL /\ f[n] = f[n - 1]
         \/ items[n] = f[n - 1] + 1 /\ f[n] = f[n - 1] + 1

-----------------------------------------------------------------------------
LEMMA LeastByOrder ==
  ASSUME NEW Less, IsWellFoundedOn(Less, Nat),
         \A x, y \in Nat : <<y, x>> \in Less <=> y < x,
         NEW T \in SUBSET Nat, T # {}
  PROVE  \E x \in T : \A y \in T : x <= y
<1>1. PICK x \in T : \A y \in T : ~ (<<y, x>> \in Less)
  BY WFMin
<1>2. ASSUME NEW y \in T PROVE x <= y
  <2>1. x \in Nat /\ y \in Nat
    OBVIOUS
  <2>2. ~ (y < x)
    BY <1>1, <2>1
  <2> QED
    BY <2>1, <2>2
<1> QED
  BY <1>2

LEMMA LeastNumber ==
  ASSUME NEW T \in SUBSET Nat, T # {}
  PROVE  \E x \in T : \A y \in T : x <= y
<1>1. \A x, y \in Nat : <<y, x>> \in OpToRel(<, Nat) <=> y < x
  BY DEF OpToRel
<1> QED
  BY <1>1, NatLessThanWellFounded, LeastByOrder, Zenon

-----------------------------------------------------------------------------
(* Rows of chunks.                                                         *)

LEMMA RowIsSeq ==
  ASSUME NEW a \in Nat, NEW b \in Nat, a <= b, b <= MaxChunks
  PROVE  /\ Row(a, b) \in Seq(Chunks) /\ Row(a, b) \in Seq(Nat)
         /\ Len(Row(a, b)) = b - a
<1>1. MaxChunks \in Nat
  BY PtyDaemonAssumption
<1>2. \A k \in 1 .. (b - a) : a + k \in Chunks /\ a + k \in Nat
  BY <1>1 DEF Chunks
<1>3. b - a \in Nat
  OBVIOUS
<1> QED
  BY <1>2, <1>3 DEF Row

LEMMA NoRow ==
  ASSUME NEW a \in Nat
  PROVE  Row(a, a) = <<>>
BY DEF Row

LEMMA RowEmpty ==
  ASSUME NEW a \in Nat, NEW b \in Nat, a <= b, Row(a, b) = <<>>
  PROVE  a = b
<1>1. Len(Row(a, b)) = b - a
  BY DEF Row
<1> QED
  BY <1>1

LEMMA RowsJoin ==
  ASSUME NEW a \in Nat, NEW b \in Nat, NEW c \in Nat, a <= b, b <= c
  PROVE  Row(a, b) \o Row(b, c) = Row(a, c)
<1>1. /\ Row(a, b) \in Seq(Nat) /\ Row(b, c) \in Seq(Nat)
      /\ Row(a, c) \in Seq(Nat)
      /\ Len(Row(a, b)) = b - a /\ Len(Row(b, c)) = c - b
      /\ Len(Row(a, c)) = c - a
  BY DEF Row
<1>2. Len(Row(a, b) \o Row(b, c)) = c - a
  BY <1>1
<1>3. \A k \in 1 .. (c - a) : (Row(a, b) \o Row(b, c))[k] = Row(a, c)[k]
  BY <1>1 DEF Row
<1>4. Row(a, b) \o Row(b, c) \in Seq(Nat)
  BY <1>1
<1> QED
  BY <1>1, <1>2, <1>3, <1>4, SeqEqual, Zenon

LEMMA RowGrows ==
  ASSUME NEW a \in Nat, NEW b \in Nat, NEW c \in Nat, a <= b, c = b + 1
  PROVE  /\ Append(Row(a, b), c) = Row(a, c)
         /\ Len(Row(a, c)) = c - a
         /\ Tail(Row(a, c)) = Row(a + 1, c)
<1>1. /\ Row(a, b) \in Seq(Nat) /\ Row(a, c) \in Seq(Nat)
      /\ Len(Row(a, b)) = b - a /\ Len(Row(a, c)) = c - a
      /\ Row(a + 1, c) \in Seq(Nat) /\ Len(Row(a + 1, c)) = b - a
  BY DEF Row
<1>2. Append(Row(a, b), c) = Row(a, c)
  <2>1. /\ Append(Row(a, b), c) \in Seq(Nat)
        /\ Len(Append(Row(a, b), c)) = c - a
    <3>1. (b - a) + 1 = c - a
      OBVIOUS
    <3>2. /\ Append(Row(a, b), c) \in Seq(Nat)
          /\ Len(Append(Row(a, b), c)) = Len(Row(a, b)) + 1
      BY <1>1, AppendProperties, Zenon
    <3> HIDE DEF Row
    <3> QED
      BY <1>1, <3>1, <3>2, Zenon
  <2>2. ASSUME NEW k \in 1 .. (c - a)
        PROVE  Append(Row(a, b), c)[k] = Row(a, c)[k]
    <3>1. CASE k = c - a
      BY <1>1, <3>1 DEF Row
    <3>2. CASE k # c - a
      <4>1. k \in 1 .. (b - a)
        BY <3>2
      <4>2. Append(Row(a, b), c)[k] = Row(a, b)[k]
        BY <1>1, <4>1
      <4> QED
        BY <4>1, <4>2 DEF Row
    <3> QED
      BY <3>1, <3>2
  <2> QED
    BY <1>1, <2>1, <2>2, SeqEqual
<1>3. Tail(Row(a, c)) = Row(a + 1, c)
  <2>1. /\ Tail(Row(a, c)) \in Seq(Nat)
        /\ Len(Tail(Row(a, c))) = b - a
    BY <1>1
  <2>2. \A k \in 1 .. (b - a) :
          Tail(Row(a, c))[k] = Row(a + 1, c)[k]
    BY <1>1 DEF Row
  <2> QED
    BY <1>1, <2>1, <2>2, SeqEqual
<1> QED
  BY <1>1, <1>2, <1>3

LEMMA RowEnds ==
  ASSUME NEW a \in Nat, NEW b \in Nat, a < b
  PROVE  /\ Row(a, b) # <<>>
         /\ Head(Row(a, b)) = a + 1
         /\ Row(a, b)[Len(Row(a, b))] = b
<1>1. Row(a, b) \in Seq(Nat) /\ Len(Row(a, b)) = b - a
  BY DEF Row
<1>2. Row(a, b)[1] = a + 1 /\ Row(a, b)[b - a] = b
  BY DEF Row
<1> QED
  BY <1>1, <1>2

LEMMA RowRises ==
  ASSUME NEW a \in Nat, NEW b \in Nat, a <= b
  PROVE  Rising(Row(a, b))
<1>1. Len(Row(a, b)) = b - a
  BY DEF Row
<1> QED
  BY <1>1 DEF Row, Rising

-----------------------------------------------------------------------------
(* Sockets.                                                                *)

LEMMA StepsRise ==
  ASSUME NEW items, NEW i \in Nat, NEW j \in Nat, i <= j,
         NEW a, NEW b, Steps(items, i, j, a, b)
  PROVE  a \in Nat /\ b \in Nat /\ a <= b
<1>1. PICK f \in [i .. j -> Nat] :
         /\ f[i] = a /\ f[j] = b
         /\ \A n \in i + 1 .. j :
              \/ items[n] = NUL /\ f[n] = f[n - 1]
              \/ items[n] = f[n - 1] + 1 /\ f[n] = f[n - 1] + 1
  BY DEF Steps
<1>2. a \in Nat /\ b \in Nat
  BY <1>1
<1> DEFINE Low == {n \in i .. j : f[n] < a}
<1>3. ASSUME Low # {} PROVE FALSE
  <2>1. Low \in SUBSET Nat
    OBVIOUS
  <2>2. PICK n \in Low : \A m \in Low : n <= m
    BY <1>3, <2>1, LeastNumber, Zenon
  <2>3. n \in i .. j /\ n # i /\ f[n] < a
    BY <1>1, <1>2, <2>2
  <2>4. n \in i + 1 .. j /\ n - 1 \in i .. j /\ ~ (n <= n - 1)
    BY <2>3
  <2>5. f[n - 1] <= f[n] /\ f[n - 1] \in Nat /\ f[n] \in Nat
    BY <1>1, <2>3, <2>4
  <2>6. n - 1 \in Low
    BY <1>2, <2>3, <2>4, <2>5
  <2> QED
    BY <2>2, <2>4, <2>6
<1>4. ~ (f[j] < a)
  BY <1>3
<1> QED
  BY <1>1, <1>2, <1>4

LEMMA NoSteps ==
  ASSUME NEW items, NEW i \in Nat, NEW a \in Nat
  PROVE  Steps(items, i, i, a, a)
<1> DEFINE f == [n \in i .. i |-> a]
<1>1. f \in [i .. i -> Nat] /\ f[i] = a /\ i + 1 .. i = {}
  OBVIOUS
<1> QED
  BY <1>1 DEF Steps

LEMMA NoStepsNoRise ==
  ASSUME NEW items, NEW i \in Nat, NEW a, NEW b, Steps(items, i, i, a, b)
  PROVE  a = b
BY DEF Steps

LEMMA StepsOn ==
  ASSUME NEW items \in Seq(Nat), NEW i \in Nat, i <= Len(items),
         NEW a \in Nat, NEW b \in Nat, Steps(items, i, Len(items), a, b)
  PROVE  /\ Steps(Append(items, NUL), i, Len(items) + 1, a, b)
         /\ Steps(Append(items, b + 1), i, Len(items) + 1, a, b + 1)
<1> DEFINE j == Len(items)
<1>1. PICK f \in [i .. j -> Nat] :
         /\ f[i] = a /\ f[j] = b
         /\ \A n \in i + 1 .. j :
              \/ items[n] = NUL /\ f[n] = f[n - 1]
              \/ items[n] = f[n - 1] + 1 /\ f[n] = f[n - 1] + 1
  BY DEF Steps
<1>2. j \in Nat
  OBVIOUS
<1>3. ASSUME NEW item \in Nat, NEW c \in Nat,
             (item = NUL /\ c = b) \/ (item = b + 1 /\ c = b + 1)
      PROVE  Steps(Append(items, item), i, j + 1, a, c)
  <2> DEFINE g == [n \in i .. j + 1 |-> IF n = j + 1 THEN c ELSE f[n]]
             more == Append(items, item)
  <2>1. /\ g \in [i .. j + 1 -> Nat] /\ g[i] = a /\ g[j + 1] = c
        /\ \A n \in i .. j : g[n] = f[n]
    BY <1>1, <1>2
  <2>2. more[j + 1] = item /\ \A n \in 1 .. j : more[n] = items[n]
    OBVIOUS
  <2>3. ASSUME NEW n \in i + 1 .. j + 1
        PROVE  \/ more[n] = NUL /\ g[n] = g[n - 1]
               \/ more[n] = g[n - 1] + 1 /\ g[n] = g[n - 1] + 1
    <3>1. CASE n = j + 1
      <4>1. n - 1 = j /\ j \in i .. j
        BY <1>2, <3>1
      <4> QED
        BY <1>1, <1>3, <2>1, <2>2, <3>1, <4>1
    <3>2. CASE n # j + 1
      <4>1. n \in i + 1 .. j /\ n \in i .. j /\ n - 1 \in i .. j /\ n \in 1 .. j
        BY <1>2, <3>2
      <4> QED
        BY <1>1, <2>1, <2>2, <4>1
    <3> QED
      BY <3>1, <3>2
  <2> HIDE DEF g, more
  <2>4. j + 1 = Len(items) + 1
    OBVIOUS
  <2>5. Steps(more, i, j + 1, a, c)
    BY <2>1, <2>3, Zenon DEF Steps
  <2> QED
    BY <2>5 DEF more
<1>4. Steps(Append(items, NUL), i, j + 1, a, b)
  BY <1>3 DEF NUL
<1>5. Steps(Append(items, b + 1), i, j + 1, a, b + 1)
  BY <1>3
<1> QED
  BY <1>4, <1>5

LEMMA StepsSplit ==
  ASSUME NEW items \in Seq(Nat), NEW i \in Nat, NEW n \in Nat, i <= n,
         n <= Len(items),
         NEW a \in Nat, NEW b \in Nat, Steps(items, i, Len(items), a, b)
  PROVE  \E m \in Nat :
           LET head == SubSeq(items, i + 1, n)
               rest == SubSeq(items, n + 1, Len(items))
           IN /\ a <= m /\ m <= b
              /\ Steps(head, 0, Len(head), a, m)
              /\ Steps(rest, 0, Len(rest), m, b)
<1> DEFINE j == Len(items)
           head == SubSeq(items, i + 1, n)
           rest == SubSeq(items, n + 1, j)
<1>1. PICK f \in [i .. j -> Nat] :
         /\ f[i] = a /\ f[j] = b
         /\ \A k \in i + 1 .. j :
              \/ items[k] = NUL /\ f[k] = f[k - 1]
              \/ items[k] = f[k - 1] + 1 /\ f[k] = f[k - 1] + 1
  BY DEF Steps
<1>2. j \in Nat /\ n \in i .. j /\ f[n] \in Nat
  <2>1. j \in Nat /\ n \in i .. j
    OBVIOUS
  <2> HIDE DEF j
  <2>2. f[n] \in Nat
    BY <1>1, <2>1
  <2> QED
    BY <2>1, <2>2
<1>3. ASSUME NEW x \in Nat, NEW y \in Nat, i <= x, x <= y, y <= j
      PROVE  LET part == SubSeq(items, x + 1, y)
             IN Len(part) = y - x /\ Steps(part, 0, y - x, f[x], f[y])
  <2> DEFINE part == SubSeq(items, x + 1, y)
             g == [k \in 0 .. y - x |-> f[x + k]]
  <2>1. Len(part) = y - x /\ \A k \in 1 .. y - x : part[k] = items[x + k]
    <3>1. \A k \in x + 1 .. y : items[k] \in Nat
      BY <1>2, <1>3
    <3>2. /\ Len(part) = IF x + 1 <= y THEN y - (x + 1) + 1 ELSE 0
          /\ \A k \in 1 .. y - (x + 1) + 1 : part[k] = items[(x + 1) + k - 1]
      BY <3>1, SubSeqProperties
    <3>3. /\ y - (x + 1) + 1 = y - x
          /\ \A k \in 1 .. y - x : (x + 1) + k - 1 = x + k
      BY <1>3
    <3> HIDE DEF part
    <3> QED
      BY <1>3, <3>2, <3>3
  <2>2. \A k \in 0 .. y - x : x + k \in i .. j
    BY <1>2, <1>3
  <2>3. /\ g \in [0 .. y - x -> Nat] /\ g[0] = f[x] /\ g[y - x] = f[y]
        /\ \A k \in 0 .. y - x : g[k] = f[x + k]
    <3>1. 0 \in 0 .. y - x /\ y - x \in 0 .. y - x /\ x + 0 = x
          /\ x + (y - x) = y
      BY <1>3
    <3>2. g \in [0 .. y - x -> Nat] /\ \A k \in 0 .. y - x : g[k] = f[x + k]
      BY <1>1, <2>2
    <3> QED
      BY <3>1, <3>2
  <2>4. ASSUME NEW k \in 0 + 1 .. y - x
        PROVE  \/ part[k] = NUL /\ g[k] = g[k - 1]
               \/ part[k] = g[k - 1] + 1 /\ g[k] = g[k - 1] + 1
    <3>1. /\ k \in 1 .. y - x /\ k \in 0 .. y - x /\ k - 1 \in 0 .. y - x
          /\ x + k \in i + 1 .. j /\ x + (k - 1) = (x + k) - 1
      BY <1>2, <1>3
    <3>2. g[k] = f[x + k] /\ g[k - 1] = f[(x + k) - 1]
      BY <2>3, <3>1
    <3>3. part[k] = items[x + k]
      BY <2>1, <3>1
    <3> HIDE DEF g, part
    <3> QED
      BY <1>1, <3>1, <3>2, <3>3
  <2> HIDE DEF g, part
  <2>5. Steps(part, 0, y - x, f[x], f[y])
    BY <2>3, <2>4, Zenon DEF Steps
  <2> QED
    BY <2>1, <2>5 DEF part
<1>4. Len(head) = n - i /\ Steps(head, 0, n - i, a, f[n])
  BY <1>1, <1>2, <1>3
<1>5. Len(rest) = j - n /\ Steps(rest, 0, j - n, f[n], b)
  <2>1. i <= n /\ n <= j /\ j <= j /\ j \in Nat
    BY <1>2
  <2> HIDE DEF j
  <2>2. /\ Len(SubSeq(items, n + 1, j)) = j - n
        /\ Steps(SubSeq(items, n + 1, j), 0, j - n, f[n], f[j])
    BY <1>3, <2>1, Zenon
  <2> QED
    BY <1>1, <2>2
<1>6. n - i \in Nat /\ j - n \in Nat
  BY <1>2
<1> HIDE DEF head, rest, j
<1>7. a <= f[n]
  BY <1>4, <1>6, StepsRise
<1>8. f[n] <= b
  BY <1>5, <1>6, StepsRise
<1> QED
  BY <1>2, <1>4, <1>5, <1>7, <1>8 DEF head, rest, j

-----------------------------------------------------------------------------
(* Without.                                                                *)

LEMMA WithoutBeats ==
  ASSUME NEW items \in Seq(Nat), NEW a \in Nat, NEW b \in Nat,
         Steps(items, 0, Len(items), a, b)
  PROVE  Without(items, NUL) = Row(a, b)
<1> DEFINE j == Len(items)
           stay == {i \in 1 .. j : items[i] # NUL}
           upTo(n) == stay \cap 1 .. n
<1>1. PICK f \in [0 .. j -> Nat] :
         /\ f[0] = a /\ f[j] = b
         /\ \A n \in 0 + 1 .. j :
              \/ items[n] = NUL /\ f[n] = f[n - 1]
              \/ items[n] = f[n - 1] + 1 /\ f[n] = f[n - 1] + 1
  BY DEF Steps
<1>2. j \in Nat /\ stay \subseteq 1 .. j
  OBVIOUS
<1> HIDE DEF j
<1>3. ASSUME NEW n \in 1 .. j
      PROVE  /\ n \in 0 .. j /\ n - 1 \in 0 .. j /\ n \in Nat /\ n - 1 \in Nat
             /\ f[n] \in Nat /\ f[n - 1] \in Nat
             /\ n \in stay => items[n] = f[n] /\ f[n] = f[n - 1] + 1
             /\ n \notin stay => f[n] = f[n - 1]
             /\ f[n] \in {f[n - 1], f[n - 1] + 1}
             /\ f[n] = f[n - 1] + 1 => n \in stay
  <2>1. /\ n \in 0 .. j /\ n - 1 \in 0 .. j /\ n \in 0 + 1 .. j
        /\ n \in Nat /\ n - 1 \in Nat
    BY <1>2
  <2>2. f[n] \in Nat /\ f[n - 1] \in Nat
    BY <1>1, <2>1
  <2>3. n \in stay <=> items[n] # NUL
    OBVIOUS
  <2> HIDE DEF stay
  <2>4. NUL = 0
    BY DEF NUL
  <2>5. \/ items[n] = NUL /\ f[n] = f[n - 1]
        \/ items[n] = f[n - 1] + 1 /\ f[n] = f[n - 1] + 1
    BY <1>1, <2>1
  <2>6. f[n - 1] + 1 # 0 /\ f[n - 1] # f[n - 1] + 1
    BY <2>2
  <2>7. CASE items[n] = NUL /\ f[n] = f[n - 1]
    BY <2>1, <2>2, <2>3, <2>6, <2>7, Zenon
  <2>8. CASE items[n] = f[n - 1] + 1 /\ f[n] = f[n - 1] + 1
    <3>1. items[n] # NUL /\ items[n] = f[n]
      BY <2>4, <2>6, <2>8, Zenon
    <3> QED
      BY <2>1, <2>2, <2>3, <2>6, <2>8, <3>1, Zenon
  <2> QED
    BY <2>5, <2>7, <2>8
<1>4. IsFiniteSet(stay)
  <2>1. IsFiniteSet(1 .. j)
    BY <1>2, FS_Interval
  <2> HIDE DEF stay
  <2> QED
    BY <1>2, <2>1, FS_Subset
<1>5. \A n \in 0 .. j : f[n] \in Nat /\ f[n] >= a
                        /\ Cardinality(upTo(n)) = f[n] - a
  <2> DEFINE Bad == {n \in 0 .. j : ~ (f[n] \in Nat /\ f[n] >= a
                                       /\ Cardinality(upTo(n)) = f[n] - a)}
  <2>1. ASSUME Bad # {} PROVE FALSE
    <3>1. Bad \in SUBSET Nat
      OBVIOUS
    <3>2. PICK n \in Bad : \A m \in Bad : n <= m
      BY <2>1, <3>1, LeastNumber, Zenon
    <3>3. n # 0
      <4>1. upTo(0) = {} /\ 0 \in 0 .. j
        BY <1>2
      <4>2. Cardinality(upTo(0)) = 0
        BY <4>1, FS_EmptySet
      <4>3. f[0] = a /\ f[0] - a = 0
        BY <1>1
      <4> HIDE DEF upTo
      <4>4. 0 \notin Bad
        BY <4>1, <4>2, <4>3
      <4> QED
        BY <3>2, <4>4
    <3>4. n \in 1 .. j /\ n - 1 \in 0 .. j /\ n - 1 \in Nat /\ ~ (n <= n - 1)
      BY <1>2, <3>2, <3>3
    <3>5. n - 1 \notin Bad
      BY <3>2, <3>4
    <3>6. /\ f[n - 1] >= a /\ Cardinality(upTo(n - 1)) = f[n - 1] - a
          /\ f[n - 1] \in Nat /\ f[n] \in Nat
      BY <1>1, <1>3, <3>4, <3>5
    <3>7. IsFiniteSet(upTo(n - 1)) /\ n \notin upTo(n - 1)
      BY <1>4, <3>4, FS_Subset
    <3>8. CASE n \in stay
      <4>1. upTo(n) = upTo(n - 1) \cup {n}
        BY <3>4, <3>8
      <4> HIDE DEF upTo
      <4>2. Cardinality(upTo(n)) = Cardinality(upTo(n - 1)) + 1
        BY <3>7, <4>1, FS_AddElement, Zenon
      <4>3. f[n] = f[n - 1] + 1
        BY <1>3, <3>4, <3>8
      <4>4. f[n] >= a /\ Cardinality(upTo(n)) = f[n] - a
        BY <3>6, <4>2, <4>3
      <4> HIDE DEF stay
      <4> QED
        BY <3>2, <3>6, <4>4
    <3>9. CASE n \notin stay
      <4>1. upTo(n) = upTo(n - 1)
        BY <3>4, <3>9
      <4> HIDE DEF upTo
      <4> QED
        BY <1>3, <3>2, <3>4, <3>6, <3>9, <4>1
    <3> QED
      BY <3>8, <3>9
  <2> QED
    BY <2>1
<1>6. Cardinality(stay) = b - a /\ a <= b
  <2>1. upTo(j) = stay /\ j \in 0 .. j
    BY <1>2
  <2> HIDE DEF upTo
  <2> QED
    BY <1>1, <1>5, <2>1
<1>7. ASSUME NEW k \in 1 .. b - a
      PROVE  items[CHOOSE i \in stay : Cardinality(stay \cap 1 .. i) = k]
               = a + k
  <2>1. \E i \in stay : Cardinality(upTo(i)) = k
    <3> DEFINE High == {n \in 0 .. j : f[n] >= a + k}
    <3>1. j \in High /\ High \in SUBSET Nat
      BY <1>1, <1>2, <1>7, <1>6
    <3>2. PICK n \in High : \A m \in High : n <= m
      BY <3>1, LeastNumber, Zenon
    <3>3. n \in 0 .. j /\ f[n] >= a + k /\ n # 0
      BY <1>1, <1>7, <3>2
    <3>4. n \in 1 .. j /\ n - 1 \in 0 .. j /\ ~ (n <= n - 1)
      BY <1>2, <3>3
    <3>5. n - 1 \notin High
      BY <3>2, <3>4
    <3>6. ~ (f[n - 1] >= a + k)
      BY <3>4, <3>5
    <3>7. f[n] = a + k /\ f[n] = f[n - 1] + 1
      BY <1>3, <1>7, <3>3, <3>4, <3>6
    <3>8. n \in stay
      BY <1>3, <3>4, <3>7
    <3>9. Cardinality(upTo(n)) = f[n] - a
      BY <1>5, <3>3
    <3> HIDE DEF upTo
    <3> QED
      BY <1>7, <3>7, <3>8, <3>9
  <2> DEFINE i == CHOOSE n \in stay : Cardinality(upTo(n)) = k
  <2>2. i \in stay /\ Cardinality(upTo(i)) = k
    BY <2>1
  <2> HIDE DEF i
  <2>3. i \in 1 .. j /\ i \in 0 .. j
    BY <1>2, <2>2
  <2>4. items[i] = f[i] /\ f[i] \in Nat
    BY <1>3, <2>2, <2>3
  <2>5. Cardinality(upTo(i)) = f[i] - a
    BY <1>5, <2>3
  <2> HIDE DEF upTo
  <2>6. items[i] = a + k
    BY <1>7, <2>2, <2>4, <2>5
  <2> QED
    BY <2>6 DEF i, upTo
<1> USE DEF j
<1>8. Without(items, NUL) =
        [k \in 1 .. b - a |->
           items[CHOOSE i \in stay : Cardinality(stay \cap 1 .. i) = k]]
  BY <1>6 DEF Without
<1> QED
  BY <1>7, <1>8 DEF Row

-----------------------------------------------------------------------------
(* What every reachable state has.                                         *)

Counts == 0 .. MaxChunks
PtyRecords == [state : {"none", "live", "exited", "gone"},
               wrote : {0} \cup Chunks, read : {0} \cup Chunks,
               ring : Seq(Chunks)]
TermRecords ==
  [pc : {"none", "handshake", "history", "stream", Closed}, of : PtyIds,
   history : Seq(Chunks), fetched : BOOLEAN, buffer : Seq(Chunks),
   live : Seq(Chunks), exited : BOOLEAN]
Items == NUL .. Refused

\* A ring buffer holds the chunks read last, the very last among them while
\* its PTY is known; of a PTY that was never created nothing was read.
EndsInLast(k) ==
  /\ k.read <= k.wrote
  /\ k.state = "none" => k.read = 0
  /\ \E x \in Counts :
       /\ x <= k.read /\ k.ring = Row(x, k.read)
       /\ k.state \in {"live", "exited"} /\ k.read > 0 => x < k.read

\* A connection of a stream is open, to a terminal of a PTY that is known, and
\* was greeted.
Greeted ==
  \A q \in PtyIds : \A t \in conns[q] :
    /\ open[t] /\ term[t].of = q /\ Known(q) /\ t \notin pending
    /\ term[t].pc # "none"
    /\ term[t].pc = "handshake" => socket[t] # <<>>

\* A connection that was not answered yet is open, with nothing in it.
Unanswered ==
  \A t \in pending : open[t] /\ term[t].pc = "handshake" /\ socket[t] = <<>>

\* What a terminal has before its stream begins, and after it ends.
Fresh(k, s) ==
  /\ k.pc \in {"none", "handshake", "history"} =>
       k.live = <<>> /\ k.buffer = <<>> /\ ~ k.fetched
  /\ k.pc \in {"none", Closed} => s = <<>> /\ k.buffer = <<>>

\* What a terminal showed, what it buffers and what its socket holds is one
\* row, that ends with what the daemon read if it is attached; and the row
\* begins no later than where the history ends.
OneRow(k, s, skip, read, attached) ==
  \E a, l, m, b \in Counts :
    /\ a <= l /\ l <= m /\ m <= b /\ b <= read
    /\ k.live = Row(a, l) /\ k.buffer = Row(l, m)
    /\ Steps(s, skip, Len(s), m, b)
    /\ attached => b = read
    /\ k.fetched => IF k.history = <<>> THEN a = 0
                    ELSE a <= k.history[Len(k.history)]

Skip(k, s) == IF k.pc = "handshake" /\ s # <<>> THEN 1 ELSE 0
Attached(t) == t \in conns[term[t].of] /\ term[t].pc # Closed

OneRowEach ==
  \A t \in Terminals :
    /\ Fresh(term[t], socket[t])
    /\ OneRow(term[t], socket[t], Skip(term[t], socket[t]),
              pty[term[t].of].read, Attached(t))

StreamInv ==
  /\ DaemonTypeOK
  /\ \A p \in PtyIds : EndsInLast(pty[p])
  /\ Greeted
  /\ Unanswered
  /\ OneRowEach

LEMMA Numbers ==
  /\ MaxChunks \in Nat /\ RingMax \in Nat /\ RingMax > 0
  /\ Counts \subseteq Nat /\ {0} \cup Chunks = Counts
  /\ Chunks \subseteq Items /\ Items \subseteq Nat
  /\ {NUL, Ack, Refused} \subseteq Items
  /\ 0 \in Counts
BY PtyDaemonAssumption DEF Counts, Chunks, Items, NUL, Ack, Refused

LEMMA Records ==
  ASSUME DaemonTypeOK
  PROVE  /\ \A p \in PtyIds : pty[p] \in PtyRecords
         /\ \A t \in Terminals :
              /\ term[t] \in TermRecords /\ socket[t] \in Seq(Items)
              /\ socket[t] \in Seq(Nat) /\ term[t].of \in PtyIds
<1>1. /\ pty \in [PtyIds -> PtyRecords] /\ socket \in [Terminals -> Seq(Items)]
      /\ term \in [Terminals -> TermRecords]
  BY DEF DaemonTypeOK, PtyRecords, TermRecords, Items
<1>2. \A s \in Seq(Items) : s \in Seq(Nat)
  BY Numbers, SeqMonotonic
<1>3. \A k \in TermRecords : k.of \in PtyIds
  BY DEF TermRecords
<1> QED
  BY <1>1, <1>2, <1>3

LEMMA DaemonTyped ==
  DaemonTypeOK <=>
    /\ up \in BOOLEAN
    /\ pty \in [PtyIds -> PtyRecords]
    /\ conns \in [PtyIds -> SUBSET Terminals]
    /\ entries \subseteq Terminals \X PtyIds /\ pending \subseteq Terminals
    /\ socket \in [Terminals -> Seq(Items)]
    /\ open \in [Terminals -> BOOLEAN]
    /\ term \in [Terminals -> TermRecords]
    /\ spent \in 0 .. MaxSpent
BY DEF DaemonTypeOK, PtyRecords, TermRecords, Items

LEMMA NoTermTyped ==
  /\ NoTerm \in TermRecords
  /\ NoTerm.pc = "none" /\ NoTerm.live = <<>> /\ NoTerm.buffer = <<>>
  /\ ~ NoTerm.fetched
<1>1. (CHOOSE p \in PtyIds : TRUE) \in PtyIds
  BY PtyDaemonAssumption
<1> QED
  BY <1>1 DEF NoTerm, TermRecords

\* Before its stream begins a terminal has no row to speak of.
LEMMA NothingYet ==
  ASSUME NEW k, NEW s, NEW skip, NEW read \in Counts, NEW attached,
         k.live = <<>>, k.buffer = <<>>, ~ k.fetched,
         skip \in Nat, Len(s) = skip,
         NEW at \in Counts, at <= read, attached => at = read
  PROVE  OneRow(k, s, skip, read, attached)
<1>1. at \in Nat /\ Row(at, at) = <<>>
  BY Numbers, NoRow
<1>2. Steps(s, skip, Len(s), at, at)
  BY <1>1, NoSteps
<1> QED
  BY <1>1, <1>2 DEF OneRow

\* What one terminal does with what it has.
LEMMA OneTerminal ==
  ASSUME StreamInv,
         NEW t \in Terminals, NEW k \in TermRecords, NEW s \in Seq(Items),
         term' = [term EXCEPT ![t] = k], socket' = [socket EXCEPT ![t] = s],
         UNCHANGED <<up, pty, conns, entries, pending, open, spent>>,
         t \notin pending,
         \A q \in PtyIds : t \in conns[q] =>
           k.of = term[t].of /\ k.pc \notin {"none", "handshake"},
         Fresh(k, s),
         OneRow(k, s, Skip(k, s), pty[k.of].read,
                t \in conns[k.of] /\ k.pc # Closed)
  PROVE  StreamInv'
<1>1. /\ DaemonTypeOK'
      /\ term' \in [Terminals -> TermRecords]
      /\ term'[t] = k /\ socket'[t] = s
      /\ \A u \in Terminals \ {t} : term'[u] = term[u] /\ socket'[u] = socket[u]
  <2>1. /\ term \in [Terminals -> TermRecords]
        /\ socket \in [Terminals -> Seq(Items)]
    BY DaemonTyped DEF StreamInv
  <2>2. /\ term' \in [Terminals -> TermRecords]
        /\ socket' \in [Terminals -> Seq(Items)]
    BY <2>1
  <2>3. DaemonTypeOK'
    BY <2>2 DEF StreamInv, DaemonTypeOK, TermRecords, Items
  <2> QED
    BY <2>1, <2>2, <2>3
<1>2. (\A p \in PtyIds : EndsInLast(pty[p]))'
  BY DEF StreamInv
<1>3. Greeted'
  <2>1. conns \in [PtyIds -> SUBSET Terminals]
    BY DEF StreamInv, DaemonTypeOK
  <2>2. ASSUME NEW q \in PtyIds, NEW u \in conns[q]
        PROVE  /\ open[u] /\ term'[u].of = q /\ Known(q) /\ u \notin pending
               /\ term'[u].pc # "none"
               /\ term'[u].pc = "handshake" => socket'[u] # <<>>
    <3>1. u \in Terminals
      BY <2>1
    <3>2. CASE u = t
      BY <1>1, <3>2 DEF StreamInv, Greeted
    <3>3. CASE u # t
      <4>1. term'[u] = term[u] /\ socket'[u] = socket[u]
        BY <1>1, <3>1, <3>3
      <4> QED
        BY <4>1 DEF StreamInv, Greeted
    <3> QED
      BY <3>2, <3>3
  <2> QED
    BY <2>2 DEF Greeted, Known
<1>4. OneRowEach'
  <2>1. ASSUME NEW u \in Terminals
        PROVE  /\ Fresh(term[u], socket[u])'
               /\ OneRow(term[u], socket[u], Skip(term[u], socket[u]),
                         pty[term[u].of].read, Attached(u))'
    <3>1. CASE u = t
      <4>1. Attached(u)' <=> t \in conns[k.of] /\ k.pc # Closed
        BY <1>1, <3>1 DEF Attached
      <4> QED
        BY <1>1, <3>1, <4>1 DEF Fresh, OneRow, Skip
    <3>2. CASE u # t
      <4>1. /\ Fresh(term[u], socket[u])
            /\ OneRow(term[u], socket[u], Skip(term[u], socket[u]),
                      pty[term[u].of].read, Attached(u))
        BY DEF StreamInv, OneRowEach
      <4>2. /\ term'[u] = term[u] /\ socket'[u] = socket[u]
            /\ Attached(u)' = Attached(u)
            /\ Skip(term[u], socket[u])' = Skip(term[u], socket[u])
            /\ pty'[term'[u].of].read = pty[term[u].of].read
        BY <1>1, <3>2 DEF Attached, Skip
      <4> QED
        BY <4>1, <4>2
    <3> QED
      BY <3>1, <3>2
  <2> QED
    BY <2>1 DEF OneRowEach
<1>5. Unanswered'
  <2>1. pending \subseteq Terminals
    BY DEF StreamInv, DaemonTypeOK
  <2> QED
    BY <1>1, <2>1 DEF StreamInv, Unanswered
<1> QED
  BY <1>1, <1>2, <1>3, <1>4, <1>5 DEF StreamInv

LEMMA HasOneRow ==
  ASSUME StreamInv, NEW t \in Terminals
  PROVE  /\ term[t] \in TermRecords /\ socket[t] \in Seq(Items)
         /\ socket[t] \in Seq(Nat) /\ Fresh(term[t], socket[t])
         /\ \E a, l, m, b \in Counts :
              /\ a <= l /\ l <= m /\ m <= b /\ b <= pty[term[t].of].read
              /\ term[t].live = Row(a, l) /\ term[t].buffer = Row(l, m)
              /\ Steps(socket[t], Skip(term[t], socket[t]),
                       Len(socket[t]), m, b)
              /\ Attached(t) => b = pty[term[t].of].read
              /\ term[t].fetched =>
                   IF term[t].history = <<>> THEN a = 0
                   ELSE a <= term[t].history[Len(term[t].history)]
<1>1. /\ Fresh(term[t], socket[t])
      /\ OneRow(term[t], socket[t], Skip(term[t], socket[t]),
                pty[term[t].of].read, Attached(t))
  BY DEF StreamInv, OneRowEach
<1>2. /\ term[t] \in TermRecords /\ socket[t] \in Seq(Items)
      /\ socket[t] \in Seq(Nat)
  BY Records DEF StreamInv
<1> QED
  BY <1>1, <1>2 DEF OneRow

LEMMA ReadsAck ==
  ASSUME StreamInv, NEW t \in Terminals, ReadAck(t)
  PROVE  StreamInv'
<1> DEFINE k == term[t]
           s == socket[t]
<1>1. /\ k \in TermRecords /\ s \in Seq(Items) /\ s \in Seq(Nat)
      /\ Fresh(k, s) /\ k.pc = "handshake" /\ s # <<>>
      /\ t \in Terminals
  BY HasOneRow DEF ReadAck, Unread
<1>2. /\ k.live = <<>> /\ k.buffer = <<>> /\ ~ k.fetched /\ Skip(k, s) = 1
  BY <1>1 DEF Fresh, Skip
<1>3. PICK n \in 1 .. Len(s) :
        LET rest == Without(SubSeq(s, 2, n), NUL) IN
        /\ socket' = [socket EXCEPT ![t] = SubSeq(s, n + 1, Len(s))]
        /\ term' = [term EXCEPT ![t] =
             [k EXCEPT !.live = rest,
                       !.pc = IF rest = <<>> THEN "history" ELSE "stream"]]
  BY DEF ReadAck
<1> DEFINE head == SubSeq(s, 2, n)
           left == SubSeq(s, n + 1, Len(s))
           rest == Without(head, NUL)
           new == [k EXCEPT !.live = rest,
                            !.pc = IF rest = <<>> THEN "history" ELSE "stream"]
<1>4. PICK a, l, m, b \in Counts :
        /\ a <= l /\ l <= m /\ m <= b /\ b <= pty[k.of].read
        /\ k.live = Row(a, l) /\ k.buffer = Row(l, m)
        /\ Steps(s, Skip(k, s), Len(s), m, b)
        /\ Attached(t) => b = pty[k.of].read
  BY HasOneRow
<1>5. /\ a \in Nat /\ l \in Nat /\ m \in Nat /\ b \in Nat
      /\ Steps(s, 1, Len(s), m, b)
      /\ n \in Nat /\ 1 <= n /\ n <= Len(s)
  <2>1. n \in Nat /\ 1 <= n /\ n <= Len(s)
    BY <1>1, <1>3
  <2> QED
    BY <1>2, <1>4, <2>1, Numbers
<1> HIDE DEF k, s
<1>6. /\ head \in Seq(Nat) /\ left \in Seq(Items)
  <2>1. \A i \in 2 .. n : i \in 1 .. Len(s)
    BY <1>1, <1>5
  <2>2. \A i \in n + 1 .. Len(s) : i \in 1 .. Len(s)
    BY <1>1, <1>5
  <2>3. head \in Seq(Nat)
    BY <1>1, <1>5, <2>1, SubSeqProperties
  <2>4. left \in Seq(Items)
    BY <1>1, <1>5, <2>2, SubSeqProperties
  <2> QED
    BY <2>3, <2>4
<1>7. PICK x \in Nat :
         /\ m <= x /\ x <= b
         /\ Steps(head, 0, Len(head), m, x)
         /\ Steps(left, 0, Len(left), x, b)
  <2>1. 1 + 1 = 2
    OBVIOUS
  <2> QED
    BY <1>1, <1>5, <2>1, StepsSplit
<1> HIDE DEF head, left
<1>8. rest = Row(m, x) /\ x \in Counts /\ rest \in Seq(Chunks)
  <2>1. rest = Row(m, x)
    BY <1>5, <1>6, <1>7, WithoutBeats
  <2>2. x \in Counts /\ x <= MaxChunks
    BY <1>4, <1>5, <1>7, Numbers DEF Counts
  <2> QED
    BY <1>5, <1>7, <2>1, <2>2, RowIsSeq
<1> HIDE DEF rest
<1>9. /\ new \in TermRecords /\ new.of = k.of /\ new.live = rest
      /\ new.buffer = <<>> /\ ~ new.fetched
      /\ new.pc \in {"history", "stream"}
      /\ new.pc = "history" => rest = <<>>
  BY <1>1, <1>2, <1>8 DEF TermRecords
<1>10. term' = [term EXCEPT ![t] = new] /\ socket' = [socket EXCEPT ![t] = left]
  BY <1>3 DEF head, left, rest
<1> HIDE DEF new
<1>11. Fresh(new, left) /\ Skip(new, left) = 0
  BY <1>9 DEF Fresh, Skip, Closed
<1>12. OneRow(new, left, 0, pty[new.of].read,
              t \in conns[new.of] /\ new.pc # Closed)
  <2>1. Attached(t) <=> t \in conns[new.of]
    BY <1>1, <1>9 DEF Attached, k, Closed
  <2>2. Row(x, x) = <<>>
    BY NoRow
  <2> QED
    BY <1>4, <1>5, <1>7, <1>8, <1>9, <2>1, <2>2 DEF OneRow
<1>13. UNCHANGED <<up, pty, conns, entries, pending, open, spent>>
  BY DEF ReadAck
<1>14. t \notin pending
  BY <1>1 DEF StreamInv, Unanswered, s
<1> QED
  BY <1>6, <1>9, <1>10, <1>11, <1>12, <1>13, <1>14, OneTerminal DEF k

LEMMA FailsToConnect ==
  ASSUME StreamInv, NEW t \in Terminals, ConnectFails(t)
  PROVE  StreamInv'
<1> DEFINE k == term[t]
           new == [k EXCEPT !.pc = Closed]
<1>1. /\ k \in TermRecords /\ Fresh(k, socket[t]) /\ k.pc = "handshake"
  BY HasOneRow DEF ConnectFails
<1>2. /\ new \in TermRecords /\ new.of = k.of /\ new.pc = Closed
      /\ new.live = <<>> /\ new.buffer = <<>> /\ ~ new.fetched
  BY <1>1 DEF TermRecords, Fresh
<1>3. Fresh(new, <<>>) /\ Skip(new, <<>>) = 0 /\ <<>> \in Seq(Items)
      /\ Len(<<>>) = 0
  BY <1>2 DEF Fresh, Skip, Closed
<1>4. OneRow(new, <<>>, 0, pty[new.of].read, t \in conns[new.of]
                                               /\ new.pc # Closed)
  <2>1. pty[new.of].read \in Counts
    BY <1>1, <1>2, Records, Numbers DEF StreamInv, PtyRecords
  <2>2. 0 \in Counts /\ 0 <= pty[new.of].read
    BY <2>1, Numbers DEF Counts
  <2> QED
    BY <1>2, <1>3, <2>1, <2>2, NothingYet
<1>5. /\ term' = [term EXCEPT ![t] = new]
      /\ socket' = [socket EXCEPT ![t] = <<>>]
      /\ UNCHANGED <<up, pty, conns, entries, pending, open, spent>>
  BY DEF ConnectFails
<1> HIDE DEF new
<1>6. t \notin pending
  BY DEF StreamInv, Unanswered, ConnectFails, Unread
<1> QED
  BY <1>2, <1>3, <1>4, <1>5, <1>6, OneTerminal DEF Closed

LEMMA FetchesHistory ==
  ASSUME StreamInv, NEW t \in Terminals, FetchHistory(t)
  PROVE  StreamInv'
<1> DEFINE k == term[t]
           s == socket[t]
           p == k.of
<1>1. /\ k \in TermRecords /\ s \in Seq(Items) /\ Fresh(k, s)
      /\ k.pc = "history" /\ p \in PtyIds /\ pty[p] \in PtyRecords
      /\ EndsInLast(pty[p])
  BY HasOneRow, Records DEF FetchHistory, StreamInv
<1>2. /\ k.live = <<>> /\ k.buffer = <<>> /\ ~ k.fetched /\ Skip(k, s) = 0
  BY <1>1 DEF Fresh, Skip
<1>3. PICK a, l, m, b \in Counts :
        /\ a <= l /\ l <= m /\ m <= b /\ b <= pty[p].read
        /\ k.live = Row(a, l) /\ k.buffer = Row(l, m)
        /\ Steps(s, Skip(k, s), Len(s), m, b)
        /\ Attached(t) => b = pty[p].read
  BY HasOneRow
<1>4. /\ a \in Nat /\ b \in Nat /\ pty[p].read \in Nat
  BY <1>1, <1>3, Numbers DEF PtyRecords
<1>5. /\ socket' = [socket EXCEPT ![t] = s]
      /\ UNCHANGED <<up, pty, conns, entries, pending, open, spent>>
  BY DEF FetchHistory, StreamInv, DaemonTypeOK
<1>6. ASSUME NEW new \in TermRecords, term' = [term EXCEPT ![t] = new],
             new.of = p, new.pc = "stream",
             new.live = k.live, new.buffer = k.buffer,
             new.fetched => IF new.history = <<>> THEN a = 0
                            ELSE a <= new.history[Len(new.history)]
      PROVE  StreamInv'
  <2>1. Fresh(new, s) /\ Skip(new, s) = 0
    BY <1>6 DEF Fresh, Skip, Closed
  <2>2. Attached(t) <=> t \in conns[new.of] /\ new.pc # Closed
    BY <1>1, <1>6 DEF Attached, Closed
  <2>3. OneRow(new, s, 0, pty[new.of].read, t \in conns[new.of]
                                              /\ new.pc # Closed)
    BY <1>2, <1>3, <1>6, <2>2 DEF OneRow
  <2>4. t \notin pending
    BY <1>1 DEF StreamInv, Unanswered
  <2> HIDE DEF k, s, p
  <2> QED
    BY <1>1, <1>5, <1>6, <2>1, <2>3, <2>4, OneTerminal DEF k, p
<1>7. CASE term' = [term EXCEPT ![t] = [k EXCEPT !.pc = "stream"]]
  <2> DEFINE new == [k EXCEPT !.pc = "stream"]
  <2>1. /\ new \in TermRecords /\ new.of = p /\ new.pc = "stream"
        /\ new.live = k.live /\ new.buffer = k.buffer /\ ~ new.fetched
    BY <1>1, <1>2 DEF TermRecords
  <2> HIDE DEF new
  <2> QED
    BY <1>6, <1>7, <2>1 DEF new
<1>8. CASE /\ up /\ Known(p)
           /\ term' = [term EXCEPT ![t] =
                [k EXCEPT !.history = pty[p].ring, !.fetched = TRUE,
                          !.pc = "stream"]]
  <2> DEFINE new == [k EXCEPT !.history = pty[p].ring, !.fetched = TRUE,
                              !.pc = "stream"]
  <2>1. /\ new \in TermRecords /\ new.of = p /\ new.pc = "stream"
        /\ new.live = k.live /\ new.buffer = k.buffer
        /\ new.history = pty[p].ring
    BY <1>1 DEF TermRecords, PtyRecords
  <2>2. PICK x \in Counts :
           /\ x <= pty[p].read /\ pty[p].ring = Row(x, pty[p].read)
           /\ pty[p].read > 0 => x < pty[p].read
    BY <1>1, <1>8 DEF EndsInLast, Known
  <2>3. x \in Nat
    BY Numbers
  <2>4. IF new.history = <<>> THEN a = 0
        ELSE a <= new.history[Len(new.history)]
    <3>1. CASE pty[p].read > 0
      <4>1. /\ Row(x, pty[p].read) # <<>>
            /\ Row(x, pty[p].read)[Len(Row(x, pty[p].read))] = pty[p].read
        BY <1>4, <2>2, <2>3, <3>1, RowEnds
      <4>2. a <= pty[p].read
        BY <1>3, <1>4, Numbers
      <4> HIDE DEF new
      <4> QED
        BY <2>1, <2>2, <4>1, <4>2
    <3>2. CASE pty[p].read = 0
      <4>1. x = 0 /\ a = 0
        BY <1>3, <1>4, <2>2, <2>3, <3>2, Numbers
      <4>2. new.history = <<>>
        BY <2>1, <2>2, <3>2, <4>1, NoRow
      <4> QED
        BY <4>1, <4>2
    <3> QED
      BY <1>4, <3>1, <3>2
  <2> HIDE DEF new
  <2> QED
    BY <1>6, <1>8, <2>1, <2>4 DEF new
<1> QED
  BY <1>7, <1>8 DEF FetchHistory

LEMMA ReadsStream ==
  ASSUME StreamInv, NEW t \in Terminals, ReadStream(t)
  PROVE  StreamInv'
<1> DEFINE k == term[t]
           s == socket[t]
           more == Without(s, NUL)
           new == [k EXCEPT !.buffer = k.buffer \o more]
<1>1. /\ k \in TermRecords /\ s \in Seq(Nat) /\ k.pc = "stream"
  BY HasOneRow DEF ReadStream
<1>2. PICK a, l, m, b \in Counts :
        /\ a <= l /\ l <= m /\ m <= b /\ b <= pty[k.of].read
        /\ k.live = Row(a, l) /\ k.buffer = Row(l, m)
        /\ Steps(s, Skip(k, s), Len(s), m, b)
        /\ Attached(t) => b = pty[k.of].read
        /\ k.fetched => IF k.history = <<>> THEN a = 0
                        ELSE a <= k.history[Len(k.history)]
  BY HasOneRow
<1>3. /\ a \in Nat /\ l \in Nat /\ m \in Nat /\ b \in Nat /\ b <= MaxChunks
      /\ Skip(k, s) = 0
  BY <1>1, Numbers DEF Counts, Skip
<1>4. /\ term' = [term EXCEPT ![t] = new]
      /\ socket' = [socket EXCEPT ![t] = <<>>]
      /\ UNCHANGED <<up, pty, conns, entries, pending, open, spent>>
  BY DEF ReadStream
<1>5. Attached(t) <=> t \in conns[k.of] /\ k.pc # Closed
  BY DEF Attached
<1> HIDE DEF k, s
<1>6. more = Row(m, b)
  BY <1>1, <1>2, <1>3, WithoutBeats
<1>7. k.buffer \o more = Row(l, b) /\ Row(l, b) \in Seq(Chunks)
  <2>1. Row(l, m) \o Row(m, b) = Row(l, b)
    BY <1>2, <1>3, RowsJoin
  <2>2. l <= b
    BY <1>2, <1>3
  <2> QED
    BY <1>2, <1>3, <1>6, <2>1, <2>2, RowIsSeq
<1> HIDE DEF more
<1>8. /\ new \in TermRecords /\ new.of = k.of /\ new.pc = k.pc
      /\ new.live = k.live /\ new.buffer = Row(l, b)
      /\ new.fetched = k.fetched /\ new.history = k.history
  BY <1>1, <1>7 DEF TermRecords
<1> HIDE DEF new
<1>9. Fresh(new, <<>>) /\ Skip(new, <<>>) = 0 /\ <<>> \in Seq(Items)
  BY <1>1, <1>8 DEF Fresh, Skip, Closed
<1>10. OneRow(new, <<>>, 0, pty[new.of].read, t \in conns[new.of]
                                                /\ new.pc # Closed)
  <2>1. Steps(<<>>, 0, Len(<<>>), b, b) /\ l <= b /\ b <= b
    BY <1>2, <1>3, NoSteps
  <2> QED
    BY <1>2, <1>5, <1>8, <2>1 DEF OneRow
<1>11. t \notin pending
  BY <1>1 DEF StreamInv, Unanswered, k
<1> QED
  BY <1>1, <1>4, <1>8, <1>9, <1>10, <1>11, OneTerminal DEF k

LEMMA FlushesStream ==
  ASSUME StreamInv, NEW t \in Terminals, FlushStream(t)
  PROVE  StreamInv'
<1> DEFINE k == term[t]
           s == socket[t]
           new == [k EXCEPT !.live = k.live \o k.buffer, !.buffer = <<>>]
<1>1. /\ k \in TermRecords /\ s \in Seq(Items) /\ k.pc = "stream"
  BY HasOneRow DEF FlushStream
<1>2. PICK a, l, m, b \in Counts :
        /\ a <= l /\ l <= m /\ m <= b /\ b <= pty[k.of].read
        /\ k.live = Row(a, l) /\ k.buffer = Row(l, m)
        /\ Steps(s, Skip(k, s), Len(s), m, b)
        /\ Attached(t) => b = pty[k.of].read
        /\ k.fetched => IF k.history = <<>> THEN a = 0
                        ELSE a <= k.history[Len(k.history)]
  BY HasOneRow
<1>3. /\ a \in Nat /\ l \in Nat /\ m \in Nat /\ b \in Nat /\ m <= MaxChunks
      /\ Skip(k, s) = 0
  BY <1>1, Numbers DEF Counts, Skip
<1>4. /\ term' = [term EXCEPT ![t] = new]
      /\ socket' = [socket EXCEPT ![t] = s]
      /\ UNCHANGED <<up, pty, conns, entries, pending, open, spent>>
  BY DEF FlushStream, StreamInv, DaemonTypeOK
<1>5. Attached(t) <=> t \in conns[k.of] /\ k.pc # Closed
  BY DEF Attached
<1> HIDE DEF k, s
<1>6. /\ k.live \o k.buffer = Row(a, m) /\ Row(a, m) \in Seq(Chunks)
      /\ Row(m, m) = <<>> /\ a <= m
  <2>1. Row(a, l) \o Row(l, m) = Row(a, m)
    BY <1>2, <1>3, RowsJoin
  <2>2. a <= m
    BY <1>2, <1>3
  <2> QED
    BY <1>2, <1>3, <2>1, <2>2, RowIsSeq, NoRow
<1>7. /\ new \in TermRecords /\ new.of = k.of /\ new.pc = k.pc
      /\ new.live = Row(a, m) /\ new.buffer = <<>>
      /\ new.fetched = k.fetched /\ new.history = k.history
  <2>1. <<>> \in Seq(Chunks)
    OBVIOUS
  <2> QED
    BY <1>1, <1>6, <2>1 DEF TermRecords
<1> HIDE DEF new
<1>8. Fresh(new, s) /\ Skip(new, s) = 0
  BY <1>1, <1>7 DEF Fresh, Skip, Closed
<1>9. OneRow(new, s, 0, pty[new.of].read, t \in conns[new.of]
                                            /\ new.pc # Closed)
  <2>1. m <= m
    BY <1>3
  <2> QED
    BY <1>2, <1>3, <1>5, <1>6, <1>7, <2>1 DEF OneRow
<1>10. t \notin pending
  BY <1>1 DEF StreamInv, Unanswered, k
<1> QED
  BY <1>1, <1>4, <1>7, <1>8, <1>9, <1>10, OneTerminal DEF k

\* A terminal whose stream is over keeps what it showed.
LEMMA Closes ==
  ASSUME StreamInv, NEW t \in Terminals, NEW new \in TermRecords,
         term[t].pc # "handshake",
         new.pc = Closed, new.of = term[t].of, new.live = term[t].live,
         new.buffer = <<>>, new.fetched = term[t].fetched,
         new.history = term[t].history,
         term' = [term EXCEPT ![t] = new],
         socket' = [socket EXCEPT ![t] = <<>>],
         UNCHANGED <<up, pty, conns, entries, pending, open, spent>>
  PROVE  StreamInv'
<1> DEFINE k == term[t]
<1>1. PICK a, l, m, b \in Counts :
        /\ a <= l /\ l <= m /\ m <= b /\ b <= pty[k.of].read
        /\ k.live = Row(a, l)
        /\ k.fetched => IF k.history = <<>> THEN a = 0
                        ELSE a <= k.history[Len(k.history)]
  BY HasOneRow
<1>2. k \in TermRecords /\ pty[k.of].read \in Counts
  BY Records, Numbers DEF StreamInv, PtyRecords
<1>3. /\ l \in Nat /\ m \in Nat /\ b \in Nat /\ pty[k.of].read \in Nat
      /\ Row(l, l) = <<>> /\ Steps(<<>>, 0, Len(<<>>), l, l)
  BY <1>2, Numbers, NoRow, NoSteps
<1>4. l <= l /\ l <= pty[k.of].read
  BY <1>1, <1>3
<1> HIDE DEF k
<1>5. OneRow(new, <<>>, 0, pty[new.of].read, t \in conns[new.of]
                                               /\ new.pc # Closed)
  BY <1>1, <1>3, <1>4 DEF OneRow, k
<1>6. Fresh(new, <<>>) /\ Skip(new, <<>>) = 0 /\ <<>> \in Seq(Items)
  BY DEF Fresh, Skip, Closed
<1>7. t \notin pending
  BY DEF StreamInv, Unanswered
<1> QED
  BY <1>5, <1>6, <1>7, OneTerminal DEF Closed

LEMMA EndsStream ==
  ASSUME StreamInv, NEW t \in Terminals, StreamEnds(t)
  PROVE  StreamInv'
<1> DEFINE new == [term[t] EXCEPT !.pc = Closed, !.exited = TRUE,
                                  !.buffer = <<>>]
<1>1. term[t] \in TermRecords
  BY HasOneRow
<1>2. /\ new \in TermRecords /\ new.pc = Closed /\ new.of = term[t].of
      /\ new.live = term[t].live /\ new.buffer = <<>>
      /\ new.fetched = term[t].fetched /\ new.history = term[t].history
  <2>1. <<>> \in Seq(Chunks)
    OBVIOUS
  <2> QED
    BY <1>1, <2>1 DEF TermRecords
<1>3. /\ term' = [term EXCEPT ![t] = new]
      /\ socket' = [socket EXCEPT ![t] = <<>>]
      /\ UNCHANGED <<up, pty, conns, entries, pending, open, spent>>
      /\ term[t].pc # "handshake"
  BY DEF StreamEnds, Ended, StreamInv, DaemonTypeOK
<1> HIDE DEF new
<1> QED
  BY <1>2, <1>3, Closes

LEMMA Leaves ==
  ASSUME StreamInv, NEW t \in Terminals, Leave(t)
  PROVE  StreamInv'
<1> DEFINE new == [term[t] EXCEPT !.pc = Closed, !.buffer = <<>>]
<1>1. term[t] \in TermRecords
  BY HasOneRow
<1>2. /\ new \in TermRecords /\ new.pc = Closed /\ new.of = term[t].of
      /\ new.live = term[t].live /\ new.buffer = <<>>
      /\ new.fetched = term[t].fetched /\ new.history = term[t].history
  <2>1. <<>> \in Seq(Chunks)
    OBVIOUS
  <2> QED
    BY <1>1, <2>1 DEF TermRecords
<1>3. /\ term' = [term EXCEPT ![t] = new]
      /\ socket' = [socket EXCEPT ![t] = <<>>]
      /\ UNCHANGED <<up, pty, conns, entries, pending, open, spent>>
      /\ term[t].pc # "handshake"
  BY DEF Leave
<1> HIDE DEF new
<1> QED
  BY <1>2, <1>3, Closes

LEMMA Reopens ==
  ASSUME StreamInv, NEW t \in Terminals, Reopen(t)
  PROVE  StreamInv'
<1>1. /\ Fresh(term[t], socket[t]) /\ term[t].pc = Closed /\ ~ open[t]
      /\ NoTerm \in TermRecords
  BY HasOneRow, NoTermTyped DEF Reopen
<1>2. /\ socket[t] = <<>> /\ socket' = [socket EXCEPT ![t] = <<>>]
      /\ term' = [term EXCEPT ![t] = NoTerm]
      /\ UNCHANGED <<up, pty, conns, entries, pending, open, spent>>
      /\ t \notin pending
  BY <1>1 DEF Fresh, Reopen, StreamInv, DaemonTypeOK
<1>3. \A q \in PtyIds : t \notin conns[q]
  BY <1>1 DEF StreamInv, Greeted
<1>4. NoTerm.of \in PtyIds /\ pty[NoTerm.of].read \in Counts
  BY NoTermTyped, Records, Numbers DEF StreamInv, TermRecords, PtyRecords
<1>5. OneRow(NoTerm, <<>>, 0, pty[NoTerm.of].read, t \in conns[NoTerm.of]
                                                     /\ NoTerm.pc # Closed)
  <2>1. 0 <= pty[NoTerm.of].read /\ Len(<<>>) = 0 /\ 0 \in Counts
    BY <1>4, Numbers DEF Counts
  <2> QED
    BY <1>3, <1>4, <2>1, NoTermTyped, NothingYet
<1>6. Fresh(NoTerm, <<>>) /\ Skip(NoTerm, <<>>) = 0 /\ <<>> \in Seq(Items)
  BY NoTermTyped DEF Fresh, Skip
<1> QED
  BY <1>1, <1>2, <1>3, <1>5, <1>6, OneTerminal

-----------------------------------------------------------------------------
(* What the daemon does: nothing, a heartbeat or the chunk just read goes    *)
(* into a socket, or what is in it is lost with the connection.              *)

SocketKept(t) ==
  /\ socket'[t] = socket[t]
  /\ t \in conns'[term[t].of] /\ term[t].pc # Closed =>
       pty'[term[t].of].read = pty[term[t].of].read

SocketLost(t) ==
  socket'[t] = <<>> /\ t \notin conns'[term[t].of] /\ term[t].pc = "stream"

SocketGrows(t) ==
  LET p == term[t].of IN
  /\ t \in conns[p] /\ term[t].pc # Closed
  /\ \/ /\ socket'[t] = Append(socket[t], NUL)
        /\ pty'[p].read = pty[p].read
     \/ /\ socket'[t] = Append(socket[t], pty[p].read + 1)
        /\ pty'[p].read = pty[p].read + 1

LEMMA DaemonMoves ==
  ASSUME StreamInv, DaemonTypeOK', term' = term,
         \A p \in PtyIds : EndsInLast(pty'[p]) /\ pty[p].read <= pty'[p].read,
         \A q \in PtyIds : \A t \in conns'[q] :
           t \in conns[q] /\ open'[t] /\ Known(q)' /\ t \notin pending',
         \A t \in pending' : t \in pending /\ open'[t],
         \A t \in Terminals : SocketKept(t) \/ SocketLost(t) \/ SocketGrows(t)
  PROVE  StreamInv'
<1>1. ASSUME NEW t \in Terminals
      PROVE  /\ Fresh(term[t], socket'[t])
             /\ OneRow(term[t], socket'[t], Skip(term[t], socket'[t]),
                       pty'[term[t].of].read,
                       t \in conns'[term[t].of] /\ term[t].pc # Closed)
  <2> DEFINE k == term[t]
             s == socket[t]
             read == pty[k.of].read
  <2>1. /\ k \in TermRecords /\ s \in Seq(Nat) /\ Fresh(k, s)
        /\ k.of \in PtyIds
    BY HasOneRow, Records DEF StreamInv
  <2>2. PICK a, l, m, b \in Counts :
          /\ a <= l /\ l <= m /\ m <= b /\ b <= read
          /\ k.live = Row(a, l) /\ k.buffer = Row(l, m)
          /\ Steps(s, Skip(k, s), Len(s), m, b)
          /\ Attached(t) => b = read
          /\ k.fetched => IF k.history = <<>> THEN a = 0
                          ELSE a <= k.history[Len(k.history)]
    BY HasOneRow
  <2>3. /\ read \in Counts /\ pty'[k.of].read \in Counts
        /\ read <= pty'[k.of].read
    <3>1. pty[k.of] \in PtyRecords /\ pty'[k.of] \in PtyRecords
      BY <2>1, DaemonTyped DEF StreamInv, DaemonTypeOK, PtyRecords
    <3> QED
      BY <2>1, <3>1, Numbers DEF PtyRecords
  <2>4. /\ read \in Nat /\ pty'[k.of].read \in Nat
        /\ a \in Nat /\ l \in Nat /\ m \in Nat /\ b \in Nat
        /\ b <= pty'[k.of].read
    <3>1. Counts \subseteq Nat
      BY Numbers
    <3> HIDE DEF k, s, read
    <3>2. read \in Nat /\ pty'[k.of].read \in Nat
      BY <2>3, <3>1
    <3>3. a \in Nat /\ l \in Nat /\ m \in Nat /\ b \in Nat
      BY <3>1
    <3> QED
      BY <2>2, <2>3, <3>2, <3>3
  <2>5. Attached(t) <=> t \in conns[k.of] /\ k.pc # Closed
    BY DEF Attached
  <2>6. t \in conns'[k.of] => t \in conns[k.of]
    BY <2>1
  <2>7. t \in conns[k.of] =>
          k.pc # "none" /\ (k.pc = "handshake" => s # <<>>)
    BY <2>1 DEF StreamInv, Greeted
  <2>8. CASE SocketKept(t)
    <3>1. socket'[t] = s
      BY <2>8 DEF SocketKept
    <3>2. t \in conns'[k.of] /\ k.pc # Closed => b = pty'[k.of].read
      BY <2>2, <2>5, <2>6, <2>8 DEF SocketKept
    <3> HIDE DEF k, s, read
    <3>3. OneRow(k, s, Skip(k, s), pty'[k.of].read,
                 t \in conns'[k.of] /\ k.pc # Closed)
      BY <2>2, <2>4, <3>2 DEF OneRow
    <3> QED
      BY <2>1, <3>1, <3>3 DEF k
  <2>9. CASE SocketLost(t)
    <3>1. socket'[t] = <<>> /\ t \notin conns'[k.of] /\ k.pc = "stream"
      BY <2>9 DEF SocketLost
    <3>2. Fresh(k, <<>>) /\ Skip(k, <<>>) = 0
      BY <3>1 DEF Fresh, Skip, Closed
    <3>3. Steps(<<>>, 0, Len(<<>>), b, b) /\ Steps(<<>>, 0, Len(<<>>), m, m)
          /\ m <= pty'[k.of].read /\ m <= m
      BY <2>2, <2>4, NoSteps
    <3> HIDE DEF k, s, read
    <3>4. OneRow(k, <<>>, 0, pty'[k.of].read,
                 t \in conns'[k.of] /\ k.pc # Closed)
      BY <2>2, <2>4, <3>1, <3>3 DEF OneRow
    <3> QED
      BY <3>1, <3>2, <3>4 DEF k
  <2>10. CASE SocketGrows(t)
    <3>1. /\ t \in conns[k.of] /\ k.pc # Closed
          /\ \/ socket'[t] = Append(s, NUL) /\ pty'[k.of].read = read
             \/ socket'[t] = Append(s, read + 1) /\ pty'[k.of].read = read + 1
      BY <2>10 DEF SocketGrows
    <3>2. b = read /\ k.pc # "none"
      BY <2>2, <2>5, <2>7, <3>1
    <3>3. /\ socket'[t] # <<>> /\ Len(socket'[t]) = Len(s) + 1
          /\ Skip(k, socket'[t]) = Skip(k, s)
          /\ Skip(k, s) \in Nat /\ Skip(k, s) <= Len(s)
      <4>1. NUL \in Nat /\ read + 1 \in Nat
        BY <2>4 DEF NUL
      <4>2. \A i \in Nat : Append(s, i) # <<>> /\ Len(Append(s, i)) = Len(s) + 1
        BY <2>1, AppendProperties
      <4>3. s # <<>> => Len(s) >= 1
        BY <2>1
      <4>4. /\ socket'[t] # <<>> /\ Len(socket'[t]) = Len(s) + 1
        BY <3>1, <4>1, <4>2
      <4>5. Len(s) \in Nat
        BY <2>1
      <4> HIDE DEF k, s
      <4> QED
        BY <2>7, <3>1, <4>3, <4>4, <4>5 DEF Skip
    <3>4. Fresh(k, socket'[t])
      BY <2>1, <3>1, <3>2 DEF Fresh
    <3>5. Steps(socket'[t], Skip(k, socket'[t]), Len(socket'[t]), m,
                pty'[k.of].read)
      <4>1. /\ Steps(Append(s, NUL), Skip(k, s), Len(s) + 1, m, b)
            /\ Steps(Append(s, b + 1), Skip(k, s), Len(s) + 1, m, b + 1)
        BY <2>1, <2>2, <2>4, <3>3, StepsOn
      <4> HIDE DEF k, s, read
      <4> QED
        BY <3>1, <3>2, <3>3, <4>1
    <3>6. m <= pty'[k.of].read /\ pty'[k.of].read <= pty'[k.of].read
      BY <2>2, <2>4
    <3> HIDE DEF k, s, read
    <3>7. OneRow(k, socket'[t], Skip(k, socket'[t]), pty'[k.of].read,
                 t \in conns'[k.of] /\ k.pc # Closed)
      BY <2>2, <2>3, <3>5, <3>6 DEF OneRow
    <3> QED
      BY <3>4, <3>7 DEF k
  <2> QED
    BY <2>8, <2>9, <2>10
<1>2. OneRowEach'
  BY <1>1 DEF OneRowEach, Attached
<1>3. Greeted'
  <2>1. conns' \in [PtyIds -> SUBSET Terminals]
    BY DEF DaemonTypeOK
  <2>2. ASSUME NEW q \in PtyIds, NEW t \in conns'[q]
        PROVE  /\ open'[t] /\ term[t].of = q /\ Known(q)' /\ t \notin pending'
               /\ term[t].pc # "none"
               /\ term[t].pc = "handshake" => socket'[t] # <<>>
    <3>1. t \in Terminals /\ t \in conns[q]
      BY <2>1
    <3>2. /\ term[t].of = q /\ term[t].pc # "none"
          /\ term[t].pc = "handshake" => socket[t] # <<>>
      BY <3>1 DEF StreamInv, Greeted
    <3>3. ASSUME term[t].pc = "handshake" PROVE socket'[t] # <<>>
      <4>1. ~ SocketLost(t)
        BY <3>3 DEF SocketLost
      <4>2. SocketKept(t) => socket'[t] # <<>>
        BY <3>2, <3>3 DEF SocketKept
      <4>3. ASSUME SocketGrows(t) PROVE socket'[t] # <<>>
        <5>1. socket[t] \in Seq(Nat) /\ pty[q].read \in Counts
          <6>1. socket[t] \in Seq(Nat) /\ pty[q] \in PtyRecords
            BY <3>1, Records DEF StreamInv
          <6> QED
            BY <6>1, Numbers DEF PtyRecords
        <5>2. pty[q].read + 1 \in Nat /\ NUL \in Nat
          <6>1. Counts \subseteq Nat
            BY Numbers
          <6>2. pty[q].read \in Nat
            BY <5>1, <6>1
          <6> QED
            BY <6>2 DEF NUL
        <5>3. \A i \in Nat : Append(socket[t], i) # <<>>
          BY <5>1, AppendProperties
        <5> QED
          BY <3>2, <4>3, <5>2, <5>3 DEF SocketGrows
      <4> QED
        BY <3>1, <4>1, <4>2, <4>3
    <3> QED
      BY <3>2, <3>3
  <2> QED
    BY <2>2 DEF Greeted
<1>4. Unanswered'
  <2>1. ASSUME NEW t \in pending'
        PROVE  term[t].pc = "handshake" /\ socket'[t] = <<>>
    <3>1. t \in pending /\ t \in Terminals
      BY <2>1, DaemonTyped DEF StreamInv
    <3>2. term[t].pc = "handshake" /\ socket[t] = <<>>
      BY <3>1 DEF StreamInv, Unanswered
    <3>3. t \notin conns[term[t].of]
      BY <3>1, Records DEF StreamInv, Greeted
    <3>4. SocketKept(t)
      BY <3>1, <3>2, <3>3 DEF SocketLost, SocketGrows
    <3> QED
      BY <3>2, <3>4 DEF SocketKept
  <2> QED
    BY <2>1 DEF Unanswered
<1> QED
  BY <1>2, <1>3, <1>4 DEF StreamInv

LEMMA AllTyped ==
  ASSUME StreamInv
  PROVE  /\ pty \in [PtyIds -> PtyRecords]
         /\ term \in [Terminals -> TermRecords]
         /\ conns \in [PtyIds -> SUBSET Terminals]
         /\ entries \subseteq Terminals \X PtyIds /\ pending \subseteq Terminals
         /\ socket \in [Terminals -> Seq(Items)]
         /\ open \in [Terminals -> BOOLEAN] /\ up \in BOOLEAN
         /\ spent \in 0 .. MaxSpent
         /\ \A t \in Terminals : term[t].of \in PtyIds
         /\ \A p \in PtyIds : pty[p].read \in Nat
<1>1. \A p \in PtyIds : pty[p] \in PtyRecords
  BY Records DEF StreamInv
<1>2. \A k \in PtyRecords : k.read \in Nat
  BY Numbers DEF PtyRecords
<1> QED
  BY <1>1, <1>2, DaemonTyped, Records DEF StreamInv

\* A change of one PTY's record, of which the daemon read nothing.
LEMMA PtyChanges ==
  ASSUME StreamInv, NEW p \in PtyIds, NEW k \in PtyRecords,
         pty' = [pty EXCEPT ![p] = k],
         k.read = pty[p].read, EndsInLast(k),
         k.state \in {"live", "exited"} \/ conns'[p] = {},
         open' \in [Terminals -> BOOLEAN],
         conns' \in [PtyIds -> SUBSET Terminals],
         \A q \in PtyIds : \A t \in conns'[q] : t \in conns[q] /\ open'[t],
         \A t \in pending : open'[t],
         UNCHANGED <<up, term, entries, pending, socket, spent>>
  PROVE  StreamInv'
<1>1. /\ pty' \in [PtyIds -> PtyRecords] /\ pty'[p] = k
      /\ \A q \in PtyIds \ {p} : pty'[q] = pty[q]
  BY AllTyped
<1>2. DaemonTypeOK'
  BY <1>1 DEF StreamInv, DaemonTypeOK, PtyRecords
<1>3. ASSUME NEW q \in PtyIds
      PROVE  EndsInLast(pty'[q]) /\ pty'[q].read = pty[q].read
  <2>1. CASE q = p
    BY <1>1, <2>1
  <2>2. CASE q # p
    BY <1>1, <2>2 DEF StreamInv
  <2> QED
    BY <2>1, <2>2
<1>4. ASSUME NEW q \in PtyIds, NEW t \in conns'[q]
      PROVE  Known(q)'
  <2>1. CASE q = p
    BY <1>1, <1>4, <2>1 DEF Known
  <2>2. CASE q # p
    BY <1>1, <1>4, <2>2 DEF StreamInv, Greeted, Known
  <2> QED
    BY <2>1, <2>2
<1>5. \A q \in PtyIds : \A t \in conns'[q] :
        t \in conns[q] /\ open'[t] /\ Known(q)' /\ t \notin pending'
  BY <1>4 DEF StreamInv, Greeted
<1>6. \A q \in PtyIds : EndsInLast(pty'[q]) /\ pty[q].read <= pty'[q].read
  BY <1>3, AllTyped
<1>7. \A t \in Terminals : SocketKept(t)
  BY <1>3, AllTyped DEF SocketKept
<1> QED
  BY <1>2, <1>5, <1>6, <1>7, DaemonMoves

LEMMA ChildSteps ==
  ASSUME StreamInv, NEW p \in PtyIds,
         ChildWrites(p) \/ ChildExits(p) \/ PtyCreate(p)
  PROVE  StreamInv'
<1> DEFINE k == pty[p]
<1>1. /\ k \in PtyRecords /\ EndsInLast(k) /\ k.read \in Nat
      /\ k.wrote \in Nat
  <2>1. k \in PtyRecords
    BY AllTyped
  <2> QED
    BY <2>1, AllTyped, Numbers DEF StreamInv, PtyRecords
<1>2. /\ open \in [Terminals -> BOOLEAN]
      /\ conns \in [PtyIds -> SUBSET Terminals]
      /\ \A q \in PtyIds : \A t \in conns[q] : open[t]
      /\ Known(p) \/ conns[p] = {}
      /\ \A t \in pending : open[t]
  <2>1. /\ open \in [Terminals -> BOOLEAN]
        /\ conns \in [PtyIds -> SUBSET Terminals]
    BY AllTyped
  <2> QED
    BY <2>1 DEF StreamInv, Greeted, Unanswered
<1>3. CASE ChildWrites(p)
  <2> DEFINE new == [k EXCEPT !.wrote = k.wrote + 1]
  <2>1. /\ pty' = [pty EXCEPT ![p] = new] /\ k.state = "live"
        /\ k.wrote < MaxChunks
        /\ UNCHANGED <<up, conns, entries, pending, socket, open, term, spent>>
    BY <1>3, AllTyped DEF ChildWrites
  <2>2. k.wrote + 1 \in {0} \cup Chunks
    BY <1>1, <2>1, Numbers DEF Chunks
  <2>3. /\ new \in PtyRecords /\ new.read = k.read /\ new.state = "live"
        /\ new.ring = k.ring /\ new.wrote = k.wrote + 1
    BY <1>1, <2>1, <2>2 DEF PtyRecords
  <2> HIDE DEF new
  <2>4. EndsInLast(new)
    BY <1>1, <2>1, <2>3 DEF EndsInLast
  <2> QED
    BY <1>2, <2>1, <2>3, <2>4, PtyChanges
<1>4. CASE ChildExits(p)
  <2> DEFINE new == [k EXCEPT !.state = "exited"]
  <2>1. /\ pty' = [pty EXCEPT ![p] = new] /\ k.state = "live"
        /\ UNCHANGED <<up, conns, entries, pending, socket, open, term, spent>>
    BY <1>4, AllTyped DEF ChildExits
  <2>2. /\ new \in PtyRecords /\ new.read = k.read /\ new.state = "exited"
        /\ new.ring = k.ring /\ new.wrote = k.wrote
    BY <1>1 DEF PtyRecords
  <2> HIDE DEF new
  <2>3. EndsInLast(new)
    BY <1>1, <2>1, <2>2 DEF EndsInLast
  <2> QED
    BY <1>2, <2>1, <2>2, <2>3, PtyChanges
<1>5. CASE PtyCreate(p)
  <2> DEFINE new == [k EXCEPT !.state = "live"]
  <2>1. /\ pty' = [pty EXCEPT ![p] = new] /\ k.state = "none"
        /\ UNCHANGED <<up, conns, entries, pending, socket, open, term, spent>>
    BY <1>5, AllTyped DEF PtyCreate
  <2>2. /\ new \in PtyRecords /\ new.read = k.read /\ new.state = "live"
        /\ new.ring = k.ring /\ new.wrote = k.wrote
    BY <1>1 DEF PtyRecords
  <2> HIDE DEF new
  <2>3. EndsInLast(new)
    BY <1>1, <2>1, <2>2 DEF EndsInLast
  <2> QED
    BY <1>2, <2>1, <2>2, <2>3, PtyChanges
<1> QED
  BY <1>3, <1>4, <1>5

LEMMA Cleanup ==
  ASSUME StreamInv, NEW p \in PtyIds, CleanupPty(p), UNCHANGED <<up, term>>,
         Known(p)
  PROVE  StreamInv'
<1> DEFINE k == pty[p]
           new == [k EXCEPT !.state = "gone", !.ring = <<>>]
<1>1. /\ k \in PtyRecords /\ EndsInLast(k) /\ k.read \in Nat
      /\ k.read \in Counts /\ conns \in [PtyIds -> SUBSET Terminals]
  <2>1. k \in PtyRecords
    BY AllTyped
  <2> QED
    BY <2>1, AllTyped, Numbers DEF StreamInv, PtyRecords
<1>2. pty' = [pty EXCEPT ![p] = new]
  BY AllTyped DEF CleanupPty
<1>3. /\ new \in PtyRecords /\ new.read = k.read /\ new.state = "gone"
      /\ new.ring = <<>> /\ new.wrote = k.wrote
  <2>1. <<>> \in Seq(Chunks)
    OBVIOUS
  <2> QED
    BY <1>1, <2>1 DEF PtyRecords
<1> HIDE DEF new
<1>4. EndsInLast(new)
  <2>1. Row(k.read, k.read) = <<>> /\ k.read <= k.read
    BY <1>1, NoRow
  <2> QED
    BY <1>1, <1>3, <2>1 DEF EndsInLast
<1>5. /\ conns' = [conns EXCEPT ![p] = {}]
      /\ open' = [t \in Terminals |-> open[t] /\ t \notin conns[p]]
      /\ UNCHANGED <<up, term, entries, pending, socket, spent>>
  BY DEF CleanupPty
<1>6. /\ conns'[p] = {} /\ conns' \in [PtyIds -> SUBSET Terminals]
      /\ open' \in [Terminals -> BOOLEAN]
  BY <1>1, <1>5
<1>7. ASSUME NEW q \in PtyIds, NEW t \in conns'[q]
      PROVE  t \in conns[q] /\ open'[t]
  <2>1. q # p /\ t \in conns[q] /\ t \in Terminals
    BY <1>1, <1>5, <1>6
  <2>2. open[t] /\ t \notin conns[p]
    BY <2>1 DEF StreamInv, Greeted
  <2> QED
    BY <1>5, <2>1, <2>2
<1>8. ASSUME NEW t \in pending
      PROVE  open'[t]
  <2>1. t \in Terminals /\ open[t]
    BY AllTyped DEF StreamInv, Unanswered
  <2>2. t \notin conns[p]
    BY DEF StreamInv, Greeted
  <2> QED
    BY <1>5, <2>1, <2>2
<1> QED
  BY <1>2, <1>3, <1>4, <1>5, <1>6, <1>7, <1>8, PtyChanges

LEMMA DropsTyped ==
  ASSUME StreamInv, NEW dead, Drops(dead)
  PROVE  /\ \A t \in pending \ dead : open'[t]
         /\ conns' \in [PtyIds -> SUBSET Terminals]
         /\ open' \in [Terminals -> BOOLEAN]
         /\ entries' \subseteq Terminals \X PtyIds
         /\ \A q \in PtyIds : conns'[q] = conns[q] \ dead
         /\ \A q \in PtyIds : \A t \in conns'[q] :
              /\ t \in conns[q] /\ t \in Terminals /\ open'[t] /\ Known(q)
              /\ t \notin dead /\ t \notin pending /\ term[t].of = q
<1>1. /\ conns' = [p \in PtyIds |-> conns[p] \ dead]
      /\ open' = [t \in Terminals |-> open[t] /\ t \notin dead]
      /\ entries' = {e \in entries : e[1] \notin dead}
  BY DEF Drops
<1>2. /\ conns' \in [PtyIds -> SUBSET Terminals]
      /\ open' \in [Terminals -> BOOLEAN]
      /\ entries' \subseteq Terminals \X PtyIds
      /\ conns \in [PtyIds -> SUBSET Terminals]
  BY <1>1, AllTyped
<1>3. ASSUME NEW q \in PtyIds, NEW t \in conns'[q]
      PROVE  /\ t \in conns[q] /\ t \in Terminals /\ open'[t] /\ Known(q)
             /\ t \notin dead /\ t \notin pending /\ term[t].of = q
  <2>1. t \in conns[q] /\ t \notin dead /\ t \in Terminals
    BY <1>1, <1>2
  <2>2. open[t] /\ Known(q) /\ t \notin pending /\ term[t].of = q
    BY <2>1 DEF StreamInv, Greeted
  <2> QED
    BY <1>1, <2>1, <2>2
<1>4. \A t \in pending \ dead : open'[t]
  BY <1>1, AllTyped DEF StreamInv, Unanswered
<1> QED
  BY <1>1, <1>2, <1>3, <1>4

\* Of the connections of a PTY none is unanswered.
LEMMA DropsAnswered ==
  ASSUME StreamInv, NEW p \in PtyIds, NEW dead \in SUBSET conns[p],
         Drops(dead)
  PROVE  \A t \in pending : open'[t]
<1>1. \A t \in conns[p] : t \notin pending
  BY DEF StreamInv, Greeted
<1> QED
  BY <1>1, DropsTyped

LEMMA ReadsOutput ==
  ASSUME StreamInv, NEW p \in PtyIds, PtyOutput(p)
  PROVE  StreamInv'
<1> DEFINE k == pty[p]
           chunk == k.read + 1
           ring == Append(k.ring, chunk)
           kept == IF Len(ring) > RingMax THEN Tail(ring) ELSE ring
           dead == {t \in conns[p] : Full(t) \/ ~ Reachable(t)}
           new == [k EXCEPT !.read = chunk, !.ring = kept]
<1>1. /\ Known(p) /\ k.read < k.wrote
      /\ pty' = [pty EXCEPT ![p] = new]
      /\ socket' = [t \in Terminals |->
                      IF t \in conns[p] \ dead THEN Append(socket[t], chunk)
                      ELSE socket[t]]
      /\ Drops(dead)
      /\ UNCHANGED <<up, pending, term, spent>>
  BY AllTyped DEF PtyOutput
<1>2. /\ k \in PtyRecords /\ EndsInLast(k) /\ k.read \in Nat
      /\ k.wrote \in Nat /\ k.wrote <= MaxChunks
      /\ conns \in [PtyIds -> SUBSET Terminals]
      /\ socket \in [Terminals -> Seq(Items)]
      /\ pty \in [PtyIds -> PtyRecords]
  <2>1. k \in PtyRecords
    BY AllTyped
  <2>2. k.wrote \in Counts
    BY <2>1, Numbers DEF PtyRecords
  <2> QED
    BY <2>1, <2>2, AllTyped, Numbers DEF StreamInv, Counts
<1>3. /\ chunk \in Nat /\ chunk \in Chunks /\ chunk <= k.wrote
      /\ chunk \in Items
  BY <1>1, <1>2, Numbers DEF Chunks, Items
<1>4. PICK x \in Counts : x <= k.read /\ k.ring = Row(x, k.read)
  BY <1>2 DEF EndsInLast
<1>5. x \in Nat
  BY Numbers
<1>6. \E y \in Counts :
        /\ y <= chunk /\ y < chunk /\ kept = Row(y, chunk)
        /\ kept \in Seq(Chunks)
  <2>1. ring = Row(x, chunk) /\ Len(ring) = chunk - x
        /\ Tail(ring) = Row(x + 1, chunk)
    <3>1. /\ Append(Row(x, k.read), chunk) = Row(x, chunk)
          /\ Len(Row(x, chunk)) = chunk - x
          /\ Tail(Row(x, chunk)) = Row(x + 1, chunk)
      <4>1. x <= k.read /\ chunk = k.read + 1
        BY <1>4
      <4> HIDE DEF k, chunk
      <4> QED
        BY <1>2, <1>3, <1>5, <4>1, RowGrows
    <3>2. k.ring = Row(x, k.read)
      BY <1>4
    <3> HIDE DEF k, chunk
    <3>3. ring = Row(x, chunk)
      BY <3>1, <3>2
    <3> HIDE DEF ring
    <3> QED
      BY <3>1, <3>3
  <2>2. CASE Len(ring) > RingMax
    <3>1. x + 1 \in Nat /\ x + 1 < chunk /\ x + 1 \in Counts
      BY <1>2, <1>3, <1>5, <2>1, <2>2, Numbers DEF Counts
    <3>2. x + 1 <= chunk /\ chunk <= MaxChunks
      BY <1>2, <1>3, <1>5, <3>1, Numbers
    <3>3. kept = Row(x + 1, chunk)
      BY <2>1, <2>2
    <3> HIDE DEF kept, chunk
    <3> QED
      BY <1>3, <3>1, <3>2, <3>3, RowIsSeq
  <2>3. CASE ~ (Len(ring) > RingMax)
    <3>1. x < chunk /\ x <= chunk /\ chunk <= MaxChunks
      BY <1>2, <1>3, <1>4, <1>5, Numbers
    <3>2. kept = Row(x, chunk)
      BY <2>1, <2>3
    <3> HIDE DEF kept, chunk
    <3> QED
      BY <1>3, <1>5, <3>1, <3>2, RowIsSeq
  <2> QED
    BY <2>2, <2>3
<1> HIDE DEF kept
<1>7. /\ new \in PtyRecords /\ new.read = chunk /\ new.ring = kept
      /\ new.wrote = k.wrote /\ new.state = k.state
  <2>1. kept \in Seq(Chunks)
    BY <1>6
  <2> HIDE DEF chunk
  <2> QED
    BY <1>2, <1>3, <2>1 DEF PtyRecords
<1> HIDE DEF new
<1>8. EndsInLast(new)
  <2> HIDE DEF chunk, k
  <2>1. new.state # "none"
    BY <1>1, <1>7 DEF Known, k
  <2> QED
    BY <1>3, <1>6, <1>7, <2>1 DEF EndsInLast
<1>9. /\ pty' \in [PtyIds -> PtyRecords] /\ pty'[p] = new
      /\ \A q \in PtyIds \ {p} : pty'[q] = pty[q]
  BY <1>1, <1>2, <1>7
<1>10. socket' \in [Terminals -> Seq(Items)]
  <2>1. \A t \in Terminals : Append(socket[t], chunk) \in Seq(Items)
    BY <1>2, <1>3, AppendProperties
  <2> HIDE DEF chunk, dead
  <2> QED
    BY <1>1, <1>2, <2>1
<1>16. \A t \in pending : open'[t]
  BY <1>1, DropsAnswered
<1> HIDE DEF dead, ring
<1>11. /\ conns' \in [PtyIds -> SUBSET Terminals]
       /\ open' \in [Terminals -> BOOLEAN]
       /\ entries' \subseteq Terminals \X PtyIds
       /\ \A q \in PtyIds : conns'[q] = conns[q] \ dead
       /\ \A q \in PtyIds : \A t \in conns'[q] :
            /\ t \in conns[q] /\ t \in Terminals /\ open'[t] /\ Known(q)
            /\ t \notin dead /\ t \notin pending /\ term[t].of = q
  BY <1>1, DropsTyped
<1>12. DaemonTypeOK'
  BY <1>1, <1>9, <1>10, <1>11
     DEF StreamInv, DaemonTypeOK, PtyRecords, Items
<1>13. ASSUME NEW q \in PtyIds
       PROVE  /\ EndsInLast(pty'[q]) /\ pty[q].read <= pty'[q].read
              /\ pty'[q].state = pty[q].state
              /\ q # p => pty'[q].read = pty[q].read
  <2>1. CASE q = p
    BY <1>2, <1>3, <1>7, <1>8, <1>9, <2>1
  <2>2. CASE q # p
    BY <1>9, <2>2, AllTyped DEF StreamInv
  <2> QED
    BY <2>1, <2>2
<1>14. \A q \in PtyIds : \A t \in conns'[q] :
         t \in conns[q] /\ open'[t] /\ Known(q)' /\ t \notin pending'
  BY <1>1, <1>11, <1>13 DEF Known
<1>15. ASSUME NEW t \in Terminals
       PROVE  SocketKept(t) \/ SocketGrows(t)
  <2>1. term[t].of \in PtyIds
    BY AllTyped
  <2>2. CASE t \in conns[p] \ dead
    <3>1. term[t].of = p /\ t \in conns'[p]
      BY <1>11, <2>2
    <3>2. socket'[t] = Append(socket[t], chunk)
      BY <1>1, <2>2
    <3>3. term[t].pc # Closed
      BY <2>2 DEF dead, Reachable
    <3> QED
      BY <1>7, <1>9, <2>2, <3>1, <3>2, <3>3 DEF SocketGrows
  <2>3. CASE t \notin conns[p] \ dead
    <3>1. socket'[t] = socket[t]
      BY <1>1, <2>3
    <3>2. t \in conns'[term[t].of] => term[t].of # p
      BY <1>11, <2>3
    <3> QED
      BY <1>13, <2>1, <3>1, <3>2 DEF SocketKept
  <2> QED
    BY <2>2, <2>3
<1> QED
  BY <1>1, <1>12, <1>13, <1>14, <1>15, <1>16, DaemonMoves

LEMMA Beats ==
  ASSUME StreamInv, NEW p \in PtyIds, Heartbeat(p)
  PROVE  StreamInv'
<1> DEFINE dead == {t \in conns[p] : Full(t) \/ ~ Reachable(t)}
<1>1. /\ socket' = [t \in Terminals |->
                      IF t \in conns[p] \ dead THEN Append(socket[t], NUL)
                      ELSE socket[t]]
      /\ Drops(dead) /\ spent < MaxSpent /\ spent' = spent + 1
      /\ UNCHANGED <<up, pty, pending, term>>
  BY DEF Heartbeat
<1>2. socket' \in [Terminals -> Seq(Items)]
  <2>1. \A t \in Terminals : Append(socket[t], NUL) \in Seq(Items)
    BY AllTyped, Numbers, AppendProperties
  <2> HIDE DEF dead
  <2> QED
    BY <1>1, <2>1, AllTyped
<1>9. \A t \in pending : open'[t]
  BY <1>1, DropsAnswered
<1> HIDE DEF dead
<1>3. /\ conns' \in [PtyIds -> SUBSET Terminals]
      /\ open' \in [Terminals -> BOOLEAN]
      /\ entries' \subseteq Terminals \X PtyIds
      /\ \A q \in PtyIds : \A t \in conns'[q] :
           t \in conns[q] /\ open'[t] /\ Known(q) /\ t \notin pending
  BY <1>1, DropsTyped
<1>4. spent' \in 0 .. MaxSpent
  BY <1>1, AllTyped, PtyDaemonAssumption
<1>5. DaemonTypeOK'
  BY <1>1, <1>2, <1>3, <1>4, AllTyped
     DEF StreamInv, DaemonTypeOK, PtyRecords, Items
<1>6. \A q \in PtyIds : EndsInLast(pty'[q]) /\ pty[q].read <= pty'[q].read
  BY <1>1, AllTyped DEF StreamInv
<1>7. ASSUME NEW t \in Terminals
      PROVE  SocketKept(t) \/ SocketGrows(t)
  <2>1. CASE t \in conns[p] \ dead
    <3>1. term[t].of = p /\ term[t].pc # Closed
      BY <2>1 DEF StreamInv, Greeted, dead, Reachable
    <3>2. socket'[t] = Append(socket[t], NUL)
      BY <1>1, <2>1
    <3> QED
      BY <1>1, <2>1, <3>1, <3>2 DEF SocketGrows
  <2>2. CASE t \notin conns[p] \ dead
    BY <1>1, <2>2 DEF SocketKept
  <2> QED
    BY <2>1, <2>2
<1>8. \A q \in PtyIds : \A t \in conns'[q] :
        t \in conns[q] /\ open'[t] /\ Known(q)' /\ t \notin pending'
  BY <1>1, <1>3 DEF Known
<1> QED
  BY <1>1, <1>5, <1>6, <1>7, <1>8, <1>9, DaemonMoves

LEMMA ConnectionEnds ==
  ASSUME StreamInv, NEW t \in Terminals, HangUp(t) \/ TunnelCut(t)
  PROVE  StreamInv'
<1>1. /\ Drops({t}) /\ pending' \subseteq pending /\ spent' \in 0 .. MaxSpent
      /\ UNCHANGED <<up, pty, term>>
      /\ \/ socket' = socket
         \/ socket' = [socket EXCEPT ![t] = <<>>] /\ term[t].pc = "stream"
  BY AllTyped, PtyDaemonAssumption DEF HangUp, TunnelCut
<1>2. /\ socket' \in [Terminals -> Seq(Items)]
      /\ \A u \in Terminals :
           \/ socket'[u] = socket[u]
           \/ u = t /\ socket'[u] = <<>> /\ term[u].pc = "stream"
  <2>1. <<>> \in Seq(Items) /\ socket \in [Terminals -> Seq(Items)]
    BY AllTyped
  <2> QED
    BY <1>1, <2>1
<1>3. /\ conns' \in [PtyIds -> SUBSET Terminals]
      /\ open' \in [Terminals -> BOOLEAN]
      /\ entries' \subseteq Terminals \X PtyIds
      /\ \A q \in PtyIds : \A u \in conns'[q] :
           /\ u \in conns[q] /\ open'[u] /\ Known(q) /\ u \notin {t}
           /\ u \notin pending
  BY <1>1, DropsTyped
<1>4. DaemonTypeOK'
  BY <1>1, <1>2, <1>3, AllTyped DEF StreamInv, DaemonTypeOK, PtyRecords, Items
<1>5. \A q \in PtyIds : EndsInLast(pty'[q]) /\ pty[q].read <= pty'[q].read
  BY <1>1, AllTyped DEF StreamInv
<1>6. ASSUME NEW u \in Terminals
      PROVE  SocketKept(u) \/ SocketLost(u)
  <2>1. CASE socket'[u] = socket[u]
    BY <1>1, <2>1 DEF SocketKept
  <2>2. CASE u = t /\ socket'[u] = <<>> /\ term[u].pc = "stream"
    BY <1>3, <2>2, AllTyped DEF SocketLost
  <2> QED
    BY <1>2, <2>1, <2>2
<1>7. \A q \in PtyIds : \A u \in conns'[q] :
        u \in conns[q] /\ open'[u] /\ Known(q)' /\ u \notin pending'
  BY <1>1, <1>3 DEF Known
<1>8. \A u \in pending' : u \in pending /\ open'[u]
  <2>1. t \notin pending'
    BY DEF HangUp, TunnelCut, StreamInv, Unanswered
  <2> QED
    BY <1>1, <2>1, DropsTyped
<1> QED
  BY <1>1, <1>4, <1>5, <1>6, <1>7, <1>8, DaemonMoves

LEMMA Exits ==
  ASSUME StreamInv, InactivityExit
  PROVE  StreamInv'
<1>1. /\ up' = FALSE /\ open' = [t \in Terminals |-> FALSE] /\ pending' = {}
      /\ UNCHANGED <<pty, conns, entries, socket, term, spent>>
      /\ \A p \in PtyIds : ~ Known(p)
  BY DEF InactivityExit
<1>2. DaemonTypeOK'
  BY <1>1 DEF StreamInv, DaemonTypeOK
<1>3. \A q \in PtyIds : \A t \in conns'[q] : FALSE
  BY <1>1 DEF StreamInv, Greeted
<1>4. \A q \in PtyIds : EndsInLast(pty'[q]) /\ pty[q].read <= pty'[q].read
  BY <1>1, AllTyped DEF StreamInv
<1>5. \A t \in Terminals : SocketKept(t)
  BY <1>1 DEF SocketKept
<1> QED
  BY <1>1, <1>2, <1>3, <1>4, <1>5, DaemonMoves

-----------------------------------------------------------------------------
(* Connections are made.                                                   *)

LEMMA Handshakes ==
  ASSUME StreamInv, NEW t \in Terminals, Handshake(t)
  PROVE  StreamInv'
<1> DEFINE k == term[t]
           p == k.of
<1>1. /\ t \in pending /\ k.pc = "handshake" /\ k \in TermRecords
      /\ p \in PtyIds /\ k.live = <<>> /\ k.buffer = <<>> /\ ~ k.fetched
  BY HasOneRow, AllTyped DEF Handshake, Fresh
<1>2. \A q \in PtyIds : t \notin conns[q]
  BY <1>1 DEF StreamInv, Greeted
<1>3. PICK s \in {<<Ack>>, <<Refused>>} :
        /\ socket' = [socket EXCEPT ![t] = s]
        /\ \/ /\ s = <<Ack>> /\ Known(p)
              /\ entries' = (entries \ Entry(t)) \cup {<<t, p>>}
              /\ conns' = [conns EXCEPT ![p] = conns[p] \cup {t}]
              /\ open' = open
           \/ /\ open' = [open EXCEPT ![t] = FALSE]
              /\ entries' = entries /\ conns' = conns
  BY DEF Handshake
<1>4. pending' = pending \ {t} /\ UNCHANGED <<up, pty, term, spent>>
  BY DEF Handshake
<1>5. s \in Seq(Items) /\ s # <<>> /\ Len(s) = 1 /\ Skip(k, s) = 1
  <2>1. Ack \in Items /\ Refused \in Items
    BY Numbers
  <2>2. s \in Seq(Items) /\ s # <<>> /\ Len(s) = 1
    <3>1. \A i \in Items :
            <<i>> \in Seq(Items) /\ <<i>> # <<>> /\ Len(<<i>>) = 1
      OBVIOUS
    <3> QED
      BY <2>1, <3>1
  <2> QED
    BY <1>1, <2>2 DEF Skip
<1> HIDE DEF k, p
<1>6. /\ socket' \in [Terminals -> Seq(Items)] /\ socket'[t] = s
      /\ \A u \in Terminals \ {t} : socket'[u] = socket[u]
      /\ conns' \in [PtyIds -> SUBSET Terminals]
      /\ \A q \in PtyIds : conns'[q] \ {t} = conns[q]
      /\ \A q \in PtyIds :
           t \in conns'[q] => q = p /\ Known(p) /\ open'[t] = open[t]
      /\ open' \in [Terminals -> BOOLEAN]
      /\ \A u \in Terminals \ {t} : open'[u] = open[u]
      /\ entries' \subseteq Terminals \X PtyIds
  <2>1. /\ socket' \in [Terminals -> Seq(Items)] /\ socket'[t] = s
        /\ \A u \in Terminals \ {t} : socket'[u] = socket[u]
    BY <1>3, <1>5, AllTyped
  <2>2. /\ open' \in [Terminals -> BOOLEAN]
        /\ \A u \in Terminals \ {t} : open'[u] = open[u]
    BY <1>3, AllTyped
  <2>3. entries' \subseteq Terminals \X PtyIds
    BY <1>1, <1>3, AllTyped
  <2>4. /\ conns' \in [PtyIds -> SUBSET Terminals]
        /\ \A q \in PtyIds : conns'[q] \ {t} = conns[q]
        /\ \A q \in PtyIds :
             t \in conns'[q] => q = p /\ Known(p) /\ open'[t] = open[t]
    <3>1. conns \in [PtyIds -> SUBSET Terminals]
      BY AllTyped
    <3>2. CASE conns' = conns
      BY <1>2, <3>1, <3>2
    <3>3. CASE /\ conns' = [conns EXCEPT ![p] = conns[p] \cup {t}]
               /\ Known(p) /\ open' = open
      <4>1. /\ conns' \in [PtyIds -> SUBSET Terminals]
            /\ conns'[p] = conns[p] \cup {t}
            /\ \A q \in PtyIds \ {p} : conns'[q] = conns[q]
        BY <1>1, <3>1, <3>3
      <4> QED
        BY <1>2, <3>3, <4>1
    <3> QED
      BY <1>3, <3>2, <3>3
  <2> QED
    BY <2>1, <2>2, <2>3, <2>4
<1>7. DaemonTypeOK'
  BY <1>4, <1>6, AllTyped DEF StreamInv, DaemonTypeOK, PtyRecords, Items
<1>8. (\A q \in PtyIds : EndsInLast(pty[q]))'
  BY <1>4 DEF StreamInv
<1>9. \A u \in pending : u \in Terminals
  BY AllTyped
<1>10. Greeted'
  <2>1. ASSUME NEW q \in PtyIds, NEW u \in conns'[q]
        PROVE  /\ open'[u] /\ term[u].of = q /\ Known(q) /\ u \notin pending'
               /\ term[u].pc # "none"
               /\ term[u].pc = "handshake" => socket'[u] # <<>>
    <3>1. CASE u = t
      <4>1. q = p /\ Known(p) /\ open'[t] = open[t]
        BY <1>6, <3>1
      <4>2. open[t]
        BY <1>1 DEF StreamInv, Unanswered, k
      <4> QED
        BY <1>1, <1>4, <1>5, <1>6, <3>1, <4>1, <4>2 DEF k, p
    <3>2. CASE u # t
      <4>1. u \in conns[q] /\ u \in Terminals
        BY <1>6, <3>2
      <4>2. /\ open[u] /\ term[u].of = q /\ Known(q) /\ u \notin pending
            /\ term[u].pc # "none"
            /\ term[u].pc = "handshake" => socket[u] # <<>>
        BY <4>1 DEF StreamInv, Greeted
      <4> QED
        BY <1>4, <1>6, <3>2, <4>1, <4>2
    <3> QED
      BY <3>1, <3>2
  <2> QED
    BY <1>4, <2>1 DEF Greeted, Known
<1>11. OneRowEach'
  <2>1. ASSUME NEW u \in Terminals
        PROVE  /\ Fresh(term[u], socket'[u])
               /\ OneRow(term[u], socket'[u], Skip(term[u], socket'[u]),
                         pty[term[u].of].read,
                         u \in conns'[term[u].of] /\ term[u].pc # Closed)
    <3>1. CASE u = t
      <4>1. pty[p].read \in Counts
        BY <1>1, AllTyped, Numbers DEF PtyRecords
      <4>2. pty[p].read <= pty[p].read
        BY <1>1, AllTyped
      <4>3. OneRow(k, s, 1, pty[p].read, t \in conns'[p] /\ k.pc # Closed)
        BY <1>1, <1>5, <4>1, <4>2, NothingYet
      <4>4. Fresh(k, s)
        BY <1>1 DEF Fresh, Closed
      <4> QED
        BY <1>5, <1>6, <3>1, <4>3, <4>4 DEF k, p
    <3>2. CASE u # t
      <4>1. /\ Fresh(term[u], socket[u])
            /\ OneRow(term[u], socket[u], Skip(term[u], socket[u]),
                      pty[term[u].of].read,
                      u \in conns[term[u].of] /\ term[u].pc # Closed)
        BY DEF StreamInv, OneRowEach, Attached
      <4>2. u \in conns'[term[u].of] <=> u \in conns[term[u].of]
        BY <1>6, <3>2, AllTyped
      <4>3. socket'[u] = socket[u]
        BY <1>6, <3>2
      <4> QED
        BY <4>1, <4>2, <4>3
    <3> QED
      BY <3>1, <3>2
  <2> QED
    BY <1>4, <2>1 DEF OneRowEach, Attached
<1>12. Unanswered'
  BY <1>4, <1>6, <1>9 DEF StreamInv, Unanswered
<1> QED
  BY <1>7, <1>8, <1>10, <1>11, <1>12 DEF StreamInv

LEMMA Connects ==
  ASSUME StreamInv, NEW t \in Terminals, NEW p \in PtyIds, Connect(t, p)
  PROVE  StreamInv'
<1> DEFINE new == [NoTerm EXCEPT !.pc = "handshake", !.of = p]
<1>1. /\ term' = [term EXCEPT ![t] = new]
      /\ pending' = pending \cup {t} /\ open' = [open EXCEPT ![t] = TRUE]
      /\ term[t].pc = "none"
      /\ UNCHANGED <<up, pty, conns, entries, socket, spent>>
  BY DEF Connect
<1>2. /\ new \in TermRecords /\ new.pc = "handshake" /\ new.of = p
      /\ new.live = <<>> /\ new.buffer = <<>> /\ ~ new.fetched
  BY NoTermTyped DEF TermRecords
<1> HIDE DEF new
<1>3. /\ \A q \in PtyIds : t \notin conns[q]
      /\ socket[t] = <<>>
  BY <1>1, HasOneRow DEF StreamInv, Greeted, Fresh
<1>4. /\ term' \in [Terminals -> TermRecords] /\ term'[t] = new
      /\ \A u \in Terminals \ {t} : term'[u] = term[u]
      /\ open' \in [Terminals -> BOOLEAN] /\ open'[t]
      /\ \A u \in Terminals \ {t} : open'[u] = open[u]
      /\ pending' \subseteq Terminals
  BY <1>1, <1>2, AllTyped
<1>5. DaemonTypeOK'
  BY <1>1, <1>4, AllTyped DEF StreamInv, DaemonTypeOK, TermRecords
<1>6. (\A q \in PtyIds : EndsInLast(pty[q]))'
  BY <1>1 DEF StreamInv
<1>7. Greeted'
  <2>1. ASSUME NEW q \in PtyIds, NEW u \in conns[q]
        PROVE  /\ open'[u] /\ term'[u].of = q /\ Known(q) /\ u \notin pending'
               /\ term'[u].pc # "none"
               /\ term'[u].pc = "handshake" => socket[u] # <<>>
    <3>1. u # t /\ u \in Terminals
      BY <1>3, AllTyped
    <3>2. /\ open[u] /\ term[u].of = q /\ Known(q) /\ u \notin pending
          /\ term[u].pc # "none"
          /\ term[u].pc = "handshake" => socket[u] # <<>>
      BY DEF StreamInv, Greeted
    <3> QED
      BY <1>1, <1>4, <3>1, <3>2
  <2> QED
    BY <1>1, <2>1 DEF Greeted, Known
<1>8. Unanswered'
  <2>1. \A u \in pending : open[u] /\ term[u].pc = "handshake"
                             /\ socket[u] = <<>> /\ u \in Terminals
    BY AllTyped DEF StreamInv, Unanswered
  <2> QED
    BY <1>1, <1>2, <1>3, <1>4, <2>1 DEF Unanswered
<1>9. OneRowEach'
  <2>1. ASSUME NEW u \in Terminals
        PROVE  /\ Fresh(term'[u], socket[u])
               /\ OneRow(term'[u], socket[u], Skip(term'[u], socket[u]),
                         pty[term'[u].of].read,
                         u \in conns[term'[u].of] /\ term'[u].pc # Closed)
    <3>1. CASE u = t
      <4>1. pty[p] \in PtyRecords /\ pty[p].read \in Nat
        BY AllTyped
      <4>2. pty[p].read \in Counts /\ 0 <= pty[p].read /\ 0 \in Counts
        BY <4>1, Numbers DEF PtyRecords
      <4>3. Skip(new, <<>>) = 0 /\ Len(<<>>) = 0 /\ Fresh(new, <<>>)
        BY <1>2 DEF Skip, Fresh, Closed
      <4>4. OneRow(new, <<>>, 0, pty[p].read,
                   t \in conns[p] /\ new.pc # Closed)
        BY <1>2, <1>3, <4>2, <4>3, NothingYet
      <4> QED
        BY <1>2, <1>3, <1>4, <3>1, <4>3, <4>4
    <3>2. CASE u # t
      BY <1>4, <3>2 DEF StreamInv, OneRowEach, Attached
    <3> QED
      BY <3>1, <3>2
  <2> QED
    BY <1>1, <2>1 DEF OneRowEach, Attached
<1> QED
  BY <1>5, <1>6, <1>7, <1>8, <1>9 DEF StreamInv

-----------------------------------------------------------------------------
(* The invariant is inductive.                                             *)

LEMMA StreamInit == DaemonInit => StreamInv
<1> SUFFICES ASSUME DaemonInit PROVE StreamInv
  OBVIOUS
<1>1. /\ up = TRUE /\ conns = [p \in PtyIds |-> {}] /\ entries = {}
      /\ pending = {} /\ socket = [t \in Terminals |-> <<>>]
      /\ open = [t \in Terminals |-> FALSE]
      /\ term = [t \in Terminals |-> NoTerm] /\ spent = 0
      /\ \A p \in PtyIds : /\ pty[p].state = "none" /\ pty[p].wrote = 0
                           /\ pty[p].read = 0 /\ pty[p].ring = <<>>
  BY DEF DaemonInit
<1>2. pty \in [PtyIds -> PtyRecords]
  <2>1. <<>> \in Seq(Chunks) /\ 0 \in {0} \cup Chunks
    OBVIOUS
  <2> QED
    BY <2>1 DEF DaemonInit, PtyRecords
<1>3. DaemonTypeOK
  <2>1. <<>> \in Seq(Items) /\ 0 \in 0 .. MaxSpent
    BY PtyDaemonAssumption
  <2> QED
    BY <1>1, <1>2, <2>1, NoTermTyped, DaemonTyped
<1>4. ASSUME NEW p \in PtyIds PROVE EndsInLast(pty[p])
  <2>1. Row(0, 0) = <<>> /\ 0 \in Counts
    BY NoRow, Numbers
  <2> QED
    BY <1>1, <2>1 DEF EndsInLast
<1>5. Greeted /\ Unanswered
  BY <1>1 DEF Greeted, Unanswered
<1>6. OneRowEach
  <2>1. ASSUME NEW t \in Terminals
        PROVE  /\ Fresh(term[t], socket[t])
               /\ OneRow(term[t], socket[t], Skip(term[t], socket[t]),
                         pty[term[t].of].read, Attached(t))
    <3>1. /\ term[t] = NoTerm /\ socket[t] = <<>> /\ NoTerm.of \in PtyIds
      BY <1>1, NoTermTyped DEF TermRecords
    <3>2. /\ pty[NoTerm.of].read = 0 /\ ~ Attached(t) /\ 0 <= 0 /\ 0 \in Counts
          /\ Skip(NoTerm, <<>>) = 0 /\ Len(<<>>) = 0 /\ Fresh(NoTerm, <<>>)
      BY <1>1, <3>1, NoTermTyped, Numbers DEF Attached, Skip, Fresh
    <3>3. OneRow(NoTerm, <<>>, 0, pty[NoTerm.of].read, Attached(t))
      BY <3>2, NoTermTyped, NothingYet
    <3> QED
      BY <3>1, <3>2, <3>3
  <2> QED
    BY <2>1 DEF OneRowEach
<1> QED
  BY <1>3, <1>4, <1>5, <1>6 DEF StreamInv

LEMMA StreamStutters ==
  ASSUME StreamInv, UNCHANGED daemonVars
  PROVE  StreamInv'
BY DEF daemonVars, StreamInv, DaemonTypeOK, Greeted, Unanswered, OneRowEach,
       Attached, Known

LEMMA StreamStep == StreamInv /\ [DaemonNext]_daemonVars => StreamInv'
<1> SUFFICES ASSUME StreamInv, [DaemonNext]_daemonVars PROVE StreamInv'
  OBVIOUS
<1>1. ASSUME NEW p \in PtyIds,
             ChildWrites(p) \/ ChildExits(p) \/ PtyCreate(p)
      PROVE  StreamInv'
  BY <1>1, ChildSteps
<1>2. ASSUME NEW p \in PtyIds, PtyDestroy(p) \/ PtyReaped(p) PROVE StreamInv'
  BY <1>2, Cleanup DEF PtyDestroy, PtyReaped, Known
<1>3. ASSUME NEW p \in PtyIds, PtyOutput(p) PROVE StreamInv'
  BY <1>3, ReadsOutput
<1>4. ASSUME NEW p \in PtyIds, Heartbeat(p) PROVE StreamInv'
  BY <1>4, Beats
<1>5. ASSUME NEW t \in Terminals, Handshake(t) PROVE StreamInv'
  BY <1>5, Handshakes
<1>6. ASSUME NEW t \in Terminals, HangUp(t) \/ TunnelCut(t) PROVE StreamInv'
  BY <1>6, ConnectionEnds
<1>7. CASE InactivityExit
  BY <1>7, Exits
<1>8. ASSUME NEW t \in Terminals, TerminalStep(t) PROVE StreamInv'
  BY <1>8, ReadsAck, FailsToConnect, FetchesHistory, ReadsStream,
     FlushesStream, EndsStream DEF TerminalStep
<1>9. ASSUME NEW t \in Terminals, Leave(t) \/ Reopen(t) PROVE StreamInv'
  BY <1>9, Leaves, Reopens
<1>10. ASSUME NEW t \in Terminals, NEW p \in PtyIds, Connect(t, p)
       PROVE  StreamInv'
  BY <1>10, Connects
<1>11. CASE UNCHANGED daemonVars
  BY <1>11, StreamStutters
<1> QED
  BY <1>1, <1>2, <1>3, <1>4, <1>5, <1>6, <1>7, <1>8, <1>9, <1>10, <1>11
     DEF DaemonNext, DaemonStep

LEMMA StreamShows ==
  ASSUME StreamInv
  PROVE  LiveHasNoGap /\ HistoryMeetsLive
<1>1. ASSUME NEW t \in Terminals
      PROVE  /\ Rising(term[t].live \o term[t].buffer)
             /\ term[t].fetched /\ term[t].live # <<>> =>
                  IF term[t].history = <<>> THEN Head(term[t].live) = 1
                  ELSE Head(term[t].live)
                         <= term[t].history[Len(term[t].history)] + 1
  <2> DEFINE k == term[t]
  <2>1. PICK a, l, m, b \in Counts :
          /\ a <= l /\ l <= m
          /\ k.live = Row(a, l) /\ k.buffer = Row(l, m)
          /\ k.fetched => IF k.history = <<>> THEN a = 0
                          ELSE a <= k.history[Len(k.history)]
    BY HasOneRow
  <2>2. a \in Nat /\ l \in Nat /\ m \in Nat /\ a <= m /\ k \in TermRecords
    <3>1. a \in Nat /\ l \in Nat /\ m \in Nat
      BY Numbers
    <3>2. k \in TermRecords
      BY HasOneRow
    <3> QED
      BY <2>1, <3>1, <3>2
  <2> HIDE DEF k
  <2>3. Rising(k.live \o k.buffer)
    <3>1. Row(a, l) \o Row(l, m) = Row(a, m)
      BY <2>1, <2>2, RowsJoin
    <3> QED
      BY <2>1, <2>2, <3>1, RowRises
  <2>4. ASSUME k.fetched, k.live # <<>>
        PROVE  IF k.history = <<>> THEN Head(k.live) = 1
               ELSE Head(k.live) <= k.history[Len(k.history)] + 1
    <3>1. a < l
      BY <2>1, <2>2, <2>4, NoRow
    <3>2. Head(k.live) = a + 1
      BY <2>1, <2>2, <3>1, RowEnds
    <3>3. k.history # <<>> => k.history[Len(k.history)] \in Nat
      <4>1. k.history \in Seq(Nat)
        BY <2>2, Numbers, SeqMonotonic DEF TermRecords
      <4> QED
        BY <4>1
    <3> QED
      BY <2>1, <2>2, <2>4, <3>2, <3>3
  <2> QED
    BY <2>3, <2>4 DEF k
<1> QED
  BY <1>1 DEF LiveHasNoGap, HistoryMeetsLive

LEMMA StreamHolds == DaemonSpec => []StreamInv
BY StreamInit, StreamStep, PTL DEF DaemonSpec

\* Every variable of the daemon, its sockets and its terminals has its type,
\* however many PTYs and terminals there are.
THEOREM DaemonTypeCorrect == DaemonSpec => []DaemonTypeOK
<1>1. StreamInv => DaemonTypeOK
  BY DEF StreamInv
<1> QED
  BY <1>1, StreamHolds, PTL

\* A terminal's live output has no gap and no repetition, whatever is dropped,
\* cut, reaped or opened again on the way (_rws_daemon.py, handle_pty_output).
THEOREM LiveOutputHasNoGap == DaemonSpec => []LiveHasNoGap
BY StreamHolds, StreamShows, PTL

\* The live output starts no later than the history ends: attaching before the
\* ring buffer is fetched loses nothing between the two.
THEOREM HistoryMeetsLiveOutput == DaemonSpec => []HistoryMeetsLive
BY StreamHolds, StreamShows, PTL

=============================================================================
