---------------------------- MODULE BrowserProofs ----------------------------
(***************************************************************************)
(* What the browsers guarantee: those the remote daemon starts, for any    *)
(* number of sessions and browser processes; the tabs of the one Chrome    *)
(* the local sessions share, for any number of sessions and tabs; and the  *)
(* forwards through which remote sessions are viewed, for any number of    *)
(* sessions, clients, ports and processes.                                 *)
(***************************************************************************)
EXTENDS RemoteBrowser, BrowserTabs, BrowserView, WellFoundedInduction,
        TLAPS

(* The browsers of the daemon.                                             *)

BrowserTypeOK ==
  /\ entry \in [Sessions -> Pids \cup {0}]
  /\ process \in [Pids -> {"none", "running", "defunct", "gone"}]

BrowserInv == BrowserTypeOK /\ NoBrowserEscapes

\* Reaping touches defunct processes only.
LEMMA ReapingSparesRunning ==
  ASSUME BrowserTypeOK
  PROVE  /\ Reaped \in [Pids -> {"none", "running", "defunct", "gone"}]
         /\ \A p \in Pids : Reaped[p] = "running" <=> process[p] = "running"
BY DEF BrowserTypeOK, Reaped

LEMMA BrowserStart == BrowserInit => BrowserInv
BY DEF BrowserInit, BrowserInv, BrowserTypeOK, NoBrowserEscapes, Running

\* An entry that is dropped is that of a process that does not run, and a
\* browser is launched only while none runs.
LEMMA StartKeepsInv ==
  ASSUME BrowserInv, NEW s \in Sessions,
         AsksBrowser(s) \/ Serves(s) \/ StopsPolling(s)
  PROVE  BrowserInv'
<1> USE DEF BrowserInv, BrowserTypeOK, NoBrowserEscapes, Running
<1>1. CASE AsksBrowser(s) \/ StopsPolling(s) \/ AlreadyRunning(s)
  BY <1>1 DEF AsksBrowser, StopsPolling, AlreadyRunning
<1>2. CASE PortTaken(s) \/ WaitsForInstall(s)
  <2>1. /\ entry' = [entry EXCEPT ![s] = 0] /\ process' = process
        /\ ~Found(entry[s])
    BY <1>2 DEF PortTaken, WaitsForInstall, Forgets
  <2>2. \A p \in Pids : process[p] = "running" => p # 0 /\ entry[s] # p
    BY <2>1 DEF Found, Pids
  <2> QED
    BY <2>1, <2>2
<1>3. CASE LaunchesBrowser(s)
  <2> DEFINE p == Cardinality(Started) + 1
  <2>1. Running = {} /\ p \in Pids
    BY <1>3 DEF LaunchesBrowser
  <2>2. \/ /\ process' = [Reaped EXCEPT ![p] = "running"]
           /\ entry' = [entry EXCEPT ![s] = p]
        \/ /\ process' = [Reaped EXCEPT ![p] = "defunct"]
           /\ entry' = [entry EXCEPT ![s] = 0]
    BY <1>3 DEF LaunchesBrowser, Forgets
  <2> HIDE DEF p
  <2>3. \A q \in Pids : Reaped[q] # "running"
    BY <2>1, ReapingSparesRunning
  <2> QED
    BY <2>1, <2>2, <2>3, ReapingSparesRunning
<1> QED
  BY <1>1, <1>2, <1>3 DEF Serves

LEMMA StopKeepsInv ==
  ASSUME BrowserInv, NEW s \in Sessions, StopsBrowser(s)
  PROVE  BrowserInv'
<1> USE DEF BrowserInv, BrowserTypeOK, NoBrowserEscapes, Running
<1>1. entry[s] \in Pids
  BY DEF StopsBrowser
<1>2. process' = [process EXCEPT ![entry[s]] =
                    IF @ = "running" THEN "defunct" ELSE @]
      /\ entry' = [entry EXCEPT ![s] = 0]
  BY DEF StopsBrowser, Forgets
<1>3. \A p \in Pids : process'[p] = "running" =>
                        process[p] = "running" /\ p # entry[s]
  BY <1>1, <1>2
<1> QED
  BY <1>1, <1>2, <1>3

LEMMA OthersKeepInv ==
  ASSUME BrowserInv,
         \/ CleansUp \/ OtherCommand \/ InstallFinishes
         \/ \E p \in Pids : BrowserExits(p)
         \/ UNCHANGED browserVars
  PROVE  BrowserInv'
<1> USE DEF BrowserInv, BrowserTypeOK, NoBrowserEscapes, Running
<1>1. CASE CleansUp
  BY <1>1 DEF CleansUp, Found, Pids
<1>2. CASE OtherCommand \/ InstallFinishes
  <2>1. process' = Reaped /\ entry' = entry
    BY <1>2 DEF OtherCommand, InstallFinishes
  <2> QED
    BY <2>1, ReapingSparesRunning
<1>3. CASE \E p \in Pids : BrowserExits(p)
  BY <1>3 DEF BrowserExits
<1>4. CASE UNCHANGED browserVars
  BY <1>4 DEF browserVars
<1> QED
  BY <1>1, <1>2, <1>3, <1>4

-----------------------------------------------------------------------------
\* No browser runs that its session's entry does not name, so that a stop or
\* the end of the daemon terminates every one.
THEOREM BrowsersStayKnown == BrowserSpec => []NoBrowserEscapes
<1>1. BrowserInv /\ [BrowserNext]_browserVars => BrowserInv'
  BY StartKeepsInv, StopKeepsInv, OthersKeepInv DEF BrowserNext
<1>2. BrowserInv => NoBrowserEscapes
  BY DEF BrowserInv
<1> QED
  BY <1>1, <1>2, BrowserStart, PTL DEF BrowserSpec

-----------------------------------------------------------------------------
(* The tabs of the local sessions.  A session names tabs in its proxy, its *)
(* memory and its view, and in what its requests have read and not written *)
(* back yet.                                                               *)

Names(x) == {proxy[x].target, remembered[x], shown[x], call[x].old,
             call[x].new, post[x].new} \ {NoPage}

Loyal == Locals \ strayed

\* Named tabs, and those of Chrome, were made once.
NamedWereMade ==
  /\ \A t \in pages : maker[t] # "unused"
  /\ \A x \in Locals : \A t \in Names(x) : maker[t] # "unused"

\* What a request makes is made for its session.
CallsMakeOwn ==
  \A x \in Locals : call[x].new # NoPage => maker[call[x].new] = x

\* A session that did not stray names its own tabs, and such as were made in
\* place of a tab that a session that strayed shared with it.
LoyalNameOwn ==
  \A x \in Loyal : \A t \in Names(x) : maker[t] = x \/ maker[t] \in strayed

\* No other such session names any of them, nor one that a request is about
\* to publish.
LoyalAreApart ==
  /\ \A x, y \in Loyal : x # y => Names(x) \cap Names(y) = {}
  /\ \A x \in Locals : \A y \in Loyal : x # y => call[x].new \notin Names(y)

StrayInv == NamedWereMade /\ CallsMakeOwn /\ LoyalNameOwn /\ LoyalAreApart

TabInv == TabTypeOK /\ StrayInv

LEMMA TabStart == TabInit => TabInv
<1> SUFFICES ASSUME TabInit PROVE TabInv
  OBVIOUS
<1>1. NoCall \in Calls /\ Gone \in [on : BOOLEAN, target : Pages \cup {NoPage}]
  BY DEF Calls, NoCall, Gone
<1>2. TabTypeOK
  BY <1>1, TabAssumption DEF TabInit, TabTypeOK
<1>3. pages = {} /\ \A x \in Locals : Names(x) = {} /\ call[x].new = NoPage
  BY DEF TabInit, Names, NoCall, Gone
<1>4. StrayInv
  BY <1>3 DEF StrayInv, NamedWereMade, CallsMakeOwn, LoyalNameOwn,
              LoyalAreApart, Loyal
<1> QED
  BY <1>2, <1>4 DEF TabInv

-----------------------------------------------------------------------------
(* The ways in which names change.                                         *)

\* Tabs that were made stay whose they were.
MakersStay == \A t \in Pages : maker[t] # "unused" => maker'[t] = maker[t]

NamesTyped == \A x \in Locals : Names(x) \subseteq Pages

LEMMA NamesAreTabs ==
  ASSUME TabTypeOK
  PROVE  NamesTyped
BY DEF TabTypeOK, NamesTyped, Names, Calls

\* Nobody names a tab that he did not name before.
LEMMA FewerNames ==
  ASSUME TabInv, MakersStay, UNCHANGED strayed,
         \A t \in pages' : t \in pages \/ (t \in Pages /\ maker'[t] # "unused"),
         \A x \in Locals : /\ Names(x)' \subseteq Names(x)
                           /\ call'[x].new \in {call[x].new, NoPage}
  PROVE  StrayInv'
<1>1. StrayInv /\ NamesTyped /\ pages \subseteq Pages
  BY NamesAreTabs DEF TabInv, TabTypeOK
<1>2. \A x \in Locals : call[x].new # NoPage => call[x].new \in Names(x)
  BY DEF Names
<1>3. Loyal' = Loyal
  BY DEF Loyal
<1>4. NamedWereMade'
  BY <1>1 DEF StrayInv, NamedWereMade, NamesTyped, MakersStay
<1>5. CallsMakeOwn'
  <2> SUFFICES ASSUME NEW x \in Locals, call'[x].new # NoPage
               PROVE  maker'[call'[x].new] = x
    BY DEF CallsMakeOwn
  <2>1. call'[x].new = call[x].new /\ call[x].new \in Names(x)
    BY <1>2
  <2> QED
    BY <2>1, <1>1 DEF StrayInv, CallsMakeOwn, NamedWereMade, NamesTyped,
                      MakersStay
<1>6. LoyalNameOwn'
  <2> SUFFICES ASSUME NEW x \in Loyal, NEW t \in Names(x)
               PROVE  maker'[t] = maker[t]
    BY <1>1, <1>3 DEF StrayInv, LoyalNameOwn, Loyal
  <2> QED
    BY <1>1 DEF StrayInv, NamedWereMade, NamesTyped, MakersStay, Loyal
<1>7. LoyalAreApart'
  <2>1. \A x \in Locals : NoPage \notin Names(x)
    BY DEF Names
  <2> QED
    BY <1>1, <1>3, <2>1 DEF StrayInv, LoyalAreApart, Loyal
<1> QED
  BY <1>4, <1>5, <1>6, <1>7 DEF StrayInv

\* A session names a tab that was just made for it.
LEMMA NewNames ==
  ASSUME TabInv, NEW s \in Locals, NEW p \in Pages, Makes(p, s),
         UNCHANGED strayed,
         \A x \in Locals \ {s} : /\ Names(x)' = Names(x)
                                 /\ call'[x] = call[x],
         Names(s)' \subseteq Names(s) \cup {p},
         call'[s].new \in {call[s].new, p, NoPage}
  PROVE  StrayInv'
<1>1. /\ StrayInv /\ NamesTyped /\ pages \subseteq Pages
      /\ maker \in [Pages -> Locals \cup {NoPage, "unused"}]
  BY NamesAreTabs DEF TabInv, TabTypeOK
<1>2. /\ maker[p] = "unused" /\ maker' = [maker EXCEPT ![p] = s]
      /\ pages' = pages \cup {p}
  BY DEF Makes, Fresh
<1>3. /\ maker'[p] = s /\ s # "unused" /\ Loyal' = Loyal
      /\ \A t \in Pages \ {p} : maker'[t] = maker[t]
  BY <1>1, <1>2, TabAssumption DEF Loyal
<1>4. \A x \in Locals : p \notin Names(x)
  BY <1>1, <1>2 DEF StrayInv, NamedWereMade
<1>5. \A x \in Locals : call[x].new # NoPage => call[x].new \in Names(x)
  BY DEF Names
<1>6. NamedWereMade'
  BY <1>1, <1>2, <1>3, <1>4 DEF StrayInv, NamedWereMade, NamesTyped
<1>7. CallsMakeOwn'
  <2> SUFFICES ASSUME NEW x \in Locals, call'[x].new # NoPage
               PROVE  maker'[call'[x].new] = x
    BY DEF CallsMakeOwn
  <2>1. CASE x = s /\ call'[x].new = p
    BY <2>1, <1>3
  <2>2. CASE call'[x].new = call[x].new
    <3>1. call[x].new \in Names(x) /\ call[x].new # p
      BY <2>2, <1>4, <1>5
    <3> QED
      BY <2>2, <3>1, <1>1, <1>3 DEF StrayInv, CallsMakeOwn, NamesTyped
  <2> QED
    BY <2>1, <2>2
<1>8. LoyalNameOwn'
  <2> SUFFICES ASSUME NEW x \in Loyal, NEW t \in Names(x)'
               PROVE  maker'[t] = x \/ maker'[t] \in strayed
    BY <1>3 DEF LoyalNameOwn
  <2>1. CASE t = p
    BY <2>1, <1>3, <1>4 DEF Loyal
  <2>2. CASE t # p
    <3>1. t \in Names(x) /\ t \in Pages
      BY <2>2, <1>1 DEF Loyal, NamesTyped
    <3> QED
      BY <2>2, <3>1, <1>1, <1>3 DEF StrayInv, LoyalNameOwn
  <2> QED
    BY <2>1, <2>2
<1>9. LoyalAreApart'
  <2>1. ASSUME NEW x \in Loyal, NEW y \in Loyal, x # y
        PROVE  Names(x)' \cap Names(y)' = {}
    <3>1. /\ Names(x) \cap Names(y) = {}
          /\ p \notin Names(x) /\ p \notin Names(y)
      BY <2>1, <1>1, <1>4 DEF StrayInv, LoyalAreApart, Loyal
    <3>2. /\ Names(x)' \subseteq Names(x) \cup {p}
          /\ Names(y)' \subseteq Names(y) \cup {p}
      BY <2>1 DEF Loyal
    <3>3. x = s \/ Names(x)' = Names(x)
      BY DEF Loyal
    <3>4. y = s \/ Names(y)' = Names(y)
      BY DEF Loyal
    <3> QED
      BY <2>1, <3>1, <3>2, <3>3, <3>4
  <2>2. ASSUME NEW x \in Locals, NEW y \in Loyal, x # y
        PROVE  call'[x].new \notin Names(y)'
    <3>1. call[x].new \notin Names(y) /\ p \notin Names(y) /\ y \in Locals
      BY <2>2, <1>1, <1>4 DEF StrayInv, LoyalAreApart, Loyal
    <3>2. NoPage \notin Names(y)'
      BY DEF Names
    <3>3. CASE x = s
      BY <2>2, <3>1, <3>2, <3>3
    <3>4. CASE x # s
      <4>1. call'[x].new = call[x].new /\ Names(y)' \subseteq Names(y) \cup {p}
        BY <3>1, <3>4
      <4>2. CASE call[x].new = NoPage
        BY <4>1, <4>2, <3>2
      <4>3. CASE call[x].new # NoPage
        <5>1. call[x].new # p
          BY <4>3, <1>4, <1>5
        <5> QED
          BY <5>1, <3>1, <4>1
      <4> QED
        BY <4>2, <4>3
    <3> QED
      BY <3>3, <3>4
  <2> QED
    BY <2>1, <2>2, <1>3 DEF LoyalAreApart
<1> QED
  BY <1>6, <1>7, <1>8, <1>9 DEF StrayInv
\* A request publishes what it made: whoever remembered the old tab of its
\* session names the new one.
LEMMA PublishedNames ==
  ASSUME TabInv, NEW s \in Locals, UNCHANGED <<strayed, maker, pages>>,
         \A x \in Locals \ {s} :
           /\ call'[x] = call[x]
           /\ Names(x)' \subseteq Names(x) \cup {call[s].new}
           /\ call[s].old \notin Names(x) => Names(x)' \subseteq Names(x),
         Names(s)' \subseteq Names(s), call'[s].new = NoPage
  PROVE  StrayInv'
<1>1. StrayInv /\ Loyal' = Loyal
  BY DEF TabInv, Loyal
<1>2. \A x \in Locals : /\ NoPage \notin Names(x) /\ NoPage \notin Names(x)'
                        /\ call[x].new # NoPage => call[x].new \in Names(x)
                        /\ call[x].old # NoPage => call[x].old \in Names(x)
  BY DEF Names
<1>3. \A x \in Locals : Names(x)' \subseteq Names(x) \cup {call[s].new}
  OBVIOUS
<1>4. NamedWereMade'
  BY <1>1, <1>2, <1>3 DEF StrayInv, NamedWereMade
<1>5. CallsMakeOwn'
  BY <1>1 DEF StrayInv, CallsMakeOwn
\* Of the sessions that did not stray, one at most names the new tab.
<1>6. ASSUME NEW x \in Loyal, ~(Names(x)' \subseteq Names(x))
      PROVE  /\ s \in strayed /\ x # s /\ call[s].old \in Names(x)
             /\ call[s].new # NoPage /\ maker[call[s].new] = s
  <2>1. x \in Locals \ {s} /\ call[s].old \in Names(x)
    BY <1>6 DEF Loyal
  <2>2. call[s].old \in Names(s)
    BY <2>1, <1>2
  <2>3. s \in strayed
    BY <2>1, <2>2, <1>1 DEF StrayInv, LoyalAreApart, Loyal
  <2>4. call[s].new # NoPage
    BY <1>6, <2>1, <1>2, <1>3 DEF Loyal
  <2> QED
    BY <2>1, <2>3, <2>4, <1>1 DEF StrayInv, CallsMakeOwn
<1>7. \A x, y \in Loyal : /\ ~(Names(x)' \subseteq Names(x))
                          /\ ~(Names(y)' \subseteq Names(y))
                          => x = y
  BY <1>1, <1>6 DEF StrayInv, LoyalAreApart
<1>8. LoyalNameOwn'
  <2> SUFFICES ASSUME NEW x \in Loyal, NEW t \in Names(x)'
               PROVE  maker[t] = x \/ maker[t] \in strayed
    BY <1>1 DEF LoyalNameOwn
  <2>1. CASE t \in Names(x)
    BY <2>1, <1>1 DEF StrayInv, LoyalNameOwn
  <2>2. CASE t \notin Names(x)
    BY <2>2, <1>3, <1>6 DEF Loyal
  <2> QED
    BY <2>1, <2>2
<1>9. LoyalAreApart'
  <2>1. ASSUME NEW x \in Loyal, NEW y \in Loyal, x # y
        PROVE  Names(x)' \cap Names(y)' = {}
    <3>1. Names(x) \cap Names(y) = {}
      BY <2>1, <1>1 DEF StrayInv, LoyalAreApart
    <3>2. s \in strayed => /\ call[s].new \notin Names(x)
                           /\ call[s].new \notin Names(y)
      BY <1>1 DEF StrayInv, LoyalAreApart, Loyal
    <3>3. /\ Names(x)' \subseteq Names(x) \cup {call[s].new}
          /\ Names(y)' \subseteq Names(y) \cup {call[s].new}
      BY <1>3 DEF Loyal
    <3>4. CASE Names(x)' \subseteq Names(x) /\ Names(y)' \subseteq Names(y)
      BY <3>1, <3>4
    <3>5. CASE ~(Names(x)' \subseteq Names(x))
      <4>1. s \in strayed /\ Names(y)' \subseteq Names(y)
        BY <2>1, <3>5, <1>6, <1>7
      <4> QED
        BY <4>1, <3>1, <3>2, <3>3
    <3>6. CASE ~(Names(y)' \subseteq Names(y))
      <4>1. s \in strayed /\ Names(x)' \subseteq Names(x)
        BY <2>1, <3>6, <1>6, <1>7
      <4> QED
        BY <4>1, <3>1, <3>2, <3>3
    <3> QED
      BY <3>4, <3>5, <3>6
  <2>2. ASSUME NEW x \in Locals, NEW y \in Loyal, x # y
        PROVE  call'[x].new \notin Names(y)'
    <3>1. call[x].new \notin Names(y)
      BY <2>2, <1>1 DEF StrayInv, LoyalAreApart
    <3>2. CASE call'[x].new = NoPage
      BY <3>2, <1>2 DEF Loyal
    <3>3. CASE call'[x].new # NoPage
      <4>1. x # s /\ call'[x] = call[x] /\ maker[call[x].new] = x
        BY <3>3, <1>1 DEF StrayInv, CallsMakeOwn
      <4>2. CASE Names(y)' \subseteq Names(y)
        BY <4>1, <4>2, <3>1
      <4>3. CASE ~(Names(y)' \subseteq Names(y))
        <5>1. maker[call[s].new] = s
          BY <4>3, <1>6
        <5>2. call[x].new # call[s].new
          BY <5>1, <4>1
        <5> QED
          BY <5>2, <4>1, <3>1, <1>3 DEF Loyal
      <4> QED
        BY <4>2, <4>3
    <3> QED
      BY <3>2, <3>3
  <2> QED
    BY <2>1, <2>2, <1>1 DEF LoyalAreApart
<1> QED
  BY <1>4, <1>5, <1>8, <1>9 DEF StrayInv

\* A view takes any tab of Chrome: the session strays, unless it is its own.
LEMMA TakenNames ==
  ASSUME TabInv, NEW s \in Locals, NEW t \in pages, UNCHANGED maker,
         pages' \subseteq pages, call' = call,
         strayed' = IF maker[t] = s THEN strayed ELSE strayed \cup {s},
         \A x \in Locals \ {s} : Names(x)' = Names(x),
         Names(s)' \subseteq Names(s) \cup {t}
  PROVE  StrayInv'
<1>1. StrayInv /\ Loyal' \subseteq Loyal /\ strayed \subseteq strayed'
  BY DEF TabInv, Loyal
<1>2. s \in Loyal' => maker[t] = s
  BY DEF Loyal
<1>3. \A x \in Locals : call[x].new # NoPage => call[x].new \in Names(x)
  BY DEF Names
<1>4. NamedWereMade'
  BY <1>1 DEF StrayInv, NamedWereMade
<1>5. CallsMakeOwn'
  BY <1>1 DEF StrayInv, CallsMakeOwn
<1>6. LoyalNameOwn'
  BY <1>1, <1>2 DEF StrayInv, LoyalNameOwn, Loyal
\* Its own tab nobody else names.
<1>7. ASSUME s \in Loyal', NEW x \in Loyal', x # s
      PROVE  t \notin Names(x)
  BY <1>1, <1>2, <1>7 DEF StrayInv, LoyalNameOwn, Loyal
<1>8. LoyalAreApart'
  <2>1. ASSUME NEW x \in Loyal', NEW y \in Loyal', x # y
        PROVE  Names(x)' \cap Names(y)' = {}
    <3>1. Names(x) \cap Names(y) = {} /\ x \in Locals /\ y \in Locals
      BY <2>1, <1>1 DEF StrayInv, LoyalAreApart, Loyal
    <3>2. CASE x # s /\ y # s
      BY <3>1, <3>2
    <3>3. CASE x = s
      BY <2>1, <3>1, <3>3, <1>7
    <3>4. CASE y = s
      BY <2>1, <3>1, <3>4, <1>7
    <3> QED
      BY <3>2, <3>3, <3>4
  <2>2. ASSUME NEW x \in Locals, NEW y \in Loyal', x # y
        PROVE  call[x].new \notin Names(y)'
    <3>1. call[x].new \notin Names(y) /\ y \in Locals
      BY <2>2, <1>1 DEF StrayInv, LoyalAreApart, Loyal
    <3>2. CASE y # s
      BY <3>1, <3>2
    <3>3. CASE y = s
      <4>1. NoPage \notin Names(s)'
        BY DEF Names
      <4>2. call[x].new # NoPage => maker[call[x].new] = x
        BY <1>1 DEF StrayInv, CallsMakeOwn
      <4> QED
        BY <2>2, <3>1, <3>3, <4>1, <4>2, <1>2
    <3> QED
      BY <3>2, <3>3
  <2> QED
    BY <2>1, <2>2 DEF LoyalAreApart
<1> QED
  BY <1>4, <1>5, <1>6, <1>8 DEF StrayInv

-----------------------------------------------------------------------------
(* The steps.                                                              *)

Proxies == [on : BOOLEAN, target : Pages \cup {NoPage}]
LEMMA ProxyTyped ==
  \A k \in Proxies : /\ [k EXCEPT !.on = TRUE] \in Proxies
                     /\ \A t \in Pages \cup {NoPage} :
                          [k EXCEPT !.target = t] \in Proxies
BY DEF Proxies

\* A new tab was nobody's.
LEMMA MakingKeepsTypes ==
  ASSUME TabTypeOK, NEW p \in Pages, NEW s \in Locals, Makes(p, s)
  PROVE  /\ pages' \subseteq Pages
         /\ maker' \in [Pages -> Locals \cup {NoPage, "unused"}]
BY TabAssumption DEF TabTypeOK, Makes, Fresh

\* A request goes on with a tab.
LEMMA CallTakesTab ==
  ASSUME NEW r \in Calls, NEW step \in {"set", "connect"},
         NEW t \in Pages \cup {NoPage}
  PROVE  /\ [r EXCEPT !.step = step, !.new = t] \in Calls
         /\ [r EXCEPT !.step = step, !.new = t].old = r.old
         /\ [r EXCEPT !.step = step, !.new = t].new = t
BY DEF Calls

LEMMA NoCallTyped ==
  NoCall \in Calls /\ NoCall.old = NoPage /\ NoCall.new = NoPage
BY DEF Calls, NoCall

LEMMA ProxyKeepsTabs ==
  ASSUME TabInv, NEW s \in Locals,
         \/ ProxyMisses(s) \/ ProxyMakesNothing(s) \/ ProxySets(s)
         \/ \E p \in Pages : ProxyMakes(s, p)
  PROVE  TabInv'
<1>t. TabTypeOK
  BY DEF TabInv
<1>1. CASE ProxyMisses(s)
  <2> DEFINE r == [NoCall EXCEPT !.step = "make", !.old = proxy[s].target]
  <2>1. r \in Calls /\ r.old = proxy[s].target /\ r.new = NoPage
    BY <1>t DEF Calls, NoCall, TabTypeOK
  <2>2. /\ call' = [call EXCEPT ![s] = r] /\ turns' \in 0..MaxTurns
        /\ UNCHANGED <<live, pages, maker, proxy, remembered, shown, post,
                       strayed>>
    BY <1>1, <1>t, TabAssumption DEF ProxyMisses, Turn, TabTypeOK
  <2> HIDE DEF r
  <2>3. TabTypeOK'
    BY <1>t, <2>1, <2>2 DEF TabTypeOK
  <2>4. \A x \in Locals : /\ Names(x)' \subseteq Names(x)
                          /\ call'[x].new \in {call[x].new, NoPage}
    BY <1>t, <2>1, <2>2 DEF Names, TabTypeOK
  <2>5. StrayInv'
    BY <2>2, <2>4, FewerNames DEF MakersStay
  <2> QED
    BY <2>3, <2>5 DEF TabInv
<1>2. CASE ProxyMakesNothing(s)
  <2>1. TabTypeOK'
    BY <1>2, <1>t, NoCallTyped DEF ProxyMakesNothing, TabTypeOK
  <2>2. \A x \in Locals : /\ Names(x)' \subseteq Names(x)
                          /\ call'[x].new \in {call[x].new, NoPage}
    BY <1>2, <1>t, NoCallTyped DEF ProxyMakesNothing, Names, TabTypeOK
  <2>3. StrayInv'
    BY <1>2, <2>2, FewerNames DEF MakersStay, ProxyMakesNothing
  <2> QED
    BY <2>1, <2>3 DEF TabInv
<1>3. CASE ProxySets(s)
  <2> DEFINE c == call[s]
  <2>1. /\ proxy' = [proxy EXCEPT ![s].target = IF proxy[s].on THEN c.new
                                                ELSE NoPage]
        /\ remembered' = [x \in Locals |->
                           IF c.old # NoPage /\ remembered[x] = c.old THEN c.new
                           ELSE remembered[x]]
        /\ call' = [call EXCEPT ![s] = NoCall]
        /\ UNCHANGED <<live, pages, maker, shown, post, strayed, turns>>
    BY <1>3 DEF ProxySets
  <2>2. c \in Calls
    BY <1>t DEF TabTypeOK
  <2>3. c.old \in Pages \cup {NoPage} /\ c.new \in Pages \cup {NoPage}
    BY <2>2 DEF Calls
  <2>4. TabTypeOK'
    <3>1. proxy' \in [Locals -> [on : BOOLEAN, target : Pages \cup {NoPage}]]
      BY <1>t, <2>1, <2>3 DEF TabTypeOK
    <3>2. /\ remembered' \in [Locals -> Pages \cup {NoPage}]
          /\ call' \in [Locals -> Calls]
      BY <1>t, NoCallTyped, <2>1, <2>3 DEF TabTypeOK
    <3> QED
      BY <1>t, <2>1, <3>1, <3>2 DEF TabTypeOK
  <2>5. ASSUME NEW x \in Locals \ {s}
        PROVE  /\ call'[x] = call[x]
               /\ Names(x)' \subseteq Names(x) \cup {c.new}
               /\ c.old \notin Names(x) => Names(x)' \subseteq Names(x)
    <3>1. /\ proxy'[x] = proxy[x] /\ call'[x] = call[x] /\ shown' = shown
          /\ post' = post
          /\ remembered'[x] \in {remembered[x], c.new}
          /\ remembered'[x] # remembered[x]
             => c.old # NoPage /\ remembered[x] = c.old
      BY <1>t, <2>1 DEF TabTypeOK
    <3> HIDE DEF c
    <3> QED
      BY <3>1 DEF Names
  <2>6. Names(s)' \subseteq Names(s) /\ call'[s].new = NoPage
    <3>1. /\ proxy'[s].target \in {c.new, NoPage} /\ call'[s] = NoCall
          /\ remembered'[s] \in {remembered[s], c.new}
          /\ shown' = shown /\ post' = post
      BY <1>t, <2>1 DEF TabTypeOK
    <3> QED
      BY <3>1, NoCallTyped DEF Names
  <2>7. StrayInv'
    BY <2>1, <2>5, <2>6, PublishedNames
  <2> QED
    BY <2>4, <2>7 DEF TabInv
<1>4. CASE \E p \in Pages : ProxyMakes(s, p)
  <2>1. PICK p \in Pages : ProxyMakes(s, p)
    BY <1>4
  <2>2. /\ Makes(p, s)
        /\ call' = [call EXCEPT ![s].step = "set", ![s].new = p]
        /\ UNCHANGED <<live, proxy, remembered, shown, post, strayed, turns>>
    BY <2>1 DEF ProxyMakes
  <2>3. call' \in [Locals -> Calls] /\ call'[s].old = call[s].old
        /\ call'[s].new = p /\ \A x \in Locals \ {s} : call'[x] = call[x]
    <3> DEFINE r == [call[s] EXCEPT !.step = "set", !.new = p]
    <3>1. call' = [call EXCEPT ![s] = r]
      BY <1>t, <2>2 DEF TabTypeOK
    <3>2. r \in Calls /\ r.old = call[s].old /\ r.new = p
      BY <1>t, CallTakesTab DEF TabTypeOK
    <3> HIDE DEF r
    <3> QED
      BY <1>t, <3>1, <3>2 DEF TabTypeOK
  <2>4. TabTypeOK'
    BY <1>t, <2>2, <2>3, MakingKeepsTypes DEF TabTypeOK
  <2>5. /\ \A x \in Locals \ {s} : Names(x)' = Names(x)
        /\ Names(s)' \subseteq Names(s) \cup {p}
    BY <2>2, <2>3 DEF Names
  <2>6. StrayInv'
    BY <2>2, <2>3, <2>5, NewNames
  <2> QED
    BY <2>4, <2>6 DEF TabInv
<1> QED
  BY <1>1, <1>2, <1>3, <1>4

LEMMA PostKeepsTabs ==
  ASSUME TabInv, NEW s \in Locals,
         PostStarts(s) \/ TriesProxyTab(s) \/ TriesRemembered(s)
         \/ NoChrome(s) \/ Registers(s)
  PROVE  TabInv'
<1>t. TabTypeOK
  BY DEF TabInv
<1>p. ASSUME NEW step \in {"proxied", "recall", "create"}, Post(s, step)
      PROVE  /\ post' \in [Locals -> Calls]
             /\ \A x \in Locals : post'[x].new = post[x].new
  <2>1. \A k \in Calls : [k EXCEPT !.step = step] \in Calls
                         /\ [k EXCEPT !.step = step].new = k.new
    BY DEF Calls
  <2>2. post \in [Locals -> Calls]
    BY <1>t DEF TabTypeOK
  <2>3. post' = [post EXCEPT ![s] = [post[s] EXCEPT !.step = step]]
    BY <1>p, <2>2 DEF Post
  <2> QED
    BY <2>1, <2>2, <2>3
<1>c. ASSUME NEW t \in Pages \cup {NoPage},
             post' = [post EXCEPT ![s].step = "connect", ![s].new = t]
      PROVE  /\ post' \in [Locals -> Calls]
             /\ post'[s].new = t
             /\ \A x \in Locals \ {s} : post'[x] = post[x]
  <2> DEFINE r == [post[s] EXCEPT !.step = "connect", !.new = t]
  <2>1. post' = [post EXCEPT ![s] = r]
    BY <1>t, <1>c DEF TabTypeOK
  <2>2. r \in Calls /\ r.new = t
    BY <1>t, <1>c, CallTakesTab DEF TabTypeOK
  <2> HIDE DEF r
  <2> QED
    BY <1>t, <1>c, <2>1, <2>2 DEF TabTypeOK
<1>1. CASE PostStarts(s)
  <2>1. /\ proxy' = [proxy EXCEPT ![s].on = TRUE]
        /\ shown' \in {shown, [shown EXCEPT ![s] = NoPage]}
        /\ UNCHANGED <<live, pages, maker, remembered, call, strayed>>
        /\ turns' \in 0..MaxTurns
    <3>1. turns \in 0..MaxTurns
      BY <1>t DEF TabTypeOK
    <3>2. turns' \in 0..MaxTurns
      BY <1>1, <3>1, TabAssumption DEF PostStarts, Turn
    <3> QED
      BY <1>1, <3>2 DEF PostStarts
  <2>2. /\ post' \in [Locals -> Calls]
        /\ \A x \in Locals : post'[x].new = post[x].new
    BY <1>1, <1>p, <1>t DEF PostStarts, TabTypeOK
  <2>3. TabTypeOK'
    <3>1. proxy' \in [Locals -> [on : BOOLEAN, target : Pages \cup {NoPage}]]
      BY <1>t, <2>1, ProxyTyped DEF TabTypeOK, Proxies
    <3>2. shown' \in [Locals -> Pages \cup {NoPage}]
      BY <1>t, <2>1 DEF TabTypeOK
    <3> QED
      BY <1>t, <2>1, <2>2, <3>1, <3>2 DEF TabTypeOK
  <2>4. \A x \in Locals : Names(x)' \subseteq Names(x)
    <3>1. \A x \in Locals : /\ proxy'[x].target = proxy[x].target
                            /\ shown'[x] \in {shown[x], NoPage}
      BY <1>t, <2>1 DEF TabTypeOK
    <3> QED
      BY <2>1, <2>2, <3>1 DEF Names
  <2>5. StrayInv'
    BY <2>1, <2>4, FewerNames DEF MakersStay
  <2> QED
    BY <2>3, <2>5 DEF TabInv
<1>2. CASE TriesProxyTab(s) \/ TriesRemembered(s)
  <2>1. UNCHANGED <<live, pages, maker, proxy, remembered, shown, call,
                    strayed, turns>>
    BY <1>2 DEF TriesProxyTab, TriesRemembered
  <2>2. /\ proxy[s].target \in Pages \cup {NoPage}
        /\ remembered[s] \in Pages \cup {NoPage}
    BY <1>t DEF TabTypeOK
  <2>3. \/ \E t \in {proxy[s].target, remembered[s]} :
             post' = [post EXCEPT ![s].step = "connect", ![s].new = t]
        \/ \E step \in {"recall", "create"} : Post(s, step)
    BY <1>2 DEF TriesProxyTab, TriesRemembered
  <2>4. /\ post' \in [Locals -> Calls]
        /\ \A x \in Locals : post'[x].new \in {post[x].new, proxy[x].target,
                                               remembered[x]}
    <3>1. CASE \E t \in {proxy[s].target, remembered[s]} :
                 post' = [post EXCEPT ![s].step = "connect", ![s].new = t]
      BY <3>1, <2>2, <1>c
    <3>2. CASE \E step \in {"recall", "create"} : Post(s, step)
      BY <3>2, <1>p
    <3> QED
      BY <2>3, <3>1, <3>2
  <2>5. TabTypeOK'
    BY <1>t, <2>1, <2>4 DEF TabTypeOK
  <2>6. \A x \in Locals : Names(x)' \subseteq Names(x)
    BY <2>1, <2>4 DEF Names
  <2>7. StrayInv'
    BY <2>1, <2>6, FewerNames DEF MakersStay
  <2> QED
    BY <2>5, <2>7 DEF TabInv
<1>3. CASE NoChrome(s)
  <2>1. UNCHANGED <<live, proxy, remembered, shown, call, strayed, turns>>
    BY <1>3 DEF NoChrome
  <2>2. /\ post' \in [Locals -> Calls]
        /\ \A x \in Locals : post'[x].new \in {post[x].new, NoPage}
    BY <1>3, <1>p, <1>t, NoCallTyped DEF NoChrome, TabTypeOK
  <2>3. /\ pages' \subseteq Pages
        /\ maker' \in [Pages -> Locals \cup {NoPage, "unused"}]
        /\ MakersStay
    BY <1>3, <1>t DEF NoChrome, TabTypeOK, Fresh, MakersStay
  <2>4. \A t \in pages' : t \in pages \/ (t \in Pages /\ maker'[t] # "unused")
    <3>1. CASE UNCHANGED pages
      BY <3>1
    <3>2. ASSUME NEW p \in Fresh, pages' = {p},
                 maker' = [maker EXCEPT ![p] = NoPage]
          PROVE  maker'[p] # "unused" /\ p \in Pages
      BY <1>t, <3>2, TabAssumption DEF TabTypeOK, Fresh
    <3> QED
      BY <1>3, <3>1, <3>2 DEF NoChrome
  <2>5. TabTypeOK'
    BY <1>t, <2>1, <2>2, <2>3 DEF TabTypeOK
  <2>6. \A x \in Locals : Names(x)' \subseteq Names(x)
    BY <2>1, <2>2 DEF Names
  <2>7. StrayInv'
    BY <2>1, <2>3, <2>4, <2>6, FewerNames
  <2> QED
    BY <2>5, <2>7 DEF TabInv
<1>4. CASE Registers(s)
  <2> DEFINE t == post[s].new
  <2>1. t \in Pages \cup {NoPage}
    BY <1>t DEF TabTypeOK, Calls
  <2>2. /\ UNCHANGED <<live, pages, maker, call, strayed, turns>>
        /\ post' = [post EXCEPT ![s] = NoCall]
        /\ \/ UNCHANGED <<shown, remembered, proxy>>
           \/ /\ shown' = [shown EXCEPT ![s] = t]
              /\ remembered' = [remembered EXCEPT ![s] = t]
              /\ proxy' = [proxy EXCEPT ![s].target =
                              IF proxy[s].on THEN t ELSE NoPage]
    BY <1>4 DEF Registers
  <2> HIDE DEF t
  <2>3. TabTypeOK'
    <3>1. proxy' \in [Locals -> [on : BOOLEAN, target : Pages \cup {NoPage}]]
      <4>1. PICK u \in Pages \cup {NoPage} :
              proxy' \in {proxy, [proxy EXCEPT ![s].target = u]}
        BY <2>1, <2>2
      <4>2. proxy \in [Locals -> Proxies]
        BY <1>t DEF TabTypeOK, Proxies
      <4>3. [proxy[s] EXCEPT !.target = u] \in Proxies
        BY <4>2, ProxyTyped
      <4>4. [proxy EXCEPT ![s].target = u] \in [Locals -> Proxies]
        BY <4>2, <4>3
      <4> QED
        BY <4>1, <4>2, <4>4 DEF Proxies
    <3>2. /\ remembered' \in [Locals -> Pages \cup {NoPage}]
          /\ shown' \in [Locals -> Pages \cup {NoPage}]
      <4>1. /\ remembered \in [Locals -> Pages \cup {NoPage}]
            /\ shown \in [Locals -> Pages \cup {NoPage}]
        BY <1>t DEF TabTypeOK
      <4>2. /\ remembered' \in {remembered, [remembered EXCEPT ![s] = t]}
            /\ shown' \in {shown, [shown EXCEPT ![s] = t]}
        BY <2>2
      <4> QED
        BY <2>1, <4>1, <4>2
    <3>3. post' \in [Locals -> Calls]
      BY <1>t, NoCallTyped, <2>2 DEF TabTypeOK
    <3> QED
      BY <1>t, <2>2, <3>1, <3>2, <3>3 DEF TabTypeOK
  <2>4. \A x \in Locals : Names(x)' \subseteq Names(x)
    <3>1. \A x \in Locals :
            /\ proxy'[x].target \in {proxy[x].target, post[x].new, NoPage}
            /\ remembered'[x] \in {remembered[x], post[x].new}
            /\ shown'[x] \in {shown[x], post[x].new}
      BY <1>t, <2>2 DEF TabTypeOK, t
    <3>2. \A x \in Locals : post'[x].new \in {post[x].new, NoPage}
      BY <1>t, NoCallTyped, <2>2 DEF TabTypeOK
    <3> QED
      BY <2>2, <3>1, <3>2 DEF Names
  <2>5. StrayInv'
    BY <2>2, <2>4, FewerNames DEF MakersStay
  <2> QED
    BY <2>3, <2>5 DEF TabInv
<1> QED
  BY <1>1, <1>2, <1>3, <1>4

LEMMA UsersKeepTabs ==
  ASSUME TabInv, NEW s \in Locals,
         \/ StopsView(s) \/ DropsSession(s)
         \/ \E p \in Pages :
              \/ CreatesTab(s, p) \/ SwitchesTab(s, p) \/ ClosesOtherTab(s, p)
              \/ AgentOpens(s, p) \/ AgentCloses(s, p)
  PROVE  TabInv'
<1>t. TabTypeOK
  BY DEF TabInv
<1>n. /\ NoCall \in Calls /\ NoCall.old = NoPage /\ NoCall.new = NoPage
      /\ Gone \in [on : BOOLEAN, target : Pages \cup {NoPage}]
      /\ Gone.target = NoPage
  BY DEF Calls, NoCall, Gone
<1>u. Turn => turns' \in 0..MaxTurns
  BY <1>t, TabAssumption DEF Turn, TabTypeOK
<1>1. CASE StopsView(s)
  <2>1. TabTypeOK'
    BY <1>1, <1>t, <1>u DEF StopsView, TabTypeOK
  <2>2. \A x \in Locals : /\ shown'[x] \in {shown[x], NoPage}
                          /\ remembered'[x] \in {remembered[x], NoPage}
    BY <1>1, <1>t DEF StopsView, TabTypeOK
  <2>3. \A x \in Locals : Names(x)' \subseteq Names(x)
    BY <1>1, <2>2 DEF StopsView, Names
  <2>4. StrayInv'
    BY <1>1, <2>3, FewerNames DEF StopsView, MakersStay
  <2> QED
    BY <2>1, <2>4 DEF TabInv
<1>2. CASE DropsSession(s)
  <2>1. TabTypeOK'
    BY <1>2, <1>t, <1>n, <1>u DEF DropsSession, TabTypeOK
  <2>2. \A x \in Locals : /\ shown'[x] \in {shown[x], NoPage}
                          /\ remembered'[x] \in {remembered[x], NoPage}
                          /\ proxy'[x].target \in {proxy[x].target, NoPage}
                          /\ call'[x] \in {call[x], NoCall}
    BY <1>2, <1>t, <1>n DEF DropsSession, TabTypeOK
  <2>3. \A x \in Locals : /\ Names(x)' \subseteq Names(x)
                          /\ call'[x].new \in {call[x].new, NoPage}
    BY <1>2, <1>n, <2>2 DEF DropsSession, Names
  <2>4. StrayInv'
    BY <1>2, <2>3, FewerNames DEF DropsSession, MakersStay
  <2> QED
    BY <2>1, <2>4 DEF TabInv
<1>3. CASE \E p \in Pages : CreatesTab(s, p)
  <2>1. PICK p \in Pages : CreatesTab(s, p)
    BY <1>3
  <2>2. /\ Makes(p, s)
        /\ post' = [post EXCEPT ![s].step = "connect", ![s].new = p]
        /\ UNCHANGED <<live, proxy, remembered, shown, call, strayed, turns>>
    BY <2>1 DEF CreatesTab
  <2>3. post' \in [Locals -> Calls]
        /\ post'[s].new = p /\ \A x \in Locals \ {s} : post'[x] = post[x]
    <3> DEFINE r == [post[s] EXCEPT !.step = "connect", !.new = p]
    <3>1. post' = [post EXCEPT ![s] = r]
      BY <1>t, <2>2 DEF TabTypeOK
    <3>2. r \in Calls /\ r.old = post[s].old /\ r.new = p
      BY <1>t, CallTakesTab DEF TabTypeOK
    <3> HIDE DEF r
    <3> QED
      BY <1>t, <3>1, <3>2 DEF TabTypeOK
  <2>4. TabTypeOK'
    BY <1>t, <2>2, <2>3, MakingKeepsTypes DEF TabTypeOK
  <2>5. /\ \A x \in Locals \ {s} : Names(x)' = Names(x)
        /\ Names(s)' \subseteq Names(s) \cup {p}
    BY <2>2, <2>3 DEF Names
  <2>6. StrayInv'
    BY <2>2, <2>5, NewNames
  <2> QED
    BY <2>4, <2>6 DEF TabInv
<1>4. CASE \E t \in Pages : SwitchesTab(s, t)
  <2>1. PICK t \in Pages : SwitchesTab(s, t)
    BY <1>4
  <2>2. /\ shown' = [shown EXCEPT ![s] = t]
        /\ remembered' = [remembered EXCEPT ![s] = t]
        /\ proxy' = [proxy EXCEPT ![s].target = IF proxy[s].on THEN t
                                                ELSE NoPage]
        /\ t \in pages /\ pages' \subseteq pages
        /\ strayed' = IF maker[t] = s THEN strayed ELSE strayed \cup {s}
        /\ UNCHANGED <<live, maker, call, post>> /\ turns' \in 0..MaxTurns
    BY <2>1, <1>u DEF SwitchesTab
  <2>3. TabTypeOK'
    <3>1. proxy' \in [Locals -> [on : BOOLEAN, target : Pages \cup {NoPage}]]
      <4>1. PICK u \in Pages \cup {NoPage} :
              proxy' = [proxy EXCEPT ![s].target = u]
        BY <2>2
      <4>2. proxy \in [Locals -> Proxies]
        BY <1>t DEF TabTypeOK, Proxies
      <4>3. [proxy[s] EXCEPT !.target = u] \in Proxies
        BY <4>2, ProxyTyped
      <4> QED
        BY <4>1, <4>2, <4>3 DEF Proxies
    <3>2. /\ remembered' \in [Locals -> Pages \cup {NoPage}]
          /\ shown' \in [Locals -> Pages \cup {NoPage}]
          /\ pages' \subseteq Pages /\ strayed' \subseteq Locals
      BY <1>t, <2>2 DEF TabTypeOK
    <3> QED
      BY <1>t, <2>2, <3>1, <3>2 DEF TabTypeOK
  <2>4. /\ \A x \in Locals \ {s} : /\ proxy'[x] = proxy[x]
                                   /\ remembered'[x] = remembered[x]
                                   /\ shown'[x] = shown[x]
        /\ proxy'[s].target \in {t, NoPage} /\ remembered'[s] = t
        /\ shown'[s] = t
    BY <1>t, <2>2 DEF TabTypeOK
  <2>5. /\ \A x \in Locals \ {s} : Names(x)' = Names(x)
        /\ Names(s)' \subseteq Names(s) \cup {t}
    BY <2>2, <2>4 DEF Names
  <2>6. StrayInv'
    BY <2>2, <2>5, TakenNames
  <2> QED
    BY <2>3, <2>6 DEF TabInv
<1>5. CASE \E p \in Pages : AgentOpens(s, p)
  <2>1. PICK p \in Pages : AgentOpens(s, p)
    BY <1>5
  <2>2. /\ Makes(p, s) /\ Turn
        /\ UNCHANGED <<live, proxy, remembered, shown, call, post, strayed>>
    BY <2>1 DEF AgentOpens
  <2>3. TabTypeOK'
    BY <1>t, <1>u, <2>2, MakingKeepsTypes DEF TabTypeOK
  <2>4. \A x \in Locals : Names(x)' = Names(x)
    BY <2>2 DEF Names
  <2>5. StrayInv'
    BY <2>2, <2>4, NewNames
  <2> QED
    BY <2>3, <2>5 DEF TabInv
<1>6. CASE \E t \in Pages : AgentCloses(s, t) \/ ClosesOtherTab(s, t)
  <2>1. TabTypeOK'
    BY <1>6, <1>t, <1>u DEF AgentCloses, ClosesOtherTab, TabTypeOK
  <2>2. /\ UNCHANGED <<maker, proxy, remembered, shown, call, post, strayed>>
        /\ pages' \subseteq pages
    BY <1>6 DEF AgentCloses, ClosesOtherTab
  <2>3. \A x \in Locals : Names(x)' = Names(x)
    BY <2>2 DEF Names
  <2>4. StrayInv'
    BY <2>2, <2>3, FewerNames DEF MakersStay
  <2> QED
    BY <2>1, <2>4 DEF TabInv
<1> QED
  BY <1>1, <1>2, <1>3, <1>4, <1>5, <1>6

LEMMA ChromeKeepsTabs ==
  ASSUME TabInv, ChromeExits \/ ServerRestarts \/ UNCHANGED tabVars
  PROVE  TabInv'
<1>t. TabTypeOK
  BY DEF TabInv
<1>n. /\ NoCall \in Calls /\ NoCall.old = NoPage /\ NoCall.new = NoPage
      /\ Gone \in [on : BOOLEAN, target : Pages \cup {NoPage}]
      /\ Gone.target = NoPage
  BY DEF Calls, NoCall, Gone
<1>u. Turn => turns' \in 0..MaxTurns
  BY <1>t, TabAssumption DEF Turn, TabTypeOK
<1>1. CASE ChromeExits \/ UNCHANGED tabVars
  <2>1. TabTypeOK'
    BY <1>1, <1>t, <1>u DEF ChromeExits, tabVars, TabTypeOK
  <2>2. /\ UNCHANGED <<maker, proxy, remembered, shown, call, post, strayed>>
        /\ pages' \subseteq pages
    BY <1>1 DEF ChromeExits, tabVars
  <2>3. \A x \in Locals : Names(x)' = Names(x)
    BY <2>2 DEF Names
  <2>4. StrayInv'
    BY <2>2, <2>3, FewerNames DEF MakersStay
  <2> QED
    BY <2>1, <2>4 DEF TabInv
<1>2. CASE ServerRestarts
  <2>1. TabTypeOK'
    BY <1>2, <1>t, <1>n, <1>u DEF ServerRestarts, TabTypeOK
  <2>2. \A x \in Locals : Names(x)' = {} /\ call'[x].new = NoPage
    BY <1>2, <1>n DEF ServerRestarts, Names
  <2>3. UNCHANGED <<pages, maker>>
    BY <1>2 DEF ServerRestarts
  <2>4. StrayInv'
    BY <2>2, <2>3 DEF TabInv, StrayInv, NamedWereMade, CallsMakeOwn,
                      LoyalNameOwn, LoyalAreApart, Loyal
  <2> QED
    BY <2>1, <2>4 DEF TabInv
<1> QED
  BY <1>1, <1>2

LEMMA TabStep == TabInv /\ [TabNext]_tabVars => TabInv'
<1> SUFFICES ASSUME TabInv, [TabNext]_tabVars PROVE TabInv'
  OBVIOUS
<1>1. CASE \E s \in Locals :
             \/ ProxyMisses(s) \/ ProxyMakesNothing(s) \/ ProxySets(s)
             \/ \E p \in Pages : ProxyMakes(s, p)
  BY <1>1, ProxyKeepsTabs
<1>2. CASE \E s \in Locals :
             PostStarts(s) \/ TriesProxyTab(s) \/ TriesRemembered(s)
             \/ NoChrome(s) \/ Registers(s)
  BY <1>2, PostKeepsTabs
<1>3. CASE \E s \in Locals :
             \/ StopsView(s) \/ DropsSession(s)
             \/ \E p \in Pages :
                  \/ CreatesTab(s, p) \/ SwitchesTab(s, p)
                  \/ ClosesOtherTab(s, p)
                  \/ AgentOpens(s, p) \/ AgentCloses(s, p)
  BY <1>3, UsersKeepTabs
<1>4. CASE ChromeExits \/ ServerRestarts \/ UNCHANGED tabVars
  BY <1>4, ChromeKeepsTabs
<1> QED
  BY <1>1, <1>2, <1>3, <1>4 DEF TabNext

-----------------------------------------------------------------------------
\* Every variable of the proxies, views and remembered tabs has its type.
THEOREM TabTypesCorrect == TabSpec => []TabTypeOK
<1>1. TabInv => TabTypeOK
  BY DEF TabInv
<1> QED
  BY <1>1, TabStart, TabStep, PTL DEF TabSpec

\* Two sessions have a tab in common only after the view of one of them took
\* a tab that was not made for it: an assignment that follows an await, be it
\* of a session that shares its tabs with others, makes no other two share.
THEOREM LoyalSessionsStaySeparate ==
  TabSpec => []StrayingSharesOnlyOwnTabs
<1>1. TabInv => StrayingSharesOnlyOwnTabs
  BY DEF TabInv, StrayInv, LoyalAreApart, Loyal, Names, TabsOf,
         StrayingSharesOnlyOwnTabs
<1> QED
  BY <1>1, TabStart, TabStep, PTL DEF TabSpec

-----------------------------------------------------------------------------
(* The forwards of the server.                                             *)

LEMMA LeastByOrder ==
  ASSUME NEW Less, IsWellFoundedOn(Less, Nat),
         \A x, y \in Nat : <<y, x>> \in Less <=> y < x,
         NEW T \in SUBSET Nat, T # {}
  PROVE  \E x \in T : \A y \in T : x <= y
<1>1. PICK x \in T : \A y \in T : ~ (<<y, x>> \in Less)
  BY WFMin
<1>2. ASSUME NEW y \in T PROVE x <= y
  <2>1. x \in Nat /\ y \in Nat
    OBVIOUS
  <2>2. ~ (y < x)
    BY <1>1, <2>1
  <2> QED
    BY <2>1, <2>2
<1> QED
  BY <1>2

LEMMA LeastNumber ==
  ASSUME NEW T \in SUBSET Nat, T # {}
  PROVE  \E x \in T : \A y \in T : x <= y
<1>1. \A x, y \in Nat : <<y, x>> \in OpToRel(<, Nat) <=> y < x
  BY DEF OpToRel
<1> QED
  BY <1>1, NatLessThanWellFounded, LeastByOrder, Zenon

\* Max and Min are members of sets of processes and ports.
LEMMA MaxOfProcesses ==
  ASSUME NEW S \in SUBSET Ssh, S # {}
  PROVE  Max(S) \in S
<1>1. PICK max \in Ssh : \A p \in Ssh : p <= max
  BY SshAssumption
<1> DEFINE T == {max - p : p \in S}
<1>2. T \in SUBSET Nat /\ T # {}
  <2>1. \A p \in S : p \in Nat /\ p <= max
    BY <1>1, SshAssumption
  <2>2. max \in Nat
    BY SshAssumption
  <2>3. \A p \in S : max - p \in Nat
    BY <2>1, <2>2
  <2> QED
    BY <2>3
<1>3. PICK n \in T : \A m \in T : n <= m
  BY <1>2, LeastNumber
<1>4. PICK p \in S : n = max - p
  BY <1>3
<1>5. ASSUME NEW q \in S PROVE p >= q
  <2>1. max - p <= max - q
    BY <1>3, <1>4
  <2> QED
    BY <2>1, <1>1, SshAssumption
<1> QED
  BY <1>4, <1>5 DEF Max

LEMMA MinOfPorts ==
  ASSUME NEW S \in SUBSET Ports, S # {}
  PROVE  Min(S) \in S
<1>1. S \in SUBSET Nat
  BY PortsAssumption
<1>2. \E x \in S : \A y \in S : x <= y
  BY <1>1, LeastNumber
<1> QED
  BY <1>2 DEF Min

LEMMA PortForPorts ==
  ASSUME NEW r \in Services
  PROVE  PortFor(r) \subseteq Ports
<1> DEFINE free == IF r \notin Reserved /\ On(r) = {} THEN {r}
                   ELSE FreeFrom(r + 1)
<1>1. free \in SUBSET Ports
  BY PortsAssumption DEF FreeFrom
<1>2. PortFor(r) = IF free = {} THEN {} ELSE {Min(free)}
  BY DEF PortFor
<1> HIDE DEF free
<1> QED
  BY <1>1, <1>2, MinOfPorts

LEMMA CachesTyped ==
  ASSUME FwdTypeOK
  PROVE  /\ Scan \in [Ports -> Entries \cup {Nothing}]
         /\ Discovered \in [Ports -> Entries \cup {Nothing}]
         /\ NoCache \in [Ports -> Entries \cup {Nothing}]
<1>1. ASSUME NEW l \in Ports, On(l) # {}
      PROVE  [pid |-> Max(On(l)), host |-> ssh[Max(On(l))].host, local |-> l,
              remote |-> ssh[Max(On(l))].remote] \in Entries
  <2>1. Max(On(l)) \in On(l) /\ On(l) \subseteq Ssh
    BY <1>1, MaxOfProcesses DEF On, Live
  <2>2. ssh[Max(On(l))] \in Forwards
    BY <2>1 DEF On, Live, FwdTypeOK
  <2> QED
    BY <2>1, <2>2 DEF Entries, Forwards
<1>2. Scan \in [Ports -> Entries \cup {Nothing}]
  BY <1>1 DEF Scan
<1> QED
  BY <1>2 DEF Discovered, NoCache, FwdTypeOK

\* No two processes share a local port, and the cache, unless it is empty,
\* knows of every process.
OwnPorts == \A p, q \in Live : ssh[p].local = ssh[q].local => p = q

Known(cache) ==
  \A p \in Live : cache[ssh[p].local].pid = p
                  /\ cache[ssh[p].local].host = ssh[p].host

FwdInv ==
  /\ FwdTypeOK
  /\ ~clashed => OwnPorts /\ (found = NoCache \/ Known(found))

LEMMA ScanKnows ==
  ASSUME FwdTypeOK, OwnPorts
  PROVE  Known(Scan)
<1> SUFFICES ASSUME NEW p \in Live
             PROVE  /\ Scan[ssh[p].local].pid = p
                    /\ Scan[ssh[p].local].host = ssh[p].host
  BY DEF Known
<1> DEFINE l == ssh[p].local
<1>1. l \in Ports /\ On(l) = {p} /\ p \in Ssh
  BY DEF FwdTypeOK, Forwards, Live, On, OwnPorts
<1>2. Max(On(l)) = p
  BY <1>1, MaxOfProcesses
<1> QED
  BY <1>1, <1>2 DEF Scan

LEMMA DiscoveredKnows ==
  ASSUME FwdInv, ~clashed
  PROVE  Known(Discovered)
BY ScanKnows DEF FwdInv, Discovered

\* Looking processes up.
LEMMA LooksKeep ==
  ASSUME FwdInv, UNCHANGED <<ssh, clashed>>,
         found' \in {found, Discovered, Scan, NoCache},
         ask' \in [Askers -> Forwards \cup {NoForward}],
         events' \in 0..MaxEvents
  PROVE  FwdInv'
<1>1. FwdTypeOK'
  BY CachesTyped DEF FwdInv, FwdTypeOK
<1>2. Live' = Live
  BY DEF Live
<1>3. ~clashed => OwnPorts'
  BY <1>2 DEF FwdInv, OwnPorts
<1>4. ASSUME ~clashed PROVE found' = NoCache \/ Known(found)'
  <2>1. Known(Discovered) /\ Known(Scan)
    BY <1>4, DiscoveredKnows, ScanKnows DEF FwdInv
  <2>2. \A cache : (found' = cache /\ Known(cache)) => Known(found)'
    BY <1>2 DEF Known
  <2> QED
    BY <1>4, <2>1, <2>2 DEF FwdInv
<1>5. NoCache' = NoCache
  BY DEF NoCache
<1> QED
  BY <1>1, <1>3, <1>4, <1>5 DEF FwdInv

\* Processes end, whatever is done with the cache.
LEMMA EndsKeep ==
  ASSUME FwdInv, UNCHANGED clashed,
         ssh' \in [Ssh -> Forwards \cup {NoForward}],
         \A p \in Ssh : ssh'[p] \in {ssh[p], NoForward},
         found' \in {found, Discovered, NoCache},
         ask' \in [Askers -> Forwards \cup {NoForward}],
         events' \in 0..MaxEvents
  PROVE  FwdInv'
<1>1. FwdTypeOK'
  BY CachesTyped DEF FwdInv, FwdTypeOK
<1>2. \A p \in Live' : p \in Live /\ ssh'[p] = ssh[p]
  BY DEF Live, NoForward
<1>3. ~clashed => OwnPorts'
  BY <1>2 DEF FwdInv, OwnPorts
<1>4. ASSUME ~clashed PROVE found' = NoCache \/ Known(found)'
  <2>1. Known(Discovered)
    BY <1>4, DiscoveredKnows
  <2>2. \A cache : (found' = cache /\ Known(cache)) => Known(found)'
    BY <1>2 DEF Known
  <2> QED
    BY <1>4, <2>1, <2>2 DEF FwdInv
<1>5. NoCache' = NoCache
  BY DEF NoCache
<1> QED
  BY <1>1, <1>3, <1>4, <1>5 DEF FwdInv

\* Closing a port ends the processes on it that lead to the host.
LEMMA ClosingEnds ==
  ASSUME FwdInv, NEW l, NEW h, Closes(l, h)
  PROVE  /\ ssh' \in [Ssh -> Forwards \cup {NoForward}]
         /\ \A p \in Ssh : ssh'[p] \in {ssh[p], NoForward}
         /\ found' \in {Discovered, NoCache}
         /\ ~clashed => \A p \in Live : /\ ssh[p].local = l
                                        /\ ssh[p].host = h
                                        => ssh'[p] = NoForward
<1> DEFINE e == Discovered[l]
<1>1. \/ e.host = h /\ ssh' = [ssh EXCEPT ![e.pid] = NoForward]
         /\ found' = NoCache
      \/ e.host # h /\ ssh' = ssh /\ found' = Discovered
  BY DEF Closes, Discovers, Invalidates
<1>2. ~clashed => \A p \in Live : ssh[p].local = l
                                  => e.pid = p /\ e.host = ssh[p].host
  BY DiscoveredKnows DEF Known
<1>3. ssh \in [Ssh -> Forwards \cup {NoForward}] /\ Live \subseteq Ssh
  BY DEF FwdInv, FwdTypeOK, Live
<1> HIDE DEF e
<1> QED
  BY <1>1, <1>2, <1>3

LEMMA SpawningKeeps ==
  ASSUME FwdInv, NEW p \in Ssh, NEW forward \in Forwards, Spawns(p, forward),
         ask' \in [Askers -> Forwards \cup {NoForward}],
         events' \in 0..MaxEvents
  PROVE  FwdInv'
<1>1. /\ ssh' = [ssh EXCEPT ![p] = forward] /\ found' = NoCache
      /\ clashed' = (clashed \/ On(forward.local) # {})
  BY DEF Spawns, Invalidates
<1>2. FwdTypeOK'
  BY <1>1, CachesTyped DEF FwdInv, FwdTypeOK
<1>3. ASSUME ~clashed' PROVE OwnPorts'
  <2>1. ~clashed /\ \A q \in Live : ssh[q].local # forward.local
    BY <1>1, <1>3 DEF On
  <2>2. \A q \in Live' : ssh'[q] = IF q = p THEN forward ELSE ssh[q]
    BY <1>1 DEF Live, FwdInv, FwdTypeOK
  <2>3. \A q \in Live' : q = p \/ q \in Live
    BY <2>2 DEF Live
  <2> QED
    BY <2>1, <2>2, <2>3 DEF FwdInv, OwnPorts
<1>4. NoCache' = NoCache
  BY DEF NoCache
<1> QED
  BY <1>1, <1>2, <1>3, <1>4 DEF FwdInv

\* What the routes of tunnels do: processes end, or one is created for a
\* service that was asked for.
RoutesDo ==
  \A p \in Ssh : \/ ssh'[p] \in {ssh[p], NoForward}
                 \/ ssh'[p] \in Forwards /\ ssh'[p].remote \in Asked

AskedFor == \A a \in Askers : ask[a] # NoForward => ask[a].remote \in Asked

LEMMA RoutesKeep ==
  ASSUME FwdInv, AskedFor, FwdRoutes
  PROVE  FwdInv' /\ AskedFor' /\ RoutesDo /\ (clashed => clashed')
<1> USE DEF AskedFor
<1>t. /\ ask \in [Askers -> Forwards \cup {NoForward}]
      /\ ssh \in [Ssh -> Forwards \cup {NoForward}] /\ events \in 0..MaxEvents
  BY DEF FwdInv, FwdTypeOK
<1>e. Event => events' \in 0..MaxEvents
  BY <1>t, EventsAssumption DEF Event
<1>1. ASSUME NEW a \in Askers, NEW h \in Hosts, NEW r \in Asked,
             AskReuses(a, h, r)
      PROVE  FwdInv' /\ AskedFor' /\ RoutesDo /\ (clashed => clashed')
  BY <1>1, <1>e, <1>t, LooksKeep DEF AskReuses, Discovers, RoutesDo
<1>2. ASSUME NEW a \in Askers, NEW h \in Hosts, NEW r \in Asked,
             AskChooses(a, h, r)
      PROVE  FwdInv' /\ AskedFor' /\ RoutesDo /\ (clashed => clashed')
  <2>1. PICK l \in PortFor(r) :
          ask' = [ask EXCEPT ![a] = [host |-> h, local |-> l, remote |-> r]]
    BY <1>2 DEF AskChooses
  <2>2. [host |-> h, local |-> l, remote |-> r] \in Forwards
    BY PortForPorts, PortsAssumption DEF Forwards
  <2>3. ask' \in [Askers -> Forwards \cup {NoForward}] /\ AskedFor'
    BY <2>1, <2>2, <1>t
  <2> QED
    BY <1>2, <1>e, <2>3, LooksKeep DEF AskChooses, Discovers, RoutesDo
<1>3. ASSUME NEW a \in Askers, AskSpawns(a)
      PROVE  FwdInv' /\ AskedFor' /\ RoutesDo /\ (clashed => clashed')
  <2>1. /\ ask' \in [Askers -> Forwards \cup {NoForward}] /\ AskedFor'
        /\ events' \in 0..MaxEvents /\ ask[a] \in Forwards
        /\ ask[a].remote \in Asked
    BY <1>3, <1>t DEF AskSpawns
  <2>2. CASE UNCHANGED <<ssh, found, clashed>>
    BY <2>1, <2>2, LooksKeep DEF RoutesDo
  <2>3. ASSUME NEW p \in Ssh, Spawns(p, ask[a])
        PROVE  FwdInv' /\ RoutesDo /\ (clashed => clashed')
    BY <2>1, <2>3, <1>t, SpawningKeeps DEF RoutesDo, Spawns
  <2> QED
    BY <1>3, <2>1, <2>2, <2>3 DEF AskSpawns
<1>4. ASSUME NEW l \in Ports, NEW h \in Hosts, AskCloses(l, h)
      PROVE  FwdInv' /\ AskedFor' /\ RoutesDo /\ (clashed => clashed')
  <2>1. Closes(l, h) /\ UNCHANGED <<ask, clashed>> /\ events' \in 0..MaxEvents
    BY <1>4, <1>e DEF AskCloses
  <2> QED
    BY <2>1, <1>t, ClosingEnds, EndsKeep DEF RoutesDo
<1>5. CASE AskLists
  BY <1>5, <1>e, <1>t, LooksKeep DEF AskLists, Discovers, RoutesDo
<1>6. ASSUME NEW p \in Ssh, ForwardDies(p)
      PROVE  FwdInv' /\ AskedFor' /\ RoutesDo /\ (clashed => clashed')
  BY <1>6, <1>e, <1>t, EndsKeep DEF ForwardDies, RoutesDo
<1>7. CASE CacheExpires
  BY <1>7, <1>t, LooksKeep DEF CacheExpires, Invalidates, RoutesDo
<1> QED
  BY <1>1, <1>2, <1>3, <1>4, <1>5, <1>6, <1>7 DEF FwdRoutes

-----------------------------------------------------------------------------
(* The views.                                                              *)

ViewRecords == [port : Ports \cup {0}, target : Tabs \cup {Nobody},
                ws : Links \cup {Nobody}, readers : SUBSET Clients]

LinkRecords == [tab : Tabs \cup {Nobody}, pid : Ssh \cup {0}]

Steps == {"free", "shut", "start", "discover", "browser", "connect", "setup"}

ReqRecords == [step : Steps, of : Viewed \cup {Nobody}, port : Ports \cup {0},
               tab : Tabs \cup {Nobody}, ws : Links \cup {Nobody},
               again : BOOLEAN]

ClientSteps ==
  {"gone", "reopen", "open", "enter", "run", "switch", "connect", "close"}

ClientRecords == [step : ClientSteps, of : Views \cup {Nobody},
                  reads : Links \cup {Nobody}, to : Tabs \cup {Nobody},
                  drop : BOOLEAN]

ViewTyped ==
  /\ rows \subseteq Viewed /\ late \subseteq Viewed \ rows
  /\ dropped \subseteq Ports \cup {0}
  /\ tabs \subseteq Tabs
  /\ registry \in [Viewed -> Views \cup {Nobody}]
  /\ view \in [Views -> ViewRecords]
  /\ link \in [Links -> LinkRecords]
  /\ req \in [Posts -> ReqRecords]
  /\ client \in [Clients -> ClientRecords]

\* A client that is there has a view.
ClientsKnow ==
  \A k \in Clients : client[k].step # "gone" => client[k].of \in Views

\* So has a request a session, while it is answered.
RequestsKnow ==
  \A q \in Posts : req[q].step # "free" => req[q].of \in Viewed

\* A view is that of a session that is there, or was not any more when the
\* view was registered.
Registered ==
  \A s \in Viewed : registry[s] # Nobody => s \in rows \cup late

ViewBasis == ViewTyped /\ ClientsKnow /\ RequestsKnow /\ Registered

LEMMA BasisStart == FwdInit /\ ViewInit => FwdInv /\ AskedFor /\ ViewBasis
<1> SUFFICES ASSUME FwdInit, ViewInit PROVE FwdInv /\ AskedFor /\ ViewBasis
  OBVIOUS
<1>1. FwdTypeOK
  <2>1. /\ NoCache \in [Ports -> Entries \cup {Nothing}] /\ found = NoCache
        /\ clashed \in BOOLEAN
    BY DEF FwdInit, NoCache
  <2>2. /\ ssh \in [Ssh -> Forwards \cup {NoForward}]
        /\ ask \in [Askers -> Forwards \cup {NoForward}]
    BY DEF FwdInit
  <2>3. events \in 0..MaxEvents
    BY EventsAssumption DEF FwdInit
  <2> QED
    BY <2>1, <2>2, <2>3 DEF FwdTypeOK
<1>2. OwnPorts /\ found = NoCache
  BY DEF FwdInit, OwnPorts, Live
<1>3. AskedFor
  BY DEF FwdInit, AskedFor
<1>4. ViewBasis
  BY DEF ViewInit, ViewBasis, ViewTyped, ClientsKnow, RequestsKnow,
         Registered, NoView, NoReq, NoClient, Closed, ViewRecords,
         LinkRecords, ReqRecords, ClientRecords, Steps, ClientSteps
<1> QED
  BY <1>1, <1>2, <1>3, <1>4 DEF FwdInv

\* A socket is shut, or opened to a tab.
LEMMA ShutsTyped ==
  ASSUME link \in [Links -> LinkRecords], NEW w, Shuts(w)
  PROVE  link' \in [Links -> LinkRecords]
BY DEF Shuts, Closed, LinkRecords

LEMMA ConnectsTyped ==
  ASSUME ViewTyped, NEW w, NEW l, NEW t, Connects(w, l, t)
  PROVE  link' \in [Links -> LinkRecords]
<1>1. PICK p \in Through(l) :
        link' = [x \in Links |-> IF x = w THEN [tab |-> t, pid |-> p]
                                 ELSE IF Open(x) THEN link[x] ELSE Closed]
  BY DEF Connects
<1>2. p \in Ssh /\ t \in Tabs
  BY <1>1 DEF Connects, Through, On, Live, ViewTyped
<1> QED
  BY <1>1, <1>2 DEF ViewTyped, Closed, LinkRecords

\* A request goes on as x.
LEMMA RequestTyped ==
  ASSUME ViewBasis, NEW q \in Posts, NEW x \in ReqRecords,
         x.step = "free" \/ x.of \in Viewed,
         req' = [req EXCEPT ![q] = x]
  PROVE  req' \in [Posts -> ReqRecords] /\ RequestsKnow'
BY DEF ViewBasis, ViewTyped, RequestsKnow

LEMMA FreeTyped == NoReq \in ReqRecords /\ NoReq.step = "free"
                   /\ NoReq.port = 0
BY DEF NoReq, ReqRecords, Steps

\* What popping leaves to a request.
LEMMA PoppedRequest ==
  ASSUME ViewBasis, NEW q \in Posts, NEW s \in Viewed,
         NEW again \in BOOLEAN, Pops(q, s, again)
  PROVE  /\ registry[s] \in Views
         /\ \E x \in ReqRecords :
              /\ x.step = "shut" /\ x.of = s /\ x.port = view[registry[s]].port
              /\ req' = [req EXCEPT ![q] = x]
<1>1. registry[s] \in Views /\ view[registry[s]] \in ViewRecords
  BY DEF Pops, ViewBasis, ViewTyped
<1> DEFINE y == [NoReq EXCEPT !.step = "shut", !.of = s, !.again = again,
                              !.port = view[registry[s]].port,
                              !.ws = view[registry[s]].ws]
<1>2. /\ y \in ReqRecords /\ y.step = "shut" /\ y.of = s
      /\ y.port = view[registry[s]].port
  BY <1>1 DEF NoReq, ReqRecords, Steps, ViewRecords
<1>3. req' = [req EXCEPT ![q] = y]
  BY DEF Pops
<1> HIDE DEF y
<1> QED
  BY <1>1, <1>2, <1>3

LEMMA RequestsKeepBasis ==
  ASSUME ViewBasis, NEW q \in Posts, RequestStep(q)
  PROVE  ViewBasis'
<1>r. req[q] \in ReqRecords
  BY DEF ViewBasis, ViewTyped
<1>o. req[q].step # "free" => req[q].of \in Viewed
  BY DEF ViewBasis, RequestsKnow
<1>k. ASSUME UNCHANGED <<rows, registry, late, client>>,
             tabs' \subseteq Tabs, link' \in [Links -> LinkRecords],
             view' \in [Views -> ViewRecords],
             dropped' \subseteq Ports \cup {0},
             req' \in [Posts -> ReqRecords] /\ RequestsKnow'
      PROVE  ViewBasis'
  BY <1>k DEF ViewBasis, ViewTyped, ClientsKnow, Registered
<1>u. /\ tabs \subseteq Tabs /\ link \in [Links -> LinkRecords]
      /\ view \in [Views -> ViewRecords] /\ dropped \subseteq Ports \cup {0}
  BY DEF ViewBasis, ViewTyped
<1>1. ASSUME NEW s \in Viewed, NEW again \in BOOLEAN, Pops(q, s, again)
      PROVE  ViewBasis'
  <2>1. req' \in [Posts -> ReqRecords] /\ RequestsKnow'
    BY <1>1, PoppedRequest, RequestTyped
  <2>2. /\ registry' = [registry EXCEPT ![s] = Nobody]
        /\ UNCHANGED <<rows, tabs, view, link, late, dropped, client>>
    BY <1>1 DEF Pops
  <2> QED
    BY <2>1, <2>2 DEF ViewBasis, ViewTyped, ClientsKnow, Registered
<1>2. CASE ShutsView(q)
  <2>1. link' \in [Links -> LinkRecords]
    BY <1>2, <1>u, ShutsTyped DEF ShutsView
  <2>2. req' \in [Posts -> ReqRecords] /\ RequestsKnow'
    <3> DEFINE y == [NoReq EXCEPT !.step = "start", !.of = req[q].of]
    <3>1. y \in ReqRecords /\ y.of \in Viewed
      BY <1>2, <1>o DEF ShutsView, NoReq, ReqRecords, Steps
    <3>2. req' = [req EXCEPT ![q] = y] \/ req' = [req EXCEPT ![q] = NoReq]
      BY <1>2 DEF ShutsView, Done
    <3> HIDE DEF y
    <3> QED
      BY <3>1, <3>2, FreeTyped, RequestTyped
  <2> QED
    BY <1>2, <2>1, <2>2, <1>k, <1>u DEF ShutsView, KeepsViews
<1>3. ASSUME NEW s \in Viewed, PostBegins(q, s) PROVE ViewBasis'
  <2> DEFINE y == [NoReq EXCEPT !.step = "start", !.of = s]
  <2>1. y \in ReqRecords /\ y.of \in Viewed
    BY DEF NoReq, ReqRecords, Steps
  <2>2. req' = [req EXCEPT ![q] = y]
    BY <1>3 DEF PostBegins
  <2> HIDE DEF y
  <2>3. req' \in [Posts -> ReqRecords] /\ RequestsKnow'
    BY <2>1, <2>2, RequestTyped
  <2> QED
    BY <1>3, <2>3, <1>k, <1>u DEF PostBegins, KeepsViews
<1>4. ASSUME NEW l \in Ports, GetsForward(q, l) PROVE ViewBasis'
  <2> DEFINE y == [req[q] EXCEPT !.step = "discover", !.port = l]
  <2>1. y \in ReqRecords /\ y.of \in Viewed
    BY <1>4, <1>r, <1>o DEF GetsForward, ReqRecords, Steps
  <2>2. req' = [req EXCEPT ![q] = y]
    BY <1>4 DEF GetsForward
  <2> HIDE DEF y
  <2>3. req' \in [Posts -> ReqRecords] /\ RequestsKnow'
    BY <2>1, <2>2, RequestTyped
  <2> QED
    BY <1>4, <2>3, <1>k, <1>u DEF GetsForward
<1>5. CASE NoForwardToHost(q) \/ NoTarget(q)
  <2> DEFINE y == [req[q] EXCEPT !.step = "browser"]
  <2>1. req[q].step # "free" => y \in ReqRecords /\ y.of \in Viewed
    BY <1>r, <1>o DEF ReqRecords, Steps
  <2>2. /\ req[q].step # "free"
        /\ req' = [req EXCEPT ![q] = y] \/ req' = [req EXCEPT ![q] = NoReq]
    BY <1>5 DEF NoForwardToHost, NoTarget, Done, Step
  <2> HIDE DEF y
  <2>3. req' \in [Posts -> ReqRecords] /\ RequestsKnow'
    BY <2>1, <2>2, FreeTyped, RequestTyped
  <2> QED
    BY <1>5, <2>3, <1>k, <1>u DEF NoForwardToHost, NoTarget, KeepsViews
<1>6. ASSUME NEW t \in Tabs, PicksTarget(q, t) PROVE ViewBasis'
  <2> DEFINE y == [req[q] EXCEPT !.step = "connect", !.tab = t]
  <2>1. y \in ReqRecords /\ y.of \in Viewed
    BY <1>6, <1>r, <1>o DEF PicksTarget, ReqRecords, Steps
  <2>2. req' = [req EXCEPT ![q] = y]
    BY <1>6 DEF PicksTarget
  <2> HIDE DEF y
  <2>3. req' \in [Posts -> ReqRecords] /\ RequestsKnow'
    BY <2>1, <2>2, RequestTyped
  <2> QED
    BY <1>6, <2>3, <1>k, <1>u DEF PicksTarget, KeepsViews
<1>7. CASE AutoStarts(q)
  <2> DEFINE y == [NoReq EXCEPT !.step = "start", !.of = req[q].of,
                                !.again = TRUE]
  <2>1. y \in ReqRecords /\ y.of \in Viewed
    BY <1>7, <1>o DEF AutoStarts, NoReq, ReqRecords, Steps
  <2>2. req' = [req EXCEPT ![q] = y] \/ req' = [req EXCEPT ![q] = NoReq]
    BY <1>7 DEF AutoStarts, Done
  <2> HIDE DEF y
  <2>3. req' \in [Posts -> ReqRecords] /\ RequestsKnow'
    BY <2>1, <2>2, FreeTyped, RequestTyped
  <2>4. tabs' \subseteq Tabs
    BY <1>7, <1>u DEF AutoStarts
  <2> QED
    BY <1>7, <2>3, <2>4, <1>k, <1>u DEF AutoStarts
<1>8. ASSUME NEW w \in Links, ConnectsView(q, w) PROVE ViewBasis'
  <2> DEFINE y == [req[q] EXCEPT !.step = "setup", !.ws = w]
  <2>1. y \in ReqRecords /\ y.of \in Viewed
    BY <1>8, <1>r, <1>o DEF ConnectsView, ReqRecords, Steps
  <2>2. req' = [req EXCEPT ![q] = y]
    BY <1>8 DEF ConnectsView
  <2> HIDE DEF y
  <2>3. req' \in [Posts -> ReqRecords] /\ RequestsKnow'
    BY <2>1, <2>2, RequestTyped
  <2>4. link' \in [Links -> LinkRecords]
    BY <1>8, ConnectsTyped DEF ConnectsView, ViewBasis
  <2> QED
    BY <1>8, <2>3, <2>4, <1>k, <1>u DEF ConnectsView, KeepsViews
<1>9. CASE StartFails(q)
  <2>1. link' \in [Links -> LinkRecords]
    BY <1>9, <1>u, ShutsTyped DEF StartFails
  <2>2. req' \in [Posts -> ReqRecords] /\ RequestsKnow'
    BY <1>9, FreeTyped, RequestTyped DEF StartFails, Done
  <2> QED
    BY <1>9, <2>1, <2>2, <1>k, <1>u DEF StartFails, KeepsViews
<1>10. ASSUME NEW v \in Views, RegistersView(q, v) PROVE ViewBasis'
  <2> DEFINE s == req[q].of
  <2>1. s \in Viewed
    BY <1>10, <1>o DEF RegistersView
  <2>2. view' \in [Views -> ViewRecords]
    BY <1>10, <1>r, <1>u
    DEF RegistersView, NoView, ViewRecords, ReqRecords
  <2>3. req' \in [Posts -> ReqRecords] /\ RequestsKnow'
    BY <1>10, FreeTyped, RequestTyped DEF RegistersView, Done
  <2>4. dropped' \subseteq Ports \cup {0}
    BY <1>10, <2>1, <1>u DEF RegistersView, ViewBasis, ViewTyped, ViewRecords
  <2>5. /\ registry' = [registry EXCEPT ![s] = v]
        /\ late' = late \cup ({s} \ rows)
        /\ UNCHANGED <<rows, tabs, link, client>>
    BY <1>10 DEF RegistersView
  <2>6. late' \subseteq Viewed \ rows'
    BY <2>1, <2>5 DEF ViewBasis, ViewTyped
  <2>7. Registered'
    BY <2>1, <2>5 DEF Registered, ViewBasis, ViewTyped
  <2> QED
    BY <2>1, <2>2, <2>3, <2>4, <2>5, <2>6, <2>7
    DEF ViewBasis, ViewTyped, ClientsKnow
<1> QED
  BY <1>1, <1>2, <1>3, <1>4, <1>5, <1>6, <1>7, <1>8, <1>9, <1>10
  DEF RequestStep, PopStale, StopPops

LEMMA DeletesKeepBasis ==
  ASSUME ViewBasis, NEW s \in Viewed, DeletesSession(s)
  PROVE  ViewBasis'
<1>1. /\ registry' = [registry EXCEPT ![s] = Nobody]
      /\ rows' \in {rows, rows \ {s}}
      /\ UNCHANGED <<tabs, view, link, req, late, dropped, client>>
  BY DEF DeletesSession
<1> QED
  BY <1>1 DEF ViewBasis, ViewTyped, ClientsKnow, RequestsKnow, Registered

LEMMA ClientsKeepBasis ==
  ASSUME ViewBasis, NEW k \in Clients, ClientStep(k)
  PROVE  ViewBasis'
<1> USE DEF ViewBasis, ViewTyped, ClientsKnow, RequestsKnow, Registered
<1>c. client[k] \in ClientRecords /\ NoClient \in ClientRecords
  BY DEF NoClient, ClientRecords, ClientSteps
<1>t. ASSUME NEW x \in ClientRecords, x.of \in Views \/ x.step = "gone",
             client' = [client EXCEPT ![k] = x]
      PROVE  client' \in [Clients -> ClientRecords] /\ ClientsKnow'
  BY <1>t
<1>v. ASSUME client[k].step # "gone"
      PROVE  client[k].of \in Views /\ view[client[k].of] \in ViewRecords
  BY <1>v
<1>1. ASSUME NEW s \in Viewed, Attaches(k, s) PROVE ViewBasis'
  <2> DEFINE v == registry[s]
  <2>1. v \in Views /\ view[v] \in ViewRecords
    BY <1>1 DEF Attaches
  <2>2. /\ [NoClient EXCEPT !.step = "enter", !.of = v] \in ClientRecords
        /\ [NoClient EXCEPT !.step = "enter", !.of = v].of = v
        /\ [NoClient EXCEPT !.step = "reopen", !.of = v] \in ClientRecords
        /\ [NoClient EXCEPT !.step = "reopen", !.of = v].of = v
    BY <2>1 DEF NoClient, ClientRecords, ClientSteps
  <2>3. CASE view[v].readers = {}
    <3>1. client' = [client EXCEPT ![k] = [NoClient EXCEPT !.step = "enter",
                                                           !.of = v]]
          /\ view' = view
      BY <1>1, <2>3 DEF Attaches
    <3>2. client' \in [Clients -> ClientRecords] /\ ClientsKnow'
      BY <3>1, <2>1, <2>2, <1>t
    <3> QED
      BY <1>1, <3>1, <3>2 DEF Attaches, ClientKeeps
  <2>4. CASE view[v].readers # {}
    <3>1. /\ client' = [j \in Clients |->
                          IF j = k THEN [NoClient EXCEPT !.step = "reopen",
                                                         !.of = v]
                          ELSE IF j \in view[v].readers /\ client[j].of = v
                          THEN [client[j] EXCEPT !.reads = Nobody]
                          ELSE client[j]]
          /\ view' = [view EXCEPT ![v].readers = {}]
      BY <1>1, <2>4 DEF Attaches
    <3>2. \A j \in Clients :
            /\ [client[j] EXCEPT !.reads = Nobody] \in ClientRecords
            /\ [client[j] EXCEPT !.reads = Nobody].of = client[j].of
            /\ [client[j] EXCEPT !.reads = Nobody].step = client[j].step
      BY DEF ClientRecords
    <3>3. client' \in [Clients -> ClientRecords] /\ ClientsKnow'
      BY <3>1, <3>2, <2>1, <2>2
    <3>4. view' \in [Views -> ViewRecords]
      BY <3>1, <2>1 DEF ViewRecords
    <3> QED
      BY <1>1, <3>3, <3>4 DEF Attaches, ClientKeeps
  <2> QED
    BY <2>3, <2>4
<1>2. CASE ReopenShuts(k) \/ SwitchShuts(k)
  <2>1. link' \in [Links -> LinkRecords]
    BY <1>2, ShutsTyped DEF ReopenShuts, SwitchShuts
  <2>2. \E step \in {"open", "connect"} :
          client' = [client EXCEPT ![k] = [client[k] EXCEPT !.step = step]]
    BY <1>2 DEF ReopenShuts, SwitchShuts, Client
  <2>3. /\ [client[k] EXCEPT !.step = "open"] \in ClientRecords
        /\ [client[k] EXCEPT !.step = "connect"] \in ClientRecords
        /\ [client[k] EXCEPT !.step = "open"].of = client[k].of
        /\ [client[k] EXCEPT !.step = "connect"].of = client[k].of
    BY <1>c DEF ClientRecords, ClientSteps
  <2>4. client[k].of \in Views
    BY <1>2, <1>v DEF ReopenShuts, SwitchShuts
  <2>5. client' \in [Clients -> ClientRecords] /\ ClientsKnow'
    BY <2>2, <2>3, <2>4, <1>t
  <2> QED
    BY <1>2, <2>1, <2>5 DEF ReopenShuts, SwitchShuts, ClientKeeps
<1>3. ASSUME NEW w \in Links, Reopens(k, w) \/ SwitchConnects(k, w)
      PROVE  ViewBasis'
  <2>1. link' \in [Links -> LinkRecords] /\ client[k].step # "gone"
    BY <1>3, ConnectsTyped DEF Reopens, SwitchConnects
  <2>2. client[k].of \in Views /\ view[client[k].of] \in ViewRecords
    BY <2>1, <1>v
  <2>3. CASE Reopens(k, w)
    <3>1. [client[k] EXCEPT !.step = "enter"] \in ClientRecords
          /\ [client[k] EXCEPT !.step = "enter"].of = client[k].of
      BY <1>c DEF ClientRecords, ClientSteps
    <3>2. client' \in [Clients -> ClientRecords] /\ ClientsKnow'
      BY <2>3, <3>1, <2>2, <1>t DEF Reopens, Client
    <3>3. view' \in [Views -> ViewRecords]
      BY <2>3, <2>2 DEF Reopens, ViewRecords
    <3> QED
      BY <2>1, <2>3, <3>2, <3>3 DEF Reopens, ClientKeeps
  <2>4. CASE SwitchConnects(k, w)
    <3> DEFINE x == [client[k] EXCEPT !.step = "close",
                                      !.to = view[client[k].of].target]
    <3>1. x \in ClientRecords /\ x.of = client[k].of
      BY <1>c, <2>2 DEF ClientRecords, ClientSteps, ViewRecords
    <3>2. client' = [client EXCEPT ![k] = x]
      BY <2>4 DEF SwitchConnects
    <3> HIDE DEF x
    <3>3. client' \in [Clients -> ClientRecords] /\ ClientsKnow'
      BY <3>1, <3>2, <2>2, <1>t
    <3>4. client[k].to \in Tabs
      BY <2>4 DEF SwitchConnects, Connects
    <3>5. view' \in [Views -> ViewRecords]
      BY <2>4, <2>2, <3>4 DEF SwitchConnects, ViewRecords
    <3> QED
      BY <2>1, <2>4, <3>3, <3>5 DEF SwitchConnects, ClientKeeps
  <2> QED
    BY <1>3, <2>3, <2>4
<1>4. CASE Streams(k)
  <2> DEFINE x == [NoClient EXCEPT !.step = "run", !.of = client[k].of,
                                   !.reads = view[client[k].of].ws]
  <2>1. client[k].of \in Views /\ view[client[k].of] \in ViewRecords
    BY <1>4, <1>v DEF Streams
  <2>2. x \in ClientRecords /\ x.of = client[k].of
    BY <2>1 DEF NoClient, ClientRecords, ClientSteps, ViewRecords
  <2>3. client' = [client EXCEPT ![k] = x]
    BY <1>4 DEF Streams
  <2> HIDE DEF x
  <2>4. client' \in [Clients -> ClientRecords] /\ ClientsKnow'
    BY <2>1, <2>2, <2>3, <1>t
  <2>5. view' \in [Views -> ViewRecords]
    BY <1>4, <2>1 DEF Streams, ViewRecords
  <2> QED
    BY <1>4, <2>4, <2>5 DEF Streams, ClientKeeps
<1>5. CASE HandlerEnds(k)
  <2>1. NoClient.step = "gone"
    BY DEF NoClient
  <2> QED
    BY <1>5, <2>1, <1>c, <1>t DEF HandlerEnds, Leaves, ClientKeeps
<1>6. CASE SwitchCloses(k)
  <2>1. [client[k] EXCEPT !.step = "enter"] \in ClientRecords
        /\ [client[k] EXCEPT !.step = "enter"].of = client[k].of
    BY <1>c DEF ClientRecords, ClientSteps
  <2>2. client' \in [Clients -> ClientRecords] /\ ClientsKnow'
    BY <1>6, <2>1, <1>v, <1>t DEF SwitchCloses, Client
  <2> QED
    BY <1>6, <2>2 DEF SwitchCloses, ClientKeeps
<1>7. ASSUME NEW t \in Tabs, NEW drop \in BOOLEAN, Switches(k, t, drop)
      PROVE  ViewBasis'
  <2> DEFINE x == [NoClient EXCEPT !.step = "switch", !.of = client[k].of,
                                   !.to = t, !.drop = drop]
  <2>1. client[k].of \in Views
    BY <1>7, <1>v DEF Switches
  <2>2. x \in ClientRecords /\ x.of = client[k].of
    BY <2>1 DEF NoClient, ClientRecords, ClientSteps
  <2>3. client' = [client EXCEPT ![k] = x]
    BY <1>7 DEF Switches
  <2> HIDE DEF x
  <2>4. client' \in [Clients -> ClientRecords] /\ ClientsKnow'
    BY <2>1, <2>2, <2>3, <1>t
  <2> QED
    BY <1>7, <2>4 DEF Switches, ClientKeeps
<1>8. ASSUME NEW t \in Tabs, ClosesOther(k, t) PROVE ViewBasis'
  BY <1>8 DEF ClosesOther, ClientKeeps
<1> QED
  BY <1>1, <1>2, <1>3, <1>4, <1>5, <1>6, <1>7, <1>8
  DEF ClientStep, SeesNewTab, PicksTab

LEMMA BasisStep ==
  ASSUME ViewBasis, [ViewNext]_bvars
  PROVE  ViewBasis'
<1>1. CASE AgentTurns
  BY <1>1 DEF AgentTurns, ViewBasis, ViewTyped, ClientsKnow, RequestsKnow,
              Registered
<1>2. CASE UNCHANGED viewVars
  BY <1>2 DEF viewVars, ViewBasis, ViewTyped, ClientsKnow, RequestsKnow,
              Registered
<1> QED
  BY <1>1, <1>2, RequestsKeepBasis, DeletesKeepBasis, ClientsKeepBasis
  DEF ViewNext, bvars

-----------------------------------------------------------------------------
(* The forwards the views use.                                             *)

\* A request holds a port from the moment it has a forward until it closes it
\* or hands it to a view.
PortsTaken ==
  \A q \in Posts : req[q].step \in {"free", "start"} => req[q].port = 0

\* Who will close a port: a view that is registered, or a request that has not
\* done it yet; nobody, once another view was registered over that of the port.
ByView(l) ==
  \E s \in Viewed : registry[s] # Nobody /\ view[registry[s]].port = l

ByRequest(l) == \E q \in Posts : req[q].step # "browser" /\ req[q].port = l

Kept(l) == ByView(l) \/ ByRequest(l) \/ l \in dropped

\* The forwards to Chrome, where none but the views asks for them.
ToChrome == {p \in Live : ssh[p].remote = Cdp /\ Cdp \notin Asked}

ForwardsHeld ==
  \A p \in ToChrome : ssh[p].host = Host /\ Kept(ssh[p].local)

ViewInv ==
  /\ FwdInv /\ AskedFor /\ ViewBasis
  /\ PortsTaken
  /\ ~clashed => ForwardsHeld

LEMMA ViewStart == FwdInit /\ ViewInit => ViewInv
<1> SUFFICES ASSUME FwdInit, ViewInit PROVE ViewInv
  OBVIOUS
<1>1. PortsTaken
  BY DEF ViewInit, NoReq, PortsTaken
<1>2. ForwardsHeld
  BY DEF FwdInit, Live, ToChrome, ForwardsHeld
<1> QED
  BY <1>1, <1>2, BasisStart DEF ViewInv

\* No process begins, and who holds a port keeps it as long as a process is
\* there.
LEMMA HoldersKeep ==
  ASSUME FwdTypeOK, ForwardsHeld,
         \A p \in Ssh : ssh'[p] \in {ssh[p], NoForward},
         \A l \in Ports : Kept(l) =>
            \/ Kept(l)'
            \/ \A p \in ToChrome : ssh[p].local = l => ssh'[p] = NoForward
  PROVE  ForwardsHeld'
<1>1. \A p \in ToChrome' :
        p \in ToChrome /\ ssh'[p] = ssh[p] /\ ssh'[p] # NoForward
  BY DEF ToChrome, Live
<1>2. ASSUME NEW p \in ToChrome', NEW l \in Ports, l = ssh'[p].local
      PROVE  ssh'[p].host = Host /\ Kept(l)'
  BY <1>1, <1>2 DEF ForwardsHeld
<1>3. \A p \in ToChrome' : ssh'[p].local \in Ports
  BY <1>1 DEF FwdTypeOK, Forwards, ToChrome, Live
<1> QED
  BY <1>2, <1>3 DEF ForwardsHeld, Kept, ByView, ByRequest

\* Where neither the processes nor the holders change.
LEMMA SameHolders ==
  ASSUME ViewInv, FwdInv', AskedFor', UNCHANGED clashed,
         \A p \in Ssh : ssh'[p] \in {ssh[p], NoForward},
         UNCHANGED <<registry, req, dropped>>,
         \A v \in Views : view'[v].port = view[v].port, ViewBasis'
  PROVE  ViewInv'
<1>1. PortsTaken'
  BY DEF ViewInv, PortsTaken
<1>2. \A s \in Viewed : registry[s] # Nobody => registry[s] \in Views
  BY DEF ViewInv, ViewBasis, ViewTyped
<1>3. ASSUME NEW l \in Ports PROVE Kept(l) => Kept(l)'
  BY <1>2 DEF Kept, ByView, ByRequest
<1>4. ~clashed => ForwardsHeld'
  BY <1>3, HoldersKeep DEF ViewInv, FwdInv
<1> QED
  BY <1>1, <1>4 DEF ViewInv

\* A request closes its port and goes on without it.
LEMMA ClosingLeaksNothing ==
  ASSUME ViewInv, ~clashed, NEW q \in Posts, req[q].step # "browser",
         Closes(req[q].port, Host),
         NEW x, req' = [req EXCEPT ![q] = x],
         UNCHANGED <<registry, view, dropped>>
  PROVE  ForwardsHeld'
<1>1. /\ \A p \in Ssh : ssh'[p] \in {ssh[p], NoForward}
      /\ \A p \in Live : ssh[p].local = req[q].port /\ ssh[p].host = Host
                         => ssh'[p] = NoForward
  BY ClosingEnds DEF ViewInv
<1>2. ASSUME NEW l \in Ports, l # req[q].port, Kept(l)
      PROVE  Kept(l)'
  <2>1. CASE ByView(l) \/ l \in dropped
    BY <2>1 DEF Kept, ByView
  <2>2. CASE ByRequest(l)
    <3>1. PICK r \in Posts : req[r].step # "browser" /\ req[r].port = l
      BY <2>2 DEF ByRequest
    <3>2. r # q
      BY <1>2, <3>1
    <3>3. req'[r] = req[r]
      BY <3>2 DEF ViewInv, ViewBasis, ViewTyped
    <3> QED
      BY <3>1, <3>3 DEF Kept, ByRequest
  <2> QED
    BY <1>2, <2>1, <2>2 DEF Kept
<1>3. \A p \in ToChrome : ssh[p].local = req[q].port => ssh'[p] = NoForward
  BY <1>1 DEF ViewInv, ForwardsHeld, ToChrome
<1>4. FwdTypeOK /\ ForwardsHeld
  BY DEF ViewInv, FwdInv
<1> QED
  BY <1>1, <1>2, <1>3, <1>4, HoldersKeep

\* What a request leaves of the forwards as it is, with or without an event.
LEMMA ForwardsStay ==
  ASSUME FwdInv, AskedFor, UNCHANGED <<ssh, found, ask, clashed>>,
         Event \/ UNCHANGED events
  PROVE  FwdInv' /\ AskedFor'
<1>1. /\ ask \in [Askers -> Forwards \cup {NoForward}]
      /\ events' \in 0..MaxEvents
  BY EventsAssumption DEF FwdInv, FwdTypeOK, Event
<1> QED
  BY <1>1, LooksKeep DEF AskedFor

LEMMA RequestsCloseForwards ==
  ASSUME FwdInv, AskedFor, NEW l, Closes(l, Host),
         UNCHANGED <<clashed, ask, events>>
  PROVE  FwdInv' /\ AskedFor'
<1>1. /\ ask \in [Askers -> Forwards \cup {NoForward}]
      /\ events \in 0..MaxEvents
  BY DEF FwdInv, FwdTypeOK
<1> QED
  BY <1>1, ClosingEnds, EndsKeep DEF AskedFor

\* A view that is popped leaves its port to the request.
LEMMA PoppingKeepsInv ==
  ASSUME ViewInv, NEW q \in Posts, NEW s \in Viewed, NEW again \in BOOLEAN,
         Pops(q, s, again), RequestStep(q)
  PROVE  ViewInv'
<1>1. FwdInv' /\ AskedFor'
  BY ForwardsStay DEF ViewInv, Pops, Begins
<1>2. ViewBasis'
  BY RequestsKeepBasis DEF ViewInv
<1>3. /\ req[q].step = "free"
      /\ UNCHANGED <<view, ssh, clashed, dropped>>
      /\ registry' = [registry EXCEPT ![s] = Nobody]
  BY DEF Pops, Begins
<1>4. PICK x : /\ req' = [req EXCEPT ![q] = x] /\ x.step = "shut"
               /\ x.port = view[registry[s]].port
  BY PoppedRequest DEF ViewInv
<1>5. /\ \A r \in Posts : req'[r] = IF r = q THEN x ELSE req[r]
      /\ \A r \in Viewed :
           registry'[r] = IF r = s THEN Nobody ELSE registry[r]
  BY <1>3, <1>4 DEF ViewInv, ViewBasis, ViewTyped
<1>6. PortsTaken'
  BY <1>4, <1>5 DEF ViewInv, PortsTaken
<1>7. ASSUME NEW l \in Ports, Kept(l) PROVE Kept(l)'
  <2>1. CASE l = x.port
    BY <2>1, <1>4, <1>5 DEF Kept, ByRequest
  <2>2. CASE l # x.port /\ ByView(l)
    BY <2>2, <1>3, <1>4, <1>5 DEF Kept, ByView
  <2>3. CASE ByRequest(l)
    <3>1. req[q].port # l
      BY <1>3, PortsAssumption DEF ViewInv, PortsTaken
    <3> QED
      BY <2>3, <3>1, <1>5 DEF Kept, ByRequest
  <2>4. CASE l \in dropped
    BY <2>4, <1>3 DEF Kept
  <2> QED
    BY <1>7, <2>1, <2>2, <2>3, <2>4 DEF Kept
<1>8. ~clashed => ForwardsHeld'
  BY <1>3, <1>7, HoldersKeep DEF ViewInv, FwdInv
<1> QED
  BY <1>1, <1>2, <1>3, <1>6, <1>8 DEF ViewInv

LEMMA ClosingKeepsInv ==
  ASSUME ViewInv, NEW q \in Posts,
         ShutsView(q) \/ NoTarget(q) \/ StartFails(q)
  PROVE  ViewInv'
<1>1. /\ req[q].step # "browser" /\ Closes(req[q].port, Host)
      /\ UNCHANGED <<clashed, ask, events, registry, view, dropped>>
  BY DEF ShutsView, NoTarget, StartFails, RestOfFwd, KeepsViews
<1>2. FwdInv' /\ AskedFor'
  BY <1>1, RequestsCloseForwards DEF ViewInv
<1>3. ViewBasis'
  BY RequestsKeepBasis DEF ViewInv, RequestStep
<1>4. PICK x : /\ req' = [req EXCEPT ![q] = x]
               /\ x.step \in {"free", "start"} => x.port = 0
  <2>1. CASE ShutsView(q)
    <3> DEFINE y == [NoReq EXCEPT !.step = "start", !.of = req[q].of]
    <3>1. y.port = 0
      BY DEF NoReq
    <3>2. req' = [req EXCEPT ![q] = y] \/ req' = [req EXCEPT ![q] = NoReq]
      BY <2>1 DEF ShutsView, Done
    <3> HIDE DEF y
    <3> QED
      BY <3>1, <3>2, FreeTyped
  <2>2. CASE NoTarget(q)
    <3>1. \/ req' = [req EXCEPT ![q] = NoReq]
          \/ req' = [req EXCEPT ![q] = [req[q] EXCEPT !.step = "browser"]]
      BY <2>2 DEF NoTarget, Done, Step
    <3>2. [req[q] EXCEPT !.step = "browser"].step = "browser"
      BY DEF ViewInv, ViewBasis, ViewTyped, ReqRecords
    <3> QED
      BY <3>1, <3>2, FreeTyped
  <2>3. CASE StartFails(q)
    BY <2>3, FreeTyped DEF StartFails, Done
  <2> QED
    BY <2>1, <2>2, <2>3
<1>5. \A r \in Posts : req'[r] = IF r = q THEN x ELSE req[r]
  BY <1>4 DEF ViewInv, ViewBasis, ViewTyped
<1>6. PortsTaken'
  BY <1>4, <1>5 DEF ViewInv, PortsTaken
<1>7. ~clashed => ForwardsHeld'
  BY <1>1, <1>4, ClosingLeaksNothing
<1> QED
  BY <1>1, <1>2, <1>3, <1>6, <1>7 DEF ViewInv

\* A request goes on, with its port or without one, and nothing else happens.
LEMMA MovingKeepsInv ==
  ASSUME ViewInv, FwdInv', AskedFor', ViewBasis',
         UNCHANGED <<ssh, clashed, registry, view, dropped>>,
         NEW q \in Posts, NEW x, req' = [req EXCEPT ![q] = x],
         x.step \in {"free", "start"} => x.port = 0,
         \A l \in Ports : req[q].step # "browser" /\ req[q].port = l
           => x.step # "browser" /\ x.port = l
  PROVE  ViewInv'
<1>1. \A r \in Posts : req'[r] = IF r = q THEN x ELSE req[r]
  BY DEF ViewInv, ViewBasis, ViewTyped
<1>2. PortsTaken'
  BY <1>1 DEF ViewInv, PortsTaken
<1>3. ASSUME NEW l \in Ports PROVE Kept(l) => Kept(l)'
  BY <1>1 DEF Kept, ByView, ByRequest
<1>4. ~clashed => ForwardsHeld'
  BY <1>3, HoldersKeep DEF ViewInv, FwdInv
<1> QED
  BY <1>2, <1>4 DEF ViewInv

LEMMA StartingKeepsInv ==
  ASSUME ViewInv, NEW q \in Posts,
         \/ \E s \in Viewed : PostBegins(q, s)
         \/ AutoStarts(q)
         \/ \E t \in Tabs : PicksTarget(q, t)
         \/ \E w \in Links : ConnectsView(q, w)
  PROVE  ViewInv'
<1>1. /\ FwdInv' /\ AskedFor'
      /\ UNCHANGED <<ssh, clashed, registry, view, dropped>>
  BY ForwardsStay DEF ViewInv, PostBegins, Begins, AutoStarts, PicksTarget,
       ConnectsView, KeepsFwd, KeepsViews, fwdVars
<1>2. ViewBasis'
  BY RequestsKeepBasis DEF ViewInv, RequestStep
<1>r. req[q] \in ReqRecords
  BY DEF ViewInv, ViewBasis, ViewTyped
<1>3. ASSUME NEW s \in Viewed, PostBegins(q, s) PROVE ViewInv'
  <2> DEFINE x == [NoReq EXCEPT !.step = "start", !.of = s]
  <2>1. x.step = "start" /\ x.port = 0
    BY DEF NoReq
  <2>2. req' = [req EXCEPT ![q] = x] /\ req[q].step = "free"
    BY <1>3 DEF PostBegins, Begins
  <2>3. req[q].port = 0
    BY <2>2 DEF ViewInv, PortsTaken
  <2> HIDE DEF x
  <2> QED
    BY <1>1, <1>2, <2>1, <2>2, <2>3, PortsAssumption, MovingKeepsInv
<1>4. CASE AutoStarts(q)
  <2> DEFINE x == [NoReq EXCEPT !.step = "start", !.of = req[q].of,
                                !.again = TRUE]
  <2>1. x.step = "start" /\ x.port = 0
    BY DEF NoReq
  <2>2. /\ req[q].step = "browser"
        /\ req' = [req EXCEPT ![q] = x] \/ req' = [req EXCEPT ![q] = NoReq]
    BY <1>4 DEF AutoStarts, Done
  <2> HIDE DEF x
  <2>3. CASE req' = [req EXCEPT ![q] = x]
    BY <1>1, <1>2, <2>1, <2>2, <2>3, MovingKeepsInv
  <2>4. CASE req' = [req EXCEPT ![q] = NoReq]
    BY <1>1, <1>2, <2>2, <2>4, FreeTyped, MovingKeepsInv
  <2> QED
    BY <2>2, <2>3, <2>4
<1>5. ASSUME NEW t \in Tabs, PicksTarget(q, t) PROVE ViewInv'
  <2> DEFINE x == [req[q] EXCEPT !.step = "connect", !.tab = t]
  <2>1. x.step = "connect" /\ x.port = req[q].port
    BY <1>r DEF ReqRecords
  <2>2. req' = [req EXCEPT ![q] = x]
    BY <1>5 DEF PicksTarget
  <2> HIDE DEF x
  <2> QED
    BY <1>1, <1>2, <2>1, <2>2, MovingKeepsInv
<1>6. ASSUME NEW w \in Links, ConnectsView(q, w) PROVE ViewInv'
  <2> DEFINE x == [req[q] EXCEPT !.step = "setup", !.ws = w]
  <2>1. x.step = "setup" /\ x.port = req[q].port
    BY <1>r DEF ReqRecords
  <2>2. req' = [req EXCEPT ![q] = x]
    BY <1>6 DEF ConnectsView
  <2> HIDE DEF x
  <2> QED
    BY <1>1, <1>2, <2>1, <2>2, MovingKeepsInv
<1> QED
  BY <1>3, <1>4, <1>5, <1>6

\* A forward that exists, or a new one, comes into the hands of the request.
LEMMA GettingKeepsInv ==
  ASSUME ViewInv, NEW q \in Posts, NEW l \in Ports, GetsForward(q, l)
  PROVE  ViewInv'
<1>t. /\ ask \in [Askers -> Forwards \cup {NoForward}]
      /\ events \in 0..MaxEvents
  BY DEF ViewInv, FwdInv, FwdTypeOK
<1>r. req[q] \in ReqRecords
  BY DEF ViewInv, ViewBasis, ViewTyped
<1>b. ViewBasis'
  BY RequestsKeepBasis DEF ViewInv, RequestStep
<1>s. /\ req[q].step = "start" /\ req[q].port = 0
      /\ UNCHANGED <<ask, events, registry, view>>
      /\ dropped' = dropped \ {l}
  BY DEF GetsForward, RestOfFwd, ViewInv, PortsTaken
<1>a. AskedFor'
  BY <1>s DEF AskedFor, ViewInv
<1> DEFINE x == [req[q] EXCEPT !.step = "discover", !.port = l]
<1>1. x.step = "discover" /\ x.port = l
  BY <1>r DEF ReqRecords
<1>2. req' = [req EXCEPT ![q] = x]
  BY DEF GetsForward
<1> HIDE DEF x
<1>3. \A r \in Posts : req'[r] = IF r = q THEN x ELSE req[r]
  BY <1>2 DEF ViewInv, ViewBasis, ViewTyped
<1>4. PortsTaken'
  BY <1>3, <1>1 DEF ViewInv, PortsTaken
<1>5. Kept(l)'
  BY <1>1, <1>3 DEF Kept, ByRequest
<1>6. ASSUME NEW m \in Ports, Kept(m) PROVE Kept(m)'
  <2>1. CASE m = l
    BY <1>5, <2>1
  <2>2. CASE m # l
    <3>1. ByView(m) => ByView(m)'
      BY <1>s DEF ByView
    <3>2. ByRequest(m) => ByRequest(m)'
      BY <1>3, <1>s, PortsAssumption DEF ByRequest
    <3>3. m \in dropped => m \in dropped'
      BY <1>s, <2>2
    <3> QED
      BY <1>6, <3>1, <3>2, <3>3 DEF Kept
  <2> QED
    BY <2>1, <2>2
<1>7. CASE Discovers /\ UNCHANGED <<ssh, clashed>>
  <2>1. FwdInv'
    BY <1>7, <1>t, <1>s, LooksKeep DEF ViewInv, Discovers
  <2>2. ~clashed => ForwardsHeld'
    BY <1>6, <1>7, HoldersKeep DEF ViewInv, FwdInv
  <2> QED
    BY <1>a, <1>b, <1>4, <1>7, <2>1, <2>2 DEF ViewInv
<1>8. ASSUME NEW p \in Ssh,
             Spawns(p, [host |-> Host, local |-> l, remote |-> Cdp])
      PROVE  ViewInv'
  <2> DEFINE f == [host |-> Host, local |-> l, remote |-> Cdp]
  <2>1. f \in Forwards /\ f.local = l /\ f.host = Host
    BY ViewAssumption DEF Forwards
  <2>2. Spawns(p, f)
    BY <1>8
  <2> HIDE DEF f
  <2>3. FwdInv'
    BY <1>t, <1>s, <2>1, <2>2, SpawningKeeps DEF ViewInv
  <2>4. ~clashed' => ~clashed
    BY <2>2 DEF Spawns
  <2>5. \A o \in Ssh : ssh'[o] = IF o = p THEN f ELSE ssh[o]
    BY <2>2 DEF Spawns, ViewInv, FwdInv, FwdTypeOK
  <2>6. ASSUME ForwardsHeld, NEW o \in ToChrome',
               NEW m \in Ports, m = ssh'[o].local
        PROVE  ssh'[o].host = Host /\ Kept(m)'
    <3>1. CASE o = p
      BY <3>1, <2>1, <1>5, <2>5, <2>6 DEF ToChrome, Live
    <3>2. CASE o # p
      <4>1. o \in ToChrome /\ ssh'[o] = ssh[o]
        BY <3>2, <2>5, <2>6 DEF ToChrome, Live
      <4> QED
        BY <4>1, <1>6, <2>6 DEF ForwardsHeld
    <3> QED
      BY <3>1, <3>2
  <2>7. \A o \in ToChrome' : ssh'[o].local \in Ports
    BY <2>3 DEF FwdInv, FwdTypeOK, Forwards, ToChrome, Live
  <2>8. ForwardsHeld => ForwardsHeld'
    BY <2>6, <2>7 DEF ForwardsHeld, Kept, ByView, ByRequest
  <2> QED
    BY <1>a, <1>b, <1>4, <2>3, <2>4, <2>8 DEF ViewInv
<1> QED
  BY <1>7, <1>8 DEF GetsForward

\* Without a forward, or with a view already there, the request ends.
LEMMA RefusingKeepsInv ==
  ASSUME ViewInv, NEW q \in Posts, NoForwardToHost(q)
  PROVE  ViewInv'
<1>1. /\ UNCHANGED <<ssh, clashed, ask, events, registry, view, dropped>>
      /\ found' \in {found, Discovered}
      /\ req' = [req EXCEPT ![q] = NoReq]
      /\ req[q].port = 0
  BY DEF NoForwardToHost, Discovers, Done, RestOfFwd, KeepsViews, ViewInv,
         PortsTaken
<1>2. /\ ask \in [Askers -> Forwards \cup {NoForward}]
      /\ events \in 0..MaxEvents
  BY DEF ViewInv, FwdInv, FwdTypeOK
<1>3. FwdInv' /\ AskedFor'
  BY <1>1, <1>2, LooksKeep DEF ViewInv, AskedFor
<1>4. ViewBasis'
  BY RequestsKeepBasis DEF ViewInv, RequestStep
<1> QED
  BY <1>1, <1>3, <1>4, FreeTyped, PortsAssumption, MovingKeepsInv

\* The request hands its port to the view it registers; the views of others
\* are other objects, and the port of one it replaces is dropped.
LEMMA RegisteringKeepsInv ==
  ASSUME ViewInv, NEW q \in Posts, NEW v \in Views, RegistersView(q, v)
  PROVE  ViewInv'
<1> DEFINE s == req[q].of
<1>1. FwdInv' /\ AskedFor' /\ UNCHANGED <<ssh, clashed>>
  BY ForwardsStay DEF ViewInv, RegistersView, KeepsFwd, fwdVars
<1>2. ViewBasis'
  BY RequestsKeepBasis DEF ViewInv, RequestStep
<1>3. /\ req[q].step = "setup" /\ s \in Viewed
      /\ req' = [req EXCEPT ![q] = NoReq]
      /\ registry' = [registry EXCEPT ![s] = v]
  BY DEF RegistersView, Done, ViewInv, ViewBasis, RequestsKnow
<1>4. v \notin Held
  BY DEF RegistersView, FreeViews, New
<1>5. /\ \A r \in Posts : req'[r] = IF r = q THEN NoReq ELSE req[r]
      /\ \A r \in Viewed : /\ registry'[r] = IF r = s THEN v ELSE registry[r]
                           /\ registry[r] \in Views \cup {Nobody}
  BY <1>3 DEF ViewInv, ViewBasis, ViewTyped
<1>6. /\ view'[v].port = req[q].port
      /\ \A r \in Viewed : registry[r] \in Views =>
           view'[registry[r]] = view[registry[r]] /\ registry[r] # v
  BY <1>4 DEF RegistersView, Held
<1>7. PortsTaken'
  BY <1>3, <1>5, FreeTyped DEF ViewInv, PortsTaken
<1>8. ASSUME NEW l \in Ports, l = req[q].port PROVE Kept(l)'
  BY <1>3, <1>5, <1>6, <1>8, ViewAssumption DEF Kept, ByView
<1>9. ASSUME NEW l \in Ports, l # req[q].port, Kept(l) PROVE Kept(l)'
  <2>1. /\ l \in dropped => l \in dropped'
        /\ registry[s] # Nobody /\ view[registry[s]].port = l
             => l \in dropped'
    BY <1>9 DEF RegistersView
  <2>2. CASE ByView(l)
    <3>1. PICK r \in Viewed : registry[r] # Nobody
                              /\ view[registry[r]].port = l
      BY <2>2 DEF ByView
    <3>2. CASE r = s
      BY <2>1, <3>1, <3>2 DEF Kept
    <3>3. CASE r # s
      BY <3>1, <3>3, <1>5, <1>6 DEF Kept, ByView
    <3> QED
      BY <3>2, <3>3
  <2>3. CASE ByRequest(l)
    <3>1. PICK r \in Posts : req[r].step # "browser" /\ req[r].port = l
      BY <2>3 DEF ByRequest
    <3> QED
      BY <3>1, <1>5, <1>9 DEF Kept, ByRequest
  <2> QED
    BY <1>9, <2>1, <2>2, <2>3 DEF Kept
<1>10. ~clashed => ForwardsHeld'
  BY <1>1, <1>8, <1>9, HoldersKeep DEF ViewInv, FwdInv
<1> QED
  BY <1>1, <1>2, <1>7, <1>10 DEF ViewInv

\* A delete ends every forward to the host that ps or the cache knows.
LEMMA DeletingKeepsInv ==
  ASSUME ViewInv, NEW s \in Viewed, DeletesSession(s)
  PROVE  ViewInv'
<1> DEFINE doomed(p) == /\ ssh[p] # NoForward /\ ssh[p].host = Host
                        /\ \E l \in Ports : Discovered[l].pid = p
<1>1. /\ ssh' = [p \in Ssh |-> IF doomed(p) THEN NoForward ELSE ssh[p]]
      /\ found' = NoCache /\ UNCHANGED <<ask, clashed, view, req>>
      /\ Event
  BY DEF DeletesSession, Invalidates
<1>2. ssh' \in [Ssh -> Forwards \cup {NoForward}]
      /\ \A p \in Ssh : ssh'[p] \in {ssh[p], NoForward}
  BY <1>1 DEF ViewInv, FwdInv, FwdTypeOK
<1>3. FwdInv' /\ AskedFor'
  <2>1. /\ events' \in 0..MaxEvents
        /\ ask' \in [Askers -> Forwards \cup {NoForward}]
    BY <1>1, EventsAssumption DEF ViewInv, FwdInv, FwdTypeOK, Event
  <2> QED
    BY <1>1, <1>2, <2>1, EndsKeep DEF ViewInv, AskedFor
<1>4. ViewBasis'
  BY DeletesKeepBasis DEF ViewInv
<1>5. PortsTaken'
  BY <1>1 DEF ViewInv, PortsTaken
<1>6. ASSUME ~clashed, NEW p \in ToChrome PROVE ssh'[p] = NoForward
  <2>1. p \in Live /\ p \in Ssh /\ ssh[p] # NoForward /\ ssh[p].host = Host
    BY <1>6 DEF ViewInv, ForwardsHeld, ToChrome, Live
  <2>2. Discovered[ssh[p].local].pid = p
    BY <1>6, <2>1, DiscoveredKnows DEF ViewInv, Known
  <2>3. ssh[p].local \in Ports
    BY <2>1 DEF ViewInv, FwdInv, FwdTypeOK, Forwards
  <2> QED
    BY <1>1, <2>1, <2>2, <2>3
<1>7. ~clashed => ForwardsHeld'
  BY <1>2, <1>6, HoldersKeep DEF ViewInv, FwdInv
<1> QED
  BY <1>1, <1>3, <1>4, <1>5, <1>7 DEF ViewInv

LEMMA RoutesKeepInv ==
  ASSUME ViewInv, FwdRoutes, UNCHANGED viewVars
  PROVE  ViewInv'
<1>1. FwdInv' /\ AskedFor' /\ RoutesDo /\ (clashed => clashed')
  BY RoutesKeep DEF ViewInv
<1>2. /\ ViewBasis' /\ PortsTaken'
      /\ UNCHANGED <<registry, view, req, dropped>>
  BY DEF viewVars, ViewInv, ViewBasis, ViewTyped, ClientsKnow, RequestsKnow,
         Registered, PortsTaken
<1>3. \A p \in ToChrome' : p \in ToChrome /\ ssh'[p] = ssh[p]
  BY <1>1 DEF RoutesDo, ToChrome, Live
<1>4. ForwardsHeld => ForwardsHeld'
  BY <1>2, <1>3 DEF ForwardsHeld, Kept, ByView, ByRequest
<1> QED
  BY <1>1, <1>2, <1>4 DEF ViewInv

LEMMA ClientsKeepInv ==
  ASSUME ViewInv,
         AgentTurns \/ UNCHANGED bvars \/ \E k \in Clients : ClientStep(k)
  PROVE  ViewInv'
<1>1. /\ UNCHANGED <<ssh, found, ask, clashed, registry, req, dropped>>
      /\ Event \/ UNCHANGED events
  <2>1. CASE AgentTurns \/ UNCHANGED bvars
    BY <2>1 DEF AgentTurns, OnlyEvent, bvars, fwdVars, viewVars
  <2>2. ASSUME NEW k \in Clients, ClientStep(k) PROVE ClientKeeps
    BY <2>2 DEF ClientStep, Attaches, ReopenShuts, Reopens, Streams,
         HandlerEnds, SeesNewTab, PicksTab, Switches, ClosesOther,
         SwitchShuts, SwitchConnects, SwitchCloses
  <2> QED
    BY <2>1, <2>2 DEF ClientKeeps, KeepsFwd, fwdVars
<1>2. FwdInv' /\ AskedFor'
  BY <1>1, ForwardsStay DEF ViewInv
<1>3. ViewBasis'
  BY BasisStep DEF ViewInv, ViewNext
<1>4. \A v \in Views : view'[v].port = view[v].port
  <2>1. \A v \in Views : view[v] \in ViewRecords
    BY DEF ViewInv, ViewBasis, ViewTyped
  <2>2. CASE UNCHANGED view
    BY <2>2
  <2>3. ASSUME NEW k \in Clients, NEW s \in Viewed, Attaches(k, s)
        PROVE  \A v \in Views : view'[v].port = view[v].port
    BY <2>1, <2>3 DEF Attaches, ViewRecords, ViewInv, ViewBasis, ViewTyped
  <2>4. ASSUME NEW k \in Clients,
               Streams(k)
               \/ \E w \in Links : Reopens(k, w) \/ SwitchConnects(k, w)
        PROVE  \A v \in Views : view'[v].port = view[v].port
    <3>1. view \in [Views -> ViewRecords]
      BY DEF ViewInv, ViewBasis, ViewTyped
    <3>2. CASE Streams(k)
      BY <2>1, <3>1, <3>2 DEF Streams, ViewRecords
    <3>3. ASSUME NEW w \in Links, Reopens(k, w)
          PROVE  \A v \in Views : view'[v].port = view[v].port
      BY <2>1, <3>1, <3>3 DEF Reopens, ViewRecords
    <3>4. ASSUME NEW w \in Links, SwitchConnects(k, w)
          PROVE  \A v \in Views : view'[v].port = view[v].port
      BY <2>1, <3>1, <3>4 DEF SwitchConnects, ViewRecords
    <3> QED
      BY <2>4, <3>2, <3>3, <3>4
  <2> QED
    BY <2>2, <2>3, <2>4
    DEF ClientStep, ReopenShuts, HandlerEnds, SeesNewTab, PicksTab, Switches,
        ClosesOther, SwitchShuts, SwitchCloses, AgentTurns, bvars, viewVars
<1> QED
  BY <1>1, <1>2, <1>3, <1>4, SameHolders

LEMMA ViewStep == ViewInv /\ [ViewNext]_bvars => ViewInv'
<1> SUFFICES ASSUME ViewInv, [ViewNext]_bvars PROVE ViewInv'
  OBVIOUS
<1>1. ASSUME NEW q \in Posts, RequestStep(q) PROVE ViewInv'
  <2>1. ASSUME NEW s \in Viewed, PopStale(q, s) \/ StopPops(q, s)
        PROVE  ViewInv'
    BY <1>1, <2>1, PoppingKeepsInv DEF PopStale, StopPops
  <2> QED
    BY <1>1, <2>1, ClosingKeepsInv, StartingKeepsInv, GettingKeepsInv,
       RefusingKeepsInv, RegisteringKeepsInv DEF RequestStep
<1> QED
  BY <1>1, RoutesKeepInv, ClientsKeepInv, DeletingKeepsInv DEF ViewNext

-----------------------------------------------------------------------------
\* Every variable of the forwards, views, sockets and dashboard clients has
\* its type.
THEOREM ViewTypesCorrect == ViewSpec => []ViewTypeOK
<1>1. ViewInv => ViewTypeOK
  BY DEF ViewInv, FwdInv, ViewBasis, ViewTyped, ViewTypeOK, ViewRecords,
         LinkRecords, ReqRecords, ClientRecords, Steps, ClientSteps
<1> QED
  BY <1>1, ViewStart, ViewStep, PTL DEF ViewSpec

\* Where nobody but the views asks for forwards to Chrome, each of them is that
\* of a registered view or of a request that has still to close it or hand it
\* on, unless another view was registered over its view, or two processes were
\* given one port; and a registered view is that of a session that is there,
\* unless it was deleted while the view was started.
THEOREM EveryForwardIsHeld ==
  ASSUME Cdp \notin Asked
  PROVE  ViewSpec => []NoForwardLeaks
<1>1. ASSUME ViewInv, ~clashed, NEW p \in Live, ssh[p].remote = Cdp
      PROVE  \/ \E s \in rows \cup late :
                  registry[s] # Nobody /\ view[registry[s]].port = ssh[p].local
             \/ \E q \in Posts : req[q].port = ssh[p].local
             \/ ssh[p].local \in dropped
  <2>1. Kept(ssh[p].local)
    BY <1>1 DEF ViewInv, ForwardsHeld, ToChrome
  <2> QED
    BY <1>1, <2>1 DEF Kept, ByView, ByRequest, ViewInv, ViewBasis, Registered
<1>2. ViewInv => NoForwardLeaks
  BY <1>1 DEF NoForwardLeaks
<1> QED
  BY <1>2, ViewStart, ViewStep, PTL DEF ViewSpec

=============================================================================
