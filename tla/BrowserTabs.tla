----------------------------- MODULE BrowserTabs -----------------------------
(***************************************************************************)
(* Local workers share one Chrome.  Every session has a CDP proxy that     *)
(* shows its Playwright one tab (browser/cdp_worker_proxy.py, a thread     *)
(* with its own loop), a remembered tab and at most one browser view       *)
(* (browser/cdp_proxy.py and api/routes/browser_view.py, local branches).  *)
(* The three name the tab of the session independently and are brought     *)
(* together by assignments that follow awaits.                             *)
(***************************************************************************)
EXTENDS Naturals, FiniteSets

CONSTANTS
  Locals,      \* local sessions
  Pages,       \* identities of tabs, each used once
  NoPage,      \* the empty target id
  MaxTurns     \* bound: requests, and changes made by users and agents

\* A tab that was not made yet is nobody's.
ASSUME TabAssumption ==
  "unused" \notin Locals \cup {NoPage} /\ MaxTurns \in Nat

VARIABLES
  live,        \* sessions that are not deleted
  pages,       \* tabs of Chrome; {} when it is not running
  maker,       \* for whom a tab was made: a session, or NoPage
  proxy,       \* _worker_proxies: [on, target]
  remembered,  \* _session_tab_targets
  shown,       \* target of the active view, NoPage without one
  call,        \* what a request to the proxy of a session does next
  post,        \* what the request that starts a view does next
  strayed,     \* history: sessions whose view took a tab not made for
               \* them, since the server started
  turns

tabVars ==
  <<live, pages, maker, proxy, remembered, shown, call, post, strayed, turns>>

NoCall == [step |-> "idle", old |-> NoPage, new |-> NoPage]
Gone == [on |-> FALSE, target |-> NoPage]

\* create_browser_tab gives an identity Chrome never used.
Fresh == {p \in Pages : maker[p] = "unused"}
Makes(p, s) ==
  /\ pages # {} /\ p \in Fresh
  /\ pages' = pages \cup {p}
  /\ maker' = [maker EXCEPT ![p] = s]

TabInit ==
  /\ live = Locals
  /\ pages = {}
  /\ maker = [p \in Pages |-> "unused"]
  /\ proxy = [s \in Locals |-> Gone]
  /\ remembered = [s \in Locals |-> NoPage]
  /\ shown = [s \in Locals |-> NoPage]
  /\ call = [s \in Locals |-> NoCall]
  /\ post = [s \in Locals |-> NoCall]
  /\ strayed = {}
  /\ turns = 0

Turn == turns < MaxTurns /\ turns' = turns + 1

-----------------------------------------------------------------------------
(* The proxy.                                                              *)

\* GET /json, or a browser-level WebSocket, of the Playwright of s: without a
\* target, or with one that Chrome does not list, a tab is made.
ProxyMisses(s) ==
  LET t == proxy[s].target IN
  /\ Turn /\ proxy[s].on /\ call[s].step = "idle"
  /\ t \notin pages /\ pages # {}
  /\ call' = [call EXCEPT ![s] = [NoCall EXCEPT !.step = "make", !.old = t]]
  /\ UNCHANGED <<live, pages, maker, proxy, remembered, shown, post, strayed>>

ProxyMakes(s, p) ==
  /\ call[s].step = "make" /\ Makes(p, s)
  /\ call' = [call EXCEPT ![s].step = "set", ![s].new = p]
  /\ UNCHANGED <<live, proxy, remembered, shown, post, strayed, turns>>

\* Chrome went away meanwhile: the old target is kept.
ProxyMakesNothing(s) ==
  /\ call[s].step = "make" /\ pages = {}
  /\ call' = [call EXCEPT ![s] = NoCall]
  /\ UNCHANGED <<live, pages, maker, proxy, remembered, shown, post, strayed,
                 turns>>

\* _ensure_target_exists: whoever remembered the old tab remembers the new.
ProxySets(s) ==
  LET c == call[s] IN
  /\ c.step = "set"
  /\ proxy' = [proxy EXCEPT ![s].target = IF proxy[s].on THEN c.new ELSE NoPage]
  /\ remembered' = [x \in Locals |->
                      IF c.old # NoPage /\ remembered[x] = c.old THEN c.new
                      ELSE remembered[x]]
  /\ call' = [call EXCEPT ![s] = NoCall]
  /\ UNCHANGED <<live, pages, maker, shown, post, strayed, turns>>

-----------------------------------------------------------------------------
(* The view.                                                               *)

Post(s, step) == post' = [post EXCEPT ![s].step = step]

\* start_browser_view_endpoint: the proxy is started (again, after a restart
\* of the server); a live view refuses, one whose socket died is dropped: with
\* its tab, or when a switch to a tab that was gone failed.
PostStarts(s) ==
  /\ Turn /\ s \in live /\ post[s].step = "idle"
  /\ proxy' = [proxy EXCEPT ![s].on = TRUE]
  /\ \/ shown[s] \in pages /\ UNCHANGED <<shown, post>>
     \/ /\ shown' = [shown EXCEPT ![s] = NoPage]
        /\ Post(s, "proxied")
  /\ UNCHANGED <<live, pages, maker, remembered, call, strayed>>

\* Priority 1, the tab of the proxy.
TriesProxyTab(s) ==
  LET t == proxy[s].target IN
  /\ post[s].step = "proxied"
  /\ IF t \in pages
     THEN post' = [post EXCEPT ![s].step = "connect", ![s].new = t]
     ELSE Post(s, "recall")
  /\ UNCHANGED <<live, pages, maker, proxy, remembered, shown, call, strayed,
                 turns>>

\* Mutant: a remembered tab that is gone leads to a step nobody handles.
TriesRememberedMislabelled(s) ==
  LET t == remembered[s] IN
  /\ post[s].step = "recall"
  /\ IF t \in pages
     THEN post' = [post EXCEPT ![s].step = "connect", ![s].new = t]
     ELSE Post(s, "new")
  /\ UNCHANGED <<live, pages, maker, proxy, remembered, shown, call, strayed,
                 turns>>

\* Priority 2, the remembered tab.
TriesRemembered(s) ==
  LET t == remembered[s] IN
  /\ post[s].step = "recall"
  /\ IF t \in pages
     THEN post' = [post EXCEPT ![s].step = "connect", ![s].new = t]
     ELSE Post(s, "create")
  /\ UNCHANGED <<live, pages, maker, proxy, remembered, shown, call, strayed,
                 turns>>

\* Mutant: the first page of Chrome, as for remote sessions.
TakesFirstTab(s, p) ==
  /\ post[s].step = "create" /\ p \in pages
  /\ post' = [post EXCEPT ![s].step = "connect", ![s].new = p]
  /\ UNCHANGED <<live, pages, maker, proxy, remembered, shown, call, strayed,
                 turns>>

\* Priority 3, a new tab.
CreatesTab(s, p) ==
  /\ post[s].step = "create"
  /\ Makes(p, s)
  /\ post' = [post EXCEPT ![s].step = "connect", ![s].new = p]
  /\ UNCHANGED <<live, proxy, remembered, shown, call, strayed, turns>>

\* No Chrome: _auto_start_browser_local launches one, which opens with a
\* blank tab, and the start is repeated, or fails.
NoChrome(s) ==
  /\ post[s].step = "create" /\ pages = {}
  /\ \/ \E p \in Fresh : /\ pages' = {p}
                         /\ maker' = [maker EXCEPT ![p] = NoPage]
        /\ Post(s, "proxied")
     \/ /\ post' = [post EXCEPT ![s] = NoCall]
        /\ UNCHANGED <<pages, maker>>
  /\ UNCHANGED <<live, proxy, remembered, shown, call, strayed, turns>>

\* The socket of the tab is opened and the view registered; tab and proxy are
\* brought together.  A tab that is gone fails the request.
Registers(s) ==
  LET t == post[s].new IN
  /\ post[s].step = "connect"
  /\ post' = [post EXCEPT ![s] = NoCall]
  /\ IF t \in pages
     THEN /\ shown' = [shown EXCEPT ![s] = t]
          /\ remembered' = [remembered EXCEPT ![s] = t]
          /\ proxy' = [proxy EXCEPT ![s].target =
                         IF proxy[s].on THEN t ELSE NoPage]
     ELSE UNCHANGED <<shown, remembered, proxy>>
  /\ UNCHANGED <<live, pages, maker, call, strayed, turns>>

\* stop_browser_view with close_tab.
StopsView(s) ==
  LET t == shown[s] IN
  /\ Turn /\ s \in live /\ t # NoPage
  /\ shown' = [shown EXCEPT ![s] = NoPage]
  /\ remembered' = [remembered EXCEPT ![s] = NoPage]
  /\ pages' = pages \ {t}
  /\ UNCHANGED <<live, maker, proxy, call, post, strayed>>

\* A delete runs in a thread, where the tab cannot be closed; the proxy stops.
DropsSession(s) ==
  /\ Turn /\ s \in live
  /\ live' = live \ {s}
  /\ shown' = [shown EXCEPT ![s] = NoPage]
  /\ remembered' = IF shown[s] = NoPage THEN remembered
                   ELSE [remembered EXCEPT ![s] = NoPage]
  /\ proxy' = [proxy EXCEPT ![s] = Gone]
  /\ call' = [call EXCEPT ![s] = NoCall]
  /\ UNCHANGED <<pages, maker, post, strayed>>

\* switch_to_tab: the user picks any tab of the shared Chrome (switchTab), or
\* closes the one shown (closeTab), which is then closed after the view moved
\* to another.
SwitchesTab(s, t) ==
  /\ Turn /\ shown[s] \in pages
  /\ t \in pages \ {shown[s]}
  /\ shown' = [shown EXCEPT ![s] = t]
  /\ remembered' = [remembered EXCEPT ![s] = t]
  /\ proxy' = [proxy EXCEPT ![s].target = IF proxy[s].on THEN t ELSE NoPage]
  /\ pages' \in {pages, pages \ {shown[s]}}
  /\ strayed' = IF maker[t] = s THEN strayed ELSE strayed \cup {s}
  /\ UNCHANGED <<live, maker, call, post>>

\* closeTab of a tab that is not shown, anybody's.
ClosesOtherTab(s, t) ==
  /\ Turn /\ shown[s] \in pages
  /\ t \in pages \ {shown[s]}
  /\ pages' = pages \ {t}
  /\ UNCHANGED <<live, maker, proxy, remembered, shown, call, post, strayed>>

-----------------------------------------------------------------------------
(* The agent of a session opens and closes its tabs; Chrome and the server *)
(* come and go.                                                            *)

AgentOpens(s, p) ==
  /\ Turn /\ proxy[s].on
  /\ Makes(p, s)
  /\ UNCHANGED <<live, proxy, remembered, shown, call, post, strayed>>

AgentCloses(s, t) ==
  /\ Turn /\ proxy[s].on
  /\ t \in pages /\ (maker[t] = s \/ proxy[s].target = t)
  /\ pages' = pages \ {t}
  /\ UNCHANGED <<live, maker, proxy, remembered, shown, call, post, strayed>>

ChromeExits ==
  /\ Turn /\ pages # {}
  /\ pages' = {}
  /\ UNCHANGED <<live, maker, proxy, remembered, shown, call, post, strayed>>

ServerRestarts ==
  /\ Turn
  /\ proxy' = [s \in Locals |-> Gone]
  /\ remembered' = [s \in Locals |-> NoPage]
  /\ shown' = [s \in Locals |-> NoPage]
  /\ call' = [s \in Locals |-> NoCall]
  /\ post' = [s \in Locals |-> NoCall]
  /\ strayed' = {}
  /\ UNCHANGED <<live, pages, maker>>

TabNext ==
  \/ \E s \in Locals :
       \/ ProxyMisses(s) \/ ProxyMakesNothing(s)
       \/ ProxySets(s) \/ PostStarts(s) \/ TriesProxyTab(s)
       \/ TriesRemembered(s) \/ NoChrome(s) \/ Registers(s)
       \/ StopsView(s) \/ DropsSession(s)
  \/ \E s \in Locals, p \in Pages :
       \/ ProxyMakes(s, p) \/ CreatesTab(s, p) \/ SwitchesTab(s, p)
       \/ ClosesOtherTab(s, p)
       \/ AgentOpens(s, p) \/ AgentCloses(s, p)
  \/ ChromeExits
  \/ ServerRestarts

TabSpec == TabInit /\ [][TabNext]_tabVars

-----------------------------------------------------------------------------
Calls == [step : {"idle", "make", "set", "proxied", "recall", "create",
                  "connect"},
          old : Pages \cup {NoPage}, new : Pages \cup {NoPage}]

TabTypeOK ==
  /\ live \subseteq Locals /\ pages \subseteq Pages
  /\ maker \in [Pages -> Locals \cup {NoPage, "unused"}]
  /\ proxy \in [Locals -> [on : BOOLEAN, target : Pages \cup {NoPage}]]
  /\ remembered \in [Locals -> Pages \cup {NoPage}]
  /\ shown \in [Locals -> Pages \cup {NoPage}]
  /\ call \in [Locals -> Calls] /\ post \in [Locals -> Calls]
  /\ strayed \subseteq Locals /\ turns \in 0..MaxTurns

TabsOf(s) == {proxy[s].target, remembered[s], shown[s]} \ {NoPage}

\* "each Playwright MCP only sees its own tab" (browser/cdp_worker_proxy.py),
\* as far as it holds: two sessions have a tab in common only after the view
\* of one of them was switched to a tab that was not made for it, since the
\* server runs, whoever else did so and however proxies, views and remembered
\* tabs are set, lost and set again.
StrayingSharesOnlyOwnTabs ==
  \A s, x \in Locals \ strayed : s # x => TabsOf(s) \cap TabsOf(x) = {}

=============================================================================
