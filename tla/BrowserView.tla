----------------------------- MODULE BrowserView -----------------------------
(***************************************************************************)
(* Browser views of remote sessions (browser/cdp_proxy.py,                 *)
(* api/ws_browser_view.py, api/routes/browser_view.py): a registry of view *)
(* objects, each with a CDP WebSocket through a forward to the Chrome of   *)
(* the host, and dashboard clients that attach to a view, stream from its  *)
(* socket and switch it to other tabs.                                     *)
(***************************************************************************)
EXTENDS ForwardTunnels

CONSTANTS
  Viewed,      \* sessions, all of one host
  Posts,       \* requests to the routes of the views
  Host, Cdp,   \* that host, and the remote port of its Chrome
  Clients,     \* dashboard WebSockets
  Tabs, Views, Links,   \* identities: tabs, view objects, CDP sockets
  Nobody       \* null

ASSUME ViewAssumption ==
  /\ Host \in Hosts /\ Cdp \in Services
  /\ Nobody \notin Views

VARIABLES
  rows,        \* sessions that are in the database
  tabs,        \* page targets of the host's Chrome; {} when it is down
  registry,    \* _active_views
  view,        \* the view objects
  link,        \* the CDP sockets: tab and ssh process, or Closed
  req,         \* what each request (start, stop or status) does next
  late,        \* history: sessions that were deleted when a start
               \* registered its view
  dropped,     \* history: ports of views a start registered another over,
               \* until a request takes them again
  client       \* what each dashboard client does next

viewVars == <<rows, tabs, registry, view, link, req, late, dropped,
              client>>
bvars == <<fwdVars, viewVars>>

Closed == [tab |-> Nobody, pid |-> 0]
NoView == [port |-> 0, target |-> Nobody, ws |-> Nobody, readers |-> {}]
NoReq == [step |-> "free", of |-> Nobody, port |-> 0, tab |-> Nobody,
          ws |-> Nobody, again |-> FALSE]
NoClient == [step |-> "gone", of |-> Nobody, reads |-> Nobody,
             to |-> Nobody, drop |-> FALSE]

\* A socket lives as long as its forward and its tab; one whose forward is
\* gone may still seem to, when the process id is used again.
Open(w) == w # Nobody /\ link[w] # Closed
           /\ link[w].pid \in Live /\ link[w].tab \in tabs

\* The ssh process behind a local port, and whether Chrome answers there.
Through(l) == {p \in On(l) : ssh[p].host = Host /\ ssh[p].remote = Cdp}
Answers(l) == Through(l) # {} /\ tabs # {}

Held == {registry[s] : s \in Viewed} \cup {client[k].of : k \in Clients}

\* A new object; which of the free identities it gets does not matter.
New(free) == IF free = {} THEN {} ELSE {CHOOSE x \in free : TRUE}
FreeViews == New(Views \ Held)
FreeLinks ==
  New({w \in Links : /\ ~Open(w)
                     /\ \A v \in Held \ {Nobody} : view[v].ws # w
                     /\ \A q \in Posts : req[q].ws # w
                     /\ \A k \in Clients : client[k].reads # w})

Connects(w, l, t) ==
  /\ t \in tabs /\ w \in FreeLinks
  /\ \E p \in Through(l) :
       link' = [x \in Links |-> IF x = w THEN [tab |-> t, pid |-> p]
                               ELSE IF Open(x) THEN link[x] ELSE Closed]

Shuts(w) == link' = IF w = Nobody THEN link ELSE [link EXCEPT ![w] = Closed]

ViewInit ==
  /\ rows = Viewed
  /\ tabs \in {{}} \cup {{t} : t \in Tabs}
  /\ registry = [s \in Viewed |-> Nobody]
  /\ view = [v \in Views |-> NoView]
  /\ link = [w \in Links |-> Closed]
  /\ req = [q \in Posts |-> NoReq]
  /\ late = {} /\ dropped = {}
  /\ client = [k \in Clients |-> NoClient]

Step(q, step) == req' = [req EXCEPT ![q].step = step]
Done(q) == req' = [req EXCEPT ![q] = NoReq]
RestOfFwd == UNCHANGED <<ask, events>>
OnlyEvent == Event /\ UNCHANGED <<ssh, found, ask, clashed>>
KeepsFwd == UNCHANGED fwdVars
KeepsViews == UNCHANGED <<rows, tabs, registry, view, late, dropped, client>>

-----------------------------------------------------------------------------
(* Starting and stopping: requests of one session may overlap.             *)

\* A route that finds the row of the session.
Begins(q, s) == Event /\ req[q].step = "free" /\ s \in rows

\* stop_browser_view takes the view off the registry, for the request to shut.
Pops(q, s, again) ==
  LET v == registry[s] IN
  /\ Begins(q, s)
  /\ v # Nobody
  /\ registry' = [registry EXCEPT ![s] = Nobody]
  /\ req' = [req EXCEPT ![q] = [NoReq EXCEPT
                !.step = "shut", !.of = s, !.again = again,
                !.port = view[v].port, !.ws = view[v].ws]]
  /\ UNCHANGED <<ssh, found, ask, clashed, rows, tabs, view, link, late,
                 dropped, client>>

StopPops(q, s) == Pops(q, s, FALSE)

\* start_browser_view_endpoint (a live view is refused with 409) and
\* get_browser_view_status drop a view whose socket died.
PopStale(q, s) ==
  /\ registry[s] # Nobody => ~Open(view[registry[s]].ws)
  /\ \E again \in BOOLEAN : Pops(q, s, again)

\* The socket is closed, then the forward on the view's port; a start
\* request that met a stale view goes on.
ShutsView(q) ==
  /\ req[q].step = "shut"
  /\ Shuts(req[q].ws)
  /\ Closes(req[q].port, Host)
  /\ IF req[q].again
     THEN req' = [req EXCEPT ![q] = [NoReq EXCEPT !.step = "start",
                                                  !.of = req[q].of]]
     ELSE Done(q)
  /\ RestOfFwd /\ KeepsViews /\ UNCHANGED clashed

PostBegins(q, s) ==
  /\ Begins(q, s)
  /\ registry[s] = Nobody
  /\ req' = [req EXCEPT ![q] = [NoReq EXCEPT !.step = "start", !.of = s]]
  /\ KeepsViews /\ UNCHANGED <<ssh, found, ask, clashed, link>>

\* start_browser_view: refused if active, else a forward, reused or new.
GetsForward(q, l) ==
  /\ req[q].step = "start" /\ registry[req[q].of] = Nobody
  /\ \/ l \in Reusable(Host, Cdp) /\ Discovers /\ UNCHANGED <<ssh, clashed>>
     \/ /\ Reusable(Host, Cdp) = {} /\ l \in PortFor(Cdp)
        /\ \E p \in Ssh :
             Spawns(p, [host |-> Host, local |-> l, remote |-> Cdp])
  /\ req' = [req EXCEPT ![q].step = "discover", ![q].port = l]
  /\ dropped' = dropped \ {l}
  /\ RestOfFwd /\ UNCHANGED <<rows, tabs, registry, view, link, late, client>>

NoForwardToHost(q) ==
  LET active == registry[req[q].of] # Nobody IN
  /\ req[q].step = "start"
  /\ active \/ Reusable(Host, Cdp) = {}
  /\ IF active THEN UNCHANGED found ELSE Discovers
  /\ Done(q)
  /\ RestOfFwd /\ KeepsViews /\ UNCHANGED <<ssh, clashed, link>>

\* discover_browser_targets: the first page target.
PicksTarget(q, t) ==
  /\ req[q].step = "discover"
  /\ Answers(req[q].port) /\ t \in tabs
  /\ req' = [req EXCEPT ![q].step = "connect", ![q].tab = t]
  /\ KeepsFwd /\ KeepsViews /\ UNCHANGED link

\* Mutant: the forward is left when no page is found.
NoTargetKeepsForward(q) ==
  /\ req[q].step = "discover"
  /\ ~Answers(req[q].port)
  /\ IF req[q].again THEN Done(q) ELSE Step(q, "browser")
  /\ KeepsFwd /\ KeepsViews /\ UNCHANGED link

\* No answer or no page: the forward is closed; the first time the browser
\* is started and the whole call repeated.
NoTarget(q) ==
  /\ req[q].step = "discover"
  /\ ~Answers(req[q].port)
  /\ Closes(req[q].port, Host)
  /\ IF req[q].again THEN Done(q) ELSE Step(q, "browser")
  /\ RestOfFwd /\ KeepsViews /\ UNCHANGED <<clashed, link>>

\* _auto_start_browser_and_retry through the daemon of the host.
AutoStarts(q) ==
  /\ req[q].step = "browser"
  /\ \/ /\ req' = [req EXCEPT ![q] = [NoReq EXCEPT !.step = "start",
                                        !.of = req[q].of, !.again = TRUE]]
        /\ IF tabs = {} THEN \E t \in Tabs : tabs' = {t} ELSE UNCHANGED tabs
     \/ Done(q) /\ UNCHANGED tabs
  /\ KeepsFwd /\ UNCHANGED <<rows, registry, view, link, late, dropped, client>>

\* The CDP WebSocket of the tab.
ConnectsView(q, w) ==
  /\ req[q].step = "connect"
  /\ Connects(w, req[q].port, req[q].tab)
  /\ req' = [req EXCEPT ![q].step = "setup", ![q].ws = w]
  /\ KeepsFwd /\ KeepsViews

\* Connecting, or setting up the screencast, fails: both are closed.
StartFails(q) ==
  /\ req[q].step \in {"connect", "setup"}
  /\ Shuts(req[q].ws)
  /\ Closes(req[q].port, Host)
  /\ Done(q)
  /\ RestOfFwd /\ KeepsViews /\ UNCHANGED clashed

\* The view is registered, over that of another start that was faster, whether
\* or not the session still exists, or the socket, whose end nobody reads.
RegistersView(q, v) ==
  LET s == req[q].of IN
  /\ req[q].step = "setup" /\ v \in FreeViews
  /\ view' = [x \in Views |->
                 IF x = v THEN [port |-> req[q].port, target |-> req[q].tab,
                                ws |-> req[q].ws, readers |-> {}]
                 ELSE IF x \in Held THEN view[x] ELSE NoView]
  /\ registry' = [registry EXCEPT ![s] = v]
  /\ late' = late \cup ({s} \ rows)
  /\ dropped' = (dropped \cup {view[x].port : x \in {registry[s]} \ {Nobody}})
                \ {req[q].port}
  /\ Done(q)
  /\ KeepsFwd /\ UNCHANGED <<rows, tabs, link, client>>

\* _delete_session_inner in a thread: the view is dropped without closing its
\* socket, and every forward of the host killed; the row goes, unless the
\* database refuses.
DeletesSession(s) ==
  /\ Event /\ s \in rows
  /\ registry' = [registry EXCEPT ![s] = Nobody]
  /\ ssh' = [p \in Ssh |-> IF ssh[p] # NoForward /\ ssh[p].host = Host
                              /\ \E l \in Ports : Discovered[l].pid = p
                           THEN NoForward ELSE ssh[p]]
  /\ Invalidates
  /\ rows' \in {rows, rows \ {s}}
  /\ UNCHANGED <<ask, clashed, tabs, view, link, req, late, dropped, client>>

-----------------------------------------------------------------------------
(* Dashboard clients.                                                      *)

Client(k, step) == client' = [client EXCEPT ![k].step = step]
Leaves(k) == client' = [client EXCEPT ![k] = NoClient]
ClientKeeps == KeepsFwd /\ UNCHANGED <<rows, registry, req, late, dropped>>

\* Reader tasks of a view are the relay and the poll of the client that set
\* them last; attaching cancels them and opens a new socket.
Attaches(k, s) ==
  LET v == registry[s] IN
  /\ client[k].step = "gone"
  /\ v # Nobody /\ Open(view[v].ws)
  /\ IF view[v].readers = {}
     THEN /\ client' = [client EXCEPT ![k] = [NoClient EXCEPT
                                                !.step = "enter", !.of = v]]
          /\ UNCHANGED view
     ELSE /\ client' = [j \in Clients |->
                          IF j = k THEN [NoClient EXCEPT !.step = "reopen",
                                                         !.of = v]
                          ELSE IF j \in view[v].readers /\ client[j].of = v
                          THEN [client[j] EXCEPT !.reads = Nobody]
                          ELSE client[j]]
          /\ view' = [view EXCEPT ![v].readers = {}]
  /\ ClientKeeps /\ UNCHANGED <<tabs, link>>

\* reconnect_cdp: the old socket is closed before the new one is opened.
ReopenShuts(k) ==
  /\ client[k].step = "reopen"
  /\ Shuts(view[client[k].of].ws)
  /\ Client(k, "open")
  /\ ClientKeeps /\ UNCHANGED <<tabs, view>>

Reopens(k, w) ==
  LET v == client[k].of IN
  /\ client[k].step = "open"
  /\ Connects(w, view[v].port, view[v].target)
  /\ view' = [view EXCEPT ![v].ws = w]
  /\ Client(k, "enter")
  /\ ClientKeeps /\ UNCHANGED <<tabs>>

\* The loop starts its tasks: the relay reads the view's present socket.
Streams(k) ==
  LET v == client[k].of IN
  /\ client[k].step = "enter"
  /\ client' = [client EXCEPT ![k] = [NoClient EXCEPT !.step = "run", !.of = v,
                                                      !.reads = view[v].ws]]
  /\ view' = [view EXCEPT ![v].readers = {k}]
  /\ ClientKeeps /\ UNCHANGED <<tabs, link>>

\* The relay ended (socket closed, cancelled), a step failed or the client
\* disconnected: the handler ends, the view and its socket stay.
HandlerEnds(k) ==
  /\ client[k].step \in {"open", "enter", "run", "connect"}
  /\ Leaves(k)
  /\ ClientKeeps /\ UNCHANGED <<tabs, view, link>>

\* The relay and the other tasks of the client are cancelled for a switch.
Switches(k, t, drop) ==
  LET v == client[k].of IN
  /\ client[k].step = "run" /\ client[k].reads # Nobody
  /\ t # view[v].target
  /\ client' = [client EXCEPT ![k] = [NoClient EXCEPT !.step = "switch",
                                      !.of = v, !.to = t, !.drop = drop]]
  /\ ClientKeeps /\ UNCHANGED <<tabs, view, link>>

\* monitor_tabs saw a tab it did not know; the tab shown gets closed.
SeesNewTab(k, t) == t \in tabs /\ Switches(k, t, TRUE)

\* switchTab of the user, with a tab to close or without; the tab may be gone.
PicksTab(k, t, drop) == Switches(k, t, drop)

\* closeTab of another tab than the one shown is done at once.
ClosesOther(k, t) ==
  /\ client[k].step = "run" /\ t \in tabs
  /\ t # view[client[k].of].target
  /\ tabs' = tabs \ {t}
  /\ ClientKeeps /\ UNCHANGED <<view, link, client>>

\* Mutant: a switch in a state of its own that no other step knows.
SwitchShutsMislabelled(k) ==
  /\ client[k].step = "switch"
  /\ Shuts(view[client[k].of].ws)
  /\ Client(k, "switching")
  /\ ClientKeeps /\ UNCHANGED <<tabs, view>>

\* switch_to_tab
SwitchShuts(k) ==
  /\ client[k].step = "switch"
  /\ Shuts(view[client[k].of].ws)
  /\ Client(k, "connect")
  /\ ClientKeeps /\ UNCHANGED <<tabs, view>>

SwitchConnects(k, w) ==
  LET v == client[k].of IN
  /\ client[k].step = "connect"
  /\ Connects(w, view[v].port, client[k].to)
  /\ view' = [view EXCEPT ![v].ws = w, ![v].target = client[k].to]
  /\ client' = [client EXCEPT ![k].step = "close", ![k].to = view[v].target]
  /\ ClientKeeps /\ UNCHANGED <<tabs>>

SwitchCloses(k) ==
  /\ client[k].step = "close"
  /\ tabs' = IF client[k].drop THEN tabs \ {client[k].to} ELSE tabs
  /\ Client(k, "enter")
  /\ ClientKeeps /\ UNCHANGED <<view, link>>

ClientStep(k) ==
  \/ \E s \in Viewed : Attaches(k, s)
  \/ ReopenShuts(k) \/ Streams(k) \/ HandlerEnds(k)
  \/ SwitchShuts(k) \/ SwitchCloses(k)
  \/ \E w \in Links : Reopens(k, w) \/ SwitchConnects(k, w)
  \/ \E t \in Tabs : SeesNewTab(k, t) \/ PicksTab(k, t, TRUE)
                     \/ PicksTab(k, t, FALSE) \/ ClosesOther(k, t)

\* The agent opens and closes tabs; Chrome exits.
AgentTurns ==
  /\ tabs # {}
  /\ \/ \E t \in Tabs \ tabs : tabs' = tabs \cup {t}
     \/ \E t \in tabs : tabs' = tabs \ {t}
     \/ tabs' = {}
  /\ OnlyEvent
  /\ UNCHANGED <<rows, registry, view, link, req, late, dropped, client>>

RequestStep(q) ==
  \/ \E s \in Viewed : PopStale(q, s) \/ StopPops(q, s) \/ PostBegins(q, s)
  \/ \E l \in Ports : GetsForward(q, l)
  \/ ShutsView(q) \/ NoForwardToHost(q) \/ NoTarget(q) \/ AutoStarts(q)
  \/ StartFails(q)
  \/ \E t \in Tabs : PicksTarget(q, t)
  \/ \E w \in Links : ConnectsView(q, w)
  \/ \E v \in Views : RegistersView(q, v)

ViewNext ==
  \/ \E q \in Posts : RequestStep(q)
  \/ \E s \in Viewed : DeletesSession(s)
  \/ \E k \in Clients : ClientStep(k)
  \/ AgentTurns
  \/ FwdRoutes /\ UNCHANGED viewVars

ViewSpec == FwdInit /\ ViewInit /\ [][ViewNext]_bvars

-----------------------------------------------------------------------------
ViewTypeOK ==
  /\ FwdTypeOK
  /\ rows \subseteq Viewed /\ late \subseteq Viewed \ rows
  /\ dropped \subseteq Ports \cup {0}
  /\ tabs \subseteq Tabs
  /\ registry \in [Viewed -> Views \cup {Nobody}]
  /\ view \in [Views -> [port : Ports \cup {0}, target : Tabs \cup {Nobody},
                         ws : Links \cup {Nobody}, readers : SUBSET Clients]]
  /\ link \in [Links -> [tab : Tabs \cup {Nobody}, pid : Ssh \cup {0}]]
  /\ req \in [Posts -> [step : {"free", "shut", "start", "discover",
                                "browser", "connect", "setup"},
                         of : Viewed \cup {Nobody}, port : Ports \cup {0},
                         tab : Tabs \cup {Nobody}, ws : Links \cup {Nobody},
                         again : BOOLEAN]]
  /\ client \in [Clients -> [step : {"gone", "reopen", "open", "enter", "run",
                                     "switch", "connect", "close"},
                             of : Views \cup {Nobody},
                             reads : Links \cup {Nobody},
                             to : Tabs \cup {Nobody}, drop : BOOLEAN]]

\* However a start fails, whatever dies meanwhile and whoever else starts,
\* stops or deletes, a forward to Chrome does not outlive the views and
\* requests that use it, where a view is that of a session that is there.
\* Excepted are the views of sessions that were deleted during a start, those
\* another start of the session registered its own over, and all forwards once
\* two ssh processes were given one port, where close_tunnel may kill the other.
NoForwardLeaks ==
  ~clashed =>
    \A p \in Live :
      ssh[p].remote = Cdp =>
        \/ \E s \in rows \cup late :
             registry[s] # Nobody /\ view[registry[s]].port = ssh[p].local
        \/ \E q \in Posts : req[q].port = ssh[p].local
        \/ ssh[p].local \in dropped

=============================================================================
