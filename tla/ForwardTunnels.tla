--------------------------- MODULE ForwardTunnels ---------------------------
(***************************************************************************)
(* The SSH port forwards of the server (session/tunnel.py, first half):    *)
(* processes found with ps and remembered for five seconds.  A forward is  *)
(* created in two steps, choosing a local port and spawning ssh, which     *)
(* threads of the tunnel routes interleave; callers on the event loop do   *)
(* both at once, as the whole call blocks the loop.                        *)
(***************************************************************************)
EXTENDS Naturals, FiniteSets, FiniteSetsExt

CONSTANTS
  Hosts,
  Ports,       \* local ports; a service asks for the port of its own number
  Services,    \* remote ports that get forwarded
  Asked,       \* those the clients of the routes ask for
  Reserved,    \* RESERVED_PORTS
  Ssh,         \* process ids
  Askers,      \* threads of the tunnel routes
  MaxEvents    \* bound: requests, and things that go wrong by themselves

ASSUME PortsAssumption ==
  /\ Ports \subseteq Nat \ {0} /\ Services \subseteq Ports
  /\ Asked \subseteq Services

\* There is a largest process id; no process has the id 0.
ASSUME SshAssumption ==
  /\ Ssh \subseteq Nat \ {0}
  /\ \E max \in Ssh : \A p \in Ssh : p <= max

ASSUME EventsAssumption == MaxEvents \in Nat

VARIABLES
  ssh,         \* what each live process forwards
  found,       \* _tunnel_cache: local port -> entry; empty once it is stale
  ask,         \* what each asker is about to spawn
  clashed,     \* history: two processes were given the same local port
  events

fwdVars == <<ssh, found, ask, clashed, events>>

Nothing == [pid |-> 0, host |-> "none", local |-> 0, remote |-> 0]
NoForward == [host |-> "none", local |-> 0, remote |-> 0]
NoCache == [l \in Ports |-> Nothing]
Forwards == [host : Hosts, local : Ports, remote : Services]
Entries == [pid : Ssh, host : Hosts, local : Ports, remote : Services]

Live == {p \in Ssh : ssh[p] # NoForward}
On(l) == {p \in Live : ssh[p].local = l}

FwdInit ==
  /\ ssh = [p \in Ssh |-> NoForward]
  /\ found = NoCache
  /\ ask = [a \in Askers |-> NoForward]
  /\ clashed = FALSE
  /\ events = 0

-----------------------------------------------------------------------------
\* The dictionary made from ps: of two processes on one port, the later line.
Scan == [l \in Ports |->
          IF On(l) = {} THEN Nothing
          ELSE LET p == Max(On(l)) IN
               [pid |-> p, host |-> ssh[p].host, local |-> l,
                remote |-> ssh[p].remote]]

\* discover_active_tunnels: an empty cache is not used, however young.
Discovered ==
  IF found # NoCache THEN found ELSE Scan

Discovers == found' = Discovered
Invalidates == found' = NoCache

\* The local ports of forwards that create_tunnel would use again.
Reusable(h, r) ==
  {l \in Ports : /\ Discovered[l].host = h /\ Discovered[l].remote = r
                 /\ Discovered[l].pid \in Live}

\* find_available_port
FreeFrom(n) == {l \in Ports : l >= n /\ l \notin Reserved /\ On(l) = {}}

\* The port a new forward gets, {} when there is none: the service's own,
\* unless it is reserved or taken.
PortFor(r) ==
  LET free == IF r \notin Reserved /\ On(r) = {} THEN {r} ELSE FreeFrom(r + 1)
  IN  IF free = {} THEN {} ELSE {Min(free)}

\* ssh -N -L; the process outlives a bind that fails.
Spawns(p, forward) ==
  /\ p \notin Live
  /\ \A l \in Ports : found[l].pid # p
  /\ ssh' = [ssh EXCEPT ![p] = forward]
  /\ clashed' = (clashed \/ On(forward.local) # {})
  /\ Invalidates

\* close_tunnel with the host as a safety check.
Closes(l, h) ==
  LET e == Discovered[l] IN
  IF e.host = h
  THEN /\ ssh' = [ssh EXCEPT ![e.pid] = NoForward]
       /\ Invalidates
  ELSE Discovers /\ UNCHANGED ssh

-----------------------------------------------------------------------------
(* The tunnel routes.                                                      *)

Event == events < MaxEvents /\ events' = events + 1

\* create_session_tunnel reuses a forward, or chooses a port for a new one.
AskReuses(a, h, r) ==
  /\ Event /\ ask[a] = NoForward
  /\ Reusable(h, r) # {}
  /\ Discovers
  /\ UNCHANGED <<ssh, ask, clashed>>

AskChooses(a, h, r) ==
  /\ Event /\ ask[a] = NoForward
  /\ Reusable(h, r) = {}
  /\ \E l \in PortFor(r) :
       ask' = [ask EXCEPT ![a] = [host |-> h, local |-> l, remote |-> r]]
  /\ Discovers
  /\ UNCHANGED <<ssh, clashed>>

\* ssh that exits within 0.2 s is reported as a failure.
AskSpawns(a) ==
  /\ ask[a] # NoForward
  /\ \/ \E p \in Ssh : Spawns(p, ask[a])
     \/ UNCHANGED <<ssh, found, clashed>>
  /\ ask' = [ask EXCEPT ![a] = NoForward]
  /\ UNCHANGED events

\* close_session_tunnel, for whatever port the client names.
AskCloses(l, h) ==
  /\ Event
  /\ Closes(l, h)
  /\ UNCHANGED <<ask, clashed>>

\* list_session_tunnels; list_all_tunnels scans whatever the cache says.
AskLists ==
  /\ Event
  /\ \/ Discovers
     \/ found' = Scan
  /\ UNCHANGED <<ssh, ask, clashed>>

ForwardDies(p) ==
  /\ Event /\ p \in Live
  /\ ssh' = [ssh EXCEPT ![p] = NoForward]
  /\ UNCHANGED <<found, ask, clashed>>

CacheExpires ==
  /\ found # NoCache
  /\ Invalidates
  /\ UNCHANGED <<ssh, ask, clashed, events>>

FwdRoutes ==
  \/ \E a \in Askers, h \in Hosts, r \in Asked :
       AskReuses(a, h, r) \/ AskChooses(a, h, r)
  \/ \E a \in Askers : AskSpawns(a)
  \/ \E l \in Ports, h \in Hosts : AskCloses(l, h)
  \/ AskLists
  \/ \E p \in Ssh : ForwardDies(p)
  \/ CacheExpires

FwdTypeOK ==
  /\ ssh \in [Ssh -> Forwards \cup {NoForward}]
  /\ found \in [Ports -> Entries \cup {Nothing}]
  /\ clashed \in BOOLEAN
  /\ ask \in [Askers -> Forwards \cup {NoForward}]
  /\ events \in 0..MaxEvents

=============================================================================
