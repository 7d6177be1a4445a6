----------------------------- MODULE RwsClient -----------------------------
(***************************************************************************)
(* The client of a remote host's daemon (terminal/_rws_client.py): one     *)
(* command socket through an SSH tunnel, shared by every thread that talks *)
(* to the host.  execute() reconnects outside the lock, then sends one     *)
(* JSON line and reads one line back under it, and tries again once when   *)
(* the connection breaks.  A message is named by the caller and call that  *)
(* sent it; call 0 is the ping of a new connection.                        *)
(***************************************************************************)
EXTENDS Naturals, Sequences, FiniteSets

CONSTANTS
  Callers,     \* threads that use the client
  NoCaller,    \* a lock nobody holds
  MaxCalls,    \* bound: execute() calls of each caller
  MaxSocks,    \* bound: connections that succeed
  MaxBreaks    \* bound: lost connections and tunnels

ASSUME CallersAssumption == Callers # {} /\ NoCaller \notin Callers
ASSUME ClientBounds ==
  MaxCalls \in Nat /\ MaxSocks \in Nat \ {0} /\ MaxBreaks \in Nat

VARIABLES
  sock,        \* _cmd_sock: a connection, or 0 for None
  buffer,      \* _cmd_buffer, in whole replies
  lock,        \* holder of _lock
  lifecycle,   \* holder of _lifecycle_lock
  tunnel,      \* the forward tunnel works
  opened,      \* connections made so far
  requests,    \* per connection: messages the daemon has not read
  replies,     \* per connection: answers the client has not read
  broken,      \* connections that are closed
  breaks,
  pc,          \* what the caller does next
  op,          \* the operation it performs
  mine,        \* the socket object a blocking call of the caller works on
  attempt,     \* the loop variable of execute
  calls,       \* calls started
  executed,    \* times the daemon ran the current command of the caller
  result       \* message whose answer the last execute() returned

connVars == <<tunnel, opened, broken, breaks>>
wireVars == <<requests, replies>>
callVars == <<op, attempt, calls, executed, result>>
rvars == <<sock, buffer, lock, lifecycle, connVars, wireVars, pc, mine,
           callVars>>

Socks == 1..MaxSocks
Messages == [by : Callers, call : 0..MaxCalls]
NoMessage == [by |-> NoCaller, call |-> 0]
Ping(c) == [by |-> c, call |-> 0]
Command(c) == [by |-> c, call |-> calls[c]]
RPCs == {"idle", "ensure", "install", "pong", "lock", "send", "more", "recv"}

\* start() has deployed the daemon, made the tunnel and connected.
RInit ==
  /\ sock = 1 /\ buffer = <<>> /\ lock = NoCaller /\ lifecycle = NoCaller
  /\ tunnel = TRUE /\ opened = 1 /\ broken = {} /\ breaks = 0
  /\ requests = [k \in Socks |-> <<>>] /\ replies = [k \in Socks |-> <<>>]
  /\ pc = [c \in Callers |-> "idle"] /\ op = [c \in Callers |-> "execute"]
  /\ mine = [c \in Callers |-> 0] /\ attempt = [c \in Callers |-> 0]
  /\ calls = [c \in Callers |-> 0] /\ executed = [c \in Callers |-> 0]
  /\ result = [c \in Callers |-> NoMessage]

-----------------------------------------------------------------------------
CallGoto(c, label) == pc' = [pc EXCEPT ![c] = label]

\* The caller leaves with an exception or a value, and with its locks.
Leave(c) ==
  /\ CallGoto(c, "idle")
  /\ mine' = [mine EXCEPT ![c] = 0]
  /\ lock' = IF lock = c THEN NoCaller ELSE lock
  /\ lifecycle' = IF lifecycle = c THEN NoCaller ELSE lifecycle

\* Closing a connection loses the answers that were on their way.
Closed(ks) ==
  /\ broken' = broken \cup ks
  /\ replies' = [k \in Socks |-> IF k \in ks THEN <<>> ELSE replies[k]]

Execute(c) ==
  /\ pc[c] = "idle" /\ calls[c] < MaxCalls
  /\ calls' = [calls EXCEPT ![c] = @ + 1]
  /\ op' = [op EXCEPT ![c] = "execute"]
  /\ attempt' = [attempt EXCEPT ![c] = 0]
  /\ executed' = [executed EXCEPT ![c] = 0]
  /\ result' = [result EXCEPT ![c] = NoMessage]
  /\ CallGoto(c, "ensure")
  /\ UNCHANGED <<sock, buffer, lock, lifecycle, connVars, wireVars, mine>>

\* reconnect_tunnel: kill the tunnel, close the command socket, start a new
\* tunnel (which may fail) and connect.
ReconnectTunnel(c) ==
  /\ pc[c] = "idle" /\ lifecycle = NoCaller
  /\ sock' = 0
  /\ buffer' = IF sock = 0 THEN buffer ELSE <<>>
  /\ Closed(1..opened)
  /\ op' = [op EXCEPT ![c] = "reconnect_tunnel"]
  /\ result' = [result EXCEPT ![c] = NoMessage]
  /\ \/ /\ opened < MaxSocks
        /\ tunnel' = TRUE /\ opened' = opened + 1
        /\ lifecycle' = c
        /\ mine' = [mine EXCEPT ![c] = opened + 1]
        /\ CallGoto(c, "install")
     \/ /\ tunnel' = FALSE
        /\ UNCHANGED <<opened, lifecycle, mine, pc>>
  /\ UNCHANGED <<lock, breaks, requests, attempt, calls, executed>>

\* _ensure_connected, before the lock is taken.
SeeSocket(c) ==
  /\ pc[c] = "ensure" /\ sock # 0
  /\ CallGoto(c, "lock")
  /\ UNCHANGED <<sock, buffer, lock, lifecycle, connVars, wireVars, mine,
                 callVars>>

Connect(c) ==
  /\ pc[c] = "ensure" /\ sock = 0 /\ tunnel /\ opened < MaxSocks
  /\ opened' = opened + 1
  /\ mine' = [mine EXCEPT ![c] = opened + 1]
  /\ CallGoto(c, "install")
  /\ UNCHANGED <<sock, buffer, lock, lifecycle, tunnel, broken, breaks,
                 wireVars, callVars>>

ConnectFails(c) ==
  /\ pc[c] = "ensure" /\ sock = 0
  /\ Leave(c)
  /\ UNCHANGED <<sock, buffer, connVars, wireVars, callVars>>

\* _connect_command_socket: publish the new socket, then ping on it.
Install(c) ==
  LET k == mine[c] IN
  /\ pc[c] = "install"
  /\ sock' = k /\ buffer' = <<>>
  /\ IF k \in broken
       THEN Leave(c) /\ UNCHANGED requests
       ELSE /\ requests' = [requests EXCEPT ![k] = Append(@, Ping(c))]
            /\ CallGoto(c, "pong")
            /\ UNCHANGED <<lock, lifecycle, mine>>
  /\ UNCHANGED <<connVars, replies, callVars>>

\* _recv_line keeps the first line of what has arrived and drops the rest.
PongArrives(c) ==
  LET k == mine[c] IN
  /\ pc[c] = "pong" /\ replies[k] # <<>>
  /\ IF Head(replies[k]).call = 0
       THEN /\ replies' = [replies EXCEPT ![k] = <<>>]
            /\ IF op[c] = "execute"
                 THEN CallGoto(c, "lock") /\ UNCHANGED <<lock, lifecycle, mine>>
                 ELSE Leave(c)
            /\ UNCHANGED <<sock, broken>>
       ELSE sock' = 0 /\ Closed({k}) /\ Leave(c)
  /\ UNCHANGED <<buffer, tunnel, opened, breaks, requests, callVars>>

\* No pong: the socket is closed, and _cmd_sock cleared whichever it is now.
PongMissing(c) ==
  /\ pc[c] = "pong" /\ replies[mine[c]] = <<>>
  /\ sock' = 0 /\ Closed({mine[c]}) /\ Leave(c)
  /\ UNCHANGED <<buffer, tunnel, opened, breaks, requests, callVars>>

-----------------------------------------------------------------------------
\* Under the lock, look at _cmd_sock again.
TakeLock(c) ==
  /\ pc[c] = "lock" /\ lock = NoCaller
  /\ IF sock # 0
       THEN /\ lock' = c
            /\ CallGoto(c, "send")
            /\ UNCHANGED <<attempt, lifecycle, mine>>
       ELSE IF attempt[c] = 0
       THEN /\ attempt' = [attempt EXCEPT ![c] = 1]
            /\ CallGoto(c, "ensure")
            /\ UNCHANGED <<lock, lifecycle, mine>>
       ELSE Leave(c) /\ UNCHANGED attempt
  /\ UNCHANGED <<sock, buffer, connVars, wireVars, op, calls, executed, result>>

\* Mutants: the lock is kept over the retry; the loop runs once too often.
ConnectionLostLocked(c) ==
  /\ sock' = 0 /\ buffer' = <<>>
  /\ IF attempt[c] = 0
       THEN /\ attempt' = [attempt EXCEPT ![c] = 1]
            /\ CallGoto(c, "ensure")
            /\ UNCHANGED <<lock, lifecycle, mine>>
       ELSE Leave(c) /\ UNCHANGED attempt
  /\ UNCHANGED <<connVars, wireVars, op, calls, executed, result>>

ConnectionLostThrice(c) ==
  /\ sock' = 0 /\ buffer' = <<>>
  /\ attempt' = [attempt EXCEPT ![c] = @ + 1]
  /\ IF attempt[c] < 2
       THEN /\ lock' = NoCaller
            /\ CallGoto(c, "ensure")
            /\ UNCHANGED <<lifecycle, mine>>
       ELSE Leave(c)
  /\ UNCHANGED <<connVars, wireVars, op, calls, executed, result>>

\* The connection was closed: drop it, and try again once.
ConnectionLost(c) ==
  /\ sock' = 0 /\ buffer' = <<>>
  /\ IF attempt[c] = 0
       THEN /\ attempt' = [attempt EXCEPT ![c] = 1]
            /\ lock' = NoCaller
            /\ CallGoto(c, "ensure")
            /\ UNCHANGED <<lifecycle, mine>>
       ELSE Leave(c) /\ UNCHANGED attempt
  /\ UNCHANGED <<connVars, wireVars, op, calls, executed, result>>

\* Another thread has cleared _cmd_sock: AttributeError leaves execute.
SocketVanished(c) ==
  /\ \/ pc[c] = "send"
     \/ pc[c] = "more" /\ buffer = <<>>
  /\ sock = 0
  /\ Leave(c)
  /\ UNCHANGED <<sock, buffer, connVars, wireVars, callVars>>

Send(c) ==
  /\ pc[c] = "send" /\ sock # 0 /\ sock \notin broken
  /\ requests' = [requests EXCEPT ![sock] = Append(@, Command(c))]
  /\ CallGoto(c, "more")
  /\ UNCHANGED <<sock, buffer, lock, lifecycle, connVars, replies, mine,
                 callVars>>

SendFails(c) ==
  /\ pc[c] = "send" /\ sock \in broken
  /\ ConnectionLost(c)

\* while b"\n" not in _cmd_buffer: recv on what _cmd_sock is now.
BeginRecv(c) ==
  /\ pc[c] = "more" /\ buffer = <<>> /\ sock # 0
  /\ mine' = [mine EXCEPT ![c] = sock]
  /\ CallGoto(c, "recv")
  /\ UNCHANGED <<sock, buffer, lock, lifecycle, connVars, wireVars, callVars>>

Recv(c) ==
  /\ pc[c] = "recv" /\ replies[mine[c]] # <<>>
  /\ buffer' = buffer \o replies[mine[c]]
  /\ replies' = [replies EXCEPT ![mine[c]] = <<>>]
  /\ CallGoto(c, "more")
  /\ UNCHANGED <<sock, lock, lifecycle, connVars, requests, mine, callVars>>

RecvEof(c) ==
  /\ pc[c] = "recv" /\ replies[mine[c]] = <<>> /\ mine[c] \in broken
  /\ ConnectionLost(c)

\* "Timeout leaves socket in indeterminate state -- discard": it stays open.
Timeout(c) ==
  /\ pc[c] = "recv" /\ replies[mine[c]] = <<>> /\ mine[c] \notin broken
  /\ sock' = 0 /\ buffer' = <<>>
  /\ Leave(c)
  /\ UNCHANGED <<connVars, wireVars, callVars>>

GiveReply(c) ==
  /\ pc[c] = "more" /\ buffer # <<>>
  /\ result' = [result EXCEPT ![c] = Head(buffer)]
  /\ buffer' = Tail(buffer)
  /\ Leave(c)
  /\ UNCHANGED <<sock, connVars, wireVars, op, attempt, calls, executed>>

-----------------------------------------------------------------------------
\* The daemon reads the next line of a connection, executes it and answers.
DaemonAnswers(k) ==
  LET m == Head(requests[k]) IN
  /\ requests[k] # <<>>
  /\ requests' = [requests EXCEPT ![k] = Tail(@)]
  /\ replies' = IF k \in broken THEN replies
                ELSE [replies EXCEPT ![k] = Append(@, m)]
  /\ executed' = IF m = Command(m.by) /\ m.call # 0
                 THEN [executed EXCEPT ![m.by] = @ + 1] ELSE executed
  /\ UNCHANGED <<sock, buffer, lock, lifecycle, connVars, pc, mine, op, attempt,
                 calls, result>>

SocketBreaks(k) ==
  /\ breaks < MaxBreaks /\ breaks' = breaks + 1
  /\ k <= opened /\ k \notin broken
  /\ Closed({k})
  /\ UNCHANGED <<sock, buffer, lock, lifecycle, tunnel, opened, requests, pc,
                 mine, callVars>>

TunnelDies ==
  /\ breaks < MaxBreaks /\ breaks' = breaks + 1
  /\ tunnel /\ tunnel' = FALSE
  /\ Closed(1..opened)
  /\ UNCHANGED <<sock, buffer, lock, lifecycle, opened, requests, pc, mine,
                 callVars>>

-----------------------------------------------------------------------------
CallerStep(c) ==
  \/ SeeSocket(c) \/ Connect(c) \/ ConnectFails(c) \/ Install(c)
  \/ PongArrives(c) \/ PongMissing(c) \/ TakeLock(c) \/ SocketVanished(c)
  \/ Send(c) \/ SendFails(c) \/ BeginRecv(c) \/ Recv(c) \/ RecvEof(c)
  \/ Timeout(c) \/ GiveReply(c)

RNext ==
  \/ \E c \in Callers : Execute(c) \/ ReconnectTunnel(c) \/ CallerStep(c)
  \/ \E k \in Socks : DaemonAnswers(k) \/ SocketBreaks(k)
  \/ TunnelDies

RSpec == RInit /\ [][RNext]_rvars

\* Threads are scheduled, and every blocking call has a timeout.
RFairness == \A c \in Callers : WF_rvars(CallerStep(c))

RFairSpec == RSpec /\ RFairness

-----------------------------------------------------------------------------
\* Every variable has its type: the client, the wire and its callers.
RTypeOK ==
  /\ sock \in 0..MaxSocks
  /\ buffer \in Seq(Messages)
  /\ lock \in Callers \cup {NoCaller} /\ lifecycle \in Callers \cup {NoCaller}
  /\ tunnel \in BOOLEAN /\ opened \in 0..MaxSocks /\ broken \subseteq Socks
  /\ breaks \in 0..MaxBreaks
  /\ requests \in [Socks -> Seq(Messages)]
  /\ replies \in [Socks -> Seq(Messages)]
  /\ pc \in [Callers -> RPCs]
  /\ op \in [Callers -> {"execute", "reconnect_tunnel"}]
  /\ mine \in [Callers -> 0..MaxSocks] /\ attempt \in [Callers -> 0..1]
  /\ calls \in [Callers -> 0..MaxCalls] /\ executed \in [Callers -> Nat]
  /\ result \in [Callers -> Messages \cup {NoMessage}]

\* One retry: the daemon runs a command (a pty_create, say) at most twice.
ExecutedAtMostTwice == \A c \in Callers : executed[c] <= 2

\* Every call returns or raises: no thread waits for ever for the lock, the
\* socket or an answer that another thread took.
CallsEnd == \A c \in Callers : pc[c] # "idle" ~> pc[c] = "idle"

-----------------------------------------------------------------------------
\* What the docstring of execute claims and the code does not do.  "Thread-safe:
\* uses a lock to serialize access to the command socket": execute() returns the
\* daemon's answer to the command it was given.
OwnReply ==
  \A c \in Callers : result[c] # NoMessage => result[c] = Command(c)

=============================================================================
