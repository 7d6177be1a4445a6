------------------------------- MODULE MCRemote -------------------------------
(* The connection to a remote host: threads on the command socket of one     *)
(* client, and the pool of clients with the daemons they start.  The two     *)
(* share no state here: a behaviour is a behaviour of one of them.           *)
EXTENDS RwsClient, RwsPool

VARIABLE part

MCInit ==
  /\ RInit /\ PoolInit
  /\ \/ part = "pool"
     \/ part = "socket" /\ pidFile = None

MCNext ==
  /\ UNCHANGED part
  /\ \/ part = "socket" /\ RNext /\ UNCHANGED poolVars
     \/ part = "pool" /\ PoolNext /\ UNCHANGED rvars

MCSpec ==
  /\ MCInit /\ [][MCNext]_<<part, rvars, poolVars>>
  /\ RFairness /\ PoolFairness
  /\ \A t \in Users : WF_poolVars(part = "pool" /\ Asks(t))

-----------------------------------------------------------------------------
\* Every variable of the two modules has its type.
RemoteTypeOK == RTypeOK /\ PoolTypeOK

\* The pool of clients recovers, in every behaviour that uses it
\* (get_remote_worker_server, RwsPool!PoolRecovers).
PoolComesBack == part = "pool" => PoolRecovers

=============================================================================
