--------------------------- MODULE MCSessionActors ---------------------------
(* Everything that acts on a session beside the reconnect threads: health    *)
(* checks, the cycle that runs them over all workers of a host, terminals,   *)
(* and the routes that create and delete.  Each kind of actor works beside   *)
(* the reconnect threads at its own bounds; in "together" checks, terminals  *)
(* and deletes of one session interleave.  Reconnect threads are             *)
(* interchangeable.                                                          *)
EXTENDS SessionActors, TLC

VARIABLE part

First == NoJob.target

MCInit ==
  /\ part \in {"checks", "cycle", "terminals", "lifecycle", "together"}
  /\ status = [s \in Sessions |->
                 IF part = "lifecycle" \/ (s # First /\ part # "cycle")
                 THEN Absent ELSE "disconnected"]
  /\ part # "checks" => assigned = {}
  /\ ActorsInit

\* Bounds of the parts: PTYs, reconnect threads at work, faults.
AtMostPtys(n) == Cardinality({p \in Ptys : pty'[p] # "unused"}) <= n
OneThread ==
  \A t, u \in Threads : pc'[t] # "free" /\ pc'[u] # "free" => t = u
OneDelete ==
  \A d \in Deleters \ {CHOOSE d \in Deleters : TRUE} : dpc'[d] = "free"
TwoFaults == outages' + deaths' + restarts' <= 2
\* Two deletes of a session drop its lock, whether they delete it or not.
TwoLocks == registry'[First] <= 2
NoDeathsOrOutages == outages' = 0 /\ deaths' = 0
\* All checks are the cycle's own: its executor joins them.
PoolJoined ==
  cpc = "joining" /\ cpc' # cpc => \A c \in Checkers : hpc[c] = "free"

MCNext ==
  /\ UNCHANGED part
  /\ \/ /\ part = "checks" /\ (Reconnecting \/ Checking \/ ActorsRestart)
        /\ OneThread /\ TwoFaults
     \/ /\ part = "cycle" /\ (Reconnecting \/ Cycling)
        /\ OneThread /\ PoolJoined /\ NoDeathsOrOutages /\ AtMostPtys(2)
     \/ /\ part = "terminals" /\ (Reconnecting \/ Viewing \/ ActorsRestart)
        /\ TwoFaults
     \/ /\ part = "lifecycle"
        /\ Reconnecting \/ CreatingOrDeleting \/ ActorsRestart
        /\ NoDeathsOrOutages /\ AtMostPtys(2) /\ created' \subseteq {First}
        /\ TwoLocks
        /\ restarts' > 0 => OneDelete
        /\ kept' # {} => OneDelete /\ restarts' = 0 /\ AtMostPtys(1)
     \/ /\ part = "together"
        /\ Reconnecting \/ Checking \/ Viewing \/ CreatingOrDeleting
        /\ OneThread /\ OneDelete /\ created' = created /\ kept' = {}
        /\ NoDeathsOrOutages /\ AtMostPtys(2)

MCVars == <<part, avars>>
MCSpec == MCInit /\ [][MCNext]_MCVars

MCSymmetry == Permutations(Threads)

=============================================================================
