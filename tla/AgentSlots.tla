----------------------------- MODULE AgentSlots -----------------------------
(***************************************************************************)
(* What the reconnect machinery of a host promises, without threads, locks,*)
(* rows or a daemon: agents of a session are launched and terminated only  *)
(* while the session is claimed by one reconnect, and launched only when   *)
(* none of its agents runs, or nobody can tell any more (doubtful).        *)
(* Reconnect implements this.                                              *)
(***************************************************************************)
CONSTANTS Sessions, Agents

VARIABLES
  running,   \* the agents of each session that run
  claimed,   \* sessions a reconnect is working on
  doubtful   \* sessions whose agents it lost track of

slotVars == <<running, claimed, doubtful>>

SlotsInit ==
  /\ running = [s \in Sessions |-> {}]
  /\ claimed = {} /\ doubtful = {}

Claim(s) ==
  /\ s \notin claimed
  /\ claimed' = claimed \cup {s}
  /\ UNCHANGED <<running, doubtful>>

GiveBack(s) ==
  /\ s \in claimed
  /\ claimed' = claimed \ {s}
  /\ UNCHANGED <<running, doubtful>>

\* An agent that does not run yet starts; two do when the request was sent
\* again after it had been served.
Launch(s, as) ==
  /\ s \in claimed
  /\ running[s] = {} \/ s \in doubtful
  /\ \A r \in Sessions : as \cap running[r] = {}
  /\ running' = [running EXCEPT ![s] = @ \cup as]
  /\ \/ (\E a \in as : as = {a}) /\ doubtful' = doubtful
     \/ doubtful' = doubtful \cup {s}
  /\ UNCHANGED claimed

Terminate(s) ==
  /\ s \in claimed
  /\ running' = [running EXCEPT ![s] = {}]
  /\ UNCHANGED <<claimed, doubtful>>

LoseTrack(s) ==
  /\ s \in claimed
  /\ doubtful' = doubtful \cup {s}
  /\ UNCHANGED <<running, claimed>>

\* An agent exits by itself.
Exit(s, a) ==
  /\ running' = [running EXCEPT ![s] = @ \ {a}]
  /\ UNCHANGED <<claimed, doubtful>>

\* The orchestrator restarts: its claims end, the agents run on.
Restart ==
  /\ claimed' = {}
  /\ UNCHANGED <<running, doubtful>>

SlotsNext ==
  \/ \E s \in Sessions :
       \/ Claim(s) \/ GiveBack(s) \/ Terminate(s) \/ LoseTrack(s)
       \/ \E as \in SUBSET Agents : Launch(s, as)
       \/ \E a \in Agents : Exit(s, a)
  \/ Restart

SlotsSpec == SlotsInit /\ [][SlotsNext]_slotVars

\* What the promise is for: a session about which nothing is in doubt has at
\* most one running agent.
OneAgentPerSlot ==
  \A s \in Sessions \ doubtful : \A a, b \in running[s] : a = b

=============================================================================
