-------------------------- MODULE AgentSlotsProofs --------------------------
(***************************************************************************)
(* What the abstract specification of reconnecting guarantees, for any     *)
(* sessions and agents.                                                    *)
(***************************************************************************)
EXTENDS AgentSlots, TLAPS

SlotsInv == running \in [Sessions -> SUBSET Agents] /\ OneAgentPerSlot

\* Launching only when none runs, or in doubt, is enough.
THEOREM SlotsHaveOneAgent == SlotsSpec => []OneAgentPerSlot
<1>1. SlotsInit => SlotsInv
  BY DEF SlotsInit, SlotsInv, OneAgentPerSlot
<1>2. SlotsInv /\ [SlotsNext]_slotVars => SlotsInv'
  <2> SUFFICES ASSUME SlotsInv, [SlotsNext]_slotVars
               PROVE  SlotsInv'
    OBVIOUS
  <2> USE DEF SlotsInv, OneAgentPerSlot
  <2>1. ASSUME NEW s \in Sessions, Claim(s) \/ GiveBack(s) \/ LoseTrack(s)
        PROVE  SlotsInv'
    BY <2>1 DEF Claim, GiveBack, LoseTrack
  <2>2. ASSUME NEW s \in Sessions, Terminate(s)
        PROVE  SlotsInv'
    BY <2>2 DEF Terminate
  <2>3. ASSUME NEW s \in Sessions, NEW as \in SUBSET Agents, Launch(s, as)
        PROVE  SlotsInv'
    <3>1. running' \in [Sessions -> SUBSET Agents]
      BY <2>3 DEF Launch
    <3>2. \A r \in Sessions : running'[r] = IF r = s THEN running[s] \cup as
                                                     ELSE running[r]
      BY <2>3 DEF Launch
    <3>3. CASE s \in doubtful'
      BY <2>3, <3>1, <3>2, <3>3 DEF Launch
    <3>4. CASE s \notin doubtful'
      <4>1. running[s] = {} /\ \E a \in as : as = {a}
        BY <2>3, <3>4 DEF Launch
      <4> QED
        BY <2>3, <3>1, <3>2, <4>1 DEF Launch
    <3> QED
      BY <3>3, <3>4
  <2>4. ASSUME NEW s \in Sessions, NEW a \in Agents, Exit(s, a)
        PROVE  SlotsInv'
    BY <2>4 DEF Exit
  <2>5. CASE Restart \/ UNCHANGED slotVars
    BY <2>5 DEF Restart, slotVars
  <2> QED
    BY <2>1, <2>2, <2>3, <2>4, <2>5 DEF SlotsNext
<1> QED
  BY <1>1, <1>2, PTL DEF SlotsSpec, SlotsInv

=============================================================================
