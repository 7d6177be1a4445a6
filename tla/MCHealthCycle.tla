---------------------------- MODULE MCHealthCycle ----------------------------
(* Model-checking instance of HealthCycle.  A behaviour has one fault: the *)
(* network, or an agent's death and a restart of the orchestrator. *)
EXTENDS HealthCycle

VARIABLE scenario

MCInit == CInit /\ scenario \in {"outage", "death"}

MCNext ==
  /\ UNCHANGED scenario
  /\ CNext
  /\ IF scenario = "outage" THEN deaths' = 0 /\ restarts' = 0
                            ELSE outages' = 0

MCSpec == MCInit /\ [][MCNext]_<<scenario, cvars>> /\ CFairness

=============================================================================
