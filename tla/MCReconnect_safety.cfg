\* Two threads race to reconnect one session while agents, network, routes and
\* the orchestrator itself interfere.
SPECIFICATION Spec
CONSTANTS
  Sessions = {s1}
  Threads = {t1, t2}
  Ptys = {p1, p2, p3}
  NoPty = NoPty
  MaxOutages = 1
  MaxDeaths = 2
  MaxOps = 1
  MaxRestarts = 1
  MaxAttempts = 1
SYMMETRY MCSymmetry
CHECK_DEADLOCK FALSE
INVARIANTS
  TypeOK
  OnePipelinePerSession
  OneAgentPerSession
  NoAbandonedLock
PROPERTIES
  OrphanReused
  ImplementsAgentSlots
