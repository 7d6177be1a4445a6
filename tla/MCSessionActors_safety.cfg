\* Checks, the cycle over two sessions, a terminal, two deletes.
SPECIFICATION MCSpec
CONSTANTS
  Sessions = {s1, s2}
  Threads = {t1, t2}
  Ptys = {p1, p2, p3}
  NoPty = NoPty
  Checkers = {c1}
  Viewers = {v1}
  Deleters = {d1, d2}
  MaxOutages = 1
  MaxDeaths = 1
  MaxOps = 0
  MaxRestarts = 1
  MaxAttempts = 1
  FailureThreshold = 2
SYMMETRY MCSymmetry
CHECK_DEADLOCK FALSE
INVARIANTS
  ActorsTypeOK
  RowPtyIsOwn
  OnePipelineWhileRowExists
  NoLockSurvivesItsHolder
  OneAgentWhileRowExists
PROPERTIES
  CheckSeesTheAgent
  AgentSurvivesTerminals
