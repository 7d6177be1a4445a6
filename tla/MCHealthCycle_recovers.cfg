\* The network fails once, or the agent dies and the orchestrator restarts.
SPECIFICATION MCSpec
CONSTANTS
  Sessions = {s1}
  Threads = {t1}
  Ptys = {p1, p2}
  NoPty = NoPty
  Checkers = {c1}
  MaxOutages = 1
  MaxDeaths = 1
  MaxOps = 0
  MaxRestarts = 1
  MaxAttempts = 1
  FailureThreshold = 2
CHECK_DEADLOCK FALSE
PROPERTIES
  AlwaysRecovers
