\* A reconnect whose pty_list is lost kills the agent it came to save.
SPECIFICATION Spec
CONSTANTS
  Sessions = {s1}
  Threads = {t1}
  Ptys = {p1, p2}
  NoPty = NoPty
  MaxOutages = 2
  MaxDeaths = 0
  MaxOps = 0
  MaxRestarts = 1
  MaxAttempts = 2
CHECK_DEADLOCK FALSE
PROPERTIES
  ReconnectKeepsAgents
