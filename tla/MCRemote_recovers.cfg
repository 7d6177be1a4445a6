\* Two threads on one client; a pool, a background start and forced restarts.
SPECIFICATION MCSpec
CONSTANTS
  Callers = {c1, c2}
  NoCaller = NoCaller
  MaxCalls = 1
  MaxSocks = 3
  MaxBreaks = 1
  Users = {u1}
  Bg = bg
  Daemons = {d1, d2, d3}
  Servers = {x1, x2, x3}
  None = None
  MaxTroubles = 2
CHECK_DEADLOCK FALSE
INVARIANTS
  RemoteTypeOK
  ExecutedAtMostTwice
PROPERTIES
  CallsEnd
  PoolComesBack
