\* Two threads restart the tunnel of one session.
SPECIFICATION USpec
CONSTANTS
  Sessions = {s1}
  Threads = {t1, t2}
  Procs = {p1, p2, p3, p4, p5}
  NoProc = NoProc
  MaxFailures = 2
  MaxFaults = 0
CHECK_DEADLOCK FALSE
INVARIANTS
  NoOrphanTunnels
