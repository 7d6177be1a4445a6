\* One session: the monitor, a reconnecting thread, outages, deaths, a restart.
SPECIFICATION MSpec
CONSTANTS
  Sessions = {s1}
  Threads = {mon, t1}
  Monitor = mon
  ProbeEvery = 1
  MaxChecks = 1
  Procs = {p1, p2, p3}
  NoProc = NoProc
  MaxFailures = 2
  MaxFaults = 1
CHECK_DEADLOCK FALSE
INVARIANTS
  MTypeOK
PROPERTIES
  CleanupSparesTheNew
  TunnelRecovers
