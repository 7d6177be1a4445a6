\* Every component at its bounds.
SPECIFICATION MCSpec
CONSTANTS
  Hosts = {h1}
  Ports = {1, 2, 3}
  Services = {1, 2}
  Asked = {2}
  Reserved = {1}
  Ssh = {1, 2}
  Askers = {a1}
  MaxEvents = 3
  Viewed = {s1, s2}
  Posts = {s1, s2}
  Host = h1
  Cdp = 1
  Clients = {k1}
  Tabs = {b1, b2}
  Views = {v1, v2}
  Links = {w1, w2}
  Nobody = Nobody
  Locals = {s1, s2}
  Pages = {p1, p2, p3}
  NoPage = NoPage
  MaxTurns = 5
  Sessions = {s1, s2}
  MaxBrowsers = 3
  Requests = {s1, s2}
  Paths = {f1, f2}
  MaxVersion = 3
  Notebooks = {s1, s2}
  MaxKernels = 2
  MaxRuns = 1
  Senders = {s1, s2}
  MaxEnters = 3
  Backups = {c1, c2}
  Loop = c1
  Restorers = {r1}
  Writers = {w1}
  Retention = 2
  MaxTime = 4
  MaxFailures = 2
  Watchers = {s1, s2}
  MaxOutput = 0
  MaxPanes = 1
  MaxReaders = 3
  MaxBuffer = 1
  MaxFaults = 0
SYMMETRY MCSymmetry
CHECK_DEADLOCK FALSE
INVARIANTS
  ViewTypeOK
  NoForwardLeaks
  TabTypeOK
  StrayingSharesOnlyOwnTabs
  NoBrowserEscapes
  CompleteIsLast
  OneInstallThread
  GivenAtMostOnce
  KeepsABackup
  NoStrayReader
  ReaderHasConsumer
PROPERTIES
  SavesReplaceNothingNewer
