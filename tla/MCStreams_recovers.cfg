\* Three parts side by side, each at its own bounds.
SPECIFICATION MCSpec
CONSTANTS
  Watchers = {k1}
  MaxOutput = 2
  MaxPanes = 2
  MaxReaders = 3
  MaxBuffer = 1
  MaxFaults = 1
  PtyIds = {p1}
  Terminals = {t1, t2}
  MaxChunks = 3
  RingMax = 1
  SocketMax = 2
  MaxSpent = 1
  Checker = hc
  Requests = {r1}
  MaxTroubles = 3
CHECK_DEADLOCK FALSE
INVARIANTS
  DaemonTypeOK
  LiveHasNoGap
  HistoryMeetsLive
PROPERTIES
  ReaderComesBack
  ViewCatchesUp
  OutputArrives
  LocalRecovers
