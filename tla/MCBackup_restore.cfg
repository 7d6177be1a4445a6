\* A request is served while the database is restored.
SPECIFICATION BackupSpec
CONSTANTS
  Backups = {loop, b1}
  Loop = loop
  Restorers = {r1}
  Writers = {w1, w2}
  Retention = 1
  MaxTime = 2
  MaxFailures = 0
CHECK_DEADLOCK FALSE
INVARIANTS
  RestoredIsWhatWasSaved
