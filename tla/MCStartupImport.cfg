SPECIFICATION FairSpec
CONSTANTS
  a = a
  b = b
  Replica = {a, b}
  PoolSize = 2
  Earlier = FALSE
  MaxLosses = 1
  MaxCrashes = 1
  MaxClears = 1
INVARIANTS
  LockIsCovered
  ImportedOnce
  ReadyMeansImported
PROPERTIES
  EveryCheckEnds
