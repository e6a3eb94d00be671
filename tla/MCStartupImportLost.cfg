SPECIFICATION Spec
CONSTANTS
  a = a
  b = b
  Replica = {a, b}
  PoolSize = 2
  Earlier = FALSE
  MaxLosses = 1
  MaxCrashes = 0
  MaxClears = 1
INVARIANTS
  OneImporter
