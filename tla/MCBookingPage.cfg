SPECIFICATION MCSpec
CONSTANTS
  a = a
  b = b
  d = d
  t = t
  Room = {a, b}
  Date = {d}
  Time = {t}
  None = None
  MaxRestarts = 0
  MaxPolls = 1
  MaxLoads = 2
SYMMETRY RoomSymmetry
INVARIANTS
  PageTruthful
PROPERTIES
  WaitingEnds
CHECK_DEADLOCK FALSE
