SPECIFICATION MCSpec
CONSTANTS
  r1 = r1
  r2 = r2
  Request = {r1, r2}
  QueueSize = 2
  MaxLines = 5
  MaxReceived = 3
INVARIANTS
  ActiveRequestsFinish
  StopLosesNoEvent
  EveryLineAccountedFor
PROPERTIES
  ProcessEnds
  ChannelDrains
CHECK_DEADLOCK FALSE
