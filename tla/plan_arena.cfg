SPECIFICATION Spec
CONSTANTS
  Size = 2
  MaxThreads = 4
  MaxLanes = 4
  Packet = 2
  Hardware = 2
  Slots = {0, 1}
  Configs <- SomeConfigs
  Steps = {1, 3, 5}
  Widths = {2, 4}
  Requests <- SomeRequests
INVARIANTS BuffersInBounds ScratchSurvives LanesAsAsked
PROPERTIES ParallelismKept
