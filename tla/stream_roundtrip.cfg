SPECIFICATION RoundTrip
CONSTANTS
  Window = 3
  Hop = 2
  PlanSize = 3
  Pieces = {0, 1, 2, 5}
  Limits = {0, 1}
  MaxReceived = 8
  Batches = {0, 1, 2}
  SampleLimits = {0, 2}
  MaxFrames = 3
  MaxQueued = 8
INVARIANTS OwesTheRest SumsTheOverlap NormMatches FlushCompletes GivesTheSignalBack
PROPERTY DeliversTheSignal
