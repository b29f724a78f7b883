SPECIFICATION Spec
CONSTANTS
  Hardware = 2
  MaxJobs = 2
  JobChunks <- PairChunks
  JobKind <- PairKinds
  Retries = 2
  DropChunks <- First
  RandomDrop = FALSE
  Persistent = FALSE
  MaxThrows = 0
INVARIANTS AllHandedOut DropoutHarmless
PROPERTIES DispatchReturns ShutdownJoins
