SPECIFICATION Spec
CONSTANTS
  Hardware = 1
  MaxJobs = 4
  JobChunks <- SoloChunks
  JobKind <- SoloKinds
  Retries = 2
  DropChunks <- First
  RandomDrop = TRUE
  Persistent = FALSE
  MaxThrows = 3
INVARIANTS TypeOK Barrier
PROPERTY RefinesDispatch
