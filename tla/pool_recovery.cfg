SPECIFICATION Spec
CONSTANTS
  Hardware = 3
  MaxJobs = 1
  JobChunks <- OneJob
  JobKind <- OneRecovering
  Retries = 2
  DropChunks <- First
  RandomDrop = FALSE
  Persistent = FALSE
  MaxThrows = 2
INVARIANTS UniqueClaims RestoredOrDone
