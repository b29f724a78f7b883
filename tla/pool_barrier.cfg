SPECIFICATION Spec
CONSTANTS
  Hardware = 2
  MaxJobs = 1
  JobChunks <- OneJob
  JobKind <- OnePlain
  Retries = 2
  DropChunks <- None
  RandomDrop = FALSE
  Persistent = FALSE
  MaxThrows = 0
INVARIANT Barrier
