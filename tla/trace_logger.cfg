CONSTANTS
  Threads = {t1, t2}
  FlushAt = 2
  MaxMessages = 5
SPECIFICATION Spec
INVARIANTS InOrder
PROPERTIES DestructorReturns PushedIsWritten
CHECK_DEADLOCK FALSE
