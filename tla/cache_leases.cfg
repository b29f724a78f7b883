SPECIFICATION Spec
CONSTANTS
  t1 = t1
  t2 = t2
  a = a
  b = b
  k1 = k1
  k2 = k2
  Threads <- TwoThreads
  Slots <- TwoSlots
  Keys <- TwoKeys
  Copies <- OneTwo
  WarmKeys <- FirstKey
  Settings = {"c2c"}
  MaxFailures = 1
INVARIANTS Exclusive LeasesMatch NoDangling BoundedGrowth
SYMMETRY ThreadSymmetry
