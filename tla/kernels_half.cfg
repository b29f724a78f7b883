SPECIFICATION Spec
CONSTANTS
  Order = 8
  Kernels = {"cooleytukey", "stockham"}
  Sizes = {1, 2, 4, 8}
  Modes = {"C2R"}
  Traces = {"none"}
  Batch = 3
  Lanes = 2
  Threads = 3
  SlotCapacity = 2
INVARIANT HalfSpectrumExpands
CHECK_DEADLOCK FALSE
