SPECIFICATION PlaneSpec
CONSTANTS
  Order = 8
  Kernels = {"cooleytukey", "stockham"}
  Sizes = {1, 2, 4, 8}
  Modes = {"C2C", "R2C", "C2R", "R2R"}
  Traces = {"first", "all"}
  Batch = 3
  Lanes = 2
  Threads = 3
  SlotCapacity = 2
  Shapes <- SomeShapes
  TileRows = 3
  TileCols = 3
INVARIANTS TransformsCorrectly StoredWholeOrNotAtAll TraceExplains PlaneTransformed
CHECK_DEADLOCK FALSE
