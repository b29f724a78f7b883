CONSTANTS
  Grids <- SomeGrids
  Plans <- SomePlans
  Quantizers <- SomeQuantizers
  Contrasts <- SomeContrasts
  Unit = 36
  MaxCells = 7
SPECIFICATION GridSpec
INVARIANTS FormsAgree RowsApart TimeReversible OnTheCallersGrid
CHECK_DEADLOCK FALSE
