SPECIFICATION Spec
CONSTANTS
  Legacy <- LegacyContexts
  Full <- FullContexts
  Policies = {"none"}
  Customs = {0, 2}
  Lengths = {1, 4, 6}
  PadModes = {0, 1, 2}
  Spectra = {1, 3}
  FrameLimits = {0, 2}
  BatchFrames = 3
  Lanes = 2
  SlotCapacity = 1
  DropIndices = {0, 2}
  Persistence = {FALSE, TRUE}
  MaxThrows = 1
  MaxCalls = 2
  StreamSize = 4
  StreamHop = 3
INVARIANTS  OneShotRecovers WindowsCover HalfSpectrumMirrored OneCallAsStream
PROPERTY CallReturns
CHECK_DEADLOCK FALSE
