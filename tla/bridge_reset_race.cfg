CONSTANTS
  MSS <- MC_MSS
  UsecPerSec <- MC_UsecPerSec
  InitialRtt <- MC_InitialRtt
  SampleInterval <- MC_SampleInterval
  CwndMax <- MC_Max
  PacingMax <- MC_Max
  Uint32Mod <- MC_Uint32Mod
  SrttSamples <- MC_SrttSamples
  Actions <- MC_Actions
  c1 = c1
  c2 = c2
  NoOwner = NoOwner
  Conns <- MC_One
  Flagged <- MC_One
  SpuriousWakeups = FALSE
  BrokenConn = FALSE
  LossyChannel = FALSE
  MaxEpochs = 2
SPECIFICATION Spec
INVARIANT CwndMatchesInt
