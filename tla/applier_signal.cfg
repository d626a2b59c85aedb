CONSTANTS
  MSS <- MC_MSS
  UsecPerSec <- MC_UsecPerSec
  InitialRtt <- MC_InitialRtt
  SampleInterval <- MC_SampleInterval
  CwndMax <- MC_Max
  PacingMax <- MC_Max
  Uint32Mod <- MC_Uint32Mod
  SrttSamples <- MC_SrttSamples
  RttSamples <- MC_RttSamples
  Actions <- MC_SignalActions
  Plans = {3, 4}
  MaxApplied = 9
SPECIFICATION Spec
INVARIANT WindowBounds
INVARIANT UpIndexInBounds
PROPERTY EmaStayConverges
PROPERTY IncreaseGrows
PROPERTY DecreaseNeverGrows
