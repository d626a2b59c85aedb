CONSTANTS
  MSS <- MC_MSS
  UsecPerSec <- MC_UsecPerSec
  InitialRtt <- MC_InitialRtt
  SampleInterval <- MC_SampleInterval
  CwndMax <- MC_Max
  PacingMax <- MC_Max
  Uint32Mod <- MC_Uint32Mod
  SrttSamples <- MC_SrttSamples
  RttSamples <- MC_RttSamples
  Actions <- MC_AddActions
  Plans = {2}
  MaxApplied = 6
SPECIFICATION Spec
INVARIANT WindowBounds
PROPERTY IncreaseGrows
PROPERTY DecreaseNeverGrows
