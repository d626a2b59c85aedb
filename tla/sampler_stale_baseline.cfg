CONSTANTS
  EpochPlans = {2}
  SAMPLE_INTERVAL = 2
  RttSamples <- MC_RttSamples
  MaxTime = 12
SPECIFICATION Spec
PROPERTY BaselineFresh
