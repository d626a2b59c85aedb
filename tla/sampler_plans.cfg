CONSTANTS
  EpochPlans = {1, 2, 3}
  SAMPLE_INTERVAL = 2
  RttSamples <- MC_RttSamples
  MaxTime = 12
SPECIFICATION Spec
INVARIANT ThroughputDefined
PROPERTY PublishSpacing
