SPECIFICATION Spec
CONSTANTS
  ADC_BUFFER_SIZE = 6
  Samples <- SomeSamples
INVARIANT SumNeverWraps
INVARIANT LosesAtMostTenMillivolts
PROPERTY LevelFollowsVoltage
