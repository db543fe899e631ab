SPECIFICATION Spec
CONSTANTS
  N = 2
  Stages = 2
  MaxRetries = 1
  Configs <- MixedConfigs
  MaxTroubles = 1
INVARIANTS
  ProgressIsAPercentage
