CONSTANTS
  Unity = 100
  Floor = 10
  Beta = 90
  AttackAlpha = 85
  ReleaseAlpha = 12
  LambdaMin = 10
  LambdaMax = 95
  LowConfidenceScale = 25
  ConfidenceThreshold = 45
  ImpulseThreshold = 60
  Recovered = 85
  Inputs <- TestInputs
  FaultLimit = 1
SPECIFICATION LiveSpec
PROPERTIES ListenerProtected GainTowardsTarget LevelRecovers
INVARIANTS ShownStateConsistent SourcesUp SilenceJustified
