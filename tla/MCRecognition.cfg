SPECIFICATION Spec
CONSTANTS
  Nothing = Nothing
  NSku = 5
  DinoTop = 3
  DirectScore = 4
  DirectMargin = 3
  DinoThreshold = 2
  FusedMargin = 2
  ConsensusFloor = 4
  Configs <- MCConfigs
  Scenes <- MCScenes
  Samples <- MCSamples
  Captures <- MCCaptures
  FrameWidth = 12
  FrameHeight = 8
  OverlapIou <- MCOverlapIou
  PairIou <- MCPairIou
  WeakScore = 3
  WeakMargin = 1
INVARIANTS
  RecognitionTypeOK
  ResultValidates
PROPERTIES
  ImplementsOneByOne
CHECK_DEADLOCK FALSE
