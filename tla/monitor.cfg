SPECIFICATION Spec
CONSTANTS
  m_numShards = 2
  PASS_THRESHOLD = 2
  WAIT_STABLE_THRESHOLD = 2
  FROZEN_THRESHOLD = 2
  LearnSamples = 1
  ConstructSamples = 2
  FrozenSamples = 1
  MaxSamples = 2
INVARIANTS ConstructStartsClean UnfrozenAreAccounted StepsToDivideBy
PROPERTIES ShardsFollowProtocol StopEnds PassesEnd
CHECK_DEADLOCK FALSE
