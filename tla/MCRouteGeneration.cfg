CONSTANTS
  Setups <- AllSetups
  flapTimes = 2
  Producer = 0
  Consumers <- FlowsTo3And2
SPECIFICATION Spec
INVARIANTS
  HeapIsSound
  RspsAreDetours
  DelayIsBound
  PathsAreInstalled
  SurvivesOneFailure
CHECK_DEADLOCK FALSE
