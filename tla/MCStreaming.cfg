CONSTANTS
  CsLimit = 12
  CsPolicy = "lru"
  NameOrder = 0
  N = 3
  LastId <- LastIds
  Strategies = {"r2t", "sdatp"}
  maxCSynTimes = 1
  MaxLosses = 1
SPECIFICATION Spec
INVARIANTS NoNullRead NothingTwice
PROPERTIES EventuallyDelivered
CHECK_DEADLOCK FALSE
