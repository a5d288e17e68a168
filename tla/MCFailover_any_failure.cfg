\* A link of the PP and a link of one RSP fail; the other RSP would do.
CONSTANTS
  RSG <- TwoLinks
  Unsteady <- ThreeUnsteady
  MaxChanges = 2
SPECIFICATION Spec
INVARIANTS
  RecoversWheneverReachable
\* After MaxChanges changes all statuses are known and all LSAs have arrived.
CHECK_DEADLOCK FALSE
