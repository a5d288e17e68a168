\* Capsules overtake each other, get lost or come late, and fill the queue.
CONSTANTS
  Size = 2
  MaxWait = 2
  MaxId = 5
  MaxTime = 5
SPECIFICATION Spec
INVARIANTS
  QueuesAgree
  NothingTwiceOrLost
  InOrder
PROPERTIES
  NoneOverdue
\* The clock stops.
CHECK_DEADLOCK FALSE
