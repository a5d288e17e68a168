\* Any message may be lost.
CONSTANTS
  Nodes = {1, 2, 3}
  Links <- Triangle
  Monitored <- Triangle
  Origins = {1, 2}
  MaxSeq <- OneEach
  Lossy = TRUE
  NoLsa = NoLsa
SPECIFICATION FairSpec
INVARIANTS
  NoStorm
PROPERTIES
  FloodEnds
\* All LSAs are sent and all messages delivered or lost in the end.
CHECK_DEADLOCK FALSE
