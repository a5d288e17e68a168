\* No message is lost; one end of a link sends two LSAs and the other one.
CONSTANTS
  Nodes = {1, 2, 3}
  Links <- Triangle
  Monitored <- Triangle
  Origins = {1, 2}
  MaxSeq <- TwoAndOne
  Lossy = FALSE
  NoLsa = NoLsa
SPECIFICATION FairSpec
INVARIANTS
  TypeOK
  QuietMeansCurrent
PROPERTIES
  NoOlderOverwrite
  ImplementsBroadcast
\* All LSAs are sent and all messages delivered in the end.
CHECK_DEADLOCK FALSE
