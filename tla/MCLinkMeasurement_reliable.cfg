\* Messages on a working link arrive within the interval of a test.
CONSTANTS
  Faces = {f1, f2}
  Monitored = {f1, f2}
  CapsuleFaces = {f1}
  EchoIds = {1, 2, 3}
  MaxTests = 2
  Times = 1
  Reliable = TRUE
  NoFace = NoFace
  NoLsa = NoLsa
SPECIFICATION FairSpec
ACTION_CONSTRAINT LowestIds
INVARIANTS
  NoSilentEcho
  AnnouncedIsCurrent
PROPERTIES
  FailureJustified
  EventuallyAccurate
