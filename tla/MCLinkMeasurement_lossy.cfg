\* Messages may be lost or late at any time.
CONSTANTS
  Faces = {f1, f2}
  Monitored = {f1}
  CapsuleFaces = {f1, f2}
  EchoIds = {e1, e2, e3, e4}
  MaxTests = 2
  Times = 2
  Reliable = FALSE
  NoFace = NoFace
  NoLsa = NoLsa
SPECIFICATION Spec
SYMMETRY EchoIdSymmetry
INVARIANTS
  TypeOK
  EchoOwnership
  AnswerNeedsLink
PROPERTIES
  RecoveryJustified
