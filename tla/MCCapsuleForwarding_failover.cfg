\* Links of the PP and of an RSP fail and recover, while a Capsule is on its way.
CONSTANTS
  RSG <- TwoLinks
  Unsteady <- PpAndRspLink
  MaxChanges = 2
  NoCapsule = NoCapsule
SPECIFICATION FairCapsuleSpec
INVARIANTS
  DetourHasEntry
  
  
  
  OnItsPath
PROPERTIES
  NeverBack
  
\* One Capsule is sent, and MaxChanges changes happen.
CHECK_DEADLOCK FALSE
