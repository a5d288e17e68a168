\* A link of the PP fails.
CONSTANTS
  RSG <- Detours
  Unsteady <- Unstable
  MaxChanges = 1
  NoCapsule = NoCapsule
SPECIFICATION CapsuleSpec
INVARIANTS
  NothingDiscarded
\* One Capsule is sent, and MaxChanges changes happen.
CHECK_DEADLOCK FALSE
