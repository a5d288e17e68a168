------------------------- MODULE MCLinkMeasurement -------------------------
(***************************************************************************)
(* Instances of LinkMeasurement for TLC.  Echo ids are only compared, so   *)
(* the safety run lets TLC permute them.  TLC cannot use symmetry with     *)
(* liveness: there the ids are numbers, and of the behaviours that differ  *)
(* in nothing but ids LowestIds keeps those that draw the lowest unused.   *)
(***************************************************************************)
EXTENDS LinkMeasurement, TLC

EchoIdSymmetry == Permutations(EchoIds)

Drawn == {i \in EchoIds : echoMsgStateMap[i] = Absent /\ echoMsgStateMap'[i] # Absent}

LowestIds == \A i \in Drawn, j \in EchoIds : j < i => j \in InUse \cup Drawn
=============================================================================
