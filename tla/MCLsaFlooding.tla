--------------------------- MODULE MCLsaFlooding ---------------------------
(***************************************************************************)
(* Instances of LsaFlooding for TLC: a triangle, and a triangle with a     *)
(* node behind one of its corners.                                         *)
(***************************************************************************)
EXTENDS LsaFlooding, TLC

Triangle == {{1, 2}, {2, 3}, {1, 3}}
Kite     == Triangle \cup {{3, 4}}
TwoAndOne == (1 :> 2) @@ (2 :> 1)
OneEach   == (1 :> 1) @@ (2 :> 1)
=============================================================================
