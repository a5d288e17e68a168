------------------------ MODULE MCCapsuleForwarding ------------------------
(***************************************************************************)
(* Instances of CapsuleForwarding for TLC: a PP of two links, with a       *)
(* detour around each of them, or with one around both of them and one     *)
(* around the first.  Costs as in MCRsgDijkstra.                           *)
(***************************************************************************)
EXTENDS CapsuleForwarding

Detours == genLltcRrSubgraph(
  [prim |-> <<1, 2, 3>>, primID |-> 10, cost |-> 163,
   rsps |-> <<[id |-> 11, nodes |-> <<2, 4, 1>>, cost |-> 738],
              [id |-> 12, nodes |-> <<3, 4, 2>>, cost |-> 738]>>])

TwoLinks == genLltcRrSubgraph(
  [prim |-> <<1, 2, 3>>, primID |-> 10, cost |-> 163,
   rsps |-> <<[id |-> 11, nodes |-> <<3, 4, 1>>, cost |-> 738],
              [id |-> 12, nodes |-> <<2, 4, 1>>, cost |-> 738]>>])

Unstable == {<<1, 2>>, <<2, 3>>}
PpAndRspLink == {<<1, 2>>, <<3, 4>>}

\* What the theorem on RouteWorks takes for granted holds of these instances.
ASSUME DetoursAround == DetoursSuffice
=============================================================================
