----------------------------- MODULE MCFailover -----------------------------
(***************************************************************************)
(* Instances of Failover for TLC: a PP of two links, a detour around both  *)
(* of them and one around the first.  Costs as in MCRsgDijkstra.           *)
(***************************************************************************)
EXTENDS Failover

TwoLinks == genLltcRrSubgraph(
  [prim |-> <<1, 2, 3>>, primID |-> 10, cost |-> 163,
   rsps |-> <<[id |-> 11, nodes |-> <<3, 4, 1>>, cost |-> 738],
              [id |-> 12, nodes |-> <<2, 4, 1>>, cost |-> 738]>>])

ThreeUnsteady == {<<1, 2>>, <<2, 3>>, <<3, 4>>}
=============================================================================
