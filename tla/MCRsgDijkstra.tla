--------------------------- MODULE MCRsgDijkstra ---------------------------
(***************************************************************************)
(* RSGs for TLC.  The costs are 1000 times the negated logarithms the code *)
(* computes at the link reliability of link-failover-brite.ini (0.85): 163 *)
(* for a link of the PP, and for an RSP the more the fewer its links.      *)
(***************************************************************************)
EXTENDS RsgDijkstra

rspCost == <<1282, 738, 474, 318, 220>>   \* by number of links

rsp(id, nodes) == [id |-> id, nodes |-> nodes, cost |-> rspCost[Len(nodes) - 1]]

\* Two detours side by side, one of them longer, one for the first link alone,
\* and one for the last two; two of them share a link.
Nested == genLltcRrSubgraph(
  [prim |-> <<1, 2, 3, 4>>, primID |-> 10, cost |-> 163,
   rsps |-> <<rsp(11, <<2, 5, 1>>), rsp(12, <<4, 6, 2>>),
              rsp(13, <<4, 5, 1>>), rsp(14, <<4, 7, 8, 1>>)>>])

\* The detour for the first link runs over the second one.
Joint == genLltcRrSubgraph(
  [prim |-> <<1, 2, 3>>, primID |-> 20, cost |-> 163,
   rsps |-> <<rsp(21, <<2, 3, 4, 1>>), rsp(22, <<3, 4, 1>>), rsp(23, <<3, 5, 2>>)>>])

Instances == {Nested, Joint}
=============================================================================
