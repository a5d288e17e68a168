---------------------------- MODULE RsgDijkstra ----------------------------
(***************************************************************************)
(* The search of rsgComputePreferredPathID for the best path through the   *)
(* RSG, step by step: a heap of PP positions, one of the largest key is    *)
(* removed, and its virtual links are relaxed.  Which of several nodes     *)
(* with the largest key the heap yields is left open.                      *)
(*                                                                         *)
(* The search runs on every map that reports of link statuses can lead to. *)
(* Its result is compared with the operators of module Rsg.                *)
(*                                                                         *)
(* An operator named Faulty... is a version of the operator after it with  *)
(* a mistake one could make in this code; no behaviour of SearchSpec uses  *)
(* it.                                                                     *)
(***************************************************************************)
EXTENDS Rsg

CONSTANT Rsgs   \* the RSGs the search is run on

\* The path ids of the RSPs of an RSG are different (nextPathID counts them), and
\* so are the ranks of the virtual links that leave one node.
ASSUME RsgAssumption ==
  \A g \in Rsgs :
    /\ IsRsg(g)
    /\ \A p, q \in Rsps(g) : p.id = q.id => p = q
    /\ \A l, k \in g.links : l.from = k.from /\ l.rank = k.rank => l = k

VARIABLES
  rsg,
  statusMap,     \* the linkStatusMap of rsg
  nodesInFH,     \* the positions in the heap
  keyOf,         \* the negated key of each position; Unreached is -infinity
  rrNodeInfo     \* the virtual link by which each was reached, or None

searchVars == <<rsg, statusMap, nodesInFH, keyOf, rrNodeInfo>>

None == [from |-> 0]

SearchInit ==
  /\ rsg \in Rsgs
  /\ statusMap = AllNormal(rsg)
  /\ nodesInFH = Positions(rsg)
  /\ keyOf = [i \in Positions(rsg) |-> IF i = 1 THEN 0 ELSE Unreached]
  /\ rrNodeInfo = [i \in Positions(rsg) |-> None]

\* The status st of link l is reported, after a search or before one has begun;
\* what follows then is a new search.
reportLinkStatus(l, st) ==
  /\ nodesInFH \in {Positions(rsg), {}}
  /\ statusMap' = rsgUpdateLinkStatus(rsg, statusMap, [k \in {l} |-> st])
  /\ nodesInFH' = Positions(rsg)
  /\ keyOf' = [i \in Positions(rsg) |-> IF i = 1 THEN 0 ELSE Unreached]
  /\ rrNodeInfo' = [i \in Positions(rsg) |-> None]
  /\ UNCHANGED rsg

\* Is cost c a larger key than cost d?
better(c, d) == c # Unreached /\ (d = Unreached \/ c < d)

maxNodes == {u \in nodesInFH : \A v \in nodesInFH : ~better(keyOf[v], keyOf[u])}

FaultyOverwrite(u, i) ==
  {l \in InLinks(rsg, statusMap, i) : l.from = u /\ keyOf[u] # Unreached}

\* The links of u that improve the key of i, u being just removed.
improving(u, i) ==
  {l \in InLinks(rsg, statusMap, i) :
     /\ l.from = u
     /\ keyOf[u] # Unreached
     /\ better(keyOf[u] + l.cost, keyOf[i])}

\* The one that remains once they are relaxed in order.
chosen(ls) ==
  CHOOSE l \in ls : \A k \in ls : l.cost < k.cost \/ (l.cost = k.cost /\ l.rank <= k.rank)

removeMax(u) ==
  LET improved == {i \in nodesInFH \ {u} : improving(u, i) # {}}
      link(i)  == chosen(improving(u, i))
  IN
  /\ u \in maxNodes
  /\ nodesInFH' = nodesInFH \ {u}
  /\ keyOf' = [i \in Positions(rsg) |-> IF i \in improved THEN keyOf[u] + link(i).cost ELSE keyOf[i]]
  /\ rrNodeInfo' = [i \in Positions(rsg) |-> IF i \in improved THEN link(i) ELSE rrNodeInfo[i]]
  /\ UNCHANGED <<rsg, statusMap>>

SearchNext ==
  \/ \E l \in PpLinks(rsg) \cup RspLinks(rsg), st \in LinkStatus : reportLinkStatus(l, st)
  \/ \E u \in nodesInFH : removeMax(u)

SearchSpec == SearchInit /\ [][SearchNext]_searchVars

-----------------------------------------------------------------------------
(* Properties. *)

\* Whatever sequence of failures and recoveries is reported, an RSP is recorded
\* as failed exactly if one of its links is, though RSPs share links with each
\* other and with the PP and only those on the reported link are looked at.
RspStatusExact ==
  \A p \in Rsps(rsg) :
    statusMap[<<p.id>>] = "FAILURE" <=> \E l \in PathLinks(p.nodes) : statusMap[l] = "FAILURE"

\* The search ends with a cheapest route, the one the operators of module Rsg give
\* by dynamic programming, so that a module that uses them has its outcome.
SearchGivesBestRoute ==
  nodesInFH = {} =>
    LET n == Len(rsg.prim)
        back[i \in 1 .. n] == IF i = 1 \/ keyOf[i] = Unreached THEN {}
                              ELSE {rrNodeInfo[i]} \cup back[rrNodeInfo[i].from]
    IN BestRoute(rsg, statusMap) = IF keyOf[n] = Unreached THEN {} ELSE back[n]
=============================================================================
