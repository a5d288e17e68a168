-------------------------------- MODULE Rsg --------------------------------
(***************************************************************************)
(* The resilient route subgraph (RSG) of a flow, as pure operators: which  *)
(* virtual links it has, how a reported link status is recorded in it, and *)
(* which path a router on the primary path prefers then.                   *)
(*                                                                         *)
(* The routes rr of a flow are a record                                    *)
(*   prim    the nodes of the primary path (PP), producer first            *)
(*   primID  the path id of the PP                                         *)
(*   cost    the cost of every PP link                                     *)
(*   rsps    a sequence of redundant sub-paths (RSPs), records             *)
(*             id     the path id, not 0                                   *)
(*             nodes  the nodes, from a PP node up to an earlier PP node   *)
(*             cost   the cost                                             *)
(* and the RSG g of them has one more field, links, its virtual links.     *)
(* Costs are the negated logarithms the code adds up, scaled to integers.  *)
(*                                                                         *)
(* linkStatusMap has one key space for physical links, path ids and 0.     *)
(* Here a link is a pair <<a, b>> with a < b, which is how rsgGetLinkID    *)
(* packs it, and an id i is <<i>>.  A key that was never written reads as  *)
(* 0, which is NORMAL.                                                     *)
(*                                                                         *)
(* An operator named Faulty... is a version of the operator after it with  *)
(* a mistake one could make in this code; nothing else uses it.            *)
(***************************************************************************)
EXTENDS Integers, Sequences, FiniteSets, FiniteSetsExt, TLC

NoPath == -1                    \* UINT_MAX
LinkStatus == {"NORMAL", "FAILURE"}

rsgGetLinkID(a, b) == IF a > b THEN <<b, a>> ELSE <<a, b>>

PathLinks(nodes) == {rsgGetLinkID(nodes[i], nodes[i + 1]) : i \in 1 .. Len(nodes) - 1}
Rsps(g)     == {g.rsps[i] : i \in 1 .. Len(g.rsps)}
PpLinks(g)  == PathLinks(g.prim)
RspLinks(g) == UNION {PathLinks(p.nodes) : p \in Rsps(g)}
Keys(g)     == PpLinks(g) \cup RspLinks(g) \cup {<<p.id>> : p \in Rsps(g)} \cup {<<0>>}

AllNormal(g) == [k \in Keys(g) |-> "NORMAL"]

PpIndex(g, n) == CHOOSE i \in 1 .. Len(g.prim) : g.prim[i] = n

\* The virtual links, from and to being positions on the PP.  rank orders the
\* links that leave one node.  Only a link of the PP has an id of its own: the
\* linkID of every RSP is 0.
PpLink(rr, i) ==
  [from |-> i, to |-> i + 1, linkID |-> rsgGetLinkID(rr.prim[i], rr.prim[i + 1]),
   isOnPrimPath |-> TRUE, pathID |-> rr.primID, cost |-> rr.cost, rank |-> 0]

RspLink(rr, i) ==
  LET p == rr.rsps[i] IN
  [from |-> PpIndex(rr, p.nodes[Len(p.nodes)]), to |-> PpIndex(rr, p.nodes[1]),
   linkID |-> <<0>>, isOnPrimPath |-> FALSE, pathID |-> p.id, cost |-> p.cost, rank |-> i]

genLltcRrSubgraph(rr) ==
  [prim |-> rr.prim, primID |-> rr.primID, cost |-> rr.cost, rsps |-> rr.rsps,
   links |-> {PpLink(rr, i) : i \in 1 .. Len(rr.prim) - 1}
             \cup {RspLink(rr, i) : i \in 1 .. Len(rr.rsps)}]

\* What the search needs of an RSG.
Positions(g) == 1 .. Len(g.prim)

IsRsg(g) ==
  /\ Len(g.prim) \in Nat \ {0}
  /\ IsFiniteSet(g.links)
  /\ \A l \in g.links :
       /\ l.from \in Positions(g)
       /\ l.to \in Positions(g)
       /\ l.from < l.to
       /\ l.cost \in Nat
       /\ l.rank \in Nat

-----------------------------------------------------------------------------
\* The map m after the statuses sts of some links are recorded, one after the
\* other: for the link itself, and for the RSPs that contain it.  An RSP is
\* looked at anew with each of its links, so what counts is the last time.
FaultyLastLink(g, m, sts) ==
  LET onLinks(l) == {p \in Rsps(g) : l \in PathLinks(p.nodes)}
      rsps == [k \in {<<p.id>> : p \in UNION {onLinks(l) : l \in DOMAIN sts}} |->
                 IF \E l \in DOMAIN sts : sts[l] = "FAILURE" THEN "FAILURE" ELSE "NORMAL"]
  IN rsps @@ sts @@ m

rsgUpdateLinkStatus(g, m, sts) ==
  LET links == [k \in DOMAIN m |-> IF k \in DOMAIN sts THEN sts[k] ELSE m[k]]
      failed(p) == \E l \in PathLinks(p.nodes) : links[l] = "FAILURE"
      rspsOf(k) == {p \in Rsps(g) : k = <<p.id>> /\ PathLinks(p.nodes) \cap DOMAIN sts # {}}
  IN [k \in DOMAIN m |-> IF rspsOf(k) = {} THEN links[k]
                         ELSE IF \E p \in rspsOf(k) : failed(p) THEN "FAILURE" ELSE "NORMAL"]

-----------------------------------------------------------------------------
\* The PP falls into components at its failed links; they are numbered.
Component(g, m, i) ==
  Cardinality({j \in 1 .. i - 1 : m[rsgGetLinkID(g.prim[j], g.prim[j + 1])] = "FAILURE"})

\* The virtual links the search may use.  Within a component no RSP is.
FaultyFailedToo(g, m, l) ==
  l.isOnPrimPath \/ Component(g, m, l.from) # Component(g, m, l.to)

Usable(g, m, l) ==
  /\ m[l.linkID] # "FAILURE"
  /\ l.isOnPrimPath \/ Component(g, m, l.from) # Component(g, m, l.to)

\* The cost of reaching each position of the PP, Unreached if the search does
\* not reach it.  Every virtual link leads to a later position.
Unreached == -1

InLinks(g, m, i) == {l \in g.links : l.to = i /\ Usable(g, m, l)}

Costs(g, m) ==
  LET cost[i \in 1 .. Len(g.prim)] ==
        LET via == {l \in InLinks(g, m, i) : cost[l.from] # Unreached}
        IN IF i = 1 THEN 0
           ELSE IF via = {} THEN Unreached
           ELSE Min({cost[l.from] + l.cost : l \in via})
  IN cost

\* The link by which the search reaches position i: of the cheapest ones that
\* of the position removed from the heap first, and there the first in order.
\* If two positions tie as well, the order of the heap decides: any of them.
PrevLink(g, m, cost, i) ==
  LET best == {l \in InLinks(g, m, i) :
                 cost[l.from] # Unreached /\ cost[l.from] + l.cost = cost[i]}
  IN CHOOSE l \in best : \A k \in best :
       \/ cost[l.from] < cost[k.from]
       \/ cost[l.from] = cost[k.from] /\ (l.from # k.from \/ l.rank <= k.rank)

\* The links of the cheapest path to the last position, from its end back; the
\* empty set if the consumer is not reached.
BestRoute(g, m) ==
  LET n    == Len(g.prim)
      cost == Costs(g, m)
      back[i \in 1 .. n] == IF i = 1 \/ cost[i] = Unreached THEN {}
                            ELSE LET l == PrevLink(g, m, cost, i) IN {l} \cup back[l.from]
  IN IF cost[n] = Unreached THEN {} ELSE back[n]

\* The paths the router at node n prefers.  None downstream if the route does
\* not leave n, and none upstream if it does not also enter n.
rsgComputePreferredPathID(g, m, n) ==
  LET i     == PpIndex(g, n)
      route == BestRoute(g, m)
      out   == {l \in g.links : l.from = i /\ l \in route}
      into  == {l \in g.links : l.to = i /\ l \in route}
  IN [downLinkID |-> IF out = {} THEN NoPath ELSE (CHOOSE l \in out : TRUE).pathID,
      upLinkID   |-> IF out = {} \/ into = {} THEN NoPath
                     ELSE (CHOOSE l \in into : TRUE).pathID]
=============================================================================
