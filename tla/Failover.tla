------------------------------ MODULE Failover ------------------------------
(***************************************************************************)
(* Failover of one flow: the links fail and recover, the routers at their  *)
(* ends find out and flood LSAs, and the routers on the primary path (PP)  *)
(* record the statuses in their copy of the RSG and switch the paths they  *)
(* prefer.                                                                 *)
(*                                                                         *)
(* The composition of the other modules, each by what it promises: a link  *)
(* test (LinkMeasurement) that concludes sets the statuses of some links   *)
(* to what they are, and an LSA carries all statuses of its origin;        *)
(* flooding (LsaFlooding) is an ordered broadcast (OrderedBroadcast), to   *)
(* the origin itself too; the preferred paths are those of Rsg, the        *)
(* outcome of the search of RsgDijkstra.  Only the routers on the PP have  *)
(* a retransmission point in their forwarding state, so the others hand    *)
(* LSAs on and leave their own RSG as it is.                               *)
(*                                                                         *)
(* An operator named Faulty... is a version of the operator after it with  *)
(* a mistake one could make in this code; no behaviour of Spec uses it.    *)
(***************************************************************************)
EXTENDS Rsg

CONSTANTS
  RSG,         \* the RSG of the flow
  Unsteady,    \* the links that fail and recover
  MaxChanges   \* bound: how often they do

PathNodes(p) == {p[i] : i \in 1 .. Len(p)}
PpNodes  == PathNodes(RSG.prim)
Nodes    == PpNodes \cup UNION {PathNodes(p.nodes) : p \in Rsps(RSG)}
Links    == PpLinks(RSG) \cup RspLinks(RSG)
LinksOf(n) == {l \in Links : n \in {l[1], l[2]}}
Producer == RSG.prim[1]
Consumer == RSG.prim[Len(RSG.prim)]

\* No path repeats a node.  Path ids are counted from 0, the PP's first.  An RSP
\* leads from one node of the PP to one further down (RouteGeneration has this
\* of the routes that are generated).  Costs are negated logarithms of
\* probabilities other than 0, so that they are finite and not negative.
IsPath(nodes) == \A i, j \in 1 .. Len(nodes) : nodes[i] = nodes[j] => i = j

ASSUME FailoverAssumption ==
  /\ Unsteady \subseteq Links
  /\ MaxChanges \in Nat
  /\ RSG.links = genLltcRrSubgraph(RSG).links
  /\ RSG.prim \in Seq(Nat) \ {<<>>}
  /\ IsPath(RSG.prim)
  /\ RSG.primID \in Nat
  /\ RSG.cost \in Nat
  /\ RSG.rsps \in Seq(Rsps(RSG))
  /\ \A i \in 1 .. Len(RSG.rsps) :
       LET p == RSG.rsps[i] IN
       /\ p.id \in Nat \ {0, RSG.primID}
       /\ \A j \in 1 .. Len(RSG.rsps) : RSG.rsps[j].id = p.id => j = i
       /\ p.cost \in Nat
       /\ p.nodes \in Seq(Nat)
       /\ Len(p.nodes) >= 2
       /\ {p.nodes[1], p.nodes[Len(p.nodes)]} \subseteq PpNodes
       /\ PpIndex(RSG, p.nodes[Len(p.nodes)]) < PpIndex(RSG, p.nodes[1])
       /\ IsPath(p.nodes)

VARIABLES
  linkUp,                \* environment: the links
  changes,               \* environment: how often they have changed
  status,                \* at each node: LltcFaceEntry::status of its links
  inbox,                 \* inbox[n][o]: the LSAs of o that n has not got yet
  linkStatusMap,         \* per PP node, as are the next four
  preferredDownPathId,
  preferredUpPathId,
  isDownPathInRspState,
  isUpPathInRspState

linkVars   == <<linkUp, changes>>
fsVars     == <<linkStatusMap, preferredDownPathId, preferredUpPathId,
                isDownPathInRspState, isUpPathInRspState>>
controlVars == <<linkVars, status, inbox, fsVars>>

\* The routes are installed with the PP first, so that it is preferred.
Init ==
  /\ linkUp = [l \in Links |-> TRUE]
  /\ changes = 0
  /\ status = [n \in Nodes |-> [l \in LinksOf(n) |-> "NORMAL"]]
  /\ inbox = [n \in PpNodes |-> [o \in Nodes |-> <<>>]]
  /\ linkStatusMap = [n \in PpNodes |-> AllNormal(RSG)]
  /\ preferredDownPathId = [n \in PpNodes |-> RSG.primID]
  /\ preferredUpPathId = [n \in PpNodes |-> RSG.primID]
  /\ isDownPathInRspState = [n \in PpNodes |-> FALSE]
  /\ isUpPathInRspState = [n \in PpNodes |-> FALSE]

FaultyAnyDirection(n, id) ==
  LET path == IF id = RSG.primID THEN RSG.prim
              ELSE (CHOOSE p \in Rsps(RSG) : p.id = id).nodes
      step == IF id = RSG.primID THEN 1 ELSE -1
      at   == {i \in 1 .. Len(path) : path[i] = n}
      i    == CHOOSE i \in at : TRUE
  IN IF at = {} THEN NoPath
     ELSE IF i + step \in 1 .. Len(path) THEN path[i + step] ELSE path[i - step]

\* The next hop of n on path id downstream (direction 0), or NoPath if n has
\* no entry for it.
lookupForwardingEntry(n, id) ==
  LET path == IF id = RSG.primID THEN RSG.prim
              ELSE (CHOOSE p \in Rsps(RSG) : p.id = id).nodes
      step == IF id = RSG.primID THEN 1 ELSE -1
      at   == {i \in 1 .. Len(path) : path[i] = n /\ i + step \in 1 .. Len(path)}
  IN IF at = {} THEN NoPath ELSE path[(CHOOSE i \in at : TRUE) + step]

LinkChanges(l) ==
  /\ l \in Unsteady
  /\ changes < MaxChanges
  /\ changes' = changes + 1
  /\ linkUp' = [linkUp EXCEPT ![l] = ~@]
  /\ UNCHANGED <<status, inbox, fsVars>>

-----------------------------------------------------------------------------
\* A preferred path, and the flag beside it, when the search yields path id.
switched(pref, id) == IF id = NoPath THEN pref ELSE id

FaultyToggle(flag, pref, id) == IF id = NoPath THEN flag ELSE id # pref

flagged(flag, pref, id) ==
  IF id = NoPath \/ id = pref THEN flag ELSE id # RSG.primID

\* Node n, if on the PP, records the statuses lsa and switches its paths.
updatePreferredPathWithLSA(n, lsa) ==
  IF n \notin PpNodes THEN UNCHANGED fsVars
  ELSE LET m  == rsgUpdateLinkStatus(RSG, linkStatusMap[n], lsa)
           pl == rsgComputePreferredPathID(RSG, m, n)
       IN
       /\ linkStatusMap' = [linkStatusMap EXCEPT ![n] = m]
       /\ preferredDownPathId' = [preferredDownPathId EXCEPT ![n] = switched(@, pl.downLinkID)]
       /\ isDownPathInRspState' =
            [isDownPathInRspState EXCEPT ![n] = flagged(@, preferredDownPathId[n], pl.downLinkID)]
       /\ preferredUpPathId' = [preferredUpPathId EXCEPT ![n] = switched(@, pl.upLinkID)]
       /\ isUpPathInRspState' =
            [isUpPathInRspState EXCEPT ![n] = flagged(@, preferredUpPathId[n], pl.upLinkID)]

\* The links of o whose status is not what o thinks.
outdated(o) == {l \in LinksOf(o) : (status[o][l] = "NORMAL") # linkUp[l]}

\* A link test concludes at o and finds the outdated links F.  It then applies
\* its statuses, all of them, and floods them; its LSA comes back to it too.
findsOut(o, F) ==
  status' = [status EXCEPT ![o] = [l \in LinksOf(o) |->
               IF l \in F THEN IF linkUp[l] THEN "NORMAL" ELSE "FAILURE" ELSE @[l]]]

FaultyFloodFailures(o) ==
  inbox' = [n \in PpNodes |-> [inbox[n] EXCEPT ![o] =
             IF \E l \in LinksOf(o) : status'[o][l] = "FAILURE" THEN Append(@, status'[o]) ELSE @]]

flood(o) == inbox' = [n \in PpNodes |-> [inbox[n] EXCEPT ![o] = Append(@, status'[o])]]

linkTestConcludes(o, F) ==
  /\ F # {}
  /\ findsOut(o, F)
  /\ flood(o)
  /\ updatePreferredPathWithLSA(o, status'[o])
  /\ UNCHANGED linkVars

\* The next LSA of o reaches n.
arrives(n, o) ==
  /\ inbox[n][o] # <<>>
  /\ inbox' = [inbox EXCEPT ![n][o] = Tail(@)]

onReceiveLsa(n, o) ==
  /\ arrives(n, o)
  /\ updatePreferredPathWithLSA(n, Head(inbox[n][o]))
  /\ UNCHANGED <<linkVars, status>>

Next ==
  \/ \E l \in Links : LinkChanges(l)
  \/ \E o \in Nodes : \E F \in SUBSET outdated(o) : linkTestConcludes(o, F)
  \/ \E n \in PpNodes, o \in Nodes : onReceiveLsa(n, o)

Spec == Init /\ [][Next]_controlVars

\* The periodic test of all links goes on at every node, and LSAs arrive.  The
\* steps of Next that do so are linkTestConcludes and onReceiveLsa.
Fairness ==
  /\ \A o \in Nodes : WF_status(outdated(o) # {} /\ findsOut(o, outdated(o)))
  /\ \A n \in PpNodes, o \in Nodes : WF_inbox(arrives(n, o))

FairSpec == Spec /\ Fairness

-----------------------------------------------------------------------------
(* Properties. *)

\* deliverCapsule uses the entry of the preferred RSP without looking whether
\* there is one: whatever LSAs arrive in whatever order, a router that is in
\* the state of detouring has an entry for the path it prefers, and one that is
\* not prefers the PP.
DetourHasEntry ==
  \A n \in PpNodes :
    /\ isDownPathInRspState[n] => lookupForwardingEntry(n, preferredDownPathId[n]) # NoPath
    /\ isDownPathInRspState[n] <=> preferredDownPathId[n] # RSG.primID
    /\ isUpPathInRspState[n] <=> preferredUpPathId[n] # RSG.primID

Settled ==
  /\ \A n \in Nodes, l \in Links : l \in LinksOf(n) => (status[n][l] = "NORMAL" <=> linkUp[l])
  /\ \A n \in PpNodes, o \in Nodes : inbox[n][o] = <<>>

\* Once the routers at both ends of every link know its state and all LSAs have
\* arrived, every router on the PP has the true status of every link, although
\* the LSAs of the two ends of a link write the same entry in any order and an
\* LSA carries the statuses of links that have not changed.
MapsAreTrue ==
  Settled => \A n \in PpNodes, l \in Links : linkStatusMap[n][l] = "NORMAL" <=> linkUp[l]

\* The nodes of the PP at which the preferred paths lead on from the producer.
LegEnd(i) ==
  LET id == preferredDownPathId[RSG.prim[i]]
  IN IF id = RSG.primID THEN i + 1
     ELSE PpIndex(RSG, (CHOOSE p \in Rsps(RSG) : p.id = id).nodes[1])
LegLinks(i) ==
  LET id == preferredDownPathId[RSG.prim[i]]
  IN IF id = RSG.primID THEN {rsgGetLinkID(RSG.prim[i], RSG.prim[i + 1])}
     ELSE PathLinks((CHOOSE p \in Rsps(RSG) : p.id = id).nodes)
RouteLinks ==
  LET from[i \in 1 .. Len(RSG.prim)] ==
        IF i = Len(RSG.prim) THEN {} ELSE LegLinks(i) \cup from[LegEnd(i)]
  IN from[1]

\* Can the consumer be reached over links of the PP and RSPs that are up?
Reachable ==
  LET ok(p) == \A l \in PathLinks(p.nodes) : linkUp[l]
      reach[i \in 1 .. Len(RSG.prim)] ==
        \/ i = 1
        \/ /\ i > 1
           /\ linkUp[rsgGetLinkID(RSG.prim[i - 1], RSG.prim[i])] /\ reach[i - 1]
        \/ \E p \in Rsps(RSG) :
             /\ p.nodes[1] = RSG.prim[i]
             /\ ok(p)
             /\ reach[PpIndex(RSG, p.nodes[Len(p.nodes)])]
  IN reach[Len(RSG.prim)]

RspsUp == \A p \in Rsps(RSG) : \A l \in PathLinks(p.nodes) : linkUp[l]

\* After failures of the PP alone the routers, each deciding for itself on its
\* own copy of the map, come to a route from the producer to the consumer over
\* links that are up.
RouteWorks == Settled /\ RspsUp => \A l \in RouteLinks : linkUp[l]

\* Whatever links of the PP are down, of those that may fail, there are RSPs by
\* which the search finds a way around them.
DetoursSuffice ==
  \A down \in SUBSET (PpLinks(RSG) \cap Unsteady) :
    Costs(RSG, [k \in Keys(RSG) |-> IF k \in down THEN "FAILURE" ELSE "NORMAL"])[Len(RSG.prim)]
      # Unreached

\* Once the PP is whole again every router is back on it, in both directions,
\* although a router that is not on the new route keeps the path it preferred.
BackToPp ==
  Settled /\ (\A l \in PpLinks(RSG) : linkUp[l]) =>
    \A n \in PpNodes : preferredDownPathId[n] = RSG.primID /\ preferredUpPathId[n] = RSG.primID

\* Once links stop changing and all RSPs are up the route works and stays so.
EventuallyRecovers == <>[](RspsUp => \A l \in RouteLinks : linkUp[l])

\* The same, of any failure that leaves a way.
RecoversWheneverReachable == Settled /\ Reachable => \A l \in RouteLinks : linkUp[l]
=============================================================================
