-------------------------- MODULE RouteGeneration --------------------------
(***************************************************************************)
(* The set-up of a simulation, and the failures it schedules: the network  *)
(* read from a file, the search for the primary paths (PPs) of a producer, *)
(* with the redundant sub-paths (RSPs) of every node on them, the routes   *)
(* of each consumer, their installation into the forwarding states of the  *)
(* routers, the choice of the links to disrupt, and their flapping.        *)
(*                                                                         *)
(* One step is one iteration of the search, the routes of one consumer,    *)
(* the choice, or one flap.                                                *)
(*                                                                         *)
(* The searches use the heap of module FibonacciHeap, pointers and all, so *)
(* ties break as they do in the code.                                      *)
(*                                                                         *)
(* Probabilities are integers out of One, rounded down, and logarithms     *)
(* integers too; the code uses doubles.  Delays count in links, since all  *)
(* links of a network file have the same delay.                            *)
(*                                                                         *)
(* An operator named Faulty... is a version of the operator after it with  *)
(* a mistake one could make in this code; no behaviour of Spec uses it.    *)
(***************************************************************************)
EXTENDS FibonacciHeap, Sequences, SequencesExt, TLC

CONSTANTS
  Setups,        \* pairs of a network file [type, nodeIds: as numbered in it, pairs: the
                 \* links in order of lines, relias] and a configuration [beta,
                 \* maxPathDelay: in links, numPPLinks, numNonPPLinks: how many to disrupt]
  flapTimes,
  Producer,
  Consumers      \* those of its flows, in the order of addCommPair

One    == 10000
alpha  == One \div 2      \* LLTC_REROUTE_PATH_GEN_ALPHA
mul(p, r) == (p * r) \div One

\* The reliabilities of links, and 1000 times the logarithms of them.
Relias   == {6000, 8500, 9500, One}
logOf(p) == CASE p = 8500 -> -163 [] p = 9500 -> -51 [] p = 6000 -> -511 [] p = One -> 0

\* The lines of CSV files name nodes; the producer and the consumers are nodes.
IsSetup(f, c) ==
  LET n == Len(f.nodeIds) IN
  /\ f.type \in {"IEEE", "CSV", "BRITE"}
  /\ f.nodeIds \in Seq(Int)
  /\ f.pairs \in IF f.type = "CSV" THEN Seq((0 .. n - 1) \X (0 .. n - 1)) ELSE Seq(Int \X Int)
  /\ f.relias \in [DOMAIN f.pairs -> Relias]
  /\ c.beta \in Nat /\ c.maxPathDelay \in Int
  /\ Producer \in 0 .. n - 1
  /\ Consumers \in Seq(0 .. n - 1)

ASSUME SetupsAssumption == \A setup \in Setups : IsSetup(setup[1], setup[2])

VARIABLES
  graph, config,
  q,                  \* the heap; its keys are the negated expectedLossRates
  isNodeIdInQ, primPathRelias, rerouteLossRates, maxPrimPathDelays, maxDelays,
  prevNodeIdx, rspsMap,
  searching,
  flows,              \* the routes constructed so far
  nextPathID,
  fss,                \* the forwarding states of each router, by flow
  faceEntries,        \* of each router: the remoteLltcNodeId of each face, -1 if not set
  linksToMakeFault, flaps,
  faultyLinks         \* those with the errRate now

searchVars  == <<q, isNodeIdInQ, primPathRelias, rerouteLossRates, maxPrimPathDelays,
                 maxDelays, prevNodeIdx>>
routeVars   == <<flows, nextPathID>>
installVars == <<fss, faceEntries>>
faultVars   == <<linksToMakeFault, flaps, faultyLinks>>
vars == <<graph, config, searchVars, rspsMap, searching, routeVars, installVars, faultVars>>

-----------------------------------------------------------------------------
(* The graph: eLinks of each node, in the order they were added.  A link is *)
(* a record with the node ids a and b and one reliability: createLink is    *)
(* given that of the direction from a to b for both.                        *)

getLinkOpSide(l, u) == IF l.a = u THEN l.b ELSE l.a

listedAt(g, x, l) == [g EXCEPT !.eLinks[x] = Append(@, l)]
addLink(g, l) == listedAt(listedAt(g, l.a, l), l.b, l)

linksBetween(g, x, y) == {i \in DOMAIN g.eLinks[x] : y \in {g.eLinks[x][i].a, g.eLinks[x][i].b}}
getLinkByNodeIds(g, x, y) ==
  g.eLinks[x][CHOOSE i \in linksBetween(g, x, y) : \A j \in linksBetween(g, x, y) : i <= j]

linkIdOf(g, x, y) == getLinkByNodeIds(g, x, y).linkId

createLink(id, a, b, relia) == [linkId |-> id, a |-> a, b |-> b, relia |-> relia]
getLinkDelayTotal(g, l) == IF g.nNodes \in {l.a, l.b} THEN 0 ELSE 1

addLinkDual(g, a, b, relia) ==
  [addLink(g, createLink(g.maxLinkId, a, b, relia)) EXCEPT !.maxLinkId = @ + 1]

LltcGraph(n) == [nNodes |-> n, maxLinkId |-> 0, eLinks |-> [x \in 0 .. n |-> <<>>]]

\* A network of n nodes.  A line that names a pair of nodes already linked is
\* skipped.
addLine(g, x, y, relia) ==
  IF linksBetween(g, x, y) # {} THEN g ELSE addLinkDual(g, y, x, relia)

graphOf(n, pairs, relias) ==
  Loop(LAMBDA g, i : addLine(g, pairs[i][1], pairs[i][2], relias[i]), LltcGraph(n), Len(pairs))

\* IEEE and BRITE files number their nodes in any way; a number that is no node
\* is taken for the first.  CSV files have the number of nodes only.
nodeIdToIdx(f, x) ==
  IF \E i \in DOMAIN f.nodeIds : f.nodeIds[i] = x
  THEN (CHOOSE i \in DOMAIN f.nodeIds : f.nodeIds[i] = x) - 1 ELSE 0

loadFromBriteDataFile(f) ==
  graphOf(Len(f.nodeIds),
          [i \in DOMAIN f.pairs |-> [k \in 1 .. 2 |-> nodeIdToIdx(f, f.pairs[i][k])]], f.relias)
loadFromIEEEDataFile(f) == loadFromBriteDataFile(f)
loadFromCSVDataFile(f) == graphOf(Len(f.nodeIds), f.pairs, f.relias)

load(f) == CASE f.type = "IEEE"  -> loadFromIEEEDataFile(f)
             [] f.type = "CSV"   -> loadFromCSVDataFile(f)
             [] f.type = "BRITE" -> loadFromBriteDataFile(f)

\* The graph with the virtual destination, node nNodes, linked to the nodes of
\* dsts.  removeVirtNode takes it and its links away again.
addVirtLinkDual(g, id, a) == addLink(g, createLink(id, a, g.nNodes, One))
addVirtNode(g, dsts) ==
  Loop(LAMBDA h, i : addVirtLinkDual(h, g.maxLinkId + i - 1, dsts[i]), g, Len(dsts))

\* What a search removes next, and the state of it with all nodes in the heap.
removeMaxObject(h) == h.maxNode
fullHeap(key, n) == Loop(LAMBDA h, i : insert(h, i - 1), emptyHeap(key), n)

\* The nodes from src to u: the path is extended at its start.
extend(prev, src, path) ==
  IF path[1] = src \/ prev[path[1]] = NULL THEN path ELSE <<prev[path[1]]>> \o path

convertPrevArrayToPathNodeIdsArray(prev, src, u) ==
  Loop(LAMBDA path, i : extend(prev, src, path), <<u>>, Cardinality(DOMAIN prev))

pathLinkIds(g, nodes) == {linkIdOf(g, nodes[i - 1], nodes[i]) : i \in 2 .. Len(nodes)}

-----------------------------------------------------------------------------
(* One RSP: the most reliable path from src to one of dsts, not over the    *)
(* links in barred.  The delay bound is on the delay of the node before and *)
(* that of the path together, so the first part counts twice.               *)

Unreached == -1000000            \* the key of a node not reached, INT_MIN

relax(t, u, g, e, barred, maxAllowedDelay) ==
  LET v == getLinkOpSide(e, u)
      downDelay == t.downDelays[u] + getLinkDelayTotal(g, e)
      logReliaOverV == 2 * logOf(e.relia) + t.q.key[u]
  IN IF \/ e.linkId \in barred
        \/ ~t.inQ[v]
        \/ t.downDelays[u] + downDelay > maxAllowedDelay
        \/ t.q.key[u] = Unreached
        \/ logReliaOverV <= t.q.key[v]
     THEN t
     ELSE [t EXCEPT !.prev[v] = u, !.q = increaseKey(@, v, logReliaOverV),
                    !.relia[v] = mul(t.relia[u], mul(e.relia, e.relia)),
                    !.downDelays[v] = downDelay]

leave(s, g, barred, maxAllowedDelay) ==
  LET u == removeMaxObject(s.q) IN
  IF s.q.numberOfNodes = 0 THEN s
  ELSE Loop(LAMBDA t, i : relax(t, u, g, g.eLinks[u][i], barred, maxAllowedDelay),
            [s EXCEPT !.q = removeMax(@), !.inQ[u] = FALSE], Len(g.eLinks[u]))

genPathSearch(s, g, barred, maxAllowedDelay) ==
  Loop(LAMBDA t, i : leave(t, g, barred, maxAllowedDelay), s, size(s.q))

NoRsp == [nodes |-> <<>>]

RedundantSubPath(nodes, lossRate, linkDownDelay) ==
  [nodes |-> nodes, lossRate |-> lossRate, linkDownDelay |-> linkDownDelay, pathID |-> 0]

\* The RSP that a search from src ends with, at node d.
found(s, src, d) ==
  IF s.prev[d] = NULL THEN NoRsp
  ELSE RedundantSubPath(convertPrevArrayToPathNodeIdsArray(s.prev, src, s.prev[d]),
                        One - s.relia[d], s.downDelays[d])

unsearched(src, n) ==
  LET Id == 0 .. n IN
  [q |-> fullHeap([x \in Id |-> IF x = src THEN 0 ELSE Unreached], n + 1),
   inQ |-> [x \in Id |-> TRUE], prev |-> [x \in Id |-> NULL],
   relia |-> [x \in Id |-> IF x = src THEN One ELSE 0], downDelays |-> [x \in Id |-> 0]]

genPath(g, src, dsts, barred, maxAllowedDelay) ==
  found(genPathSearch(unsearched(src, g.nNodes), addVirtNode(g, dsts), barred, maxAllowedDelay),
        src, g.nNodes)

\* beta RSPs at most, each without the links of the ones before it; r are those
\* found so far.
isInArray(r, sp) == \E i \in DOMAIN r : r[i].nodes = sp.nodes

oneMore(g, src, dsts, invalid, maxAllowedDelay, r) ==
  LET expelled == UNION {pathLinkIds(g, r[i].nodes) : i \in DOMAIN r}
      sp == genPath(g, src, dsts, invalid \cup expelled, maxAllowedDelay)
  IN IF sp = NoRsp \/ isInArray(r, sp) THEN r ELSE Append(r, sp)

genRedundantSubPaths(g, src, dsts, invalid, c, maxAllowedDelay) ==
  Loop(LAMBDA r, i : oneMore(g, src, dsts, invalid, maxAllowedDelay, r), <<>>, c.beta)

-----------------------------------------------------------------------------
(* Faces.  A router has one for each of its links, and a face entry. *)

faceMap(g, x) == [id \in {l.linkId : l \in Range(g.eLinks[x])} |-> id]
Install(g, x) == [face \in Range(faceMap(g, x)) |-> -1]

-----------------------------------------------------------------------------
(* The search for the PPs of the producer. *)

Init ==
  \E setup \in Setups :
    LET f == setup[1]
        n == Len(f.nodeIds)
        Id == 0 .. n - 1
        atProducer(x, y) == [i \in Id |-> IF i = Producer THEN x ELSE y]
    IN
    /\ graph = load(f)
    /\ config = setup[2]
    /\ q = fullHeap(atProducer(0, -One), n)
    /\ isNodeIdInQ = [i \in Id |-> TRUE]
    /\ primPathRelias = atProducer(One, 0)
    /\ rerouteLossRates = [i \in Id |-> 0]
    /\ maxPrimPathDelays = [i \in Id |-> 0]
    /\ maxDelays = [i \in Id |-> 0]
    /\ prevNodeIdx = [i \in Id |-> NULL]
    /\ rspsMap = [i \in Id |-> <<>>]
    /\ searching = TRUE
    /\ flows = <<>>
    /\ nextPathID = 0
    /\ fss = [i \in Id |-> <<>>]
    /\ faceEntries = [x \in Id |-> Install(load(f), x)]
    /\ linksToMakeFault = {}
    /\ flaps = 0
    /\ faultyLinks = {}

Nodes == 0 .. graph.nNodes - 1
pathTo(u) == convertPrevArrayToPathNodeIdsArray(prevNodeIdx, Producer, u)
last(s) == s[Len(s)]

\* The RSPs of v, if u is the node before it and e the link between them.
FaultyOwnLink(u, v, e) ==
  genRedundantSubPaths(graph, v, pathTo(u), pathLinkIds(graph, pathTo(u)),
                       config, config.maxPathDelay - maxDelays[u] - 1)

FaultyNearest(u, v, e) ==
  genRedundantSubPaths(graph, v, <<u>>, pathLinkIds(graph, pathTo(u)) \cup {e.linkId},
                       config, config.maxPathDelay - maxDelays[u] - 1)

rspsOf(u, v, e) ==
  genRedundantSubPaths(graph, v, pathTo(u), pathLinkIds(graph, pathTo(u)) \cup {e.linkId},
                       config, config.maxPathDelay - maxDelays[u] - 1)

\* What v has then: the longest of the delays by the link and by each RSP, and
\* the rates of loss on the PP and on all ways together.
FaultyDelay(u, rsps) == maxDelays[u] + 1

rrMaxDelay(u, rsps) ==
  Loop(LAMBDA d, i : LET viaRsp == rsps[i].linkDownDelay + maxDelays[last(rsps[i].nodes)]
                     IN IF viaRsp > d THEN viaRsp ELSE d,
       maxDelays[u] + 1, Len(rsps))

rerouteLossRate(u, e, rsps) ==
  Loop(LAMBDA r, i : mul(r, One - mul(One - rsps[i].lossRate,
                                      One - rerouteLossRates[last(rsps[i].nodes)])),
       One - mul(One - rerouteLossRates[u], e.relia), Len(rsps))

\* The variables of the search after u, just removed, is left over link e to v,
\* which has these RSPs then.
relaxNode(s, u, e, v, rsps) ==
  LET relia == mul(primPathRelias[u], e.relia)
      reroute == rerouteLossRate(u, e, rsps)
      overall == mul(alpha, One - relia) + mul(One - alpha, reroute)
  IN IF \/ ~s.isNodeIdInQ[v]
        \/ maxPrimPathDelays[u] + 1 > config.maxPathDelay
        \/ overall >= -s.q.key[v]
     THEN s
     ELSE [s EXCEPT !.maxPrimPathDelays[v] = maxPrimPathDelays[u] + 1,
                    !.primPathRelias[v] = relia, !.rerouteLossRates[v] = reroute,
                    !.q = increaseKey(@, v, -overall),
                    !.rspsMap[v] = IF rsps # <<>> THEN rsps ELSE @,
                    !.prevNodeIdx[v] = u, !.maxDelays[v] = rrMaxDelay(u, rsps)]

relaxLink(s, u, e) ==
  LET v == getLinkOpSide(e, u) IN relaxNode(s, u, e, v, rspsOf(u, v, e))

\* The variables of the search are those of t; it goes on unless the node just
\* removed, and so every node left, cannot be reached.
searchedTo(t, unreachable) ==
  /\ searching' = (~unreachable /\ t.q.numberOfNodes > 0)
  /\ q' = t.q
  /\ isNodeIdInQ' = t.isNodeIdInQ
  /\ primPathRelias' = t.primPathRelias
  /\ rerouteLossRates' = t.rerouteLossRates
  /\ maxPrimPathDelays' = t.maxPrimPathDelays
  /\ maxDelays' = t.maxDelays
  /\ prevNodeIdx' = t.prevNodeIdx
  /\ rspsMap' = t.rspsMap

genResilientRoutesVectors ==
  LET u == removeMaxObject(q)
      s == [q |-> removeMax(q), isNodeIdInQ |-> [isNodeIdInQ EXCEPT ![u] = FALSE],
            primPathRelias |-> primPathRelias, rerouteLossRates |-> rerouteLossRates,
            maxPrimPathDelays |-> maxPrimPathDelays, maxDelays |-> maxDelays,
            prevNodeIdx |-> prevNodeIdx, rspsMap |-> rspsMap]
      unreachable == q.key[u] = -One
  IN
  /\ searching
  /\ searchedTo(IF unreachable THEN s
                ELSE Loop(LAMBDA r, i : relaxLink(r, u, graph.eLinks[u][i]), s, Len(graph.eLinks[u])),
                unreachable)
  /\ UNCHANGED <<graph, config, routeVars, installVars, faultVars>>

-----------------------------------------------------------------------------
(* The routes of a consumer. *)

\* At how many places an RSP is to be given up for: its link there is that of the
\* PP at the same place.
jointRSPs_indexes(nodeIds, rsp) ==
  {i \in 2 .. Len(rsp.nodes) :
     /\ i <= Len(nodeIds)
     /\ linkIdOf(graph, nodeIds[i - 1], nodeIds[i]) = linkIdOf(graph, rsp.nodes[i - 1], rsp.nodes[i])}

\* Erased from the last to the first.  An RSP listed twice takes its successor
\* with it; without a successor the code erases at the end of the vector.
erase(r, j, times) == SubSeq(r, 1, j - 1) \o SubSeq(r, j + times, Len(r))

withoutJoint(nodeIds, rsps) ==
  LET fromLast(r, i) == LET j == Len(rsps) + 1 - i
                        IN erase(r, j, Cardinality(jointRSPs_indexes(nodeIds, rsps[j])))
  IN Loop(fromLast, rsps, Len(rsps))

FaultySameId(rsps, id) == [j \in DOMAIN rsps |-> [rsps[j] EXCEPT !.pathID = id]]

numbered(rsps, id) == [j \in DOMAIN rsps |-> [rsps[j] EXCEPT !.pathID = id + j - 1]]

\* The RSPs of each node of the PP, numbered from id on in the order of the PP.
enlist(s, nodeIds, x) ==
  LET rsps == numbered(withoutJoint(nodeIds, rspsMap[x]), s.id)
  IN [hrsp |-> [y \in DOMAIN s.hrsp \cup {x} |-> IF y = x THEN rsps ELSE s.hrsp[y]],
      id |-> s.id + Len(rsps)]

hrspOf(nodeIds, id) ==
  Loop(LAMBDA s, i : enlist(s, nodeIds, nodeIds[i + 1]), [hrsp |-> <<>>, id |-> id], Len(nodeIds) - 1).hrsp

constructResilientRoutes(c) ==
  LET nodeIds == pathTo(c) IN
  [consumer |-> c, nodeIds |-> nodeIds, pathID |-> nextPathID,
   hrsp |-> hrspOf(nodeIds, nextPathID + 1),
   maxRrDelay |-> maxDelays[c], primPathDelay |-> maxPrimPathDelays[c]]

\* The RSPs of a flow, in the order of their ids.
rspsOfFlow(rr) == Loop(LAMBDA r, i : r \o rr.hrsp[rr.nodeIds[i + 1]], <<>>, Len(rr.nodeIds) - 1)

-----------------------------------------------------------------------------
(* Forwarding states.  Direction 0 is towards the consumer. *)

NoPath == -1        \* UINT_MAX
faceTo(x, y) == faceMap(graph, x)[linkIdOf(graph, x, y)]

getRouterFS == [fibEntries |-> <<>>, preferredDownPathId |-> NoPath,
                preferredUpPathId |-> NoPath, primaryPathId |-> NoPath]

LltcFIBEntry(pathId, face, direction, isRetransPoint) ==
  [pathId |-> pathId, face_nextHop |-> face, direction |-> direction,
   isRetransPoint |-> isRetransPoint]

feCur(nodes, i, pathId, isPrimPath) ==
  LltcFIBEntry(pathId, faceTo(nodes[i], nodes[i + 1]), IF isPrimPath THEN 0 ELSE 1,
               isPrimPath \/ i = 1)

feNext(nodes, i, pathId, isPrimPath) ==
  LltcFIBEntry(pathId, faceTo(nodes[i + 1], nodes[i]), IF isPrimPath THEN 1 ELSE 0, isPrimPath)

\* The first path that is added to a router becomes the one it prefers.
addFibEntry(m, x, fe) == [m EXCEPT ![x].fibEntries = Append(@, fe)]
addLinkEntries(m, nodes, i, pathId, isPrimPath) ==
  addFibEntry(addFibEntry(m, nodes[i], feCur(nodes, i, pathId, isPrimPath)),
              nodes[i + 1], feNext(nodes, i, pathId, isPrimPath))

addFibsFromPath(fsMap, nodes, pathId, isPrimPath, primPathId) ==
  LET withEntries == Loop(LAMBDA m, i : addLinkEntries(m, nodes, i, pathId, isPrimPath),
                          fsMap, Len(nodes) - 1)
      preferred(old) == IF old = NoPath THEN pathId ELSE old
  IN [x \in DOMAIN fsMap |->
        IF x \notin Range(nodes) THEN withEntries[x]
        ELSE [withEntries[x] EXCEPT !.preferredDownPathId = preferred(@),
                                    !.preferredUpPathId = preferred(@),
                                    !.primaryPathId = primPathId]]

convertToFSes(rr) ==
  LET withPp == addFibsFromPath([x \in Nodes |-> getRouterFS], rr.nodeIds, rr.pathID, TRUE, rr.pathID)
      rsps == rspsOfFlow(rr)
  IN Loop(LAMBDA m, i : addFibsFromPath(m, rsps[i].nodes, rsps[i].pathID, FALSE, rr.pathID),
          withPp, Len(rsps))

\* Faces along a path learn the node at their other end.
learn(entries, x, y) ==
  [entries EXCEPT ![x][faceTo(x, y)] = y, ![y][faceTo(y, x)] = x]

remoteLltcNodeIds(entries, nodes) ==
  Loop(LAMBDA es, i : learn(es, nodes[i], nodes[i + 1]), entries, Len(nodes) - 1)

learnFlow(entries, rr) ==
  LET rsps == rspsOfFlow(rr)
  IN Loop(LAMBDA es, i : remoteLltcNodeIds(es, rsps[i].nodes),
          remoteLltcNodeIds(entries, rr.nodeIds), Len(rsps))

enforceFs(fsMap) == [x \in Nodes |-> Append(fss[x], fsMap[x])]

\* The next flow: its routes, and at once their installation.  Consumers are
\* nodes the search has reached, the code has no check for it.  The RSPs of a
\* node stay those of the search, so what one flow erases no later one has.
computeRoutesForCommPairs ==
  LET c == Consumers[Len(flows) + 1]
      rr == constructResilientRoutes(c)
  IN
  /\ ~searching
  /\ Len(flows) < Len(Consumers)
  /\ Len(pathTo(c)) > 1
  /\ flows' = Append(flows, rr)
  /\ nextPathID' = nextPathID + 1 + Len(rspsOfFlow(rr))
  /\ rspsMap' = [x \in Nodes |-> IF x \in DOMAIN rr.hrsp THEN rr.hrsp[x] ELSE rspsMap[x]]
  /\ fss' = enforceFs(convertToFSes(rr))
  /\ faceEntries' = learnFlow(faceEntries, rr)
  /\ UNCHANGED <<graph, config, searchVars, searching, faultVars>>

-----------------------------------------------------------------------------
(* Failures, of links of the first flow. *)

\* What n draws without replacement from a list can give, if each link of it is
\* in it times(link) times.
Draws(links, times(_), n) ==
  {S \in SUBSET links : /\ Cardinality(S) <= n
                        /\ FoldSet(LAMBDA l, m : m + times(l), 0, S) >= n \/ S = links}

findFaultLinks ==
  LET rr == flows[1]
      timesInRsps(l) == Cardinality({p \in Range(rspsOfFlow(rr)) : l \in pathLinkIds(graph, p.nodes)})
      rspLinks == UNION {pathLinkIds(graph, p.nodes) : p \in Range(rspsOfFlow(rr))}
  IN
  /\ Len(flows) = Len(Consumers)
  /\ linksToMakeFault = {}
  /\ \E P \in Draws(pathLinkIds(graph, rr.nodeIds), LAMBDA l : 1, config.numPPLinks),
        R \in Draws(rspLinks, timesInRsps, config.numNonPPLinks) :
       linksToMakeFault' = P \cup R
  /\ UNCHANGED <<graph, config, searchVars, rspsMap, searching, routeVars, installVars,
                 flaps, faultyLinks>>

setLinksErrorRatesTask(fail) == IF fail THEN linksToMakeFault ELSE {}

\* The links fail at the first of the times that were drawn, recover at the
\* second, and so on: times are drawn from intervals one after the other.
simulateLinkErrors ==
  /\ linksToMakeFault # {}
  /\ flaps < flapTimes
  /\ flaps' = flaps + 1
  /\ faultyLinks' = setLinksErrorRatesTask(flaps % 2 = 0)
  /\ UNCHANGED <<graph, config, searchVars, rspsMap, searching, routeVars, installVars,
                 linksToMakeFault>>

Next ==
  \/ genResilientRoutesVectors
  \/ computeRoutesForCommPairs
  \/ findFaultLinks
  \/ simulateLinkErrors

Spec == Init /\ [][Next]_vars

-----------------------------------------------------------------------------
(* Properties. *)

\* The heap survives every sequence of removals and key updates of the search:
\* it has exactly the nodes not yet removed, and its maximum on top.
HeapIsSound == searching => IsHeapOf(q, {x \in Nodes : isNodeIdInQ[x]})

position(rr, x) == CHOOSE i \in DOMAIN rr.nodeIds : rr.nodeIds[i] = x
linkSet(nodes) == pathLinkIds(graph, nodes)

\* The RSPs of a flow are what modules Rsg and Failover take them to be: an RSP
\* starts at the PP node it belongs to and ends at an earlier one, repeats no
\* node, uses no link of the PP up to its start, and shares none with the other
\* RSPs of that node; though the PP to a node may still change after its RSPs
\* were computed, and flows of one producer share the RSPs.
RspsAreDetours ==
  \A k \in DOMAIN flows :
    LET rr == flows[k] IN
    \A i \in 2 .. Len(rr.nodeIds) :
      LET rsps == rr.hrsp[rr.nodeIds[i]]
          ppTo == SubSeq(rr.nodeIds, 1, i)
      IN \A j \in DOMAIN rsps :
           LET nodes == rsps[j].nodes IN
           /\ nodes[1] = rr.nodeIds[i]
           /\ last(nodes) \in Range(SubSeq(rr.nodeIds, 1, i - 1))
           /\ IsInjective(nodes)
           /\ linkSet(nodes) \cap linkSet(ppTo) = {}
           /\ \A l \in DOMAIN rsps \ {j} : linkSet(rsps[l].nodes) \cap linkSet(nodes) = {}

\* The delay the routes of a flow claim is not exceeded on any way from the
\* producer to the consumer that follows the PP and leaves it by any RSPs.
worstDelays(rr) ==    \* up to each node of the PP
  LET viaRsps(w, i) == {Len(p.nodes) - 1 + w[position(rr, last(p.nodes))] :
                          p \in Range(rr.hrsp[rr.nodeIds[i]])}
  IN Loop(LAMBDA w, i : Append(w, Max(viaRsps(w, i + 1) \cup {1 + w[i]})), <<0>>, Len(rr.nodeIds) - 1)

DelayIsBound ==
  \A k \in DOMAIN flows : last(worstDelays(flows[k])) <= flows[k].maxRrDelay

\* Data that is sent on a path of any flow is led along it, down and up, by the
\* entries of the routers for the path id, whichever flows share the routers,
\* and every link of the path is one both ends can measure.
Follow(k, x, id, d) == {e \in Range(fss[x][k].fibEntries) : e.pathId = id /\ e.direction = d}

PathsAreInstalled ==
  \A k \in DOMAIN flows :
    LET rr == flows[k]
        led(nodes, id) ==    \* nodes in the direction of the data
          \A i \in 1 .. Len(nodes) - 1 :
            /\ {e.face_nextHop : e \in Follow(k, nodes[i], id, 0)} = {faceTo(nodes[i], nodes[i + 1])}
            /\ {e.face_nextHop : e \in Follow(k, nodes[i + 1], id, 1)} = {faceTo(nodes[i + 1], nodes[i])}
            /\ faceEntries[nodes[i]][faceTo(nodes[i], nodes[i + 1])] = nodes[i + 1]
            /\ faceEntries[nodes[i + 1]][faceTo(nodes[i + 1], nodes[i])] = nodes[i]
    IN /\ led(rr.nodeIds, rr.pathID)
       /\ \A p \in Range(rspsOfFlow(rr)) : led(Reverse(p.nodes), p.pathID)
       /\ \A x \in Range(rr.nodeIds) : fss[x][k].preferredDownPathId = rr.pathID

\* A single failure is survived where the bound on delays leaves all ways open:
\* if the network without the failed link still connects the producer with the
\* consumer, some way along the PP, left over RSPs, avoids it, although each of
\* the RSPs was found for one node, on a path to it that was provisional.
linked(x, y) == \E l \in Range(graph.eLinks[x]) : getLinkOpSide(l, x) = y /\ l.linkId \notin faultyLinks

reachable == LET reach(S) == S \cup {y \in Nodes : \E x \in S : linked(x, y)}
             IN FoldLeft(LAMBDA S, i : reach(S), {Producer}, [i \in 1 .. graph.nNodes |-> i])

\* The positions on the PP that data gets to, from the first on.
survivors(rr) ==
  LET isReached(S, i) ==
        \/ linkIdOf(graph, rr.nodeIds[i - 1], rr.nodeIds[i]) \notin faultyLinks /\ i - 1 \in S
        \/ \E p \in Range(rr.hrsp[rr.nodeIds[i]]) :
             /\ linkSet(p.nodes) \cap faultyLinks = {}
             /\ position(rr, last(p.nodes)) \in S
  IN Loop(LAMBDA S, i : IF isReached(S, i + 1) THEN S \cup {i + 1} ELSE S, {1}, Len(rr.nodeIds) - 1)

SurvivesOneFailure ==
  (Cardinality(faultyLinks) = 1 /\ config.maxPathDelay >= 4 * graph.nNodes /\ flows[1].consumer \in reachable)
    => Len(flows[1].nodeIds) \in survivors(flows[1])
=============================================================================
