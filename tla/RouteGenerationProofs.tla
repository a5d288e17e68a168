----------------------- MODULE RouteGenerationProofs -----------------------
(***************************************************************************)
(* What is proved of the set-up of a simulation, for any network files and *)
(* configurations of the form IsSetup.                                     *)
(*                                                                         *)
(* SearchIInv, of the search: the graph is a network, the heap is a sound  *)
(* heap of exactly the nodes not yet removed, the predecessors of the      *)
(* nodes reached lead to the producer over nodes already removed, and of   *)
(* every node reached the RSPs it got with the node now before it are      *)
(* disjoint detours to nodes before it, and none delays by more than the   *)
(* delay it has.  RouteIInv adds the same of the routes constructed so     *)
(* far, though each construction erases RSPs and gives them other ids, and *)
(* InstallIInv what the fields of the routers lead to: along every path    *)
(* of every flow, by exactly one face at each node for its id.             *)
(*                                                                         *)
(* A loop of the code is a function of the number of its rounds; what its  *)
(* body keeps it keeps (RunExists, RunStays of FibonacciHeapProofs).       *)
(***************************************************************************)
EXTENDS RouteGeneration, FibonacciHeapProofs

-----------------------------------------------------------------------------
(* The networks. *)

\* Links between the nodes below n, and from those in D to the virtual one, n.
LinkSet(n, D) ==
  {l \in [linkId : Nat, a : 0 .. n - 1, b : 0 .. n, relia : Relias] : l.b = n => l.a \in D}

GraphOn(g, n, D) ==
  g \in [nNodes : {n}, maxLinkId : Nat, eLinks : [0 .. n -> Seq(LinkSet(n, D))]]

Occurs(l, s) == \E i \in DOMAIN s : s[i] = l
IsLinkOf(g, x, l) == Occurs(l, g.eLinks[x])

\* A link is listed at both its ends, and nowhere else.
Wired(g, n) ==
  \A x \in 0 .. n : \A l : IsLinkOf(g, x, l) =>
    x \in {l.a, l.b} /\ IsLinkOf(g, l.a, l) /\ IsLinkOf(g, l.b, l)

\* Link ids are unique, and no two nodes have two links.
OwnIds(g, n) ==
  \A x, y \in 0 .. n : \A l, m : IsLinkOf(g, x, l) /\ IsLinkOf(g, y, m) =>
    l.linkId < g.maxLinkId /\ (l.linkId = m.linkId \/ {l.a, l.b} = {m.a, m.b} => l = m)

Network(g, n) == GraphOn(g, n, {}) /\ Wired(g, n) /\ OwnIds(g, n)

LEMMA LinkFields ==
  ASSUME NEW n \in Nat, NEW D, NEW l \in LinkSet(n, D)
  PROVE  /\ l.linkId \in Nat /\ l.a \in 0 .. n - 1 /\ l.b \in 0 .. n /\ l.relia \in Relias
         /\ l.b = n => l.a \in D
         /\ l.a \in 0 .. n /\ l.a # n
BY DEF LinkSet

LEMMA GraphFields ==
  ASSUME NEW n \in Nat, NEW D, NEW g, GraphOn(g, n, D)
  PROVE  /\ g.nNodes = n /\ g.maxLinkId \in Nat /\ g.eLinks \in [0 .. n -> Seq(LinkSet(n, D))]
         /\ \A x \in 0 .. n : g.eLinks[x] \in Seq(LinkSet(n, D))
         /\ \A x \in 0 .. n : \A l : IsLinkOf(g, x, l) => l \in LinkSet(n, D)
<1>1. /\ g.nNodes = n /\ g.maxLinkId \in Nat /\ g.eLinks \in [0 .. n -> Seq(LinkSet(n, D))]
      /\ \A x \in 0 .. n : g.eLinks[x] \in Seq(LinkSet(n, D))
  BY DEF GraphOn
<1>2. ASSUME NEW x \in 0 .. n, NEW l, IsLinkOf(g, x, l) PROVE l \in LinkSet(n, D)
  BY <1>1, <1>2 DEF IsLinkOf, Occurs
<1> QED
  BY <1>1, <1>2

\* A link that is added is listed at its ends.
LEMMA ListedLinks ==
  ASSUME NEW n \in Nat, NEW D, NEW g, GraphOn(g, n, D), NEW k \in LinkSet(n, D), NEW y \in 0 .. n
  PROVE  /\ GraphOn(listedAt(g, y, k), n, D)
         /\ listedAt(g, y, k).maxLinkId = g.maxLinkId
         /\ \A x \in 0 .. n : \A l : IsLinkOf(listedAt(g, y, k), x, l) <=> IsLinkOf(g, x, l) \/ (l = k /\ x = y)
<1> DEFINE h == listedAt(g, y, k)
           L == [g.eLinks EXCEPT ![y] = Append(@, k)]
           S == LinkSet(n, D)
<1>1. g.eLinks \in [0 .. n -> Seq(S)] /\ k \in S
  BY GraphFields
<1>2. h.maxLinkId = g.maxLinkId /\ h.eLinks = L
  BY DEF listedAt, GraphOn
<1>3. L \in [0 .. n -> Seq(S)] => GraphOn(h, n, D)
  BY DEF listedAt, GraphOn
<1> HIDE DEF h, S
<1>4. ASSUME NEW s \in Seq(S)
      PROVE  Append(s, k) \in Seq(S) /\ \A l : Occurs(l, Append(s, k)) <=> Occurs(l, s) \/ l = k
  <2>1. /\ Append(s, k) \in Seq(S) /\ DOMAIN Append(s, k) = 1 .. Len(s) + 1 /\ DOMAIN s = 1 .. Len(s)
        /\ Len(s) \in Nat /\ \A i \in 1 .. Len(s) : Append(s, k)[i] = s[i]
        /\ Append(s, k)[Len(s) + 1] = k
    BY <1>1
  <2>2. ASSUME NEW l PROVE Occurs(l, Append(s, k)) <=> Occurs(l, s) \/ l = k
    BY <2>1 DEF Occurs
  <2> QED
    BY <2>1, <2>2
<1>5. /\ L \in [0 .. n -> Seq(S)] /\ L[y] = Append(g.eLinks[y], k)
      /\ \A x \in 0 .. n : x # y => L[x] = g.eLinks[x]
  BY <1>1, <1>4
<1> HIDE DEF L
<1>6. ASSUME NEW x \in 0 .. n, NEW l PROVE IsLinkOf(h, x, l) <=> IsLinkOf(g, x, l) \/ (l = k /\ x = y)
  <2>1. CASE x = y
    BY <2>1, <1>1, <1>2, <1>4, <1>5 DEF IsLinkOf
  <2>2. CASE x # y
    BY <2>2, <1>2, <1>5 DEF IsLinkOf
  <2> QED
    BY <2>1, <2>2
<1> QED
  BY <1>2, <1>3, <1>5, <1>6 DEF h

LEMMA AddedLinks ==
  ASSUME NEW n \in Nat, NEW D, NEW g, GraphOn(g, n, D), NEW k \in LinkSet(n, D)
  PROVE  /\ GraphOn(addLink(g, k), n, D)
         /\ addLink(g, k).maxLinkId = g.maxLinkId
         /\ \A x \in 0 .. n : \A l : IsLinkOf(addLink(g, k), x, l) <=> IsLinkOf(g, x, l) \/ (l = k /\ x \in {k.a, k.b})
<1> DEFINE h == listedAt(g, k.a, k)
<1>1. k.a \in 0 .. n /\ k.b \in 0 .. n
  BY LinkFields
<1>2. /\ GraphOn(h, n, D) /\ h.maxLinkId = g.maxLinkId
      /\ \A x \in 0 .. n : \A l : IsLinkOf(h, x, l) <=> IsLinkOf(g, x, l) \/ (l = k /\ x = k.a)
  BY <1>1, ListedLinks
<1> HIDE DEF h
<1>3. /\ GraphOn(listedAt(h, k.b, k), n, D) /\ listedAt(h, k.b, k).maxLinkId = h.maxLinkId
      /\ \A x \in 0 .. n : \A l : IsLinkOf(listedAt(h, k.b, k), x, l) <=> IsLinkOf(h, x, l) \/ (l = k /\ x = k.b)
  BY <1>1, <1>2, ListedLinks
<1>4. addLink(g, k) = listedAt(h, k.b, k)
  BY DEF addLink, h
<1> QED
  BY <1>2, <1>3, <1>4

\* A line of a network file leaves a network.
LEMMA AddLineKeeps ==
  ASSUME NEW n \in Nat, NEW g, Network(g, n), NEW x \in 0 .. n - 1, NEW y \in 0 .. n - 1, NEW relia \in Relias
  PROVE  Network(addLine(g, x, y, relia), n)
<1> DEFINE k == createLink(g.maxLinkId, y, x, relia)
           h == addLink(g, k)
           r == addLinkDual(g, y, x, relia)
<1>1. GraphOn(g, n, {}) /\ Wired(g, n) /\ OwnIds(g, n) /\ g.maxLinkId \in Nat
  BY GraphFields DEF Network
<1>2. k \in LinkSet(n, {}) /\ k.a = y /\ k.b = x /\ k.linkId = g.maxLinkId
  BY <1>1 DEF createLink, LinkSet
<1> HIDE DEF k
<1>3. /\ GraphOn(h, n, {}) /\ h.maxLinkId = g.maxLinkId
      /\ \A z \in 0 .. n : \A l : IsLinkOf(h, z, l) <=> IsLinkOf(g, z, l) \/ (l = k /\ z \in {y, x})
  BY <1>1, <1>2, AddedLinks
<1> HIDE DEF h
<1>4. r.eLinks = h.eLinks /\ r.maxLinkId = g.maxLinkId + 1 /\ GraphOn(r, n, {})
  <2>1. r = [h EXCEPT !.maxLinkId = @ + 1]
    BY DEF addLinkDual, h, k
  <2> HIDE DEF r
  <2>2. h \in [nNodes : {n}, maxLinkId : Nat, eLinks : [0 .. n -> Seq(LinkSet(n, {}))]]
    BY <1>3 DEF GraphOn
  <2>3. g.maxLinkId + 1 \in Nat
    BY <1>1
  <2>4. r.eLinks = h.eLinks /\ r.maxLinkId = g.maxLinkId + 1
    BY <2>1, <2>2, <1>3
  <2>5. r \in [nNodes : {n}, maxLinkId : Nat, eLinks : [0 .. n -> Seq(LinkSet(n, {}))]]
    BY <2>1, <2>2, <2>3, <1>3
  <2> QED
    BY <2>4, <2>5 DEF GraphOn
<1> HIDE DEF r
<1>5. \A z \in 0 .. n : \A l : IsLinkOf(r, z, l) <=> IsLinkOf(g, z, l) \/ (l = k /\ z \in {y, x})
  BY <1>3, <1>4 DEF IsLinkOf
<1>6. Wired(r, n)
  <2> SUFFICES ASSUME NEW z \in 0 .. n, NEW l, IsLinkOf(r, z, l)
               PROVE  z \in {l.a, l.b} /\ IsLinkOf(r, l.a, l) /\ IsLinkOf(r, l.b, l)
    BY DEF Wired
  <2>1. CASE l = k
    BY <2>1, <1>2, <1>5, <1>1, GraphFields, LinkFields DEF Wired
  <2>2. CASE IsLinkOf(g, z, l)
    <3>1. l.a \in 0 .. n /\ l.b \in 0 .. n
      BY <2>2, <1>1, GraphFields, LinkFields
    <3> QED
      BY <3>1, <2>2, <1>1, <1>5 DEF Wired
  <2> QED
    BY <2>1, <2>2, <1>5
<1>7. ASSUME linksBetween(g, x, y) = {} PROVE OwnIds(r, n)
  <2>1. ASSUME NEW z \in 0 .. n, NEW l, IsLinkOf(g, z, l)
        PROVE  l.linkId < g.maxLinkId /\ {l.a, l.b} # {y, x} /\ l.linkId \in Nat
    <3>1. l \in LinkSet(n, {}) /\ l.a \in 0 .. n /\ l.b \in 0 .. n /\ l.linkId \in Nat
      BY <2>1, <1>1, GraphFields, LinkFields
    <3>2. l.linkId < g.maxLinkId /\ IsLinkOf(g, l.a, l) /\ IsLinkOf(g, l.b, l)
      BY <2>1, <3>1, <1>1 DEF OwnIds, Wired
    <3>3. ASSUME {l.a, l.b} = {y, x} PROVE FALSE
      <4>1. IsLinkOf(g, x, l) /\ y \in {l.a, l.b}
        BY <3>2, <3>3
      <4> QED
        BY <4>1, <1>7 DEF IsLinkOf, Occurs, linksBetween
    <3> QED
      BY <3>1, <3>2, <3>3
  <2> SUFFICES ASSUME NEW z \in 0 .. n, NEW w \in 0 .. n, NEW l, NEW m, IsLinkOf(r, z, l), IsLinkOf(r, w, m)
               PROVE  l.linkId < r.maxLinkId /\ (l.linkId = m.linkId \/ {l.a, l.b} = {m.a, m.b} => l = m)
    BY DEF OwnIds
  <2>2. IsLinkOf(g, z, l) \/ l = k
    BY <1>5
  <2>3. IsLinkOf(g, w, m) \/ m = k
    BY <1>5
  <2>4. l.linkId < r.maxLinkId
    BY <2>1, <2>2, <1>1, <1>2, <1>4
  <2>5. CASE IsLinkOf(g, z, l) /\ IsLinkOf(g, w, m)
    BY <2>5, <2>4, <1>1 DEF OwnIds
  <2>6. CASE l = k /\ IsLinkOf(g, w, m)
    BY <2>6, <2>1, <2>4, <1>1, <1>2
  <2>7. CASE m = k /\ IsLinkOf(g, z, l)
    BY <2>7, <2>1, <2>4, <1>1, <1>2
  <2> QED
    BY <2>2, <2>3, <2>4, <2>5, <2>6, <2>7
<1> QED
  BY <1>1, <1>4, <1>6, <1>7 DEF addLine, Network, r

LEMMA GraphOfKeeps ==
  ASSUME NEW n \in Nat, NEW pairs, NEW relias \in [DOMAIN pairs -> Relias], pairs \in Seq((0 .. n - 1) \X (0 .. n - 1))
  PROVE  Network(graphOf(n, pairs, relias), n)
<1> DEFINE s0 == LltcGraph(n)
           m == Len(pairs)
           good == {g \in [nNodes : {n}, maxLinkId : Nat, eLinks : [0 .. n -> Seq(LinkSet(n, {}))]] : Network(g, n)}
           step(g, i) == addLine(g, pairs[i][1], pairs[i][2], relias[i])
           stage == [i \in 0 .. m |-> good]
           F == [i \in 1 .. m |-> [o \in stage[i - 1] |-> step(o, i)]]
           a == CHOOSE f : f = [i \in 0 .. m |-> IF i = 0 THEN s0 ELSE step(f[i - 1], i)]
<1>1. m \in Nat /\ DOMAIN pairs = 1 .. m
  OBVIOUS
<1>2. s0 \in good
  <2>1. GraphOn(s0, n, {}) /\ \A x \in 0 .. n : s0.eLinks[x] = <<>>
    BY DEF LltcGraph, GraphOn
  <2>2. \A x \in 0 .. n : \A l : ~IsLinkOf(s0, x, l)
    BY <2>1 DEF IsLinkOf, Occurs
  <2> HIDE DEF s0
  <2> QED
    BY <2>1, <2>2 DEF Network, GraphOn, Wired, OwnIds
<1>3. ASSUME NEW i \in 1 .. m, NEW g \in good PROVE step(g, i) \in good
  <2>1. pairs[i][1] \in 0 .. n - 1 /\ pairs[i][2] \in 0 .. n - 1 /\ relias[i] \in Relias
    BY <1>1
  <2>2. Network(step(g, i), n)
    BY <2>1, AddLineKeeps
  <2> HIDE DEF step
  <2> QED
    BY <2>2 DEF Network, GraphOn
<1>4. s0 \in stage[0]
  BY <1>1, <1>2
<1>5. \A i \in 1 .. m : \A g \in stage[i - 1] : step(g, i) \in stage[i]
  <2> HIDE DEF step, good
  <2> QED
    BY <1>1, <1>3
<1> HIDE DEF m, s0, step, stage
<1>20. \A i \in 1 .. m : F[i] \in [stage[i - 1] -> stage[i]]
  BY <1>5
<1>21. PICK f : IsTrace(f, m) /\ IsRun(f, m, s0, F, stage)
  <2> HIDE DEF F
  <2> QED
    BY <1>1, <1>4, <1>20, RunExists
<1>22. f = [i \in 0 .. m |-> IF i = 0 THEN s0 ELSE step(f[i - 1], i)]
  <2>1. ASSUME NEW i \in 1 .. m PROVE f[i] = step(f[i - 1], i)
    <3>1. i - 1 \in 0 .. m /\ f[i] = F[i][f[i - 1]] /\ f[i - 1] \in stage[i - 1]
      <4> HIDE DEF F
      <4>1. i - 1 \in 0 .. m
        BY <1>1
      <4> QED
        BY <4>1, <1>21 DEF IsRun
    <3> QED
      BY <3>1
  <2>2. f[0] = s0
    BY <1>21 DEF IsRun
  <2>3. \A i \in 0 .. m : f[i] = IF i = 0 THEN s0 ELSE step(f[i - 1], i)
    BY <1>1, <2>1, <2>2
  <2> QED
    BY <1>21, <2>3 DEF IsTrace
<1>23. a = [i \in 0 .. m |-> IF i = 0 THEN s0 ELSE step(a[i - 1], i)]
  BY <1>22
<1> HIDE DEF a, F
<1>24. a[m] \in stage[m]
  <2>1. ASSUME NEW i \in 1 .. m, a[i - 1] \in stage[i - 1] PROVE a[i] \in stage[i]
    <3>1. a[i] = step(a[i - 1], i)
      BY <1>1, <1>23
    <3> QED
      BY <2>1, <3>1, <1>5
  <2>2. a[0] \in stage[0]
    BY <1>1, <1>4, <1>23
  <2>3. \A i \in 0 .. m : a[i] \in stage[i]
    BY <1>1, <2>1, <2>2, RunStays
  <2> QED
    BY <1>1, <2>3
<1>6. graphOf(n, pairs, relias) = a[m]
  BY DEF graphOf, Loop, a, step, s0, m
<1> QED
  BY <1>6, <1>24, <1>1 DEF stage

-----------------------------------------------------------------------------
\* A network file that is well formed is loaded as a network.
LEMMA LoadKeeps ==
  ASSUME NEW f, NEW c, IsSetup(f, c)
  PROVE  /\ Network(load(f), Len(f.nodeIds)) /\ Len(f.nodeIds) \in Nat \ {0}
         /\ Producer \in 0 .. Len(f.nodeIds) - 1
<1> DEFINE n == Len(f.nodeIds)
           byNumber == [i \in DOMAIN f.pairs |-> [k \in 1 .. 2 |-> nodeIdToIdx(f, f.pairs[i][k])]]
<1>1. n \in Nat \ {0} /\ Producer \in 0 .. n - 1 /\ DOMAIN f.nodeIds = 1 .. n
  BY DEF IsSetup
<1>2. f.relias \in [DOMAIN f.pairs -> Relias]
  BY DEF IsSetup
<1>3. ASSUME f.type # "CSV" PROVE Network(graphOf(n, byNumber, f.relias), n)
  <2>1. f.pairs \in Seq(Int \X Int)
    BY <1>3 DEF IsSetup
  <2>2. ASSUME NEW x PROVE nodeIdToIdx(f, x) \in 0 .. n - 1
    <3> DEFINE P == \E i \in 1 .. n : f.nodeIds[i] = x
               j == CHOOSE i \in 1 .. n : f.nodeIds[i] = x
    <3>1. nodeIdToIdx(f, x) = IF P THEN j - 1 ELSE 0
      BY <1>1 DEF nodeIdToIdx
    <3>2. P => j \in 1 .. n
      OBVIOUS
    <3> HIDE DEF P, j
    <3> QED
      BY <3>1, <3>2, <1>1
  <2>3. ASSUME NEW i \in DOMAIN f.pairs PROVE byNumber[i] \in (0 .. n - 1) \X (0 .. n - 1)
    <3>1. byNumber[i] = <<nodeIdToIdx(f, f.pairs[i][1]), nodeIdToIdx(f, f.pairs[i][2])>>
      OBVIOUS
    <3> HIDE DEF byNumber
    <3> QED
      BY <3>1, <2>2
  <2>4. byNumber \in Seq((0 .. n - 1) \X (0 .. n - 1)) /\ DOMAIN byNumber = DOMAIN f.pairs
    <3>1. DOMAIN f.pairs = 1 .. Len(f.pairs) /\ Len(f.pairs) \in Nat
      BY <2>1
    <3>2. byNumber = [i \in 1 .. Len(f.pairs) |-> byNumber[i]]
      BY <3>1
    <3> HIDE DEF byNumber
    <3> QED
      BY SMTT(60), <3>1, <3>2, <2>3
  <2> HIDE DEF byNumber, n
  <2> QED
    BY <1>1, <1>2, <2>4, GraphOfKeeps
<1>4. ASSUME f.type = "CSV" PROVE Network(graphOf(n, f.pairs, f.relias), n)
  <2>1. f.pairs \in Seq((0 .. n - 1) \X (0 .. n - 1))
    BY <1>4 DEF IsSetup
  <2> QED
    BY <2>1, <1>1, <1>2, GraphOfKeeps
<1>5. f.type \in {"IEEE", "CSV", "BRITE"}
  BY DEF IsSetup
<1>6. Network(load(f), n)
  <2>1. CASE f.type = "CSV"
    BY <2>1, <1>4 DEF load, loadFromCSVDataFile
  <2>2. CASE f.type = "IEEE"
    BY <2>2, <1>3 DEF load, loadFromIEEEDataFile, loadFromBriteDataFile
  <2>3. CASE f.type = "BRITE"
    BY <2>3, <1>3 DEF load, loadFromBriteDataFile
  <2> QED
    BY <2>1, <2>2, <2>3, <1>5
<1> QED
  BY <1>1, <1>6

\* h is g with links from the nodes in D to the virtual destination.
Virtual(h, g, n, D) ==
  /\ GraphOn(h, n, D) /\ Wired(h, n)
  /\ \A x \in 0 .. n : \A l : IsLinkOf(h, x, l) => l.b = n \/ IsLinkOf(g, x, l)

LEMMA NetworkIsVirtual ==
  ASSUME NEW n \in Nat, NEW g, Network(g, n), NEW D
  PROVE  Virtual(g, g, n, D)
<1>1. LinkSet(n, {}) \subseteq LinkSet(n, D)
  BY DEF LinkSet
<1>2. Seq(LinkSet(n, {})) \subseteq Seq(LinkSet(n, D))
  <2> DEFINE A == LinkSet(n, {})
             B == LinkSet(n, D)
  <2> HIDE DEF A, B
  <2>1. A \subseteq B => Seq(A) \subseteq Seq(B)
    OBVIOUS
  <2> QED
    BY <1>1, <2>1 DEF A, B
<1>3. GraphOn(g, n, {})
  BY DEF Network
<1>4. GraphOn(g, n, D)
  BY <1>2, <1>3 DEF GraphOn
<1> QED
  BY <1>4 DEF Network, Virtual

LEMMA AddVirtKeeps ==
  ASSUME NEW n \in Nat, NEW g, NEW h, NEW D \in SUBSET (0 .. n - 1), Virtual(h, g, n, D),
         NEW id \in Nat, NEW x \in D
  PROVE  Virtual(addVirtLinkDual(h, id, x), g, n, D)
<1> DEFINE k == createLink(id, x, n, One)
           r == addLink(h, k)
<1>1. GraphOn(h, n, D) /\ Wired(h, n) /\ h.nNodes = n
  BY GraphFields DEF Virtual
<1>2. k \in LinkSet(n, D) /\ k.a = x /\ k.b = n /\ k.a \in 0 .. n /\ k.b \in 0 .. n
  BY DEF createLink, LinkSet, Relias
<1> HIDE DEF k
<1>3. /\ GraphOn(r, n, D)
      /\ \A z \in 0 .. n : \A l : IsLinkOf(r, z, l) <=> IsLinkOf(h, z, l) \/ (l = k /\ z \in {k.a, k.b})
  BY <1>1, <1>2, AddedLinks
<1>4. addVirtLinkDual(h, id, x) = r
  BY <1>1 DEF addVirtLinkDual, k
<1> HIDE DEF r
<1>5. Wired(r, n)
  <2> SUFFICES ASSUME NEW z \in 0 .. n, NEW l, IsLinkOf(r, z, l)
               PROVE  z \in {l.a, l.b} /\ IsLinkOf(r, l.a, l) /\ IsLinkOf(r, l.b, l)
    BY DEF Wired
  <2>1. CASE l = k
    BY <2>1, <1>2, <1>3, <1>1, GraphFields, LinkFields DEF Wired
  <2>2. CASE IsLinkOf(h, z, l)
    <3>1. l.a \in 0 .. n /\ l.b \in 0 .. n
      BY <2>2, <1>1, GraphFields, LinkFields
    <3> QED
      BY <3>1, <2>2, <1>1, <1>3 DEF Wired
  <2> QED
    BY <2>1, <2>2, <1>3
<1> QED
  BY <1>2, <1>3, <1>4, <1>5 DEF Virtual

LEMMA VirtNodeKeeps ==
  ASSUME NEW n \in Nat, NEW g, Network(g, n), NEW dsts \in Seq(0 .. n - 1), NEW D \in SUBSET (0 .. n - 1),
         \A i \in 1 .. Len(dsts) : dsts[i] \in D
  PROVE  Virtual(addVirtNode(g, dsts), g, n, D)
<1> DEFINE s0 == g
           m == Len(dsts)
           good == {h \in [nNodes : {n}, maxLinkId : Nat, eLinks : [0 .. n -> Seq(LinkSet(n, D))]] : Virtual(h, g, n, D)}
           step(h, i) == addVirtLinkDual(h, g.maxLinkId + i - 1, dsts[i])
           stage == [i \in 0 .. m |-> good]
           F == [i \in 1 .. m |-> [o \in stage[i - 1] |-> step(o, i)]]
           a == CHOOSE f : f = [i \in 0 .. m |-> IF i = 0 THEN s0 ELSE step(f[i - 1], i)]
<1>1. m \in Nat
  OBVIOUS
<1>2. s0 \in good
  BY NetworkIsVirtual DEF Virtual, GraphOn
<1>3. ASSUME NEW i \in 1 .. m, NEW h \in good PROVE step(h, i) \in good
  <2>0. GraphOn(g, n, {})
    BY DEF Network
  <2>1. g.maxLinkId + i - 1 \in Nat /\ dsts[i] \in D
    <3>1. g.maxLinkId \in Nat
      BY <2>0, GraphFields
    <3>2. dsts[i] \in D
      BY <1>1
    <3>3. i \in Nat /\ i >= 1
      BY <1>1
    <3> DEFINE b == g.maxLinkId
    <3>4. b \in Nat
      BY <3>1
    <3> HIDE DEF b
    <3>5. b + i - 1 \in Nat
      BY <3>3, <3>4
    <3> QED
      BY <3>2, <3>5 DEF b
  <2>2. Virtual(step(h, i), g, n, D)
    BY <2>1, AddVirtKeeps
  <2> HIDE DEF step
  <2> QED
    BY <2>2 DEF Virtual, GraphOn
<1>4. s0 \in stage[0]
  BY <1>1, <1>2
<1>5. \A i \in 1 .. m : \A h \in stage[i - 1] : step(h, i) \in stage[i]
  <2> HIDE DEF step, good
  <2> QED
    BY <1>1, <1>3
<1> HIDE DEF m, s0, step, stage
<1>20. \A i \in 1 .. m : F[i] \in [stage[i - 1] -> stage[i]]
  BY <1>5
<1>21. PICK f : IsTrace(f, m) /\ IsRun(f, m, s0, F, stage)
  <2> HIDE DEF F
  <2> QED
    BY <1>1, <1>4, <1>20, RunExists
<1>22. f = [i \in 0 .. m |-> IF i = 0 THEN s0 ELSE step(f[i - 1], i)]
  <2>1. ASSUME NEW i \in 1 .. m PROVE f[i] = step(f[i - 1], i)
    <3>1. i - 1 \in 0 .. m /\ f[i] = F[i][f[i - 1]] /\ f[i - 1] \in stage[i - 1]
      <4> HIDE DEF F
      <4>1. i - 1 \in 0 .. m
        BY <1>1
      <4> QED
        BY <4>1, <1>21 DEF IsRun
    <3> QED
      BY <3>1
  <2>2. f[0] = s0
    BY <1>21 DEF IsRun
  <2>3. \A i \in 0 .. m : f[i] = IF i = 0 THEN s0 ELSE step(f[i - 1], i)
    BY <1>1, <2>1, <2>2
  <2> QED
    BY <1>21, <2>3 DEF IsTrace
<1>23. a = [i \in 0 .. m |-> IF i = 0 THEN s0 ELSE step(a[i - 1], i)]
  BY <1>22
<1> HIDE DEF a, F
<1>24. a[m] \in stage[m]
  <2>1. ASSUME NEW i \in 1 .. m, a[i - 1] \in stage[i - 1] PROVE a[i] \in stage[i]
    <3>1. a[i] = step(a[i - 1], i)
      BY <1>1, <1>23
    <3> QED
      BY <2>1, <3>1, <1>5
  <2>2. a[0] \in stage[0]
    BY <1>1, <1>4, <1>23
  <2>3. \A i \in 0 .. m : a[i] \in stage[i]
    BY <1>1, <2>1, <2>2, RunStays
  <2> QED
    BY <1>1, <2>3
<1>6. addVirtNode(g, dsts) = a[m]
  BY DEF addVirtNode, Loop, a, step, s0, m
<1> QED
  BY <1>6, <1>24, <1>1 DEF stage

-----------------------------------------------------------------------------
\* The heap of a search has all nodes at first.
LEMMA FullHeapIs ==
  ASSUME NEW n \in Nat, NEW key \in [0 .. n - 1 -> Int]
  PROVE  /\ HeapInv(fullHeap(key, n), 0 .. n - 1, 0 .. n - 1)
         /\ fullHeap(key, n).key = key
<1> DEFINE Id == 0 .. n - 1
           s0 == emptyHeap(key)
           stage == [i \in 0 .. n |-> {h \in HeapsOn(Id) : /\ HeapInv(h, 0 .. i - 1, Id) /\ h.key = key
                                                           /\ \A x \in Id : x >= i => Pristine(h, x)}]
           step(h, i) == insert(h, i - 1)
           F == [i \in 1 .. n |-> [o \in stage[i - 1] |-> step(o, i)]]
           a == CHOOSE f : f = [i \in 0 .. n |-> IF i = 0 THEN s0 ELSE step(f[i - 1], i)]
<1>0. n \in Nat
  OBVIOUS
<1>1. Ids(Id)
  BY FS_Interval DEF Ids
<1>2. s0 \in stage[0]
  <2>1. s0 \in HeapsOn(Id) /\ s0.key = key /\ s0.numberOfNodes = 0 /\ s0.maxNode = NULL
        /\ \A x \in Id : Pristine(s0, x)
    BY DEF emptyHeap, HeapsOn, NodeOrNull, Pristine
  <2> HIDE DEF s0
  <2>2. HeapInv(s0, {}, Id)
    BY <2>1, FS_EmptySet DEF HeapInv, HeapOn, Forest, Ordered, Circular, Paired, Whole, Rooted, FamiliesAgree
  <2>3. 0 .. 0 - 1 = {}
    OBVIOUS
  <2> QED
    BY <2>1, <2>2, <2>3
<1>3. ASSUME NEW i \in 1 .. n, NEW h \in stage[i - 1] PROVE step(h, i) \in stage[i]
  <2> DEFINE p == i - 1
             S == 0 .. p - 1
             r == insert(h, p)
  <2>1. p \in Id /\ p \in 0 .. n /\ i \in 0 .. n /\ p \notin S /\ S \cup {p} = 0 .. i - 1
    OBVIOUS
  <2>2. h \in HeapsOn(Id) /\ HeapInv(h, S, Id) /\ h.key = key /\ \A x \in Id : x >= p => Pristine(h, x)
    BY <2>1
  <2> HIDE DEF p, S, Id
  <2>3. p \in Nat
    BY <2>1, <1>1 DEF Ids
  <2>30. p \in Id \ S /\ Pristine(h, p)
    BY <2>1, <2>2, <2>3
  <2>40. Inserted(r, h, S, p, Id)
    BY <2>2, <2>30, <1>1, InsertKeeps
  <2>4. /\ HeapInv(r, S \cup {p}, Id) /\ r.key = h.key
        /\ \A z \in Id \ (S \cup {p}) : Unchanged(r, h, z)
    BY <2>40 DEF Inserted
  <2>5. r \in HeapsOn(Id)
    BY <2>4 DEF HeapInv, HeapOn
  <2>6. ASSUME NEW x \in Id, x >= i PROVE Pristine(r, x)
    <3>1. x \notin S \cup {p} /\ x >= p
      BY <2>6, <2>3 DEF p, S, Id
    <3> QED
      BY <3>1, <2>2, <2>4 DEF Pristine, Unchanged
  <2>7. step(h, i) = r
    BY DEF p
  <2> QED
    BY <2>1, <2>2, <2>4, <2>5, <2>6, <2>7
<1>4. \A i \in 1 .. n : \A h \in stage[i - 1] : step(h, i) \in stage[i]
  <2> HIDE DEF step, stage
  <2> QED
    BY <1>3
<1> HIDE DEF Id
<1> HIDE DEF s0, step, stage
<1>20. \A i \in 1 .. n : F[i] \in [stage[i - 1] -> stage[i]]
  BY <1>4
<1>21. PICK f : IsTrace(f, n) /\ IsRun(f, n, s0, F, stage)
  <2> HIDE DEF F
  <2> QED
    BY <1>0, <1>2, <1>20, RunExists
<1>22. f = [i \in 0 .. n |-> IF i = 0 THEN s0 ELSE step(f[i - 1], i)]
  <2>1. ASSUME NEW i \in 1 .. n PROVE f[i] = step(f[i - 1], i)
    <3>1. i - 1 \in 0 .. n /\ f[i] = F[i][f[i - 1]] /\ f[i - 1] \in stage[i - 1]
      <4> HIDE DEF F
      <4>1. i - 1 \in 0 .. n
        BY <1>0
      <4> QED
        BY <4>1, <1>21 DEF IsRun
    <3> QED
      BY <3>1
  <2>2. f[0] = s0
    BY <1>21 DEF IsRun
  <2>3. \A i \in 0 .. n : f[i] = IF i = 0 THEN s0 ELSE step(f[i - 1], i)
    BY <1>0, <2>1, <2>2
  <2> QED
    BY <1>21, <2>3 DEF IsTrace
<1>23. a = [i \in 0 .. n |-> IF i = 0 THEN s0 ELSE step(a[i - 1], i)]
  BY <1>22
<1> HIDE DEF a, F
<1>24. a[n] \in stage[n]
  <2>1. ASSUME NEW i \in 1 .. n, a[i - 1] \in stage[i - 1] PROVE a[i] \in stage[i]
    <3>1. a[i] = step(a[i - 1], i)
      BY <1>0, <1>23
    <3> QED
      BY <2>1, <3>1, <1>4
  <2>2. a[0] \in stage[0]
    BY <1>0, <1>2, <1>23
  <2>3. \A i \in 0 .. n : a[i] \in stage[i]
    BY <1>0, <2>1, <2>2, RunStays
  <2> QED
    BY <1>0, <2>3
<1>5. fullHeap(key, n) = a[n]
  BY DEF fullHeap, Loop, a, step, s0
<1>6. HeapInv(a[n], 0 .. n - 1, Id) /\ a[n].key = key
  BY <1>24 DEF stage
<1> QED
  BY <1>5, <1>6 DEF Id

-----------------------------------------------------------------------------
(* The trees of predecessors that searches build. *)

Queued(inQ, Id) == {x \in Id : inQ[x]}

\* rank has the order in which nodes left the queue, k for those in it: a node
\* follows one that left before it did.
RankedBy(prev, inQ, Id, rank, k) ==
  /\ k \in Nat /\ rank \in [Id -> 0 .. k]
  /\ k + Cardinality(Queued(inQ, Id)) <= Cardinality(Id)
  /\ \A x \in Id : inQ[x] <=> rank[x] = k
  /\ \A x \in Id : prev[x] # NULL => rank[prev[x]] < rank[x]

Ranked(prev, inQ, Id) == \E k, rank : RankedBy(prev, inQ, Id, rank, k)

LEMMA RankedAtFirst ==
  ASSUME NEW Id, Ids(Id), NEW inQ, inQ = [x \in Id |-> TRUE], NEW prev, prev = [x \in Id |-> NULL]
  PROVE  Ranked(prev, inQ, Id)
<1> DEFINE rank == [x \in Id |-> 0]
<1>1. Queued(inQ, Id) = Id /\ Cardinality(Id) \in Nat
  BY FS_CardinalityType DEF Queued, Ids
<1>2. RankedBy(prev, inQ, Id, rank, 0)
  BY <1>1 DEF RankedBy
<1> HIDE DEF rank
<1> QED
  BY <1>2 DEF Ranked

\* When a node leaves, those still in the queue rank above it.
LEMMA RankedLeaves ==
  ASSUME NEW Id, Ids(Id), NEW prev \in [Id -> NodeOrNull(Id)], NEW inQ \in [Id -> BOOLEAN],
         Ranked(prev, inQ, Id), NEW u \in Id, inQ[u]
  PROVE  Ranked(prev, [inQ EXCEPT ![u] = FALSE], Id)
<1>1. PICK k, rank : RankedBy(prev, inQ, Id, rank, k)
  BY DEF Ranked
<1> DEFINE S == Queued(inQ, Id)
           inQ2 == [inQ EXCEPT ![u] = FALSE]
           rank2 == [x \in Id |-> IF inQ2[x] THEN k + 1 ELSE rank[x]]
<1>2. /\ k \in Nat /\ k + 1 \in Nat /\ rank \in [Id -> 0 .. k] /\ k + Cardinality(S) <= Cardinality(Id)
      /\ \A x \in Id : inQ[x] <=> rank[x] = k
      /\ \A x \in Id : prev[x] # NULL => rank[prev[x]] < rank[x]
  BY <1>1 DEF RankedBy
<1>3. inQ2 \in [Id -> BOOLEAN] /\ ~inQ2[u] /\ \A x \in Id \ {u} : inQ2[x] = inQ[x]
  OBVIOUS
<1> HIDE DEF inQ2
<1>4. Cardinality(S) \in Nat /\ Cardinality(Queued(inQ2, Id)) = Cardinality(S) - 1
  <2>1. S \in SUBSET Id /\ u \in S /\ Queued(inQ2, Id) = S \ {u}
    BY <1>3 DEF Queued
  <2>2. IsFiniteSet(S) /\ Cardinality(S) \in Nat
    BY <2>1, SubsetCard
  <2> HIDE DEF S
  <2> QED
    BY <2>1, <2>2, FS_RemoveElement
<1>5. Cardinality(Id) \in Nat
  BY FS_CardinalityType DEF Ids
<1>6. k + 1 + Cardinality(Queued(inQ2, Id)) <= Cardinality(Id)
  <2> HIDE DEF S
  <2> QED
    BY <1>2, <1>4, <1>5
<1>7. ASSUME NEW x \in Id
      PROVE  /\ rank2[x] \in 0 .. k + 1 /\ rank[x] \in 0 .. k /\ rank[x] <= rank2[x] /\ (inQ2[x] <=> rank2[x] = k + 1)
             /\ ~inQ[x] => rank2[x] = rank[x]
  BY <1>2, <1>3
<1>8. rank2 \in [Id -> 0 .. k + 1]
  BY <1>7
<1>9. ASSUME NEW x \in Id, prev[x] # NULL PROVE rank2[prev[x]] < rank2[x]
  <2>1. prev[x] \in Id /\ rank[prev[x]] < rank[x]
    BY <1>2, <1>9 DEF NodeOrNull
  <2>2. ~inQ[prev[x]]
    <3>1. rank[prev[x]] # k
      BY <2>1, <1>7
    <3> QED
      BY <3>1, <2>1, <1>2
  <2> HIDE DEF rank2
  <2>3. rank2[prev[x]] = rank[prev[x]] /\ rank[x] <= rank2[x] /\ rank[x] \in 0 .. k /\ rank[prev[x]] \in 0 .. k /\ rank2[x] \in 0 .. k + 1
    BY <2>1, <2>2, <1>7
  <2> QED
    BY <2>1, <2>3
<1> HIDE DEF rank2
<1>10. RankedBy(prev, inQ2, Id, rank2, k + 1)
  BY <1>2, <1>6, <1>7, <1>8, <1>9 DEF RankedBy
<1> QED
  BY <1>10 DEF Ranked, inQ2

\* A node in the queue gets a predecessor that has left it.
LEMMA RankedGrows ==
  ASSUME NEW Id, NEW prev \in [Id -> NodeOrNull(Id)], NEW inQ,
         Ranked(prev, inQ, Id), NEW u \in Id, ~inQ[u], NEW v \in Id, inQ[v]
  PROVE  Ranked([prev EXCEPT ![v] = u], inQ, Id)
<1>1. PICK k, rank : RankedBy(prev, inQ, Id, rank, k)
  BY DEF Ranked
<1> DEFINE prev2 == [prev EXCEPT ![v] = u]
<1>2. prev2[v] = u /\ \A x \in Id \ {v} : prev2[x] = prev[x]
  OBVIOUS
<1>3. rank[u] < rank[v]
  <2>1. rank[v] = k /\ rank[u] # k /\ rank[u] \in 0 .. k /\ k \in Nat
    BY <1>1 DEF RankedBy
  <2> QED
    BY <2>1
<1> HIDE DEF prev2
<1>4. RankedBy(prev2, inQ, Id, rank, k)
  BY <1>1, <1>2, <1>3 DEF RankedBy
<1> QED
  BY <1>4 DEF Ranked, prev2

-----------------------------------------------------------------------------
(* The paths they hold. *)

\* p leads to u, each node from the predecessor of it, and starts at src or at
\* a node without one.
Trail(p, prev, src, u, Id) ==
  /\ p \in Seq(Id) /\ Len(p) \in Nat \ {0} /\ p[Len(p)] = u
  /\ \A i \in 2 .. Len(p) : p[i - 1] = prev[p[i]] /\ p[i] # src
Full(p, prev, src) == p[1] = src \/ prev[p[1]] = NULL

\* The path found after i rounds.
Tracing(p, prev, src, u, Id, rank, i) ==
  Trail(p, prev, src, u, Id) /\ (Full(p, prev, src) \/ rank[p[1]] + i <= rank[u])

LEMMA ExtendKeeps ==
  ASSUME NEW Id, Ids(Id), NEW prev \in [Id -> NodeOrNull(Id)], NEW inQ, NEW rank, NEW k, RankedBy(prev, inQ, Id, rank, k),
         NEW src, NEW u \in Id, NEW i \in Nat, NEW p, Tracing(p, prev, src, u, Id, rank, i)
  PROVE  Tracing(extend(prev, src, p), prev, src, u, Id, rank, i + 1)
<1>1. CASE Full(p, prev, src)
  BY <1>1 DEF Full, extend, Tracing
<1>2. CASE ~Full(p, prev, src)
  <2> DEFINE x == prev[p[1]]
             r == <<x>> \o p
  <2>1. /\ p \in Seq(Id) /\ Len(p) \in Nat \ {0} /\ p[1] \in Id /\ p[Len(p)] = u
        /\ p[1] # src /\ prev[p[1]] # NULL
        /\ \A j \in 2 .. Len(p) : p[j - 1] = prev[p[j]] /\ p[j] # src
        /\ rank[p[1]] + i <= rank[u]
    BY <1>2 DEF Tracing, Trail, Full
  <2>2. x \in Id
    BY <2>1 DEF NodeOrNull
  <2>3. extend(prev, src, p) = r
    BY <2>1 DEF extend
  <2>4. rank[x] < rank[p[1]] /\ rank[x] \in Nat /\ rank[p[1]] \in Nat /\ rank[u] \in Nat
    BY <2>1, <2>2 DEF RankedBy
  <2>0. x = prev[p[1]]
    OBVIOUS
  <2> HIDE DEF x
  <2>5. /\ r \in Seq(Id) /\ Len(r) = Len(p) + 1 /\ r[1] = x
        /\ \A j \in 1 .. Len(p) : r[j + 1] = p[j]
    BY <2>1, <2>2
  <2> HIDE DEF r
  <2>6. r[Len(r)] = u
    BY <2>1, <2>5
  <2>7. ASSUME NEW j \in 2 .. Len(r) PROVE r[j - 1] = prev[r[j]] /\ r[j] # src
    <3>1. CASE j = 2
      <4>1. r[2] = p[1]
        <5>1. 1 \in 1 .. Len(p) /\ 1 + 1 = 2
          BY <2>1
        <5> QED
          BY <5>1, <2>5
      <4> QED
        BY <4>1, <3>1, <2>0, <2>1, <2>5
    <3>2. CASE j # 2
      <4>1. j - 1 \in 2 .. Len(p) /\ j - 2 \in 1 .. Len(p) /\ j - 1 \in 1 .. Len(p) /\ (j - 2) + 1 = j - 1 /\ (j - 1) + 1 = j
        BY <3>2, <2>1, <2>5
      <4>2. r[j] = p[j - 1] /\ r[j - 1] = p[j - 2] /\ (j - 1) - 1 = j - 2
        BY <4>1, <2>5
      <4>3. p[(j - 1) - 1] = prev[p[j - 1]] /\ p[j - 1] # src
        BY <4>1, <2>1
      <4> QED
        BY <4>2, <4>3
    <3> QED
      BY <3>1, <3>2
  <2>8. rank[r[1]] + (i + 1) <= rank[u]
    BY <2>1, <2>4, <2>5
  <2>9. Len(r) \in Nat \ {0}
    BY <2>1, <2>5
  <2> QED
    BY <2>3, <2>5, <2>6, <2>7, <2>8, <2>9 DEF Tracing, Trail
<1> QED
  BY <1>1, <1>2

LEMMA PathIs ==
  ASSUME NEW Id, Ids(Id), NEW prev \in [Id -> NodeOrNull(Id)], NEW inQ, Ranked(prev, inQ, Id),
         NEW src, NEW u \in Id, NEW p, p = convertPrevArrayToPathNodeIdsArray(prev, src, u)
  PROVE  Trail(p, prev, src, u, Id) /\ Full(p, prev, src)
<1>1. PICK k, rank : RankedBy(prev, inQ, Id, rank, k)
  BY DEF Ranked
<1> DEFINE n == Cardinality(DOMAIN prev)
           s0 == <<u>>
           step(s, i) == extend(prev, src, s)
           stage == [i \in 0 .. n |-> {s \in Seq(Id) : Tracing(s, prev, src, u, Id, rank, i)}]
           F == [i \in 1 .. n |-> [o \in stage[i - 1] |-> step(o, i)]]
           a == CHOOSE f : f = [i \in 0 .. n |-> IF i = 0 THEN s0 ELSE step(f[i - 1], i)]
<1>2. n = Cardinality(Id) /\ n \in Nat
  BY FS_CardinalityType DEF Ids
<1>3. s0 \in stage[0]
  <2>1. rank[u] \in Nat /\ s0 \in Seq(Id) /\ Len(s0) = 1 /\ s0[1] = u /\ 0 \in 0 .. n
    BY <1>1, <1>2 DEF RankedBy
  <2>2. Tracing(s0, prev, src, u, Id, rank, 0)
    <3> HIDE DEF s0
    <3> QED
      BY <2>1 DEF Tracing, Trail
  <2> HIDE DEF s0, n
  <2> QED
    BY <2>1, <2>2
<1>4. ASSUME NEW i \in 1 .. n, NEW s \in stage[i - 1] PROVE step(s, i) \in stage[i]
  <2> DEFINE j == i - 1
  <2>1. j \in Nat /\ j \in 0 .. n /\ j + 1 = i /\ i \in 0 .. n
    <3> HIDE DEF n
    <3> QED
      BY <1>2
  <2>2. Tracing(s, prev, src, u, Id, rank, j)
    <3> HIDE DEF n
    <3> QED
      BY <2>1
  <2> HIDE DEF j, n, stage
  <2>3. Tracing(step(s, i), prev, src, u, Id, rank, j + 1)
    BY <1>1, <2>1, <2>2, ExtendKeeps
  <2>4. step(s, i) \in Seq(Id)
    BY <2>3 DEF Tracing, Trail
  <2> HIDE DEF step
  <2> QED
    BY <2>1, <2>3, <2>4 DEF stage
<1>5. \A i \in 1 .. n : \A s \in stage[i - 1] : step(s, i) \in stage[i]
  <2> HIDE DEF step, stage, n
  <2> QED
    BY <1>4
<1> HIDE DEF n, s0, step, stage
<1>30. \A i \in 1 .. n : F[i] \in [stage[i - 1] -> stage[i]]
  BY <1>5
<1>31. PICK f : IsTrace(f, n) /\ IsRun(f, n, s0, F, stage)
  <2> HIDE DEF F
  <2> QED
    BY <1>2, <1>3, <1>30, RunExists
<1>32. f = [i \in 0 .. n |-> IF i = 0 THEN s0 ELSE step(f[i - 1], i)]
  <2>1. ASSUME NEW i \in 1 .. n PROVE f[i] = step(f[i - 1], i)
    <3>1. i - 1 \in 0 .. n /\ f[i] = F[i][f[i - 1]] /\ f[i - 1] \in stage[i - 1]
      <4> HIDE DEF F
      <4>1. i - 1 \in 0 .. n
        BY <1>2
      <4> QED
        BY <4>1, <1>31 DEF IsRun
    <3> QED
      BY <3>1
  <2>2. f[0] = s0
    BY <1>31 DEF IsRun
  <2>3. \A i \in 0 .. n : f[i] = IF i = 0 THEN s0 ELSE step(f[i - 1], i)
    BY <1>2, <2>1, <2>2
  <2> QED
    BY <1>31, <2>3 DEF IsTrace
<1>33. a = [i \in 0 .. n |-> IF i = 0 THEN s0 ELSE step(a[i - 1], i)]
  BY <1>32
<1> HIDE DEF a, F
<1>34. a[n] \in stage[n]
  <2>1. ASSUME NEW i \in 1 .. n, a[i - 1] \in stage[i - 1] PROVE a[i] \in stage[i]
    <3>1. a[i] = step(a[i - 1], i)
      BY <1>2, <1>33
    <3> QED
      BY <2>1, <3>1, <1>5
  <2>2. a[0] \in stage[0]
    BY <1>2, <1>3, <1>33
  <2>3. \A i \in 0 .. n : a[i] \in stage[i]
    BY <1>2, <2>1, <2>2, RunStays
  <2> QED
    BY <1>2, <2>3
<1>6. p = a[n]
  BY DEF convertPrevArrayToPathNodeIdsArray, Loop, a, step, s0, n
<1>7. Tracing(p, prev, src, u, Id, rank, n)
  BY <1>2, <1>6, <1>34 DEF stage
<1>8. Trail(p, prev, src, u, Id)
  BY <1>7 DEF Tracing
<1>9. ASSUME rank[p[1]] + n <= rank[u] PROVE Full(p, prev, src)
  <2>1. p[1] \in Id
    BY <1>8 DEF Trail
  <2>2. k + Cardinality(Queued(inQ, Id)) <= n /\ Cardinality(Queued(inQ, Id)) \in Nat /\ k \in Nat
    <3>1. Queued(inQ, Id) \in SUBSET Id
      BY DEF Queued
    <3> QED
      BY <3>1, <1>1, <1>2, SubsetCard DEF RankedBy
  <2>3. rank[p[1]] \in 0 .. k /\ rank[u] \in 0 .. k
    BY <2>1, <1>1 DEF RankedBy
  <2>4. rank[p[1]] = 0
    BY <2>2, <2>3, <1>2, <1>9
  <2>5. prev[p[1]] = NULL
    <3> SUFFICES ASSUME prev[p[1]] # NULL PROVE FALSE
      OBVIOUS
    <3>1. prev[p[1]] \in Id
      BY <2>1 DEF NodeOrNull
    <3>2. rank[prev[p[1]]] < 0 /\ rank[prev[p[1]]] \in 0 .. k
      BY <3>1, <2>1, <2>4, <1>1 DEF RankedBy
    <3> QED
      BY <3>2
  <2> QED
    BY <2>5 DEF Full
<1> QED
  BY <1>7, <1>8, <1>9 DEF Tracing

-----------------------------------------------------------------------------
\* A path repeats no node, and all its nodes but the last have left the queue.
LEMMA TrailClimbs ==
  ASSUME NEW Id, Ids(Id), NEW prev \in [Id -> NodeOrNull(Id)], NEW inQ, Ranked(prev, inQ, Id),
         NEW src, NEW u \in Id, NEW p, Trail(p, prev, src, u, Id)
  PROVE  /\ \A i, j \in 1 .. Len(p) : i # j => p[i] # p[j]
         /\ \A i \in 1 .. Len(p) - 1 : ~inQ[p[i]]
<1>1. PICK k, rank : RankedBy(prev, inQ, Id, rank, k)
  BY DEF Ranked
<1> DEFINE m == Len(p)
<1>2. /\ k \in Nat /\ rank \in [Id -> 0 .. k] /\ m \in Nat \ {0} /\ p[m] = u
      /\ \A x \in Id : inQ[x] <=> rank[x] = k
      /\ \A x \in Id : prev[x] # NULL => rank[prev[x]] < rank[x]
      /\ \A i \in 1 .. m : p[i] \in Id
      /\ \A i \in 2 .. m : p[i - 1] = prev[p[i]]
      /\ NULL \notin Id
  <2>1. NULL \notin Id
    BY DEF Ids, NULL
  <2> QED
    BY <1>1, <2>1 DEF RankedBy, Trail
<1> HIDE DEF m
<1>3. ASSUME NEW i \in 1 .. m, i + 1 <= m PROVE rank[p[i]] < rank[p[i + 1]]
  <2>1. i + 1 \in 2 .. m /\ i + 1 \in 1 .. m /\ (i + 1) - 1 = i
    BY <1>2, <1>3
  <2>2. p[i] = prev[p[i + 1]] /\ p[i] \in Id /\ p[i + 1] \in Id
    BY <2>1, <1>2
  <2> QED
    BY <2>2, <1>2
<1>4. ASSUME NEW i \in 1 .. m, NEW j \in 1 .. m, i < j PROVE rank[p[i]] < rank[p[j]]
  <2> DEFINE K == {d \in 0 .. m : d = 0 \/ i + d > m \/ rank[p[i]] < rank[p[i + d]]}
  <2>1. 0 \in K
    BY <1>2
  <2>2. ASSUME NEW d \in 1 .. m, d - 1 \in K PROVE d \in K
    <3>1. CASE i + d > m
      BY <3>1
    <3>2. CASE i + d <= m
      <4>1. i + (d - 1) \in 1 .. m /\ (i + (d - 1)) + 1 = i + d /\ i + d \in 1 .. m
        BY <3>2, <1>2
      <4>2. rank[p[i + (d - 1)]] < rank[p[i + d]]
        BY <4>1, <1>3
      <4>3. rank[p[i]] \in Nat /\ rank[p[i + (d - 1)]] \in Nat /\ rank[p[i + d]] \in Nat
        BY <4>1, <1>2
      <4>4. d - 1 = 0 \/ rank[p[i]] < rank[p[i + (d - 1)]]
        <5>1. ~(i + (d - 1) > m)
          BY <4>1, <1>2
        <5> QED
          BY <2>2, <5>1
      <4>5. CASE d - 1 = 0
        BY <4>2, <4>5
      <4> QED
        BY <4>2, <4>3, <4>4, <4>5
    <3> QED
      BY <3>1, <3>2, <1>2
  <2>3. j - i \in K
    <3> HIDE DEF K
    <3>1. \A d \in 1 .. m : d - 1 \in K => d \in K
      BY <2>2
    <3>2. \A d \in 0 .. m : d \in K
      BY <1>2, <2>1, <3>1, CountUp
    <3> QED
      BY <3>2, <1>2, <1>4
  <2>4. i + (j - i) = j /\ j - i # 0 /\ ~(j > m)
    BY <1>2, <1>4
  <2> QED
    BY <2>3, <2>4
<1>5. ASSUME NEW i \in 1 .. m, NEW j \in 1 .. m, i # j PROVE p[i] # p[j]
  <2>1. rank[p[i]] \in Nat /\ rank[p[j]] \in Nat
    BY <1>2
  <2>2. i < j \/ j < i
    BY <1>2, <1>5
  <2> QED
    BY <2>1, <2>2, <1>4
<1>6. ASSUME NEW i \in 1 .. m - 1 PROVE ~inQ[p[i]]
  <2>1. i \in 1 .. m /\ i + 1 \in 1 .. m /\ i + 1 <= m
    BY <1>2
  <2>2. rank[p[i]] < rank[p[i + 1]] /\ rank[p[i]] \in 0 .. k /\ rank[p[i + 1]] \in 0 .. k
    BY <2>1, <1>2, <1>3
  <2>3. rank[p[i]] # k
    BY <2>2, <1>2
  <2> QED
    BY <2>1, <2>3, <1>2
<1> QED
  BY <1>5, <1>6 DEF m

\* There is only one path to a node, by predecessors that agree on it.
LEMMA TrailUnique ==
  ASSUME NEW Id, Ids(Id), NEW prev, NEW prev2, NEW src, NEW u,
         NEW p, Trail(p, prev, src, u, Id), Full(p, prev, src),
         NEW r, Trail(r, prev2, src, u, Id), Full(r, prev2, src),
         \A i \in 1 .. Len(p) : prev2[p[i]] = prev[p[i]]
  PROVE  r = p
<1> DEFINE m == Len(p)
           l == Len(r)
           K == {d \in 0 .. m : d < m /\ d < l => p[m - d] = r[l - d]}
<1>1. /\ p \in Seq(Id) /\ m \in Nat \ {0} /\ p[m] = u
      /\ \A i \in 2 .. m : p[i - 1] = prev[p[i]] /\ p[i] # src
      /\ r \in Seq(Id) /\ l \in Nat \ {0} /\ r[l] = u
      /\ \A i \in 2 .. l : r[i - 1] = prev2[r[i]] /\ r[i] # src
      /\ NULL \notin Id
  <2>1. NULL \notin Id
    BY DEF Ids, NULL
  <2> QED
    BY <2>1 DEF Trail
<1>2. (\A i \in 1 .. m : p[i] \in Id) /\ \A i \in 1 .. l : r[i] \in Id
  BY <1>1
<1>0. \A i \in 1 .. m : prev2[p[i]] = prev[p[i]]
  OBVIOUS
<1> HIDE DEF m, l
<1>3. 0 \in K
  <2>1. m - 0 = m /\ l - 0 = l /\ 0 \in 0 .. m
    BY <1>1
  <2> QED
    BY <1>1, <2>1
<1>4. ASSUME NEW d \in 1 .. m, d - 1 \in K PROVE d \in K
  <2> SUFFICES ASSUME d < m, d < l PROVE p[m - d] = r[l - d]
    BY <1>1
  <2> DEFINE i == m - (d - 1)
             j == l - (d - 1)
  <2>1. /\ i \in 2 .. m /\ i \in 1 .. m /\ i - 1 = m - d /\ j \in 2 .. l /\ j - 1 = l - d
        /\ d - 1 < m /\ d - 1 < l
    BY <1>1
  <2>2. p[i] = r[j]
    BY <1>4, <2>1
  <2> HIDE DEF i, j
  <2>3. p[i - 1] = prev[p[i]] /\ r[j - 1] = prev2[r[j]] /\ prev2[p[i]] = prev[p[i]]
    BY <1>0, <1>1, <2>1
  <2> QED
    BY <2>1, <2>2, <2>3
<1>5. ASSUME NEW d \in 0 .. m, d < m, d < l PROVE p[m - d] = r[l - d]
  <2>1. \A e \in 1 .. m : e - 1 \in K => e \in K
    BY <1>4
  <2>2. d \in K
    <3> HIDE DEF K
    <3>1. \A e \in 0 .. m : e \in K
      BY <1>1, <1>3, <2>1, CountUp
    <3> QED
      BY <3>1
  <2> QED
    BY <2>2, <1>5
<1>6. ASSUME m < l PROVE FALSE
  <2> DEFINE d == m - 1
             j == l - d
  <2>1. d \in 0 .. m /\ d < m /\ d < l /\ m - d = 1 /\ j \in 2 .. l /\ j - 1 \in 1 .. l
    BY <1>1, <1>6
  <2>2. p[1] = r[j]
    BY <2>1, <1>5
  <2> HIDE DEF d, j
  <2>3. r[j - 1] = prev2[r[j]] /\ r[j] # src /\ r[j - 1] \in Id /\ prev2[p[1]] = prev[p[1]]
    BY <1>0, <1>1, <1>2, <2>1
  <2> QED
    BY <2>2, <2>3, <1>1 DEF Full
<1>7. ASSUME l < m PROVE FALSE
  <2> DEFINE d == l - 1
             j == m - d
  <2>1. d \in 0 .. m /\ d < m /\ d < l /\ l - d = 1 /\ j \in 2 .. m /\ j \in 1 .. m /\ j - 1 \in 1 .. m
    BY <1>1, <1>7
  <2>2. p[j] = r[1]
    BY <2>1, <1>5
  <2> HIDE DEF d, j
  <2>3. p[j - 1] = prev[p[j]] /\ p[j] # src /\ p[j - 1] \in Id /\ prev2[p[j]] = prev[p[j]]
    BY <1>0, <1>1, <1>2, <2>1
  <2> QED
    BY <2>2, <2>3, <1>1 DEF Full
<1>8. m = l
  BY <1>1, <1>6, <1>7
<1>9. ASSUME NEW i \in 1 .. m PROVE r[i] = p[i]
  <2>1. m - i \in 0 .. m /\ m - i < m /\ m - i < l /\ m - (m - i) = i /\ l - (m - i) = i
    BY <1>1, <1>8
  <2> QED
    BY <2>1, <1>5
<1> QED
  BY <1>1, <1>8, <1>9 DEF m, l

\* A path goes on over a node to one that follows it.
LEMMA TrailGoesOn ==
  ASSUME NEW Id, Ids(Id), NEW prev \in [Id -> NodeOrNull(Id)], NEW inQ, Ranked(prev, inQ, Id),
         NEW src, NEW v \in Id, v # src, NEW u \in Id, prev[v] = u
  PROVE  convertPrevArrayToPathNodeIdsArray(prev, src, v)
           = Append(convertPrevArrayToPathNodeIdsArray(prev, src, u), v)
<1> DEFINE p == convertPrevArrayToPathNodeIdsArray(prev, src, u)
           r == convertPrevArrayToPathNodeIdsArray(prev, src, v)
           s == Append(p, v)
<1>1. Trail(p, prev, src, u, Id) /\ Full(p, prev, src)
  BY PathIs
<1>2. Trail(r, prev, src, v, Id) /\ Full(r, prev, src)
  BY PathIs
<1> HIDE DEF p, r
<1>3. /\ p \in Seq(Id) /\ Len(p) \in Nat \ {0} /\ p[Len(p)] = u
      /\ \A i \in 2 .. Len(p) : p[i - 1] = prev[p[i]] /\ p[i] # src
  BY <1>1 DEF Trail
<1>4. s \in Seq(Id) /\ Len(s) = Len(p) + 1 /\ s[Len(s)] = v /\ \A i \in 1 .. Len(p) : s[i] = p[i]
  BY <1>3
<1> HIDE DEF s
<1>5. Trail(s, prev, src, v, Id)
  <2>1. ASSUME NEW i \in 2 .. Len(s) PROVE s[i - 1] = prev[s[i]] /\ s[i] # src
    <3>1. CASE i = Len(s)
      <4>1. i - 1 = Len(p) /\ Len(p) \in 1 .. Len(p)
        BY <3>1, <1>3, <1>4
      <4> QED
        BY <4>1, <3>1, <1>3, <1>4
    <3>2. CASE i # Len(s)
      <4>1. i \in 2 .. Len(p) /\ i \in 1 .. Len(p) /\ i - 1 \in 1 .. Len(p)
        BY <3>2, <1>3, <1>4
      <4> QED
        BY <4>1, <1>3, <1>4
    <3> QED
      BY <3>1, <3>2
  <2>2. Len(s) \in Nat \ {0}
    BY <1>3, <1>4
  <2> QED
    BY <1>4, <2>1, <2>2 DEF Trail
<1>6. Full(s, prev, src)
  <2>1. s[1] = p[1]
    <3>1. 1 \in 1 .. Len(p)
      BY <1>3
    <3> QED
      BY <3>1, <1>4
  <2> QED
    BY <2>1, <1>1 DEF Full
<1>7. s = r
  BY <1>2, <1>5, <1>6, TrailUnique
<1> QED
  BY <1>7 DEF s, p, r

\* The path to a node that has left the queue stays, when only nodes in the
\* queue get other predecessors.
LEMMA PathStays ==
  ASSUME NEW Id, Ids(Id), NEW prev \in [Id -> NodeOrNull(Id)], NEW inQ, Ranked(prev, inQ, Id),
         NEW prev2 \in [Id -> NodeOrNull(Id)], NEW inQ2, Ranked(prev2, inQ2, Id),
         NEW src, NEW u \in Id, ~inQ[u], \A x \in Id : ~inQ[x] => prev2[x] = prev[x]
  PROVE  convertPrevArrayToPathNodeIdsArray(prev2, src, u)
           = convertPrevArrayToPathNodeIdsArray(prev, src, u)
<1> DEFINE p == convertPrevArrayToPathNodeIdsArray(prev, src, u)
           r == convertPrevArrayToPathNodeIdsArray(prev2, src, u)
<1>1. Trail(p, prev, src, u, Id) /\ Full(p, prev, src)
  BY PathIs
<1>2. Trail(r, prev2, src, u, Id) /\ Full(r, prev2, src)
  BY PathIs
<1> HIDE DEF p, r
<1>3. ASSUME NEW i \in 1 .. Len(p) PROVE prev2[p[i]] = prev[p[i]]
  <2>1. p \in Seq(Id) /\ Len(p) \in Nat /\ p[Len(p)] = u
    BY <1>1 DEF Trail
  <2>2. p[i] \in Id
    BY <2>1
  <2>3. ~inQ[p[i]]
    <3>1. CASE i = Len(p)
      BY <3>1, <2>1
    <3>2. CASE i # Len(p)
      <4>1. i \in 1 .. Len(p) - 1
        BY <3>2, <2>1
      <4> QED
        BY <4>1, <1>1, TrailClimbs
    <3> QED
      BY <3>1, <3>2
  <2> QED
    BY <2>2, <2>3
<1>4. r = p
  BY <1>1, <1>2, <1>3, TrailUnique
<1> QED
  BY <1>4 DEF p, r

-----------------------------------------------------------------------------
(* The search for one RSP. *)

SearchStates(n) ==
  [q : HeapsOn(0 .. n), inQ : [0 .. n -> BOOLEAN], prev : [0 .. n -> NodeOrNull(0 .. n)],
   relia : [0 .. n -> Int], downDelays : [0 .. n -> Int]]

\* x was reached over a link from the node before it.
Led(s, g, barred, x) ==
  \E e : /\ IsLinkOf(g, s.prev[x], e) /\ getLinkOpSide(e, s.prev[x]) = x /\ e.linkId \notin barred
         /\ s.downDelays[x] = s.downDelays[s.prev[x]] + getLinkDelayTotal(g, e)
         /\ s.q.key[s.prev[x]] # Unreached

\* The nodes reached are src and those with a predecessor.
Outward(s, g, src, barred, Id) ==
  /\ s.prev[src] = NULL /\ s.downDelays[src] = 0
  /\ \A x \in Id : s.prev[x] # NULL => Led(s, g, barred, x)
  /\ \A x \in Id : Unreached <= s.q.key[x] /\ (s.q.key[x] # Unreached => x = src \/ s.prev[x] # NULL)

InSearch(s, g, n, src, D, barred) ==
  /\ s \in SearchStates(n)
  /\ HeapInv(s.q, Queued(s.inQ, 0 .. n), 0 .. n)
  /\ Ranked(s.prev, s.inQ, 0 .. n)
  /\ Outward(s, g, src, barred, 0 .. n)
  /\ s.prev[n] \in D \cup {NULL}

\* As long as src is in the queue, it is the only node reached.
Opening(s, src, Id) ==
  s.inQ[src] => s.q.key[src] = 0 /\ \A x \in Id : x # src => s.q.key[x] = Unreached

LEMMA IdsUpTo ==
  ASSUME NEW n \in Nat
  PROVE  Ids(0 .. n)
<1>1. 0 \in Int /\ n \in Int /\ 0 .. n \subseteq Nat
  OBVIOUS
<1> QED
  BY <1>1, FS_Interval DEF Ids

\* A predecessor has left the queue.
LEMMA PredecessorsLeft ==
  ASSUME NEW Id, NEW prev, NEW inQ, Ranked(prev, inQ, Id), NEW x \in Id, prev[x] # NULL, prev[x] \in Id
  PROVE  ~inQ[prev[x]]
<1>1. PICK k, rank : RankedBy(prev, inQ, Id, rank, k)
  BY DEF Ranked
<1>2. rank[prev[x]] < rank[x] /\ rank[prev[x]] \in 0 .. k /\ rank[x] \in 0 .. k /\ k \in Nat
  BY <1>1 DEF RankedBy
<1>3. rank[prev[x]] # k
  BY <1>2
<1> QED
  BY <1>1, <1>3 DEF RankedBy

LEMMA StateFields ==
  ASSUME NEW n, NEW s \in SearchStates(n)
  PROVE  /\ s.q \in HeapsOn(0 .. n) /\ s.inQ \in [0 .. n -> BOOLEAN] /\ s.prev \in [0 .. n -> NodeOrNull(0 .. n)]
         /\ s.relia \in [0 .. n -> Int] /\ s.downDelays \in [0 .. n -> Int] /\ s.q.key \in [0 .. n -> Int]
<1>1. /\ s.q \in HeapsOn(0 .. n) /\ s.inQ \in [0 .. n -> BOOLEAN] /\ s.prev \in [0 .. n -> NodeOrNull(0 .. n)]
      /\ s.relia \in [0 .. n -> Int] /\ s.downDelays \in [0 .. n -> Int]
  BY DEF SearchStates
<1> QED
  BY <1>1, HeapFields

LEMMA Products ==
  ASSUME NEW a \in Int, NEW b \in Int
  PROVE  mul(a, b) \in Int
<1>1. a * b \in Int
  OBVIOUS
<1> DEFINE c == a * b
<1> HIDE DEF c
<1>2. c \in Int => c \div 10000 \in Int
  OBVIOUS
<1>3. mul(a, b) = c \div 10000
  BY DEF mul, One, c
<1> QED
  BY <1>1, <1>2, <1>3 DEF c

LEMMA Logarithms ==
  ASSUME NEW p \in Relias
  PROVE  p \in Int /\ logOf(p) \in Int
BY DEF Relias, logOf, One

LEMMA OtherSide ==
  ASSUME NEW n \in Nat, NEW D, NEW e \in LinkSet(n, D), NEW u
  PROVE  /\ getLinkOpSide(e, u) \in 0 .. n
         /\ getLinkOpSide(e, u) = n => u \in D
BY LinkFields DEF getLinkOpSide

\* The node over a link gets its predecessor.
relaxed(t, u, v, k, r, d) ==
  [t EXCEPT !.prev[v] = u, !.q = increaseKey(@, v, k), !.relia[v] = r, !.downDelays[v] = d]

RelaxedTo(s, t, u, v, k, d) ==
  /\ s.q = increaseKey(t.q, v, k) /\ s.inQ = t.inQ
  /\ s.prev = [t.prev EXCEPT ![v] = u] /\ s.downDelays = [t.downDelays EXCEPT ![v] = d]

LEMMA RelaxedIs ==
  ASSUME NEW n, NEW t \in SearchStates(n), NEW u \in 0 .. n, NEW v \in 0 .. n, NEW k, NEW r \in Int, NEW d \in Int,
         increaseKey(t.q, v, k) \in HeapsOn(0 .. n)
  PROVE  relaxed(t, u, v, k, r, d) \in SearchStates(n) /\ RelaxedTo(relaxed(t, u, v, k, r, d), t, u, v, k, d)
<1> DEFINE h == increaseKey(t.q, v, k)
<1>1. relaxed(t, u, v, k, r, d) = [t EXCEPT !.prev[v] = u, !.q = h, !.relia[v] = r, !.downDelays[v] = d]
  BY DEF relaxed
<1>2. h \in HeapsOn(0 .. n)
  OBVIOUS
<1> HIDE DEF h
<1>3. u \in NodeOrNull(0 .. n)
  BY DEF NodeOrNull
<1>4. /\ relaxed(t, u, v, k, r, d) \in SearchStates(n)
      /\ relaxed(t, u, v, k, r, d).q = h
      /\ relaxed(t, u, v, k, r, d).inQ = t.inQ
      /\ relaxed(t, u, v, k, r, d).prev = [t.prev EXCEPT ![v] = u]
      /\ relaxed(t, u, v, k, r, d).downDelays = [t.downDelays EXCEPT ![v] = d]
  <2> DEFINE P == [t.prev EXCEPT ![v] = u]
             R == [t.relia EXCEPT ![v] = r]
             E == [t.downDelays EXCEPT ![v] = d]
  <2>1. /\ t.inQ \in [0 .. n -> BOOLEAN] /\ P \in [0 .. n -> NodeOrNull(0 .. n)]
        /\ R \in [0 .. n -> Int] /\ E \in [0 .. n -> Int]
    BY <1>3, StateFields
  <2>2. relaxed(t, u, v, k, r, d) = [q |-> h, inQ |-> t.inQ, prev |-> P, relia |-> R, downDelays |-> E]
    BY <1>1 DEF SearchStates
  <2> HIDE DEF P, R, E
  <2>3. relaxed(t, u, v, k, r, d) \in SearchStates(n)
    BY <2>1, <2>2, <1>2 DEF SearchStates
  <2> QED
    BY <2>2, <2>3 DEF P, E
<1> QED
  BY <1>4 DEF h, RelaxedTo

LEMMA RelaxKeeps ==
  ASSUME NEW n \in Nat, NEW g, NEW D, GraphOn(g, n, D), NEW src \in 0 .. n, NEW barred,
         NEW t, InSearch(t, g, n, src, D, barred), ~t.inQ[src],
         NEW u \in 0 .. n, ~t.inQ[u], NEW e, IsLinkOf(g, u, e), NEW max
  PROVE  /\ InSearch(relax(t, u, g, e, barred, max), g, n, src, D, barred)
         /\ relax(t, u, g, e, barred, max).inQ = t.inQ
<1> DEFINE Id == 0 .. n
           v == getLinkOpSide(e, u)
           d == t.downDelays[u] + getLinkDelayTotal(g, e)
           k == 2 * logOf(e.relia) + t.q.key[u]
           rr == mul(t.relia[u], mul(e.relia, e.relia))
           stays == \/ e.linkId \in barred
                    \/ ~t.inQ[v]
                    \/ t.downDelays[u] + d > max
                    \/ t.q.key[u] = Unreached
                    \/ k <= t.q.key[v]
           r == relaxed(t, u, v, k, rr, d)
<1>1. relax(t, u, g, e, barred, max) = IF stays THEN t ELSE r
  BY DEF relax, relaxed
<1>2. /\ Ids(Id) /\ e \in LinkSet(n, D) /\ v \in Id /\ (v = n => u \in D)
      /\ d \in Int /\ k \in Int /\ rr \in Int
  <2>1. Ids(Id)
    BY IdsUpTo
  <2>2. e \in LinkSet(n, D) /\ e.relia \in Relias
    BY GraphFields, LinkFields
  <2>3. t \in SearchStates(n)
    BY DEF InSearch
  <2>4. getLinkDelayTotal(g, e) \in Int
    BY DEF getLinkDelayTotal
  <2>5. t.downDelays[u] \in Int /\ t.q.key[u] \in Int /\ t.relia[u] \in Int
    BY <2>3, StateFields
  <2>6. v \in Id /\ (v = n => u \in D)
    BY <2>2, OtherSide
  <2>7. e.relia \in Int /\ logOf(e.relia) \in Int
    BY <2>2, Logarithms
  <2>8. rr \in Int
    BY <2>5, <2>7, Products
  <2>9. 2 * logOf(e.relia) \in Int
    BY <2>7
  <2>10. d \in Int
    BY <2>4, <2>5
  <2>11. k \in Int
    BY <2>5, <2>9
  <2> QED
    BY <2>1, <2>2, <2>6, <2>8, <2>10, <2>11
<1>3. SUFFICES ASSUME ~stays PROVE InSearch(r, g, n, src, D, barred) /\ r.inQ = t.inQ
  BY <1>1
<1>4. /\ e.linkId \notin barred /\ t.inQ[v] /\ t.q.key[u] # Unreached /\ ~(k <= t.q.key[v])
      /\ d = t.downDelays[u] + getLinkDelayTotal(g, e) /\ v = getLinkOpSide(e, u)
  BY <1>3
<1> HIDE DEF v, d, k, rr
<1>5. /\ t \in SearchStates(n) /\ HeapInv(t.q, Queued(t.inQ, Id), Id) /\ Ranked(t.prev, t.inQ, Id)
      /\ Outward(t, g, src, barred, Id) /\ t.prev[n] \in D \cup {NULL}
  BY DEF InSearch
<1>6. /\ t.q.key \in [Id -> Int] /\ t.prev \in [Id -> NodeOrNull(Id)] /\ t.inQ \in [Id -> BOOLEAN]
      /\ t.downDelays \in [Id -> Int] /\ src \in Id /\ u \in Id
  BY <1>5, StateFields
<1>7. v # src /\ v # u
  BY <1>4
<1> HIDE DEF Id
<1>8. /\ HeapInv(increaseKey(t.q, v, k), Queued(t.inQ, Id), Id)
      /\ increaseKey(t.q, v, k).key = [t.q.key EXCEPT ![v] = k]
  <2>1. v \in Queued(t.inQ, Id)
    BY <1>2, <1>4 DEF Queued
  <2>2. t.q.key[v] <= k
    BY <1>2, <1>4, <1>6
  <2> DEFINE h == t.q
             S == Queued(t.inQ, Id)
  <2>3. HeapInv(h, S, Id) /\ v \in S /\ h.key[v] <= k
    BY <1>5, <2>1, <2>2
  <2> HIDE DEF h, S
  <2>4. HeapInv(increaseKey(h, v, k), S, Id) /\ increaseKey(h, v, k).key = [h.key EXCEPT ![v] = k]
    BY <2>3, <1>2, IncreaseKeeps
  <2> QED
    BY <2>4 DEF h, S
<1>9. /\ r \in SearchStates(n) /\ r.q = increaseKey(t.q, v, k) /\ r.inQ = t.inQ
      /\ r.prev = [t.prev EXCEPT ![v] = u] /\ r.downDelays = [t.downDelays EXCEPT ![v] = d]
  <2>1. increaseKey(t.q, v, k) \in HeapsOn(0 .. n)
    BY <1>8 DEF HeapInv, HeapOn, Id
  <2>2. v \in 0 .. n
    BY <1>2 DEF Id
  <2>3. r \in SearchStates(n) /\ RelaxedTo(r, t, u, v, k, d)
    BY <2>1, <2>2, <1>2, <1>5, RelaxedIs
  <2> HIDE DEF r
  <2> QED
    BY <2>3 DEF RelaxedTo
<1> HIDE DEF r
<1>10. /\ r.prev[v] = u /\ r.downDelays[v] = d /\ r.q.key[v] = k
       /\ \A x \in Id : x # v => r.prev[x] = t.prev[x] /\ r.downDelays[x] = t.downDelays[x] /\ r.q.key[x] = t.q.key[x]
  BY <1>2, <1>6, <1>8, <1>9
<1>11. Ranked(r.prev, r.inQ, Id)
  <2>1. Ranked([t.prev EXCEPT ![v] = u], t.inQ, Id)
    BY <1>2, <1>4, <1>5, <1>6, RankedGrows
  <2> QED
    BY <2>1, <1>9
<1>12. Outward(r, g, src, barred, Id)
  <2>1. r.prev[src] = NULL /\ r.downDelays[src] = 0
    BY <1>5, <1>6, <1>7, <1>10 DEF Outward
  <2>2. ASSUME NEW x \in Id, r.prev[x] # NULL PROVE Led(r, g, barred, x)
    <3>1. CASE x = v
      BY <3>1, <1>4, <1>6, <1>7, <1>10 DEF Led
    <3>2. CASE x # v
      <4>1. t.prev[x] # NULL /\ r.prev[x] = t.prev[x] /\ t.prev[x] \in Id
        BY <3>2, <2>2, <1>6, <1>10 DEF NodeOrNull
      <4>2. ~t.inQ[t.prev[x]]
        BY <4>1, <1>5, PredecessorsLeft
      <4>3. t.prev[x] # v /\ Led(t, g, barred, x)
        BY <4>1, <4>2, <1>4, <1>5 DEF Outward
      <4> QED
        BY <4>1, <4>3, <3>2, <1>10 DEF Led
    <3> QED
      BY <3>1, <3>2
  <2>3. ASSUME NEW x \in Id PROVE Unreached <= r.q.key[x] /\ (r.q.key[x] # Unreached => x = src \/ r.prev[x] # NULL)
    <3>1. CASE x = v
      <4>1. Unreached <= t.q.key[v] /\ t.q.key[v] \in Int
        BY <1>2, <1>5, <1>6 DEF Outward
      <4>2. Unreached <= k
        BY <4>1, <1>2, <1>4 DEF Unreached
      <4>3. u # NULL
        BY <1>2, <1>6 DEF Ids, NULL
      <4> QED
        BY <3>1, <4>2, <4>3, <1>10
    <3>2. CASE x # v
      BY <3>2, <1>5, <1>10 DEF Outward
    <3> QED
      BY <3>1, <3>2
  <2> QED
    BY <2>1, <2>2, <2>3 DEF Outward
<1>13. r.prev[n] \in D \cup {NULL}
  <2>1. n \in Id
    BY DEF Id
  <2> QED
    BY <2>1, <1>2, <1>5, <1>10
<1> QED
  BY <1>8, <1>9, <1>11, <1>12, <1>13 DEF InSearch, Id

-----------------------------------------------------------------------------
\* The node at the top leaves the queue.
left(s, u) == [s EXCEPT !.q = removeMax(@), !.inQ[u] = FALSE]

LEMMA LeftKeeps ==
  ASSUME NEW n \in Nat, NEW g, NEW D, NEW src \in 0 .. n, NEW barred,
         NEW s, InSearch(s, g, n, src, D, barred), Opening(s, src, 0 .. n), s.q.numberOfNodes # 0
  PROVE  /\ s.q.maxNode \in 0 .. n
         /\ InSearch(left(s, s.q.maxNode), g, n, src, D, barred)
         /\ ~left(s, s.q.maxNode).inQ[src] /\ ~left(s, s.q.maxNode).inQ[s.q.maxNode]
<1> DEFINE Id == 0 .. n
           h == s.q
           u == h.maxNode
           S == Queued(s.inQ, Id)
           r == left(s, u)
           inQ2 == [s.inQ EXCEPT ![u] = FALSE]
<1>1. Ids(Id) /\ n \in Id
  BY IdsUpTo
<1>2. /\ s \in SearchStates(n) /\ HeapInv(h, S, Id) /\ Ranked(s.prev, s.inQ, Id)
      /\ Outward(s, g, src, barred, Id) /\ s.prev[n] \in D \cup {NULL} /\ h.numberOfNodes # 0
  BY DEF InSearch
<1>3. /\ h \in HeapsOn(Id) /\ s.inQ \in [Id -> BOOLEAN] /\ s.prev \in [Id -> NodeOrNull(Id)]
      /\ s.relia \in [Id -> Int] /\ s.downDelays \in [Id -> Int] /\ h.key \in [Id -> Int]
  BY <1>2, StateFields
<1>4. Opening(s, src, Id) /\ src \in Id
  OBVIOUS
<1>40. s = [q |-> h, inQ |-> s.inQ, prev |-> s.prev, relia |-> s.relia, downDelays |-> s.downDelays]
  BY <1>2 DEF SearchStates
<1> HIDE DEF Id, S
<1>5. S # {} /\ u \in S /\ u \in Id /\ \A x \in S : h.key[x] <= h.key[u]
  <2>1. S # {}
    BY <1>2, FS_EmptySet DEF HeapInv
  <2> QED
    BY <2>1, <1>2 DEF HeapInv, IsRoot, S, Queued
<1>6. HeapInv(removeMax(h), S \ {u}, Id) /\ removeMax(h).key = h.key
  <2> HIDE DEF h
  <2> QED
    BY <1>1, <1>2, <1>5, RemoveMaxKeeps
<1>7. r = [s EXCEPT !.q = removeMax(h), !.inQ = inQ2]
  BY DEF left
<1>8. /\ inQ2 \in [Id -> BOOLEAN] /\ ~inQ2[u] /\ s.inQ[u] /\ \A x \in Id : x # u => inQ2[x] = s.inQ[x]
  BY <1>3, <1>5 DEF S, Queued
<1>9. Ranked(s.prev, inQ2, Id)
  BY <1>1, <1>2, <1>3, <1>5, <1>8, RankedLeaves
<1> HIDE DEF inQ2, u
<1>10. /\ r.q = removeMax(h) /\ r.inQ = inQ2 /\ r.prev = s.prev /\ r.downDelays = s.downDelays
       /\ r.relia = s.relia
  <2> HIDE DEF r, h
  <2> QED
    BY <1>7, <1>40
<1>11. r = [q |-> removeMax(h), inQ |-> inQ2, prev |-> s.prev, relia |-> s.relia, downDelays |-> s.downDelays]
  <2> HIDE DEF r, h
  <2> QED
    BY <1>7, <1>40
<1> HIDE DEF r, h
<1>12. r \in SearchStates(n)
  <2>1. removeMax(h) \in HeapsOn(Id)
    BY <1>6 DEF HeapInv, HeapOn
  <2> QED
    BY <2>1, <1>3, <1>8, <1>11 DEF SearchStates, Id
<1>13. Queued(r.inQ, Id) = S \ {u}
  BY <1>8, <1>10 DEF Queued, S
<1>14. HeapInv(r.q, Queued(r.inQ, Id), Id)
  BY <1>6, <1>10, <1>13
<1>15. Outward(r, g, src, barred, Id)
  BY <1>2, <1>6, <1>10 DEF Outward, Led, h
<1>16. ~r.inQ[src]
  <2>1. CASE src = u
    BY <2>1, <1>8, <1>10
  <2>2. CASE src # u
    <3> SUFFICES ASSUME s.inQ[src] PROVE FALSE
      BY <2>2, <1>4, <1>8, <1>10
    <3>1. h.key[src] = 0 /\ h.key[u] = Unreached /\ src \in S
      BY <2>2, <1>4, <1>5 DEF Opening, S, Queued, h
    <3>2. h.key[src] <= h.key[u]
      BY <3>1, <1>5
    <3> QED
      BY <3>1, <3>2 DEF Unreached
  <2> QED
    BY <2>1, <2>2
<1>17. InSearch(r, g, n, src, D, barred)
  BY <1>2, <1>9, <1>10, <1>12, <1>14, <1>15 DEF InSearch, Id
<1> QED
  BY <1>5, <1>8, <1>10, <1>16, <1>17 DEF r, u, h, Id

LEMMA LeaveKeeps ==
  ASSUME NEW n \in Nat, NEW g, NEW D, GraphOn(g, n, D), NEW src \in 0 .. n, NEW barred, NEW max,
         NEW s, InSearch(s, g, n, src, D, barred), Opening(s, src, 0 .. n)
  PROVE  InSearch(leave(s, g, barred, max), g, n, src, D, barred) /\ Opening(leave(s, g, barred, max), src, 0 .. n)
<1> DEFINE u == s.q.maxNode
           s0 == left(s, u)
           m == Len(g.eLinks[u])
           good == {t \in SearchStates(n) : InSearch(t, g, n, src, D, barred) /\ ~t.inQ[src] /\ ~t.inQ[u]}
           step(t, i) == relax(t, u, g, g.eLinks[u][i], barred, max)
           stage == [i \in 0 .. m |-> good]
           F == [i \in 1 .. m |-> [o \in stage[i - 1] |-> step(o, i)]]
           a == CHOOSE f : f = [i \in 0 .. m |-> IF i = 0 THEN s0 ELSE step(f[i - 1], i)]
<1>1. SUFFICES ASSUME s.q.numberOfNodes # 0
               PROVE  InSearch(leave(s, g, barred, max), g, n, src, D, barred) /\ Opening(leave(s, g, barred, max), src, 0 .. n)
  BY DEF leave
<1>2. u \in 0 .. n /\ InSearch(s0, g, n, src, D, barred) /\ ~s0.inQ[src] /\ ~s0.inQ[u]
  BY <1>1, LeftKeeps
<1>3. g.eLinks[u] \in Seq(LinkSet(n, D)) /\ m \in Nat
  BY <1>2, GraphFields
<1> HIDE DEF u
<1>4. s0 \in good
  BY <1>2 DEF InSearch
<1>5. ASSUME NEW i \in 1 .. m, NEW t \in good PROVE step(t, i) \in good
  <2>1. IsLinkOf(g, u, g.eLinks[u][i])
    BY <1>3 DEF IsLinkOf, Occurs
  <2>2. InSearch(t, g, n, src, D, barred) /\ ~t.inQ[src] /\ ~t.inQ[u]
    OBVIOUS
  <2> DEFINE e == g.eLinks[u][i]
  <2> HIDE DEF e
  <2>3. /\ InSearch(relax(t, u, g, e, barred, max), g, n, src, D, barred)
        /\ relax(t, u, g, e, barred, max).inQ = t.inQ
    BY <2>1, <2>2, <1>2, RelaxKeeps DEF e
  <2>4. step(t, i) = relax(t, u, g, e, barred, max)
    BY DEF e
  <2>5. step(t, i) \in SearchStates(n)
    BY <2>3, <2>4 DEF InSearch
  <2> HIDE DEF step
  <2> QED
    BY <2>2, <2>3, <2>4, <2>5
<1> HIDE DEF good
<1>6. s0 \in stage[0]
  BY <1>3, <1>4
<1>7. \A i \in 1 .. m : \A t \in stage[i - 1] : step(t, i) \in stage[i]
  <2> HIDE DEF step, m
  <2> QED
    BY <1>3, <1>5
<1> HIDE DEF m, s0, step, stage
<1>20. \A i \in 1 .. m : F[i] \in [stage[i - 1] -> stage[i]]
  BY <1>7
<1>21. PICK f : IsTrace(f, m) /\ IsRun(f, m, s0, F, stage)
  <2> HIDE DEF F
  <2> QED
    BY <1>3, <1>6, <1>20, RunExists
<1>22. f = [i \in 0 .. m |-> IF i = 0 THEN s0 ELSE step(f[i - 1], i)]
  <2>1. ASSUME NEW i \in 1 .. m PROVE f[i] = step(f[i - 1], i)
    <3>1. i - 1 \in 0 .. m /\ f[i] = F[i][f[i - 1]] /\ f[i - 1] \in stage[i - 1]
      <4> HIDE DEF F
      <4>1. i - 1 \in 0 .. m
        BY <1>3
      <4> QED
        BY <4>1, <1>21 DEF IsRun
    <3> QED
      BY <3>1
  <2>2. f[0] = s0
    BY <1>21 DEF IsRun
  <2>3. \A i \in 0 .. m : f[i] = IF i = 0 THEN s0 ELSE step(f[i - 1], i)
    BY <1>3, <2>1, <2>2
  <2> QED
    BY <1>21, <2>3 DEF IsTrace
<1>23. a = [i \in 0 .. m |-> IF i = 0 THEN s0 ELSE step(a[i - 1], i)]
  BY <1>22
<1> HIDE DEF a, F
<1>24. a[m] \in stage[m]
  <2>1. ASSUME NEW i \in 1 .. m, a[i - 1] \in stage[i - 1] PROVE a[i] \in stage[i]
    <3>1. a[i] = step(a[i - 1], i)
      BY <1>3, <1>23
    <3> QED
      BY <2>1, <3>1, <1>7
  <2>2. a[0] \in stage[0]
    BY <1>3, <1>6, <1>23
  <2>3. \A i \in 0 .. m : a[i] \in stage[i]
    BY <1>3, <2>1, <2>2, RunStays
  <2> QED
    BY <1>3, <2>3
<1>8. leave(s, g, barred, max) = a[m]
  BY <1>1 DEF leave, removeMaxObject, left, Loop, a, step, s0, m, u
<1>9. a[m] \in good
  BY <1>3, <1>24 DEF stage
<1> QED
  BY <1>8, <1>9 DEF good, Opening

LEMMA SearchKeeps ==
  ASSUME NEW n \in Nat, NEW g, NEW D, GraphOn(g, n, D), NEW src \in 0 .. n, NEW barred, NEW max,
         NEW s, InSearch(s, g, n, src, D, barred), Opening(s, src, 0 .. n)
  PROVE  InSearch(genPathSearch(s, g, barred, max), g, n, src, D, barred)
<1> DEFINE s0 == s
           m == size(s.q)
           good == {t \in SearchStates(n) : InSearch(t, g, n, src, D, barred) /\ Opening(t, src, 0 .. n)}
           step(t, i) == leave(t, g, barred, max)
           stage == [i \in 0 .. m |-> good]
           F == [i \in 1 .. m |-> [o \in stage[i - 1] |-> step(o, i)]]
           a == CHOOSE f : f = [i \in 0 .. m |-> IF i = 0 THEN s0 ELSE step(f[i - 1], i)]
<1>1. m \in Nat
  <2>1. s.q \in HeapsOn(0 .. n)
    BY StateFields DEF InSearch
  <2> QED
    BY <2>1, IdsUpTo, SizeIs
<1> HIDE DEF m
<1>2. s0 \in stage[0]
  BY <1>1 DEF InSearch
<1>3. ASSUME NEW t \in good, NEW i PROVE step(t, i) \in good
  BY LeaveKeeps DEF InSearch
<1>4. \A i \in 1 .. m : \A t \in stage[i - 1] : step(t, i) \in stage[i]
  <2> HIDE DEF step, good
  <2> QED
    BY <1>1, <1>3
<1> HIDE DEF m, s0, step, stage
<1>20. \A i \in 1 .. m : F[i] \in [stage[i - 1] -> stage[i]]
  BY <1>4
<1>21. PICK f : IsTrace(f, m) /\ IsRun(f, m, s0, F, stage)
  <2> HIDE DEF F
  <2> QED
    BY <1>1, <1>2, <1>20, RunExists
<1>22. f = [i \in 0 .. m |-> IF i = 0 THEN s0 ELSE step(f[i - 1], i)]
  <2>1. ASSUME NEW i \in 1 .. m PROVE f[i] = step(f[i - 1], i)
    <3>1. i - 1 \in 0 .. m /\ f[i] = F[i][f[i - 1]] /\ f[i - 1] \in stage[i - 1]
      <4> HIDE DEF F
      <4>1. i - 1 \in 0 .. m
        BY <1>1
      <4> QED
        BY <4>1, <1>21 DEF IsRun
    <3> QED
      BY <3>1
  <2>2. f[0] = s0
    BY <1>21 DEF IsRun
  <2>3. \A i \in 0 .. m : f[i] = IF i = 0 THEN s0 ELSE step(f[i - 1], i)
    BY <1>1, <2>1, <2>2
  <2> QED
    BY <1>21, <2>3 DEF IsTrace
<1>23. a = [i \in 0 .. m |-> IF i = 0 THEN s0 ELSE step(a[i - 1], i)]
  BY <1>22
<1> HIDE DEF a, F
<1>24. a[m] \in stage[m]
  <2>1. ASSUME NEW i \in 1 .. m, a[i - 1] \in stage[i - 1] PROVE a[i] \in stage[i]
    <3>1. a[i] = step(a[i - 1], i)
      BY <1>1, <1>23
    <3> QED
      BY <2>1, <3>1, <1>4
  <2>2. a[0] \in stage[0]
    BY <1>1, <1>2, <1>23
  <2>3. \A i \in 0 .. m : a[i] \in stage[i]
    BY <1>1, <2>1, <2>2, RunStays
  <2> QED
    BY <1>1, <2>3
<1>5. genPathSearch(s, g, barred, max) = a[m]
  BY DEF genPathSearch, Loop, a, step, s0, m
<1>6. a[m] \in good
  BY <1>1, <1>24 DEF stage
<1> QED
  BY <1>5, <1>6

\* A search begins with src in the queue, the only node reached.
LEMMA UnsearchedIs ==
  ASSUME NEW n \in Nat, NEW g, NEW D, NEW src \in 0 .. n, NEW barred
  PROVE  InSearch(unsearched(src, n), g, n, src, D, barred) /\ Opening(unsearched(src, n), src, 0 .. n)
<1> DEFINE Id == 0 .. n
           key == [x \in Id |-> IF x = src THEN 0 ELSE Unreached]
           inQ == [x \in Id |-> TRUE]
           prev == [x \in Id |-> NULL]
           h == fullHeap(key, n + 1)
           s == unsearched(src, n)
<1>1. Ids(Id) /\ n \in Id /\ src \in Id
  BY IdsUpTo
<1>2. key \in [Id -> Int]
  BY DEF Unreached
<1>3. HeapInv(h, Id, Id) /\ h.key = key
  <2> DEFINE m == n + 1
  <2>1. 0 .. m - 1 = Id /\ m \in Nat
    OBVIOUS
  <2> HIDE DEF m, Id
  <2>2. key \in [0 .. m - 1 -> Int]
    BY <2>1, <1>2
  <2> HIDE DEF key
  <2>3. HeapInv(fullHeap(key, m), 0 .. m - 1, 0 .. m - 1) /\ fullHeap(key, m).key = key
    BY <2>1, <2>2, FullHeapIs
  <2> QED
    BY <2>1, <2>3 DEF m
<1>4. Ranked(prev, inQ, Id)
  <2> HIDE DEF Id
  <2> QED
    BY <1>1, RankedAtFirst
<1>5. Queued(inQ, Id) = Id
  BY DEF Queued
<1>6. s = [q |-> h, inQ |-> inQ, prev |-> prev, relia |-> [x \in Id |-> IF x = src THEN One ELSE 0], downDelays |-> [x \in Id |-> 0]]
  BY DEF unsearched
<1> HIDE DEF h
<1>7. s \in SearchStates(n)
  <2>1. h \in HeapsOn(Id)
    BY <1>3 DEF HeapInv, HeapOn
  <2>2. One \in Int /\ 0 \in Int
    BY DEF One
  <2> QED
    BY <2>1, <2>2, <1>6 DEF SearchStates, NodeOrNull
<1>8. s.q = h /\ s.inQ = inQ /\ s.prev = prev /\ s.downDelays = [x \in Id |-> 0]
  BY <1>6
<1> HIDE DEF s
<1>9. Outward(s, g, src, barred, Id)
  BY <1>1, <1>3, <1>8 DEF Outward, Unreached
<1>10. Opening(s, src, Id)
  BY <1>3, <1>8, <1>1 DEF Opening
<1>11. s.prev[n] = NULL
  BY <1>1, <1>8
<1>12. InSearch(s, g, n, src, D, barred)
  BY <1>3, <1>4, <1>5, <1>7, <1>8, <1>9, <1>11 DEF InSearch
<1> QED
  BY <1>10, <1>12 DEF s

-----------------------------------------------------------------------------
(* What an RSP is. *)

\* A link leads from x to y that is not barred.
Hop(g, x, y, barred) ==
  \E e : IsLinkOf(g, x, e) /\ getLinkOpSide(e, x) = y /\ e.linkId \notin barred

\* A path of the network that repeats no node.
IsPath(p, g, n, barred) ==
  /\ p \in Seq(0 .. n - 1) /\ Len(p) \in Nat \ {0}
  /\ \A i, j \in 1 .. Len(p) : i # j => p[i] # p[j]
  /\ \A i \in 2 .. Len(p) : Hop(g, p[i - 1], p[i], barred)

RspRecords(n) == [nodes : Seq(0 .. n - 1), lossRate : Int, linkDownDelay : Int, pathID : Int]

\* A path from src to a node in D, over links that are not barred; its delay is
\* the number of its links.
Detour(p, g, n, src, D, barred) ==
  /\ p \in RspRecords(n)
  /\ IsPath(p.nodes, g, n, barred)
  /\ p.nodes[1] = src /\ p.nodes[Len(p.nodes)] \in D
  /\ p.linkDownDelay = Len(p.nodes) - 1

\* A link between two nodes of the network is not one to the virtual destination.
LEMMA RealHop ==
  ASSUME NEW n \in Nat, NEW g, NEW h, NEW D, Virtual(h, g, n, D),
         NEW x \in 0 .. n - 1, NEW y \in 0 .. n - 1, NEW e, IsLinkOf(h, x, e), getLinkOpSide(e, x) = y
  PROVE  IsLinkOf(g, x, e) /\ getLinkDelayTotal(h, e) = 1
<1>1. GraphOn(h, n, D) /\ Wired(h, n) /\ x \in 0 .. n /\ h.nNodes = n
  BY GraphFields DEF Virtual
<1>2. x \in {e.a, e.b} /\ e \in LinkSet(n, D)
  BY <1>1, GraphFields DEF Wired
<1>3. e.b # n /\ e.a # n
  BY <1>2, LinkFields DEF getLinkOpSide
<1> QED
  BY <1>1, <1>3 DEF Virtual, getLinkDelayTotal

LEMMA VirtualHop ==
  ASSUME NEW n \in Nat, NEW g, NEW h, NEW D, Virtual(h, g, n, D),
         NEW x \in 0 .. n - 1, NEW e, IsLinkOf(h, x, e), getLinkOpSide(e, x) = n
  PROVE  getLinkDelayTotal(h, e) = 0
<1>1. GraphOn(h, n, D) /\ x \in 0 .. n /\ h.nNodes = n
  BY GraphFields DEF Virtual
<1>2. e \in LinkSet(n, D)
  BY <1>1, GraphFields
<1>3. e.b = n
  BY <1>2, LinkFields DEF getLinkOpSide
<1> QED
  BY <1>1, <1>3 DEF getLinkDelayTotal

LEMMA FoundPath ==
  ASSUME NEW n \in Nat, NEW g, NEW h, NEW D \in SUBSET (0 .. n - 1), Virtual(h, g, n, D), NEW barred,
         NEW src \in 0 .. n - 1, NEW s, InSearch(s, h, n, src, D, barred), s.prev[n] # NULL,
         NEW p, p = convertPrevArrayToPathNodeIdsArray(s.prev, src, s.prev[n])
  PROVE  /\ IsPath(p, g, n, barred) /\ p[1] = src /\ p[Len(p)] \in D
         /\ s.downDelays[n] = Len(p) - 1
<1> DEFINE Id == 0 .. n
           w == s.prev[n]
           r == convertPrevArrayToPathNodeIdsArray(s.prev, src, n)
           m == Len(p)
<1>1. /\ Ids(Id) /\ n \in Id /\ src \in Id /\ w \in D /\ w \in Id /\ w \in 0 .. n - 1 /\ n # src
      /\ \A x \in Id : x # n => x \in 0 .. n - 1
      /\ NULL \notin Id
  <2>1. w \in D
    BY DEF InSearch
  <2>2. NULL \notin Id
    BY DEF NULL
  <2>3. Ids(Id)
    BY IdsUpTo
  <2> HIDE DEF w
  <2> QED
    BY <2>1, <2>2, <2>3
<1>2. /\ Ranked(s.prev, s.inQ, Id) /\ s.prev \in [Id -> NodeOrNull(Id)] /\ s.downDelays \in [Id -> Int]
      /\ Outward(s, h, src, barred, Id)
  BY StateFields DEF InSearch
<1> HIDE DEF Id, w
<1>3. Trail(p, s.prev, src, w, Id) /\ Full(p, s.prev, src)
  BY <1>1, <1>2, PathIs DEF w
<1>4. r = Append(p, n)
  BY SMTT(60), <1>1, <1>2, TrailGoesOn DEF w
<1>5. Trail(r, s.prev, src, n, Id)
  BY <1>1, <1>2, PathIs
<1>6. \A i, j \in 1 .. Len(r) : i # j => r[i] # r[j]
  BY <1>1, <1>2, <1>5, TrailClimbs
<1>7. /\ p \in Seq(Id) /\ m \in Nat \ {0} /\ p[m] = w
      /\ \A i \in 2 .. m : p[i - 1] = s.prev[p[i]] /\ p[i] # src
  BY <1>3 DEF Trail
<1> HIDE DEF r
<1>8. Len(r) = m + 1 /\ r[m + 1] = n /\ \A i \in 1 .. m : r[i] = p[i]
  BY <1>4, <1>7
<1> HIDE DEF m
<1>9. ASSUME NEW i \in 1 .. m PROVE p[i] \in 0 .. n - 1 /\ p[i] \in Id
  <2>1. i # m + 1 /\ i \in 1 .. m + 1 /\ m + 1 \in 1 .. m + 1
    BY <1>7
  <2>2. r[i] # r[m + 1]
    BY <2>1, <1>6, <1>8
  <2>3. p[i] # n /\ p[i] \in Id
    BY <2>2, <1>7, <1>8 DEF m
  <2> QED
    BY <2>3, <1>1
<1>10. ASSUME NEW i \in 1 .. m, NEW j \in 1 .. m, i # j PROVE p[i] # p[j]
  <2>1. i \in 1 .. m + 1 /\ j \in 1 .. m + 1
    BY <1>7
  <2>2. r[i] # r[j]
    BY <2>1, <1>6, <1>8, <1>10
  <2> QED
    BY <2>2, <1>8
<1>11. p \in Seq(0 .. n - 1)
  <2>1. p = [i \in 1 .. m |-> p[i]]
    BY <1>7 DEF m
  <2> QED
    BY <2>1, <1>7, <1>9
<1>12. ASSUME NEW i \in 2 .. m
       PROVE  /\ Hop(g, p[i - 1], p[i], barred) /\ s.downDelays[p[i]] = s.downDelays[p[i - 1]] + 1
              /\ s.q.key[p[i - 1]] # Unreached
  <2>1. i - 1 \in 1 .. m /\ i \in 1 .. m
    BY <1>7
  <2>2. p[i - 1] = s.prev[p[i]] /\ p[i] \in Id /\ p[i - 1] \in 0 .. n - 1 /\ p[i] \in 0 .. n - 1 /\ s.prev[p[i]] # NULL
    BY <2>1, <1>1, <1>7, <1>9
  <2>3. PICK e : /\ IsLinkOf(h, p[i - 1], e) /\ getLinkOpSide(e, p[i - 1]) = p[i] /\ e.linkId \notin barred
                 /\ s.downDelays[p[i]] = s.downDelays[p[i - 1]] + getLinkDelayTotal(h, e)
                 /\ s.q.key[p[i - 1]] # Unreached
    BY <2>2, <1>2 DEF Outward, Led
  <2>4. IsLinkOf(g, p[i - 1], e) /\ getLinkDelayTotal(h, e) = 1
    <3> DEFINE x == p[i - 1]
               y == p[i]
    <3>1. x \in 0 .. n - 1 /\ y \in 0 .. n - 1 /\ IsLinkOf(h, x, e) /\ getLinkOpSide(e, x) = y
      BY <2>2, <2>3
    <3>2. Virtual(h, g, n, D)
      BY <1>1
    <3> HIDE DEF x, y
    <3>3. IsLinkOf(g, x, e) /\ getLinkDelayTotal(h, e) = 1
      BY <3>1, <3>2, RealHop
    <3> QED
      BY <3>3 DEF x
  <2> QED
    BY <2>3, <2>4 DEF Hop
<1>13. s.downDelays[n] = s.downDelays[w] /\ s.q.key[w] # Unreached
  <2>1. PICK e : /\ IsLinkOf(h, w, e) /\ getLinkOpSide(e, w) = n
                 /\ s.downDelays[n] = s.downDelays[w] + getLinkDelayTotal(h, e)
                 /\ s.q.key[w] # Unreached
    BY <1>1, <1>2 DEF Outward, Led, w
  <2>2. getLinkDelayTotal(h, e) = 0
    BY <1>1, <2>1, VirtualHop
  <2> QED
    BY <2>1, <2>2, <1>1, <1>2
<1>14. p[1] = src
  <2>1. 1 \in 1 .. m /\ p[1] \in Id
    BY <1>7, <1>9
  <2>2. s.q.key[p[1]] # Unreached
    <3>1. CASE m = 1
      BY <3>1, <1>7, <1>13
    <3>2. CASE m # 1
      <4>1. 2 \in 2 .. m /\ 2 - 1 = 1
        BY <3>2, <1>7
      <4> QED
        BY <4>1, <1>12
    <3> QED
      BY <3>1, <3>2
  <2> QED
    BY <2>1, <2>2, <1>2, <1>3 DEF Outward, Full
<1>15. \A i \in 1 .. m : s.downDelays[p[i]] = i - 1
  <2> DEFINE K == {d \in 0 .. m : d = 0 \/ s.downDelays[p[d]] = d - 1}
  <2>1. 0 \in K
    BY <1>7
  <2>2. ASSUME NEW d \in 1 .. m, d - 1 \in K PROVE d \in K
    <3>1. CASE d = 1
      BY <3>1, <1>2, <1>7, <1>14 DEF Outward
    <3>2. CASE d # 1
      <4>1. d \in 2 .. m /\ d - 1 # 0 /\ d - 1 \in 1 .. m
        BY <3>2, <1>7
      <4>2. s.downDelays[p[d - 1]] = (d - 1) - 1 /\ s.downDelays[p[d]] = s.downDelays[p[d - 1]] + 1
        BY <2>2, <4>1, <1>12
      <4> QED
        BY <4>1, <4>2
    <3> QED
      BY <3>1, <3>2
  <2>3. \A d \in 1 .. m : d - 1 \in K => d \in K
    BY <2>2
  <2>4. \A d \in 0 .. m : d \in K
    <3> HIDE DEF K
    <3> QED
      BY <1>7, <2>1, <2>3, CountUp
  <2>5. ASSUME NEW i \in 1 .. m PROVE s.downDelays[p[i]] = i - 1
    BY <2>4, <1>7
  <2> QED
    BY <2>5
<1>16. s.downDelays[n] = m - 1
  <2>1. m \in 1 .. m
    BY <1>7
  <2> QED
    BY <2>1, <1>7, <1>13, <1>15
<1> QED
  BY <1>1, <1>7, <1>10, <1>11, <1>12, <1>14, <1>16 DEF IsPath, m

\* The RSP that a search finds.
LEMMA GenPathIs ==
  ASSUME NEW n \in Nat, NEW g, Network(g, n), NEW src \in 0 .. n - 1, NEW dsts \in Seq(0 .. n - 1),
         NEW D \in SUBSET (0 .. n - 1), \A i \in 1 .. Len(dsts) : dsts[i] \in D, NEW barred, NEW max,
         NEW p, p = genPath(g, src, dsts, barred, max), p # NoRsp
  PROVE  Detour(p, g, n, src, D, barred) /\ p.pathID = 0
<1> DEFINE h == addVirtNode(g, dsts)
           s0 == unsearched(src, n)
           s == genPathSearch(s0, h, barred, max)
           nodes == convertPrevArrayToPathNodeIdsArray(s.prev, src, s.prev[n])
<1>1. g.nNodes = n
  BY GraphFields DEF Network
<1>2. Virtual(h, g, n, D)
  BY VirtNodeKeeps
<1> HIDE DEF h
<1>3. GraphOn(h, n, D) /\ src \in 0 .. n /\ n \in 0 .. n
  BY <1>2 DEF Virtual
<1>4. InSearch(s0, h, n, src, D, barred) /\ Opening(s0, src, 0 .. n)
  BY <1>3, UnsearchedIs
<1> HIDE DEF s0
<1>5. InSearch(s, h, n, src, D, barred)
  BY <1>3, <1>4, SearchKeeps
<1>6. p = found(s, src, n)
  BY <1>1 DEF genPath, s, s0, h
<1> HIDE DEF s
<1>7. s.prev[n] # NULL
  BY <1>6 DEF found
<1>8. p = [nodes |-> nodes, lossRate |-> One - s.relia[n], linkDownDelay |-> s.downDelays[n], pathID |-> 0]
  BY <1>6, <1>7 DEF found, RedundantSubPath
<1>9. s.relia[n] \in Int /\ s.downDelays[n] \in Int /\ One \in Int
  BY <1>3, <1>5, StateFields DEF InSearch, One
<1>10. One - s.relia[n] \in Int
  BY <1>9
<1>110. nodes = convertPrevArrayToPathNodeIdsArray(s.prev, src, s.prev[n])
  OBVIOUS
<1> HIDE DEF nodes
<1>11. /\ IsPath(nodes, g, n, barred) /\ nodes[1] = src /\ nodes[Len(nodes)] \in D
       /\ s.downDelays[n] = Len(nodes) - 1
  BY SMTT(60), <1>2, <1>5, <1>7, <1>110, FoundPath
<1>12. p.nodes = nodes /\ p.linkDownDelay = s.downDelays[n] /\ p.pathID = 0
  BY <1>8
<1>13. p \in RspRecords(n)
  BY <1>8, <1>9, <1>10, <1>11 DEF RspRecords, IsPath
<1> QED
  BY <1>11, <1>12, <1>13 DEF Detour

-----------------------------------------------------------------------------
(* The RSPs of a node. *)

\* The ends of the first link between two nodes are these nodes.
LEMMA LinkBetween ==
  ASSUME NEW n \in Nat, NEW g, Network(g, n), NEW x \in 0 .. n - 1, NEW y, x # y,
         NEW e, IsLinkOf(g, x, e), y \in {e.a, e.b}
  PROVE  /\ getLinkByNodeIds(g, x, y) = e /\ linkIdOf(g, x, y) = e.linkId
         /\ \E i \in linksBetween(g, x, y) : g.eLinks[x][i] = e
<1> DEFINE T == linksBetween(g, x, y)
<1>1. g.eLinks[x] \in Seq(LinkSet(n, {})) /\ x \in 0 .. n /\ Wired(g, n) /\ OwnIds(g, n)
  BY GraphFields DEF Network
<1>2. PICK i \in DOMAIN g.eLinks[x] : g.eLinks[x][i] = e
  BY DEF IsLinkOf, Occurs
<1>3. i \in T /\ T \subseteq Nat
  BY <1>1, <1>2 DEF linksBetween
<1> DEFINE k == CHOOSE j \in T : \A l \in T : j <= l
<1>4. k \in T
  <2> HIDE DEF T
  <2>1. \E j \in T : \A l \in T : j <= l
    BY <1>3, LeastOfNats
  <2> QED
    BY <2>1
<1>5. IsLinkOf(g, x, g.eLinks[x][k]) /\ y \in {g.eLinks[x][k].a, g.eLinks[x][k].b}
  BY <1>4 DEF linksBetween, IsLinkOf, Occurs
<1>6. getLinkByNodeIds(g, x, y) = g.eLinks[x][k]
  BY DEF getLinkByNodeIds
<1> DEFINE l == g.eLinks[x][k]
<1> HIDE DEF k
<1>7. x \in {l.a, l.b} /\ x \in {e.a, e.b}
  BY <1>1, <1>5 DEF Wired
<1>8. {l.a, l.b} = {e.a, e.b}
  BY <1>5, <1>7
<1>9. l = e
  <2> HIDE DEF l
  <2>1. IsLinkOf(g, x, l)
    BY <1>5 DEF l
  <2> QED
    BY ZenonT(60), <2>1, <1>1, <1>8 DEF OwnIds
<1> QED
  BY <1>2, <1>3, <1>6, <1>9 DEF linkIdOf

LEMMA HopLink ==
  ASSUME NEW n \in Nat, NEW g, Network(g, n), NEW x \in 0 .. n - 1, NEW y, x # y, NEW barred, Hop(g, x, y, barred)
  PROVE  /\ linkIdOf(g, x, y) \notin barred
         /\ \E e : /\ IsLinkOf(g, x, e) /\ getLinkOpSide(e, x) = y /\ {e.a, e.b} = {x, y}
                   /\ getLinkByNodeIds(g, x, y) = e
<1>1. PICK e : IsLinkOf(g, x, e) /\ getLinkOpSide(e, x) = y /\ e.linkId \notin barred
  BY DEF Hop
<1>2. x \in 0 .. n /\ Wired(g, n)
  BY DEF Network
<1>3. {e.a, e.b} = {x, y}
  BY <1>1, <1>2 DEF Wired, getLinkOpSide
<1>4. getLinkByNodeIds(g, x, y) = e /\ linkIdOf(g, x, y) = e.linkId
  BY <1>1, <1>3, LinkBetween
<1> QED
  BY <1>1, <1>3, <1>4

\* An RSP avoids what is barred.
LEMMA DetourAvoids ==
  ASSUME NEW n \in Nat, NEW g, Network(g, n), NEW p, NEW barred, IsPath(p, g, n, barred)
  PROVE  pathLinkIds(g, p) \cap barred = {}
<1> SUFFICES ASSUME NEW i \in 2 .. Len(p) PROVE linkIdOf(g, p[i - 1], p[i]) \notin barred
  BY DEF pathLinkIds
<1>1. /\ p \in Seq(0 .. n - 1) /\ Len(p) \in Nat /\ i \in 1 .. Len(p) /\ i - 1 \in 1 .. Len(p) /\ i - 1 # i
  BY DEF IsPath
<1>2. p[i - 1] # p[i] /\ Hop(g, p[i - 1], p[i], barred)
  BY <1>1 DEF IsPath
<1>3. p[i - 1] \in 0 .. n - 1
  BY <1>1
<1> QED
  BY <1>2, <1>3, HopLink

LEMMA FewerBarred ==
  ASSUME NEW p, NEW g, NEW n, NEW src, NEW D, NEW barred, NEW more, barred \subseteq more, Detour(p, g, n, src, D, more)
  PROVE  Detour(p, g, n, src, D, barred)
BY DEF Detour, IsPath, Hop

\* RSPs from src to D that avoid the links in barred and each other.
RspList(r, g, n, src, D, barred) ==
  /\ r \in Seq(RspRecords(n))
  /\ \A j \in 1 .. Len(r) : Detour(r[j], g, n, src, D, {}) /\ pathLinkIds(g, r[j].nodes) \cap barred = {}
  /\ \A i, j \in 1 .. Len(r) : i # j => pathLinkIds(g, r[i].nodes) \cap pathLinkIds(g, r[j].nodes) = {}

LEMMA OneMoreKeeps ==
  ASSUME NEW n \in Nat, NEW g, Network(g, n), NEW src \in 0 .. n - 1, NEW dsts \in Seq(0 .. n - 1),
         NEW D \in SUBSET (0 .. n - 1), \A i \in 1 .. Len(dsts) : dsts[i] \in D, NEW barred, NEW max,
         NEW r, RspList(r, g, n, src, D, barred)
  PROVE  RspList(oneMore(g, src, dsts, barred, max, r), g, n, src, D, barred)
<1> DEFINE expelled == UNION {pathLinkIds(g, r[i].nodes) : i \in DOMAIN r}
           more == barred \cup expelled
           sp == genPath(g, src, dsts, more, max)
           s == Append(r, sp)
<1>1. oneMore(g, src, dsts, barred, max, r) = IF sp = NoRsp \/ isInArray(r, sp) THEN r ELSE s
  BY DEF oneMore
<1>2. SUFFICES ASSUME sp # NoRsp PROVE RspList(s, g, n, src, D, barred)
  BY <1>1
<1>3. DOMAIN r = 1 .. Len(r) /\ Len(r) \in Nat
  BY DEF RspList
<1>4. \A i \in 1 .. Len(r) : pathLinkIds(g, r[i].nodes) \subseteq more
  BY <1>3
<1> HIDE DEF more
<1>5. Detour(sp, g, n, src, D, more)
  BY <1>2, GenPathIs
<1> HIDE DEF sp
<1>6. Detour(sp, g, n, src, D, {}) /\ pathLinkIds(g, sp.nodes) \cap more = {} /\ sp \in RspRecords(n)
  <2>1. IsPath(sp.nodes, g, n, more) /\ sp \in RspRecords(n)
    BY <1>5 DEF Detour
  <2> QED
    BY <2>1, <1>5, DetourAvoids, FewerBarred
<1>7. barred \subseteq more
  BY DEF more
<1>8. r \in Seq(RspRecords(n))
  BY DEF RspList
<1>9. s \in Seq(RspRecords(n)) /\ Len(s) = Len(r) + 1 /\ s[Len(r) + 1] = sp /\ \A i \in 1 .. Len(r) : s[i] = r[i]
  BY <1>6, <1>8
<1> HIDE DEF s
<1>10. \A j \in 1 .. Len(s) : j = Len(r) + 1 \/ j \in 1 .. Len(r)
  BY <1>3, <1>9
<1>11. ASSUME NEW j \in 1 .. Len(s)
       PROVE  Detour(s[j], g, n, src, D, {}) /\ pathLinkIds(g, s[j].nodes) \cap barred = {}
  BY <1>6, <1>7, <1>9, <1>10 DEF RspList
<1>12. ASSUME NEW i \in 1 .. Len(s), NEW j \in 1 .. Len(s), i # j
       PROVE  pathLinkIds(g, s[i].nodes) \cap pathLinkIds(g, s[j].nodes) = {}
  <2>1. CASE i \in 1 .. Len(r) /\ j \in 1 .. Len(r)
    BY <2>1, <1>9, <1>12 DEF RspList
  <2>2. CASE i \in 1 .. Len(r) /\ j = Len(r) + 1
    BY <2>2, <1>4, <1>6, <1>9
  <2>3. CASE j \in 1 .. Len(r) /\ i = Len(r) + 1
    BY <2>3, <1>4, <1>6, <1>9
  <2> QED
    BY <2>1, <2>2, <2>3, <1>10, <1>12
<1> QED
  BY <1>9, <1>11, <1>12 DEF RspList

LEMMA RspsAre ==
  ASSUME NEW n \in Nat, NEW g, Network(g, n), NEW src \in 0 .. n - 1, NEW dsts \in Seq(0 .. n - 1),
         NEW D \in SUBSET (0 .. n - 1), \A i \in 1 .. Len(dsts) : dsts[i] \in D, NEW barred, NEW max,
         NEW c, c.beta \in Nat
  PROVE  RspList(genRedundantSubPaths(g, src, dsts, barred, c, max), g, n, src, D, barred)
<1> DEFINE m == c.beta
           s0 == <<>>
           good == {r \in Seq(RspRecords(n)) : RspList(r, g, n, src, D, barred)}
           step(r, i) == oneMore(g, src, dsts, barred, max, r)
           stage == [i \in 0 .. m |-> good]
           F == [i \in 1 .. m |-> [o \in stage[i - 1] |-> step(o, i)]]
           a == CHOOSE f : f = [i \in 0 .. m |-> IF i = 0 THEN s0 ELSE step(f[i - 1], i)]
<1>1. m \in Nat
  OBVIOUS
<1>2. s0 \in good
  <2>1. s0 \in Seq(RspRecords(n)) /\ Len(s0) = 0
    OBVIOUS
  <2> HIDE DEF s0
  <2>2. 1 .. Len(s0) = {}
    BY <2>1
  <2>3. RspList(s0, g, n, src, D, barred)
    BY <2>1, <2>2 DEF RspList
  <2> QED
    BY <2>1, <2>3
<1>3. ASSUME NEW r \in good, NEW i PROVE step(r, i) \in good
  <2>1. RspList(step(r, i), g, n, src, D, barred)
    BY OneMoreKeeps
  <2> HIDE DEF step
  <2>2. step(r, i) \in Seq(RspRecords(n))
    BY <2>1 DEF RspList
  <2> QED
    BY <2>1, <2>2
<1> HIDE DEF good
<1>4. s0 \in stage[0]
  BY <1>1, <1>2
<1>5. \A i \in 1 .. m : \A r \in stage[i - 1] : step(r, i) \in stage[i]
  <2> HIDE DEF step
  <2> QED
    BY <1>1, <1>3
<1> HIDE DEF m, s0, step, stage
<1>20. \A i \in 1 .. m : F[i] \in [stage[i - 1] -> stage[i]]
  BY <1>5
<1>21. PICK f : IsTrace(f, m) /\ IsRun(f, m, s0, F, stage)
  <2> HIDE DEF F
  <2> QED
    BY <1>1, <1>4, <1>20, RunExists
<1>22. f = [i \in 0 .. m |-> IF i = 0 THEN s0 ELSE step(f[i - 1], i)]
  <2>1. ASSUME NEW i \in 1 .. m PROVE f[i] = step(f[i - 1], i)
    <3>1. i - 1 \in 0 .. m /\ f[i] = F[i][f[i - 1]] /\ f[i - 1] \in stage[i - 1]
      <4> HIDE DEF F
      <4>1. i - 1 \in 0 .. m
        BY <1>1
      <4> QED
        BY <4>1, <1>21 DEF IsRun
    <3> QED
      BY <3>1
  <2>2. f[0] = s0
    BY <1>21 DEF IsRun
  <2>3. \A i \in 0 .. m : f[i] = IF i = 0 THEN s0 ELSE step(f[i - 1], i)
    BY <1>1, <2>1, <2>2
  <2> QED
    BY <1>21, <2>3 DEF IsTrace
<1>23. a = [i \in 0 .. m |-> IF i = 0 THEN s0 ELSE step(a[i - 1], i)]
  BY <1>22
<1> HIDE DEF a, F
<1>24. a[m] \in stage[m]
  <2>1. ASSUME NEW i \in 1 .. m, a[i - 1] \in stage[i - 1] PROVE a[i] \in stage[i]
    <3>1. a[i] = step(a[i - 1], i)
      BY <1>1, <1>23
    <3> QED
      BY <2>1, <3>1, <1>5
  <2>2. a[0] \in stage[0]
    BY <1>1, <1>4, <1>23
  <2>3. \A i \in 0 .. m : a[i] \in stage[i]
    BY <1>1, <2>1, <2>2, RunStays
  <2> QED
    BY <1>1, <2>3
<1>6. genRedundantSubPaths(g, src, dsts, barred, c, max) = a[m]
  BY DEF genRedundantSubPaths, Loop, a, step, s0, m
<1>7. a[m] \in good
  BY <1>1, <1>24 DEF stage
<1> QED
  BY <1>6, <1>7 DEF good

-----------------------------------------------------------------------------
(* The search for the primary paths. *)

\* The delay of a node is none of a way to it too small.
LEMMA MaxDelayIs ==
  ASSUME NEW n \in Nat, maxDelays \in [0 .. n - 1 -> Int], NEW u \in 0 .. n - 1,
         NEW rsps \in Seq(RspRecords(n)), \A j \in 1 .. Len(rsps) : last(rsps[j].nodes) \in 0 .. n - 1
  PROVE  /\ rrMaxDelay(u, rsps) \in Int /\ rrMaxDelay(u, rsps) >= maxDelays[u] + 1
         /\ \A j \in 1 .. Len(rsps) : rrMaxDelay(u, rsps) >= rsps[j].linkDownDelay + maxDelays[last(rsps[j].nodes)]
<1> DEFINE m == Len(rsps)
           via(j) == rsps[j].linkDownDelay + maxDelays[last(rsps[j].nodes)]
           s0 == maxDelays[u] + 1
           step(d, i) == IF via(i) > d THEN via(i) ELSE d
           stage == [i \in 0 .. m |-> {d \in Int : d >= s0 /\ \A j \in 1 .. i : d >= via(j)}]
           F == [i \in 1 .. m |-> [o \in stage[i - 1] |-> step(o, i)]]
           a == CHOOSE f : f = [i \in 0 .. m |-> IF i = 0 THEN s0 ELSE step(f[i - 1], i)]
<1>1. m \in Nat /\ s0 \in Int /\ \A j \in 1 .. m : via(j) \in Int
  <2>1. m \in Nat /\ s0 \in Int
    OBVIOUS
  <2>2. ASSUME NEW j \in 1 .. m PROVE via(j) \in Int
    <3>1. rsps[j] \in RspRecords(n) /\ maxDelays[last(rsps[j].nodes)] \in Int
      OBVIOUS
    <3> QED
      BY SMTT(60), <3>1 DEF RspRecords
  <2> QED
    BY <2>1, <2>2
<1> HIDE DEF m, via, s0
<1>2. s0 \in stage[0]
  BY <1>1
<1>3. \A i \in 1 .. m : \A d \in stage[i - 1] : step(d, i) \in stage[i]
  <2> SUFFICES ASSUME NEW i \in 1 .. m, NEW d \in stage[i - 1] PROVE step(d, i) \in stage[i]
    OBVIOUS
  <2>1. i - 1 \in 0 .. m /\ i \in 0 .. m /\ via(i) \in Int
    BY <1>1
  <2>2. d \in Int /\ d >= s0 /\ \A j \in 1 .. i - 1 : d >= via(j)
    BY <2>1
  <2>3. \A j \in 1 .. i : j = i \/ j \in 1 .. i - 1
    BY <2>1
  <2>4. step(d, i) \in Int /\ step(d, i) >= d /\ step(d, i) >= via(i)
    BY <2>1, <2>2
  <2> HIDE DEF step
  <2>5. \A j \in 1 .. i : via(j) \in Int
    BY <1>1
  <2>6. step(d, i) >= s0 /\ \A j \in 1 .. i : step(d, i) >= via(j)
    BY SMTT(60), <2>1, <2>2, <2>3, <2>4, <2>5, <1>1
  <2> QED
    BY <2>1, <2>4, <2>6
<1> HIDE DEF s0, step, stage
<1>20. \A i \in 1 .. m : F[i] \in [stage[i - 1] -> stage[i]]
  BY <1>3
<1>21. PICK f : IsTrace(f, m) /\ IsRun(f, m, s0, F, stage)
  <2> HIDE DEF F
  <2> QED
    BY <1>1, <1>2, <1>20, RunExists
<1>22. f = [i \in 0 .. m |-> IF i = 0 THEN s0 ELSE step(f[i - 1], i)]
  <2>1. ASSUME NEW i \in 1 .. m PROVE f[i] = step(f[i - 1], i)
    <3>1. i - 1 \in 0 .. m /\ f[i] = F[i][f[i - 1]] /\ f[i - 1] \in stage[i - 1]
      <4> HIDE DEF F
      <4>1. i - 1 \in 0 .. m
        BY <1>1
      <4> QED
        BY <4>1, <1>21 DEF IsRun
    <3> QED
      BY <3>1
  <2>2. f[0] = s0
    BY <1>21 DEF IsRun
  <2>3. \A i \in 0 .. m : f[i] = IF i = 0 THEN s0 ELSE step(f[i - 1], i)
    BY <1>1, <2>1, <2>2
  <2> QED
    BY <1>21, <2>3 DEF IsTrace
<1>23. a = [i \in 0 .. m |-> IF i = 0 THEN s0 ELSE step(a[i - 1], i)]
  BY <1>22
<1> HIDE DEF a, F
<1>24. a[m] \in stage[m]
  <2>1. ASSUME NEW i \in 1 .. m, a[i - 1] \in stage[i - 1] PROVE a[i] \in stage[i]
    <3>1. a[i] = step(a[i - 1], i)
      BY <1>1, <1>23
    <3> QED
      BY <2>1, <3>1, <1>3
  <2>2. a[0] \in stage[0]
    BY <1>1, <1>2, <1>23
  <2>3. \A i \in 0 .. m : a[i] \in stage[i]
    BY <1>1, <2>1, <2>2, RunStays
  <2> QED
    BY <1>1, <2>3
<1>5. rrMaxDelay(u, rsps) = a[m]
  BY DEF rrMaxDelay, Loop, a, step, s0, via, m
<1>6. a[m] \in Int /\ a[m] >= s0 /\ \A j \in 1 .. m : a[m] >= via(j)
  BY <1>1, <1>24 DEF stage
<1> QED
  BY <1>5, <1>6 DEF m, s0, via

LEMMA LossRateIs ==
  ASSUME NEW n \in Nat, rerouteLossRates \in [0 .. n - 1 -> Int], NEW u \in 0 .. n - 1, NEW e, e.relia \in Int,
         NEW rsps \in Seq(RspRecords(n)), \A j \in 1 .. Len(rsps) : last(rsps[j].nodes) \in 0 .. n - 1
  PROVE  rerouteLossRate(u, e, rsps) \in Int
<1> DEFINE m == Len(rsps)
           viaLoss(j) == One - mul(One - rsps[j].lossRate, One - rerouteLossRates[last(rsps[j].nodes)])
           s0 == One - mul(One - rerouteLossRates[u], e.relia)
           step(r, i) == mul(r, viaLoss(i))
           stage == [i \in 0 .. m |-> Int]
           F == [i \in 1 .. m |-> [o \in stage[i - 1] |-> step(o, i)]]
           a == CHOOSE f : f = [i \in 0 .. m |-> IF i = 0 THEN s0 ELSE step(f[i - 1], i)]
<1>1. m \in Nat /\ s0 \in Int /\ \A j \in 1 .. m : viaLoss(j) \in Int
  <2>0. One \in Int
    BY DEF One
  <2>1. s0 \in Int
    <3>1. One - rerouteLossRates[u] \in Int
      BY <2>0
    <3>2. mul(One - rerouteLossRates[u], e.relia) \in Int
      BY <3>1, Products
    <3> QED
      BY <3>2, <2>0
  <2>2. ASSUME NEW j \in 1 .. m PROVE viaLoss(j) \in Int
    <3>1. rsps[j] \in RspRecords(n) /\ rerouteLossRates[last(rsps[j].nodes)] \in Int
      OBVIOUS
    <3>2. rsps[j].lossRate \in Int
      BY <3>1 DEF RspRecords
    <3>3. One - rsps[j].lossRate \in Int /\ One - rerouteLossRates[last(rsps[j].nodes)] \in Int
      BY <3>1, <3>2, <2>0
    <3>4. mul(One - rsps[j].lossRate, One - rerouteLossRates[last(rsps[j].nodes)]) \in Int
      BY <3>3, Products
    <3> QED
      BY <3>4, <2>0
  <2> QED
    BY <2>1, <2>2
<1> HIDE DEF m, viaLoss, s0
<1>2. s0 \in stage[0]
  BY <1>1
<1>3. \A i \in 1 .. m : \A r \in stage[i - 1] : step(r, i) \in stage[i]
  <2> SUFFICES ASSUME NEW i \in 1 .. m, NEW r \in stage[i - 1] PROVE step(r, i) \in stage[i]
    OBVIOUS
  <2>1. i - 1 \in 0 .. m /\ i \in 0 .. m
    BY <1>1
  <2>2. step(r, i) \in Int
    BY <2>1, <1>1, Products
  <2> HIDE DEF step
  <2> QED
    BY <2>1, <2>2
<1> HIDE DEF s0, step, stage
<1>20. \A i \in 1 .. m : F[i] \in [stage[i - 1] -> stage[i]]
  BY <1>3
<1>21. PICK f : IsTrace(f, m) /\ IsRun(f, m, s0, F, stage)
  <2> HIDE DEF F
  <2> QED
    BY <1>1, <1>2, <1>20, RunExists
<1>22. f = [i \in 0 .. m |-> IF i = 0 THEN s0 ELSE step(f[i - 1], i)]
  <2>1. ASSUME NEW i \in 1 .. m PROVE f[i] = step(f[i - 1], i)
    <3>1. i - 1 \in 0 .. m /\ f[i] = F[i][f[i - 1]] /\ f[i - 1] \in stage[i - 1]
      <4> HIDE DEF F
      <4>1. i - 1 \in 0 .. m
        BY <1>1
      <4> QED
        BY <4>1, <1>21 DEF IsRun
    <3> QED
      BY <3>1
  <2>2. f[0] = s0
    BY <1>21 DEF IsRun
  <2>3. \A i \in 0 .. m : f[i] = IF i = 0 THEN s0 ELSE step(f[i - 1], i)
    BY <1>1, <2>1, <2>2
  <2> QED
    BY <1>21, <2>3 DEF IsTrace
<1>23. a = [i \in 0 .. m |-> IF i = 0 THEN s0 ELSE step(a[i - 1], i)]
  BY <1>22
<1> HIDE DEF a, F
<1>24. a[m] \in stage[m]
  <2>1. ASSUME NEW i \in 1 .. m, a[i - 1] \in stage[i - 1] PROVE a[i] \in stage[i]
    <3>1. a[i] = step(a[i - 1], i)
      BY <1>1, <1>23
    <3> QED
      BY <2>1, <3>1, <1>3
  <2>2. a[0] \in stage[0]
    BY <1>1, <1>2, <1>23
  <2>3. \A i \in 0 .. m : a[i] \in stage[i]
    BY <1>1, <2>1, <2>2, RunStays
  <2> QED
    BY <1>1, <2>3
<1>5. rerouteLossRate(u, e, rsps) = a[m]
  BY DEF rerouteLossRate, Loop, a, step, s0, viaLoss, m
<1> QED
  BY <1>1, <1>5, <1>24 DEF stage

\* The variables of the search, as a record.
SearchRecs(n) ==
  [q : HeapsOn(0 .. n - 1), isNodeIdInQ : [0 .. n - 1 -> BOOLEAN], primPathRelias : [0 .. n - 1 -> Int],
   rerouteLossRates : [0 .. n - 1 -> Int], maxPrimPathDelays : [0 .. n - 1 -> Int],
   maxDelays : [0 .. n - 1 -> Nat], prevNodeIdx : [0 .. n - 1 -> NodeOrNull(0 .. n - 1)],
   rspsMap : [0 .. n - 1 -> Seq(RspRecords(n))]]

pathOf(s, u) == convertPrevArrayToPathNodeIdsArray(s.prevNodeIdx, Producer, u)
barredFor(s, g, w, x) == pathLinkIds(g, pathOf(s, w)) \cup {linkIdOf(g, w, x)}
NodesOf(p) == {p[i] : i \in 1 .. Len(p)}

\* The RSPs of x that were found when w became the node before it.
FreshRsps(s, g, c, w, x) ==
  genRedundantSubPaths(g, x, pathOf(s, w), barredFor(s, g, w, x), c, c.maxPathDelay - s.maxDelays[w] - 1)

\* The delay of x bounds those of the ways to it; without new RSPs it keeps its old ones.
Fits(s, rsps, w, x) ==
  /\ s.maxDelays[x] >= s.maxDelays[w] + 1
  /\ \A j \in 1 .. Len(rsps) : s.maxDelays[x] >= rsps[j].linkDownDelay + s.maxDelays[last(rsps[j].nodes)]

Fitted(s, g, c, w, x) ==
  /\ Fits(s, FreshRsps(s, g, c, w, x), w, x)
  /\ FreshRsps(s, g, c, w, x) # <<>> => s.rspsMap[x] = FreshRsps(s, g, c, w, x)

AllFitted(s, g, c, Id) == \A x \in Id : s.prevNodeIdx[x] # NULL => Fitted(s, g, c, s.prevNodeIdx[x], x)

\* The nodes reached are the producer and those with a node before them.
ReachedOut(s, g, Id) ==
  /\ s.prevNodeIdx[Producer] = NULL
  /\ \A x \in Id : s.prevNodeIdx[x] # NULL => Hop(g, s.prevNodeIdx[x], x, {}) /\ s.q.key[s.prevNodeIdx[x]] # -One
  /\ \A x \in Id : -One <= s.q.key[x] /\ (s.q.key[x] # -One => x = Producer \/ s.prevNodeIdx[x] # NULL)

RspsArePaths(m, g, n) == \A x \in 0 .. n - 1 : \A j \in 1 .. Len(m[x]) : IsPath(m[x][j].nodes, g, n, {})

SearchInv(s, g, n, c) ==
  /\ s \in SearchRecs(n)
  /\ HeapInv(s.q, Queued(s.isNodeIdInQ, 0 .. n - 1), 0 .. n - 1)
  /\ Ranked(s.prevNodeIdx, s.isNodeIdInQ, 0 .. n - 1)
  /\ ReachedOut(s, g, 0 .. n - 1)
  /\ AllFitted(s, g, c, 0 .. n - 1)
  /\ RspsArePaths(s.rspsMap, g, n)

LEMMA RecFields ==
  ASSUME NEW n, NEW s \in SearchRecs(n)
  PROVE  /\ s.q \in HeapsOn(0 .. n - 1) /\ s.isNodeIdInQ \in [0 .. n - 1 -> BOOLEAN]
         /\ s.primPathRelias \in [0 .. n - 1 -> Int] /\ s.rerouteLossRates \in [0 .. n - 1 -> Int]
         /\ s.maxPrimPathDelays \in [0 .. n - 1 -> Int] /\ s.maxDelays \in [0 .. n - 1 -> Nat]
         /\ s.prevNodeIdx \in [0 .. n - 1 -> NodeOrNull(0 .. n - 1)]
         /\ s.rspsMap \in [0 .. n - 1 -> Seq(RspRecords(n))] /\ s.q.key \in [0 .. n - 1 -> Int]
<1>1. /\ s.q \in HeapsOn(0 .. n - 1) /\ s.isNodeIdInQ \in [0 .. n - 1 -> BOOLEAN]
      /\ s.primPathRelias \in [0 .. n - 1 -> Int] /\ s.rerouteLossRates \in [0 .. n - 1 -> Int]
      /\ s.maxPrimPathDelays \in [0 .. n - 1 -> Int] /\ s.maxDelays \in [0 .. n - 1 -> Nat]
      /\ s.prevNodeIdx \in [0 .. n - 1 -> NodeOrNull(0 .. n - 1)]
      /\ s.rspsMap \in [0 .. n - 1 -> Seq(RspRecords(n))]
  BY DEF SearchRecs
<1> QED
  BY <1>1, HeapFields

LEMMA IdsBelow ==
  ASSUME NEW n \in Nat
  PROVE  Ids(0 .. n - 1) /\ NULL \notin 0 .. n - 1
<1>1. 0 \in Int /\ n - 1 \in Int /\ 0 .. n - 1 \subseteq Nat
  OBVIOUS
<1>2. NULL \notin 0 .. n - 1
  BY DEF NULL
<1> QED
  BY <1>1, <1>2, FS_Interval DEF Ids

\* What the RSPs of x are: detours to the nodes of the path to w.
LEMMA FreshAre ==
  ASSUME NEW n \in Nat, NEW g, Network(g, n), NEW s \in SearchRecs(n), Ranked(s.prevNodeIdx, s.isNodeIdInQ, 0 .. n - 1),
         NEW c, c.beta \in Nat, NEW w \in 0 .. n - 1, NEW x \in 0 .. n - 1
  PROVE  /\ RspList(FreshRsps(s, g, c, w, x), g, n, x, NodesOf(pathOf(s, w)), barredFor(s, g, w, x))
         /\ NodesOf(pathOf(s, w)) \in SUBSET (0 .. n - 1)
<1> DEFINE p == pathOf(s, w)
           D == NodesOf(p)
           Id == 0 .. n - 1
           barred == barredFor(s, g, w, x)
           max == c.maxPathDelay - s.maxDelays[w] - 1
<1>1. p \in Seq(Id)
  <2>1. s.prevNodeIdx \in [Id -> NodeOrNull(Id)] /\ Ids(Id)
    BY RecFields, IdsBelow
  <2>2. p = convertPrevArrayToPathNodeIdsArray(s.prevNodeIdx, Producer, w)
    BY DEF pathOf
  <2> HIDE DEF p, Id
  <2>3. Ranked(s.prevNodeIdx, s.isNodeIdInQ, Id) /\ w \in Id
    BY DEF Id
  <2>4. Trail(p, s.prevNodeIdx, Producer, w, Id)
    BY <2>1, <2>2, <2>3, PathIs
  <2> QED
    BY <2>4 DEF Trail
<1>2. FreshRsps(s, g, c, w, x) = genRedundantSubPaths(g, x, p, barred, c, max)
  BY DEF FreshRsps
<1> HIDE DEF p, barred, max
<1>3. D \in SUBSET Id /\ \A i \in 1 .. Len(p) : p[i] \in D
  BY SMTT(60), <1>1 DEF NodesOf
<1> HIDE DEF D
<1>4. RspList(genRedundantSubPaths(g, x, p, barred, c, max), g, n, x, D, barred)
  BY <1>1, <1>3, RspsAre
<1> QED
  BY <1>2, <1>3, <1>4 DEF D, p, barred

\* The last nodes of these have left the queue.
LEMMA FreshLeft ==
  ASSUME NEW n \in Nat, NEW g, Network(g, n), NEW s \in SearchRecs(n), Ranked(s.prevNodeIdx, s.isNodeIdInQ, 0 .. n - 1),
         NEW c, c.beta \in Nat, NEW w \in 0 .. n - 1, ~s.isNodeIdInQ[w], NEW x \in 0 .. n - 1
  PROVE  /\ FreshRsps(s, g, c, w, x) \in Seq(RspRecords(n))
         /\ \A j \in 1 .. Len(FreshRsps(s, g, c, w, x)) :
              /\ last(FreshRsps(s, g, c, w, x)[j].nodes) \in 0 .. n - 1
              /\ ~s.isNodeIdInQ[last(FreshRsps(s, g, c, w, x)[j].nodes)]
              /\ IsPath(FreshRsps(s, g, c, w, x)[j].nodes, g, n, {})
<1> DEFINE p == pathOf(s, w)
           D == NodesOf(p)
           Id == 0 .. n - 1
           r == FreshRsps(s, g, c, w, x)
           barred == barredFor(s, g, w, x)
<1>1. RspList(r, g, n, x, D, barred) /\ D \in SUBSET Id
  BY FreshAre
<1>2. ASSUME NEW y \in D PROVE ~s.isNodeIdInQ[y]
  <2>1. s.prevNodeIdx \in [Id -> NodeOrNull(Id)] /\ Ids(Id)
    BY RecFields, IdsBelow
  <2>2. p = convertPrevArrayToPathNodeIdsArray(s.prevNodeIdx, Producer, w)
    BY DEF pathOf
  <2> HIDE DEF p, Id
  <2>3. Ranked(s.prevNodeIdx, s.isNodeIdInQ, Id) /\ w \in Id
    BY DEF Id
  <2>4. Trail(p, s.prevNodeIdx, Producer, w, Id)
    BY <2>1, <2>2, <2>3, PathIs
  <2>5. \A i \in 1 .. Len(p) - 1 : ~s.isNodeIdInQ[p[i]]
    BY <2>1, <2>3, <2>4, TrailClimbs
  <2>6. Len(p) \in Nat /\ p[Len(p)] = w
    BY <2>4 DEF Trail
  <2>7. PICK i \in 1 .. Len(p) : y = p[i]
    BY DEF NodesOf
  <2>8. i = Len(p) \/ i \in 1 .. Len(p) - 1
    BY <2>6
  <2> QED
    BY <2>5, <2>6, <2>7, <2>8
<1> HIDE DEF r, D, barred
<1>3. r \in Seq(RspRecords(n))
  BY <1>1 DEF RspList
<1>4. ASSUME NEW j \in 1 .. Len(r)
      PROVE  last(r[j].nodes) \in Id /\ ~s.isNodeIdInQ[last(r[j].nodes)] /\ IsPath(r[j].nodes, g, n, {})
  <2>1. Detour(r[j], g, n, x, D, {})
    BY <1>1 DEF RspList
  <2>2. last(r[j].nodes) \in D /\ IsPath(r[j].nodes, g, n, {})
    BY <2>1 DEF Detour, last
  <2> QED
    BY <2>2, <1>1, <1>2
<1> QED
  BY <1>3, <1>4 DEF r

\* A node gets another node before it.
withNode(s, u, v, d, p, l, k, rsps, md) ==
  [s EXCEPT !.maxPrimPathDelays[v] = d, !.primPathRelias[v] = p, !.rerouteLossRates[v] = l,
            !.q = increaseKey(@, v, k), !.rspsMap[v] = IF rsps # <<>> THEN rsps ELSE @,
            !.prevNodeIdx[v] = u, !.maxDelays[v] = md]

WithNode(r, s, u, v, k, rsps, md) ==
  /\ r.q = increaseKey(s.q, v, k) /\ r.isNodeIdInQ = s.isNodeIdInQ
  /\ r.rspsMap = [s.rspsMap EXCEPT ![v] = IF rsps # <<>> THEN rsps ELSE s.rspsMap[v]]
  /\ r.prevNodeIdx = [s.prevNodeIdx EXCEPT ![v] = u] /\ r.maxDelays = [s.maxDelays EXCEPT ![v] = md]

LEMMA WithNodeIs ==
  ASSUME NEW n, NEW s \in SearchRecs(n), NEW u \in 0 .. n - 1, NEW v \in 0 .. n - 1,
         NEW d \in Int, NEW p \in Int, NEW l \in Int, NEW k, increaseKey(s.q, v, k) \in HeapsOn(0 .. n - 1),
         NEW rsps \in Seq(RspRecords(n)), NEW md \in Nat
  PROVE  /\ withNode(s, u, v, d, p, l, k, rsps, md) \in SearchRecs(n)
         /\ WithNode(withNode(s, u, v, d, p, l, k, rsps, md), s, u, v, k, rsps, md)
<1> DEFINE h == increaseKey(s.q, v, k)
           r == withNode(s, u, v, d, p, l, k, rsps, md)
           Id == 0 .. n - 1
           D == [s.maxPrimPathDelays EXCEPT ![v] = d]
           P == [s.primPathRelias EXCEPT ![v] = p]
           L == [s.rerouteLossRates EXCEPT ![v] = l]
           R == [s.rspsMap EXCEPT ![v] = IF rsps # <<>> THEN rsps ELSE s.rspsMap[v]]
           V == [s.prevNodeIdx EXCEPT ![v] = u]
           M == [s.maxDelays EXCEPT ![v] = md]
<1>1. r = [s EXCEPT !.maxPrimPathDelays = D, !.primPathRelias = P, !.rerouteLossRates = L,
                    !.q = h, !.rspsMap = R, !.prevNodeIdx = V, !.maxDelays = M]
  BY DEF withNode
<1>2. h \in HeapsOn(Id)
  OBVIOUS
<1>3. u \in NodeOrNull(Id)
  BY DEF NodeOrNull
<1>4. /\ D \in [Id -> Int] /\ P \in [Id -> Int] /\ L \in [Id -> Int] /\ M \in [Id -> Nat]
      /\ s.isNodeIdInQ \in [Id -> BOOLEAN]
  BY RecFields
<1>5. V \in [Id -> NodeOrNull(Id)]
  BY <1>3, RecFields
<1>6. R \in [Id -> Seq(RspRecords(n))]
  <2> DEFINE S == Seq(RspRecords(n))
             m == s.rspsMap
             z == IF rsps # <<>> THEN rsps ELSE m[v]
  <2>1. m \in [Id -> S] /\ rsps \in S
    BY RecFields
  <2> HIDE DEF S, m
  <2>2. z \in S
    BY <2>1
  <2> HIDE DEF z
  <2>3. [m EXCEPT ![v] = z] \in [Id -> S]
    BY <2>1, <2>2
  <2> QED
    BY <2>3 DEF S, m, z
<1> HIDE DEF D, P, L, R, V, M, h, r
<1>7. r = [q |-> h, isNodeIdInQ |-> s.isNodeIdInQ, primPathRelias |-> P, rerouteLossRates |-> L,
           maxPrimPathDelays |-> D, maxDelays |-> M, prevNodeIdx |-> V, rspsMap |-> R]
  BY <1>1 DEF SearchRecs
<1>8. r \in SearchRecs(n)
  BY <1>2, <1>4, <1>5, <1>6, <1>7 DEF SearchRecs
<1>9. r.q = h /\ r.isNodeIdInQ = s.isNodeIdInQ /\ r.rspsMap = R /\ r.prevNodeIdx = V /\ r.maxDelays = M
  BY <1>7
<1> QED
  BY <1>8, <1>9 DEF WithNode, h, R, V, M, r

\* s is a state of the search while u, which has just left, is relaxed: what
\* has left the queue has the values of the variables.
Aside(s, inQ, Id) == \A x \in Id : ~inQ[x] => s.prevNodeIdx[x] = prevNodeIdx[x] /\ s.maxDelays[x] = maxDelays[x]

Relaxing(s, inQ, u, n) ==
  /\ SearchInv(s, graph, n, config) /\ s.isNodeIdInQ = inQ
  /\ Aside(s, inQ, 0 .. n - 1) /\ s.q.key[u] # -One

\* What holds of the variables then.
Underway(inQ, u, n) ==
  /\ Network(graph, n) /\ config.beta \in Nat /\ config.maxPathDelay \in Int
  /\ Producer \in 0 .. n - 1 /\ u \in 0 .. n - 1 /\ inQ \in [0 .. n - 1 -> BOOLEAN] /\ ~inQ[u] /\ ~inQ[Producer]
  /\ prevNodeIdx \in [0 .. n - 1 -> NodeOrNull(0 .. n - 1)] /\ Ranked(prevNodeIdx, inQ, 0 .. n - 1)
  /\ primPathRelias \in [0 .. n - 1 -> Int] /\ rerouteLossRates \in [0 .. n - 1 -> Int]
  /\ maxPrimPathDelays \in [0 .. n - 1 -> Int] /\ maxDelays \in [0 .. n - 1 -> Nat]

\* The RSPs that v has with u before it.
LEMMA RspsOfAre ==
  ASSUME NEW n \in Nat, NEW inQ, NEW u, Underway(inQ, u, n), NEW s, Relaxing(s, inQ, u, n),
         NEW v \in 0 .. n - 1, inQ[v], NEW e, IsLinkOf(graph, u, e), getLinkOpSide(e, u) = v
  PROVE  /\ rspsOf(u, v, e) = FreshRsps(s, graph, config, u, v)
         /\ e.linkId = linkIdOf(graph, u, v)
<1> DEFINE Id == 0 .. n - 1
<1>1. s.prevNodeIdx \in [Id -> NodeOrNull(Id)] /\ Ranked(s.prevNodeIdx, inQ, Id) /\ Ids(Id) /\ u \in Id /\ ~inQ[u]
  BY RecFields, IdsBelow DEF Relaxing, SearchInv, Underway
<1>2. pathTo(u) = pathOf(s, u)
  <2> HIDE DEF Id
  <2>1. prevNodeIdx \in [Id -> NodeOrNull(Id)] /\ Ranked(prevNodeIdx, inQ, Id)
    BY DEF Underway, Id
  <2>2. \A x \in Id : ~inQ[x] => s.prevNodeIdx[x] = prevNodeIdx[x]
    BY DEF Relaxing, Aside, Id
  <2>3. convertPrevArrayToPathNodeIdsArray(s.prevNodeIdx, Producer, u)
          = convertPrevArrayToPathNodeIdsArray(prevNodeIdx, Producer, u)
    BY <1>1, <2>1, <2>2, PathStays
  <2> QED
    BY <2>3 DEF pathTo, pathOf
<1>3. s.maxDelays[u] = maxDelays[u]
  BY <1>1 DEF Relaxing, Aside
<1>4. e.linkId = linkIdOf(graph, u, v)
  <2>1. u # v /\ Network(graph, n) /\ u \in 0 .. n
    BY <1>1 DEF Underway
  <2>2. v \in {e.a, e.b}
    BY DEF getLinkOpSide
  <2>3. getLinkByNodeIds(graph, u, v) = e /\ linkIdOf(graph, u, v) = e.linkId
    BY <2>1, <2>2, <1>1, LinkBetween
  <2> QED
    BY <2>3
<1> QED
  BY <1>2, <1>3, <1>4 DEF rspsOf, FreshRsps, barredFor

Agree(Id, w, P, P2, inQ, inQ2) ==
  Ranked(P, inQ, Id) /\ Ranked(P2, inQ2, Id) /\ ~inQ[w] /\ (\A x \in Id : ~inQ[x] => P2[x] = P[x])
    => convertPrevArrayToPathNodeIdsArray(P2, Producer, w) = convertPrevArrayToPathNodeIdsArray(P, Producer, w)

LEMMA PathsAgree ==
  ASSUME NEW Id, Ids(Id), NEW w \in Id, NEW inQ, NEW inQ2, NEW P \in [Id -> NodeOrNull(Id)], NEW P2 \in [Id -> NodeOrNull(Id)]
  PROVE  Agree(Id, w, P, P2, inQ, inQ2)
BY PathStays DEF Agree

\* What a node was found with stays when a node in the queue gets another one before it.
LEMMA FittedStays ==
  ASSUME NEW n \in Nat, NEW g, Network(g, n), NEW c, c.beta \in Nat,
         NEW s \in SearchRecs(n), NEW r \in SearchRecs(n), r.isNodeIdInQ = s.isNodeIdInQ,
         Ranked(s.prevNodeIdx, s.isNodeIdInQ, 0 .. n - 1), Ranked(r.prevNodeIdx, r.isNodeIdInQ, 0 .. n - 1),
         \A x \in 0 .. n - 1 : ~s.isNodeIdInQ[x] => r.prevNodeIdx[x] = s.prevNodeIdx[x] /\ r.maxDelays[x] = s.maxDelays[x],
         NEW w \in 0 .. n - 1, ~s.isNodeIdInQ[w], NEW x \in 0 .. n - 1
  PROVE  /\ FreshRsps(r, g, c, w, x) = FreshRsps(s, g, c, w, x)
         /\ r.maxDelays[x] = s.maxDelays[x] /\ r.rspsMap[x] = s.rspsMap[x] /\ Fitted(s, g, c, w, x)
              => Fitted(r, g, c, w, x)
<1> DEFINE Id == 0 .. n - 1
           fresh == FreshRsps(s, g, c, w, x)
<1>1. Ids(Id) /\ s.prevNodeIdx \in [Id -> NodeOrNull(Id)] /\ r.prevNodeIdx \in [Id -> NodeOrNull(Id)] /\ w \in Id
  BY RecFields, IdsBelow
<1>2. pathOf(r, w) = pathOf(s, w)
  <2> HIDE DEF Id
  <2>1. Ranked(s.prevNodeIdx, s.isNodeIdInQ, Id) /\ Ranked(r.prevNodeIdx, r.isNodeIdInQ, Id)
    BY DEF Id
  <2>2. \A y \in Id : ~s.isNodeIdInQ[y] => r.prevNodeIdx[y] = s.prevNodeIdx[y]
    BY DEF Id
  <2>4. convertPrevArrayToPathNodeIdsArray(r.prevNodeIdx, Producer, w)
          = convertPrevArrayToPathNodeIdsArray(s.prevNodeIdx, Producer, w)
    <3>1. Agree(Id, w, s.prevNodeIdx, r.prevNodeIdx, s.isNodeIdInQ, r.isNodeIdInQ)
      BY <1>1, PathsAgree
    <3> QED
      BY <1>1, <2>1, <2>2, <3>1 DEF Agree
  <2> QED
    BY <2>4 DEF pathOf
<1>3. r.maxDelays[w] = s.maxDelays[w]
  OBVIOUS
<1>4. FreshRsps(r, g, c, w, x) = fresh
  BY <1>2, <1>3 DEF FreshRsps, barredFor
<1>5. \A j \in 1 .. Len(fresh) : last(fresh[j].nodes) \in Id /\ ~s.isNodeIdInQ[last(fresh[j].nodes)]
  BY FreshLeft
<1> HIDE DEF fresh
<1>6. \A j \in 1 .. Len(fresh) : r.maxDelays[last(fresh[j].nodes)] = s.maxDelays[last(fresh[j].nodes)]
  BY <1>5
<1>7. ASSUME r.maxDelays[x] = s.maxDelays[x], r.rspsMap[x] = s.rspsMap[x], Fitted(s, g, c, w, x)
      PROVE  Fitted(r, g, c, w, x)
  <2>1. Fits(s, fresh, w, x) /\ (fresh # <<>> => s.rspsMap[x] = fresh)
    BY <1>7 DEF Fitted, fresh
  <2>2. Fits(r, fresh, w, x)
    BY <2>1, <1>3, <1>6, <1>7 DEF Fits
  <2> QED
    BY <2>1, <2>2, <1>4, <1>7 DEF Fitted
<1> QED
  BY <1>4, <1>7 DEF fresh

LEMMA RelaxLinkKeeps ==
  ASSUME NEW n \in Nat, NEW inQ, NEW u, Underway(inQ, u, n), NEW s, Relaxing(s, inQ, u, n), NEW e, IsLinkOf(graph, u, e)
  PROVE  Relaxing(relaxLink(s, u, e), inQ, u, n)
<1> DEFINE Id == 0 .. n - 1
           v == getLinkOpSide(e, u)
           rsps == rspsOf(u, v, e)
           d == maxPrimPathDelays[u] + 1
           relia == mul(primPathRelias[u], e.relia)
           reroute == rerouteLossRate(u, e, rsps)
           overall == mul(alpha, One - relia) + mul(One - alpha, reroute)
           k == -overall
           md == rrMaxDelay(u, rsps)
           stays == \/ ~s.isNodeIdInQ[v]
                    \/ d > config.maxPathDelay
                    \/ overall >= -s.q.key[v]
           r == withNode(s, u, v, d, relia, reroute, k, rsps, md)
<1>1. relaxLink(s, u, e) = IF stays THEN s ELSE r
  BY DEF relaxLink, relaxNode, withNode
<1>2. SUFFICES ASSUME ~stays PROVE Relaxing(r, inQ, u, n)
  BY <1>1
<1>3. /\ SearchInv(s, graph, n, config) /\ s.isNodeIdInQ = inQ /\ Aside(s, inQ, Id) /\ s.q.key[u] # -One
      /\ Network(graph, n) /\ config.beta \in Nat /\ u \in Id /\ u \in 0 .. n /\ Producer \in Id /\ ~inQ[u] /\ ~inQ[Producer]
      /\ inQ \in [Id -> BOOLEAN] /\ NULL \notin Id
  <2>1. u \in 0 .. n - 1 => u \in 0 .. n
    OBVIOUS
  <2>2. NULL \notin Id
    BY IdsBelow
  <2> QED
    BY <2>1, <2>2 DEF Relaxing, Underway
<1>4. /\ s \in SearchRecs(n) /\ HeapInv(s.q, Queued(inQ, Id), Id) /\ Ranked(s.prevNodeIdx, inQ, Id)
      /\ ReachedOut(s, graph, Id) /\ AllFitted(s, graph, config, Id) /\ RspsArePaths(s.rspsMap, graph, n)
  BY <1>3 DEF SearchInv
<1>5. /\ s.q.key \in [Id -> Int] /\ s.prevNodeIdx \in [Id -> NodeOrNull(Id)] /\ s.maxDelays \in [Id -> Nat]
      /\ s.rspsMap \in [Id -> Seq(RspRecords(n))]
  BY <1>4, RecFields
<1>6. e.relia \in Int /\ v \in Id
  <2>1. GraphOn(graph, n, {})
    BY <1>3 DEF Network
  <2>2. e \in LinkSet(n, {})
    BY <2>1, <1>3, GraphFields
  <2>3. e.relia \in Relias
    BY <2>2, LinkFields
  <2>4. v \in 0 .. n /\ v # n
    BY <2>2, OtherSide
  <2> QED
    BY <2>3, <2>4, Logarithms
<1>7. inQ[v] /\ v # u /\ v # Producer
  BY <1>2, <1>3
<1>8. ~(overall >= -s.q.key[v])
  BY <1>2
<1>80. v = getLinkOpSide(e, u) /\ rsps = rspsOf(u, v, e) /\ md = rrMaxDelay(u, rsps)
  OBVIOUS
<1> HIDE DEF v, stays
<1>9. rsps = FreshRsps(s, graph, config, u, v)
  BY <1>6, <1>7, <1>80, RspsOfAre
<1>10. /\ rsps \in Seq(RspRecords(n))
       /\ \A j \in 1 .. Len(rsps) : last(rsps[j].nodes) \in Id /\ ~inQ[last(rsps[j].nodes)] /\ IsPath(rsps[j].nodes, graph, n, {})
  BY <1>3, <1>4, <1>6, <1>9, FreshLeft
<1> HIDE DEF rsps
<1>11. /\ primPathRelias[u] \in Int /\ d \in Int /\ maxDelays \in [Id -> Nat] /\ rerouteLossRates \in [Id -> Int]
  <2>1. /\ primPathRelias \in [Id -> Int] /\ maxPrimPathDelays \in [Id -> Int] /\ maxDelays \in [Id -> Nat]
        /\ rerouteLossRates \in [Id -> Int] /\ u \in Id
    BY <1>3 DEF Underway
  <2> HIDE DEF Id
  <2>2. primPathRelias[u] \in Int /\ maxPrimPathDelays[u] \in Int
    BY <2>1
  <2>3. d \in Int
    BY <2>2
  <2> QED
    BY <2>1, <2>2, <2>3
<1>12. reroute \in Int
  BY <1>3, <1>6, <1>10, <1>11, LossRateIs
<1>13. md \in Nat /\ md >= maxDelays[u] + 1 /\ \A j \in 1 .. Len(rsps) : md >= rsps[j].linkDownDelay + maxDelays[last(rsps[j].nodes)]
  <2>1. maxDelays \in [Id -> Int] /\ maxDelays[u] \in Nat
    BY <1>3, <1>11
  <2>2. md \in Int /\ md >= maxDelays[u] + 1 /\ \A j \in 1 .. Len(rsps) : md >= rsps[j].linkDownDelay + maxDelays[last(rsps[j].nodes)]
    BY <2>1, <1>3, <1>10, MaxDelayIs
  <2> QED
    BY <2>1, <2>2
<1>14. relia \in Int
  BY <1>6, <1>11, Products
<1> HIDE DEF reroute, relia, md
<1>15. overall \in Int
  <2>1. One \in Int /\ alpha \in Int
    BY DEF One, alpha
  <2>2. One - relia \in Int /\ One - alpha \in Int
    BY <2>1, <1>14
  <2>3. mul(alpha, One - relia) \in Int
    BY <2>1, <2>2, Products
  <2>4. mul(One - alpha, reroute) \in Int
    BY <2>2, <1>12, Products
  <2> QED
    BY <2>3, <2>4
<1> HIDE DEF overall
<1>16. k \in Int /\ s.q.key[v] <= k
  BY <1>5, <1>6, <1>8, <1>15
<1> HIDE DEF k, d, Id
<1>17. HeapInv(increaseKey(s.q, v, k), Queued(inQ, Id), Id) /\ increaseKey(s.q, v, k).key = [s.q.key EXCEPT ![v] = k]
  <2> DEFINE h == s.q
             S == Queued(inQ, Id)
  <2>1. HeapInv(h, S, Id) /\ v \in S /\ h.key[v] <= k
    BY <1>4, <1>6, <1>7, <1>16 DEF Queued
  <2>2. Ids(Id)
    BY IdsBelow DEF Id
  <2> HIDE DEF h, S
  <2>3. HeapInv(increaseKey(h, v, k), S, Id) /\ increaseKey(h, v, k).key = [h.key EXCEPT ![v] = k]
    BY <2>1, <2>2, <1>16, IncreaseKeeps
  <2> QED
    BY <2>3 DEF h, S
<1>18. r \in SearchRecs(n) /\ WithNode(r, s, u, v, k, rsps, md)
  <2>1. increaseKey(s.q, v, k) \in HeapsOn(0 .. n - 1)
    BY <1>17 DEF HeapInv, HeapOn, Id
  <2>2. u \in 0 .. n - 1 /\ v \in 0 .. n - 1
    BY <1>3, <1>6 DEF Id
  <2> QED
    BY <2>1, <2>2, <1>4, <1>10, <1>11, <1>12, <1>13, <1>14, WithNodeIs
<1> HIDE DEF r
<1>19. /\ r.q = increaseKey(s.q, v, k) /\ r.isNodeIdInQ = inQ /\ r.prevNodeIdx[v] = u /\ r.maxDelays[v] = md
       /\ r.rspsMap[v] = IF rsps # <<>> THEN rsps ELSE s.rspsMap[v]
       /\ r.q.key[v] = k /\ r.prevNodeIdx = [s.prevNodeIdx EXCEPT ![v] = u]
       /\ \A x \in Id : x # v => /\ r.prevNodeIdx[x] = s.prevNodeIdx[x] /\ r.maxDelays[x] = s.maxDelays[x]
                                 /\ r.rspsMap[x] = s.rspsMap[x] /\ r.q.key[x] = s.q.key[x]
  <2>1. /\ r.q = increaseKey(s.q, v, k) /\ r.isNodeIdInQ = s.isNodeIdInQ
        /\ r.rspsMap = [s.rspsMap EXCEPT ![v] = IF rsps # <<>> THEN rsps ELSE s.rspsMap[v]]
        /\ r.prevNodeIdx = [s.prevNodeIdx EXCEPT ![v] = u] /\ r.maxDelays = [s.maxDelays EXCEPT ![v] = md]
    BY <1>18 DEF WithNode
  <2>2. r.q.key = [s.q.key EXCEPT ![v] = k]
    BY <2>1, <1>17
  <2> DEFINE K == s.q.key
             M == s.rspsMap
             P == s.prevNodeIdx
             L == s.maxDelays
             z == IF rsps # <<>> THEN rsps ELSE M[v]
  <2>3. /\ r.q.key = [K EXCEPT ![v] = k] /\ r.rspsMap = [M EXCEPT ![v] = z] /\ r.prevNodeIdx = [P EXCEPT ![v] = u]
        /\ r.maxDelays = [L EXCEPT ![v] = md] /\ DOMAIN K = Id /\ DOMAIN M = Id /\ DOMAIN P = Id /\ DOMAIN L = Id
    BY <2>1, <2>2, <1>5
  <2> HIDE DEF K, M, P, L, z
  <2>4. /\ r.q.key[v] = k /\ r.rspsMap[v] = z /\ r.prevNodeIdx[v] = u /\ r.maxDelays[v] = md
        /\ \A x \in Id : x # v => /\ r.prevNodeIdx[x] = P[x] /\ r.maxDelays[x] = L[x]
                                  /\ r.rspsMap[x] = M[x] /\ r.q.key[x] = K[x]
    BY <2>3, <1>6
  <2> QED
    BY <2>1, <2>3, <2>4, <1>3 DEF K, M, P, L, z
<1>20. HeapInv(r.q, Queued(r.isNodeIdInQ, Id), Id)
  BY <1>17, <1>19
<1>21. Ranked(r.prevNodeIdx, r.isNodeIdInQ, Id)
  <2> DEFINE P == s.prevNodeIdx
  <2>1. P \in [Id -> NodeOrNull(Id)] /\ Ranked(P, inQ, Id)
    BY <1>4, <1>5
  <2> HIDE DEF P
  <2>2. Ranked([P EXCEPT ![v] = u], inQ, Id)
    BY <2>1, <1>3, <1>6, <1>7, RankedGrows
  <2> QED
    BY <2>2, <1>19 DEF P
<1>22. \A x \in Id : ~inQ[x] => r.prevNodeIdx[x] = s.prevNodeIdx[x] /\ r.maxDelays[x] = s.maxDelays[x]
  BY <1>7, <1>19
<1>23. ReachedOut(r, graph, Id)
  <2>1. r.prevNodeIdx[Producer] = NULL
    BY <1>3, <1>4, <1>7, <1>19 DEF ReachedOut
  <2>2. ASSUME NEW x \in Id, r.prevNodeIdx[x] # NULL
        PROVE  Hop(graph, r.prevNodeIdx[x], x, {}) /\ r.q.key[r.prevNodeIdx[x]] # -One
    <3>1. CASE x = v
      <4>1. Hop(graph, u, v, {})
        BY <1>80 DEF Hop
      <4> QED
        BY <3>1, <4>1, <1>3, <1>7, <1>19
    <3>2. CASE x # v
      <4>1. s.prevNodeIdx[x] # NULL /\ r.prevNodeIdx[x] = s.prevNodeIdx[x] /\ s.prevNodeIdx[x] \in Id
        BY <3>2, <2>2, <1>5, <1>19 DEF NodeOrNull
      <4>2. ~inQ[s.prevNodeIdx[x]]
        BY <4>1, <1>4, PredecessorsLeft
      <4>3. s.prevNodeIdx[x] # v
        BY <4>2, <1>7
      <4> QED
        BY <4>1, <4>3, <1>4, <1>19 DEF ReachedOut
    <3> QED
      BY <3>1, <3>2
  <2>3. ASSUME NEW x \in Id PROVE -One <= r.q.key[x] /\ (r.q.key[x] # -One => x = Producer \/ r.prevNodeIdx[x] # NULL)
    <3>1. CASE x = v
      <4>1. -One <= s.q.key[v] /\ s.q.key[v] \in Int /\ -One \in Int
        BY <1>4, <1>5, <1>6 DEF ReachedOut, One
      <4>2. -One <= k
        BY <4>1, <1>16
      <4> QED
        BY <3>1, <4>2, <1>3, <1>19
    <3>2. CASE x # v
      BY <3>2, <1>4, <1>19 DEF ReachedOut
    <3> QED
      BY <3>1, <3>2
  <2> QED
    BY <2>1, <2>2, <2>3 DEF ReachedOut
<1>24. ASSUME NEW w \in Id, ~inQ[w], NEW x \in Id
       PROVE  /\ FreshRsps(r, graph, config, w, x) = FreshRsps(s, graph, config, w, x)
              /\ r.maxDelays[x] = s.maxDelays[x] /\ r.rspsMap[x] = s.rspsMap[x] /\ Fitted(s, graph, config, w, x)
                   => Fitted(r, graph, config, w, x)
  <2>1. /\ r.isNodeIdInQ = s.isNodeIdInQ /\ s.isNodeIdInQ = inQ
        /\ Ranked(s.prevNodeIdx, s.isNodeIdInQ, 0 .. n - 1) /\ Ranked(r.prevNodeIdx, r.isNodeIdInQ, 0 .. n - 1)
    BY <1>3, <1>4, <1>19, <1>21 DEF Id
  <2>2. \A y \in 0 .. n - 1 : ~s.isNodeIdInQ[y] => r.prevNodeIdx[y] = s.prevNodeIdx[y] /\ r.maxDelays[y] = s.maxDelays[y]
    BY <2>1, <1>22 DEF Id
  <2>3. w \in 0 .. n - 1 /\ ~s.isNodeIdInQ[w] /\ x \in 0 .. n - 1
    BY <2>1, <1>24 DEF Id
  <2>4. s \in SearchRecs(n) /\ r \in SearchRecs(n) /\ Network(graph, n) /\ config.beta \in Nat
    BY <1>3, <1>4, <1>18
  <2> QED
    BY <2>1, <2>2, <2>3, <2>4, FittedStays
<1>25. AllFitted(r, graph, config, Id)
  <2> SUFFICES ASSUME NEW x \in Id, r.prevNodeIdx[x] # NULL PROVE Fitted(r, graph, config, r.prevNodeIdx[x], x)
    BY DEF AllFitted
  <2>1. CASE x = v
    <3>1. FreshRsps(r, graph, config, u, v) = rsps
      BY <1>3, <1>6, <1>9, <1>24
    <3>2. \A y \in Id : ~inQ[y] => r.maxDelays[y] = maxDelays[y]
      BY <1>3, <1>22 DEF Aside
    <3>3. Fits(r, rsps, u, v)
      BY <3>2, <1>3, <1>10, <1>13, <1>19 DEF Fits
    <3>4. Fitted(r, graph, config, u, v)
      BY <3>1, <3>3, <1>19 DEF Fitted
    <3> QED
      BY <2>1, <3>4, <1>19
  <2>2. CASE x # v
    <3> DEFINE w == s.prevNodeIdx[x]
    <3>1. w # NULL /\ r.prevNodeIdx[x] = w /\ w \in Id
      BY <2>2, <1>5, <1>19 DEF NodeOrNull
    <3>2. ~inQ[w] /\ Fitted(s, graph, config, w, x)
      BY <3>1, <1>4, PredecessorsLeft DEF AllFitted
    <3>3. r.maxDelays[x] = s.maxDelays[x] /\ r.rspsMap[x] = s.rspsMap[x]
      BY <2>2, <1>19
    <3> HIDE DEF w
    <3>4. Fitted(r, graph, config, w, x)
      BY <3>1, <3>2, <3>3, <1>24
    <3> QED
      BY <3>1, <3>4
  <2> QED
    BY <2>1, <2>2
<1>26. RspsArePaths(r.rspsMap, graph, n)
  <2> SUFFICES ASSUME NEW x \in Id, NEW j \in 1 .. Len(r.rspsMap[x]) PROVE IsPath(r.rspsMap[x][j].nodes, graph, n, {})
    BY DEF RspsArePaths, Id
  <2>1. CASE x = v /\ rsps # <<>>
    BY <2>1, <1>10, <1>19
  <2>2. CASE ~(x = v /\ rsps # <<>>)
    <3>1. r.rspsMap[x] = s.rspsMap[x]
      BY <2>2, <1>19
    <3> QED
      BY <3>1, <1>4 DEF RspsArePaths, Id
  <2> QED
    BY <2>1, <2>2
<1>27. SearchInv(r, graph, n, config)
  BY <1>18, <1>20, <1>21, <1>23, <1>25, <1>26 DEF SearchInv, Id
<1>28. Aside(r, inQ, Id) /\ r.q.key[u] # -One
  BY <1>3, <1>7, <1>19, <1>22 DEF Aside
<1> QED
  BY <1>19, <1>27, <1>28 DEF Relaxing, Id

Current ==
  [q |-> q, isNodeIdInQ |-> isNodeIdInQ, primPathRelias |-> primPathRelias, rerouteLossRates |-> rerouteLossRates,
   maxPrimPathDelays |-> maxPrimPathDelays, maxDelays |-> maxDelays, prevNodeIdx |-> prevNodeIdx, rspsMap |-> rspsMap]

\* A node can be removed; as long as the producer is in the queue, it is the only node reached.
Open(s, Id) ==
  /\ s.q.numberOfNodes # 0
  /\ s.isNodeIdInQ[Producer] => s.q.key[Producer] = 0 /\ \A x \in Id : x # Producer => s.q.key[x] = -One

\* The node at the top leaves the queue.
departed(s, u) == [s EXCEPT !.q = removeMax(@), !.isNodeIdInQ[u] = FALSE]

LEMMA DepartedKeeps ==
  ASSUME NEW n \in Nat, NEW g, NEW c, Producer \in 0 .. n - 1, NEW s, SearchInv(s, g, n, c), s.q.numberOfNodes # 0
  PROVE  /\ s.q.maxNode \in 0 .. n - 1 /\ s.isNodeIdInQ[s.q.maxNode]
         /\ SearchInv(departed(s, s.q.maxNode), g, n, c)
         /\ departed(s, s.q.maxNode).isNodeIdInQ = [s.isNodeIdInQ EXCEPT ![s.q.maxNode] = FALSE]
         /\ departed(s, s.q.maxNode).prevNodeIdx = s.prevNodeIdx /\ departed(s, s.q.maxNode).maxDelays = s.maxDelays
         /\ departed(s, s.q.maxNode).q.key = s.q.key
         /\ \A x \in 0 .. n - 1 : s.isNodeIdInQ[x] => s.q.key[x] <= s.q.key[s.q.maxNode]
<1> DEFINE Id == 0 .. n - 1
           h == s.q
           u == h.maxNode
           S == Queued(s.isNodeIdInQ, Id)
           r == departed(s, u)
           inQ2 == [s.isNodeIdInQ EXCEPT ![u] = FALSE]
<1>1. Ids(Id)
  BY IdsBelow
<1>2. /\ s \in SearchRecs(n) /\ HeapInv(h, S, Id) /\ Ranked(s.prevNodeIdx, s.isNodeIdInQ, Id)
      /\ ReachedOut(s, g, Id) /\ AllFitted(s, g, c, Id) /\ RspsArePaths(s.rspsMap, g, n) /\ h.numberOfNodes # 0
  BY DEF SearchInv
<1>3. /\ s.isNodeIdInQ \in [Id -> BOOLEAN] /\ s.prevNodeIdx \in [Id -> NodeOrNull(Id)] /\ h.key \in [Id -> Int]
  BY <1>2, RecFields
<1>4. s = [q |-> h, isNodeIdInQ |-> s.isNodeIdInQ, primPathRelias |-> s.primPathRelias, rerouteLossRates |-> s.rerouteLossRates,
           maxPrimPathDelays |-> s.maxPrimPathDelays, maxDelays |-> s.maxDelays, prevNodeIdx |-> s.prevNodeIdx, rspsMap |-> s.rspsMap]
  BY <1>2 DEF SearchRecs
<1> HIDE DEF Id, S
<1>5. S # {} /\ u \in S /\ u \in Id /\ \A x \in S : h.key[x] <= h.key[u]
  <2>1. S # {}
    BY <1>2, FS_EmptySet DEF HeapInv
  <2> QED
    BY <2>1, <1>2 DEF HeapInv, IsRoot, S, Queued
<1>6. HeapInv(removeMax(h), S \ {u}, Id) /\ removeMax(h).key = h.key
  <2> HIDE DEF h
  <2> QED
    BY <1>1, <1>2, <1>5, RemoveMaxKeeps
<1>7. r = [s EXCEPT !.q = removeMax(h), !.isNodeIdInQ = inQ2]
  BY DEF departed
<1>8. /\ inQ2 \in [Id -> BOOLEAN] /\ ~inQ2[u] /\ s.isNodeIdInQ[u] /\ \A x \in Id : x # u => inQ2[x] = s.isNodeIdInQ[x]
  BY <1>3, <1>5 DEF S, Queued
<1>9. Ranked(s.prevNodeIdx, inQ2, Id)
  <2> DEFINE P == s.prevNodeIdx
             inQ == s.isNodeIdInQ
  <2>1. P \in [Id -> NodeOrNull(Id)] /\ inQ \in [Id -> BOOLEAN] /\ Ranked(P, inQ, Id) /\ inQ[u]
    BY <1>2, <1>3, <1>8
  <2> HIDE DEF P, inQ, u
  <2>2. Ranked(P, [inQ EXCEPT ![u] = FALSE], Id)
    BY <2>1, <1>1, <1>5, RankedLeaves
  <2> QED
    BY <2>2 DEF P, inQ
<1> HIDE DEF inQ2, u
<1>10. r = [q |-> removeMax(h), isNodeIdInQ |-> inQ2, primPathRelias |-> s.primPathRelias, rerouteLossRates |-> s.rerouteLossRates,
            maxPrimPathDelays |-> s.maxPrimPathDelays, maxDelays |-> s.maxDelays, prevNodeIdx |-> s.prevNodeIdx, rspsMap |-> s.rspsMap]
  <2> HIDE DEF r, h
  <2> QED
    BY <1>7, <1>4
<1> HIDE DEF r, h
<1>11. r.q = removeMax(h) /\ r.isNodeIdInQ = inQ2 /\ r.prevNodeIdx = s.prevNodeIdx /\ r.maxDelays = s.maxDelays /\ r.rspsMap = s.rspsMap
  BY <1>10
<1>12. r \in SearchRecs(n)
  <2>1. removeMax(h) \in HeapsOn(0 .. n - 1) /\ inQ2 \in [0 .. n - 1 -> BOOLEAN]
    BY <1>6, <1>8 DEF HeapInv, HeapOn, Id
  <2> QED
    BY <2>1, <1>2, <1>10, RecFields DEF SearchRecs
<1>13. Queued(r.isNodeIdInQ, Id) = S \ {u}
  BY <1>8, <1>11 DEF Queued, S
<1>14. HeapInv(r.q, Queued(r.isNodeIdInQ, Id), Id) /\ Ranked(r.prevNodeIdx, r.isNodeIdInQ, Id)
  BY <1>6, <1>9, <1>11, <1>13
<1>15. ReachedOut(r, g, Id)
  BY <1>2, <1>6, <1>11 DEF ReachedOut, h
<1>16. AllFitted(r, g, c, Id)
  <2>1. \A w, x : FreshRsps(r, g, c, w, x) = FreshRsps(s, g, c, w, x)
    BY <1>11 DEF FreshRsps, barredFor, pathOf
  <2>2. \A w, x : Fitted(s, g, c, w, x) => Fitted(r, g, c, w, x)
    BY <2>1, <1>11 DEF Fitted, Fits
  <2> QED
    BY <2>2, <1>2, <1>11 DEF AllFitted
<1>17. SearchInv(r, g, n, c)
  BY <1>2, <1>11, <1>12, <1>14, <1>15, <1>16 DEF SearchInv, Id
<1>18. \A x \in Id : s.isNodeIdInQ[x] => h.key[x] <= h.key[u]
  BY <1>5 DEF S, Queued
<1> QED
  BY <1>5, <1>6, <1>8, <1>11, <1>17, <1>18 DEF r, u, h, Id, inQ2

Setting ==
  /\ graph.nNodes \in Nat \ {0} /\ Network(graph, graph.nNodes)
  /\ config.beta \in Nat /\ config.maxPathDelay \in Int
  /\ Producer \in Nodes /\ Consumers \in Seq(Nodes)

\* A node is relaxed over all its links.
LEMMA AllRelaxed ==
  ASSUME NEW n \in Nat, NEW inQ, NEW u, Underway(inQ, u, n), NEW s, Relaxing(s, inQ, u, n)
  PROVE  Relaxing(Loop(LAMBDA r, i : relaxLink(r, u, graph.eLinks[u][i]), s, Len(graph.eLinks[u])), inQ, u, n)
<1> DEFINE s0 == s
           m == Len(graph.eLinks[u])
           good == {t \in SearchRecs(n) : Relaxing(t, inQ, u, n)}
           step(t, i) == relaxLink(t, u, graph.eLinks[u][i])
           stage == [i \in 0 .. m |-> good]
           F == [i \in 1 .. m |-> [o \in stage[i - 1] |-> step(o, i)]]
           a == CHOOSE f : f = [i \in 0 .. m |-> IF i = 0 THEN s0 ELSE step(f[i - 1], i)]
<1>1. graph.eLinks[u] \in Seq(LinkSet(n, {})) /\ m \in Nat
  <2>1. GraphOn(graph, n, {}) /\ u \in 0 .. n
    BY DEF Underway, Network
  <2>2. graph.eLinks[u] \in Seq(LinkSet(n, {}))
    BY <2>1, GraphFields
  <2> QED
    BY <2>2
<1>2. \A t : Relaxing(t, inQ, u, n) => t \in good
  BY DEF Relaxing, SearchInv
<1>3. ASSUME NEW i \in 1 .. m, NEW t \in good PROVE step(t, i) \in good
  <2>1. IsLinkOf(graph, u, graph.eLinks[u][i])
    BY <1>1 DEF IsLinkOf, Occurs
  <2>2. Relaxing(t, inQ, u, n)
    OBVIOUS
  <2> DEFINE e == graph.eLinks[u][i]
  <2> HIDE DEF e
  <2>3. Relaxing(relaxLink(t, u, e), inQ, u, n)
    BY <2>1, <2>2, RelaxLinkKeeps DEF e
  <2>4. Relaxing(step(t, i), inQ, u, n)
    BY <2>3 DEF e
  <2> HIDE DEF step, good
  <2> QED
    BY <2>4, <1>2
<1>4. s0 \in stage[0]
  <2> HIDE DEF good
  <2> QED
    BY <1>1, <1>2
<1>5. \A i \in 1 .. m : \A t \in stage[i - 1] : step(t, i) \in stage[i]
  <2> HIDE DEF step, m, good
  <2> QED
    BY <1>1, <1>3
<1> HIDE DEF good
<1> HIDE DEF m, s0, step, stage
<1>20. \A i \in 1 .. m : F[i] \in [stage[i - 1] -> stage[i]]
  BY <1>5
<1>21. PICK f : IsTrace(f, m) /\ IsRun(f, m, s0, F, stage)
  <2> HIDE DEF F
  <2> QED
    BY <1>1, <1>4, <1>20, RunExists
<1>22. f = [i \in 0 .. m |-> IF i = 0 THEN s0 ELSE step(f[i - 1], i)]
  <2>1. ASSUME NEW i \in 1 .. m PROVE f[i] = step(f[i - 1], i)
    <3>1. i - 1 \in 0 .. m /\ f[i] = F[i][f[i - 1]] /\ f[i - 1] \in stage[i - 1]
      <4> HIDE DEF F
      <4>1. i - 1 \in 0 .. m
        BY <1>1
      <4> QED
        BY <4>1, <1>21 DEF IsRun
    <3> QED
      BY <3>1
  <2>2. f[0] = s0
    BY <1>21 DEF IsRun
  <2>3. \A i \in 0 .. m : f[i] = IF i = 0 THEN s0 ELSE step(f[i - 1], i)
    BY <1>1, <2>1, <2>2
  <2> QED
    BY <1>21, <2>3 DEF IsTrace
<1>23. a = [i \in 0 .. m |-> IF i = 0 THEN s0 ELSE step(a[i - 1], i)]
  BY <1>22
<1> HIDE DEF a, F
<1>24. a[m] \in stage[m]
  <2>1. ASSUME NEW i \in 1 .. m, a[i - 1] \in stage[i - 1] PROVE a[i] \in stage[i]
    <3>1. a[i] = step(a[i - 1], i)
      BY <1>1, <1>23
    <3> QED
      BY <2>1, <3>1, <1>5
  <2>2. a[0] \in stage[0]
    BY <1>1, <1>4, <1>23
  <2>3. \A i \in 0 .. m : a[i] \in stage[i]
    BY <1>1, <2>1, <2>2, RunStays
  <2> QED
    BY <1>1, <2>3
<1>6. Loop(LAMBDA r, i : relaxLink(r, u, graph.eLinks[u][i]), s, Len(graph.eLinks[u])) = a[m]
  BY DEF Loop, a, step, s0, m
<1>7. a[m] \in good
  BY <1>1, <1>24 DEF stage
<1> QED
  BY <1>6, <1>7 DEF good

LEMMA SearchStep ==
  ASSUME Setting, SearchInv(Current, graph, graph.nNodes, config), Open(Current, Nodes), genResilientRoutesVectors
  PROVE  /\ SearchInv(Current', graph, graph.nNodes, config)
         /\ searching' => Open(Current', Nodes)
<1> DEFINE n == graph.nNodes
           Id == 0 .. n - 1
           u == q.maxNode
           s == departed(Current, u)
           inQ == [isNodeIdInQ EXCEPT ![u] = FALSE]
           unreachable == q.key[u] = -One
           t == IF unreachable THEN s
                ELSE Loop(LAMBDA r, i : relaxLink(r, u, graph.eLinks[u][i]), s, Len(graph.eLinks[u]))
<1>1. /\ n \in Nat /\ Network(graph, n) /\ config.beta \in Nat /\ config.maxPathDelay \in Int /\ Producer \in Id
      /\ Nodes = Id
  BY DEF Setting, Nodes
<1>2. searchedTo(t, unreachable)
  <2>1. s = [q |-> removeMax(q), isNodeIdInQ |-> inQ, primPathRelias |-> primPathRelias, rerouteLossRates |-> rerouteLossRates,
             maxPrimPathDelays |-> maxPrimPathDelays, maxDelays |-> maxDelays, prevNodeIdx |-> prevNodeIdx, rspsMap |-> rspsMap]
    <3> DEFINE c == Current
    <3>1. /\ c.isNodeIdInQ = isNodeIdInQ /\ c.q = q
          /\ c = [q |-> q, isNodeIdInQ |-> isNodeIdInQ, primPathRelias |-> primPathRelias, rerouteLossRates |-> rerouteLossRates,
                  maxPrimPathDelays |-> maxPrimPathDelays, maxDelays |-> maxDelays, prevNodeIdx |-> prevNodeIdx, rspsMap |-> rspsMap]
      BY DEF Current
    <3>2. s = [c EXCEPT !.q = removeMax(c.q), !.isNodeIdInQ = [c.isNodeIdInQ EXCEPT ![u] = FALSE]]
      BY DEF departed
    <3> HIDE DEF c, u
    <3>3. s = [c EXCEPT !.q = removeMax(q), !.isNodeIdInQ = inQ]
      BY <3>1, <3>2
    <3> DEFINE h == removeMax(q)
    <3>4. s = [c EXCEPT !.q = h, !.isNodeIdInQ = inQ]
      BY <3>3
    <3>5. c = [q |-> q, isNodeIdInQ |-> isNodeIdInQ, primPathRelias |-> primPathRelias, rerouteLossRates |-> rerouteLossRates,
               maxPrimPathDelays |-> maxPrimPathDelays, maxDelays |-> maxDelays, prevNodeIdx |-> prevNodeIdx, rspsMap |-> rspsMap]
      BY <3>1
    <3> HIDE DEF s, inQ, h
    <3>6. s = [q |-> h, isNodeIdInQ |-> inQ, primPathRelias |-> primPathRelias, rerouteLossRates |-> rerouteLossRates,
               maxPrimPathDelays |-> maxPrimPathDelays, maxDelays |-> maxDelays, prevNodeIdx |-> prevNodeIdx, rspsMap |-> rspsMap]
      BY <3>4, <3>5
    <3> QED
      BY <3>6 DEF h
  <2> HIDE DEF s
  <2> QED
    BY <2>1 DEF genResilientRoutesVectors, removeMaxObject
<1>3. /\ Current.q = q /\ Current.isNodeIdInQ = isNodeIdInQ /\ Current.prevNodeIdx = prevNodeIdx
      /\ Current.maxDelays = maxDelays /\ Current.primPathRelias = primPathRelias
      /\ Current.rerouteLossRates = rerouteLossRates /\ Current.maxPrimPathDelays = maxPrimPathDelays
  BY DEF Current
<1>4. q.numberOfNodes # 0
  BY <1>3 DEF Open
<1>5. /\ u \in Id /\ isNodeIdInQ[u] /\ SearchInv(s, graph, n, config)
      /\ s.isNodeIdInQ = inQ /\ s.prevNodeIdx = prevNodeIdx /\ s.maxDelays = maxDelays /\ s.q.key = q.key
      /\ \A x \in Id : isNodeIdInQ[x] => q.key[x] <= q.key[u]
  <2> DEFINE c == Current
  <2>1. /\ c.q.maxNode \in 0 .. n - 1 /\ c.isNodeIdInQ[c.q.maxNode]
        /\ SearchInv(departed(c, c.q.maxNode), graph, n, config)
        /\ departed(c, c.q.maxNode).isNodeIdInQ = [c.isNodeIdInQ EXCEPT ![c.q.maxNode] = FALSE]
        /\ departed(c, c.q.maxNode).prevNodeIdx = c.prevNodeIdx /\ departed(c, c.q.maxNode).maxDelays = c.maxDelays
        /\ departed(c, c.q.maxNode).q.key = c.q.key
        /\ \A x \in 0 .. n - 1 : c.isNodeIdInQ[x] => c.q.key[x] <= c.q.key[c.q.maxNode]
    <3>1. c.q.numberOfNodes # 0 /\ SearchInv(c, graph, n, config) /\ Producer \in 0 .. n - 1
      BY <1>1, <1>3, <1>4
    <3> HIDE DEF c, n
    <3> QED
      BY <1>1, <3>1, DepartedKeeps
  <2> QED
    BY <2>1, <1>3
<1>6. Current \in SearchRecs(n) /\ Ranked(s.prevNodeIdx, inQ, Id) /\ inQ \in [Id -> BOOLEAN]
  <2>0. Current \in SearchRecs(n)
    BY DEF SearchInv
  <2> HIDE DEF s, u, n, inQ
  <2>1. s \in SearchRecs(n) /\ Ranked(s.prevNodeIdx, s.isNodeIdInQ, Id)
    BY <1>5 DEF SearchInv
  <2>2. s.isNodeIdInQ \in [Id -> BOOLEAN]
    BY <2>1, RecFields
  <2> QED
    BY <2>0, <2>1, <2>2, <1>5
<1> HIDE DEF s, u, n
<1>7. ASSUME ~unreachable PROVE SearchInv(t, graph, n, config) /\ ~t.isNodeIdInQ[Producer]
  <2>1. ~inQ[u] /\ \A x \in Id : x # u => inQ[x] = isNodeIdInQ[x]
    <3>1. isNodeIdInQ \in [Id -> BOOLEAN]
      BY <1>3, <1>6, RecFields
    <3> QED
      BY <3>1, <1>5
  <2>2. ~inQ[Producer]
    <3>1. CASE isNodeIdInQ[Producer]
      <4>1. u # Producer => q.key[u] = -One
        BY <3>1, <1>1, <1>3, <1>5 DEF Open
      <4> QED
        BY <4>1, <2>1, <1>7
    <3>2. CASE ~isNodeIdInQ[Producer]
      BY <3>2, <1>1, <1>5, <2>1
    <3> QED
      BY <3>1, <3>2
  <2>3. /\ prevNodeIdx \in [Id -> NodeOrNull(Id)] /\ primPathRelias \in [Id -> Int] /\ rerouteLossRates \in [Id -> Int]
        /\ maxPrimPathDelays \in [Id -> Int] /\ maxDelays \in [Id -> Nat]
    BY <1>3, <1>6, RecFields
  <2>4. Ranked(prevNodeIdx, inQ, Id)
    BY <1>5, <1>6
  <2>5. Underway(inQ, u, n)
    <3> HIDE DEF inQ
    <3> QED
      BY <1>1, <1>5, <1>6, <2>1, <2>2, <2>3, <2>4 DEF Underway
  <2>6. Relaxing(s, inQ, u, n)
    <3> HIDE DEF inQ
    <3> QED
      BY <1>5, <1>7 DEF Relaxing, Aside
  <2> DEFINE z == Loop(LAMBDA r, i : relaxLink(r, u, graph.eLinks[u][i]), s, Len(graph.eLinks[u]))
  <2>7. Relaxing(z, inQ, u, n)
    <3> HIDE DEF inQ
    <3> QED
      BY <1>1, <2>5, <2>6, AllRelaxed
  <2>8. t = z
    BY <1>7
  <2> HIDE DEF z, t
  <2> QED
    BY <2>2, <2>7, <2>8 DEF Relaxing
<1>8. SearchInv(t, graph, n, config)
  BY <1>5, <1>7
<1>9. searching' => ~unreachable /\ t.q.numberOfNodes > 0
  <2> HIDE DEF t, unreachable
  <2> QED
    BY <1>2 DEF searchedTo
<1> HIDE DEF t, unreachable
<1>10. t = Current'
  <2>1. t \in SearchRecs(n)
    BY <1>8 DEF SearchInv
  <2>2. t = [q |-> t.q, isNodeIdInQ |-> t.isNodeIdInQ, primPathRelias |-> t.primPathRelias, rerouteLossRates |-> t.rerouteLossRates,
             maxPrimPathDelays |-> t.maxPrimPathDelays, maxDelays |-> t.maxDelays, prevNodeIdx |-> t.prevNodeIdx, rspsMap |-> t.rspsMap]
    BY <2>1 DEF SearchRecs
  <2>3. /\ q' = t.q /\ isNodeIdInQ' = t.isNodeIdInQ /\ primPathRelias' = t.primPathRelias /\ rerouteLossRates' = t.rerouteLossRates
        /\ maxPrimPathDelays' = t.maxPrimPathDelays /\ maxDelays' = t.maxDelays /\ prevNodeIdx' = t.prevNodeIdx /\ rspsMap' = t.rspsMap
    BY <1>2 DEF searchedTo
  <2> QED
    BY <2>2, <2>3 DEF Current
<1>11. ASSUME searching' PROVE Open(Current', Nodes)
  <2>1. t.q.numberOfNodes # 0 /\ ~t.isNodeIdInQ[Producer]
    <3>1. t.q \in HeapsOn(0 .. n - 1) /\ ~unreachable /\ t.q.numberOfNodes > 0
      BY <1>8, <1>9, <1>11, RecFields DEF SearchInv
    <3>2. t.q.numberOfNodes \in Int
      BY <3>1, HeapFields
    <3> QED
      BY <3>1, <3>2, <1>7
  <2>2. Open(t, Nodes)
    BY <2>1 DEF Open
  <2> QED
    BY <2>2, <1>10
<1> QED
  BY <1>8, <1>10, <1>11 DEF n

SearchIInv ==
  /\ Setting
  /\ \E S : flows \in Seq(S)
  /\ searching => flows = <<>> /\ Open(Current, Nodes)
  /\ flows = <<>> => SearchInv(Current, graph, graph.nNodes, config)

\* A search starts with all nodes in the queue and only the producer reached.
LEMMA InitSearch ==
  ASSUME Init
  PROVE  SearchIInv
<1>1. PICK setup \in Setups :
        LET f == setup[1]
            n == Len(f.nodeIds)
            Id == 0 .. n - 1
            atProducer(x, y) == [i \in Id |-> IF i = Producer THEN x ELSE y]
        IN
        /\ graph = load(f)
        /\ config = setup[2]
        /\ q = fullHeap(atProducer(0, -One), n)
        /\ isNodeIdInQ = [i \in Id |-> TRUE]
        /\ primPathRelias = atProducer(One, 0)
        /\ rerouteLossRates = [i \in Id |-> 0]
        /\ maxPrimPathDelays = [i \in Id |-> 0]
        /\ maxDelays = [i \in Id |-> 0]
        /\ prevNodeIdx = [i \in Id |-> NULL]
        /\ rspsMap = [i \in Id |-> <<>>]
        /\ flows = <<>>
  BY DEF Init
<1> DEFINE f == setup[1]
           n == Len(f.nodeIds)
           Id == 0 .. n - 1
           key == [i \in Id |-> IF i = Producer THEN 0 ELSE -One]
           relia == [i \in Id |-> IF i = Producer THEN One ELSE 0]
           zero == [i \in Id |-> 0]
           inQ == [i \in Id |-> TRUE]
           prev == [i \in Id |-> NULL]
           rsps == [i \in Id |-> <<>>]
           c == Current
<1>2. /\ graph = load(f) /\ config = setup[2] /\ q = fullHeap(key, n) /\ isNodeIdInQ = inQ /\ primPathRelias = relia
      /\ rerouteLossRates = zero /\ maxPrimPathDelays = zero /\ maxDelays = zero /\ prevNodeIdx = prev
      /\ rspsMap = rsps /\ flows = <<>>
  BY <1>1
<1>3. IsSetup(f, config)
  BY <1>2, SetupsAssumption
<1>4. Network(graph, n) /\ n \in Nat \ {0} /\ Producer \in Id
  BY <1>2, <1>3, LoadKeeps
<1>5. config.beta \in Nat /\ config.maxPathDelay \in Int /\ Consumers \in Seq(Id)
  BY <1>3 DEF IsSetup
<1>6. graph.nNodes = n /\ Nodes = Id
  BY <1>4, GraphFields DEF Network, Nodes
<1>7. Setting
  BY <1>4, <1>5, <1>6 DEF Setting
<1> HIDE DEF n
<1>8. key \in [Id -> Int]
  BY DEF One
<1>9. HeapInv(q, Id, Id) /\ q.key = key
  <2> HIDE DEF key
  <2> QED
    BY <1>2, <1>4, <1>8, FullHeapIs
<1>10. /\ c.q = q /\ c.isNodeIdInQ = inQ /\ c.prevNodeIdx = prev /\ c.rspsMap = rsps
       /\ c = [q |-> q, isNodeIdInQ |-> inQ, primPathRelias |-> relia, rerouteLossRates |-> zero,
               maxPrimPathDelays |-> zero, maxDelays |-> zero, prevNodeIdx |-> prev, rspsMap |-> rsps]
  BY <1>2 DEF Current
<1>11. Ids(Id) /\ NULL \notin Id
  BY <1>4, IdsBelow
<1>12. Ranked(prev, inQ, Id)
  <2> HIDE DEF Id
  <2> QED
    BY <1>11, RankedAtFirst
<1>13. Queued(inQ, Id) = Id
  BY DEF Queued
<1>14. c \in SearchRecs(n)
  <2>1. q \in HeapsOn(Id)
    BY <1>9 DEF HeapInv, HeapOn
  <2>2. /\ inQ \in [Id -> BOOLEAN] /\ relia \in [Id -> Int] /\ zero \in [Id -> Int] /\ zero \in [Id -> Nat] /\ prev \in [Id -> NodeOrNull(Id)]
    BY DEF One, NodeOrNull
  <2>3. rsps \in [Id -> Seq(RspRecords(n))]
    <3>1. <<>> \in Seq(RspRecords(n))
      OBVIOUS
    <3> QED
      BY <3>1
  <2> HIDE DEF inQ, relia, zero, prev, rsps, c
  <2> QED
    BY <2>1, <2>2, <2>3, <1>10 DEF SearchRecs
<1> HIDE DEF c
<1>15. ReachedOut(c, graph, Id)
  BY <1>4, <1>9, <1>10 DEF ReachedOut, One
<1>16. AllFitted(c, graph, config, Id)
  BY <1>10 DEF AllFitted
<1>17. RspsArePaths(c.rspsMap, graph, n)
  <2>1. \A x \in Id : c.rspsMap[x] = <<>>
    BY <1>10
  <2>2. Len(<<>>) = 0
    OBVIOUS
  <2> QED
    BY <2>1, <2>2 DEF RspsArePaths
<1>18. SearchInv(c, graph, n, config)
  BY <1>9, <1>10, <1>12, <1>13, <1>14, <1>15, <1>16, <1>17 DEF SearchInv
<1>19. Open(c, Id)
  <2>1. q.numberOfNodes = Cardinality(Id)
    BY <1>9 DEF HeapInv
  <2>2. Cardinality(Id) # 0
    <3>1. IsFiniteSet(Id) /\ Id # {}
      BY <1>4, <1>11 DEF Ids
    <3> HIDE DEF Id
    <3> QED
      BY <3>1, FS_EmptySet
  <2> QED
    BY <2>1, <2>2, <1>4, <1>9, <1>10 DEF Open
<1>20. flows \in Seq({})
  BY <1>2
<1> QED
  BY <1>2, <1>6, <1>7, <1>18, <1>19, <1>20 DEF SearchIInv, c

\* One step of the search, or of what follows it.
LEMMA NextSearch ==
  ASSUME SearchIInv, [Next]_vars
  PROVE  SearchIInv'
<1> USE DEF SearchIInv
<1>1. CASE genResilientRoutesVectors
  <2>1. /\ searching /\ flows' = flows /\ graph' = graph /\ config' = config
    BY <1>1 DEF genResilientRoutesVectors, routeVars
  <2>2. SearchInv(Current', graph, graph.nNodes, config) /\ (searching' => Open(Current', Nodes))
    BY <1>1, <2>1, SearchStep
  <2>3. Setting' /\ Nodes' = Nodes
    BY <2>1 DEF Setting, Nodes
  <2> QED
    BY <2>1, <2>2, <2>3
<1>2. CASE computeRoutesForCommPairs
  <2> DEFINE rr == constructResilientRoutes(Consumers[Len(flows) + 1])
  <2>1. ~searching /\ flows' = Append(flows, rr) /\ graph' = graph /\ config' = config /\ searching' = searching
    BY <1>2 DEF computeRoutesForCommPairs
  <2> HIDE DEF rr
  <2>2. PICK S : flows \in Seq(S)
    OBVIOUS
  <2>3. flows \in Seq(S \cup {rr}) /\ rr \in S \cup {rr}
    BY <2>2
  <2>4. flows' \in Seq(S \cup {rr}) /\ flows' # <<>>
    BY <2>1, <2>3
  <2>5. Setting'
    BY <2>1 DEF Setting, Nodes
  <2> QED
    BY <2>1, <2>4, <2>5
<1>3. CASE UNCHANGED <<graph, config, searchVars, rspsMap, searching, routeVars>>
  <2>1. /\ flows' = flows /\ graph' = graph /\ config' = config /\ searching' = searching /\ Current' = Current
    BY <1>3 DEF searchVars, routeVars, Current
  <2>2. Setting' /\ Nodes' = Nodes
    BY <2>1 DEF Setting, Nodes
  <2> QED
    BY <2>1, <2>2
<1>4. findFaultLinks \/ simulateLinkErrors \/ UNCHANGED vars => UNCHANGED <<graph, config, searchVars, rspsMap, searching, routeVars>>
  BY DEF findFaultLinks, simulateLinkErrors, vars
<1> QED
  BY <1>1, <1>2, <1>3, <1>4 DEF Next

\* The search for the PPs (genResilientRoutesVectors): with every removal from the
\* heap and every key that grows, the heap, the predecessors, the delays and the
\* RSPs of the nodes stay what SearchIInv says.
THEOREM SearchInvariant == Spec => []SearchIInv
<1>1. Init => SearchIInv
  BY InitSearch
<1>2. SearchIInv /\ [Next]_vars => SearchIInv'
  BY NextSearch
<1> QED
  BY <1>1, <1>2, PTL DEF Spec

\* MaxFibonacciHeap under the calls of the search: whatever nodes are removed and
\* whatever keys grow in between, it has exactly the nodes left, all its lists are
\* circular both ways, parents and children agree, and the maximum is on top.
THEOREM HeapStaysSound == Spec => []HeapIsSound
<1>1. SearchIInv => HeapIsSound
  <2> SUFFICES ASSUME SearchIInv, searching PROVE IsHeapOf(q, {x \in Nodes : isNodeIdInQ[x]})
    BY DEF HeapIsSound
  <2> DEFINE n == graph.nNodes
             S == Queued(isNodeIdInQ, 0 .. n - 1)
  <2>1. SearchInv(Current, graph, n, config) /\ n \in Nat
    BY DEF SearchIInv, Setting
  <2>2. HeapInv(q, S, 0 .. n - 1)
    BY <2>1 DEF SearchInv, Current
  <2>3. S = {x \in Nodes : isNodeIdInQ[x]}
    BY DEF Queued, Nodes
  <2> HIDE DEF S
  <2>4. Ids(0 .. n - 1)
    BY <2>1, IdsBelow
  <2>5. IsHeapOf(q, S)
    <3> HIDE DEF n
    <3> QED
      BY <2>2, <2>4, HeapIs
  <2> QED
    BY <2>3, <2>5
<1> QED
  BY <1>1, SearchInvariant, PTL

-----------------------------------------------------------------------------
(* The routes of a flow. *)

\* The RSPs in r are among those in s, renumbered.
SameRsp(p, o) == p.nodes = o.nodes /\ p.linkDownDelay = o.linkDownDelay

Picks(h, r, s) ==
  /\ h \in [1 .. Len(r) -> 1 .. Len(s)]
  /\ \A i, k \in 1 .. Len(r) : i # k => h[i] # h[k]
  /\ \A i \in 1 .. Len(r) : SameRsp(r[i], s[h[i]])

Picked(r, s, n) == r \in Seq(RspRecords(n)) /\ \E h : Picks(h, r, s)

LEMMA PickedSelf ==
  ASSUME NEW n, NEW r \in Seq(RspRecords(n))
  PROVE  Picked(r, r, n)
<1> DEFINE h == [i \in 1 .. Len(r) |-> i]
<1>1. Picks(h, r, r)
  BY DEF Picks, SameRsp
<1> HIDE DEF h
<1> QED
  BY <1>1 DEF Picked

LEMMA PickedTwice ==
  ASSUME NEW n, NEW r, NEW s, NEW t, Picked(r, s, n), Picked(s, t, n)
  PROVE  Picked(r, t, n)
<1>1. PICK h : Picks(h, r, s)
  BY DEF Picked
<1>2. PICK g : Picks(g, s, t)
  BY DEF Picked
<1> DEFINE f == [i \in 1 .. Len(r) |-> g[h[i]]]
<1>3. Picks(f, r, t)
  BY <1>1, <1>2 DEF Picks, SameRsp
<1> HIDE DEF f
<1> QED
  BY <1>3 DEF Picked

LEMMA ErasePicks ==
  ASSUME NEW n, NEW r \in Seq(RspRecords(n)), NEW j \in 1 .. Len(r), NEW times \in Nat
  PROVE  Picked(erase(r, j, times), r, n) /\ Len(erase(r, j, times)) >= j - 1
<1> DEFINE S == RspRecords(n)
           e == erase(r, j, times)
           p == SubSeq(r, 1, j - 1)
           t == SubSeq(r, j + times, Len(r))
           h == [i \in 1 .. Len(e) |-> IF i < j THEN i ELSE i + times]
<1>1. r \in Seq(S) /\ Len(r) \in Nat /\ j \in Nat /\ j <= Len(r)
  OBVIOUS
<1> HIDE DEF S
<1>2. p \in Seq(S) /\ Len(p) = j - 1 /\ \A i \in 1 .. j - 1 : p[i] = r[i]
  BY <1>1
<1>3. /\ t \in Seq(S) /\ Len(t) = (IF j + times <= Len(r) THEN Len(r) - (j + times) + 1 ELSE 0)
      /\ \A i \in 1 .. Len(t) : t[i] = r[i + (j + times) - 1]
  BY <1>1
<1>4. e = p \o t
  BY DEF erase
<1> HIDE DEF p, t, e
<1>5. /\ e \in Seq(S) /\ Len(e) = (j - 1) + Len(t) /\ Len(t) \in Nat
      /\ \A i \in 1 .. Len(e) : e[i] = IF i <= j - 1 THEN p[i] ELSE t[i - (j - 1)]
  <2>1. p \in Seq(S) /\ t \in Seq(S)
    BY <1>2, <1>3
  <2>2. /\ e \in Seq(S) /\ Len(e) = Len(p) + Len(t) /\ Len(t) \in Nat
        /\ \A i \in 1 .. Len(e) : e[i] = IF i <= Len(p) THEN p[i] ELSE t[i - Len(p)]
    BY <2>1, <1>4
  <2> QED
    BY <2>2, <1>2
<1>6. ASSUME NEW i \in 1 .. Len(e) PROVE h[i] \in 1 .. Len(r) /\ e[i] = r[h[i]]
  <2>1. CASE i < j
    BY <2>1, <1>1, <1>2, <1>5
  <2>2. CASE ~(i < j)
    <3>1. i - (j - 1) \in 1 .. Len(t) /\ h[i] = i + times /\ (i - (j - 1)) + (j + times) - 1 = i + times
      BY <2>2, <1>1, <1>5
    <3>2. i + times \in 1 .. Len(r)
      BY <3>1, <1>1, <1>3, <1>5
    <3>3. e[i] = t[i - (j - 1)]
      BY <2>2, <1>1, <1>5
    <3> QED
      BY <3>1, <3>2, <3>3, <1>3
  <2> QED
    BY <2>1, <2>2
<1>7. ASSUME NEW i \in 1 .. Len(e), NEW k \in 1 .. Len(e), i # k PROVE h[i] # h[k]
  BY <1>1, <1>5, <1>7
<1>8. Picks(h, e, r)
  <2>1. h \in [1 .. Len(e) -> 1 .. Len(r)]
    BY <1>6
  <2> HIDE DEF h
  <2> QED
    BY <2>1, <1>6, <1>7 DEF Picks, SameRsp
<1> HIDE DEF h
<1> QED
  BY <1>1, <1>5, <1>8 DEF Picked, S, e

\* What a flow leaves of the RSPs of a node.
LEMMA WithoutJointPicks ==
  ASSUME NEW n \in Nat, NEW rsps \in Seq(RspRecords(n)), NEW nodeIds
  PROVE  Picked(withoutJoint(nodeIds, rsps), rsps, n)
<1> DEFINE m == Len(rsps)
           s0 == rsps
           times(j) == Cardinality(jointRSPs_indexes(nodeIds, rsps[j]))
           step(r, i) == erase(r, m + 1 - i, times(m + 1 - i))
           stage == [i \in 0 .. m |-> {r \in Seq(RspRecords(n)) : Picked(r, rsps, n) /\ Len(r) >= m - i}]
           F == [i \in 1 .. m |-> [o \in stage[i - 1] |-> step(o, i)]]
           a == CHOOSE f : f = [i \in 0 .. m |-> IF i = 0 THEN s0 ELSE step(f[i - 1], i)]
<1>1. m \in Nat /\ s0 \in Seq(RspRecords(n)) /\ Len(s0) = m
  OBVIOUS
<1>2. ASSUME NEW j \in 1 .. m PROVE times(j) \in Nat
  <2> DEFINE J == jointRSPs_indexes(nodeIds, rsps[j])
             N == 2 .. Len(rsps[j].nodes)
  <2>1. rsps[j].nodes \in Seq(0 .. n - 1)
    <3>1. rsps[j] \in RspRecords(n)
      OBVIOUS
    <3> QED
      BY <3>1 DEF RspRecords
  <2>2. 2 \in Int /\ Len(rsps[j].nodes) \in Int
    BY <2>1
  <2>3. IsFiniteSet(N)
    BY <2>2, FS_Interval
  <2>4. J \subseteq N
    BY DEF jointRSPs_indexes
  <2> HIDE DEF J, N
  <2>5. Cardinality(J) \in Nat
    BY <2>3, <2>4, FS_Subset, FS_CardinalityType
  <2> QED
    BY <2>5 DEF J
<1> HIDE DEF m, times
<1>3. s0 \in stage[0]
  <2>1. Picked(rsps, rsps, n)
    BY PickedSelf
  <2> QED
    BY <2>1, <1>1
<1>4. ASSUME NEW i \in 1 .. m, NEW r \in stage[i - 1] PROVE step(r, i) \in stage[i]
  <2> DEFINE j == m + 1 - i
             e == erase(r, j, times(j))
  <2>1. i - 1 \in 0 .. m /\ i \in 0 .. m /\ j \in 1 .. m /\ j = m - (i - 1) /\ j - 1 = m - i
    BY <1>1
  <2>2. r \in Seq(RspRecords(n)) /\ Picked(r, rsps, n) /\ Len(r) >= m - (i - 1)
    BY <2>1
  <2>3. j \in 1 .. Len(r) /\ times(j) \in Nat
    BY <2>1, <2>2, <1>2
  <2>4. step(r, i) = e
    OBVIOUS
  <2> HIDE DEF j
  <2>5. Picked(e, r, n) /\ Len(e) >= j - 1
    BY <2>2, <2>3, ErasePicks
  <2> HIDE DEF e, step
  <2>6. Picked(e, rsps, n)
    BY <2>2, <2>5, PickedTwice
  <2>7. e \in Seq(RspRecords(n)) /\ Len(e) >= m - i
    BY <2>1, <2>5 DEF Picked
  <2> QED
    BY <2>1, <2>4, <2>6, <2>7
<1>5. \A i \in 1 .. m : \A r \in stage[i - 1] : step(r, i) \in stage[i]
  <2> HIDE DEF step, stage
  <2> QED
    BY <1>4
<1> HIDE DEF s0, step, stage
<1>20. \A i \in 1 .. m : F[i] \in [stage[i - 1] -> stage[i]]
  BY <1>5
<1>21. PICK f : IsTrace(f, m) /\ IsRun(f, m, s0, F, stage)
  <2> HIDE DEF F
  <2> QED
    BY <1>1, <1>3, <1>20, RunExists
<1>22. f = [i \in 0 .. m |-> IF i = 0 THEN s0 ELSE step(f[i - 1], i)]
  <2>1. ASSUME NEW i \in 1 .. m PROVE f[i] = step(f[i - 1], i)
    <3>1. i - 1 \in 0 .. m /\ f[i] = F[i][f[i - 1]] /\ f[i - 1] \in stage[i - 1]
      <4> HIDE DEF F
      <4>1. i - 1 \in 0 .. m
        BY <1>1
      <4> QED
        BY <4>1, <1>21 DEF IsRun
    <3> QED
      BY <3>1
  <2>2. f[0] = s0
    BY <1>21 DEF IsRun
  <2>3. \A i \in 0 .. m : f[i] = IF i = 0 THEN s0 ELSE step(f[i - 1], i)
    BY <1>1, <2>1, <2>2
  <2> QED
    BY <1>21, <2>3 DEF IsTrace
<1>23. a = [i \in 0 .. m |-> IF i = 0 THEN s0 ELSE step(a[i - 1], i)]
  BY <1>22
<1> HIDE DEF a, F
<1>24. a[m] \in stage[m]
  <2>1. ASSUME NEW i \in 1 .. m, a[i - 1] \in stage[i - 1] PROVE a[i] \in stage[i]
    <3>1. a[i] = step(a[i - 1], i)
      BY <1>1, <1>23
    <3> QED
      BY <2>1, <3>1, <1>5
  <2>2. a[0] \in stage[0]
    BY <1>1, <1>3, <1>23
  <2>3. \A i \in 0 .. m : a[i] \in stage[i]
    BY <1>1, <2>1, <2>2, RunStays
  <2> QED
    BY <1>1, <2>3
<1>6. withoutJoint(nodeIds, rsps) = a[m]
  BY DEF withoutJoint, Loop, a, step, s0, times, m
<1> QED
  BY <1>1, <1>6, <1>24 DEF stage

LEMMA NumberedPicks ==
  ASSUME NEW n, NEW r \in Seq(RspRecords(n)), NEW id \in Nat
  PROVE  /\ Picked(numbered(r, id), r, n) /\ Len(numbered(r, id)) = Len(r)
         /\ \A j \in 1 .. Len(r) : numbered(r, id)[j].pathID = id + j - 1
<1> DEFINE t == numbered(r, id)
           h == [i \in 1 .. Len(r) |-> i]
<1>1. DOMAIN r = 1 .. Len(r) /\ Len(r) \in Nat /\ \A j \in 1 .. Len(r) : r[j] \in RspRecords(n)
  OBVIOUS
<1>2. t = [j \in 1 .. Len(r) |-> [r[j] EXCEPT !.pathID = id + j - 1]]
  BY <1>1 DEF numbered
<1>3. ASSUME NEW j \in 1 .. Len(r)
      PROVE  t[j] \in RspRecords(n) /\ t[j].pathID = id + j - 1 /\ SameRsp(t[j], r[j])
  <2> DEFINE o == r[j]
             p == id + j - 1
  <2>1. t[j] = [o EXCEPT !.pathID = p] /\ o \in RspRecords(n) /\ p \in Int
    BY <1>1, <1>2
  <2> HIDE DEF o, p
  <2>2. t[j] \in RspRecords(n) /\ t[j].pathID = p /\ SameRsp(t[j], o)
    BY <2>1 DEF RspRecords, SameRsp
  <2> QED
    BY <2>2 DEF o, p
<1>4. t \in Seq(RspRecords(n)) /\ Len(t) = Len(r)
  <2> DEFINE L == Len(r)
  <2>1. t = [j \in 1 .. L |-> t[j]] /\ L \in Nat /\ \A j \in 1 .. L : t[j] \in RspRecords(n)
    BY <1>1, <1>2, <1>3
  <2> HIDE DEF L, t
  <2>2. t \in Seq(RspRecords(n)) /\ Len(t) = L
    BY <2>1
  <2> QED
    BY <2>2 DEF L
<1> HIDE DEF t
<1>5. Picks(h, t, r)
  BY <1>3, <1>4 DEF Picks
<1> HIDE DEF h
<1> QED
  BY <1>3, <1>4, <1>5 DEF Picked, t

\* h has the RSPs of the first nodes of a PP, up to the one at i + 1; those at k
\* are numbered from b[k - 1] on.
FirstNodes(nodeIds, i) == {nodeIds[k] : k \in 2 .. i + 1}

Counts(b, h, nodeIds, i, id) ==
  /\ b \in [1 .. i + 1 -> Nat] /\ b[1] = id
  /\ \A k \in 2 .. i + 1 :
       /\ b[k] = b[k - 1] + Len(h[nodeIds[k]])
       /\ \A j \in 1 .. Len(h[nodeIds[k]]) : h[nodeIds[k]][j].pathID = b[k - 1] + j - 1

FromMap(h, nodeIds, i, n, m) == \A k \in 2 .. i + 1 : Picked(h[nodeIds[k]], m[nodeIds[k]], n)

Listings(n) == [hrsp : UNION {[T -> Seq(RspRecords(n))] : T \in SUBSET (0 .. n - 1)}, id : Nat]

Listed(s, nodeIds, i, n, id) ==
  /\ s \in Listings(n) /\ s.hrsp \in [FirstNodes(nodeIds, i) -> Seq(RspRecords(n))]
  /\ FromMap(s.hrsp, nodeIds, i, n, rspsMap)
  /\ \E b : Counts(b, s.hrsp, nodeIds, i, id) /\ b[i + 1] = s.id

LEMMA EnlistKeeps ==
  ASSUME NEW n \in Nat, rspsMap \in [0 .. n - 1 -> Seq(RspRecords(n))], NEW nodeIds \in Seq(0 .. n - 1),
         \A i, j \in 1 .. Len(nodeIds) : i # j => nodeIds[i] # nodeIds[j], NEW id \in Nat,
         NEW i \in 1 .. Len(nodeIds) - 1, NEW s, Listed(s, nodeIds, i - 1, n, id)
  PROVE  Listed(enlist(s, nodeIds, nodeIds[i + 1]), nodeIds, i, n, id)
<1> DEFINE x == nodeIds[i + 1]
           old == rspsMap[x]
           rsps == numbered(withoutJoint(nodeIds, old), s.id)
           h == [y \in DOMAIN s.hrsp \cup {x} |-> IF y = x THEN rsps ELSE s.hrsp[y]]
           p == i - 1
           S == Seq(RspRecords(n))
           r == enlist(s, nodeIds, x)
<1>1. /\ p \in Nat /\ p + 1 = i /\ i \in Nat \ {0} /\ x \in 0 .. n - 1 /\ Len(nodeIds) \in Nat
      /\ i + 1 \in 1 .. Len(nodeIds) /\ \A k \in 2 .. i : k \in 1 .. Len(nodeIds) /\ k # i + 1
      /\ \A k \in 2 .. i + 1 : k = i + 1 \/ k \in 2 .. i
      /\ \A k \in 1 .. Len(nodeIds) : nodeIds[k] \in 0 .. n - 1
  BY SMTT(60)
<1>2. /\ s.id \in Nat /\ s.hrsp \in [FirstNodes(nodeIds, p) -> S] /\ FromMap(s.hrsp, nodeIds, p, n, rspsMap)
      /\ old \in S
  BY <1>1 DEF Listed, Listings
<1>3. PICK b : Counts(b, s.hrsp, nodeIds, p, id) /\ b[p + 1] = s.id
  BY DEF Listed
<1>4. r = [hrsp |-> h, id |-> s.id + Len(rsps)]
  BY DEF enlist
<1> HIDE DEF p, r, x
<1>5. Picked(rsps, old, n) /\ rsps \in S /\ \A j \in 1 .. Len(rsps) : rsps[j].pathID = s.id + j - 1
  <2> DEFINE w == withoutJoint(nodeIds, old)
  <2>1. Picked(w, old, n)
    BY <1>2, WithoutJointPicks
  <2> HIDE DEF w
  <2>2. w \in Seq(RspRecords(n))
    BY <2>1 DEF Picked
  <2>3. /\ Picked(numbered(w, s.id), w, n) /\ Len(numbered(w, s.id)) = Len(w)
        /\ \A j \in 1 .. Len(w) : numbered(w, s.id)[j].pathID = s.id + j - 1
    BY <2>2, <1>2, NumberedPicks
  <2>4. rsps = numbered(w, s.id)
    BY DEF w
  <2> HIDE DEF rsps
  <2>5. Picked(rsps, old, n)
    BY <2>1, <2>3, <2>4, PickedTwice
  <2>6. rsps \in Seq(RspRecords(n))
    BY <2>5 DEF Picked
  <2> QED
    BY <2>3, <2>4, <2>5, <2>6
<1>50. Len(rsps) \in Nat
  BY <1>5
<1> HIDE DEF rsps
<1>6. FirstNodes(nodeIds, i) = FirstNodes(nodeIds, p) \cup {x} /\ x \notin FirstNodes(nodeIds, p)
  <2>1. FirstNodes(nodeIds, p) = {nodeIds[k] : k \in 2 .. i}
    BY <1>1 DEF FirstNodes
  <2>2. \A k \in 2 .. i : nodeIds[k] # x
    BY <1>1 DEF x
  <2>3. FirstNodes(nodeIds, i) = {nodeIds[k] : k \in 2 .. i + 1}
    BY DEF FirstNodes
  <2>4. i + 1 \in 2 .. i + 1 /\ 2 .. i \subseteq 2 .. i + 1 /\ nodeIds[i + 1] = x
    BY <1>1 DEF x
  <2>5. FirstNodes(nodeIds, i) = FirstNodes(nodeIds, p) \cup {x}
    <3>1. \A y \in FirstNodes(nodeIds, i) : y \in FirstNodes(nodeIds, p) \cup {x}
      <4> TAKE y \in FirstNodes(nodeIds, i)
      <4>1. PICK k \in 2 .. i + 1 : y = nodeIds[k]
        BY <2>3
      <4>2. CASE k = i + 1
        BY <4>1, <4>2, <2>4
      <4>3. CASE k \in 2 .. i
        BY <4>1, <4>3, <2>1
      <4> QED
        BY <4>2, <4>3, <1>1
    <3>2. FirstNodes(nodeIds, p) \subseteq FirstNodes(nodeIds, i)
      BY <2>1, <2>3, <2>4
    <3>3. x \in FirstNodes(nodeIds, i)
      BY <2>3, <2>4
    <3> QED
      BY <3>1, <3>2, <3>3
  <2>6. x \notin FirstNodes(nodeIds, p)
    BY <2>1, <2>2
  <2> QED
    BY <2>5, <2>6
<1>7. h \in [FirstNodes(nodeIds, i) -> S]
  <2> HIDE DEF S
  <2> QED
    BY <1>2, <1>5, <1>6
<1>8. h[x] = rsps /\ \A k \in 2 .. i : nodeIds[k] # x /\ h[nodeIds[k]] = s.hrsp[nodeIds[k]]
  <2>1. \A k \in 2 .. i : nodeIds[k] \in FirstNodes(nodeIds, p)
    BY <1>1 DEF FirstNodes
  <2> HIDE DEF S
  <2> QED
    BY <2>1, <1>2, <1>6
<1> HIDE DEF h
<1>9. FromMap(h, nodeIds, i, n, rspsMap)
  <2>1. \A k \in 2 .. i : Picked(s.hrsp[nodeIds[k]], rspsMap[nodeIds[k]], n)
    BY <1>1, <1>2 DEF FromMap
  <2> QED
    BY <2>1, <1>1, <1>5, <1>8 DEF FromMap, x
<1> DEFINE c == [k \in 1 .. i + 1 |-> IF k = i + 1 THEN s.id + Len(rsps) ELSE b[k]]
<1>10. /\ b \in [1 .. i -> Nat] /\ b[1] = id /\ b[i] = s.id
       /\ \A k \in 2 .. i : /\ b[k] = b[k - 1] + Len(s.hrsp[nodeIds[k]])
                            /\ \A j \in 1 .. Len(s.hrsp[nodeIds[k]]) : s.hrsp[nodeIds[k]][j].pathID = b[k - 1] + j - 1
  BY <1>1, <1>3 DEF Counts
<1>11. /\ c \in [1 .. i + 1 -> Nat] /\ c[1] = id /\ c[i + 1] = s.id + Len(rsps)
       /\ \A k \in 1 .. i : c[k] = b[k]
  <2> DEFINE z == s.id + Len(rsps)
  <2>1. z \in Nat
    BY SMTT(60), <1>2, <1>50
  <2>2. \A k \in 1 .. i + 1 : k # i + 1 => k \in 1 .. i
    BY <1>1
  <2>3. \A k \in 1 .. i : k \in 1 .. i + 1 /\ k # i + 1
    BY <1>1
  <2>4. i + 1 \in 1 .. i + 1 /\ 1 \in 1 .. i
    BY <1>1
  <2>5. c = [k \in 1 .. i + 1 |-> IF k = i + 1 THEN z ELSE b[k]]
    OBVIOUS
  <2> HIDE DEF z, c
  <2>6. c \in [1 .. i + 1 -> Nat]
    BY <2>1, <2>2, <2>5, <1>10
  <2>7. c[i + 1] = z
    BY <2>4, <2>5
  <2>8. \A k \in 1 .. i : c[k] = b[k]
    BY <2>3, <2>5
  <2>9. c[1] = id
    BY <2>4, <2>8, <1>10
  <2> QED
    BY <2>6, <2>7, <2>8, <2>9 DEF z
<1> HIDE DEF c
<1>12. ASSUME NEW k \in 2 .. i + 1
       PROVE  /\ c[k] = c[k - 1] + Len(h[nodeIds[k]])
              /\ \A j \in 1 .. Len(h[nodeIds[k]]) : h[nodeIds[k]][j].pathID = c[k - 1] + j - 1
  <2>1. CASE k = i + 1
    <3>1. k - 1 = i /\ i \in 1 .. i /\ nodeIds[k] = x
      BY <2>1, <1>1 DEF x
    <3>2. c[k - 1] = s.id /\ c[k] = s.id + Len(rsps) /\ h[nodeIds[k]] = rsps
      BY <3>1, <2>1, <1>8, <1>10, <1>11
    <3> QED
      BY <3>2, <1>5
  <2>2. CASE k \in 2 .. i
    <3>1. k - 1 \in 1 .. i /\ k \in 1 .. i
      BY <2>2, <1>1
    <3>2. c[k - 1] = b[k - 1] /\ c[k] = b[k]
      BY <3>1, <1>11
    <3>3. h[nodeIds[k]] = s.hrsp[nodeIds[k]]
      BY <2>2, <1>8
    <3> QED
      BY <3>2, <3>3, <2>2, <1>10
  <2> QED
    BY <2>1, <2>2, <1>1
<1>13. Counts(c, h, nodeIds, i, id)
  BY <1>11, <1>12 DEF Counts
<1>14. r \in Listings(n)
  <2>1. FirstNodes(nodeIds, i) \in SUBSET (0 .. n - 1)
    <3>1. \A k \in 2 .. i + 1 : k \in 1 .. Len(nodeIds)
      BY <1>1
    <3> QED
      BY <3>1, <1>1 DEF FirstNodes
  <2>2. s.id + Len(rsps) \in Nat
    BY SMTT(60), <1>2, <1>50
  <2> QED
    BY <2>1, <2>2, <1>4, <1>7 DEF Listings
<1>15. r.hrsp = h /\ r.id = s.id + Len(rsps)
  BY <1>4
<1> QED
  BY <1>7, <1>9, <1>11, <1>13, <1>14, <1>15 DEF Listed, r, x

LEMMA HrspIs ==
  ASSUME NEW n \in Nat, rspsMap \in [0 .. n - 1 -> Seq(RspRecords(n))], NEW nodeIds \in Seq(0 .. n - 1), Len(nodeIds) > 1,
         \A i, j \in 1 .. Len(nodeIds) : i # j => nodeIds[i] # nodeIds[j], NEW id \in Nat,
         NEW h, h = hrspOf(nodeIds, id)
  PROVE  /\ h \in [FirstNodes(nodeIds, Len(nodeIds) - 1) -> Seq(RspRecords(n))]
         /\ FromMap(h, nodeIds, Len(nodeIds) - 1, n, rspsMap)
         /\ \E b : Counts(b, h, nodeIds, Len(nodeIds) - 1, id)
<1> DEFINE m == Len(nodeIds) - 1
           s0 == [hrsp |-> <<>>, id |-> id]
           step(s, i) == enlist(s, nodeIds, nodeIds[i + 1])
           stage == [i \in 0 .. m |-> {s \in Listings(n) : Listed(s, nodeIds, i, n, id)}]
           F == [i \in 1 .. m |-> [o \in stage[i - 1] |-> step(o, i)]]
           a == CHOOSE f : f = [i \in 0 .. m |-> IF i = 0 THEN s0 ELSE step(f[i - 1], i)]
<1>1. m \in Nat
  OBVIOUS
<1>2. s0 \in stage[0]
  <2>1. FirstNodes(nodeIds, 0) = {} /\ <<>> \in [{} -> Seq(RspRecords(n))]
    BY DEF FirstNodes
  <2>2. s0.hrsp = <<>> /\ s0.id = id
    OBVIOUS
  <2>3. s0 \in Listings(n)
    BY <2>1 DEF Listings
  <2> HIDE DEF s0
  <2>4. FromMap(s0.hrsp, nodeIds, 0, n, rspsMap)
    BY DEF FromMap
  <2> DEFINE b == [k \in 1 .. 1 |-> id]
  <2>5. Counts(b, s0.hrsp, nodeIds, 0, id) /\ b[0 + 1] = s0.id
    BY <2>2 DEF Counts
  <2> HIDE DEF b
  <2>6. Listed(s0, nodeIds, 0, n, id)
    BY <2>1, <2>2, <2>3, <2>4, <2>5 DEF Listed
  <2> HIDE DEF m
  <2> QED
    BY <2>3, <2>6, <1>1
<1>3. ASSUME NEW i \in 1 .. m, NEW s \in stage[i - 1] PROVE step(s, i) \in stage[i]
  <2>1. i - 1 \in 0 .. m /\ i \in 0 .. m
    BY <1>1
  <2>2. Listed(s, nodeIds, i - 1, n, id)
    <3> HIDE DEF m
    <3> QED
      BY <2>1
  <2>3. Listed(step(s, i), nodeIds, i, n, id)
    BY <2>2, EnlistKeeps
  <2> HIDE DEF step, m
  <2>4. step(s, i) \in Listings(n)
    BY <2>3 DEF Listed
  <2> QED
    BY <2>1, <2>3, <2>4
<1>4. \A i \in 1 .. m : \A s \in stage[i - 1] : step(s, i) \in stage[i]
  <2> HIDE DEF step, stage, m
  <2> QED
    BY <1>3
<1> HIDE DEF m, s0, step, stage
<1>20. \A i \in 1 .. m : F[i] \in [stage[i - 1] -> stage[i]]
  BY <1>4
<1>21. PICK f : IsTrace(f, m) /\ IsRun(f, m, s0, F, stage)
  <2> HIDE DEF F
  <2> QED
    BY <1>1, <1>2, <1>20, RunExists
<1>22. f = [i \in 0 .. m |-> IF i = 0 THEN s0 ELSE step(f[i - 1], i)]
  <2>1. ASSUME NEW i \in 1 .. m PROVE f[i] = step(f[i - 1], i)
    <3>1. i - 1 \in 0 .. m /\ f[i] = F[i][f[i - 1]] /\ f[i - 1] \in stage[i - 1]
      <4> HIDE DEF F
      <4>1. i - 1 \in 0 .. m
        BY <1>1
      <4> QED
        BY <4>1, <1>21 DEF IsRun
    <3> QED
      BY <3>1
  <2>2. f[0] = s0
    BY <1>21 DEF IsRun
  <2>3. \A i \in 0 .. m : f[i] = IF i = 0 THEN s0 ELSE step(f[i - 1], i)
    BY <1>1, <2>1, <2>2
  <2> QED
    BY <1>21, <2>3 DEF IsTrace
<1>23. a = [i \in 0 .. m |-> IF i = 0 THEN s0 ELSE step(a[i - 1], i)]
  BY <1>22
<1> HIDE DEF a, F
<1>24. a[m] \in stage[m]
  <2>1. ASSUME NEW i \in 1 .. m, a[i - 1] \in stage[i - 1] PROVE a[i] \in stage[i]
    <3>1. a[i] = step(a[i - 1], i)
      BY <1>1, <1>23
    <3> QED
      BY <2>1, <3>1, <1>4
  <2>2. a[0] \in stage[0]
    BY <1>1, <1>2, <1>23
  <2>3. \A i \in 0 .. m : a[i] \in stage[i]
    BY <1>1, <2>1, <2>2, RunStays
  <2> QED
    BY <1>1, <2>3
<1>5. h = a[m].hrsp
  BY DEF hrspOf, Loop, a, step, s0, m
<1>6. Listed(a[m], nodeIds, m, n, id)
  BY <1>1, <1>24 DEF stage
<1> QED
  BY <1>5, <1>6 DEF Listed, m

\* What holds of RSPs holds of those picked from them.
LEMMA PickedList ==
  ASSUME NEW n, NEW r, NEW s, Picked(r, s, n), NEW g, NEW src, NEW D, NEW barred, RspList(s, g, n, src, D, barred)
  PROVE  RspList(r, g, n, src, D, barred)
<1>1. PICK h : Picks(h, r, s)
  BY DEF Picked
<1>2. /\ r \in Seq(RspRecords(n)) /\ h \in [1 .. Len(r) -> 1 .. Len(s)]
      /\ \A i, k \in 1 .. Len(r) : i # k => h[i] # h[k]
      /\ \A i \in 1 .. Len(r) : r[i].nodes = s[h[i]].nodes /\ r[i].linkDownDelay = s[h[i]].linkDownDelay
  BY <1>1 DEF Picked, Picks, SameRsp
<1>3. \A j \in 1 .. Len(r) : r[j] \in RspRecords(n) /\ h[j] \in 1 .. Len(s)
  BY <1>2
<1>4. ASSUME NEW j \in 1 .. Len(r)
      PROVE  Detour(r[j], g, n, src, D, {}) /\ pathLinkIds(g, r[j].nodes) \cap barred = {}
  <2>1. Detour(s[h[j]], g, n, src, D, {}) /\ pathLinkIds(g, s[h[j]].nodes) \cap barred = {}
    BY <1>3 DEF RspList
  <2> QED
    BY <2>1, <1>2, <1>3 DEF Detour
<1>5. ASSUME NEW i \in 1 .. Len(r), NEW j \in 1 .. Len(r), i # j
      PROVE  pathLinkIds(g, r[i].nodes) \cap pathLinkIds(g, r[j].nodes) = {}
  <2>1. h[i] # h[j] /\ h[i] \in 1 .. Len(s) /\ h[j] \in 1 .. Len(s)
    BY <1>2, <1>3, <1>5
  <2>2. pathLinkIds(g, s[h[i]].nodes) \cap pathLinkIds(g, s[h[j]].nodes) = {}
    BY <2>1 DEF RspList
  <2> QED
    BY <2>2, <1>2
<1> QED
  BY <1>2, <1>4, <1>5 DEF RspList

LEMMA PickedFits ==
  ASSUME NEW n, NEW r, NEW o, Picked(r, o, n), NEW s, NEW w, NEW x, Fits(s, o, w, x)
  PROVE  Fits(s, r, w, x)
<1>1. PICK h : Picks(h, r, o)
  BY DEF Picked
<1>2. \A i \in 1 .. Len(r) : /\ r[i].nodes = o[h[i]].nodes /\ r[i].linkDownDelay = o[h[i]].linkDownDelay
                             /\ h[i] \in 1 .. Len(o)
  BY <1>1 DEF Picks, SameRsp
<1> QED
  BY <1>2 DEF Fits

LEMMA PickedPaths ==
  ASSUME NEW n, NEW r, NEW s, Picked(r, s, n), NEW g, \A j \in 1 .. Len(s) : IsPath(s[j].nodes, g, n, {})
  PROVE  \A j \in 1 .. Len(r) : IsPath(r[j].nodes, g, n, {})
<1>1. PICK h : Picks(h, r, s)
  BY DEF Picked
<1>2. \A i \in 1 .. Len(r) : r[i].nodes = s[h[i]].nodes /\ h[i] \in 1 .. Len(s)
  BY <1>1 DEF Picks, SameRsp
<1> QED
  BY <1>2

\* What the RSPs of x are once some were erased: those found with w before it,
\* if any were found.
Kept(s, g, n, c, w, x, rsps) ==
  /\ s.maxDelays[x] >= s.maxDelays[w] + 1
  /\ FreshRsps(s, g, c, w, x) # <<>>
       => /\ RspList(rsps, g, n, x, NodesOf(pathOf(s, w)), barredFor(s, g, w, x))
          /\ Fits(s, rsps, w, x)

AllKept(s, g, n, c) ==
  \A x \in 0 .. n - 1 : s.prevNodeIdx[x] # NULL => Kept(s, g, n, c, s.prevNodeIdx[x], x, s.rspsMap[x])

LateInv(s, g, n, c) ==
  /\ s \in SearchRecs(n)
  /\ Ranked(s.prevNodeIdx, s.isNodeIdInQ, 0 .. n - 1)
  /\ ReachedOut(s, g, 0 .. n - 1)
  /\ AllKept(s, g, n, c)
  /\ RspsArePaths(s.rspsMap, g, n)

LEMMA LateAtFirst ==
  ASSUME NEW n \in Nat, NEW g, Network(g, n), NEW c, c.beta \in Nat, NEW s, SearchInv(s, g, n, c)
  PROVE  LateInv(s, g, n, c)
<1>1. /\ s \in SearchRecs(n) /\ Ranked(s.prevNodeIdx, s.isNodeIdInQ, 0 .. n - 1) /\ ReachedOut(s, g, 0 .. n - 1)
      /\ RspsArePaths(s.rspsMap, g, n) /\ AllFitted(s, g, c, 0 .. n - 1)
  BY DEF SearchInv
<1>2. ASSUME NEW x \in 0 .. n - 1, s.prevNodeIdx[x] # NULL
      PROVE  Kept(s, g, n, c, s.prevNodeIdx[x], x, s.rspsMap[x])
  <2> DEFINE w == s.prevNodeIdx[x]
             fresh == FreshRsps(s, g, c, w, x)
             old == s.rspsMap[x]
  <2>1. w \in 0 .. n - 1
    BY <1>1, <1>2, RecFields DEF NodeOrNull
  <2>2. Fits(s, fresh, w, x) /\ (fresh # <<>> => old = fresh)
    BY <1>1, <1>2 DEF AllFitted, Fitted
  <2> HIDE DEF w
  <2>3. RspList(fresh, g, n, x, NodesOf(pathOf(s, w)), barredFor(s, g, w, x))
    BY <1>1, <2>1, FreshAre
  <2>4. s.maxDelays[x] >= s.maxDelays[w] + 1
    BY <2>2 DEF Fits
  <2> HIDE DEF old
  <2>5. Kept(s, g, n, c, w, x, old)
    <3>1. fresh # <<>> => RspList(old, g, n, x, NodesOf(pathOf(s, w)), barredFor(s, g, w, x)) /\ Fits(s, old, w, x)
      BY <2>2, <2>3
    <3> QED
      BY <2>4, <3>1 DEF Kept
  <2> QED
    BY <2>5 DEF w, old
<1> QED
  BY <1>1, <1>2 DEF LateInv, AllKept

\* Two states of the search that differ in RSPs only.
SameSearch(r, s) ==
  /\ r.q = s.q /\ r.isNodeIdInQ = s.isNodeIdInQ /\ r.prevNodeIdx = s.prevNodeIdx /\ r.maxDelays = s.maxDelays

LEMMA SameKept ==
  ASSUME NEW r, NEW s, SameSearch(r, s), NEW g, NEW n, NEW c, NEW w, NEW x, NEW rsps, Kept(s, g, n, c, w, x, rsps)
  PROVE  Kept(r, g, n, c, w, x, rsps)
<1>1. /\ r.maxDelays = s.maxDelays /\ pathOf(r, w) = pathOf(s, w) /\ barredFor(r, g, w, x) = barredFor(s, g, w, x)
      /\ FreshRsps(r, g, c, w, x) = FreshRsps(s, g, c, w, x)
  BY DEF SameSearch, pathOf, barredFor, FreshRsps
<1>2. Fits(s, rsps, w, x) => Fits(r, rsps, w, x)
  BY <1>1 DEF Fits
<1> QED
  BY <1>1, <1>2 DEF Kept

LEMMA PickedKept ==
  ASSUME NEW s, NEW g, NEW n, NEW c, NEW w, NEW x, NEW o, Kept(s, g, n, c, w, x, o), NEW r, Picked(r, o, n)
  PROVE  Kept(s, g, n, c, w, x, r)
<1> DEFINE fresh == FreshRsps(s, g, c, w, x)
           D == NodesOf(pathOf(s, w))
           barred == barredFor(s, g, w, x)
<1>1. s.maxDelays[x] >= s.maxDelays[w] + 1 /\ (fresh # <<>> => RspList(o, g, n, x, D, barred) /\ Fits(s, o, w, x))
  BY DEF Kept
<1> HIDE DEF fresh, D, barred
<1>2. RspList(o, g, n, x, D, barred) => RspList(r, g, n, x, D, barred)
  BY PickedList
<1>3. Fits(s, o, w, x) => Fits(s, r, w, x)
  BY PickedFits
<1> QED
  BY <1>1, <1>2, <1>3 DEF Kept, fresh, D, barred

LEMMA LateStays ==
  ASSUME NEW n \in Nat, NEW g, NEW c, NEW s, LateInv(s, g, n, c), NEW r \in SearchRecs(n), SameSearch(r, s),
         \A x \in 0 .. n - 1 : Picked(r.rspsMap[x], s.rspsMap[x], n)
  PROVE  LateInv(r, g, n, c)
<1>1. /\ s \in SearchRecs(n) /\ Ranked(s.prevNodeIdx, s.isNodeIdInQ, 0 .. n - 1) /\ ReachedOut(s, g, 0 .. n - 1)
      /\ RspsArePaths(s.rspsMap, g, n) /\ AllKept(s, g, n, c)
  BY DEF LateInv
<1>2. r.q = s.q /\ r.isNodeIdInQ = s.isNodeIdInQ /\ r.prevNodeIdx = s.prevNodeIdx
  BY DEF SameSearch
<1>3. ReachedOut(r, g, 0 .. n - 1) /\ Ranked(r.prevNodeIdx, r.isNodeIdInQ, 0 .. n - 1)
  BY <1>1, <1>2 DEF ReachedOut
<1>4. ASSUME NEW x \in 0 .. n - 1, r.prevNodeIdx[x] # NULL
      PROVE  Kept(r, g, n, c, r.prevNodeIdx[x], x, r.rspsMap[x])
  <2> DEFINE w == r.prevNodeIdx[x]
             o == s.rspsMap[x]
             m == r.rspsMap[x]
  <2>1. Kept(s, g, n, c, w, x, o)
    BY <1>1, <1>2, <1>4 DEF AllKept
  <2>2. Picked(m, o, n)
    OBVIOUS
  <2> HIDE DEF w, o, m
  <2>3. Kept(s, g, n, c, w, x, m)
    BY <2>1, <2>2, PickedKept
  <2>4. Kept(r, g, n, c, w, x, m)
    BY <2>3, SameKept
  <2> QED
    BY <2>4 DEF w, m
<1>5. RspsArePaths(r.rspsMap, g, n)
  <2> SUFFICES ASSUME NEW x \in 0 .. n - 1 PROVE \A j \in 1 .. Len(r.rspsMap[x]) : IsPath(r.rspsMap[x][j].nodes, g, n, {})
    BY DEF RspsArePaths
  <2> DEFINE o == s.rspsMap[x]
             m == r.rspsMap[x]
  <2>1. Picked(m, o, n) /\ \A j \in 1 .. Len(o) : IsPath(o[j].nodes, g, n, {})
    BY <1>1 DEF RspsArePaths
  <2> HIDE DEF o, m
  <2>2. \A j \in 1 .. Len(m) : IsPath(m[j].nodes, g, n, {})
    BY <2>1, PickedPaths
  <2> QED
    BY <2>2 DEF m
<1> QED
  BY <1>3, <1>4, <1>5 DEF LateInv, AllKept

Distinct(p) == \A i, j \in 1 .. Len(p) : i # j => p[i] # p[j]

LEMMA TrailDistinct ==
  ASSUME NEW Id, Ids(Id), NEW prev \in [Id -> NodeOrNull(Id)], NEW inQ, Ranked(prev, inQ, Id),
         NEW src, NEW u \in Id, NEW p, Trail(p, prev, src, u, Id)
  PROVE  Distinct(p)
<1>1. \A i, j \in 1 .. Len(p) : i # j => p[i] # p[j]
  BY TrailClimbs
<1> QED
  BY <1>1 DEF Distinct

Climbs(p, s) ==
  \A i \in 2 .. Len(p) : /\ s.prevNodeIdx[p[i]] = p[i - 1] /\ s.prevNodeIdx[p[i]] # NULL
                         /\ pathOf(s, p[i - 1]) = SubSeq(p, 1, i - 1)

\* The PP to a node is a path, made of the PPs to the nodes on it.
LEMMA PrimaryPath ==
  ASSUME NEW n \in Nat, NEW g, NEW c, NEW s, LateInv(s, g, n, c), NEW u \in 0 .. n - 1,
         NEW p, p = pathOf(s, u)
  PROVE  IsPath(p, g, n, {}) /\ p[Len(p)] = u /\ Climbs(p, s)
<1> DEFINE Id == 0 .. n - 1
           P == s.prevNodeIdx
           inQ == s.isNodeIdInQ
           m == Len(p)
<1>1. s \in SearchRecs(n) /\ Ranked(P, inQ, Id) /\ ReachedOut(s, g, Id)
  BY DEF LateInv
<1>2. P \in [Id -> NodeOrNull(Id)] /\ Ids(Id) /\ NULL \notin Id /\ u \in Id
  BY <1>1, RecFields, IdsBelow
<1>20. \A x \in Id : P[x] # NULL => Hop(g, P[x], x, {})
  BY <1>1 DEF ReachedOut
<1>30. \A x : pathOf(s, x) = convertPrevArrayToPathNodeIdsArray(P, Producer, x)
  BY DEF pathOf
<1>31. Id = 0 .. n - 1
  OBVIOUS
<1> HIDE DEF Id, P, inQ
<1>3. Trail(p, P, Producer, u, Id) /\ Full(p, P, Producer)
  <2>1. p = convertPrevArrayToPathNodeIdsArray(P, Producer, u)
    BY <1>30
  <2> QED
    BY <2>1, <1>1, <1>2, PathIs
<1>4. \A i, j \in 1 .. Len(p) : i # j => p[i] # p[j]
  <2>1. Ids(Id) /\ P \in [Id -> NodeOrNull(Id)] /\ Ranked(P, inQ, Id) /\ u \in Id /\ Trail(p, P, Producer, u, Id)
    BY <1>1, <1>2, <1>3
  <2>2. Distinct(p)
    BY <2>1, TrailDistinct
  <2> QED
    BY <2>2 DEF Distinct
<1>5. /\ p \in Seq(Id) /\ m \in Nat \ {0} /\ p[m] = u
      /\ \A i \in 2 .. m : p[i - 1] = P[p[i]] /\ p[i] # Producer
  BY <1>3 DEF Trail
<1>6. \A i \in 1 .. m : p[i] \in Id
  BY <1>5
<1>60. m = Len(p)
  OBVIOUS
<1> HIDE DEF m
<1>7. ASSUME NEW i \in 2 .. m
      PROVE  P[p[i]] = p[i - 1] /\ P[p[i]] # NULL /\ p[i - 1] \in Id /\ Hop(g, p[i - 1], p[i], {})
  <2>1. i \in 1 .. m /\ i - 1 \in 1 .. m
    BY <1>5
  <2>2. p[i] \in Id /\ p[i - 1] \in Id /\ P[p[i]] = p[i - 1]
    BY <2>1, <1>5, <1>6
  <2> QED
    BY <2>2, <1>2, <1>20
<1>8. IsPath(p, g, n, {})
  BY <1>4, <1>5, <1>7, <1>31, <1>60 DEF IsPath
<1>9. ASSUME NEW i \in 2 .. m PROVE pathOf(s, p[i - 1]) = SubSeq(p, 1, i - 1)
  <2> DEFINE k == i - 1
             x == p[k]
             r == pathOf(s, x)
             t == SubSeq(p, 1, k)
  <2>1. k \in 1 .. m /\ k \in Nat \ {0} /\ k <= m /\ x \in Id
    BY <1>5, <1>6
  <2> HIDE DEF k
  <2>2. t \in Seq(Id) /\ Len(t) = k /\ \A j \in 1 .. k : t[j] = p[j]
    BY <2>1, <1>5, <1>60
  <2> HIDE DEF t
  <2>3. Trail(t, P, Producer, x, Id)
    <3>1. ASSUME NEW j \in 2 .. k PROVE t[j - 1] = P[t[j]] /\ t[j] # Producer
      <4>1. j \in 1 .. k /\ j - 1 \in 1 .. k /\ j \in 2 .. m
        BY <2>1, <1>5
      <4> QED
        BY <4>1, <2>2, <1>5
    <3>2. t[k] = x
      BY <2>1, <2>2
    <3> HIDE DEF x
    <3> QED
      BY <2>1, <2>2, <3>1, <3>2 DEF Trail
  <2>4. Full(t, P, Producer)
    <3>1. t[1] = p[1]
      <4>1. 1 \in 1 .. k
        BY <2>1
      <4> QED
        BY <4>1, <2>2
    <3> QED
      BY <3>1, <1>3 DEF Full
  <2>5. r = convertPrevArrayToPathNodeIdsArray(P, Producer, x)
    BY <1>30
  <2> HIDE DEF x, r
  <2>6. Trail(r, P, Producer, x, Id) /\ Full(r, P, Producer)
    BY <2>1, <2>5, <1>1, <1>2, PathIs
  <2>7. r = t
    BY <2>3, <2>4, <2>6, <1>2, TrailUnique
  <2> QED
    BY <2>7 DEF r, t, x, k
<1> QED
  BY <1>5, <1>7, <1>8, <1>9 DEF P, m, Climbs

\* The nodes of a PP.
LEMMA PathIds ==
  ASSUME NEW n, NEW g, NEW p, NEW barred, IsPath(p, g, n, barred)
  PROVE  /\ p \in Seq(0 .. n - 1) /\ Len(p) \in Nat \ {0} /\ DOMAIN p = 1 .. Len(p)
         /\ \A i \in 1 .. Len(p) : p[i] \in 0 .. n - 1
         /\ \A i, j \in 1 .. Len(p) : i # j => p[i] # p[j]
<1>1. p \in Seq(0 .. n - 1) /\ Len(p) \in Nat \ {0} /\ \A i, j \in 1 .. Len(p) : i # j => p[i] # p[j]
  BY DEF IsPath
<1> DEFINE S == 0 .. n - 1
<1>2. p \in Seq(S)
  BY <1>1
<1> HIDE DEF S
<1>3. DOMAIN p = 1 .. Len(p) /\ \A i \in 1 .. Len(p) : p[i] \in S
  BY <1>2
<1> QED
  BY <1>1, <1>3 DEF S

\* The RSPs of a flow are those of the nodes of its PP, and their ids are those
\* from id on.
OneOf(o, h, p) == \E i \in 2 .. Len(p) : \E k \in 1 .. Len(h[p[i]]) : o = h[p[i]][k]

Gathered(r, i, b, h, p, n, id) ==
  /\ r \in Seq(RspRecords(n)) /\ Len(r) = b[i + 1] - id
  /\ \A j \in 1 .. Len(r) : r[j].pathID = id + j - 1 /\ OneOf(r[j], h, p)

LEMMA GatherKeeps ==
  ASSUME NEW n, NEW p, NEW m \in Nat, Len(p) = m + 1, NEW h, \A i \in 2 .. Len(p) : h[p[i]] \in Seq(RspRecords(n)),
         NEW id \in Nat, NEW b, Counts(b, h, p, m, id), NEW i \in 1 .. m, NEW r, Gathered(r, i - 1, b, h, p, n, id)
  PROVE  Gathered(r \o h[p[i + 1]], i, b, h, p, n, id)
<1> DEFINE S == RspRecords(n)
           x == p[i + 1]
           t == h[x]
           s == r \o t
<1>1. i + 1 \in 2 .. m + 1 /\ (i - 1) + 1 = i /\ (i + 1) - 1 = i /\ i \in 1 .. m + 1 /\ i + 1 \in 1 .. m + 1
  OBVIOUS
<1>2. /\ b \in [1 .. m + 1 -> Nat] /\ b[i + 1] = b[i] + Len(t)
      /\ \A j \in 1 .. Len(t) : t[j].pathID = b[i] + j - 1
  BY <1>1 DEF Counts
<1>3. b[i] \in Nat /\ t \in Seq(S) /\ Len(t) \in Nat
  BY SMTT(60), <1>1, <1>2
<1>4. /\ r \in Seq(S) /\ Len(r) = b[i] - id /\ Len(r) \in Nat
      /\ \A j \in 1 .. Len(r) : r[j].pathID = id + j - 1 /\ OneOf(r[j], h, p)
  BY <1>1 DEF Gathered
<1>5. \A k \in 1 .. Len(t) : OneOf(t[k], h, p)
  BY <1>1 DEF OneOf
<1> HIDE DEF t, S
<1>6. s \in Seq(S) /\ Len(s) = Len(r) + Len(t) /\ \A j \in 1 .. Len(s) : s[j] = IF j <= Len(r) THEN r[j] ELSE t[j - Len(r)]
  <2>1. r \in Seq(S) /\ t \in Seq(S)
    BY <1>3, <1>4
  <2> QED
    BY <2>1
<1> HIDE DEF s
<1>7. ASSUME NEW j \in 1 .. Len(s) PROVE s[j].pathID = id + j - 1 /\ OneOf(s[j], h, p)
  <2>1. CASE j <= Len(r)
    <3>1. j \in 1 .. Len(r) /\ s[j] = r[j]
      BY <2>1, <1>4, <1>6
    <3> QED
      BY <3>1, <1>4
  <2>2. CASE ~(j <= Len(r))
    <3> DEFINE k == j - Len(r)
    <3>0. Len(r) \in Nat /\ Len(t) \in Nat /\ b[i] \in Nat /\ Len(r) = b[i] - id /\ Len(s) = Len(r) + Len(t)
      BY <1>3, <1>4, <1>6
    <3>1. k \in 1 .. Len(t)
      BY SMTT(60), <3>0, <2>2
    <3>2. s[j] = t[k]
      BY <2>2, <1>6
    <3>3. b[i] + k - 1 = id + j - 1
      <4> DEFINE y == b[i]
                 l == Len(r)
      <4>1. y \in Nat /\ l \in Nat /\ l = y - id /\ k = j - l /\ j \in Nat
        BY <3>0
      <4> HIDE DEF y, l, k
      <4>2. y + k - 1 = id + j - 1
        BY <4>1
      <4> QED
        BY <4>2 DEF y
    <3> HIDE DEF k
    <3> QED
      BY <3>1, <3>2, <3>3, <1>2, <1>5
  <2> QED
    BY <2>1, <2>2
<1>8. Len(s) = b[i + 1] - id
  BY SMTT(60), <1>2, <1>3, <1>4, <1>6
<1> QED
  BY <1>6, <1>7, <1>8 DEF Gathered, s, S, t

LEMMA RspsOfFlowIs ==
  ASSUME NEW n, NEW rr, NEW p, p = rr.nodeIds, NEW m \in Nat, Len(p) = m + 1, NEW h, h = rr.hrsp,
         \A i \in 2 .. Len(p) : h[p[i]] \in Seq(RspRecords(n)), NEW id \in Nat, NEW b, Counts(b, h, p, m, id)
  PROVE  Gathered(rspsOfFlow(rr), m, b, h, p, n, id)
<1> DEFINE s0 == <<>>
           step(r, i) == r \o h[p[i + 1]]
           stage == [i \in 0 .. m |-> {r \in Seq(RspRecords(n)) : Gathered(r, i, b, h, p, n, id)}]
           F == [i \in 1 .. m |-> [o \in stage[i - 1] |-> step(o, i)]]
           a == CHOOSE f : f = [i \in 0 .. m |-> IF i = 0 THEN s0 ELSE step(f[i - 1], i)]
<1>1. m \in Nat
  OBVIOUS
<1>2. s0 \in stage[0]
  <2>1. b[1] = id /\ s0 \in Seq(RspRecords(n)) /\ Len(s0) = 0
    BY DEF Counts
  <2> HIDE DEF s0
  <2>2. Gathered(s0, 0, b, h, p, n, id)
    BY <2>1 DEF Gathered
  <2> QED
    BY <2>1, <2>2
<1>3. ASSUME NEW i \in 1 .. m, NEW r \in stage[i - 1] PROVE step(r, i) \in stage[i]
  <2>1. i - 1 \in 0 .. m /\ i \in 0 .. m
    OBVIOUS
  <2>2. Gathered(r, i - 1, b, h, p, n, id)
    BY <2>1
  <2>3. Gathered(r \o h[p[i + 1]], i, b, h, p, n, id)
    BY <2>2, GatherKeeps
  <2>4. Gathered(step(r, i), i, b, h, p, n, id)
    BY <2>3
  <2> HIDE DEF step
  <2>5. step(r, i) \in Seq(RspRecords(n))
    BY <2>4 DEF Gathered
  <2> QED
    BY <2>1, <2>4, <2>5
<1>4. \A i \in 1 .. m : \A r \in stage[i - 1] : step(r, i) \in stage[i]
  <2> HIDE DEF step, stage
  <2> QED
    BY <1>3
<1> HIDE DEF s0, step, stage
<1>20. \A i \in 1 .. m : F[i] \in [stage[i - 1] -> stage[i]]
  BY <1>4
<1>21. PICK f : IsTrace(f, m) /\ IsRun(f, m, s0, F, stage)
  <2> HIDE DEF F
  <2> QED
    BY <1>1, <1>2, <1>20, RunExists
<1>22. f = [i \in 0 .. m |-> IF i = 0 THEN s0 ELSE step(f[i - 1], i)]
  <2>1. ASSUME NEW i \in 1 .. m PROVE f[i] = step(f[i - 1], i)
    <3>1. i - 1 \in 0 .. m /\ f[i] = F[i][f[i - 1]] /\ f[i - 1] \in stage[i - 1]
      <4> HIDE DEF F
      <4>1. i - 1 \in 0 .. m
        BY <1>1
      <4> QED
        BY <4>1, <1>21 DEF IsRun
    <3> QED
      BY <3>1
  <2>2. f[0] = s0
    BY <1>21 DEF IsRun
  <2>3. \A i \in 0 .. m : f[i] = IF i = 0 THEN s0 ELSE step(f[i - 1], i)
    BY <1>1, <2>1, <2>2
  <2> QED
    BY <1>21, <2>3 DEF IsTrace
<1>23. a = [i \in 0 .. m |-> IF i = 0 THEN s0 ELSE step(a[i - 1], i)]
  BY <1>22
<1> HIDE DEF a, F
<1>24. a[m] \in stage[m]
  <2>1. ASSUME NEW i \in 1 .. m, a[i - 1] \in stage[i - 1] PROVE a[i] \in stage[i]
    <3>1. a[i] = step(a[i - 1], i)
      BY <1>1, <1>23
    <3> QED
      BY <2>1, <3>1, <1>4
  <2>2. a[0] \in stage[0]
    BY <1>1, <1>2, <1>23
  <2>3. \A i \in 0 .. m : a[i] \in stage[i]
    BY <1>1, <2>1, <2>2, RunStays
  <2> QED
    BY <1>1, <2>3
<1>5. rspsOfFlow(rr) = a[m]
  <2>1. Len(rr.nodeIds) - 1 = m
    OBVIOUS
  <2> QED
    BY <2>1 DEF rspsOfFlow, Loop, a, step, s0
<1> QED
  BY <1>1, <1>5, <1>24 DEF stage

\* What the routes of a flow are, by the search that has ended.
HrspOK(h, p, s, g, n, c) ==
  \A i \in 2 .. Len(p) :
    /\ Kept(s, g, n, c, p[i - 1], p[i], h[p[i]])
    /\ \A j \in 1 .. Len(h[p[i]]) : IsPath(h[p[i]][j].nodes, g, n, {})

FlowOK(rr, s, g, n, c) ==
  /\ rr.consumer \in 0 .. n - 1 /\ rr.nodeIds = pathOf(s, rr.consumer) /\ Len(rr.nodeIds) > 1
  /\ rr.maxRrDelay = s.maxDelays[rr.consumer] /\ rr.pathID \in Nat
  /\ rr.hrsp \in [FirstNodes(rr.nodeIds, Len(rr.nodeIds) - 1) -> Seq(RspRecords(n))]
  /\ HrspOK(rr.hrsp, rr.nodeIds, s, g, n, c)
  /\ \E b : Counts(b, rr.hrsp, rr.nodeIds, Len(rr.nodeIds) - 1, rr.pathID + 1)

\* The RSPs of the nodes of a PP are picked from those of the search.
LEMMA HrspStays ==
  ASSUME NEW n \in Nat, NEW g, NEW c, NEW s, LateInv(s, g, n, c), NEW u \in 0 .. n - 1,
         NEW p, p = pathOf(s, u), Len(p) > 1, NEW h, FromMap(h, p, Len(p) - 1, n, s.rspsMap)
  PROVE  HrspOK(h, p, s, g, n, c)
<1>1. /\ IsPath(p, g, n, {}) /\ \A i \in 2 .. Len(p) : s.prevNodeIdx[p[i]] = p[i - 1] /\ s.prevNodeIdx[p[i]] # NULL
  <2>1. IsPath(p, g, n, {}) /\ Climbs(p, s)
    BY PrimaryPath
  <2> QED
    BY <2>1 DEF Climbs
<1>2. Len(p) \in Nat /\ \A i \in 1 .. Len(p) : p[i] \in 0 .. n - 1
  BY <1>1, PathIds
<1>3. AllKept(s, g, n, c) /\ RspsArePaths(s.rspsMap, g, n)
  BY DEF LateInv
<1>4. SUFFICES ASSUME NEW i \in 2 .. Len(p)
               PROVE  /\ Kept(s, g, n, c, p[i - 1], p[i], h[p[i]])
                      /\ \A j \in 1 .. Len(h[p[i]]) : IsPath(h[p[i]][j].nodes, g, n, {})
  BY DEF HrspOK
<1> DEFINE x == p[i]
           w == p[i - 1]
           o == s.rspsMap[x]
           r == h[x]
<1>5. x \in 0 .. n - 1 /\ s.prevNodeIdx[x] = w /\ s.prevNodeIdx[x] # NULL
  BY <1>1, <1>2
<1>6. Picked(r, o, n)
  <2>1. i \in 2 .. (Len(p) - 1) + 1
    BY <1>2
  <2> QED
    BY <2>1 DEF FromMap
<1>7. Kept(s, g, n, c, w, x, o) /\ \A j \in 1 .. Len(o) : IsPath(o[j].nodes, g, n, {})
  <2>1. Kept(s, g, n, c, s.prevNodeIdx[x], x, s.rspsMap[x])
    BY <1>3, <1>5 DEF AllKept
  <2>2. \A j \in 1 .. Len(o) : IsPath(o[j].nodes, g, n, {})
    BY <1>3, <1>5 DEF RspsArePaths
  <2> QED
    BY <2>1, <2>2, <1>5
<1> HIDE DEF x, w, o, r
<1>8. Kept(s, g, n, c, w, x, r)
  BY <1>6, <1>7, PickedKept
<1>9. \A j \in 1 .. Len(r) : IsPath(r[j].nodes, g, n, {})
  BY <1>6, <1>7, PickedPaths
<1> QED
  BY <1>8, <1>9 DEF x, w, r

LEMMA ConstructedIs ==
  ASSUME NEW n \in Nat, NEW g, NEW c, NEW s, LateInv(s, g, n, c), s.rspsMap = rspsMap, s.prevNodeIdx = prevNodeIdx,
         s.maxDelays = maxDelays, nextPathID \in Nat,
         NEW u \in 0 .. n - 1, Len(pathTo(u)) > 1, NEW rr, rr = constructResilientRoutes(u)
  PROVE  /\ FlowOK(rr, s, g, n, c)
         /\ DOMAIN rr.hrsp \subseteq 0 .. n - 1 /\ rr.pathID = nextPathID
         /\ \A x \in DOMAIN rr.hrsp : Picked(rr.hrsp[x], rspsMap[x], n)
<1> DEFINE p == pathOf(s, u)
           h == hrspOf(p, nextPathID + 1)
           m == Len(p) - 1
           T == FirstNodes(p, m)
<1>1. pathTo(u) = p
  BY DEF pathTo, pathOf
<1>2. /\ rr.consumer = u /\ rr.nodeIds = p /\ rr.pathID = nextPathID /\ rr.hrsp = h /\ rr.maxRrDelay = s.maxDelays[u]
  BY <1>1 DEF constructResilientRoutes
<1>3. IsPath(p, g, n, {})
  BY PrimaryPath
<1> HIDE DEF p
<1>4. /\ p \in Seq(0 .. n - 1) /\ Len(p) \in Nat /\ Len(p) > 1 /\ \A i, j \in 1 .. Len(p) : i # j => p[i] # p[j]
      /\ \A i \in 1 .. Len(p) : p[i] \in 0 .. n - 1
  BY <1>1, <1>3, PathIds
<1>5. rspsMap \in [0 .. n - 1 -> Seq(RspRecords(n))] /\ nextPathID + 1 \in Nat
  <2>1. s \in SearchRecs(n)
    BY DEF LateInv
  <2>2. s.rspsMap \in [0 .. n - 1 -> Seq(RspRecords(n))]
    BY <2>1, RecFields
  <2> QED
    BY <2>2
<1>60. h = hrspOf(p, nextPathID + 1)
  OBVIOUS
<1> HIDE DEF h
<1>6. /\ h \in [T -> Seq(RspRecords(n))] /\ FromMap(h, p, m, n, rspsMap) /\ \E b : Counts(b, h, p, m, nextPathID + 1)
  BY <1>4, <1>5, <1>60, HrspIs
<1>7. HrspOK(h, p, s, g, n, c)
  <2>1. p = pathOf(s, u) /\ Len(p) > 1 /\ FromMap(h, p, Len(p) - 1, n, s.rspsMap)
    BY <1>4, <1>6 DEF p
  <2> QED
    BY <2>1, HrspStays
<1>8. FlowOK(rr, s, g, n, c)
  BY <1>2, <1>4, <1>6, <1>7 DEF FlowOK, p
<1>9. DOMAIN h = T /\ T \subseteq 0 .. n - 1 /\ \A x \in T : Picked(h[x], rspsMap[x], n)
  <2>1. DOMAIN h = T
    BY <1>6
  <2>2. \A k \in 2 .. m + 1 : k \in 1 .. Len(p)
    BY <1>4
  <2>3. T \subseteq 0 .. n - 1
    BY <2>2, <1>4 DEF FirstNodes
  <2>4. \A x \in T : Picked(h[x], rspsMap[x], n)
    BY <1>6 DEF FirstNodes, FromMap
  <2> QED
    BY <2>1, <2>3, <2>4
<1> QED
  BY <1>2, <1>8, <1>9

\* The RSPs of a flow, with their ids.
LEMMA FlowRsps ==
  ASSUME NEW n \in Nat, NEW g, NEW c, NEW s, LateInv(s, g, n, c), NEW rr, FlowOK(rr, s, g, n, c)
  PROVE  /\ rspsOfFlow(rr) \in Seq(RspRecords(n))
         /\ \A j \in 1 .. Len(rspsOfFlow(rr)) :
              rspsOfFlow(rr)[j].pathID = rr.pathID + j /\ OneOf(rspsOfFlow(rr)[j], rr.hrsp, rr.nodeIds)
<1> DEFINE p == rr.nodeIds
           h == rr.hrsp
           m == Len(p) - 1
           r == rspsOfFlow(rr)
           id == rr.pathID + 1
<1>1. /\ p = pathOf(s, rr.consumer) /\ rr.consumer \in 0 .. n - 1 /\ h \in [FirstNodes(p, m) -> Seq(RspRecords(n))]
      /\ rr.pathID \in Nat /\ id \in Nat
  BY DEF FlowOK
<1>2. PICK b : Counts(b, h, p, m, id)
  BY DEF FlowOK
<1> HIDE DEF p
<1>3. IsPath(p, g, n, {})
  BY <1>1, PrimaryPath
<1>4. Len(p) \in Nat \ {0} /\ m \in Nat /\ Len(p) = m + 1
  BY <1>3, PathIds
<1>5. \A i \in 2 .. Len(p) : h[p[i]] \in Seq(RspRecords(n))
  <2>1. \A i \in 2 .. Len(p) : p[i] \in FirstNodes(p, m)
    BY <1>4 DEF FirstNodes
  <2> DEFINE S == Seq(RspRecords(n))
  <2>2. h \in [FirstNodes(p, m) -> S]
    BY <1>1
  <2> HIDE DEF S, h
  <2>3. \A i \in 2 .. Len(p) : h[p[i]] \in S
    BY <2>1, <2>2
  <2> QED
    BY <2>3 DEF S
<1>50. h = rr.hrsp /\ p = rr.nodeIds
  BY DEF p
<1> HIDE DEF h, m, id
<1>6. Gathered(r, m, b, h, p, n, id)
  BY <1>1, <1>2, <1>4, <1>5, <1>50, RspsOfFlowIs
<1> HIDE DEF r
<1>7. r \in Seq(RspRecords(n)) /\ \A j \in 1 .. Len(r) : r[j].pathID = id + j - 1 /\ OneOf(r[j], h, p)
  BY <1>6 DEF Gathered
<1>8. \A j \in 1 .. Len(r) : id + j - 1 = rr.pathID + j
  BY <1>1, <1>7 DEF id
<1> QED
  BY <1>7, <1>8 DEF r, h, p

LEMMA SameFlow ==
  ASSUME NEW r, NEW s, SameSearch(r, s), NEW rr, NEW g, NEW n, NEW c, FlowOK(rr, s, g, n, c)
  PROVE  FlowOK(rr, r, g, n, c)
<1>1. r.maxDelays = s.maxDelays /\ \A u : pathOf(r, u) = pathOf(s, u)
  BY DEF SameSearch, pathOf
<1>2. HrspOK(rr.hrsp, rr.nodeIds, s, g, n, c)
  BY DEF FlowOK
<1>3. HrspOK(rr.hrsp, rr.nodeIds, r, g, n, c)
  <2> DEFINE h == rr.hrsp
             p == rr.nodeIds
  <2>1. HrspOK(h, p, s, g, n, c)
    BY <1>2
  <2> HIDE DEF h, p
  <2>2. ASSUME NEW i \in 2 .. Len(p) PROVE Kept(r, g, n, c, p[i - 1], p[i], h[p[i]])
    <3>1. Kept(s, g, n, c, p[i - 1], p[i], h[p[i]])
      BY <2>1 DEF HrspOK
    <3> QED
      BY <3>1, SameKept
  <2>3. HrspOK(h, p, r, g, n, c)
    BY <2>1, <2>2 DEF HrspOK
  <2> QED
    BY <2>3 DEF h, p
<1> QED
  BY <1>1, <1>3 DEF FlowOK

\* Once the search has ended, the routes are those of its result.
RouteIInv ==
  /\ SearchIInv
  /\ LateInv(Current, graph, graph.nNodes, config)
  /\ nextPathID \in Nat
  /\ \A k \in DOMAIN flows : FlowOK(flows[k], Current, graph, graph.nNodes, config)

LEMMA SearchLate ==
  ASSUME Setting, SearchInv(Current, graph, graph.nNodes, config)
  PROVE  LateInv(Current, graph, graph.nNodes, config)
<1> DEFINE n == graph.nNodes
           s == Current
<1>1. n \in Nat /\ Network(graph, n) /\ config.beta \in Nat /\ SearchInv(s, graph, n, config)
  BY DEF Setting
<1> HIDE DEF n, s
<1>2. LateInv(s, graph, n, config)
  BY <1>1, LateAtFirst
<1> QED
  BY <1>2 DEF n, s

\* The routes of one more consumer.
LEMMA ComputeStep ==
  ASSUME RouteIInv, computeRoutesForCommPairs
  PROVE  /\ LateInv(Current', graph, graph.nNodes, config)
         /\ nextPathID' \in Nat
         /\ \A k \in DOMAIN flows' : FlowOK(flows'[k], Current', graph, graph.nNodes, config)
<1> DEFINE n == graph.nNodes
           s == Current
           t == Current'
           u == Consumers[Len(flows) + 1]
           rr == constructResilientRoutes(u)
           old == rspsMap
           new == rspsMap'
           r == rspsOfFlow(rr)
<1>1. /\ flows' = Append(flows, rr) /\ nextPathID' = nextPathID + 1 + Len(r)
      /\ new = [x \in Nodes |-> IF x \in DOMAIN rr.hrsp THEN rr.hrsp[x] ELSE old[x]]
      /\ UNCHANGED searchVars /\ Len(flows) < Len(Consumers) /\ Len(pathTo(u)) > 1
  BY DEF computeRoutesForCommPairs
<1>2. PICK S : flows \in Seq(S)
  BY DEF RouteIInv, SearchIInv
<1>3. /\ n \in Nat /\ Nodes = 0 .. n - 1 /\ Consumers \in Seq(Nodes)
      /\ LateInv(s, graph, n, config) /\ nextPathID \in Nat
      /\ \A k \in DOMAIN flows : FlowOK(flows[k], s, graph, n, config)
  BY DEF RouteIInv, SearchIInv, Setting, Nodes
<1>4. u \in 0 .. n - 1
  <2>1. Len(flows) \in Nat
    BY <1>2
  <2>2. Len(flows) + 1 \in 1 .. Len(Consumers)
    BY <2>1, <1>1, <1>3
  <2> HIDE DEF n
  <2> QED
    BY <2>2, <1>3
<1>5. s.rspsMap = old /\ s.prevNodeIdx = prevNodeIdx /\ s.maxDelays = maxDelays
  BY DEF Current
<1>50. /\ s = [q |-> q, isNodeIdInQ |-> isNodeIdInQ, primPathRelias |-> primPathRelias, rerouteLossRates |-> rerouteLossRates,
               maxPrimPathDelays |-> maxPrimPathDelays, maxDelays |-> maxDelays, prevNodeIdx |-> prevNodeIdx, rspsMap |-> old]
       /\ t = [q |-> q, isNodeIdInQ |-> isNodeIdInQ, primPathRelias |-> primPathRelias, rerouteLossRates |-> rerouteLossRates,
               maxPrimPathDelays |-> maxPrimPathDelays, maxDelays |-> maxDelays, prevNodeIdx |-> prevNodeIdx, rspsMap |-> new]
  BY <1>1 DEF Current, searchVars
<1>51. rr = constructResilientRoutes(u) /\ Len(pathTo(u)) > 1
  BY <1>1
<1> HIDE DEF n, s, u, rr, t, new
<1>6. /\ FlowOK(rr, s, graph, n, config)
      /\ DOMAIN rr.hrsp \subseteq 0 .. n - 1 /\ rr.pathID = nextPathID
      /\ \A x \in DOMAIN rr.hrsp : Picked(rr.hrsp[x], rspsMap[x], n)
  <2>1. s.rspsMap = rspsMap
    BY <1>5
  <2> QED
    BY <2>1, <1>3, <1>4, <1>5, <1>51, ConstructedIs
<1>7. r \in Seq(RspRecords(n))
  BY <1>3, <1>6, FlowRsps
<1>8. nextPathID' \in Nat
  <2>1. Len(r) \in Nat
    BY <1>7
  <2> HIDE DEF r
  <2> QED
    BY <2>1, <1>1, <1>3
<1> HIDE DEF r
<1>9. /\ t.q = s.q /\ t.isNodeIdInQ = s.isNodeIdInQ /\ t.prevNodeIdx = s.prevNodeIdx /\ t.maxDelays = s.maxDelays
      /\ t.rspsMap = new /\ SameSearch(t, s)
  BY <1>50 DEF SameSearch
<1>10. s \in SearchRecs(n) /\ old \in [0 .. n - 1 -> Seq(RspRecords(n))]
  <2>1. s \in SearchRecs(n)
    BY <1>3 DEF LateInv
  <2>2. s.rspsMap \in [0 .. n - 1 -> Seq(RspRecords(n))]
    BY <2>1, RecFields
  <2> QED
    BY <2>1, <2>2, <1>5
<1>11. \A x \in 0 .. n - 1 : Picked(new[x], old[x], n)
  <2> SUFFICES ASSUME NEW x \in 0 .. n - 1 PROVE Picked(new[x], old[x], n)
    OBVIOUS
  <2>1. new[x] = IF x \in DOMAIN rr.hrsp THEN rr.hrsp[x] ELSE old[x]
    BY <1>1, <1>3
  <2>2. CASE x \in DOMAIN rr.hrsp
    BY <2>1, <2>2, <1>6
  <2>3. CASE x \notin DOMAIN rr.hrsp
    <3> DEFINE o == old[x]
    <3>1. o \in Seq(RspRecords(n))
      BY <1>10
    <3> HIDE DEF o
    <3>2. Picked(o, o, n)
      BY <3>1, PickedSelf
    <3> QED
      BY <2>1, <2>3, <3>2 DEF o
  <2> QED
    BY <2>2, <2>3
<1>12. t \in SearchRecs(n)
  <2>1. \A x \in 0 .. n - 1 : new[x] \in Seq(RspRecords(n))
    BY <1>11 DEF Picked
  <2>2. new = [x \in 0 .. n - 1 |-> new[x]]
    BY <1>1, <1>3
  <2>3. new \in [0 .. n - 1 -> Seq(RspRecords(n))]
    <3> DEFINE R == Seq(RspRecords(n))
    <3>1. \A x \in 0 .. n - 1 : new[x] \in R
      BY <2>1
    <3> HIDE DEF R
    <3>2. new \in [0 .. n - 1 -> R]
      BY <2>2, <3>1
    <3> QED
      BY <3>2 DEF R
  <2>4. /\ q \in HeapsOn(0 .. n - 1) /\ isNodeIdInQ \in [0 .. n - 1 -> BOOLEAN]
        /\ primPathRelias \in [0 .. n - 1 -> Int] /\ rerouteLossRates \in [0 .. n - 1 -> Int]
        /\ maxPrimPathDelays \in [0 .. n - 1 -> Int] /\ maxDelays \in [0 .. n - 1 -> Nat]
        /\ prevNodeIdx \in [0 .. n - 1 -> NodeOrNull(0 .. n - 1)]
    <3>1. /\ s.q = q /\ s.isNodeIdInQ = isNodeIdInQ /\ s.primPathRelias = primPathRelias
          /\ s.rerouteLossRates = rerouteLossRates /\ s.maxPrimPathDelays = maxPrimPathDelays
          /\ s.maxDelays = maxDelays /\ s.prevNodeIdx = prevNodeIdx
      BY <1>50
    <3> QED
      BY <3>1, <1>10, RecFields
  <2> QED
    BY <2>3, <2>4, <1>50 DEF SearchRecs
<1>13. LateInv(t, graph, n, config)
  <2>1. \A x \in 0 .. n - 1 : Picked(t.rspsMap[x], s.rspsMap[x], n)
    BY <1>5, <1>9, <1>11
  <2> QED
    BY <2>1, <1>3, <1>9, <1>12, LateStays
<1>14. ASSUME NEW k \in DOMAIN flows' PROVE FlowOK(flows'[k], t, graph, n, config)
  <2>1. FlowOK(flows'[k], s, graph, n, config)
    <3>1. Len(flows) \in Nat /\ DOMAIN flows' = 1 .. Len(flows) + 1 /\ flows'[Len(flows) + 1] = rr
          /\ \A i \in 1 .. Len(flows) : flows'[i] = flows[i] /\ i \in DOMAIN flows
      <4>1. flows \in Seq(S \cup {rr})
        BY <1>2
      <4> QED
        BY <4>1, <1>1
    <3>2. k = Len(flows) + 1 \/ k \in 1 .. Len(flows)
      BY <3>1
    <3> QED
      BY <3>1, <3>2, <1>3, <1>6
  <2> QED
    BY <2>1, <1>9, SameFlow
<1> QED
  BY <1>8, <1>13, <1>14 DEF n, t

LEMMA InitRoutes ==
  ASSUME Init
  PROVE  RouteIInv
<1>1. SearchIInv
  BY InitSearch
<1>2. flows = <<>> /\ nextPathID = 0
  BY DEF Init
<1>3. LateInv(Current, graph, graph.nNodes, config)
  BY <1>1, <1>2, SearchLate DEF SearchIInv
<1> QED
  BY <1>1, <1>2, <1>3 DEF RouteIInv

LEMMA NextRoutes ==
  ASSUME RouteIInv, [Next]_vars
  PROVE  RouteIInv'
<1>1. SearchIInv'
  BY NextSearch DEF RouteIInv
<1>2. CASE genResilientRoutesVectors
  <2>1. searching /\ flows' = flows /\ nextPathID' = nextPathID /\ graph' = graph /\ config' = config /\ flows = <<>>
    BY <1>2 DEF genResilientRoutesVectors, routeVars, RouteIInv, SearchIInv
  <2>2. SearchInv(Current', graph, graph.nNodes, config) /\ Setting
    BY <1>2, <2>1, SearchStep DEF RouteIInv, SearchIInv
  <2>3. LateInv(Current', graph, graph.nNodes, config)
    <3> DEFINE n == graph.nNodes
               t == Current'
    <3>1. n \in Nat /\ Network(graph, n) /\ config.beta \in Nat /\ SearchInv(t, graph, n, config)
      BY <2>2 DEF Setting
    <3> HIDE DEF n, t
    <3>2. LateInv(t, graph, n, config)
      BY <3>1, LateAtFirst
    <3> QED
      BY <3>2 DEF n, t
  <2>4. flows' = <<>> /\ nextPathID' \in Nat
    BY <2>1 DEF RouteIInv
  <2> QED
    BY <1>1, <2>1, <2>3, <2>4 DEF RouteIInv
<1>3. CASE computeRoutesForCommPairs
  <2>1. graph' = graph /\ config' = config
    BY <1>3 DEF computeRoutesForCommPairs
  <2>2. /\ LateInv(Current', graph, graph.nNodes, config) /\ nextPathID' \in Nat
        /\ \A k \in DOMAIN flows' : FlowOK(flows'[k], Current', graph, graph.nNodes, config)
    BY <1>3, ComputeStep
  <2> QED
    BY <1>1, <2>1, <2>2 DEF RouteIInv
<1>4. CASE UNCHANGED <<graph, config, searchVars, rspsMap, searching, routeVars>>
  <2>1. flows' = flows /\ nextPathID' = nextPathID /\ graph' = graph /\ config' = config /\ Current' = Current
    BY <1>4 DEF searchVars, routeVars, Current
  <2> QED
    BY <1>1, <2>1 DEF RouteIInv
<1>5. findFaultLinks \/ simulateLinkErrors \/ UNCHANGED vars => UNCHANGED <<graph, config, searchVars, rspsMap, searching, routeVars>>
  BY DEF findFaultLinks, simulateLinkErrors, vars
<1> QED
  BY <1>2, <1>3, <1>4, <1>5 DEF Next

\* constructResilientRoutes, one consumer after the other, on the RSPs that the
\* ones before have erased and numbered: each flow has a path of predecessors as
\* its PP, and the RSPs of its nodes are among those the search found for them.
THEOREM RouteInvariant == Spec => []RouteIInv
<1>1. Init => RouteIInv
  BY InitRoutes
<1>2. RouteIInv /\ [Next]_vars => RouteIInv'
  BY NextRoutes
<1> QED
  BY <1>1, <1>2, PTL DEF Spec

\* Every RSP of the flows was found with the node before its start on the PP
\* before it: the search found RSPs for it there.  A node that gets another node
\* before it for which none are found keeps those it has.
NothingStale ==
  \A k \in DOMAIN flows :
    LET ids == flows[k].nodeIds IN
    \A i \in 2 .. Len(ids) :
      flows[k].hrsp[ids[i]] # <<>>
        => rspsOf(ids[i - 1], ids[i], getLinkByNodeIds(graph, ids[i - 1], ids[i])) # <<>>

\* The RSPs of the node at i of the PP of a flow.
Bypass(s, g, n, rr, i) ==
  LET p == rr.nodeIds
      r == rr.hrsp[p[i]]
  IN /\ \A j \in 1 .. Len(r) : /\ Detour(r[j], g, n, p[i], {p[k] : k \in 1 .. i - 1}, {})
                               /\ pathLinkIds(g, r[j].nodes) \cap pathLinkIds(g, SubSeq(p, 1, i)) = {}
     /\ \A j, l \in 1 .. Len(r) : j # l => pathLinkIds(g, r[j].nodes) \cap pathLinkIds(g, r[l].nodes) = {}
     /\ Fits(s, r, p[i - 1], p[i])

LinksJoin(g, p, i) == pathLinkIds(g, SubSeq(p, 1, i)) = pathLinkIds(g, SubSeq(p, 1, i - 1)) \cup {linkIdOf(g, p[i - 1], p[i])}

LEMMA LinksUpTo ==
  ASSUME NEW g, NEW T, NEW p \in Seq(T), NEW i \in 2 .. Len(p)
  PROVE  LinksJoin(g, p, i)
<1> DEFINE r == SubSeq(p, 1, i)
           t == SubSeq(p, 1, i - 1)
<1>1. i \in Nat /\ i - 1 \in Nat /\ i <= Len(p) /\ Len(p) \in Nat
  OBVIOUS
<1>2. Len(r) = i /\ \A j \in 1 .. i : r[j] = p[j]
  BY <1>1
<1>3. Len(t) = i - 1 /\ \A j \in 1 .. i - 1 : t[j] = p[j]
  BY <1>1
<1> HIDE DEF r, t
<1>4. \A j \in 2 .. i : j \in 1 .. i /\ j - 1 \in 1 .. i /\ (j = i \/ j \in 2 .. i - 1)
  BY <1>1
<1>5. \A j \in 2 .. i - 1 : j \in 1 .. i - 1 /\ j - 1 \in 1 .. i - 1 /\ j \in 2 .. i
  BY <1>1
<1>6. pathLinkIds(g, r) = {linkIdOf(g, p[j - 1], p[j]) : j \in 2 .. i}
  BY <1>2, <1>4 DEF pathLinkIds
<1>7. pathLinkIds(g, t) = {linkIdOf(g, p[j - 1], p[j]) : j \in 2 .. i - 1}
  BY <1>3, <1>5 DEF pathLinkIds
<1>8. i \in 2 .. i
  BY <1>1
<1>9. pathLinkIds(g, r) \subseteq pathLinkIds(g, t) \cup {linkIdOf(g, p[i - 1], p[i])}
  BY <1>4, <1>6, <1>7
<1>10. pathLinkIds(g, t) \cup {linkIdOf(g, p[i - 1], p[i])} \subseteq pathLinkIds(g, r)
  BY <1>5, <1>6, <1>7, <1>8
<1> QED
  BY <1>9, <1>10 DEF r, t, LinksJoin

LEMMA BypassIs ==
  ASSUME NEW n \in Nat, NEW g, NEW c, NEW s, LateInv(s, g, n, c), NEW rr, FlowOK(rr, s, g, n, c),
         NEW i \in 2 .. Len(rr.nodeIds),
         rr.hrsp[rr.nodeIds[i]] # <<>> => FreshRsps(s, g, c, rr.nodeIds[i - 1], rr.nodeIds[i]) # <<>>
  PROVE  Bypass(s, g, n, rr, i) \/ rr.hrsp[rr.nodeIds[i]] = <<>>
<1> DEFINE p == rr.nodeIds
           r == rr.hrsp[p[i]]
           x == p[i]
           w == p[i - 1]
           D == {p[k] : k \in 1 .. i - 1}
           t == SubSeq(p, 1, i - 1)
<1>1. SUFFICES ASSUME r # <<>> PROVE Bypass(s, g, n, rr, i)
  OBVIOUS
<1>2. /\ p = pathOf(s, rr.consumer) /\ rr.consumer \in 0 .. n - 1 /\ HrspOK(rr.hrsp, p, s, g, n, c)
  BY DEF FlowOK
<1>3. Kept(s, g, n, c, w, x, r) /\ FreshRsps(s, g, c, w, x) # <<>>
  BY <1>1, <1>2 DEF HrspOK
<1>4. RspList(r, g, n, x, NodesOf(pathOf(s, w)), barredFor(s, g, w, x)) /\ Fits(s, r, w, x)
  BY <1>3 DEF Kept
<1>5. IsPath(p, g, n, {}) /\ pathOf(s, w) = t
  <2> HIDE DEF p
  <2>1. IsPath(p, g, n, {}) /\ Climbs(p, s)
    BY <1>2, PrimaryPath
  <2> QED
    BY <2>1 DEF Climbs, p
<1> HIDE DEF p, t
<1>6. p \in Seq(0 .. n - 1) /\ i \in 2 .. Len(p) /\ Len(p) \in Nat
  BY <1>5, PathIds DEF p
<1>8. Len(t) = i - 1 /\ \A k \in 1 .. i - 1 : t[k] = p[k]
  BY SMTT(60), <1>6 DEF t
<1>9. NodesOf(t) = D
  BY <1>8 DEF NodesOf
<1>10. barredFor(s, g, w, x) = pathLinkIds(g, SubSeq(p, 1, i))
  <2>1. pathLinkIds(g, SubSeq(p, 1, i)) = pathLinkIds(g, t) \cup {linkIdOf(g, p[i - 1], p[i])}
    <3>1. LinksJoin(g, p, i)
      BY <1>6, LinksUpTo
    <3> QED
      BY <3>1 DEF LinksJoin, t
  <2> QED
    BY <2>1, <1>5 DEF barredFor
<1>11. RspList(r, g, n, x, D, pathLinkIds(g, SubSeq(p, 1, i)))
  BY <1>4, <1>5, <1>9, <1>10
<1>12. r = rr.hrsp[rr.nodeIds[i]] /\ rr.nodeIds = p
  BY DEF p
<1> HIDE DEF r, D
<1> QED
  BY ZenonT(60), <1>4, <1>11, <1>12 DEF Bypass, RspList, D

LEMMA DetoursHold ==
  ASSUME RouteIInv, NothingStale
  PROVE  RspsAreDetours
<1> DEFINE n == graph.nNodes
           s == Current
<1>1. n \in Nat /\ LateInv(s, graph, n, config) /\ \A k \in DOMAIN flows : FlowOK(flows[k], s, graph, n, config)
  BY DEF RouteIInv, SearchIInv, Setting
<1>2. SUFFICES ASSUME NEW k \in DOMAIN flows, NEW i \in 2 .. Len(flows[k].nodeIds),
                      NEW j \in DOMAIN flows[k].hrsp[flows[k].nodeIds[i]]
               PROVE  LET rr == flows[k]
                          rsps == rr.hrsp[rr.nodeIds[i]]
                          ppTo == SubSeq(rr.nodeIds, 1, i)
                          nodes == rsps[j].nodes
                      IN /\ nodes[1] = rr.nodeIds[i]
                         /\ last(nodes) \in Range(SubSeq(rr.nodeIds, 1, i - 1))
                         /\ IsInjective(nodes)
                         /\ linkSet(nodes) \cap linkSet(ppTo) = {}
                         /\ \A l \in DOMAIN rsps \ {j} : linkSet(rsps[l].nodes) \cap linkSet(nodes) = {}
  BY DEF RspsAreDetours
<1> DEFINE rr == flows[k]
           p == rr.nodeIds
           r == rr.hrsp[p[i]]
           D == {p[l] : l \in 1 .. i - 1}
           nodes == r[j].nodes
<1>3. FlowOK(rr, s, graph, n, config)
  BY <1>1
<1>4. r # <<>> => FreshRsps(s, graph, config, p[i - 1], p[i]) # <<>>
  <2> DEFINE w == p[i - 1]
             x == p[i]
  <2>1. r # <<>> => rspsOf(w, x, getLinkByNodeIds(graph, w, x)) # <<>>
    BY <1>2 DEF NothingStale
  <2>2. rspsOf(w, x, getLinkByNodeIds(graph, w, x)) = FreshRsps(s, graph, config, w, x)
    BY DEF rspsOf, FreshRsps, barredFor, pathOf, pathTo, linkIdOf, Current
  <2> QED
    BY <2>1, <2>2
<1>5. Bypass(s, graph, n, rr, i) \/ r = <<>>
  <2>1. i \in 2 .. Len(rr.nodeIds)
    BY <1>2
  <2>2. rr.hrsp[rr.nodeIds[i]] # <<>> => FreshRsps(s, graph, config, rr.nodeIds[i - 1], rr.nodeIds[i]) # <<>>
    BY <1>4
  <2> HIDE DEF n, s, rr
  <2>3. Bypass(s, graph, n, rr, i) \/ rr.hrsp[rr.nodeIds[i]] = <<>>
    BY <2>1, <2>2, <1>1, <1>3, BypassIs
  <2> QED
    BY <2>3
<1>6. r # <<>>
  <2>1. r = <<>> => DOMAIN r = {}
    OBVIOUS
  <2>2. j \in DOMAIN r
    OBVIOUS
  <2> HIDE DEF r
  <2> QED
    BY <2>1, <2>2
<1>7. /\ \A m \in 1 .. Len(r) : /\ Detour(r[m], graph, n, p[i], D, {})
                                /\ pathLinkIds(graph, r[m].nodes) \cap pathLinkIds(graph, SubSeq(p, 1, i)) = {}
      /\ \A m, l \in 1 .. Len(r) : m # l => pathLinkIds(graph, r[m].nodes) \cap pathLinkIds(graph, r[l].nodes) = {}
  <2> HIDE DEF n, s
  <2> QED
    BY <1>5, <1>6 DEF Bypass
<1>8. DOMAIN r = 1 .. Len(r) /\ p \in Seq(0 .. n - 1) /\ i \in 2 .. Len(p) /\ Len(p) \in Nat
  <2>1. IsPath(p, graph, n, {}) /\ p[i] \in FirstNodes(p, Len(p) - 1)
        /\ rr.hrsp \in [FirstNodes(p, Len(p) - 1) -> Seq(RspRecords(n))]
    <3>1. /\ p = pathOf(s, rr.consumer) /\ rr.consumer \in 0 .. n - 1 /\ Len(p) > 1
          /\ rr.hrsp \in [FirstNodes(p, Len(p) - 1) -> Seq(RspRecords(n))] /\ i \in 2 .. Len(p)
      BY <1>2, <1>3 DEF FlowOK
    <3> HIDE DEF n, s, rr, p
    <3>2. IsPath(p, graph, n, {})
      BY <1>1, <3>1, PrimaryPath
    <3>3. Len(p) \in Nat
      BY <3>2, PathIds
    <3>4. i \in 2 .. (Len(p) - 1) + 1
      BY <3>1, <3>3
    <3> QED
      BY <3>1, <3>2, <3>4 DEF FirstNodes
  <2>2. r \in Seq(RspRecords(n))
    <3> DEFINE S == Seq(RspRecords(n))
               T == FirstNodes(p, Len(p) - 1)
               h == rr.hrsp
    <3>1. h \in [T -> S] /\ p[i] \in T
      BY <2>1
    <3> HIDE DEF S, T, h
    <3>2. h[p[i]] \in S
      BY <3>1
    <3> QED
      BY <3>2 DEF S, h
  <2> HIDE DEF n, r, p
  <2> QED
    BY <2>1, <2>2, <1>2, PathIds DEF p
<1>9. j \in 1 .. Len(r)
  BY <1>2, <1>8
<1>10. Detour(r[j], graph, n, p[i], D, {}) /\ linkSet(nodes) \cap linkSet(SubSeq(p, 1, i)) = {}
  BY <1>7, <1>9 DEF linkSet
<1>11. \A l \in DOMAIN r \ {j} : linkSet(r[l].nodes) \cap linkSet(nodes) = {}
  BY <1>7, <1>8, <1>9 DEF linkSet
<1> HIDE DEF n, s, rr, p, nodes, r
<1>12. nodes[1] = p[i] /\ nodes[Len(nodes)] \in D /\ IsPath(nodes, graph, n, {})
  BY <1>10 DEF Detour, nodes
<1>13. IsInjective(nodes)
  BY <1>12, PathIds DEF IsInjective
<1>14. D = Range(SubSeq(p, 1, i - 1))
  <2> DEFINE t == SubSeq(p, 1, i - 1)
             S == 0 .. n - 1
  <2>1. p \in Seq(S)
    BY <1>8
  <2> HIDE DEF S
  <2>2. t \in Seq(S) /\ Len(t) = i - 1 /\ \A l \in 1 .. i - 1 : t[l] = p[l]
    BY <2>1, <1>8
  <2>3. DOMAIN t = 1 .. i - 1
    BY <2>2
  <2> HIDE DEF t
  <2>4. Range(t) = D
    BY <2>2, <2>3 DEF Range
  <2> QED
    BY <2>4 DEF t
<1> QED
  BY <1>10, <1>11, <1>12, <1>13, <1>14 DEF last, nodes, r, p, rr

\* The RSPs of genRedundantSubPaths, as the flows have them in the end: unless some
\* node keeps RSPs from an earlier node before it, they are detours around the PP
\* without repeated nodes, disjoint from it and from each other.
THEOREM RspsStayDetours == Spec => [](NothingStale => RspsAreDetours)
<1>1. RouteIInv => (NothingStale => RspsAreDetours)
  BY DetoursHold
<1> QED
  BY <1>1, RouteInvariant, PTL

LEMMA MaxIs ==
  ASSUME NEW S, S \subseteq Nat, S # {}, NEW B \in Nat, \A x \in S : x <= B
  PROVE  Max(S) \in S
<1> DEFINE T == {B - x : x \in S}
<1>1. T \subseteq Nat /\ T # {}
  <2>1. \A x \in S : x \in Nat /\ B - x \in Nat
    OBVIOUS
  <2> QED
    BY <2>1
<1>2. PICK y \in T : \A z \in T : y <= z
  <2> HIDE DEF T
  <2> QED
    BY <1>1, LeastOfNats
<1>3. PICK x \in S : y = B - x
  OBVIOUS
<1>4. \A z \in S : x >= z
  <2> SUFFICES ASSUME NEW z \in S PROVE x >= z
    OBVIOUS
  <2>1. B - z \in T /\ z \in Nat /\ x \in Nat
    OBVIOUS
  <2>2. B - x <= B - z
    BY <1>2, <1>3, <2>1
  <2> QED
    BY <2>1, <2>2
<1>5. \E m \in S : \A z \in S : m >= z
  BY <1>4
<1> QED
  BY <1>5 DEF Max

\* The delays of all ways to the nodes up to the one at i + 1 are not above those
\* that the search computed.
Within(w, i, s, p) == w \in Seq(Nat) /\ Len(w) = i + 1 /\ \A j \in 1 .. i + 1 : w[j] <= s.maxDelays[p[j]]

WaysVia(rr, r, w) == {Len(o.nodes) - 1 + w[position(rr, last(o.nodes))] : o \in Range(r)}

WaysTo(w, i, s, p) == w \in Seq(Nat) /\ Len(w) = i /\ \A l \in 1 .. i : w[l] \in Nat /\ w[l] <= s.maxDelays[p[l]]

LEMMA WithinIs ==
  ASSUME NEW i \in Nat, NEW w, NEW s, NEW p, Within(w, i - 1, s, p)
  PROVE  WaysTo(w, i, s, p)
<1>1. (i - 1) + 1 = i
  OBVIOUS
<1>2. w \in Seq(Nat) /\ Len(w) = i /\ \A l \in 1 .. i : w[l] <= s.maxDelays[p[l]]
  BY <1>1 DEF Within
<1>3. \A l \in 1 .. Len(w) : w[l] \in Nat
  BY <1>2
<1> QED
  BY <1>2, <1>3 DEF WaysTo

Placed(p, n) ==
  /\ p \in Seq(0 .. n - 1) /\ Len(p) \in Nat \ {0} /\ DOMAIN p = 1 .. Len(p)
  /\ \A i \in 1 .. Len(p) : p[i] \in 0 .. n - 1
  /\ \A i, j \in 1 .. Len(p) : i # j => p[i] # p[j]

LEMMA PathNodes ==
  ASSUME NEW n, NEW g, NEW p, NEW barred, IsPath(p, g, n, barred)
  PROVE  Placed(p, n)
BY PathIds DEF Placed

LEMMA WorstStep ==
  ASSUME NEW n \in Nat, NEW g, NEW s, s.maxDelays \in [0 .. n - 1 -> Nat], NEW rr, NEW p, p = rr.nodeIds, IsPath(p, g, n, {}),
         NEW i \in 1 .. Len(p) - 1, NEW w, Within(w, i - 1, s, p), NEW r \in Seq(RspRecords(n)), r = rr.hrsp[p[i + 1]],
         r = <<>> \/ Bypass(s, g, n, rr, i + 1), s.maxDelays[p[i + 1]] >= s.maxDelays[p[i]] + 1
  PROVE  Within(Append(w, Max(WaysVia(rr, r, w) \cup {1 + w[i]})), i, s, p)
<1> DEFINE S == WaysVia(rr, r, w) \cup {1 + w[i]}
           B == s.maxDelays[p[i + 1]]
           D == {p[l] : l \in 1 .. i}
<1>1. /\ Len(p) \in Nat /\ \A l \in 1 .. Len(p) : p[l] \in 0 .. n - 1
      /\ \A l, m \in 1 .. Len(p) : l # m => p[l] # p[m]
      /\ DOMAIN p = 1 .. Len(p)
  <2>1. Placed(p, n)
    BY PathNodes
  <2> QED
    BY <2>1 DEF Placed
<1>2. /\ i \in 1 .. Len(p) /\ i + 1 \in 1 .. Len(p) /\ (i + 1) - 1 = i /\ (i - 1) + 1 = i /\ i \in Nat
      /\ \A l \in 1 .. i : l \in 1 .. Len(p)
  BY SMTT(60), <1>1
<1>3. w \in Seq(Nat) /\ Len(w) = i /\ \A l \in 1 .. i : w[l] \in Nat /\ w[l] <= s.maxDelays[p[l]]
  <2>1. WaysTo(w, i, s, p)
    BY <1>2, WithinIs
  <2> QED
    BY <2>1 DEF WaysTo
<1>4. B \in Nat /\ \A l \in 1 .. i : s.maxDelays[p[l]] \in Nat
  BY <1>1, <1>2
<1>40. B >= s.maxDelays[p[i]] + 1
  OBVIOUS
<1> HIDE DEF B
<1>5. 1 + w[i] \in Nat /\ 1 + w[i] <= B
  <2>1. w[i] \in Nat /\ w[i] <= s.maxDelays[p[i]] /\ s.maxDelays[p[i]] \in Nat
    BY SMTT(60), <1>2, <1>3, <1>4
  <2> DEFINE a == w[i]
             d == s.maxDelays[p[i]]
  <2>2. a \in Nat /\ a <= d /\ d \in Nat /\ B >= d + 1
    BY <2>1, <1>40
  <2> HIDE DEF a, d
  <2>3. 1 + a \in Nat /\ 1 + a <= B
    BY <2>2, <1>4
  <2> QED
    BY <2>3 DEF a
<1>6. ASSUME NEW o \in Range(r)
      PROVE  Len(o.nodes) - 1 + w[position(rr, last(o.nodes))] \in Nat /\ Len(o.nodes) - 1 + w[position(rr, last(o.nodes))] <= B
  <2>1. PICK j \in 1 .. Len(r) : o = r[j]
    BY DEF Range
  <2>2. r # <<>>
    <3>1. r = <<>> => Len(r) = 0
      OBVIOUS
    <3> QED
      BY <3>1
  <2>3. Detour(o, g, n, p[i + 1], D, {}) /\ B >= o.linkDownDelay + s.maxDelays[last(o.nodes)]
    <3>1. Bypass(s, g, n, rr, i + 1)
      BY <2>2
    <3>2. Detour(o, g, n, p[i + 1], D, {})
      BY <3>1, <2>1, <1>2 DEF Bypass
    <3>3. Fits(s, r, p[i], p[i + 1])
      BY <3>1, <1>2 DEF Bypass
    <3>4. B >= o.linkDownDelay + s.maxDelays[last(o.nodes)]
      BY <3>3, <2>1 DEF Fits, B
    <3> QED
      BY <3>2, <3>4
  <2>4. last(o.nodes) \in D /\ o.linkDownDelay = Len(o.nodes) - 1 /\ Len(o.nodes) \in Nat \ {0}
    BY <2>3 DEF Detour, IsPath, last
  <2> DEFINE y == last(o.nodes)
             k == position(rr, y)
  <2>5. PICK l \in 1 .. i : p[l] = y
    BY <2>4
  <2>6. k \in DOMAIN p /\ p[k] = y
    <3>1. l \in DOMAIN p /\ p[l] = y
      BY <2>5, <1>1, <1>2
    <3>2. k = CHOOSE m \in DOMAIN p : p[m] = y
      BY DEF position
    <3> HIDE DEF k, y
    <3> QED
      BY <3>1, <3>2
  <2>7. k = l
    BY <2>5, <2>6, <1>1, <1>2
  <2> DEFINE a == w[k]
             d == s.maxDelays[y]
             e == Len(o.nodes)
  <2>8. a \in Nat /\ d \in Nat /\ a <= d /\ e \in Nat \ {0} /\ B >= e - 1 + d /\ B \in Nat
    BY <2>3, <2>4, <2>5, <2>7, <1>3, <1>4
  <2> HIDE DEF a, d, e
  <2>9. e - 1 + a \in Nat /\ e - 1 + a <= B
    <3>1. e - 1 + a <= e - 1 + d /\ e - 1 + a \in Nat /\ e - 1 + d \in Nat
      BY <2>8
    <3> DEFINE b1 == e - 1 + a
               b2 == e - 1 + d
    <3>2. b1 \in Nat /\ b2 \in Nat /\ b1 <= b2 /\ b2 <= B /\ B \in Nat
      BY <2>8, <3>1
    <3> HIDE DEF b1, b2
    <3>3. b1 \in Nat /\ b1 <= B
      BY <3>2
    <3> QED
      BY <3>3 DEF b1
  <2> QED
    BY <2>9 DEF a, e
<1>7. S \subseteq Nat /\ S # {} /\ \A x \in S : x <= B
  BY <1>5, <1>6 DEF WaysVia
<1> HIDE DEF S
<1>8. Max(S) \in Nat /\ Max(S) <= B
  <2>1. Max(S) \in S
    BY <1>4, <1>7, MaxIs
  <2> QED
    BY <2>1, <1>7
<1> DEFINE z == Max(S)
           t == Append(w, z)
<1> HIDE DEF z
<1>9. t \in Seq(Nat) /\ Len(t) = i + 1 /\ t[i + 1] = z /\ \A l \in 1 .. i : t[l] = w[l]
  BY SMTT(60), <1>2, <1>3, <1>8 DEF z
<1> HIDE DEF t
<1>10. \A l \in 1 .. i + 1 : t[l] <= s.maxDelays[p[l]]
  <2> SUFFICES ASSUME NEW l \in 1 .. i + 1 PROVE t[l] <= s.maxDelays[p[l]]
    OBVIOUS
  <2>1. CASE l = i + 1
    BY <2>1, <1>8, <1>9 DEF z, B
  <2>2. CASE l # i + 1
    <3>1. l \in 1 .. i
      BY <2>2, <1>2
    <3> QED
      BY <3>1, <1>3, <1>9
  <2> QED
    BY <2>1, <2>2
<1> QED
  BY <1>9, <1>10 DEF Within, t, z, S

LEMMA WorstIs ==
  ASSUME NEW n \in Nat, NEW g, NEW s, s.maxDelays \in [0 .. n - 1 -> Nat], NEW rr, NEW p, p = rr.nodeIds, IsPath(p, g, n, {}),
         NEW h, h = rr.hrsp, NEW m \in Nat, Len(p) = m + 1,
         \A i \in 2 .. Len(p) : h[p[i]] \in Seq(RspRecords(n)) /\ (h[p[i]] = <<>> \/ Bypass(s, g, n, rr, i)),
         \A i \in 2 .. Len(p) : s.maxDelays[p[i]] >= s.maxDelays[p[i - 1]] + 1
  PROVE  Within(worstDelays(rr), m, s, p)
<1> DEFINE s0 == <<0>>
           step(w, i) == Append(w, Max(WaysVia(rr, h[p[i + 1]], w) \cup {1 + w[i]}))
           stage == [i \in 0 .. m |-> {w \in Seq(Nat) : Within(w, i, s, p)}]
           F == [i \in 1 .. m |-> [o \in stage[i - 1] |-> step(o, i)]]
           a == CHOOSE f : f = [i \in 0 .. m |-> IF i = 0 THEN s0 ELSE step(f[i - 1], i)]
<1>1. m \in Nat
  OBVIOUS
<1>2. s0 \in stage[0]
  <2>1. p[1] \in 0 .. n - 1
    <3>1. 1 \in 1 .. Len(p)
      OBVIOUS
    <3> QED
      BY <3>1, PathIds
  <2>2. s0 \in Seq(Nat) /\ Len(s0) = 1 /\ s0[1] = 0 /\ s.maxDelays[p[1]] \in Nat
    BY <2>1
  <2> HIDE DEF s0
  <2>3. Within(s0, 0, s, p)
    BY <2>2 DEF Within
  <2> QED
    BY <2>2, <2>3
<1>3. ASSUME NEW i \in 1 .. m, NEW w \in stage[i - 1] PROVE step(w, i) \in stage[i]
  <2>1. i - 1 \in 0 .. m /\ i \in 0 .. m /\ i + 1 \in 2 .. Len(p) /\ (i + 1) - 1 = i /\ i \in 1 .. Len(p) - 1
    OBVIOUS
  <2>2. Within(w, i - 1, s, p)
    BY <2>1
  <2> DEFINE r == h[p[i + 1]]
  <2>3. /\ r \in Seq(RspRecords(n)) /\ r = rr.hrsp[p[i + 1]] /\ (r = <<>> \/ Bypass(s, g, n, rr, i + 1))
        /\ s.maxDelays[p[i + 1]] >= s.maxDelays[p[i]] + 1
    BY <2>1
  <2>4. step(w, i) = Append(w, Max(WaysVia(rr, r, w) \cup {1 + w[i]}))
    OBVIOUS
  <2> HIDE DEF r, step
  <2>5. Within(Append(w, Max(WaysVia(rr, r, w) \cup {1 + w[i]})), i, s, p)
    BY <2>1, <2>2, <2>3, WorstStep
  <2>6. Within(step(w, i), i, s, p)
    BY <2>4, <2>5
  <2>7. step(w, i) \in Seq(Nat)
    BY <2>6 DEF Within
  <2> QED
    BY <2>1, <2>6, <2>7
<1>4. \A i \in 1 .. m : \A w \in stage[i - 1] : step(w, i) \in stage[i]
  <2> HIDE DEF step, stage
  <2> QED
    BY <1>3
<1> HIDE DEF s0, step, stage
<1>20. \A i \in 1 .. m : F[i] \in [stage[i - 1] -> stage[i]]
  BY <1>4
<1>21. PICK f : IsTrace(f, m) /\ IsRun(f, m, s0, F, stage)
  <2> HIDE DEF F
  <2> QED
    BY <1>1, <1>2, <1>20, RunExists
<1>22. f = [i \in 0 .. m |-> IF i = 0 THEN s0 ELSE step(f[i - 1], i)]
  <2>1. ASSUME NEW i \in 1 .. m PROVE f[i] = step(f[i - 1], i)
    <3>1. i - 1 \in 0 .. m /\ f[i] = F[i][f[i - 1]] /\ f[i - 1] \in stage[i - 1]
      <4> HIDE DEF F
      <4>1. i - 1 \in 0 .. m
        BY <1>1
      <4> QED
        BY <4>1, <1>21 DEF IsRun
    <3> QED
      BY <3>1
  <2>2. f[0] = s0
    BY <1>21 DEF IsRun
  <2>3. \A i \in 0 .. m : f[i] = IF i = 0 THEN s0 ELSE step(f[i - 1], i)
    BY <1>1, <2>1, <2>2
  <2> QED
    BY <1>21, <2>3 DEF IsTrace
<1>23. a = [i \in 0 .. m |-> IF i = 0 THEN s0 ELSE step(a[i - 1], i)]
  BY <1>22
<1> HIDE DEF a, F
<1>24. a[m] \in stage[m]
  <2>1. ASSUME NEW i \in 1 .. m, a[i - 1] \in stage[i - 1] PROVE a[i] \in stage[i]
    <3>1. a[i] = step(a[i - 1], i)
      BY <1>1, <1>23
    <3> QED
      BY <2>1, <3>1, <1>4
  <2>2. a[0] \in stage[0]
    BY <1>1, <1>2, <1>23
  <2>3. \A i \in 0 .. m : a[i] \in stage[i]
    BY <1>1, <2>1, <2>2, RunStays
  <2> QED
    BY <1>1, <2>3
<1>5. worstDelays(rr) = a[m]
  <2>1. Len(rr.nodeIds) - 1 = m
    OBVIOUS
  <2> QED
    BY <2>1 DEF worstDelays, WaysVia, Loop, a, step, s0
<1> QED
  BY <1>1, <1>5, <1>24 DEF stage

\* A flow has a PP and lists RSPs for each node of it.
FlowParts(rr, s, g, n) ==
  /\ IsPath(rr.nodeIds, g, n, {}) /\ Placed(rr.nodeIds, n) /\ Len(rr.nodeIds) > 1
  /\ rr.nodeIds[Len(rr.nodeIds)] = rr.consumer
  /\ \A i \in 2 .. Len(rr.nodeIds) : rr.hrsp[rr.nodeIds[i]] \in Seq(RspRecords(n))

LEMMA FlowPartsAre ==
  ASSUME NEW n \in Nat, NEW g, NEW c, NEW s, LateInv(s, g, n, c), NEW rr, FlowOK(rr, s, g, n, c)
  PROVE  FlowParts(rr, s, g, n)
<1> DEFINE p == rr.nodeIds
           m == Len(p) - 1
           T == FirstNodes(p, m)
           S == Seq(RspRecords(n))
           h == rr.hrsp
<1>1. /\ p = pathOf(s, rr.consumer) /\ rr.consumer \in 0 .. n - 1 /\ Len(p) > 1 /\ h \in [T -> S]
  BY DEF FlowOK
<1>2. p = rr.nodeIds /\ h = rr.hrsp
  OBVIOUS
<1> HIDE DEF p, h
<1>3. IsPath(p, g, n, {}) /\ p[Len(p)] = rr.consumer
  BY <1>1, PrimaryPath
<1>4. Placed(p, n)
  BY <1>3, PathNodes
<1>5. Len(p) \in Nat
  BY <1>4 DEF Placed
<1>6. \A i \in 2 .. Len(p) : p[i] \in T
  BY <1>5 DEF FirstNodes
<1> HIDE DEF T, S
<1>7. \A i \in 2 .. Len(p) : h[p[i]] \in S
  BY <1>1, <1>6
<1> QED
  BY <1>1, <1>2, <1>3, <1>4, <1>7 DEF FlowParts, S

LEMMA DelaysHold ==
  ASSUME RouteIInv, NothingStale
  PROVE  DelayIsBound
<1> DEFINE n == graph.nNodes
           s == Current
<1>1. n \in Nat /\ LateInv(s, graph, n, config) /\ \A k \in DOMAIN flows : FlowOK(flows[k], s, graph, n, config)
  BY DEF RouteIInv, SearchIInv, Setting
<1>2. SUFFICES ASSUME NEW k \in DOMAIN flows PROVE last(worstDelays(flows[k])) <= flows[k].maxRrDelay
  BY DEF DelayIsBound
<1> DEFINE rr == flows[k]
           p == rr.nodeIds
           h == rr.hrsp
           m == Len(p) - 1
<1>3. FlowOK(rr, s, graph, n, config)
  BY <1>1
<1>4. ASSUME NEW i \in 2 .. Len(p), h[p[i]] # <<>>
      PROVE  FreshRsps(s, graph, config, p[i - 1], p[i]) # <<>>
  <2> DEFINE w == p[i - 1]
             x == p[i]
  <2>1. rspsOf(w, x, getLinkByNodeIds(graph, w, x)) # <<>>
    BY <1>2, <1>4 DEF NothingStale
  <2>2. rspsOf(w, x, getLinkByNodeIds(graph, w, x)) = FreshRsps(s, graph, config, w, x)
    BY DEF rspsOf, FreshRsps, barredFor, pathOf, pathTo, linkIdOf, Current
  <2> QED
    BY <2>1, <2>2
<1>5. p = rr.nodeIds /\ h = rr.hrsp
  OBVIOUS
<1> HIDE DEF n, s, rr, p, h
<1>6. FlowParts(rr, s, graph, n) /\ HrspOK(h, p, s, graph, n, config)
  BY <1>1, <1>3, <1>5, FlowPartsAre DEF FlowOK
<1>7. /\ IsPath(p, graph, n, {}) /\ Placed(p, n) /\ Len(p) > 1 /\ p[Len(p)] = rr.consumer
      /\ \A i \in 2 .. Len(p) : h[p[i]] \in Seq(RspRecords(n))
  BY <1>5, <1>6 DEF FlowParts
<1>8. m \in Nat /\ Len(p) = m + 1 /\ p[m + 1] = rr.consumer
  BY <1>7 DEF Placed
<1>9. s.maxDelays \in [0 .. n - 1 -> Nat]
  <2>1. s \in SearchRecs(n)
    BY <1>1 DEF LateInv
  <2> QED
    BY <2>1, RecFields
<1>10. ASSUME NEW i \in 2 .. Len(p) PROVE s.maxDelays[p[i]] >= s.maxDelays[p[i - 1]] + 1
  BY <1>6 DEF HrspOK, Kept
<1>11. ASSUME NEW i \in 2 .. Len(p) PROVE h[p[i]] = <<>> \/ Bypass(s, graph, n, rr, i)
  <2>1. i \in 2 .. Len(rr.nodeIds)
    BY <1>5
  <2>2. rr.hrsp[rr.nodeIds[i]] # <<>> => FreshRsps(s, graph, config, rr.nodeIds[i - 1], rr.nodeIds[i]) # <<>>
    BY <1>4, <1>5
  <2>3. Bypass(s, graph, n, rr, i) \/ rr.hrsp[rr.nodeIds[i]] = <<>>
    BY <2>1, <2>2, <1>1, <1>3, BypassIs
  <2> QED
    BY <2>3, <1>5
<1> HIDE DEF m
<1>12. Within(worstDelays(rr), m, s, p)
  BY <1>1, <1>5, <1>7, <1>8, <1>9, <1>10, <1>11, WorstIs
<1> DEFINE w == worstDelays(rr)
<1> HIDE DEF w
<1>13. Len(w) = m + 1 /\ \A j \in 1 .. m + 1 : w[j] <= s.maxDelays[p[j]]
  BY <1>12 DEF Within, w
<1>14. w[m + 1] <= s.maxDelays[p[m + 1]]
  <2>1. m + 1 \in 1 .. m + 1
    BY <1>8
  <2> QED
    BY <2>1, <1>13
<1>15. rr.maxRrDelay = s.maxDelays[rr.consumer]
  BY <1>3 DEF FlowOK
<1> QED
  BY <1>8, <1>13, <1>14, <1>15 DEF last, w, rr

\* The maxRrDelay of a flow: no way along its PP and its RSPs takes longer, unless
\* some node keeps RSPs from an earlier node before it.
THEOREM DelayStaysBound == Spec => [](NothingStale => DelayIsBound)
<1>1. RouteIInv => (NothingStale => DelayIsBound)
  BY DelaysHold
<1> QED
  BY <1>1, RouteInvariant, PTL

-----------------------------------------------------------------------------
(* The installation of routes. *)

Joined(g, n, x, y) ==
  /\ x \in 0 .. n - 1 /\ y \in 0 .. n - 1 /\ x # y
  /\ Hop(g, x, y, {}) /\ Hop(g, y, x, {})

Faces(g, x) == {l.linkId : l \in Range(g.eLinks[x])}

LEMMA HopBack ==
  ASSUME NEW n \in Nat, NEW g, Network(g, n), NEW x \in 0 .. n - 1, NEW y \in 0 .. n - 1, x # y, Hop(g, x, y, {})
  PROVE  Joined(g, n, x, y)
<1>1. PICK e : IsLinkOf(g, x, e) /\ getLinkOpSide(e, x) = y
  BY DEF Hop
<1>2. x \in {e.a, e.b} /\ IsLinkOf(g, e.a, e) /\ IsLinkOf(g, e.b, e)
  BY <1>1 DEF Network, Wired
<1>3. IsLinkOf(g, y, e) /\ getLinkOpSide(e, y) = x
  BY <1>1, <1>2 DEF getLinkOpSide
<1>4. Hop(g, y, x, {})
  BY <1>3 DEF Hop
<1> QED
  BY <1>4 DEF Joined

\* The face to a neighbour is that of the link to it.
LEMMA FaceIs ==
  ASSUME NEW n \in Nat, NEW x, NEW y, Joined(graph, n, x, y), Network(graph, n)
  PROVE  /\ faceTo(x, y) = linkIdOf(graph, x, y) /\ linkIdOf(graph, x, y) \in Nat
         /\ linkIdOf(graph, x, y) \in Faces(graph, x)
<1>1. x \in 0 .. n - 1 /\ x \in 0 .. n /\ y \in 0 .. n - 1 /\ x # y /\ Hop(graph, x, y, {})
  BY DEF Joined
<1>2. PICK e : IsLinkOf(graph, x, e) /\ getLinkByNodeIds(graph, x, y) = e
  BY <1>1, HopLink
<1>3. linkIdOf(graph, x, y) = e.linkId /\ e.linkId \in Nat
  <2>1. e \in LinkSet(n, {})
    BY <1>1, <1>2, GraphFields DEF Network
  <2> QED
    BY <2>1, <1>2, LinkFields DEF linkIdOf
<1>4. e \in Range(graph.eLinks[x])
  BY <1>2 DEF IsLinkOf, Occurs, Range
<1>5. e.linkId \in Faces(graph, x)
  BY <1>4 DEF Faces
<1>6. faceMap(graph, x)[e.linkId] = e.linkId
  BY <1>5 DEF faceMap, Faces
<1> QED
  BY <1>3, <1>5, <1>6 DEF faceTo

\* Faces to different neighbours differ.
LEMMA FacesDiffer ==
  ASSUME NEW n \in Nat, NEW g, Network(g, n), NEW x, NEW y, NEW z, Joined(g, n, x, y), Joined(g, n, x, z),
         linkIdOf(g, x, y) = linkIdOf(g, x, z)
  PROVE  y = z
<1>1. x \in 0 .. n - 1 /\ x \in 0 .. n /\ x # y /\ x # z /\ Hop(g, x, y, {}) /\ Hop(g, x, z, {})
  BY DEF Joined
<1>2. PICK e : IsLinkOf(g, x, e) /\ getLinkOpSide(e, x) = y /\ getLinkByNodeIds(g, x, y) = e
  BY <1>1, HopLink
<1>3. PICK f : IsLinkOf(g, x, f) /\ getLinkOpSide(f, x) = z /\ getLinkByNodeIds(g, x, z) = f
  BY <1>1, HopLink
<1>4. e.linkId = f.linkId
  BY <1>2, <1>3 DEF linkIdOf
<1>5. e = f
  BY <1>1, <1>2, <1>3, <1>4 DEF Network, OwnIds
<1> QED
  BY <1>2, <1>3, <1>5

JoinedUp(p, g, n) == \A i \in 1 .. Len(p) - 1 : Joined(g, n, p[i], p[i + 1])

LEMMA PathJoins ==
  ASSUME NEW n \in Nat, NEW g, Network(g, n), NEW p, IsPath(p, g, n, {})
  PROVE  JoinedUp(p, g, n)
<1> SUFFICES ASSUME NEW i \in 1 .. Len(p) - 1 PROVE Joined(g, n, p[i], p[i + 1])
  BY DEF JoinedUp
<1>1. Placed(p, n)
  BY PathNodes
<1>2. Len(p) \in Nat
  BY <1>1 DEF Placed
<1>3. i \in 1 .. Len(p) /\ i + 1 \in 1 .. Len(p) /\ i + 1 \in 2 .. Len(p) /\ (i + 1) - 1 = i /\ i # i + 1
  BY <1>2
<1>4. p[i] \in 0 .. n - 1 /\ p[i + 1] \in 0 .. n - 1 /\ p[i] # p[i + 1]
  BY <1>1, <1>3 DEF Placed
<1>5. Hop(g, p[i], p[i + 1], {})
  <2>1. \A j \in 2 .. Len(p) : Hop(g, p[j - 1], p[j], {})
    BY DEF IsPath
  <2> QED
    BY <1>3, <2>1
<1> QED
  BY <1>4, <1>5, HopBack

\* The paths of a flow have ids of their own.
FlowPaths(rr, g, n) ==
  LET r == rspsOfFlow(rr) IN
  /\ IsPath(rr.nodeIds, g, n, {}) /\ rr.pathID \in Nat
  /\ r \in Seq(RspRecords(n))
  /\ \A j \in 1 .. Len(r) : IsPath(r[j].nodes, g, n, {}) /\ r[j].pathID = rr.pathID + j

LEMMA FlowPathsAre ==
  ASSUME NEW n \in Nat, NEW g, NEW c, NEW s, LateInv(s, g, n, c), NEW rr, FlowOK(rr, s, g, n, c)
  PROVE  FlowPaths(rr, g, n)
<1> DEFINE p == rr.nodeIds
           h == rr.hrsp
           r == rspsOfFlow(rr)
<1>1. /\ p = pathOf(s, rr.consumer) /\ rr.consumer \in 0 .. n - 1 /\ rr.pathID \in Nat /\ HrspOK(h, p, s, g, n, c)
  BY DEF FlowOK
<1>2. IsPath(p, g, n, {})
  <2> HIDE DEF p
  <2> QED
    BY <1>1, PrimaryPath
<1>3. r \in Seq(RspRecords(n)) /\ \A j \in 1 .. Len(r) : r[j].pathID = rr.pathID + j /\ OneOf(r[j], h, p)
  BY FlowRsps
<1> HIDE DEF r, h, p
<1>4. \A j \in 1 .. Len(r) : IsPath(r[j].nodes, g, n, {})
  BY <1>1, <1>3 DEF OneOf, HrspOK
<1> QED
  BY <1>1, <1>2, <1>3, <1>4 DEF FlowPaths, r, p

FibEntries == [pathId : Int, face_nextHop : Nat, direction : {0, 1}, isRetransPoint : BOOLEAN]
FibStates  == [fibEntries : Seq(FibEntries), preferredDownPathId : Int, preferredUpPathId : Int, primaryPathId : Int]
Fses(n)    == [0 .. n - 1 -> FibStates]

HasEntry(m, x, e) == Occurs(e, m[x].fibEntries)

\* The states r are those in m with one more entry, of router x.
Grown(r, m, n, x, fe) ==
  /\ r \in Fses(n)
  /\ \A z \in 0 .. n - 1 :
       /\ \A e : HasEntry(r, z, e) <=> HasEntry(m, z, e) \/ (z = x /\ e = fe)
       /\ r[z].preferredDownPathId = m[z].preferredDownPathId

LEMMA AppendOccurs ==
  ASSUME NEW S, NEW s \in Seq(S), NEW x \in S
  PROVE  Append(s, x) \in Seq(S) /\ \A e : Occurs(e, Append(s, x)) <=> Occurs(e, s) \/ e = x
<1>1. /\ Append(s, x) \in Seq(S) /\ DOMAIN Append(s, x) = 1 .. Len(s) + 1 /\ DOMAIN s = 1 .. Len(s)
      /\ Len(s) \in Nat /\ \A i \in 1 .. Len(s) : Append(s, x)[i] = s[i]
      /\ Append(s, x)[Len(s) + 1] = x
  OBVIOUS
<1>2. ASSUME NEW e PROVE Occurs(e, Append(s, x)) <=> Occurs(e, s) \/ e = x
  BY <1>1 DEF Occurs
<1> QED
  BY <1>1, <1>2

LEMMA EntryAdded ==
  ASSUME NEW n, NEW m \in Fses(n), NEW x \in 0 .. n - 1, NEW fe \in FibEntries
  PROVE  Grown(addFibEntry(m, x, fe), m, n, x, fe)
<1> DEFINE f == m[x]
           s == f.fibEntries
           t == Append(s, fe)
           h == [f EXCEPT !.fibEntries = t]
           r == addFibEntry(m, x, fe)
<1>1. r = [m EXCEPT ![x] = h]
  BY DEF addFibEntry
<1>2. f \in FibStates
  BY DEF Fses
<1>3. s \in Seq(FibEntries)
  BY <1>2 DEF FibStates
<1>4. t \in Seq(FibEntries) /\ \A e : Occurs(e, t) <=> Occurs(e, s) \/ e = fe
  <2> HIDE DEF s
  <2> QED
    BY <1>3, AppendOccurs
<1> HIDE DEF s
<1>40. s = f.fibEntries
  BY DEF s
<1> HIDE DEF t, f
<1>5. h \in FibStates /\ h.fibEntries = t /\ h.preferredDownPathId = f.preferredDownPathId
  <2> DEFINE S == Seq(FibEntries)
  <2>1. t \in S
    BY <1>4
  <2>2. f \in [fibEntries : S, preferredDownPathId : Int, preferredUpPathId : Int, primaryPathId : Int]
    BY <1>2 DEF FibStates
  <2> HIDE DEF S
  <2>3. h \in [fibEntries : S, preferredDownPathId : Int, preferredUpPathId : Int, primaryPathId : Int]
        /\ h.fibEntries = t /\ h.preferredDownPathId = f.preferredDownPathId
    BY <2>1, <2>2
  <2> QED
    BY <2>3 DEF FibStates, S
<1> HIDE DEF h, r
<1>6. r \in Fses(n) /\ r[x] = h /\ \A z \in 0 .. n - 1 : z # x => r[z] = m[z]
  BY <1>1, <1>5 DEF Fses
<1>7. ASSUME NEW z \in 0 .. n - 1
      PROVE  /\ \A e : HasEntry(r, z, e) <=> HasEntry(m, z, e) \/ (z = x /\ e = fe)
             /\ r[z].preferredDownPathId = m[z].preferredDownPathId
  <2>1. CASE z = x
    <3>1. r[z] = h /\ m[z] = f
      BY <2>1, <1>6 DEF f
    <3>2. \A e : Occurs(e, r[z].fibEntries) <=> Occurs(e, m[z].fibEntries) \/ (z = x /\ e = fe)
      BY <3>1, <2>1, <1>4, <1>40, <1>5
    <3> QED
      BY <3>1, <3>2, <1>5 DEF HasEntry
  <2>2. CASE z # x
    BY <2>2, <1>6 DEF HasEntry
  <2> QED
    BY <2>1, <2>2
<1> QED
  BY <1>6, <1>7 DEF Grown, r

\* The two entries for the i-th link of a path.
entryFor(g, x, y, id, d, isRetransPoint) == LltcFIBEntry(id, linkIdOf(g, x, y), d, isRetransPoint)

FromLink(e, x, g, p, i, id, prim) ==
  \/ x = p[i] /\ e = entryFor(g, p[i], p[i + 1], id, IF prim THEN 0 ELSE 1, prim \/ i = 1)
  \/ x = p[i + 1] /\ e = entryFor(g, p[i + 1], p[i], id, IF prim THEN 1 ELSE 0, prim)

\* The states r are those in m with the entries for the links of the path before
\* the k-th, too.
EntriesFor(r, m, g, n, p, k, id, prim) ==
  /\ r \in Fses(n)
  /\ \A z \in 0 .. n - 1 :
       /\ \A e : HasEntry(r, z, e) <=> HasEntry(m, z, e) \/ \E i \in 1 .. k : FromLink(e, z, g, p, i, id, prim)
       /\ r[z].preferredDownPathId = m[z].preferredDownPathId

LEMMA BothEntries ==
  ASSUME NEW n \in Nat, Network(graph, n), NEW p, NEW i, Joined(graph, n, p[i], p[i + 1]), NEW id \in Int, NEW prim \in BOOLEAN
  PROVE  /\ feCur(p, i, id, prim) = entryFor(graph, p[i], p[i + 1], id, IF prim THEN 0 ELSE 1, prim \/ i = 1)
         /\ feNext(p, i, id, prim) = entryFor(graph, p[i + 1], p[i], id, IF prim THEN 1 ELSE 0, prim)
         /\ feCur(p, i, id, prim) \in FibEntries /\ feNext(p, i, id, prim) \in FibEntries
<1> DEFINE x == p[i]
           y == p[i + 1]
<1>1. Joined(graph, n, x, y) /\ Joined(graph, n, y, x)
  BY DEF Joined
<1> HIDE DEF x, y
<1>2. /\ faceTo(x, y) = linkIdOf(graph, x, y) /\ linkIdOf(graph, x, y) \in Nat
      /\ faceTo(y, x) = linkIdOf(graph, y, x) /\ linkIdOf(graph, y, x) \in Nat
  BY <1>1, FaceIs
<1>3. /\ feCur(p, i, id, prim) = LltcFIBEntry(id, faceTo(x, y), IF prim THEN 0 ELSE 1, prim \/ i = 1)
      /\ feNext(p, i, id, prim) = LltcFIBEntry(id, faceTo(y, x), IF prim THEN 1 ELSE 0, prim)
  BY DEF feCur, feNext, x, y
<1>4. (IF prim THEN 0 ELSE 1) \in {0, 1} /\ (IF prim THEN 1 ELSE 0) \in {0, 1}
  OBVIOUS
<1>5. (prim \/ i = 1) \in BOOLEAN
  OBVIOUS
<1> DEFINE b == prim \/ i = 1
           d == IF prim THEN 0 ELSE 1
           f == IF prim THEN 1 ELSE 0
<1>6. b \in BOOLEAN /\ d \in {0, 1} /\ f \in {0, 1}
  BY <1>4, <1>5
<1>7. \A v \in Nat, w \in {0, 1}, a \in BOOLEAN : LltcFIBEntry(id, v, w, a) \in FibEntries
  BY DEF LltcFIBEntry, FibEntries
<1> HIDE DEF b, d, f
<1>8. LltcFIBEntry(id, linkIdOf(graph, x, y), d, b) \in FibEntries /\ LltcFIBEntry(id, linkIdOf(graph, y, x), f, prim) \in FibEntries
  BY <1>2, <1>6, <1>7
<1> QED
  BY <1>2, <1>3, <1>8 DEF entryFor, b, d, f, x, y

LEMMA LinkAdded ==
  ASSUME NEW n \in Nat, Network(graph, n), NEW p, JoinedUp(p, graph, n), NEW id \in Int, NEW prim \in BOOLEAN,
         NEW m, NEW k \in Nat, k + 1 \in 1 .. Len(p) - 1, NEW s, EntriesFor(s, m, graph, n, p, k, id, prim)
  PROVE  EntriesFor(addLinkEntries(s, p, k + 1, id, prim), m, graph, n, p, k + 1, id, prim)
<1> DEFINE i == k + 1
           x == p[i]
           y == p[i + 1]
           c == feCur(p, i, id, prim)
           f == feNext(p, i, id, prim)
           t == addFibEntry(s, x, c)
           r == addFibEntry(t, y, f)
<1>1. Joined(graph, n, p[i], p[i + 1]) /\ Joined(graph, n, x, y)
  BY DEF JoinedUp
<1>2. r = addLinkEntries(s, p, i, id, prim)
  BY DEF addLinkEntries
<1>3. s \in Fses(n) /\ x \in 0 .. n - 1 /\ y \in 0 .. n - 1
  BY <1>1 DEF EntriesFor, Joined
<1>40. /\ c = entryFor(graph, p[i], p[i + 1], id, IF prim THEN 0 ELSE 1, prim \/ i = 1)
       /\ f = entryFor(graph, p[i + 1], p[i], id, IF prim THEN 1 ELSE 0, prim)
       /\ c \in FibEntries /\ f \in FibEntries
  <2> HIDE DEF i
  <2> QED
    BY <1>1, BothEntries
<1>4. \A e, z : FromLink(e, z, graph, p, i, id, prim) <=> (z = x /\ e = c) \/ (z = y /\ e = f)
  <2> HIDE DEF i, c, f
  <2> QED
    BY <1>40 DEF FromLink
<1>5. c \in FibEntries /\ f \in FibEntries
  BY <1>40
<1> HIDE DEF i, x, y, c, f
<1>6. Grown(t, s, n, x, c)
  BY <1>3, <1>5, EntryAdded
<1>7. Grown(r, t, n, y, f)
  <2>1. t \in Fses(n)
    BY <1>6 DEF Grown
  <2> HIDE DEF t
  <2> QED
    BY <2>1, <1>3, <1>5, EntryAdded
<1> HIDE DEF t, r
<1>8. \A j : j \in 1 .. i <=> j \in 1 .. k \/ j = i
  BY DEF i
<1>9. ASSUME NEW z \in 0 .. n - 1
      PROVE  /\ \A e : HasEntry(r, z, e) <=> HasEntry(m, z, e) \/ \E j \in 1 .. i : FromLink(e, z, graph, p, j, id, prim)
             /\ r[z].preferredDownPathId = m[z].preferredDownPathId
  <2>1. r[z].preferredDownPathId = m[z].preferredDownPathId
    BY <1>6, <1>7 DEF Grown, EntriesFor
  <2>2. \A e : HasEntry(r, z, e) <=> HasEntry(s, z, e) \/ (z = x /\ e = c) \/ (z = y /\ e = f)
    BY <1>6, <1>7 DEF Grown
  <2>3. \A e : HasEntry(s, z, e) <=> HasEntry(m, z, e) \/ \E j \in 1 .. k : FromLink(e, z, graph, p, j, id, prim)
    BY DEF EntriesFor
  <2>4. ASSUME NEW e PROVE HasEntry(r, z, e) <=> HasEntry(m, z, e) \/ \E j \in 1 .. i : FromLink(e, z, graph, p, j, id, prim)
    BY <2>2, <2>3, <1>4, <1>8
  <2> QED
    BY <2>1, <2>4
<1>10. r \in Fses(n)
  BY <1>7 DEF Grown
<1> QED
  BY <1>2, <1>9, <1>10 DEF EntriesFor, i

OfPath(e, x, g, p, id, prim) == \E i \in 1 .. Len(p) - 1 : FromLink(e, x, g, p, i, id, prim)

\* The states r are those in m with a path added.
Added(r, m, g, n, p, id, prim) ==
  /\ r \in Fses(n)
  /\ \A z \in 0 .. n - 1 :
       /\ \A e : HasEntry(r, z, e) <=> HasEntry(m, z, e) \/ OfPath(e, z, g, p, id, prim)
       /\ r[z].preferredDownPathId =
            IF z \in NodesOf(p) /\ m[z].preferredDownPathId = NoPath THEN id ELSE m[z].preferredDownPathId

\* The entries for all links of a path.
linkEntries(mm, p, k, id, prim) == Loop(LAMBDA m, i : addLinkEntries(m, p, i, id, prim), mm, k)

LEMMA LinksAdded ==
  ASSUME NEW n \in Nat, Network(graph, n), NEW p, JoinedUp(p, graph, n), NEW id \in Int, NEW prim \in BOOLEAN,
         NEW mm \in Fses(n), NEW k \in Nat, k = Len(p) - 1
  PROVE  EntriesFor(linkEntries(mm, p, k, id, prim), mm, graph, n, p, k, id, prim)
<1> DEFINE s0 == mm
           step(m, i) == addLinkEntries(m, p, i, id, prim)
           stage == [i \in 0 .. k |-> {r \in Fses(n) : EntriesFor(r, mm, graph, n, p, i, id, prim)}]
           F == [i \in 1 .. k |-> [o \in stage[i - 1] |-> step(o, i)]]
           a == CHOOSE f : f = [i \in 0 .. k |-> IF i = 0 THEN s0 ELSE step(f[i - 1], i)]
<1>1. k \in Nat
  OBVIOUS
<1>2. s0 \in stage[0]
  <2>1. EntriesFor(mm, mm, graph, n, p, 0, id, prim)
    BY DEF EntriesFor
  <2> QED
    BY <2>1
<1>3. ASSUME NEW i \in 1 .. k, NEW r \in stage[i - 1] PROVE step(r, i) \in stage[i]
  <2> DEFINE j == i - 1
  <2>1. j \in 0 .. k /\ i \in 0 .. k /\ j \in Nat /\ j + 1 = i
    OBVIOUS
  <2>2. EntriesFor(r, mm, graph, n, p, j, id, prim)
    BY <2>1
  <2> HIDE DEF j
  <2>3. EntriesFor(addLinkEntries(r, p, j + 1, id, prim), mm, graph, n, p, j + 1, id, prim)
    BY <2>1, <2>2, LinkAdded
  <2>4. EntriesFor(step(r, i), mm, graph, n, p, i, id, prim)
    BY <2>1, <2>3
  <2> HIDE DEF step
  <2>5. step(r, i) \in Fses(n)
    BY <2>4 DEF EntriesFor
  <2> QED
    BY <2>1, <2>4, <2>5
<1>4. \A i \in 1 .. k : \A r \in stage[i - 1] : step(r, i) \in stage[i]
  <2> HIDE DEF step, stage
  <2> QED
    BY <1>3
<1> HIDE DEF s0, step, stage
<1>20. \A i \in 1 .. k : F[i] \in [stage[i - 1] -> stage[i]]
  BY <1>4
<1>21. PICK f : IsTrace(f, k) /\ IsRun(f, k, s0, F, stage)
  <2> HIDE DEF F
  <2> QED
    BY <1>1, <1>2, <1>20, RunExists
<1>22. f = [i \in 0 .. k |-> IF i = 0 THEN s0 ELSE step(f[i - 1], i)]
  <2>1. ASSUME NEW i \in 1 .. k PROVE f[i] = step(f[i - 1], i)
    <3>1. i - 1 \in 0 .. k /\ f[i] = F[i][f[i - 1]] /\ f[i - 1] \in stage[i - 1]
      <4> HIDE DEF F
      <4>1. i - 1 \in 0 .. k
        BY <1>1
      <4> QED
        BY <4>1, <1>21 DEF IsRun
    <3> QED
      BY <3>1
  <2>2. f[0] = s0
    BY <1>21 DEF IsRun
  <2>3. \A i \in 0 .. k : f[i] = IF i = 0 THEN s0 ELSE step(f[i - 1], i)
    BY <1>1, <2>1, <2>2
  <2> QED
    BY <1>21, <2>3 DEF IsTrace
<1>23. a = [i \in 0 .. k |-> IF i = 0 THEN s0 ELSE step(a[i - 1], i)]
  BY <1>22
<1> HIDE DEF a, F
<1>24. a[k] \in stage[k]
  <2>1. ASSUME NEW i \in 1 .. k, a[i - 1] \in stage[i - 1] PROVE a[i] \in stage[i]
    <3>1. a[i] = step(a[i - 1], i)
      BY <1>1, <1>23
    <3> QED
      BY <2>1, <3>1, <1>4
  <2>2. a[0] \in stage[0]
    BY <1>1, <1>2, <1>23
  <2>3. \A i \in 0 .. k : a[i] \in stage[i]
    BY <1>1, <2>1, <2>2, RunStays
  <2> QED
    BY <1>1, <2>3
<1>5. linkEntries(mm, p, k, id, prim) = a[k]
  BY DEF linkEntries, Loop, a, step, s0
<1> QED
  BY <1>1, <1>5, <1>24 DEF stage

LEMMA PathAdded ==
  ASSUME NEW n \in Nat, Network(graph, n), NEW p, IsPath(p, graph, n, {}), NEW id \in Int, NEW prim \in BOOLEAN,
         NEW m \in Fses(n), NEW primPathId \in Int
  PROVE  Added(addFibsFromPath(m, p, id, prim, primPathId), m, graph, n, p, id, prim)
<1> DEFINE k == Len(p) - 1
           w == linkEntries(m, p, k, id, prim)
           preferred(old) == IF old = NoPath THEN id ELSE old
           r == addFibsFromPath(m, p, id, prim, primPathId)
           h(x) == [w[x] EXCEPT !.preferredDownPathId = preferred(@), !.preferredUpPathId = preferred(@),
                                !.primaryPathId = primPathId]
<1>1. r = [x \in DOMAIN m |-> IF x \notin Range(p) THEN w[x] ELSE h(x)]
  BY DEF addFibsFromPath, linkEntries
<1>2. DOMAIN m = 0 .. n - 1
  BY DEF Fses
<1>3. k \in Nat /\ Range(p) = NodesOf(p)
  <2>1. Placed(p, n)
    BY PathNodes
  <2> QED
    BY <2>1 DEF Placed, Range, NodesOf
<1>4. JoinedUp(p, graph, n)
  BY PathJoins
<1>5. EntriesFor(w, m, graph, n, p, k, id, prim)
  <2>1. k = Len(p) - 1
    OBVIOUS
  <2> HIDE DEF k
  <2> QED
    BY <2>1, <1>3, <1>4, LinksAdded
<1>6. \A e, z : OfPath(e, z, graph, p, id, prim) <=> \E i \in 1 .. k : FromLink(e, z, graph, p, i, id, prim)
  BY DEF OfPath
<1> HIDE DEF w, k
<1>7. w \in Fses(n)
  BY <1>5 DEF EntriesFor
<1>8. ASSUME NEW z \in 0 .. n - 1
      PROVE  /\ h(z) \in FibStates /\ h(z).fibEntries = w[z].fibEntries
             /\ h(z).preferredDownPathId = preferred(w[z].preferredDownPathId)
  <2> DEFINE f == w[z]
             E == Seq(FibEntries)
             b == preferred(f.preferredDownPathId)
             c == preferred(f.preferredUpPathId)
  <2>1. f \in [fibEntries : E, preferredDownPathId : Int, preferredUpPathId : Int, primaryPathId : Int]
    BY <1>7 DEF Fses, FibStates
  <2>2. h(z) = [f EXCEPT !.preferredDownPathId = b, !.preferredUpPathId = c, !.primaryPathId = primPathId]
    OBVIOUS
  <2> HIDE DEF f, E
  <2>3. b \in Int /\ c \in Int
    BY <2>1
  <2> HIDE DEF b, c, h
  <2>4. /\ h(z) \in [fibEntries : E, preferredDownPathId : Int, preferredUpPathId : Int, primaryPathId : Int]
        /\ h(z).fibEntries = f.fibEntries /\ h(z).preferredDownPathId = b
    BY <2>1, <2>2, <2>3
  <2> QED
    BY <2>4 DEF FibStates, E, b, f
<1>9. \A z \in 0 .. n - 1 : w[z] \in FibStates
  BY <1>7 DEF Fses
<1> HIDE DEF h, r
<1>10. r \in Fses(n) /\ \A z \in 0 .. n - 1 : r[z] = IF z \notin NodesOf(p) THEN w[z] ELSE h(z)
  BY <1>1, <1>2, <1>3, <1>8, <1>9 DEF Fses
<1>11. ASSUME NEW z \in 0 .. n - 1
       PROVE  /\ \A e : HasEntry(r, z, e) <=> HasEntry(m, z, e) \/ OfPath(e, z, graph, p, id, prim)
              /\ r[z].preferredDownPathId =
                   IF z \in NodesOf(p) /\ m[z].preferredDownPathId = NoPath THEN id ELSE m[z].preferredDownPathId
  <2>1. \A e : HasEntry(w, z, e) <=> HasEntry(m, z, e) \/ OfPath(e, z, graph, p, id, prim)
    BY <1>5, <1>6 DEF EntriesFor
  <2>2. w[z].preferredDownPathId = m[z].preferredDownPathId
    BY <1>5 DEF EntriesFor
  <2>3. r[z].fibEntries = w[z].fibEntries
    BY <1>8, <1>10
  <2>4. \A e : HasEntry(r, z, e) <=> HasEntry(w, z, e)
    BY <2>3 DEF HasEntry
  <2>5. r[z].preferredDownPathId = IF z \notin NodesOf(p) THEN w[z].preferredDownPathId ELSE preferred(w[z].preferredDownPathId)
    BY <1>8, <1>10
  <2>6. r[z].preferredDownPathId =
          IF z \in NodesOf(p) /\ m[z].preferredDownPathId = NoPath THEN id ELSE m[z].preferredDownPathId
    BY <2>2, <2>5
  <2> QED
    BY <2>1, <2>4, <2>6
<1>12. Added(r, m, graph, n, p, id, prim)
  BY <1>10, <1>11 DEF Added
<1> QED
  BY <1>12 DEF r

\* The states of the routers for a flow, with its PP and the first k of its RSPs.
FlowEntries(m, rr, g, n, k) ==
  LET r == rspsOfFlow(rr) IN
  /\ m \in Fses(n)
  /\ \A z \in 0 .. n - 1 :
       /\ \A e : HasEntry(m, z, e) <=> \/ OfPath(e, z, g, rr.nodeIds, rr.pathID, TRUE)
                                       \/ \E j \in 1 .. k : OfPath(e, z, g, r[j].nodes, r[j].pathID, FALSE)
       /\ z \in NodesOf(rr.nodeIds) => m[z].preferredDownPathId = rr.pathID

LEMMA PpAdded ==
  ASSUME NEW n \in Nat, Network(graph, n), Nodes = 0 .. n - 1, NEW rr, FlowPaths(rr, graph, n)
  PROVE  FlowEntries(addFibsFromPath([x \in Nodes |-> getRouterFS], rr.nodeIds, rr.pathID, TRUE, rr.pathID),
                     rr, graph, n, 0)
<1> DEFINE m == [x \in Nodes |-> getRouterFS]
           p == rr.nodeIds
           id == rr.pathID
           r == addFibsFromPath(m, p, id, TRUE, id)
<1>1. getRouterFS \in FibStates /\ getRouterFS.fibEntries = <<>> /\ getRouterFS.preferredDownPathId = NoPath
  <2> DEFINE S == Seq(FibEntries)
  <2>1. <<>> \in S /\ NoPath \in Int
    BY DEF NoPath
  <2> HIDE DEF S
  <2>2. getRouterFS \in [fibEntries : S, preferredDownPathId : Int, preferredUpPathId : Int, primaryPathId : Int]
    BY <2>1 DEF getRouterFS
  <2> QED
    BY <2>2 DEF FibStates, S, getRouterFS
<1>2. m \in Fses(n) /\ \A z \in 0 .. n - 1 : m[z] = getRouterFS
  BY <1>1 DEF Fses
<1>3. \A z \in 0 .. n - 1 : \A e : ~HasEntry(m, z, e)
  <2>1. \A e : ~Occurs(e, <<>>)
    BY DEF Occurs
  <2> HIDE DEF m
  <2> QED
    BY <2>1, <1>1, <1>2 DEF HasEntry
<1> HIDE DEF m
<1>4. IsPath(p, graph, n, {}) /\ id \in Nat /\ id \in Int
  BY DEF FlowPaths
<1>5. Added(r, m, graph, n, p, id, TRUE)
  <2> HIDE DEF p, id
  <2> QED
    BY <1>2, <1>4, PathAdded
<1>40. p = rr.nodeIds /\ id = rr.pathID
  OBVIOUS
<1> HIDE DEF r, p, id
<1>6. ASSUME NEW z \in 0 .. n - 1
      PROVE  /\ \A e : HasEntry(r, z, e) <=> OfPath(e, z, graph, p, id, TRUE)
             /\ z \in NodesOf(p) => r[z].preferredDownPathId = id
  <2>1. \A e : HasEntry(r, z, e) <=> OfPath(e, z, graph, p, id, TRUE)
    BY <1>3, <1>5 DEF Added
  <2>2. m[z].preferredDownPathId = NoPath
    BY <1>1, <1>2
  <2>3. z \in NodesOf(p) => r[z].preferredDownPathId = id
    BY <2>2, <1>5 DEF Added
  <2> QED
    BY <2>1, <2>3
<1>7. r \in Fses(n) /\ \A j : j \notin 1 .. 0
  BY <1>5 DEF Added
<1>8. FlowEntries(r, rr, graph, n, 0)
  BY <1>6, <1>7, <1>40 DEF FlowEntries
<1> QED
  BY <1>8, <1>40 DEF r, m

LEMMA RspAdded ==
  ASSUME NEW n \in Nat, Network(graph, n), NEW rr, FlowPaths(rr, graph, n),
         NEW k \in Nat, k + 1 \in 1 .. Len(rspsOfFlow(rr)), NEW m, FlowEntries(m, rr, graph, n, k),
         NEW o, o = rspsOfFlow(rr)[k + 1]
  PROVE  FlowEntries(addFibsFromPath(m, o.nodes, o.pathID, FALSE, rr.pathID), rr, graph, n, k + 1)
<1> DEFINE r == rspsOfFlow(rr)
           p == o.nodes
           id == o.pathID
           t == addFibsFromPath(m, p, id, FALSE, rr.pathID)
           j == k + 1
<1>1. /\ IsPath(p, graph, n, {}) /\ id = rr.pathID + j /\ rr.pathID \in Nat
  <2>1. \A i \in 1 .. Len(r) : IsPath(r[i].nodes, graph, n, {}) /\ r[i].pathID = rr.pathID + i
    BY DEF FlowPaths
  <2> HIDE DEF r
  <2> QED
    BY <2>1 DEF r, FlowPaths
<1>2. id \in Int /\ rr.pathID \in Int /\ rr.pathID # NoPath
  BY <1>1 DEF NoPath
<1>3. m \in Fses(n)
  BY DEF FlowEntries
<1> HIDE DEF p, id
<1>4. Added(t, m, graph, n, p, id, FALSE)
  BY <1>1, <1>2, <1>3, PathAdded
<1>5. \A i : i \in 1 .. j <=> i \in 1 .. k \/ i = j
  OBVIOUS
<1>6. r[j].nodes = p /\ r[j].pathID = id
  BY DEF p, id
<1> HIDE DEF t, j, r
<1>60. r = rspsOfFlow(rr)
  BY DEF r
<1>7. ASSUME NEW z \in 0 .. n - 1
      PROVE  /\ \A e : HasEntry(t, z, e) <=> \/ OfPath(e, z, graph, rr.nodeIds, rr.pathID, TRUE)
                                             \/ \E i \in 1 .. j : OfPath(e, z, graph, r[i].nodes, r[i].pathID, FALSE)
             /\ z \in NodesOf(rr.nodeIds) => t[z].preferredDownPathId = rr.pathID
  <2>1. \A e : HasEntry(t, z, e) <=> HasEntry(m, z, e) \/ OfPath(e, z, graph, p, id, FALSE)
    BY <1>4 DEF Added
  <2>2. \A e : HasEntry(m, z, e) <=> \/ OfPath(e, z, graph, rr.nodeIds, rr.pathID, TRUE)
                                     \/ \E i \in 1 .. k : OfPath(e, z, graph, r[i].nodes, r[i].pathID, FALSE)
    BY <1>60 DEF FlowEntries
  <2>3. z \in NodesOf(rr.nodeIds) => m[z].preferredDownPathId = rr.pathID
    BY DEF FlowEntries
  <2>4. z \in NodesOf(rr.nodeIds) => t[z].preferredDownPathId = rr.pathID
    BY <2>3, <1>2, <1>4 DEF Added
  <2>5. ASSUME NEW e
        PROVE  HasEntry(t, z, e) <=> \/ OfPath(e, z, graph, rr.nodeIds, rr.pathID, TRUE)
                                     \/ \E i \in 1 .. j : OfPath(e, z, graph, r[i].nodes, r[i].pathID, FALSE)
    <3>1. (\E i \in 1 .. j : OfPath(e, z, graph, r[i].nodes, r[i].pathID, FALSE))
            <=> (\E i \in 1 .. k : OfPath(e, z, graph, r[i].nodes, r[i].pathID, FALSE)) \/ OfPath(e, z, graph, p, id, FALSE)
      BY <1>5, <1>6
    <3> QED
      BY <3>1, <2>1, <2>2
  <2> QED
    BY <2>4, <2>5
<1>8. t \in Fses(n)
  BY <1>4 DEF Added
<1>9. FlowEntries(t, rr, graph, n, j)
  BY <1>7, <1>8, <1>60 DEF FlowEntries
<1> QED
  BY <1>9 DEF t, j, p, id

\* The routers get the entries of all paths of a flow.
LEMMA FlowInstalled ==
  ASSUME NEW n \in Nat, Network(graph, n), Nodes = 0 .. n - 1, NEW rr, FlowPaths(rr, graph, n),
         NEW k \in Nat, k = Len(rspsOfFlow(rr))
  PROVE  FlowEntries(convertToFSes(rr), rr, graph, n, k)
<1> DEFINE r == rspsOfFlow(rr)
           s0 == addFibsFromPath([x \in Nodes |-> getRouterFS], rr.nodeIds, rr.pathID, TRUE, rr.pathID)
           step(m, i) == addFibsFromPath(m, r[i].nodes, r[i].pathID, FALSE, rr.pathID)
           stage == [i \in 0 .. k |-> {m \in Fses(n) : FlowEntries(m, rr, graph, n, i)}]
           F == [i \in 1 .. k |-> [o \in stage[i - 1] |-> step(o, i)]]
           a == CHOOSE f : f = [i \in 0 .. k |-> IF i = 0 THEN s0 ELSE step(f[i - 1], i)]
<1>1. k \in Nat
  OBVIOUS
<1>2. s0 \in stage[0]
  <2> HIDE DEF s0
  <2>1. FlowEntries(s0, rr, graph, n, 0)
    BY PpAdded DEF s0
  <2>2. s0 \in Fses(n)
    BY <2>1 DEF FlowEntries
  <2> QED
    BY <2>1, <2>2
<1>3. ASSUME NEW i \in 1 .. k, NEW m \in stage[i - 1] PROVE step(m, i) \in stage[i]
  <2> DEFINE j == i - 1
             o == r[i]
  <2>1. j \in 0 .. k /\ i \in 0 .. k /\ j \in Nat /\ j + 1 = i
    OBVIOUS
  <2>2. FlowEntries(m, rr, graph, n, j)
    BY <2>1
  <2>3. j + 1 \in 1 .. Len(rspsOfFlow(rr)) /\ o = rspsOfFlow(rr)[j + 1]
    BY <2>1
  <2> HIDE DEF j, o
  <2>4. FlowEntries(addFibsFromPath(m, o.nodes, o.pathID, FALSE, rr.pathID), rr, graph, n, j + 1)
    BY <2>1, <2>2, <2>3, RspAdded
  <2>5. FlowEntries(step(m, i), rr, graph, n, i)
    BY <2>1, <2>4 DEF o
  <2> HIDE DEF step
  <2>6. step(m, i) \in Fses(n)
    BY <2>5 DEF FlowEntries
  <2> QED
    BY <2>1, <2>5, <2>6
<1>4. \A i \in 1 .. k : \A m \in stage[i - 1] : step(m, i) \in stage[i]
  <2> HIDE DEF step, stage
  <2> QED
    BY <1>3
<1> HIDE DEF s0, step, stage
<1>20. \A i \in 1 .. k : F[i] \in [stage[i - 1] -> stage[i]]
  BY <1>4
<1>21. PICK f : IsTrace(f, k) /\ IsRun(f, k, s0, F, stage)
  <2> HIDE DEF F
  <2> QED
    BY <1>1, <1>2, <1>20, RunExists
<1>22. f = [i \in 0 .. k |-> IF i = 0 THEN s0 ELSE step(f[i - 1], i)]
  <2>1. ASSUME NEW i \in 1 .. k PROVE f[i] = step(f[i - 1], i)
    <3>1. i - 1 \in 0 .. k /\ f[i] = F[i][f[i - 1]] /\ f[i - 1] \in stage[i - 1]
      <4> HIDE DEF F
      <4>1. i - 1 \in 0 .. k
        BY <1>1
      <4> QED
        BY <4>1, <1>21 DEF IsRun
    <3> QED
      BY <3>1
  <2>2. f[0] = s0
    BY <1>21 DEF IsRun
  <2>3. \A i \in 0 .. k : f[i] = IF i = 0 THEN s0 ELSE step(f[i - 1], i)
    BY <1>1, <2>1, <2>2
  <2> QED
    BY <1>21, <2>3 DEF IsTrace
<1>23. a = [i \in 0 .. k |-> IF i = 0 THEN s0 ELSE step(a[i - 1], i)]
  BY <1>22
<1> HIDE DEF a, F
<1>24. a[k] \in stage[k]
  <2>1. ASSUME NEW i \in 1 .. k, a[i - 1] \in stage[i - 1] PROVE a[i] \in stage[i]
    <3>1. a[i] = step(a[i - 1], i)
      BY <1>1, <1>23
    <3> QED
      BY <2>1, <3>1, <1>4
  <2>2. a[0] \in stage[0]
    BY <1>1, <1>2, <1>23
  <2>3. \A i \in 0 .. k : a[i] \in stage[i]
    BY <1>1, <2>1, <2>2, RunStays
  <2> QED
    BY <1>1, <2>3
<1>5. convertToFSes(rr) = a[k]
  <2>1. Len(rspsOfFlow(rr)) = k
    OBVIOUS
  <2> QED
    BY <2>1 DEF convertToFSes, Loop, a, step, s0
<1> QED
  BY <1>1, <1>5, <1>24 DEF stage

EntriesOf(m, x, id, d) == {e \in Range(m[x].fibEntries) : e.pathId = id /\ e.direction = d}
LeadsTo(m, x, id, d, face) == {e.face_nextHop : e \in EntriesOf(m, x, id, d)} = {face}

\* What has direction d is led along p by the entries for the path id, and what has the
\* other one is led back.
LedAlong(m, g, p, id, d) ==
  \A i \in 1 .. Len(p) - 1 : /\ LeadsTo(m, p[i], id, d, linkIdOf(g, p[i], p[i + 1]))
                             /\ LeadsTo(m, p[i + 1], id, 1 - d, linkIdOf(g, p[i + 1], p[i]))

\* A path has its id for itself.
AloneAt(m, g, n, p, id, prim) ==
  \A z \in 0 .. n - 1 : \A e : e.pathId = id => (HasEntry(m, z, e) <=> OfPath(e, z, g, p, id, prim))

LEMMA OneEntry ==
  ASSUME NEW m, NEW x, NEW id, NEW d, NEW face, NEW e, HasEntry(m, x, e), e.pathId = id, e.direction = d, e.face_nextHop = face,
         \A o : HasEntry(m, x, o) /\ o.pathId = id /\ o.direction = d => o.face_nextHop = face
  PROVE  LeadsTo(m, x, id, d, face)
<1> DEFINE s == m[x].fibEntries
<1>1. \A o : Occurs(o, s) <=> o \in Range(s)
  BY DEF Occurs, Range
<1>2. \A o : HasEntry(m, x, o) <=> Occurs(o, s)
  BY DEF HasEntry
<1>3. \A o : o \in EntriesOf(m, x, id, d) <=> HasEntry(m, x, o) /\ o.pathId = id /\ o.direction = d
  <2> HIDE DEF s
  <2>1. EntriesOf(m, x, id, d) = {o \in Range(s) : o.pathId = id /\ o.direction = d}
    BY DEF EntriesOf, s
  <2> QED
    BY <2>1, <1>1, <1>2
<1> DEFINE T == EntriesOf(m, x, id, d)
<1> HIDE DEF T
<1>4. e \in T /\ \A o \in T : o.face_nextHop = face
  BY <1>3 DEF T
<1>5. {o.face_nextHop : o \in T} = {face}
  BY <1>4
<1> QED
  BY <1>5 DEF LeadsTo, T

LEMMA PathLed ==
  ASSUME NEW n \in Nat, NEW g, NEW p, Placed(p, n), NEW m, NEW id, NEW prim \in BOOLEAN, AloneAt(m, g, n, p, id, prim)
  PROVE  LedAlong(m, g, p, id, IF prim THEN 0 ELSE 1)
<1> DEFINE d == IF prim THEN 0 ELSE 1
<1> SUFFICES ASSUME NEW i \in 1 .. Len(p) - 1
             PROVE  /\ LeadsTo(m, p[i], id, d, linkIdOf(g, p[i], p[i + 1]))
                    /\ LeadsTo(m, p[i + 1], id, 1 - d, linkIdOf(g, p[i + 1], p[i]))
  BY DEF LedAlong
<1>1. Len(p) \in Nat
  BY DEF Placed
<1>2. \A j \in 1 .. Len(p) - 1 : j \in 1 .. Len(p) /\ j + 1 \in 1 .. Len(p)
  BY <1>1
<1>3. /\ d = (IF prim THEN 0 ELSE 1) /\ 1 - d = (IF prim THEN 1 ELSE 0) /\ d # 1 - d
  OBVIOUS
<1> DEFINE f == 1 - d
           x == p[i]
           y == p[i + 1]
           curOf(j) == entryFor(g, p[j], p[j + 1], id, d, prim \/ j = 1)
           nextOf(j) == entryFor(g, p[j + 1], p[j], id, f, prim)
<1>4. f = (IF prim THEN 1 ELSE 0) /\ f # d
  BY <1>3
<1>5. \A e, z : OfPath(e, z, g, p, id, prim) <=>
        \E j \in 1 .. Len(p) - 1 : (z = p[j] /\ e = curOf(j)) \/ (z = p[j + 1] /\ e = nextOf(j))
  <2> HIDE DEF d, f
  <2> QED
    BY <1>3, <1>4 DEF OfPath, FromLink, d
<1> HIDE DEF d, f
<1>6. \A j : /\ curOf(j).pathId = id /\ curOf(j).direction = d /\ curOf(j).face_nextHop = linkIdOf(g, p[j], p[j + 1])
             /\ nextOf(j).pathId = id /\ nextOf(j).direction = f /\ nextOf(j).face_nextHop = linkIdOf(g, p[j + 1], p[j])
  BY DEF entryFor, LltcFIBEntry
<1> HIDE DEF curOf, nextOf
<1>7. \A j \in 1 .. Len(p) - 1 : (p[j] = x => j = i) /\ (p[j + 1] = y => j = i)
  <2>1. ASSUME NEW j \in 1 .. Len(p) - 1, p[j] = x PROVE j = i
    BY <2>1, <1>2 DEF Placed
  <2>2. ASSUME NEW j \in 1 .. Len(p) - 1, p[j + 1] = y PROVE j = i
    <3>1. j + 1 = i + 1
      BY <2>2, <1>2 DEF Placed
    <3> QED
      BY <3>1, <1>1
  <2> QED
    BY <2>1, <2>2
<1>8. x \in 0 .. n - 1 /\ y \in 0 .. n - 1
  BY <1>2 DEF Placed
<1>9. x = p[i] /\ y = p[i + 1]
  OBVIOUS
<1> HIDE DEF x, y
<1>10. LeadsTo(m, x, id, d, linkIdOf(g, p[i], p[i + 1]))
  <2>1. HasEntry(m, x, curOf(i))
    BY <1>5, <1>6, <1>8, <1>9 DEF AloneAt
  <2>2. ASSUME NEW o, HasEntry(m, x, o), o.pathId = id, o.direction = d PROVE o.face_nextHop = linkIdOf(g, p[i], p[i + 1])
    <3>1. OfPath(o, x, g, p, id, prim)
      BY <2>2, <1>8 DEF AloneAt
    <3>2. PICK j \in 1 .. Len(p) - 1 : (x = p[j] /\ o = curOf(j)) \/ (x = p[j + 1] /\ o = nextOf(j))
      BY <3>1, <1>5
    <3>3. x = p[j] /\ o = curOf(j)
      BY <3>2, <2>2, <1>4, <1>6
    <3>4. j = i
      BY <3>3, <1>7
    <3> QED
      BY <3>3, <3>4, <1>6
  <2> DEFINE e == curOf(i)
  <2>3. HasEntry(m, x, e) /\ e.pathId = id /\ e.direction = d /\ e.face_nextHop = linkIdOf(g, p[i], p[i + 1])
    BY <2>1, <1>6
  <2> HIDE DEF e
  <2> QED
    BY <2>2, <2>3, OneEntry
<1>11. LeadsTo(m, y, id, f, linkIdOf(g, p[i + 1], p[i]))
  <2>1. HasEntry(m, y, nextOf(i))
    BY <1>5, <1>6, <1>8, <1>9 DEF AloneAt
  <2>2. ASSUME NEW o, HasEntry(m, y, o), o.pathId = id, o.direction = f PROVE o.face_nextHop = linkIdOf(g, p[i + 1], p[i])
    <3>1. OfPath(o, y, g, p, id, prim)
      BY <2>2, <1>8 DEF AloneAt
    <3>2. PICK j \in 1 .. Len(p) - 1 : (y = p[j] /\ o = curOf(j)) \/ (y = p[j + 1] /\ o = nextOf(j))
      BY <3>1, <1>5
    <3>3. y = p[j + 1] /\ o = nextOf(j)
      BY <3>2, <2>2, <1>4, <1>6
    <3>4. j = i
      BY <3>3, <1>7
    <3> QED
      BY <3>3, <3>4, <1>6
  <2> DEFINE e == nextOf(i)
  <2>3. HasEntry(m, y, e) /\ e.pathId = id /\ e.direction = f /\ e.face_nextHop = linkIdOf(g, p[i + 1], p[i])
    BY <2>1, <1>6
  <2> HIDE DEF e
  <2> QED
    BY <2>2, <2>3, OneEntry
<1> QED
  BY <1>9, <1>10, <1>11 DEF f

\* All paths of a flow are led along by the states m.
FlowLed(m, rr, g) ==
  LET r == rspsOfFlow(rr) IN
  /\ LedAlong(m, g, rr.nodeIds, rr.pathID, 0)
  /\ \A j \in 1 .. Len(r) : LedAlong(m, g, r[j].nodes, r[j].pathID, 1)
  /\ \A z \in NodesOf(rr.nodeIds) : m[z].preferredDownPathId = rr.pathID

LEMMA InstalledLeads ==
  ASSUME NEW n \in Nat, NEW g, NEW rr, FlowPaths(rr, g, n), NEW m, FlowEntries(m, rr, g, n, Len(rspsOfFlow(rr)))
  PROVE  FlowLed(m, rr, g)
<1> DEFINE r == rspsOfFlow(rr)
           p == rr.nodeIds
           id == rr.pathID
<1>1. /\ IsPath(p, g, n, {}) /\ id \in Nat
      /\ \A j \in 1 .. Len(r) : IsPath(r[j].nodes, g, n, {}) /\ r[j].pathID = id + j
  BY DEF FlowPaths
<1>2. /\ \A z \in 0 .. n - 1 : \A e :
           HasEntry(m, z, e) <=> \/ OfPath(e, z, g, p, id, TRUE)
                                 \/ \E j \in 1 .. Len(r) : OfPath(e, z, g, r[j].nodes, r[j].pathID, FALSE)
      /\ \A z \in 0 .. n - 1 : z \in NodesOf(p) => m[z].preferredDownPathId = id
  BY DEF FlowEntries
<1>3. Placed(p, n) /\ \A j \in 1 .. Len(r) : Placed(r[j].nodes, n)
  <2> HIDE DEF p, r
  <2> QED
    BY <1>1, PathNodes
<1>4. r \in Seq(RspRecords(n))
  BY DEF FlowPaths
<1>40. r = rspsOfFlow(rr) /\ p = rr.nodeIds /\ id = rr.pathID
  OBVIOUS
<1> HIDE DEF r, p, id
<1>5. Len(r) \in Nat
  BY <1>4
<1>6. \A e, z, q1, k, prim : OfPath(e, z, g, q1, k, prim) => e.pathId = k
  BY DEF OfPath, FromLink, entryFor, LltcFIBEntry
<1>7. \A j \in 1 .. Len(r) : r[j].pathID # id /\ \A l \in 1 .. Len(r) : r[j].pathID = r[l].pathID => j = l
  <2>1. \A j \in 1 .. Len(r) : r[j].pathID = id + j /\ j \in Nat /\ j # 0
    BY <1>1
  <2> QED
    BY <2>1, <1>1
<1>8. LedAlong(m, g, p, id, 0)
  <2>0. ASSUME NEW z \in 0 .. n - 1, NEW e, e.pathId = id PROVE HasEntry(m, z, e) <=> OfPath(e, z, g, p, id, TRUE)
    <3>1. HasEntry(m, z, e) <=> \/ OfPath(e, z, g, p, id, TRUE)
                                \/ \E j \in 1 .. Len(r) : OfPath(e, z, g, r[j].nodes, r[j].pathID, FALSE)
      BY <1>2
    <3>2. ASSUME NEW j \in 1 .. Len(r), OfPath(e, z, g, r[j].nodes, r[j].pathID, FALSE) PROVE FALSE
      <4>1. e.pathId = r[j].pathID
        BY <3>2, <1>6
      <4> QED
        BY <4>1, <2>0, <1>7
    <3> QED
      BY <3>1, <3>2
  <2>1. AloneAt(m, g, n, p, id, TRUE)
    BY <2>0 DEF AloneAt
  <2>2. LedAlong(m, g, p, id, IF TRUE THEN 0 ELSE 1)
    BY <2>1, <1>3, PathLed
  <2> QED
    BY <2>2
<1>9. ASSUME NEW j \in 1 .. Len(r) PROVE LedAlong(m, g, r[j].nodes, r[j].pathID, 1)
  <2> DEFINE t == r[j].nodes
             k == r[j].pathID
  <2>1. Placed(t, n)
    BY <1>3
  <2>2. ASSUME NEW z \in 0 .. n - 1, NEW e, e.pathId = k PROVE HasEntry(m, z, e) <=> OfPath(e, z, g, t, k, FALSE)
    <3>1. HasEntry(m, z, e) <=> \/ OfPath(e, z, g, p, id, TRUE)
                                \/ \E l \in 1 .. Len(r) : OfPath(e, z, g, r[l].nodes, r[l].pathID, FALSE)
      BY <1>2
    <3>2. ~OfPath(e, z, g, p, id, TRUE)
      <4>1. OfPath(e, z, g, p, id, TRUE) => e.pathId = id
        BY <1>6
      <4> QED
        BY <4>1, <2>2, <1>7
    <3>3. ASSUME NEW l \in 1 .. Len(r), OfPath(e, z, g, r[l].nodes, r[l].pathID, FALSE) PROVE OfPath(e, z, g, t, k, FALSE)
      <4>1. e.pathId = r[l].pathID
        BY <3>3, <1>6
      <4>2. j = l
        BY <4>1, <2>2, <1>7
      <4> QED
        BY <4>2, <3>3
    <3> QED
      BY <3>1, <3>2, <3>3
  <2> HIDE DEF t, k
  <2>3. AloneAt(m, g, n, t, k, FALSE)
    BY <2>2 DEF AloneAt
  <2>4. LedAlong(m, g, t, k, IF FALSE THEN 0 ELSE 1)
    BY <2>1, <2>3, PathLed
  <2> QED
    BY <2>4 DEF t, k
<1>10. NodesOf(p) \subseteq 0 .. n - 1
  BY <1>3 DEF Placed, NodesOf
<1> QED
  BY <1>2, <1>8, <1>9, <1>10, <1>40 DEF FlowLed

\* The face entries of the routers, and what they tell.
Entries(g, n) ==
  {es \in [0 .. n - 1 -> UNION {[Faces(g, x) -> Int] : x \in 0 .. n - 1}] :
     \A x \in 0 .. n - 1 : es[x] \in [Faces(g, x) -> Int]}

Knows(es, g, x, y) == es[x][linkIdOf(g, x, y)] = y
KeptUp(es, r, g, n) == \A x, y : Joined(g, n, x, y) /\ Knows(es, g, x, y) => Knows(r, g, x, y)
PathKnown(es, g, p) == \A i \in 1 .. Len(p) - 1 : Knows(es, g, p[i], p[i + 1]) /\ Knows(es, g, p[i + 1], p[i])

SetOne(es, x, f, y) == [es EXCEPT ![x] = [es[x] EXCEPT ![f] = y]]

OneSet(d, es, g, n, x, f, y) ==
  /\ d \in Entries(g, n) /\ d[x][f] = y
  /\ \A z \in 0 .. n - 1 : z # x => d[z] = es[z]
  /\ \A i \in Faces(g, x) : i # f => d[x][i] = es[x][i]

LEMMA SetOneIs ==
  ASSUME NEW n \in Nat, NEW g, NEW es \in Entries(g, n), NEW x \in 0 .. n - 1, NEW f \in Faces(g, x), NEW y \in Int
  PROVE  OneSet(SetOne(es, x, f, y), es, g, n, x, f, y)
<1> DEFINE U == UNION {[Faces(g, z) -> Int] : z \in 0 .. n - 1}
           h == [es[x] EXCEPT ![f] = y]
           r == SetOne(es, x, f, y)
<1>1. es \in [0 .. n - 1 -> U] /\ \A z \in 0 .. n - 1 : es[z] \in [Faces(g, z) -> Int]
  BY DEF Entries
<1>2. es[x] \in [Faces(g, x) -> Int]
  BY <1>1
<1>3. h \in [Faces(g, x) -> Int] /\ h[f] = y /\ \A i \in Faces(g, x) : i # f => h[i] = es[x][i]
  BY <1>2
<1>4. r = [es EXCEPT ![x] = h]
  BY DEF SetOne
<1> HIDE DEF h, r
<1>5. h \in U
  BY <1>3
<1> HIDE DEF U
<1>6. r \in [0 .. n - 1 -> U] /\ r[x] = h /\ \A z \in 0 .. n - 1 : z # x => r[z] = es[z]
  BY <1>1, <1>4, <1>5
<1>7. r \in Entries(g, n)
  BY <1>1, <1>3, <1>6 DEF Entries, U
<1> QED
  BY <1>3, <1>6, <1>7 DEF r, OneSet

\* The ends of a link learn of each other, and forget no one.
Learnt(r, es, g, n, x, y) == r \in Entries(g, n) /\ KeptUp(es, r, g, n) /\ Knows(r, g, x, y) /\ Knows(r, g, y, x)

LEMMA LearnedIs ==
  ASSUME NEW n \in Nat, Network(graph, n), NEW x, NEW y, Joined(graph, n, x, y), NEW es \in Entries(graph, n)
  PROVE  Learnt(learn(es, x, y), es, graph, n, x, y)
<1> DEFINE f == linkIdOf(graph, x, y)
           h == linkIdOf(graph, y, x)
           d == SetOne(es, x, f, y)
           r == SetOne(d, y, h, x)
<1>1. x \in 0 .. n - 1 /\ y \in 0 .. n - 1 /\ x # y /\ Joined(graph, n, y, x)
  BY DEF Joined
<1>2. faceTo(x, y) = f /\ faceTo(y, x) = h /\ f \in Faces(graph, x) /\ h \in Faces(graph, y)
  BY <1>1, FaceIs
<1>3. x \in Int /\ y \in Int
  BY <1>1
<1>4. learn(es, x, y) = r
  BY <1>1, <1>2 DEF learn, SetOne
<1>40. f = linkIdOf(graph, x, y) /\ h = linkIdOf(graph, y, x)
  OBVIOUS
<1> HIDE DEF f, h
<1>50. OneSet(d, es, graph, n, x, f, y)
  BY <1>1, <1>2, <1>3, SetOneIs
<1>5. /\ d \in Entries(graph, n) /\ d[x][f] = y /\ \A z \in 0 .. n - 1 : z # x => d[z] = es[z]
      /\ \A i \in Faces(graph, x) : i # f => d[x][i] = es[x][i]
  BY <1>50 DEF OneSet
<1> HIDE DEF d
<1>60. OneSet(r, d, graph, n, y, h, x)
  BY <1>1, <1>2, <1>3, <1>5, SetOneIs
<1>6. /\ r \in Entries(graph, n) /\ r[y][h] = x /\ \A z \in 0 .. n - 1 : z # y => r[z] = d[z]
      /\ \A i \in Faces(graph, y) : i # h => r[y][i] = d[y][i]
  BY <1>60 DEF OneSet
<1> HIDE DEF r
<1>7. Knows(r, graph, x, y) /\ Knows(r, graph, y, x)
  BY <1>1, <1>5, <1>6, <1>40 DEF Knows
<1>8. ASSUME NEW z, NEW w, Joined(graph, n, z, w), Knows(es, graph, z, w) PROVE Knows(r, graph, z, w)
  <2> DEFINE i == linkIdOf(graph, z, w)
  <2>1. z \in 0 .. n - 1 /\ i \in Faces(graph, z) /\ es[z][i] = w
    BY <1>8, FaceIs DEF Knows, Joined
  <2>2. CASE z = x
    <3>1. r[z] = d[x]
      BY <2>1, <2>2, <1>1, <1>6
    <3>2. CASE i = f
      <4>1. w = y
        BY <3>2, <2>2, <1>8, <1>40, FacesDiffer
      <4> QED
        BY <4>1, <2>2, <1>7
    <3>3. CASE i # f
      <4> HIDE DEF i
      <4>1. r[z][i] = w
        BY <3>1, <3>3, <2>1, <2>2, <1>5
      <4> QED
        BY <4>1 DEF Knows, i
    <3> QED
      BY <3>2, <3>3
  <2>3. CASE z = y
    <3>1. d[y] = es[y]
      BY <1>1, <1>5
    <3>2. CASE i = h
      <4>1. w = x
        BY <3>2, <2>3, <1>1, <1>8, <1>40, FacesDiffer
      <4> QED
        BY <4>1, <2>3, <1>7
    <3>3. CASE i # h
      <4> HIDE DEF i
      <4>1. r[z][i] = w
        BY <3>1, <3>3, <2>1, <2>3, <1>6
      <4> QED
        BY <4>1 DEF Knows, i
    <3> QED
      BY <3>2, <3>3
  <2>4. CASE z # x /\ z # y
    <3>1. r[z] = es[z]
      BY <2>1, <2>4, <1>5, <1>6
    <3> QED
      BY <3>1, <2>1 DEF Knows
  <2> QED
    BY <2>2, <2>3, <2>4
<1>9. KeptUp(es, r, graph, n)
  BY <1>8 DEF KeptUp
<1> QED
  BY <1>4, <1>6, <1>7, <1>9 DEF Learnt

LEMMA KeptOn ==
  ASSUME NEW n, NEW g, NEW a, NEW b, NEW c, KeptUp(a, b, g, n), KeptUp(b, c, g, n)
  PROVE  KeptUp(a, c, g, n)
BY DEF KeptUp

LEMMA KnownOn ==
  ASSUME NEW n, NEW g, NEW a, NEW b, KeptUp(a, b, g, n), NEW p, JoinedUp(p, g, n), PathKnown(a, g, p)
  PROVE  PathKnown(b, g, p)
<1>1. ASSUME NEW i \in 1 .. Len(p) - 1 PROVE Knows(b, g, p[i], p[i + 1]) /\ Knows(b, g, p[i + 1], p[i])
  <2>1. Joined(g, n, p[i], p[i + 1])
    BY DEF JoinedUp
  <2>2. Joined(g, n, p[i + 1], p[i])
    BY <2>1 DEF Joined
  <2>3. Knows(a, g, p[i], p[i + 1]) /\ Knows(a, g, p[i + 1], p[i])
    BY DEF PathKnown
  <2> QED
    BY <2>1, <2>2, <2>3 DEF KeptUp
<1> QED
  BY <1>1 DEF PathKnown

\* What the faces tell after the first k links of a path.
KnownTo(es, old, g, n, p, k) ==
  /\ es \in Entries(g, n) /\ KeptUp(old, es, g, n)
  /\ \A i \in 1 .. k : Knows(es, g, p[i], p[i + 1]) /\ Knows(es, g, p[i + 1], p[i])

LEMMA LinkLearnt ==
  ASSUME NEW n \in Nat, Network(graph, n), NEW p, JoinedUp(p, graph, n), Len(p) \in Nat, NEW old, NEW k \in Nat,
         k + 1 \in 1 .. Len(p) - 1,
         NEW es, KnownTo(es, old, graph, n, p, k)
  PROVE  KnownTo(learn(es, p[k + 1], p[(k + 1) + 1]), old, graph, n, p, k + 1)
<1> DEFINE j == k + 1
           x == p[j]
           y == p[j + 1]
           r == learn(es, x, y)
<1>1. Joined(graph, n, x, y)
  BY DEF JoinedUp
<1>2. es \in Entries(graph, n) /\ KeptUp(old, es, graph, n)
  BY DEF KnownTo
<1> HIDE DEF x, y
<1>3. Learnt(r, es, graph, n, x, y)
  BY <1>1, <1>2, LearnedIs
<1> HIDE DEF r
<1>4. r \in Entries(graph, n) /\ KeptUp(es, r, graph, n) /\ Knows(r, graph, x, y) /\ Knows(r, graph, y, x)
  BY <1>3 DEF Learnt
<1>5. KeptUp(old, r, graph, n)
  BY <1>2, <1>4, KeptOn
<1>6. ASSUME NEW i \in 1 .. k PROVE Knows(r, graph, p[i], p[i + 1]) /\ Knows(r, graph, p[i + 1], p[i])
  <2>1. i \in 1 .. Len(p) - 1
    <3> DEFINE l == Len(p) - 1
    <3>1. k + 1 \in 1 .. l /\ l \in Int
      OBVIOUS
    <3> HIDE DEF l
    <3>2. i \in 1 .. l
      BY <3>1
    <3> QED
      BY <3>2 DEF l
  <2>2. Joined(graph, n, p[i], p[i + 1])
    BY <2>1 DEF JoinedUp
  <2>3. Joined(graph, n, p[i + 1], p[i])
    BY <2>2 DEF Joined
  <2>4. Knows(es, graph, p[i], p[i + 1]) /\ Knows(es, graph, p[i + 1], p[i])
    BY DEF KnownTo
  <2> QED
    BY <2>2, <2>3, <2>4, <1>4 DEF KeptUp
<1>7. \A i \in 1 .. j : i \in 1 .. k \/ i = j
  OBVIOUS
<1>8. x = p[j] /\ y = p[j + 1]
  BY DEF x, y
<1> HIDE DEF j
<1>9. \A i \in 1 .. j : Knows(r, graph, p[i], p[i + 1]) /\ Knows(r, graph, p[i + 1], p[i])
  BY <1>4, <1>6, <1>7, <1>8
<1>10. KnownTo(r, old, graph, n, p, j)
  BY <1>4, <1>5, <1>9 DEF KnownTo
<1> QED
  BY <1>10 DEF r, j, x, y

\* The ends of all links of a path learn of each other.
Learns(es, old, g, n, p) == es \in Entries(g, n) /\ KeptUp(old, es, g, n) /\ PathKnown(es, g, p)

LEMMA PathLearnt ==
  ASSUME NEW n \in Nat, Network(graph, n), NEW p, IsPath(p, graph, n, {}), NEW entries \in Entries(graph, n)
  PROVE  Learns(remoteLltcNodeIds(entries, p), entries, graph, n, p)
<1> DEFINE k == Len(p) - 1
           s0 == entries
           step(es, i) == learn(es, p[i], p[i + 1])
           stage == [i \in 0 .. k |-> {es \in Entries(graph, n) : KnownTo(es, entries, graph, n, p, i)}]
           F == [i \in 1 .. k |-> [o \in stage[i - 1] |-> step(o, i)]]
           a == CHOOSE f : f = [i \in 0 .. k |-> IF i = 0 THEN s0 ELSE step(f[i - 1], i)]
<1>1. k \in Nat /\ JoinedUp(p, graph, n) /\ Len(p) \in Nat
  <2>1. Placed(p, n)
    BY PathNodes
  <2> QED
    BY <2>1, PathJoins DEF Placed
<1>0. k = Len(p) - 1
  OBVIOUS
<1> HIDE DEF k
<1>2. s0 \in stage[0]
  <2>1. KnownTo(entries, entries, graph, n, p, 0)
    BY DEF KnownTo, KeptUp
  <2> QED
    BY <2>1, <1>1
<1>3. ASSUME NEW i \in 1 .. k, NEW es \in stage[i - 1] PROVE step(es, i) \in stage[i]
  <2> DEFINE j == i - 1
  <2>1. j \in 0 .. k /\ i \in 0 .. k /\ j \in Nat /\ j + 1 = i
    BY <1>1
  <2>2. KnownTo(es, entries, graph, n, p, j)
    BY <2>1
  <2>3. j + 1 \in 1 .. Len(p) - 1
    BY <2>1, <1>0
  <2> HIDE DEF j
  <2>4. KnownTo(learn(es, p[j + 1], p[(j + 1) + 1]), entries, graph, n, p, j + 1)
    BY <2>1, <2>2, <2>3, <1>1, LinkLearnt
  <2>5. KnownTo(step(es, i), entries, graph, n, p, i)
    BY <2>1, <2>4
  <2> HIDE DEF step
  <2>6. step(es, i) \in Entries(graph, n)
    BY <2>5 DEF KnownTo
  <2> QED
    BY <2>1, <2>5, <2>6
<1>4. \A i \in 1 .. k : \A es \in stage[i - 1] : step(es, i) \in stage[i]
  <2> HIDE DEF step, stage
  <2> QED
    BY <1>3
<1> HIDE DEF s0, step, stage
<1>20. \A i \in 1 .. k : F[i] \in [stage[i - 1] -> stage[i]]
  BY <1>4
<1>21. PICK f : IsTrace(f, k) /\ IsRun(f, k, s0, F, stage)
  <2> HIDE DEF F
  <2> QED
    BY <1>1, <1>2, <1>20, RunExists
<1>22. f = [i \in 0 .. k |-> IF i = 0 THEN s0 ELSE step(f[i - 1], i)]
  <2>1. ASSUME NEW i \in 1 .. k PROVE f[i] = step(f[i - 1], i)
    <3>1. i - 1 \in 0 .. k /\ f[i] = F[i][f[i - 1]] /\ f[i - 1] \in stage[i - 1]
      <4> HIDE DEF F
      <4>1. i - 1 \in 0 .. k
        BY <1>1
      <4> QED
        BY <4>1, <1>21 DEF IsRun
    <3> QED
      BY <3>1
  <2>2. f[0] = s0
    BY <1>21 DEF IsRun
  <2>3. \A i \in 0 .. k : f[i] = IF i = 0 THEN s0 ELSE step(f[i - 1], i)
    BY <1>1, <2>1, <2>2
  <2> QED
    BY <1>21, <2>3 DEF IsTrace
<1>23. a = [i \in 0 .. k |-> IF i = 0 THEN s0 ELSE step(a[i - 1], i)]
  BY <1>22
<1> HIDE DEF a, F
<1>24. a[k] \in stage[k]
  <2>1. ASSUME NEW i \in 1 .. k, a[i - 1] \in stage[i - 1] PROVE a[i] \in stage[i]
    <3>1. a[i] = step(a[i - 1], i)
      BY <1>1, <1>23
    <3> QED
      BY <2>1, <3>1, <1>4
  <2>2. a[0] \in stage[0]
    BY <1>1, <1>2, <1>23
  <2>3. \A i \in 0 .. k : a[i] \in stage[i]
    BY <1>1, <2>1, <2>2, RunStays
  <2> QED
    BY <1>1, <2>3
<1>5. remoteLltcNodeIds(entries, p) = a[k]
  BY <1>0 DEF remoteLltcNodeIds, Loop, a, step, s0
<1>6. KnownTo(a[k], entries, graph, n, p, k)
  BY <1>1, <1>24 DEF stage
<1>7. Learns(a[k], entries, graph, n, p)
  BY <1>0, <1>6 DEF KnownTo, Learns, PathKnown
<1> QED
  BY <1>5, <1>7

\* What the faces tell after the PP of a flow and the first k of its RSPs.
FlowKnown(es, old, rr, g, n, k) ==
  LET r == rspsOfFlow(rr) IN
  /\ es \in Entries(g, n) /\ KeptUp(old, es, g, n)
  /\ PathKnown(es, g, rr.nodeIds) /\ \A j \in 1 .. k : PathKnown(es, g, r[j].nodes)

LEMMA RspLearnt ==
  ASSUME NEW n \in Nat, Network(graph, n), NEW rr, FlowPaths(rr, graph, n), NEW old,
         NEW k \in Nat, k + 1 \in 1 .. Len(rspsOfFlow(rr)), NEW es, FlowKnown(es, old, rr, graph, n, k),
         NEW p, p = rspsOfFlow(rr)[k + 1].nodes
  PROVE  FlowKnown(remoteLltcNodeIds(es, p), old, rr, graph, n, k + 1)
<1> DEFINE r == rspsOfFlow(rr)
           j == k + 1
           t == remoteLltcNodeIds(es, p)
<1>0. Len(r) \in Nat
  <2>1. r \in Seq(RspRecords(n))
    BY DEF FlowPaths
  <2> HIDE DEF r
  <2> QED
    BY <2>1
<1>1. IsPath(rr.nodeIds, graph, n, {}) /\ \A i \in 1 .. Len(r) : IsPath(r[i].nodes, graph, n, {})
  BY DEF FlowPaths
<1>2. IsPath(p, graph, n, {})
  BY <1>1
<1>3. /\ es \in Entries(graph, n) /\ KeptUp(old, es, graph, n) /\ PathKnown(es, graph, rr.nodeIds)
      /\ \A i \in 1 .. k : PathKnown(es, graph, r[i].nodes)
  BY DEF FlowKnown
<1>4. Learns(t, es, graph, n, p)
  BY <1>2, <1>3, PathLearnt
<1>50. r = rspsOfFlow(rr) /\ r[j].nodes = p
  OBVIOUS
<1>51. \A i \in 1 .. k : i \in 1 .. Len(r)
  <2> HIDE DEF r
  <2> QED
    BY <1>0, <1>50
<1> HIDE DEF r, t
<1>5. t \in Entries(graph, n) /\ KeptUp(es, t, graph, n) /\ PathKnown(t, graph, p)
  BY <1>4 DEF Learns
<1>6. KeptUp(old, t, graph, n)
  BY <1>3, <1>5, KeptOn
<1>7. PathKnown(t, graph, rr.nodeIds)
  <2>1. JoinedUp(rr.nodeIds, graph, n)
    BY <1>1, PathJoins
  <2> QED
    BY <2>1, <1>3, <1>5, KnownOn
<1>8. ASSUME NEW i \in 1 .. k PROVE PathKnown(t, graph, r[i].nodes)
  <2> DEFINE o == r[i].nodes
  <2>1. IsPath(o, graph, n, {}) /\ PathKnown(es, graph, o)
    BY <1>1, <1>3, <1>51
  <2> HIDE DEF o
  <2>2. JoinedUp(o, graph, n)
    BY <2>1, PathJoins
  <2>3. PathKnown(t, graph, o)
    BY <2>1, <2>2, <1>5, KnownOn
  <2> QED
    BY <2>3 DEF o
<1>9. \A i \in 1 .. j : i \in 1 .. k \/ i = j
  OBVIOUS
<1> HIDE DEF j
<1>10. \A i \in 1 .. j : PathKnown(t, graph, r[i].nodes)
  BY <1>5, <1>8, <1>9, <1>50
<1>11. FlowKnown(t, old, rr, graph, n, j)
  BY <1>5, <1>6, <1>7, <1>10, <1>50 DEF FlowKnown
<1> QED
  BY <1>11 DEF t, j

LEMMA FlowLearnt ==
  ASSUME NEW n \in Nat, Network(graph, n), NEW rr, FlowPaths(rr, graph, n), NEW entries \in Entries(graph, n),
         NEW k \in Nat, k = Len(rspsOfFlow(rr))
  PROVE  FlowKnown(learnFlow(entries, rr), entries, rr, graph, n, k)
<1> DEFINE r == rspsOfFlow(rr)
           s0 == remoteLltcNodeIds(entries, rr.nodeIds)
           step(es, i) == remoteLltcNodeIds(es, r[i].nodes)
           stage == [i \in 0 .. k |-> {es \in Entries(graph, n) : FlowKnown(es, entries, rr, graph, n, i)}]
           F == [i \in 1 .. k |-> [o \in stage[i - 1] |-> step(o, i)]]
           a == CHOOSE f : f = [i \in 0 .. k |-> IF i = 0 THEN s0 ELSE step(f[i - 1], i)]
<1>1. k \in Nat
  OBVIOUS
<1>2. s0 \in stage[0]
  <2> DEFINE p == rr.nodeIds
  <2>1. IsPath(p, graph, n, {})
    BY DEF FlowPaths
  <2> HIDE DEF p
  <2>2. Learns(remoteLltcNodeIds(entries, p), entries, graph, n, p)
    BY <2>1, PathLearnt
  <2>3. FlowKnown(s0, entries, rr, graph, n, 0)
    BY <2>2 DEF Learns, FlowKnown, p
  <2>4. s0 \in Entries(graph, n)
    BY <2>3 DEF FlowKnown
  <2> QED
    BY <2>3, <2>4
<1>3. ASSUME NEW i \in 1 .. k, NEW es \in stage[i - 1] PROVE step(es, i) \in stage[i]
  <2> DEFINE j == i - 1
             o == r[i].nodes
  <2>1. j \in 0 .. k /\ i \in 0 .. k /\ j \in Nat /\ j + 1 = i
    OBVIOUS
  <2>2. FlowKnown(es, entries, rr, graph, n, j)
    BY <2>1
  <2>3. j + 1 \in 1 .. Len(rspsOfFlow(rr)) /\ o = rspsOfFlow(rr)[j + 1].nodes
    BY <2>1
  <2> HIDE DEF j, o
  <2>4. FlowKnown(remoteLltcNodeIds(es, o), entries, rr, graph, n, j + 1)
    BY <2>1, <2>2, <2>3, RspLearnt
  <2>5. FlowKnown(step(es, i), entries, rr, graph, n, i)
    BY <2>1, <2>4 DEF o
  <2> HIDE DEF step
  <2>6. step(es, i) \in Entries(graph, n)
    BY <2>5 DEF FlowKnown
  <2> QED
    BY <2>1, <2>5, <2>6
<1>4. \A i \in 1 .. k : \A es \in stage[i - 1] : step(es, i) \in stage[i]
  <2> HIDE DEF step, stage
  <2> QED
    BY <1>3
<1> HIDE DEF s0, step, stage
<1>20. \A i \in 1 .. k : F[i] \in [stage[i - 1] -> stage[i]]
  BY <1>4
<1>21. PICK f : IsTrace(f, k) /\ IsRun(f, k, s0, F, stage)
  <2> HIDE DEF F
  <2> QED
    BY <1>1, <1>2, <1>20, RunExists
<1>22. f = [i \in 0 .. k |-> IF i = 0 THEN s0 ELSE step(f[i - 1], i)]
  <2>1. ASSUME NEW i \in 1 .. k PROVE f[i] = step(f[i - 1], i)
    <3>1. i - 1 \in 0 .. k /\ f[i] = F[i][f[i - 1]] /\ f[i - 1] \in stage[i - 1]
      <4> HIDE DEF F
      <4>1. i - 1 \in 0 .. k
        BY <1>1
      <4> QED
        BY <4>1, <1>21 DEF IsRun
    <3> QED
      BY <3>1
  <2>2. f[0] = s0
    BY <1>21 DEF IsRun
  <2>3. \A i \in 0 .. k : f[i] = IF i = 0 THEN s0 ELSE step(f[i - 1], i)
    BY <1>1, <2>1, <2>2
  <2> QED
    BY <1>21, <2>3 DEF IsTrace
<1>23. a = [i \in 0 .. k |-> IF i = 0 THEN s0 ELSE step(a[i - 1], i)]
  BY <1>22
<1> HIDE DEF a, F
<1>24. a[k] \in stage[k]
  <2>1. ASSUME NEW i \in 1 .. k, a[i - 1] \in stage[i - 1] PROVE a[i] \in stage[i]
    <3>1. a[i] = step(a[i - 1], i)
      BY <1>1, <1>23
    <3> QED
      BY <2>1, <3>1, <1>4
  <2>2. a[0] \in stage[0]
    BY <1>1, <1>2, <1>23
  <2>3. \A i \in 0 .. k : a[i] \in stage[i]
    BY <1>1, <2>1, <2>2, RunStays
  <2> QED
    BY <1>1, <2>3
<1>5. learnFlow(entries, rr) = a[k]
  <2>1. Len(rspsOfFlow(rr)) = k
    OBVIOUS
  <2> QED
    BY <2>1 DEF learnFlow, Loop, a, step, s0
<1> QED
  BY <1>1, <1>5, <1>24 DEF stage

\* Of each flow, the states of the routers lead along its paths, and the ends of
\* every link know each other.
StatesOf(F, k, n) == [x \in 0 .. n - 1 |-> F[x][k]]

FlowMet(es, rr, g) ==
  LET r == rspsOfFlow(rr) IN PathKnown(es, g, rr.nodeIds) /\ \A j \in 1 .. Len(r) : PathKnown(es, g, r[j].nodes)

AllInstalled(F, fl, es, g, n) ==
  /\ DOMAIN F = 0 .. n - 1 /\ \A x \in 0 .. n - 1 : F[x] \in Seq(FibStates) /\ Len(F[x]) = Len(fl)
  /\ es \in Entries(g, n)
  /\ \A k \in 1 .. Len(fl) : FlowLed(StatesOf(F, k, n), fl[k], g) /\ FlowMet(es, fl[k], g)

InstallIInv == RouteIInv /\ AllInstalled(fss, flows, faceEntries, graph, graph.nNodes)

LEMMA FlowMetOn ==
  ASSUME NEW n \in Nat, NEW g, Network(g, n), NEW rr, FlowPaths(rr, g, n), NEW a, NEW b, KeptUp(a, b, g, n), FlowMet(a, rr, g)
  PROVE  FlowMet(b, rr, g)
<1> DEFINE r == rspsOfFlow(rr)
           p == rr.nodeIds
<1>1. IsPath(p, g, n, {}) /\ \A i \in 1 .. Len(r) : IsPath(r[i].nodes, g, n, {})
  BY DEF FlowPaths
<1>2. PathKnown(a, g, p) /\ \A i \in 1 .. Len(r) : PathKnown(a, g, r[i].nodes)
  BY DEF FlowMet
<1>3. ASSUME NEW o, IsPath(o, g, n, {}), PathKnown(a, g, o) PROVE PathKnown(b, g, o)
  <2>1. JoinedUp(o, g, n)
    BY <1>3, PathJoins
  <2> QED
    BY <2>1, <1>3, KnownOn
<1> HIDE DEF r, p
<1>4. PathKnown(b, g, p) /\ \A i \in 1 .. Len(r) : PathKnown(b, g, r[i].nodes)
  BY <1>1, <1>2, <1>3
<1> QED
  BY <1>4 DEF FlowMet, r, p

LEMMA InitInstalled ==
  ASSUME Init
  PROVE  InstallIInv
<1>1. RouteIInv
  BY InitRoutes
<1>2. PICK setup \in Setups :
        LET f == setup[1]
            n == Len(f.nodeIds)
            Id == 0 .. n - 1
        IN
        /\ graph = load(f)
        /\ flows = <<>>
        /\ fss = [i \in Id |-> <<>>]
        /\ faceEntries = [x \in Id |-> Install(load(f), x)]
  BY DEF Init
<1> DEFINE f == setup[1]
           n == Len(f.nodeIds)
<1>3. graph = load(f) /\ flows = <<>> /\ fss = [i \in 0 .. n - 1 |-> <<>>] /\ faceEntries = [x \in 0 .. n - 1 |-> Install(graph, x)]
  BY <1>2
<1>4. IsSetup(f, setup[2])
  BY SetupsAssumption
<1>5. n \in Nat /\ graph.nNodes = n
  BY <1>3, <1>4, LoadKeeps, GraphFields DEF Network
<1> HIDE DEF n, f
<1>6. \A x : Install(graph, x) \in [Faces(graph, x) -> Int]
  <2>1. ASSUME NEW x PROVE Range(faceMap(graph, x)) = Faces(graph, x)
    <3> DEFINE A == Faces(graph, x)
    <3>1. faceMap(graph, x) = [id \in A |-> id]
      BY DEF faceMap, Faces
    <3> HIDE DEF A
    <3>2. Range([id \in A |-> id]) = A
      BY DEF Range
    <3> QED
      BY <3>1, <3>2 DEF A
  <2>2. -1 \in Int
    OBVIOUS
  <2> QED
    BY <2>1, <2>2 DEF Install
<1>7. faceEntries \in Entries(graph, n)
  <2>1. \A x \in 0 .. n - 1 : faceEntries[x] \in [Faces(graph, x) -> Int]
    BY <1>3, <1>6
  <2> DEFINE U == UNION {[Faces(graph, x) -> Int] : x \in 0 .. n - 1}
  <2>2. \A x \in 0 .. n - 1 : faceEntries[x] \in U
    BY <2>1
  <2> HIDE DEF U
  <2>3. faceEntries \in [0 .. n - 1 -> U]
    BY <2>2, <1>3
  <2> QED
    BY <2>1, <2>3 DEF Entries, U
<1>8. AllInstalled(fss, flows, faceEntries, graph, n)
  <2>1. DOMAIN fss = 0 .. n - 1 /\ \A x \in 0 .. n - 1 : fss[x] \in Seq(FibStates) /\ Len(fss[x]) = Len(flows)
    BY <1>3
  <2>2. \A k : k \notin 1 .. Len(flows)
    BY <1>3
  <2> QED
    BY <2>1, <2>2, <1>7 DEF AllInstalled
<1> QED
  BY <1>1, <1>5, <1>8 DEF InstallIInv

\* The installation of one more flow.
LEMMA InstallStep ==
  ASSUME InstallIInv, computeRoutesForCommPairs
  PROVE  AllInstalled(fss', flows', faceEntries', graph, graph.nNodes)
<1> DEFINE n == graph.nNodes
           s == Current
           u == Consumers[Len(flows) + 1]
           rr == constructResilientRoutes(u)
           m == convertToFSes(rr)
           F == fss'
           es == faceEntries'
           k == Len(flows) + 1
<1>1. /\ flows' = Append(flows, rr) /\ F = [x \in Nodes |-> Append(fss[x], m[x])] /\ es = learnFlow(faceEntries, rr)
      /\ Len(flows) < Len(Consumers) /\ Len(pathTo(u)) > 1
  BY DEF computeRoutesForCommPairs, enforceFs
<1>2. PICK S : flows \in Seq(S)
  BY DEF InstallIInv, RouteIInv, SearchIInv
<1>3. /\ n \in Nat /\ Nodes = 0 .. n - 1 /\ Consumers \in Seq(Nodes) /\ Network(graph, n)
      /\ LateInv(s, graph, n, config) /\ nextPathID \in Nat
      /\ \A l \in DOMAIN flows : FlowOK(flows[l], s, graph, n, config)
  BY DEF InstallIInv, RouteIInv, SearchIInv, Setting, Nodes
<1>4. AllInstalled(fss, flows, faceEntries, graph, n)
  BY DEF InstallIInv
<1>5. u \in 0 .. n - 1
  <2>1. Len(flows) \in Nat
    BY <1>2
  <2>2. Len(flows) + 1 \in 1 .. Len(Consumers)
    BY <2>1, <1>1, <1>3
  <2> HIDE DEF n
  <2> QED
    BY <2>2, <1>3
<1>6. s.rspsMap = rspsMap /\ s.prevNodeIdx = prevNodeIdx /\ s.maxDelays = maxDelays
  BY DEF Current
<1>7. rr = constructResilientRoutes(u)
  OBVIOUS
<1> HIDE DEF n, s, u, rr, F, es
<1>8. FlowOK(rr, s, graph, n, config)
  BY <1>1, <1>3, <1>5, <1>6, <1>7, ConstructedIs
<1>9. FlowPaths(rr, graph, n)
  BY <1>3, <1>8, FlowPathsAre
<1> DEFINE l == Len(rspsOfFlow(rr))
<1>10. l \in Nat
  <2> DEFINE r == rspsOfFlow(rr)
  <2>1. r \in Seq(RspRecords(n))
    BY <1>9 DEF FlowPaths
  <2> HIDE DEF r
  <2>2. Len(r) \in Nat
    BY <2>1
  <2> QED
    BY <2>2 DEF r
<1>11. m \in Fses(n) /\ FlowLed(m, rr, graph)
  <2>1. FlowEntries(m, rr, graph, n, l)
    <3>1. l = Len(rspsOfFlow(rr))
      OBVIOUS
    <3> HIDE DEF l
    <3> QED
      BY <3>1, <1>3, <1>9, <1>10, FlowInstalled
  <2>2. FlowLed(m, rr, graph)
    <3> HIDE DEF m
    <3> QED
      BY <2>1, <1>3, <1>9, InstalledLeads
  <2> QED
    BY <2>1, <2>2 DEF FlowEntries
<1>12. es \in Entries(graph, n) /\ KeptUp(faceEntries, es, graph, n) /\ FlowMet(es, rr, graph)
  <2>1. faceEntries \in Entries(graph, n)
    BY <1>4 DEF AllInstalled
  <2>2. FlowKnown(es, faceEntries, rr, graph, n, l)
    <3>1. l = Len(rspsOfFlow(rr))
      OBVIOUS
    <3> HIDE DEF l
    <3> QED
      BY <3>1, <2>1, <1>1, <1>3, <1>9, <1>10, FlowLearnt
  <2> QED
    BY <2>2 DEF FlowKnown, FlowMet
<1> HIDE DEF m, l
<1>13. /\ Len(flows) \in Nat /\ Len(flows') = k /\ k \in Nat /\ flows'[k] = rr
       /\ \A i \in 1 .. Len(flows) : flows'[i] = flows[i] /\ i \in DOMAIN flows
       /\ \A i \in 1 .. k : i = k \/ i \in 1 .. Len(flows)
  <2>1. flows \in Seq(S \cup {rr})
    BY <1>2
  <2>2. Len(flows) \in Nat
    BY <2>1
  <2> QED
    BY <2>1, <2>2, <1>1
<1>14. ASSUME NEW x \in 0 .. n - 1
       PROVE  /\ F[x] \in Seq(FibStates) /\ Len(F[x]) = k /\ F[x][k] = m[x]
              /\ \A i \in 1 .. Len(flows) : F[x][i] = fss[x][i]
  <2> DEFINE t == fss[x]
             h == m[x]
  <2>1. F[x] = Append(t, h)
    BY <1>1, <1>3
  <2>2. t \in Seq(FibStates) /\ Len(t) = Len(flows) /\ h \in FibStates
    BY <1>4, <1>11 DEF AllInstalled, Fses
  <2> HIDE DEF t, h
  <2>3. /\ Append(t, h) \in Seq(FibStates) /\ Len(Append(t, h)) = Len(t) + 1 /\ Append(t, h)[Len(t) + 1] = h
        /\ \A i \in 1 .. Len(t) : Append(t, h)[i] = t[i]
    BY <2>2
  <2> QED
    BY <2>1, <2>2, <2>3 DEF t, h
<1>15. DOMAIN F = 0 .. n - 1
  BY <1>1, <1>3
<1>16. ASSUME NEW i \in 1 .. k PROVE FlowLed(StatesOf(F, i, n), flows'[i], graph) /\ FlowMet(es, flows'[i], graph)
  <2>1. CASE i = k
    <3>1. StatesOf(F, i, n) = m
      <4>1. \A x \in 0 .. n - 1 : F[x][i] = m[x]
        BY <2>1, <1>14
      <4>2. StatesOf(F, i, n) = [x \in 0 .. n - 1 |-> m[x]]
        BY <4>1 DEF StatesOf
      <4>3. m = [x \in 0 .. n - 1 |-> m[x]]
        BY <1>11 DEF Fses
      <4> QED
        BY <4>2, <4>3
    <3> QED
      BY <3>1, <2>1, <1>11, <1>12, <1>13
  <2>2. CASE i \in 1 .. Len(flows)
    <3> DEFINE o == flows[i]
    <3>1. FlowLed(StatesOf(fss, i, n), o, graph) /\ FlowMet(faceEntries, o, graph)
      BY <2>2, <1>4 DEF AllInstalled
    <3>2. StatesOf(F, i, n) = StatesOf(fss, i, n)
      <4>1. \A x \in 0 .. n - 1 : F[x][i] = fss[x][i]
        BY <2>2, <1>14
      <4> QED
        BY <4>1 DEF StatesOf
    <3>3. flows'[i] = o /\ FlowOK(o, s, graph, n, config)
      BY <2>2, <1>3, <1>13
    <3> HIDE DEF o
    <3>4. FlowPaths(o, graph, n)
      BY <3>3, <1>3, FlowPathsAre
    <3>5. FlowMet(es, o, graph)
      BY <3>1, <3>4, <1>3, <1>12, FlowMetOn
    <3> QED
      BY <3>1, <3>2, <3>3, <3>5
  <2> QED
    BY <2>1, <2>2, <1>13
<1>17. AllInstalled(F, flows', es, graph, n)
  BY <1>12, <1>13, <1>14, <1>15, <1>16 DEF AllInstalled
<1> QED
  BY <1>17 DEF F, es, n

LEMMA NextInstalled ==
  ASSUME InstallIInv, [Next]_vars
  PROVE  InstallIInv'
<1>1. RouteIInv'
  BY NextRoutes DEF InstallIInv
<1>2. CASE computeRoutesForCommPairs
  <2>1. graph' = graph
    BY <1>2 DEF computeRoutesForCommPairs
  <2>2. AllInstalled(fss', flows', faceEntries', graph, graph.nNodes)
    BY <1>2, InstallStep
  <2> QED
    BY <1>1, <2>1, <2>2 DEF InstallIInv
<1>3. CASE UNCHANGED <<graph, flows, installVars>>
  <2>1. fss' = fss /\ faceEntries' = faceEntries /\ flows' = flows /\ graph' = graph
    BY <1>3 DEF installVars
  <2> QED
    BY <1>1, <2>1 DEF InstallIInv
<1>4. genResilientRoutesVectors \/ findFaultLinks \/ simulateLinkErrors \/ UNCHANGED vars => UNCHANGED <<graph, flows, installVars>>
  BY DEF genResilientRoutesVectors, findFaultLinks, simulateLinkErrors, vars, routeVars
<1> QED
  BY <1>2, <1>3, <1>4 DEF Next

\* Data of flow k for the path id is led from x to its neighbour y, and what is for x
\* from there, and each of the two knows the other.
LinkLed(k, x, y, id) ==
  /\ {e.face_nextHop : e \in Follow(k, x, id, 0)} = {faceTo(x, y)}
  /\ {e.face_nextHop : e \in Follow(k, y, id, 1)} = {faceTo(y, x)}
  /\ faceEntries[x][faceTo(x, y)] = y
  /\ faceEntries[y][faceTo(y, x)] = x

LEMMA LinkLedIs ==
  ASSUME NEW n \in Nat, Network(graph, n), NEW x, NEW y, Joined(graph, n, x, y), NEW k, NEW id, NEW m, m = StatesOf(fss, k, n),
         LeadsTo(m, x, id, 0, linkIdOf(graph, x, y)), LeadsTo(m, y, id, 1, linkIdOf(graph, y, x)),
         Knows(faceEntries, graph, x, y), Knows(faceEntries, graph, y, x)
  PROVE  LinkLed(k, x, y, id)
<1>1. x \in 0 .. n - 1 /\ y \in 0 .. n - 1 /\ Joined(graph, n, y, x)
  BY DEF Joined
<1>2. faceTo(x, y) = linkIdOf(graph, x, y) /\ faceTo(y, x) = linkIdOf(graph, y, x)
  BY <1>1, FaceIs
<1>3. m[x] = fss[x][k] /\ m[y] = fss[y][k]
  BY <1>1 DEF StatesOf
<1>4. Follow(k, x, id, 0) = EntriesOf(m, x, id, 0) /\ Follow(k, y, id, 1) = EntriesOf(m, y, id, 1)
  BY <1>3 DEF Follow, EntriesOf
<1> QED
  BY <1>2, <1>4 DEF LinkLed, LeadsTo, Knows

AllLed(k, p, id) == \A i \in 1 .. Len(p) - 1 : LinkLed(k, p[i], p[i + 1], id)

LEMMA DownPath ==
  ASSUME NEW n \in Nat, Network(graph, n), NEW p, IsPath(p, graph, n, {}), NEW k, NEW id,
         LedAlong(StatesOf(fss, k, n), graph, p, id, 0), PathKnown(faceEntries, graph, p)
  PROVE  AllLed(k, p, id)
<1> SUFFICES ASSUME NEW i \in 1 .. Len(p) - 1 PROVE LinkLed(k, p[i], p[i + 1], id)
  BY DEF AllLed
<1> DEFINE x == p[i]
           y == p[i + 1]
           m == StatesOf(fss, k, n)
<1>1. Joined(graph, n, x, y)
  BY PathJoins DEF JoinedUp
<1>2. LeadsTo(m, x, id, 0, linkIdOf(graph, x, y)) /\ LeadsTo(m, y, id, 1 - 0, linkIdOf(graph, y, x))
  BY DEF LedAlong
<1>3. Knows(faceEntries, graph, x, y) /\ Knows(faceEntries, graph, y, x)
  BY DEF PathKnown
<1>4. 1 - 0 = 1
  OBVIOUS
<1>5. m = StatesOf(fss, k, n)
  OBVIOUS
<1> HIDE DEF x, y, m
<1>6. LinkLed(k, x, y, id)
  BY <1>1, <1>2, <1>3, <1>4, <1>5, LinkLedIs
<1> QED
  BY <1>6 DEF x, y

\* Data comes along an RSP from its end.
LEMMA UpPath ==
  ASSUME NEW n \in Nat, Network(graph, n), NEW p, IsPath(p, graph, n, {}), NEW k, NEW id,
         LedAlong(StatesOf(fss, k, n), graph, p, id, 1), PathKnown(faceEntries, graph, p)
  PROVE  AllLed(k, Reverse(p), id)
<1> DEFINE t == Reverse(p)
           L == Len(p)
<1>1. p \in Seq(0 .. n - 1) /\ L \in Nat
  <2>1. Placed(p, n)
    BY PathNodes
  <2> QED
    BY <2>1 DEF Placed
<1>2. Len(t) = L /\ \A i \in 1 .. L : t[i] = p[L - i + 1]
  <2>1. t = [i \in 1 .. L |-> p[L - i + 1]]
    BY DEF Reverse
  <2> HIDE DEF L
  <2>2. \A i \in 1 .. L : L - i + 1 \in 1 .. L
    BY <1>1
  <2>3. \A i \in 1 .. L : p[i] \in 0 .. n - 1
    BY <1>1 DEF L
  <2> DEFINE T == 0 .. n - 1
  <2>4. \A i \in 1 .. L : p[L - i + 1] \in T
    BY <2>2, <2>3
  <2> HIDE DEF t, T
  <2>5. t \in [1 .. L -> T] /\ DOMAIN t = 1 .. L
    BY <2>1, <2>4
  <2>6. t \in Seq(T)
    BY <2>5, <1>1
  <2>7. Len(t) = L
    BY <2>5, <2>6, <1>1
  <2> QED
    BY <2>1, <2>7
<1> HIDE DEF t, L
<1> SUFFICES ASSUME NEW i \in 1 .. Len(t) - 1 PROVE LinkLed(k, t[i], t[i + 1], id)
  BY DEF AllLed, t
<1> DEFINE l == L - i
           x == p[l]
           y == p[l + 1]
           m == StatesOf(fss, k, n)
<1>3. l \in 1 .. L - 1 /\ i \in 1 .. L /\ i + 1 \in 1 .. L /\ L - i + 1 = l + 1 /\ L - (i + 1) + 1 = l
  BY <1>1, <1>2
<1>4. t[i] = y /\ t[i + 1] = x
  BY <1>2, <1>3
<1> HIDE DEF l
<1>5. l \in 1 .. Len(p) - 1
  BY <1>3 DEF L
<1>6. Joined(graph, n, x, y)
  BY <1>5, PathJoins DEF JoinedUp
<1>7. LeadsTo(m, x, id, 1, linkIdOf(graph, x, y)) /\ LeadsTo(m, y, id, 1 - 1, linkIdOf(graph, y, x))
  BY <1>5 DEF LedAlong
<1>8. Knows(faceEntries, graph, x, y) /\ Knows(faceEntries, graph, y, x)
  BY <1>5 DEF PathKnown
<1>9. 1 - 1 = 0 /\ m = StatesOf(fss, k, n)
  OBVIOUS
<1> HIDE DEF x, y, m
<1>10. Joined(graph, n, y, x)
  BY <1>6 DEF Joined
<1>11. LinkLed(k, y, x, id)
  BY <1>7, <1>8, <1>9, <1>10, LinkLedIs
<1> QED
  BY <1>4, <1>11

LEMMA InstalledMeans ==
  ASSUME InstallIInv
  PROVE  PathsAreInstalled
<1> DEFINE n == graph.nNodes
<1>1. PICK S : flows \in Seq(S)
  BY DEF InstallIInv, RouteIInv, SearchIInv
<1>2. /\ n \in Nat /\ Network(graph, n) /\ LateInv(Current, graph, n, config)
      /\ \A k \in DOMAIN flows : FlowOK(flows[k], Current, graph, n, config)
  BY DEF InstallIInv, RouteIInv, SearchIInv, Setting
<1>3. AllInstalled(fss, flows, faceEntries, graph, n) /\ DOMAIN flows = 1 .. Len(flows)
  BY <1>1 DEF InstallIInv
<1> HIDE DEF n
<1>4. ASSUME NEW k \in DOMAIN flows
      PROVE  /\ AllLed(k, flows[k].nodeIds, flows[k].pathID)
             /\ \A o \in Range(rspsOfFlow(flows[k])) : AllLed(k, Reverse(o.nodes), o.pathID)
             /\ \A x \in Range(flows[k].nodeIds) : fss[x][k].preferredDownPathId = flows[k].pathID
  <2> DEFINE rr == flows[k]
             m == StatesOf(fss, k, n)
             r == rspsOfFlow(rr)
             p == rr.nodeIds
  <2>1. FlowLed(m, rr, graph) /\ FlowMet(faceEntries, rr, graph) /\ FlowOK(rr, Current, graph, n, config)
    BY <1>2, <1>3 DEF AllInstalled
  <2> HIDE DEF rr
  <2>2. FlowPaths(rr, graph, n)
    BY <2>1, <1>2, FlowPathsAre
  <2>3. /\ IsPath(p, graph, n, {}) /\ \A j \in 1 .. Len(r) : IsPath(r[j].nodes, graph, n, {})
        /\ r \in Seq(RspRecords(n))
    BY <2>2 DEF FlowPaths
  <2>4. PathKnown(faceEntries, graph, p) /\ \A j \in 1 .. Len(r) : PathKnown(faceEntries, graph, r[j].nodes)
    BY <2>1 DEF FlowMet
  <2>5. /\ LedAlong(m, graph, p, rr.pathID, 0) /\ \A j \in 1 .. Len(r) : LedAlong(m, graph, r[j].nodes, r[j].pathID, 1)
        /\ \A z \in NodesOf(p) : m[z].preferredDownPathId = rr.pathID
    BY <2>1 DEF FlowLed
  <2>50. m = StatesOf(fss, k, n)
    OBVIOUS
  <2> HIDE DEF r, p, m
  <2>6. AllLed(k, p, rr.pathID)
    BY <2>3, <2>4, <2>5, <2>50, <1>2, DownPath
  <2>7. ASSUME NEW o \in Range(r) PROVE AllLed(k, Reverse(o.nodes), o.pathID)
    <3>1. PICK j \in 1 .. Len(r) : o = r[j]
      BY <2>3 DEF Range
    <3> DEFINE t == o.nodes
               id == o.pathID
    <3>2. IsPath(t, graph, n, {}) /\ PathKnown(faceEntries, graph, t) /\ LedAlong(m, graph, t, id, 1)
      BY <3>1, <2>3, <2>4, <2>5
    <3> HIDE DEF t, id
    <3>3. AllLed(k, Reverse(t), id)
      BY <3>2, <2>50, <1>2, UpPath
    <3> QED
      BY <3>3 DEF t, id
  <2>8. ASSUME NEW x \in Range(p) PROVE fss[x][k].preferredDownPathId = rr.pathID
    <3>1. Placed(p, n)
      BY <2>3, PathNodes
    <3>2. x \in NodesOf(p) /\ x \in 0 .. n - 1
      BY <3>1 DEF Placed, NodesOf, Range
    <3>3. m[x] = fss[x][k]
      BY <3>2, <2>50 DEF StatesOf
    <3> QED
      BY <3>2, <3>3, <2>5
  <2> QED
    BY <2>6, <2>7, <2>8 DEF rr, r, p
<1> QED
  BY <1>4 DEF PathsAreInstalled, AllLed, LinkLed

\* convertToFSes and the installation on the routers, flow after flow.
THEOREM InstallInvariant == Spec => []InstallIInv
<1>1. Init => InstallIInv
  BY InitInstalled
<1>2. InstallIInv /\ [Next]_vars => InstallIInv'
  BY NextInstalled
<1> QED
  BY <1>1, <1>2, PTL DEF Spec

\* What LltcFIB and the face entries hold after installation: every path of every
\* flow is led along hop by hop, both ways, and both ends of its links know each other.
THEOREM PathsStayInstalled == Spec => []PathsAreInstalled
<1>1. InstallIInv => PathsAreInstalled
  BY InstalledMeans
<1> QED
  BY <1>1, InstallInvariant, PTL
=============================================================================
