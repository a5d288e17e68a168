--------------------------- MODULE FailoverProofs ---------------------------
(***************************************************************************)
(* Proofs about RSGs: how Costs, PrevLink and BestRoute of module Rsg      *)
(* solve the equations they are defined by, for every RSG g and map m of   *)
(* link statuses; and the statuses recorded in an RSG, and the search of   *)
(* it, for every set of routes and every sequence of reports.              *)
(*                                                                         *)
(* The costs and the way back are recursive functions.  They exist because *)
(* every virtual link leads to a later position: a position of least index *)
(* without a value would get one from the positions before it.             *)
(*                                                                         *)
(* RspStatusExact is inductive once the keys of the map are known.  An RSP *)
(* off the reported link keeps its status, and so do its links; one on it  *)
(* is judged anew by all its links.  This needs the three kinds of keys to *)
(* be different: a path id is never taken for a link.                      *)
(*                                                                         *)
(* The positions removed from the heap have their least costs, those still *)
(* in it what the virtual links of the removed ones make possible, and     *)
(* they were removed in the order of their costs: the link by which one is *)
(* reached is the first of those that lead to it at its cost.              *)
(*                                                                         *)
(* Then proofs about the failover of a flow, and the Capsule that its      *)
(* routers lead, for every RSG, any links that fail and recover, and any   *)
(* number of changes.                                                      *)
(*                                                                         *)
(* The flags and the preferred paths of a router are inductive once it is  *)
(* known that the search yields paths that leave the router.  That all     *)
(* maps end true rests on two facts: the last LSA of a router that is      *)
(* under way has its present statuses, and an entry of a map is that of an *)
(* end of the link, or an LSA of an end is still to come.                  *)
(*                                                                         *)
(* That the routers agree on a route rests on this: whatever a router      *)
(* prefers is what its own search yields for its own map, and in the end   *)
(* all maps are alike as far as the search looks at them, so that every    *)
(* router follows one and the same route; its links may be used, and the   *)
(* paths preferred at its positions never lead off it.                     *)
(*                                                                         *)
(* The Capsule stays on the path of its tag because what it is sent by is  *)
(* an entry, and it moves on because an RSP is entered at its upstream end *)
(* only.                                                                   *)
(***************************************************************************)
EXTENDS CapsuleForwarding, RsgDijkstra, FiniteSetTheorems, WellFoundedInduction, TLAPS

-----------------------------------------------------------------------------
(* The operators of module Rsg. *)

\* Sets that are enumerated by a sequence are finite.
LEMMA FiniteRange ==
  ASSUME NEW n \in Nat, NEW f, DOMAIN f = 1 .. n
  PROVE  IsFiniteSet({f[i] : i \in 1 .. n})
<1> DEFINE S == {f[i] : i \in 1 .. n}
           g == [i \in 1 .. n |-> f[i]]
<1>1. g \in Surjection(1 .. n, S)
  BY DEF Surjection
<1>2. IsFiniteSet(1 .. n)
  BY FS_Interval
<1> QED
  BY <1>1, <1>2, FS_Surjection

\* A finite set of numbers has a least one.
LEMMA MinFacts ==
  ASSUME NEW T, T \subseteq Int, IsFiniteSet(T), T # {}
  PROVE  Min(T) \in T /\ \A y \in T : Min(T) <= y
<1> DEFINE below(y) == {z \in T : z < y}
           G == {below(y) : y \in T}
           R == StrictSubsetOrdering(T)
<1>1. G \subseteq FiniteSubsetsOf(T) /\ G # {}
  <2>1. \A y \in T : below(y) \in SUBSET T /\ IsFiniteSet(below(y))
    BY FS_Subset
  <2> QED BY <2>1 DEF FiniteSubsetsOf
<1>2. IsWellFoundedOn(R, FiniteSubsetsOf(T))
  BY FS_StrictSubsetOrderingWellFounded
<1> HIDE DEF G, R
<1>3. PICK g \in G : \A h \in G : ~ (<<h, g>> \in R)
  BY <1>1, <1>2, WFMin
<1>4. PICK x \in T : g = below(x)
  BY <1>3 DEF G
<1>5. ASSUME NEW y \in T, y < x PROVE FALSE
  <2>1. below(y) \in SUBSET T /\ below(x) \in SUBSET T /\ below(y) \in G
    BY DEF G
  <2>2. below(y) \subseteq below(x)
    <3>1. x \in Int /\ y \in Int /\ \A z \in T : z \in Int
      OBVIOUS
    <3>2. \A z \in T : z < y => z < x
      BY <1>5, <3>1
    <3> QED BY <3>2
  <2>3. y \in below(x) /\ y \notin below(y)
    BY <1>5
  <2> HIDE DEF below
  <2>4. <<below(y), below(x)>> \in R
    BY <2>1, <2>2, <2>3 DEF R, StrictSubsetOrdering
  <2> QED BY <1>3, <1>4, <2>1, <2>4
<1>6. \A y \in T : x <= y
  BY <1>5
<1>7. Min(T) \in T /\ \A y \in T : Min(T) <= y
  BY <1>6 DEF Min
<1> QED BY <1>7

\* Some positions have a first one, and a last one.
LEMMA FirstPosition ==
  ASSUME NEW k \in Nat, NEW T, T \subseteq 1 .. k, T # {}
  PROVE  \E x \in T : \A y \in T : x <= y
<1>1. IsFiniteSet(T)
  <2>1. IsFiniteSet(1 .. k)
    BY FS_Interval
  <2> QED BY <2>1, FS_Subset
<1>2. T \subseteq Int
  OBVIOUS
<1> QED BY <1>1, <1>2, MinFacts

LEMMA LastPosition ==
  ASSUME NEW k \in Nat, NEW T, T \subseteq 1 .. k, T # {}
  PROVE  \E x \in T : \A y \in T : y <= x
<1> DEFINE U == {i \in 1 .. k : (k + 1) - i \in T}
<1>1. U \subseteq 1 .. k
  OBVIOUS
<1>2. U # {}
  <2>1. PICK t \in T : TRUE
    OBVIOUS
  <2>2. (k + 1) - t \in 1 .. k /\ (k + 1) - ((k + 1) - t) = t
    OBVIOUS
  <2> QED BY <2>2
<1>3. PICK u \in U : \A v \in U : u <= v
  <2> HIDE DEF U
  <2> QED BY <1>1, <1>2, FirstPosition
<1>4. ASSUME NEW y \in T
      PROVE  y <= (k + 1) - u
  <2>1. (k + 1) - y \in 1 .. k /\ (k + 1) - ((k + 1) - y) = y
    OBVIOUS
  <2>2. (k + 1) - y \in U
    BY <2>1
  <2>3. u <= (k + 1) - y
    BY <1>3, <2>2
  <2> QED BY <2>3
<1> QED BY <1>3, <1>4

\* The element of a finite set with the least value.
LEMMA LeastValue ==
  ASSUME NEW S, IsFiniteSet(S), S # {}, NEW f, \A s \in S : f[s] \in Int
  PROVE  \E s \in S : f[s] = Min({f[t] : t \in S}) /\ \A t \in S : f[s] <= f[t]
<1> DEFINE T == {f[t] : t \in S}
           g == [s \in S |-> f[s]]
<1>1. g \in Surjection(S, T)
  BY DEF Surjection
<1>2. IsFiniteSet(T)
  BY <1>1, FS_Surjection
<1>3. T \subseteq Int /\ T # {}
  OBVIOUS
<1>4. Min(T) \in T /\ \A y \in T : Min(T) <= y
  <2> HIDE DEF T
  <2> QED BY <1>2, <1>3, MinFacts
<1>5. PICK s \in S : f[s] = Min(T)
  BY <1>4
<1>6. \A t \in S : f[s] <= f[t]
  BY <1>4, <1>5
<1> QED BY <1>5, <1>6

\* The links by which position i is reached when f are the costs.
Via(g, m, f, i) == {l \in InLinks(g, m, i) : f[l.from] # Unreached}

CostAt(g, m, f, i) ==
  IF i = 1 THEN 0
  ELSE IF Via(g, m, f, i) = {} THEN Unreached
  ELSE Min({f[l.from] + l.cost : l \in Via(g, m, f, i)})

\* The links that lead to a position do so from an earlier one.
LEMMA InLinksAre ==
  ASSUME NEW g, IsRsg(g), NEW m, NEW i, NEW l \in InLinks(g, m, i)
  PROVE  /\ l \in g.links
         /\ l.to = i
         /\ Usable(g, m, l)
         /\ l.from \in Positions(g)
         /\ i \in Positions(g)
         /\ l.from < i
         /\ l.cost \in Nat
         /\ l.rank \in Nat
BY DEF InLinks, IsRsg

\* The cost of a position depends on those of earlier ones only.
LEMMA CostIsLocal ==
  ASSUME NEW g, IsRsg(g), NEW m, NEW i, NEW f, NEW h,
         \A j \in Positions(g) : j < i => f[j] = h[j]
  PROVE  CostAt(g, m, f, i) = CostAt(g, m, h, i)
<1>1. \A l \in InLinks(g, m, i) : f[l.from] = h[l.from]
  BY InLinksAre
<1>2. Via(g, m, f, i) = Via(g, m, h, i)
  BY <1>1 DEF Via
<1>3. \A l \in Via(g, m, f, i) : f[l.from] = h[l.from]
  BY <1>1 DEF Via
<1>4. {f[l.from] + l.cost : l \in Via(g, m, f, i)} = {h[l.from] + l.cost : l \in Via(g, m, h, i)}
  BY <1>2, <1>3
<1> QED
  BY <1>2, <1>4 DEF CostAt

\* The costs are well defined: there are some for the first k positions.
Solves(g, m, f, k) == \A i \in 1 .. k : f[i] = CostAt(g, m, f, i)
IsTable(g, f) == f = [i \in Positions(g) |-> f[i]]
HasCosts(g, m, k) == \E f : IsTable(g, f) /\ Solves(g, m, f, k)

LEMMA OneMoreCost ==
  ASSUME NEW g, IsRsg(g), NEW m, NEW k \in Nat, k + 1 \in Positions(g), HasCosts(g, m, k)
  PROVE  HasCosts(g, m, k + 1)
<1>1. PICK f : IsTable(g, f) /\ Solves(g, m, f, k)
  BY DEF HasCosts
<1> DEFINE c == CostAt(g, m, f, k + 1)
           h == [i \in Positions(g) |-> IF i = k + 1 THEN c ELSE f[i]]
<1>2. IsTable(g, h)
  BY DEF IsTable
<1>3. h[k + 1] = c /\ \A i \in Positions(g) : i # k + 1 => h[i] = f[i]
  OBVIOUS
<1> HIDE DEF h
<1>4. ASSUME NEW i \in 1 .. k + 1
      PROVE  h[i] = CostAt(g, m, h, i)
  <2>1. i \in Positions(g)
    BY DEF Positions, IsRsg
  <2>2. \A j \in Positions(g) : j < i => h[j] = f[j]
    BY <1>3 DEF Positions, IsRsg
  <2>3. CostAt(g, m, h, i) = CostAt(g, m, f, i)
    BY <2>2, CostIsLocal
  <2>4. CASE i = k + 1
    BY <1>3, <2>3, <2>4
  <2>5. CASE i # k + 1
    <3>1. i \in 1 .. k
      BY <2>5
    <3> QED BY <1>1, <1>3, <2>1, <2>3, <2>5, <3>1 DEF Solves
  <2> QED BY <2>4, <2>5
<1>5. Solves(g, m, h, k + 1)
  BY <1>4 DEF Solves
<1> QED
  BY <1>2, <1>5 DEF HasCosts

\* The costs of the search are such.
LEMMA CostsSolve ==
  ASSUME NEW g, IsRsg(g), NEW m
  PROVE  \A i \in Positions(g) : Costs(g, m)[i] = CostAt(g, m, Costs(g, m), i)
<1> DEFINE n == Len(g.prim)
           T == {k \in 1 .. n : ~HasCosts(g, m, k)}
<1>0. n \in Nat \ {0}
  BY DEF IsRsg
<1>1. HasCosts(g, m, 1)
  <2> DEFINE f == [i \in Positions(g) |-> 0]
  <2>1. IsTable(g, f)
    BY DEF IsTable
  <2>2. f[1] = 0
    BY <1>0 DEF Positions
  <2> HIDE DEF f
  <2>3. Solves(g, m, f, 1)
    BY <2>2 DEF Solves, CostAt
  <2> QED BY <2>1, <2>3 DEF HasCosts
<1>2. T = {}
  <2> SUFFICES ASSUME T # {} PROVE FALSE
    OBVIOUS
  <2>1. PICK x \in T : \A y \in T : x <= y
    <3>1. T \subseteq 1 .. n
      OBVIOUS
    <3> HIDE DEF T, n
    <3> QED BY <1>0, <3>1, FirstPosition
  <2>2. x # 1
    BY <1>1
  <2>3. x - 1 \in Nat /\ (x - 1) + 1 = x /\ x - 1 \in 1 .. n /\ x \in 1 .. n
    BY <1>0, <2>2
  <2>4. HasCosts(g, m, x - 1)
    BY <2>1, <2>3
  <2>5. HasCosts(g, m, (x - 1) + 1)
    BY <2>3, <2>4, OneMoreCost DEF Positions
  <2> QED BY <2>3, <2>5
<1>3. HasCosts(g, m, n)
  BY <1>0, <1>2
<1>4. PICK f : IsTable(g, f) /\ Solves(g, m, f, n)
  BY <1>3 DEF HasCosts
<1>5. f = [i \in Positions(g) |-> CostAt(g, m, f, i)]
  BY <1>4 DEF IsTable, Solves, Positions
<1> DEFINE c == Costs(g, m)
<1>6. c = CHOOSE h : h = [i \in Positions(g) |-> CostAt(g, m, h, i)]
  BY DEF Costs, CostAt, Via, Positions
<1> HIDE DEF c
<1>7. c = [i \in Positions(g) |-> CostAt(g, m, c, i)]
  BY <1>5, <1>6
<1>8. \A i \in Positions(g) : c[i] = CostAt(g, m, c, i)
  BY <1>7
<1> QED
  BY <1>8 DEF c

IsCost(c) == c \in Nat \cup {Unreached}

\* The links by which position i is reached at its cost.
Best(g, m, f, i) ==
  {l \in InLinks(g, m, i) : f[l.from] # Unreached /\ f[l.from] + l.cost = f[i]}

\* A position is reached if one of its links is, at the cost of one of them.
LEMMA CostAtIs ==
  ASSUME NEW g, IsRsg(g), NEW m, NEW f, NEW i \in Positions(g), i # 1,
         \A j \in Positions(g) : j < i => IsCost(f[j])
  PROVE  /\ Via(g, m, f, i) = {} => CostAt(g, m, f, i) = Unreached
         /\ Via(g, m, f, i) # {} =>
              /\ CostAt(g, m, f, i) \in Nat
              /\ \E l \in Via(g, m, f, i) : CostAt(g, m, f, i) = f[l.from] + l.cost
<1> DEFINE V == Via(g, m, f, i)
           s == [l \in V |-> f[l.from] + l.cost]
<1>1. CASE V = {}
  BY <1>1 DEF CostAt
<1>2. CASE V # {}
  <2>1. \A l \in V : l \in g.links /\ f[l.from] \in Nat /\ l.cost \in Nat
    <3> SUFFICES ASSUME NEW l \in V PROVE l \in g.links /\ f[l.from] \in Nat /\ l.cost \in Nat
      OBVIOUS
    <3>1. l \in InLinks(g, m, i) /\ f[l.from] # Unreached
      BY DEF Via
    <3>2. l \in g.links /\ l.from \in Positions(g) /\ l.from < i /\ l.cost \in Nat
      BY <3>1, InLinksAre
    <3>3. IsCost(f[l.from])
      BY <3>2
    <3> QED BY <3>1, <3>2, <3>3 DEF IsCost
  <2>2. IsFiniteSet(V)
    <3>1. V \in SUBSET g.links
      BY <2>1
    <3>2. IsFiniteSet(g.links)
      BY DEF IsRsg
    <3> QED BY <3>1, <3>2, FS_Subset
  <2>3. \A l \in V : s[l] = f[l.from] + l.cost /\ s[l] \in Nat
    BY <2>1
  <2>4. {f[l.from] + l.cost : l \in V} = {s[l] : l \in V}
    BY <2>3
  <2>5. PICK l \in V : s[l] = Min({s[k] : k \in V})
    <3>1. \A k \in V : s[k] \in Int
      BY <2>3
    <3> HIDE DEF V, s
    <3> QED BY <1>2, <2>2, <3>1, LeastValue
  <2>6. CostAt(g, m, f, i) = Min({f[k.from] + k.cost : k \in V})
    BY <1>2 DEF CostAt
  <2>7. CostAt(g, m, f, i) = s[l]
    BY <2>4, <2>5, <2>6
  <2>8. CostAt(g, m, f, i) \in Nat /\ CostAt(g, m, f, i) = f[l.from] + l.cost
    BY <2>3, <2>7
  <2> QED BY <1>2, <2>8
<1> QED BY <1>1, <1>2

\* All costs are numbers, none negative.
LEMMA CostsAreCosts ==
  ASSUME NEW g, IsRsg(g), NEW m
  PROVE  \A i \in Positions(g) : IsCost(Costs(g, m)[i])
<1> DEFINE n == Len(g.prim)
           c == Costs(g, m)
           T == {i \in 1 .. n : ~IsCost(c[i])}
<1>0. n \in Nat \ {0}
  BY DEF IsRsg
<1>1. \A i \in Positions(g) : c[i] = CostAt(g, m, c, i)
  BY CostsSolve
<1> HIDE DEF c
<1> SUFFICES ASSUME T # {} PROVE FALSE
  BY DEF Positions, c
<1>2. PICK x \in T : \A y \in T : x <= y
  <2>1. T \subseteq 1 .. n
    OBVIOUS
  <2> HIDE DEF T, n
  <2> QED BY <1>0, <2>1, FirstPosition
<1>3. x \in Positions(g) /\ ~IsCost(c[x])
  BY DEF Positions
<1>4. \A j \in Positions(g) : j < x => IsCost(c[j])
  BY <1>0, <1>2 DEF Positions
<1>5. x # 1
  <2>1. x = 1 => c[x] = 0
    BY <1>1, <1>3 DEF CostAt
  <2> QED BY <1>3, <2>1 DEF IsCost
<1>6. IsCost(CostAt(g, m, c, x))
  BY <1>3, <1>4, <1>5, CostAtIs DEF IsCost
<1> QED BY <1>1, <1>3, <1>6

\* A position that is reached is so by one of the cheapest links.
LEMMA ReachedByBest ==
  ASSUME NEW g, IsRsg(g), NEW m, NEW i \in Positions(g), i # 1
  PROVE  /\ Costs(g, m)[i] # Unreached => Best(g, m, Costs(g, m), i) # {}
         /\ Costs(g, m)[i] = Unreached => Via(g, m, Costs(g, m), i) = {}
<1> DEFINE c == Costs(g, m)
<1>1. c[i] = CostAt(g, m, c, i)
  BY CostsSolve
<1>2. \A j \in Positions(g) : j < i => IsCost(c[j])
  BY CostsAreCosts
<1> HIDE DEF c
<1>3. Via(g, m, c, i) = {} => c[i] = Unreached
  BY <1>1, <1>2, CostAtIs
<1>4. Via(g, m, c, i) # {} =>
        /\ c[i] \in Nat
        /\ \E l \in Via(g, m, c, i) : c[i] = c[l.from] + l.cost
  BY <1>1, <1>2, CostAtIs
<1>5. c[i] # Unreached => Best(g, m, c, i) # {}
  BY <1>3, <1>4 DEF Best, Via
<1>6. c[i] = Unreached => Via(g, m, c, i) = {}
  BY <1>4 DEF Unreached
<1> QED BY <1>5, <1>6 DEF c

\* No link leads to a position at less than its cost.
LEMMA LeastOfVia ==
  ASSUME NEW g, IsRsg(g), NEW m, NEW i \in Positions(g), i # 1,
         NEW l \in InLinks(g, m, i), Costs(g, m)[l.from] # Unreached
  PROVE  Costs(g, m)[i] \in Nat /\ Costs(g, m)[i] <= Costs(g, m)[l.from] + l.cost
<1> DEFINE c == Costs(g, m)
           V == Via(g, m, c, i)
           S == {c[k.from] + k.cost : k \in V}
<1>1. c[i] = CostAt(g, m, c, i)
  BY CostsSolve
<1>2. \A j \in Positions(g) : IsCost(c[j])
  BY CostsAreCosts
<1>3. l \in V
  BY DEF Via
<1>4. \A k \in V : k \in g.links /\ c[k.from] \in Nat /\ k.cost \in Nat
  <2> SUFFICES ASSUME NEW k \in V PROVE k \in g.links /\ c[k.from] \in Nat /\ k.cost \in Nat
    OBVIOUS
  <2>1. k \in InLinks(g, m, i) /\ c[k.from] # Unreached
    BY DEF Via
  <2>2. k \in g.links /\ k.from \in Positions(g) /\ k.cost \in Nat
    BY <2>1, InLinksAre
  <2> QED BY <1>2, <2>1, <2>2 DEF IsCost
<1>5. IsFiniteSet(S)
  <2> DEFINE f == [k \in V |-> c[k.from] + k.cost]
  <2>1. V \in SUBSET g.links
    BY <1>4
  <2>2. IsFiniteSet(V)
    BY <2>1, FS_Subset DEF IsRsg
  <2>3. f \in Surjection(V, S)
    BY DEF Surjection
  <2> QED BY <2>2, <2>3, FS_Surjection
<1>6. S \subseteq Int /\ c[l.from] + l.cost \in S
  <2>1. \A k \in V : c[k.from] + k.cost \in Int
    BY <1>4
  <2> QED BY <1>3, <2>1
<1>7. Min(S) <= c[l.from] + l.cost
  <2> HIDE DEF S
  <2> QED BY <1>5, <1>6, MinFacts
<1>8. c[i] = Min(S)
  BY <1>1, <1>3 DEF CostAt
<1>9. Min(S) \in S
  <2> HIDE DEF S
  <2> QED BY <1>5, <1>6, MinFacts
<1>10. \A y \in S : y \in Nat
  BY <1>4
<1> HIDE DEF S
<1> QED BY <1>7, <1>8, <1>9, <1>10

\* PrevLink is one of these links.
LEMMA PrevIsBest ==
  ASSUME NEW g, IsRsg(g), NEW m, NEW i \in Positions(g), i # 1, Costs(g, m)[i] # Unreached
  PROVE  PrevLink(g, m, Costs(g, m), i) \in Best(g, m, Costs(g, m), i)
<1> DEFINE c == Costs(g, m)
           best == Best(g, m, c, i)
           from == [l \in best |-> c[l.from]]
<1>1. best # {}
  BY ReachedByBest
<1>2. \A l \in best : l \in g.links /\ c[l.from] \in Int /\ l.rank \in Int
  <2> SUFFICES ASSUME NEW l \in best PROVE l \in g.links /\ c[l.from] \in Int /\ l.rank \in Int
    OBVIOUS
  <2>1. l \in InLinks(g, m, i)
    BY DEF Best
  <2>2. l \in g.links /\ l.from \in Positions(g) /\ l.rank \in Nat
    BY <2>1, InLinksAre
  <2>3. IsCost(c[l.from])
    BY <2>2, CostsAreCosts
  <2> QED BY <2>2, <2>3 DEF IsCost, Unreached
<1>3. IsFiniteSet(best)
  <2>1. best \in SUBSET g.links
    BY <1>2
  <2>2. IsFiniteSet(g.links)
    BY DEF IsRsg
  <2> QED BY <2>1, <2>2, FS_Subset
<1>4. PrevLink(g, m, c, i) =
        CHOOSE l \in best : \A k \in best :
          \/ c[l.from] < c[k.from]
          \/ c[l.from] = c[k.from] /\ (l.from # k.from \/ l.rank <= k.rank)
  BY DEF PrevLink, Best
<1> HIDE DEF best, c
<1>5. PICK a \in best : \A k \in best : c[a.from] <= c[k.from]
  <2>1. \A l \in best : from[l] = c[l.from] /\ from[l] \in Int
    BY <1>2
  <2>2. PICK a \in best : \A k \in best : from[a] <= from[k]
    <3> HIDE DEF from
    <3> QED BY <1>1, <1>3, <2>1, LeastValue
  <2> QED BY <2>1, <2>2
<1> DEFINE B == {k \in best : k.from = a.from}
           rank == [l \in B |-> l.rank]
<1>6. PICK b \in B : \A k \in B : b.rank <= k.rank
  <2>1. \A l \in B : rank[l] = l.rank /\ rank[l] \in Int
    BY <1>2
  <2>2. IsFiniteSet(B) /\ B # {}
    BY <1>3, <1>5, FS_Subset
  <2>3. PICK b \in B : \A k \in B : rank[b] <= rank[k]
    <3> HIDE DEF rank, B
    <3> QED BY <2>1, <2>2, LeastValue
  <2> QED BY <2>1, <2>3
<1>7. b \in best /\ b.from = a.from
  OBVIOUS
<1>8. ASSUME NEW k \in best
      PROVE  \/ c[b.from] < c[k.from]
             \/ c[b.from] = c[k.from] /\ (b.from # k.from \/ b.rank <= k.rank)
  <2>1. c[b.from] <= c[k.from]
    BY <1>5, <1>7
  <2>2. c[b.from] \in Int /\ c[k.from] \in Int
    BY <1>2, <1>7
  <2>3. k.from = b.from => b.rank <= k.rank
    BY <1>6, <1>7
  <2> QED BY <2>1, <2>2, <2>3
<1> HIDE DEF B
<1>9. PrevLink(g, m, c, i) \in best
  BY <1>4, <1>7, <1>8
<1> QED BY <1>9 DEF best, c

\* The positions that one comes through from i when next leads on from each.
Closed(S, next) == \A k \in S : next[k] \in S
Trail(P, next, i) == {j \in P : \A S \in SUBSET P : i \in S /\ Closed(S, next) => j \in S}

\* The trail is the least closed set with i, and what comes after i is the trail of
\* the next position.
LEMMA TrailIs ==
  ASSUME NEW P, NEW next \in [P -> P], NEW i \in P
  PROVE  /\ i \in Trail(P, next, i)
         /\ Closed(Trail(P, next, i), next)
         /\ \A S \in SUBSET P : i \in S /\ Closed(S, next) => Trail(P, next, i) \subseteq S
         /\ Trail(P, next, i) = {i} \cup Trail(P, next, next[i])
<1>1. i \in Trail(P, next, i)
  BY DEF Trail
<1>2. \A j \in P : Closed(Trail(P, next, j), next)
  BY DEF Trail, Closed
<1>3. \A j \in P : \A S \in SUBSET P : j \in S /\ Closed(S, next) => Trail(P, next, j) \subseteq S
  BY DEF Trail
<1>4. next[i] \in P
  OBVIOUS
<1>5. Trail(P, next, next[i]) \subseteq Trail(P, next, i)
  <2>1. next[i] \in Trail(P, next, i)
    BY <1>1, <1>2 DEF Closed
  <2>2. Trail(P, next, i) \in SUBSET P
    BY DEF Trail
  <2> QED BY <1>2, <1>3, <1>4, <2>1, <2>2
<1>6. Trail(P, next, i) \subseteq {i} \cup Trail(P, next, next[i])
  <2> DEFINE S == {i} \cup Trail(P, next, next[i])
  <2>1. next[i] \in Trail(P, next, next[i])
    BY <1>4 DEF Trail
  <2>2. Closed(S, next)
    BY <1>2, <1>4, <2>1 DEF Closed
  <2>3. S \in SUBSET P /\ i \in S
    BY DEF Trail
  <2> QED BY <1>3, <2>2, <2>3
<1> QED BY <1>1, <1>2, <1>3, <1>5, <1>6

\* The search goes back from a position that is reached, other than the first.
Stops(g, m) == {i \in Positions(g) : i = 1 \/ Costs(g, m)[i] = Unreached}
Prev(g, m, i) == PrevLink(g, m, Costs(g, m), i)
NextBack(g, m) ==
  [i \in Positions(g) |-> IF i \in Stops(g, m) THEN i ELSE Prev(g, m, i).from]
TrailBack(g, m, i) == Trail(Positions(g), NextBack(g, m), i)
LinksBack(g, m, i) == {Prev(g, m, j) : j \in TrailBack(g, m, i) \ Stops(g, m)}

\* The link by which a position is reached.
LEMMA PrevIs ==
  ASSUME NEW g, IsRsg(g), NEW m, NEW i \in Positions(g) \ Stops(g, m)
  PROVE  /\ Prev(g, m, i) \in g.links
         /\ Prev(g, m, i).to = i
         /\ Usable(g, m, Prev(g, m, i))
         /\ Prev(g, m, i).from \in Positions(g)
         /\ Prev(g, m, i).from < i
         /\ Costs(g, m)[Prev(g, m, i).from] # Unreached
         /\ NextBack(g, m)[i] = Prev(g, m, i).from
<1>1. i \in Positions(g) /\ i # 1 /\ Costs(g, m)[i] # Unreached
  BY DEF Stops
<1>2. Prev(g, m, i) \in Best(g, m, Costs(g, m), i)
  BY <1>1, PrevIsBest DEF Prev
<1>3. Prev(g, m, i) \in InLinks(g, m, i) /\ Costs(g, m)[Prev(g, m, i).from] # Unreached
  BY <1>2 DEF Best
<1>4. NextBack(g, m)[i] = Prev(g, m, i).from
  BY DEF NextBack
<1> QED BY <1>3, <1>4, InLinksAre

\* The way back stays on the PP.
LEMMA NextBackIs ==
  ASSUME NEW g, IsRsg(g), NEW m
  PROVE  /\ NextBack(g, m) \in [Positions(g) -> Positions(g)]
         /\ \A i \in Stops(g, m) : NextBack(g, m)[i] = i
<1>1. \A i \in Positions(g) \ Stops(g, m) : Prev(g, m, i).from \in Positions(g)
  BY PrevIs
<1> QED BY <1>1 DEF NextBack, Stops

\* The links back from i are that to i and those back from where it begins.
LEMMA LinksBackStep ==
  ASSUME NEW g, IsRsg(g), NEW m, NEW i \in Positions(g)
  PROVE  LinksBack(g, m, i) = IF i \in Stops(g, m) THEN {}
                              ELSE {Prev(g, m, i)} \cup LinksBack(g, m, Prev(g, m, i).from)
<1>1. /\ NextBack(g, m) \in [Positions(g) -> Positions(g)]
      /\ \A j \in Stops(g, m) : NextBack(g, m)[j] = j
  BY NextBackIs
<1>2. /\ \A S \in SUBSET Positions(g) :
           i \in S /\ Closed(S, NextBack(g, m)) => TrailBack(g, m, i) \subseteq S
      /\ TrailBack(g, m, i) = {i} \cup TrailBack(g, m, NextBack(g, m)[i])
  BY <1>1, TrailIs DEF TrailBack
<1>3. CASE i \in Stops(g, m)
  <2>1. Closed({i}, NextBack(g, m))
    BY <1>1, <1>3 DEF Closed
  <2>2. TrailBack(g, m, i) \subseteq {i}
    BY <1>2, <2>1
  <2> QED BY <1>3, <2>2 DEF LinksBack
<1>4. CASE i \notin Stops(g, m)
  <2>1. NextBack(g, m)[i] = Prev(g, m, i).from
    BY <1>4, PrevIs
  <2>2. TrailBack(g, m, i) \ Stops(g, m)
          = {i} \cup (TrailBack(g, m, Prev(g, m, i).from) \ Stops(g, m))
    BY <1>2, <1>4, <2>1
  <2> QED BY <1>4, <2>2 DEF LinksBack
<1> QED BY <1>3, <1>4

\* The equation that BestRoute solves, and what its solution is.
BackAt(g, m, f, i) ==
  IF i = 1 \/ Costs(g, m)[i] = Unreached THEN {}
  ELSE LET l == PrevLink(g, m, Costs(g, m), i) IN {l} \cup f[l.from]

LEMMA BackAtIs ==
  ASSUME NEW g, NEW m, NEW f, NEW i \in Positions(g)
  PROVE  /\ i \in Stops(g, m) => BackAt(g, m, f, i) = {}
         /\ i \notin Stops(g, m) => BackAt(g, m, f, i) = {Prev(g, m, i)} \cup f[Prev(g, m, i).from]
BY DEF BackAt, Stops, Prev

LEMMA BestRouteIs ==
  ASSUME NEW g, IsRsg(g), NEW m
  PROVE  BestRoute(g, m) = IF Costs(g, m)[Len(g.prim)] = Unreached THEN {}
                           ELSE LinksBack(g, m, Len(g.prim))
<1> DEFINE n == Len(g.prim)
           f == [i \in Positions(g) |-> LinksBack(g, m, i)]
           b == CHOOSE h : h = [i \in Positions(g) |-> BackAt(g, m, h, i)]
<1>0. n \in Nat \ {0}
  BY DEF IsRsg
<1>1. \A i \in Positions(g) \ Stops(g, m) :
        Prev(g, m, i).from \in Positions(g) /\ Prev(g, m, i).from < i
  BY PrevIs
<1>2. BestRoute(g, m) = IF Costs(g, m)[n] = Unreached THEN {} ELSE b[n]
  BY DEF BestRoute, BackAt, Positions
<1>3. f = [i \in Positions(g) |-> BackAt(g, m, f, i)]
  <2>1. ASSUME NEW i \in Positions(g)
        PROVE  f[i] = BackAt(g, m, f, i)
    <3>1. CASE i \in Stops(g, m)
      BY <3>1, LinksBackStep, BackAtIs
    <3>2. CASE i \notin Stops(g, m)
      <4>1. f[Prev(g, m, i).from] = LinksBack(g, m, Prev(g, m, i).from)
        BY <1>1, <3>2
      <4>2. f[i] = {Prev(g, m, i)} \cup LinksBack(g, m, Prev(g, m, i).from)
        BY <3>2, LinksBackStep
      <4> QED BY <3>2, <4>1, <4>2, BackAtIs
    <3> QED BY <3>1, <3>2
  <2>2. f = [i \in Positions(g) |-> f[i]]
    OBVIOUS
  <2> HIDE DEF f
  <2>3. [i \in Positions(g) |-> f[i]] = [i \in Positions(g) |-> BackAt(g, m, f, i)]
    BY <2>1
  <2> QED BY <2>2, <2>3
<1>4. b = [i \in Positions(g) |-> BackAt(g, m, b, i)]
  <2> HIDE DEF f
  <2> QED BY <1>3
<1> HIDE DEF f, b
<1>5. \A i \in Positions(g) : b[i] = BackAt(g, m, b, i)
  BY <1>4
<1>6. \A i \in Positions(g) : b[i] = LinksBack(g, m, i)
  <2> DEFINE T == {i \in 1 .. n : b[i] # LinksBack(g, m, i)}
  <2> SUFFICES ASSUME T # {} PROVE FALSE
    BY DEF Positions
  <2>1. PICK x \in T : \A y \in T : x <= y
    <3>1. T \subseteq 1 .. n
      OBVIOUS
    <3> HIDE DEF T, n
    <3> QED BY <1>0, <3>1, FirstPosition
  <2>2. x \in Positions(g) /\ b[x] # LinksBack(g, m, x)
    BY DEF Positions
  <2>3. x \notin Stops(g, m)
    <3> SUFFICES ASSUME x \in Stops(g, m) PROVE FALSE
      OBVIOUS
    <3>1. b[x] = BackAt(g, m, b, x)
      BY <1>5, <2>2
    <3>2. BackAt(g, m, b, x) = {}
      BY <2>2, BackAtIs
    <3>3. LinksBack(g, m, x) = {}
      BY <2>2, LinksBackStep
    <3> QED BY <2>2, <3>1, <3>2, <3>3
  <2>4. b[Prev(g, m, x).from] = LinksBack(g, m, Prev(g, m, x).from)
    <3>1. Prev(g, m, x).from \in 1 .. n /\ Prev(g, m, x).from < x
      BY <1>1, <2>2, <2>3 DEF Positions
    <3> QED BY <2>1, <3>1
  <2>5. b[x] = {Prev(g, m, x)} \cup LinksBack(g, m, Prev(g, m, x).from)
    BY <1>5, <2>2, <2>3, <2>4, BackAtIs
  <2> QED BY <2>2, <2>3, <2>5, LinksBackStep
<1>7. n \in Positions(g)
  BY <1>0 DEF Positions
<1> QED BY <1>2, <1>6, <1>7

\* A route that is found: the positions R it leads through, the first and the
\* last among them, and its links, which may be used.
LeadsThrough(g, m, R) ==
  /\ R \subseteq Positions(g)
  /\ {1, Len(g.prim)} \subseteq R
  /\ \A l \in BestRoute(g, m) :
       /\ l \in g.links
       /\ Usable(g, m, l)
       /\ {l.from, l.to} \subseteq R
  /\ \A i \in R : i # Len(g.prim) => \E l \in BestRoute(g, m) : l.from = i
  /\ \A i \in R : i # 1 => \E l \in BestRoute(g, m) : l.to = i

\* If the last position is reached the route is such.
LEMMA RouteLeadsThrough ==
  ASSUME NEW g, IsRsg(g), NEW m, Costs(g, m)[Len(g.prim)] # Unreached
  PROVE  \E R : LeadsThrough(g, m, R)
<1> DEFINE n == Len(g.prim)
           next == NextBack(g, m)
           R == TrailBack(g, m, n)
<1>0. n \in Nat \ {0} /\ n \in Positions(g)
  BY DEF IsRsg, Positions
<1>1. BestRoute(g, m) = {Prev(g, m, j) : j \in R \ Stops(g, m)}
  BY BestRouteIs DEF LinksBack
<1>2. next \in [Positions(g) -> Positions(g)] /\ \A i \in Stops(g, m) : next[i] = i
  BY NextBackIs
<1>3. /\ n \in R
      /\ Closed(R, next)
      /\ \A S \in SUBSET Positions(g) : n \in S /\ Closed(S, next) => R \subseteq S
  BY <1>0, <1>2, TrailIs DEF TrailBack
<1>4. R \subseteq Positions(g)
  BY DEF TrailBack, Trail
<1>5. \A i \in Positions(g) \ Stops(g, m) :
        /\ Prev(g, m, i) \in g.links
        /\ Prev(g, m, i).to = i
        /\ Usable(g, m, Prev(g, m, i))
        /\ Prev(g, m, i).from < i
        /\ Costs(g, m)[Prev(g, m, i).from] # Unreached
        /\ next[i] = Prev(g, m, i).from
  BY PrevIs
<1> HIDE DEF R, next
<1>6. \A i \in R : Costs(g, m)[i] # Unreached
  <2> DEFINE S == {i \in Positions(g) : Costs(g, m)[i] # Unreached}
  <2>1. ASSUME NEW i \in S PROVE next[i] \in S
    <3>1. CASE i \in Stops(g, m)
      BY <1>2, <3>1
    <3>2. CASE i \notin Stops(g, m)
      BY <1>2, <1>5, <3>2
    <3> QED BY <3>1, <3>2
  <2>2. Closed(S, next)
    BY <2>1 DEF Closed
  <2> QED BY <1>0, <1>3, <2>2
<1>7. \A i \in R : i # 1 => i \notin Stops(g, m)
  BY <1>6 DEF Stops
<1>8. 1 \in R
  <2>1. PICK x \in R : \A y \in R : x <= y
    BY <1>0, <1>3, <1>4, FirstPosition DEF Positions
  <2>2. CASE x # 1
    <3>1. next[x] \in R /\ next[x] < x
      BY <1>3, <1>4, <1>5, <1>7, <2>2 DEF Closed
    <3>2. x \in Positions(g) /\ next[x] \in Positions(g)
      BY <1>4, <3>1
    <3>3. \A p \in Positions(g) : p \in Int
      BY DEF Positions
    <3>4. x <= next[x]
      BY <2>1, <3>1
    <3> QED BY <3>1, <3>2, <3>3, <3>4
  <2> QED BY <2>2
<1>9. ASSUME NEW l \in BestRoute(g, m)
      PROVE  l \in g.links /\ Usable(g, m, l) /\ {l.from, l.to} \subseteq R
  <2>1. PICK j \in R \ Stops(g, m) : l = Prev(g, m, j)
    BY <1>1
  <2>2. next[j] \in R
    BY <1>3, <2>1 DEF Closed
  <2> QED BY <1>4, <1>5, <2>1, <2>2
<1>10. ASSUME NEW i \in R, i # n
       PROVE  \E l \in BestRoute(g, m) : l.from = i
  <2>1. PICK j \in R \ {i} : next[j] = i
    <3>1. CASE Closed(R \ {i}, next)
      BY <1>3, <1>4, <1>10, <3>1
    <3>2. CASE ~Closed(R \ {i}, next)
      BY <1>3, <3>2 DEF Closed
    <3> QED BY <3>1, <3>2
  <2>2. j \notin Stops(g, m)
    BY <1>2, <2>1
  <2>3. Prev(g, m, j).from = i
    BY <1>4, <1>5, <2>1, <2>2
  <2> QED BY <1>1, <2>2, <2>3
<1>11. ASSUME NEW i \in R, i # 1
       PROVE  \E l \in BestRoute(g, m) : l.to = i
  BY <1>1, <1>4, <1>5, <1>7, <1>11
<1>12. LeadsThrough(g, m, R)
  BY <1>3, <1>4, <1>8, <1>9, <1>10, <1>11 DEF LeadsThrough
<1> QED BY <1>12

\* The map matters to the search by the links that may be used alone.
LEMMA SearchOfUsable ==
  ASSUME NEW g, NEW m, NEW k, \A i \in Positions(g) : InLinks(g, m, i) = InLinks(g, k, i)
  PROVE  Costs(g, m) = Costs(g, k) /\ BestRoute(g, m) = BestRoute(g, k)
<1>1. \A i \in Positions(g) : \A f : CostAt(g, m, f, i) = CostAt(g, k, f, i)
  BY DEF CostAt, Via
<1>2. \A f : [i \in Positions(g) |-> CostAt(g, m, f, i)] = [i \in Positions(g) |-> CostAt(g, k, f, i)]
  BY <1>1
<1>3. Costs(g, m) = CHOOSE f : f = [i \in Positions(g) |-> CostAt(g, m, f, i)]
  BY DEF Costs, CostAt, Via, Positions
<1>4. Costs(g, k) = CHOOSE f : f = [i \in Positions(g) |-> CostAt(g, k, f, i)]
  BY DEF Costs, CostAt, Via, Positions
<1>5. Costs(g, m) = Costs(g, k)
  BY <1>2, <1>3, <1>4
<1>6. \A i \in Positions(g) : \A f : BackAt(g, m, f, i) = BackAt(g, k, f, i)
  <2>1. \A i \in Positions(g) : \A c : PrevLink(g, m, c, i) = PrevLink(g, k, c, i)
    <3> SUFFICES ASSUME NEW i \in Positions(g), NEW c
                 PROVE  PrevLink(g, m, c, i) = PrevLink(g, k, c, i)
      OBVIOUS
    <3> DEFINE best(S) == {l \in S : c[l.from] # Unreached /\ c[l.from] + l.cost = c[i]}
               first(S) == CHOOSE l \in best(S) : \A j \in best(S) :
                             \/ c[l.from] < c[j.from]
                             \/ c[l.from] = c[j.from] /\ (l.from # j.from \/ l.rank <= j.rank)
    <3>1. PrevLink(g, m, c, i) = first(InLinks(g, m, i))
      BY DEF PrevLink
    <3>2. PrevLink(g, k, c, i) = first(InLinks(g, k, i))
      BY DEF PrevLink
    <3>3. InLinks(g, m, i) = InLinks(g, k, i)
      OBVIOUS
    <3> HIDE DEF first
    <3> QED BY <3>1, <3>2, <3>3
  <2> QED BY <1>5, <2>1 DEF BackAt
<1>7. \A f : [i \in Positions(g) |-> BackAt(g, m, f, i)] = [i \in Positions(g) |-> BackAt(g, k, f, i)]
  BY <1>6
<1> DEFINE n == Len(g.prim)
           back(q) == CHOOSE f : f = [i \in Positions(g) |-> BackAt(g, q, f, i)]
<1>8. BestRoute(g, m) = IF Costs(g, m)[n] = Unreached THEN {} ELSE back(m)[n]
  BY DEF BestRoute, BackAt, Positions
<1>9. BestRoute(g, k) = IF Costs(g, k)[n] = Unreached THEN {} ELSE back(k)[n]
  BY DEF BestRoute, BackAt, Positions
<1>10. back(m) = back(k)
  BY <1>7
<1> QED BY <1>5, <1>8, <1>9, <1>10

-----------------------------------------------------------------------------
(* The statuses, and the search. *)

IInv ==
  /\ rsg \in Rsgs
  /\ DOMAIN statusMap = Keys(rsg)
  /\ RspStatusExact

\* The keys of an RSG: its RSPs and their links have one each, of a kind of its own.
LEMMA KeysAreDistinct ==
  ASSUME NEW g, NEW p \in Rsps(g)
  PROVE  /\ <<p.id>> \in Keys(g)
         /\ PathLinks(p.nodes) \subseteq Keys(g)
         /\ \A nodes, q : <<q.id>> \notin PathLinks(nodes)
<1>1. PathLinks(p.nodes) \subseteq RspLinks(g)
  BY DEF RspLinks
<1>2. ASSUME NEW nodes, NEW q, NEW l \in PathLinks(nodes)
      PROVE  l # <<q.id>>
  <2>1. PICK i \in 1 .. Len(nodes) - 1 : l = rsgGetLinkID(nodes[i], nodes[i + 1])
    BY DEF PathLinks
  <2>2. Len(l) = 2
    BY <2>1 DEF rsgGetLinkID
  <2>3. Len(<<q.id>>) = 1
    OBVIOUS
  <2> QED
    BY <2>2, <2>3
<1> QED
  BY <1>1, <1>2 DEF Keys

\* At the start no link is down and no RSP is.
LEMMA InitExact == SearchInit => IInv
<1> SUFFICES ASSUME SearchInit PROVE IInv
  OBVIOUS
<1>1. rsg \in Rsgs /\ statusMap = AllNormal(rsg)
  BY DEF SearchInit
<1>2. DOMAIN statusMap = Keys(rsg) /\ \A k \in Keys(rsg) : statusMap[k] = "NORMAL"
  BY <1>1 DEF AllNormal
<1>3. RspStatusExact
  BY <1>2, KeysAreDistinct DEF RspStatusExact
<1> QED
  BY <1>1, <1>2, <1>3 DEF IInv

\* What a report leaves in the map.
LEMMA ReportIsExact ==
  ASSUME IInv, NEW l \in PpLinks(rsg) \cup RspLinks(rsg), NEW st, reportLinkStatus(l, st)
  PROVE  IInv'
<1> DEFINE sts == [k \in {l} |-> st]
           m == statusMap
           links == [k \in DOMAIN m |-> IF k \in DOMAIN sts THEN sts[k] ELSE m[k]]
           failed(p) == \E e \in PathLinks(p.nodes) : links[e] = "FAILURE"
           rspsOf(k) == {p \in Rsps(rsg) : k = <<p.id>> /\ PathLinks(p.nodes) \cap DOMAIN sts # {}}
<1>1. /\ rsg' = rsg
      /\ rsg \in Rsgs
      /\ DOMAIN m = Keys(rsg)
      /\ m' = [k \in Keys(rsg) |-> IF rspsOf(k) = {} THEN links[k]
                                   ELSE IF \E p \in rspsOf(k) : failed(p) THEN "FAILURE" ELSE "NORMAL"]
  BY DEF IInv, reportLinkStatus, rsgUpdateLinkStatus
<1>2. ASSUME NEW p \in Rsps(rsg), NEW e \in PathLinks(p.nodes)
      PROVE  m'[e] = links[e]
  <2>1. e \in Keys(rsg) /\ rspsOf(e) = {}
    BY KeysAreDistinct
  <2> QED
    BY <1>1, <2>1
<1>3. ASSUME NEW p \in Rsps(rsg)
      PROVE  m'[<<p.id>>] = "FAILURE" <=> failed(p)
  <2>1. <<p.id>> \in Keys(rsg)
    BY KeysAreDistinct
  <2>2. CASE l \in PathLinks(p.nodes)
    <3>1. \A q \in Rsps(rsg) : <<p.id>> = <<q.id>> => q = p
      BY <1>1, RsgAssumption
    <3>2. rspsOf(<<p.id>>) = {p}
      BY <2>2, <3>1
    <3> QED
      BY <1>1, <2>1, <3>2
  <2>3. CASE l \notin PathLinks(p.nodes)
    <3>1. \A q \in Rsps(rsg) : <<p.id>> = <<q.id>> => q = p
      BY <1>1, RsgAssumption
    <3>2. rspsOf(<<p.id>>) = {}
      BY <2>3, <3>1
    <3>3. <<p.id>> # l
      BY KeysAreDistinct DEF PpLinks, RspLinks
    <3>4. m'[<<p.id>>] = m[<<p.id>>]
      BY <1>1, <2>1, <3>2, <3>3
    <3>5. \A e \in PathLinks(p.nodes) : links[e] = m[e]
      BY <2>3, <1>1, KeysAreDistinct
    <3>6. m[<<p.id>>] = "FAILURE" <=> \E e \in PathLinks(p.nodes) : m[e] = "FAILURE"
      BY DEF IInv, RspStatusExact
    <3> QED
      BY <3>4, <3>5, <3>6
  <2> QED
    BY <2>2, <2>3
<1>4. RspStatusExact'
  <2>1. ASSUME NEW p \in Rsps(rsg)
        PROVE  m'[<<p.id>>] = "FAILURE" <=> \E e \in PathLinks(p.nodes) : m'[e] = "FAILURE"
    BY <1>2, <1>3
  <2> QED
    BY <1>1, <2>1 DEF RspStatusExact
<1>5. DOMAIN statusMap' = Keys(rsg')
  BY <1>1
<1> QED
  BY <1>1, <1>4, <1>5 DEF IInv

LEMMA StepExact == IInv /\ [SearchNext]_searchVars => IInv'
<1> SUFFICES ASSUME IInv, [SearchNext]_searchVars PROVE IInv'
  OBVIOUS
<1>1. CASE \E l \in PpLinks(rsg) \cup RspLinks(rsg), st \in LinkStatus : reportLinkStatus(l, st)
  BY <1>1, ReportIsExact
<1>2. CASE \E u \in nodesInFH : removeMax(u)
  <2>1. UNCHANGED <<rsg, statusMap>>
    BY <1>2 DEF removeMax
  <2> QED
    BY <2>1 DEF IInv, RspStatusExact
<1>3. CASE UNCHANGED searchVars
  BY <1>3 DEF searchVars, IInv, RspStatusExact
<1> QED
  BY <1>1, <1>2, <1>3 DEF SearchNext

\* Whatever reports come in whatever order, the status recorded for an RSP is
\* that of all its links together (rsgUpdateLinkStatus).
THEOREM RspStatusExactCorrect == SearchSpec => []RspStatusExact
<1>1. IInv => RspStatusExact
  BY DEF IInv
<1> QED
  BY InitExact, StepExact, <1>1, PTL DEF SearchSpec

-----------------------------------------------------------------------------
(* The search.  In a state of it heap are the positions still in the heap,  *)
(* key the keys, and info the links by which positions were reached.        *)

\* The links to position i from positions that have been removed and reached.
Tried(g, m, heap, key, i) ==
  {l \in InLinks(g, m, i) : l.from \notin heap /\ key[l.from] # Unreached}

\* No link that was tried leads to i at less than its key.
NoneCheaper(g, m, heap, key, i) ==
  \A l \in Tried(g, m, heap, key, i) : ~better(key[l.from] + l.cost, key[i])

\* Link r leads to i at the cost of its key, and of the links that were tried and
\* do so too it comes first: from the cheapest position, and there in the order.
FirstToReach(g, m, heap, key, i, r) ==
  /\ r \in Tried(g, m, heap, key, i)
  /\ key[i] = key[r.from] + r.cost
  /\ \A l \in Tried(g, m, heap, key, i) : key[l.from] + l.cost = key[i] =>
       key[r.from] <= key[l.from] /\ (l.from = r.from => r.rank <= l.rank)

KeysAreCosts(g, heap, key) ==
  /\ heap \subseteq Positions(g)
  /\ key[1] = 0
  /\ \A i \in Positions(g) : IsCost(key[i])

RemovedAreDone(g, m, heap, key) ==
  \A u \in Positions(g) \ heap : key[u] = Costs(g, m)[u]

RemovedInOrder(g, heap, key) ==
  \A u \in Positions(g) \ heap : \A v \in heap : ~better(key[v], key[u])

SoundSearch(g, m, heap, key, info) ==
  /\ KeysAreCosts(g, heap, key)
  /\ RemovedAreDone(g, m, heap, key)
  /\ RemovedInOrder(g, heap, key)
  /\ \A i \in Positions(g) : NoneCheaper(g, m, heap, key, i)
  /\ \A i \in Positions(g) \ {1} :
       key[i] # Unreached => FirstToReach(g, m, heap, key, i, info[i])

SearchInv ==
  /\ IInv
  /\ SoundSearch(rsg, statusMap, nodesInFH, keyOf, rrNodeInfo)

\* Of several links from one node one comes first by cost and then by order.
LEMMA ChosenIs ==
  ASSUME NEW S, IsFiniteSet(S), S # {}, \A l \in S : l.cost \in Nat /\ l.rank \in Nat
  PROVE  /\ chosen(S) \in S
         /\ \A k \in S : chosen(S).cost < k.cost
                         \/ (chosen(S).cost = k.cost /\ chosen(S).rank <= k.rank)
<1> DEFINE cost == [l \in S |-> l.cost]
<1>1. PICK a \in S : \A k \in S : a.cost <= k.cost
  <2>1. \A l \in S : cost[l] = l.cost /\ cost[l] \in Int
    OBVIOUS
  <2>2. PICK a \in S : \A k \in S : cost[a] <= cost[k]
    <3> HIDE DEF cost
    <3> QED BY <2>1, LeastValue
  <2> QED BY <2>1, <2>2
<1> DEFINE B == {l \in S : l.cost = a.cost}
           rank == [l \in B |-> l.rank]
<1>2. PICK b \in B : \A k \in B : b.rank <= k.rank
  <2>1. \A l \in B : rank[l] = l.rank /\ rank[l] \in Int
    OBVIOUS
  <2>2. IsFiniteSet(B) /\ B # {}
    BY <1>1, FS_Subset
  <2>3. PICK b \in B : \A k \in B : rank[b] <= rank[k]
    <3> HIDE DEF rank, B
    <3> QED BY <2>1, <2>2, LeastValue
  <2> QED BY <2>1, <2>3
<1>3. ASSUME NEW k \in S
      PROVE  b.cost < k.cost \/ (b.cost = k.cost /\ b.rank <= k.rank)
  <2>1. b.cost <= k.cost /\ b.cost \in Nat /\ k.cost \in Nat
    BY <1>1
  <2>2. k.cost = b.cost => b.rank <= k.rank
    BY <1>2
  <2> QED BY <2>1, <2>2
<1>4. b \in S
  OBVIOUS
<1> HIDE DEF B
<1> QED BY <1>3, <1>4 DEF chosen

\* A link that was tried is one of the RSG and begins at an earlier position.
LEMMA TriedAre ==
  ASSUME NEW g, IsRsg(g), NEW m, NEW heap, NEW key, KeysAreCosts(g, heap, key),
         NEW i, NEW l \in Tried(g, m, heap, key, i)
  PROVE  /\ l \in InLinks(g, m, i)
         /\ l.from \in Positions(g) \ heap
         /\ key[l.from] \in Nat
         /\ l.cost \in Nat
         /\ l.rank \in Nat
<1>1. l \in InLinks(g, m, i) /\ l.from \notin heap /\ key[l.from] # Unreached
  BY DEF Tried
<1>2. l.from \in Positions(g) /\ l.cost \in Nat /\ l.rank \in Nat
  BY <1>1, InLinksAre
<1>3. key[l.from] \in Nat
  BY <1>1, <1>2 DEF KeysAreCosts, IsCost
<1> QED BY <1>1, <1>2, <1>3

\* No key is less than the least cost.
LEMMA KeysAreReached ==
  ASSUME NEW g, IsRsg(g), NEW m, NEW heap, NEW key, NEW info,
         SoundSearch(g, m, heap, key, info), NEW i \in Positions(g), key[i] # Unreached
  PROVE  Costs(g, m)[i] \in Nat /\ Costs(g, m)[i] <= key[i]
<1> DEFINE c == Costs(g, m)
<1>1. CASE i = 1
  <2>1. c[1] = CostAt(g, m, c, 1)
    BY <1>1, CostsSolve
  <2>2. c[1] = 0
    BY <2>1 DEF CostAt
  <2> QED BY <1>1, <2>2 DEF SoundSearch, KeysAreCosts
<1>2. CASE i # 1
  <2> DEFINE r == info[i]
  <2>1. r \in Tried(g, m, heap, key, i) /\ key[i] = key[r.from] + r.cost
    BY <1>2 DEF SoundSearch, FirstToReach
  <2>2. /\ r \in InLinks(g, m, i)
        /\ r.from \in Positions(g) \ heap
        /\ key[r.from] \in Nat
        /\ r.cost \in Nat
    BY <2>1, TriedAre DEF SoundSearch
  <2>3. c[r.from] = key[r.from]
    BY <2>2 DEF SoundSearch, RemovedAreDone
  <2> HIDE DEF c, r
  <2>4. c[r.from] # Unreached
    BY <2>2, <2>3 DEF Unreached
  <2>5. c[i] \in Nat /\ c[i] <= c[r.from] + r.cost
    BY <1>2, <2>2, <2>4, LeastOfVia DEF c
  <2> QED BY <2>1, <2>3, <2>5 DEF c
<1> QED BY <1>1, <1>2

\* The search may remove u next.
IsMax(heap, key, u) == u \in heap /\ \A v \in heap : ~better(key[v], key[u])

\* What is removed has its least cost: on a cheaper way to it there would be a first
\* position still in the heap, and that one would have the larger key.
LEMMA RemovedIsDone ==
  ASSUME NEW g, IsRsg(g), NEW m, NEW heap, NEW key, NEW info,
         SoundSearch(g, m, heap, key, info), NEW u, IsMax(heap, key, u)
  PROVE  key[u] = Costs(g, m)[u]
<1> DEFINE c == Costs(g, m)
           n == Len(g.prim)
           T == {i \in heap : c[i] # Unreached /\ better(c[i], key[u])}
<1>0. n \in Nat \ {0}
  BY DEF IsRsg
<1>1. KeysAreCosts(g, heap, key) /\ RemovedAreDone(g, m, heap, key)
  BY DEF SoundSearch
<1>2. u \in heap /\ u \in Positions(g) /\ IsCost(key[u])
  BY <1>1 DEF IsMax, KeysAreCosts
<1>3. \A i \in Positions(g) : IsCost(c[i])
  BY CostsAreCosts
<1>4. T = {}
  <2> SUFFICES ASSUME T # {} PROVE FALSE
    OBVIOUS
  <2>1. PICK x \in T : \A y \in T : x <= y
    <3>1. T \subseteq 1 .. n
      BY <1>1 DEF KeysAreCosts, Positions
    <3> HIDE DEF T, n
    <3> QED BY <1>0, <3>1, FirstPosition
  <2>2. x \in heap /\ x \in Positions(g) /\ c[x] # Unreached /\ better(c[x], key[u])
    BY <1>1 DEF KeysAreCosts
  <2>3. ~better(key[x], key[u])
    BY <2>2 DEF IsMax
  <2>4. CASE x = 1
    <3>1. c[x] = CostAt(g, m, c, x)
      BY <2>2, CostsSolve
    <3>2. c[x] = 0 /\ key[x] = 0
      BY <1>1, <2>4, <3>1 DEF CostAt, KeysAreCosts
    <3> QED BY <2>2, <2>3, <3>2
  <2>5. CASE x # 1
    <3>1. PICK l \in Best(g, m, c, x) : TRUE
      BY <2>2, <2>5, ReachedByBest
    <3>2. l \in InLinks(g, m, x) /\ c[l.from] # Unreached /\ c[l.from] + l.cost = c[x]
      BY <3>1 DEF Best
    <3>3. l.from \in Positions(g) /\ l.from < x /\ l.cost \in Nat
      BY <3>2, InLinksAre
    <3> HIDE DEF c
    <3>4. c[l.from] \in Nat /\ c[x] \in Nat
      BY <1>3, <2>2, <3>2, <3>3 DEF IsCost
    <3>5. better(c[l.from], key[u])
      BY <1>2, <2>2, <3>2, <3>3, <3>4 DEF better, IsCost, Unreached
    <3>6. l.from \notin heap
      <4>1. l.from \in heap => l.from \in T
        BY <3>2, <3>5
      <4>2. ~(x <= l.from)
        BY <2>2, <3>3 DEF Positions
      <4> QED BY <2>1, <4>1, <4>2
    <3>7. key[l.from] = c[l.from]
      BY <1>1, <3>3, <3>6 DEF RemovedAreDone, c
    <3>8. l \in Tried(g, m, heap, key, x)
      BY <3>2, <3>6, <3>7 DEF Tried
    <3>9. ~better(c[x], key[x])
      BY <2>2, <3>2, <3>7, <3>8 DEF SoundSearch, NoneCheaper
    <3>10. IsCost(key[x])
      BY <1>1, <2>2 DEF KeysAreCosts
    <3> QED BY <1>2, <2>2, <2>3, <3>4, <3>9, <3>10 DEF better, IsCost, Unreached
  <2> QED BY <2>4, <2>5
<1>5. CASE key[u] = Unreached
  <2>1. ~better(c[u], key[u]) \/ c[u] = Unreached
    BY <1>2, <1>4
  <2> QED BY <1>5, <2>1 DEF better
<1>6. CASE key[u] # Unreached
  <2>1. c[u] \in Nat /\ c[u] <= key[u]
    BY <1>2, <1>6, KeysAreReached
  <2>2. ~better(c[u], key[u])
    BY <1>2, <1>4, <2>1 DEF Unreached
  <2> HIDE DEF c
  <2>3. c[u] = key[u]
    BY <1>2, <1>6, <2>1, <2>2 DEF better, IsCost, Unreached
  <2> QED BY <2>3 DEF c
<1> QED BY <1>5, <1>6

\* What the removal of u leaves at position i, k and r being the new key and link.
Kept(g, m, heap, key, info, u, i, k, r) ==
  /\ k = key[i]
  /\ r = info[i]
  /\ i \in heap \ {u} => \A l \in InLinks(g, m, i) :
       l.from = u /\ key[u] # Unreached => ~better(key[u] + l.cost, key[i])

Improved(g, m, heap, key, u, i, k, r) ==
  /\ i \in heap \ {u}
  /\ r \in InLinks(g, m, i)
  /\ r.from = u
  /\ key[u] # Unreached
  /\ better(k, key[i])
  /\ k = key[u] + r.cost
  /\ \A l \in InLinks(g, m, i) : l.from = u =>
       r.cost < l.cost \/ (r.cost = l.cost /\ r.rank <= l.rank)

Removed(g, m, heap, key, info, u, k, r) ==
  \A i \in Positions(g) : \/ Kept(g, m, heap, key, info, u, i, k[i], r[i])
                          \/ Improved(g, m, heap, key, u, i, k[i], r[i])

\* The keys k are costs, and as before at the positions that are not in the heap.
KeysKept(g, heap, key, k) ==
  /\ KeysAreCosts(g, heap, k)
  /\ \A i \in Positions(g) : i \notin heap => k[i] = key[i]

\* A removal keeps the keys of what was removed, and of the first position.
LEMMA RemovalKeepsKeys ==
  ASSUME NEW g, IsRsg(g), NEW m, NEW heap, NEW key, NEW info,
         SoundSearch(g, m, heap, key, info), NEW u, IsMax(heap, key, u),
         NEW k, NEW r, Removed(g, m, heap, key, info, u, k, r)
  PROVE  KeysKept(g, heap \ {u}, key, k)
<1>1. KeysAreCosts(g, heap, key) /\ u \in heap
  BY DEF SoundSearch, IsMax
<1>2. ASSUME NEW i \in Positions(g)
      PROVE  IsCost(k[i]) /\ (i \notin heap \ {u} => k[i] = key[i])
  <2>1. CASE Kept(g, m, heap, key, info, u, i, k[i], r[i])
    BY <1>1, <2>1 DEF Kept, KeysAreCosts
  <2>2. CASE Improved(g, m, heap, key, u, i, k[i], r[i])
    <3>1. r[i].cost \in Nat
      BY <2>2, InLinksAre DEF Improved
    <3>2. key[u] \in Nat
      BY <1>1, <2>2 DEF Improved, KeysAreCosts, IsCost
    <3> QED BY <2>2, <3>1, <3>2 DEF Improved, IsCost
  <2> QED BY <2>1, <2>2 DEF Removed
<1>3. k[1] = 0
  <2>1. 1 \in Positions(g)
    BY DEF Positions, IsRsg
  <2>2. CASE Kept(g, m, heap, key, info, u, 1, k[1], r[1])
    BY <1>1, <2>2 DEF Kept, KeysAreCosts
  <2>3. CASE Improved(g, m, heap, key, u, 1, k[1], r[1])
    <3>1. r[1].from \in Positions(g) /\ r[1].from < 1
      BY <2>3, InLinksAre DEF Improved
    <3> QED BY <3>1 DEF Positions
  <2> QED BY <2>1, <2>2, <2>3 DEF Removed
<1> QED BY <1>1, <1>2, <1>3 DEF KeysAreCosts, KeysKept

\* The order of removal: a key that is improved is not better than that of u.
LEMMA RemovalKeepsOrder ==
  ASSUME NEW g, IsRsg(g), NEW m, NEW heap, NEW key, NEW info,
         SoundSearch(g, m, heap, key, info), NEW u, IsMax(heap, key, u),
         NEW k, NEW r, Removed(g, m, heap, key, info, u, k, r)
  PROVE  RemovedInOrder(g, heap \ {u}, k)
<1>1. /\ KeysAreCosts(g, heap, key)
      /\ RemovedInOrder(g, heap, key)
      /\ u \in heap
      /\ u \in Positions(g)
  BY DEF SoundSearch, IsMax, KeysAreCosts
<1>2. /\ KeysAreCosts(g, heap \ {u}, k)
      /\ \A i \in Positions(g) : i \notin heap \ {u} => k[i] = key[i]
  <2>1. KeysKept(g, heap \ {u}, key, k)
    BY RemovalKeepsKeys
  <2> QED BY <2>1 DEF KeysKept
<1>3. ASSUME NEW w \in Positions(g) \ (heap \ {u}), NEW v \in heap \ {u}
      PROVE  ~better(k[v], k[w])
  <2>1. k[w] = key[w] /\ v \in Positions(g) /\ IsCost(key[w])
    BY <1>1, <1>2 DEF KeysAreCosts
  <2>2. w = u \/ (w \in Positions(g) \ heap)
    OBVIOUS
  <2>3. ~better(key[v], key[w])
    BY <1>1, <2>2 DEF IsMax, RemovedInOrder
  <2>4. CASE Kept(g, m, heap, key, info, u, v, k[v], r[v])
    BY <2>1, <2>3, <2>4 DEF Kept
  <2>5. CASE Improved(g, m, heap, key, u, v, k[v], r[v])
    <3>1. r[v].cost \in Nat
      BY <2>5, InLinksAre DEF Improved
    <3>2. k[v] = key[u] + r[v].cost /\ key[u] # Unreached
      BY <2>5 DEF Improved
    <3>3. key[u] \in Nat
      BY <1>1, <3>2 DEF KeysAreCosts, IsCost
    <3>4. ~better(key[u], key[w])
      <4>1. CASE w = u
        BY <3>3, <4>1 DEF better, Unreached
      <4>2. CASE w # u
        BY <1>1, <2>2, <4>2 DEF RemovedInOrder
      <4> QED BY <4>1, <4>2
    <3> QED BY <2>1, <3>1, <3>2, <3>3, <3>4 DEF better, IsCost, Unreached
  <2> QED BY <2>1, <2>4, <2>5 DEF Removed
<1> QED BY <1>3 DEF RemovedInOrder

\* The links that were tried are those before and those of u.
LEMMA TriedWithRemoved ==
  ASSUME NEW g, IsRsg(g), NEW m, NEW heap, NEW key, NEW info,
         SoundSearch(g, m, heap, key, info), NEW u, IsMax(heap, key, u),
         NEW k, NEW r, Removed(g, m, heap, key, info, u, k, r), NEW i
  PROVE  /\ \A l \in Tried(g, m, heap \ {u}, k, i) :
              /\ k[l.from] = key[l.from]
              /\ l \in Tried(g, m, heap, key, i)
                 \/ (l \in InLinks(g, m, i) /\ l.from = u /\ key[u] # Unreached)
         /\ \A l \in Tried(g, m, heap, key, i) : l \in Tried(g, m, heap \ {u}, k, i)
<1>1. \A j \in Positions(g) : j \notin heap \ {u} => k[j] = key[j]
  <2>1. KeysKept(g, heap \ {u}, key, k)
    BY RemovalKeepsKeys
  <2> QED BY <2>1 DEF KeysKept
<1>2. \A l \in InLinks(g, m, i) : l.from \in Positions(g)
  BY InLinksAre
<1> QED BY <1>1, <1>2 DEF Tried

\* What is known of position i after the removal of u.
LEMMA RemovalAtPosition ==
  ASSUME NEW g, IsRsg(g), NEW m, NEW heap, NEW key, NEW info,
         SoundSearch(g, m, heap, key, info), NEW u, IsMax(heap, key, u),
         NEW k, NEW r, Removed(g, m, heap, key, info, u, k, r), NEW i \in Positions(g)
  PROVE  /\ NoneCheaper(g, m, heap \ {u}, k, i)
         /\ i # 1 /\ k[i] # Unreached => FirstToReach(g, m, heap \ {u}, k, i, r[i])
<1>1. /\ KeysAreCosts(g, heap, key)
      /\ RemovedInOrder(g, heap, key)
      /\ NoneCheaper(g, m, heap, key, i)
      /\ i # 1 /\ key[i] # Unreached => FirstToReach(g, m, heap, key, i, info[i])
      /\ u \in heap
      /\ u \in Positions(g)
      /\ IsCost(key[u])
      /\ IsCost(key[i])
  BY DEF SoundSearch, IsMax, KeysAreCosts
<1>2. \A l \in Tried(g, m, heap \ {u}, k, i) :
        /\ k[l.from] = key[l.from]
        /\ l \in Tried(g, m, heap, key, i)
           \/ (l \in InLinks(g, m, i) /\ l.from = u /\ key[u] # Unreached)
  BY TriedWithRemoved
<1>3. \A l \in Tried(g, m, heap, key, i) : l \in Tried(g, m, heap \ {u}, k, i)
  BY TriedWithRemoved
<1>4. \A l \in Tried(g, m, heap, key, i) :
        /\ l \in InLinks(g, m, i)
        /\ l.from \in Positions(g) \ heap
        /\ key[l.from] \in Nat
        /\ l.cost \in Nat
        /\ l.rank \in Nat
  BY <1>1, TriedAre
<1>5. \A l \in InLinks(g, m, i) : l.from \in Positions(g) /\ l.cost \in Nat /\ l.rank \in Nat
  BY InLinksAre
\* Those removed before u are not more costly.
<1>6. \A w \in Positions(g) \ heap : key[w] # Unreached /\ key[u] # Unreached => key[w] <= key[u]
  <2> SUFFICES ASSUME NEW w \in Positions(g) \ heap, key[w] # Unreached, key[u] # Unreached
               PROVE  key[w] <= key[u]
    OBVIOUS
  <2>1. ~better(key[u], key[w]) /\ IsCost(key[w])
    BY <1>1 DEF RemovedInOrder, KeysAreCosts
  <2> QED BY <1>1, <2>1 DEF better, IsCost, Unreached
<1>7. CASE Kept(g, m, heap, key, info, u, i, k[i], r[i])
  <2>1. k[i] = key[i] /\ r[i] = info[i]
    BY <1>7 DEF Kept
  <2>2. ASSUME NEW l \in InLinks(g, m, i), l.from = u, key[u] # Unreached
        PROVE  /\ ~better(key[u] + l.cost, key[i])
               /\ key[u] + l.cost = key[i] /\ i \notin heap \ {u} => key[i] = key[u]
    <3>1. l.cost \in Nat /\ key[u] \in Nat
      BY <1>1, <1>5, <2>2 DEF IsCost
    <3>2. CASE i \in heap \ {u}
      BY <1>7, <2>2, <3>2 DEF Kept
    <3>3. CASE i \notin heap \ {u}
      <4>1. ~better(key[u], key[i])
        <5>1. CASE i = u
          BY <5>1, <3>1 DEF better, Unreached
        <5>2. CASE i # u
          BY <1>1, <3>3, <5>2 DEF RemovedInOrder
        <5> QED BY <5>1, <5>2
      <4> QED BY <1>1, <3>1, <4>1 DEF better, IsCost, Unreached
    <3> QED BY <3>2, <3>3
  <2>3. NoneCheaper(g, m, heap \ {u}, k, i)
    BY <1>1, <1>2, <2>1, <2>2 DEF NoneCheaper
  <2>4. ASSUME i # 1, k[i] # Unreached
        PROVE  FirstToReach(g, m, heap \ {u}, k, i, r[i])
    <3> DEFINE a == info[i]
    <3>1. /\ a \in Tried(g, m, heap, key, i)
          /\ key[i] = key[a.from] + a.cost
          /\ \A l \in Tried(g, m, heap, key, i) : key[l.from] + l.cost = key[i] =>
               key[a.from] <= key[l.from] /\ (l.from = a.from => a.rank <= l.rank)
      BY <1>1, <2>1, <2>4 DEF FirstToReach
    <3> HIDE DEF a
    <3>2. a \in Tried(g, m, heap \ {u}, k, i) /\ k[a.from] = key[a.from]
      BY <1>2, <1>3, <3>1
    <3>3. a.from \in Positions(g) \ heap /\ key[a.from] \in Nat
      BY <1>4, <3>1
    <3>4. ASSUME NEW l \in Tried(g, m, heap \ {u}, k, i), k[l.from] + l.cost = k[i]
          PROVE  k[a.from] <= k[l.from] /\ (l.from = a.from => a.rank <= l.rank)
      <4>1. CASE l \in Tried(g, m, heap, key, i)
        BY <1>2, <2>1, <3>1, <3>2, <3>4, <4>1
      <4>2. CASE l \notin Tried(g, m, heap, key, i)
        <5>1. l.from = u /\ key[u] # Unreached /\ k[l.from] = key[u]
          BY <1>2, <3>4, <4>2
        <5>2. key[a.from] <= key[u]
          BY <1>6, <3>3, <5>1 DEF Unreached
        <5> QED BY <1>1, <3>2, <3>3, <5>1, <5>2
      <4> QED BY <4>1, <4>2
    <3> QED BY <2>1, <3>1, <3>2, <3>4 DEF FirstToReach, a
  <2> QED BY <2>3, <2>4
<1>8. CASE Improved(g, m, heap, key, u, i, k[i], r[i])
  <2>1. /\ r[i] \in InLinks(g, m, i)
        /\ r[i].from = u
        /\ key[u] # Unreached
        /\ better(k[i], key[i])
        /\ k[i] = key[u] + r[i].cost
        /\ \A l \in InLinks(g, m, i) : l.from = u =>
             r[i].cost < l.cost \/ (r[i].cost = l.cost /\ r[i].rank <= l.rank)
    BY <1>8 DEF Improved
  <2>2. r[i].cost \in Nat /\ key[u] \in Nat /\ k[i] \in Nat
    BY <1>1, <1>5, <2>1 DEF IsCost
  \* Only links of u reach i at its new cost.
  <2>3. ASSUME NEW l \in Tried(g, m, heap \ {u}, k, i)
        PROVE  /\ ~better(k[l.from] + l.cost, k[i])
               /\ k[l.from] + l.cost = k[i] => l.from = u /\ r[i].rank <= l.rank
    <3>1. CASE l \in Tried(g, m, heap, key, i)
      <4>1. ~better(key[l.from] + l.cost, key[i])
        BY <1>1, <3>1 DEF NoneCheaper
      <4>2. key[l.from] \in Nat /\ l.cost \in Nat
        BY <1>4, <3>1
      <4>3. key[l.from] + l.cost > k[i]
        BY <1>1, <2>1, <2>2, <4>1, <4>2 DEF better, IsCost, Unreached
      <4> QED BY <1>2, <2>2, <4>2, <4>3 DEF better, Unreached
    <3>2. CASE l \notin Tried(g, m, heap, key, i)
      <4>1. l \in InLinks(g, m, i) /\ l.from = u /\ k[l.from] = key[u]
        BY <1>2, <3>2
      <4>2. r[i].cost < l.cost \/ (r[i].cost = l.cost /\ r[i].rank <= l.rank)
        BY <2>1, <4>1
      <4>3. l.cost \in Nat
        BY <1>5, <4>1
      <4> QED BY <2>1, <2>2, <4>1, <4>2, <4>3 DEF better, Unreached
    <3> QED BY <3>1, <3>2
  <2>4. r[i] \in Tried(g, m, heap \ {u}, k, i) /\ k[u] = key[u]
    <3>1. k[u] = key[u]
      <4>1. KeysKept(g, heap \ {u}, key, k)
        BY RemovalKeepsKeys
      <4> QED BY <1>1, <4>1 DEF KeysKept
    <3> QED BY <2>1, <3>1 DEF Tried
  <2>5. NoneCheaper(g, m, heap \ {u}, k, i)
    BY <2>3 DEF NoneCheaper
  <2>6. FirstToReach(g, m, heap \ {u}, k, i, r[i])
    <3>1. k[i] = k[r[i].from] + r[i].cost
      BY <2>1, <2>4
    <3>2. \A l \in Tried(g, m, heap \ {u}, k, i) : k[l.from] + l.cost = k[i] =>
            k[r[i].from] <= k[l.from] /\ (l.from = r[i].from => r[i].rank <= l.rank)
      BY <2>1, <2>2, <2>3, <2>4
    <3> QED BY <2>4, <3>1, <3>2 DEF FirstToReach
  <2> QED BY <2>5, <2>6
<1> QED BY <1>7, <1>8 DEF Removed

\* A removal keeps all of it.
LEMMA RemovalIsSound ==
  ASSUME NEW g, IsRsg(g), NEW m, NEW heap, NEW key, NEW info,
         SoundSearch(g, m, heap, key, info), NEW u, IsMax(heap, key, u),
         NEW k, NEW r, Removed(g, m, heap, key, info, u, k, r)
  PROVE  SoundSearch(g, m, heap \ {u}, k, r)
<1>1. /\ KeysAreCosts(g, heap \ {u}, k)
      /\ \A i \in Positions(g) : i \notin heap \ {u} => k[i] = key[i]
  <2>1. KeysKept(g, heap \ {u}, key, k)
    BY RemovalKeepsKeys
  <2> QED BY <2>1 DEF KeysKept
<1>2. RemovedInOrder(g, heap \ {u}, k)
  BY RemovalKeepsOrder
<1>3. RemovedAreDone(g, m, heap \ {u}, k)
  <2>1. key[u] = Costs(g, m)[u]
    BY RemovedIsDone
  <2>2. RemovedAreDone(g, m, heap, key)
    BY DEF SoundSearch
  <2> QED BY <1>1, <2>1, <2>2 DEF RemovedAreDone
<1>4. \A i \in Positions(g) :
        /\ NoneCheaper(g, m, heap \ {u}, k, i)
        /\ i # 1 /\ k[i] # Unreached => FirstToReach(g, m, heap \ {u}, k, i, r[i])
  BY RemovalAtPosition
<1> QED BY <1>1, <1>2, <1>3, <1>4 DEF SoundSearch

\* removeMax is such a removal.
LEMMA RemoveMaxRemoves ==
  ASSUME SearchInv, NEW u \in nodesInFH, removeMax(u)
  PROVE  Removed(rsg, statusMap, nodesInFH, keyOf, rrNodeInfo, u, keyOf', rrNodeInfo')
<1> DEFINE improved == {i \in nodesInFH \ {u} : improving(u, i) # {}}
           link(i) == chosen(improving(u, i))
<1>1. /\ IsRsg(rsg)
      /\ keyOf' = [i \in Positions(rsg) |-> IF i \in improved THEN keyOf[u] + link(i).cost ELSE keyOf[i]]
      /\ rrNodeInfo' = [i \in Positions(rsg) |-> IF i \in improved THEN link(i) ELSE rrNodeInfo[i]]
  BY RsgAssumption DEF SearchInv, IInv, removeMax
<1>2. KeysAreCosts(rsg, nodesInFH, keyOf) /\ u \in Positions(rsg) /\ IsCost(keyOf[u])
  BY DEF SearchInv, SoundSearch, KeysAreCosts
<1>3. ASSUME NEW i \in Positions(rsg), i \in improved
      PROVE  Improved(rsg, statusMap, nodesInFH, keyOf, u, i, keyOf'[i], rrNodeInfo'[i])
  <2> DEFINE S == improving(u, i)
  <2>1. \A l \in S : /\ l \in InLinks(rsg, statusMap, i)
                     /\ l.from = u
                     /\ keyOf[u] # Unreached
                     /\ better(keyOf[u] + l.cost, keyOf[i])
    BY DEF improving
  <2>2. \A l \in InLinks(rsg, statusMap, i) : l \in rsg.links /\ l.cost \in Nat /\ l.rank \in Nat
    BY <1>1, InLinksAre
  <2>3. S # {}
    BY <1>3
  <2>4. IsFiniteSet(S)
    <3>1. S \in SUBSET rsg.links
      BY <2>1, <2>2
    <3> QED BY <1>1, <3>1, FS_Subset DEF IsRsg
  <2>5. /\ chosen(S) \in S
        /\ \A k \in S : chosen(S).cost < k.cost
                        \/ (chosen(S).cost = k.cost /\ chosen(S).rank <= k.rank)
    <3>1. \A l \in S : l.cost \in Nat /\ l.rank \in Nat
      BY <2>1, <2>2
    <3> HIDE DEF S
    <3> QED BY <2>3, <2>4, <3>1, ChosenIs
  <2>6. keyOf'[i] = keyOf[u] + chosen(S).cost /\ rrNodeInfo'[i] = chosen(S)
    BY <1>1, <1>3
  <2> DEFINE r == chosen(S)
  <2>7. IsCost(keyOf[i])
    BY <1>2 DEF KeysAreCosts
  <2>8. ASSUME NEW l \in InLinks(rsg, statusMap, i), l.from = u
        PROVE  r.cost < l.cost \/ (r.cost = l.cost /\ r.rank <= l.rank)
    <3>1. CASE l \in S
      BY <2>5, <3>1
    <3>2. CASE l \notin S
      <4>1. keyOf[u] # Unreached /\ better(keyOf[u] + r.cost, keyOf[i])
        BY <2>1, <2>5
      <4>2. ~better(keyOf[u] + l.cost, keyOf[i])
        BY <2>8, <3>2, <4>1 DEF improving
      <4>3. l.cost \in Nat /\ r.cost \in Nat /\ keyOf[u] \in Nat
        BY <1>2, <2>1, <2>2, <2>5, <4>1 DEF IsCost
      <4> HIDE DEF r
      <4> QED BY <2>7, <4>1, <4>2, <4>3 DEF better, IsCost, Unreached
    <3> QED BY <3>1, <3>2
  <2>9. r \in InLinks(rsg, statusMap, i) /\ r.from = u /\ keyOf[u] # Unreached
        /\ better(keyOf[u] + r.cost, keyOf[i])
    BY <2>1, <2>5
  <2>10. i \in nodesInFH \ {u}
    BY <1>3
  <2> HIDE DEF r
  <2> QED BY <2>6, <2>8, <2>9, <2>10 DEF Improved, r
<1>4. ASSUME NEW i \in Positions(rsg), i \notin improved
      PROVE  Kept(rsg, statusMap, nodesInFH, keyOf, rrNodeInfo, u, i, keyOf'[i], rrNodeInfo'[i])
  <2>1. keyOf'[i] = keyOf[i] /\ rrNodeInfo'[i] = rrNodeInfo[i]
    BY <1>1, <1>4
  <2>2. i \in nodesInFH \ {u} => improving(u, i) = {}
    BY <1>4
  <2> QED BY <2>1, <2>2 DEF Kept, improving
<1> QED BY <1>3, <1>4 DEF Removed

\* A search begins with the first position alone reached.
LEMMA SearchBegins ==
  ASSUME NEW g, IsRsg(g), NEW m, NEW info
  PROVE  SoundSearch(g, m, Positions(g), [i \in Positions(g) |-> IF i = 1 THEN 0 ELSE Unreached], info)
<1> DEFINE key == [i \in Positions(g) |-> IF i = 1 THEN 0 ELSE Unreached]
<1>1. 1 \in Positions(g)
  BY DEF Positions, IsRsg
<1>2. KeysAreCosts(g, Positions(g), key)
  BY <1>1 DEF KeysAreCosts, IsCost
<1>3. \A i \in Positions(g) : Tried(g, m, Positions(g), key, i) = {}
  BY InLinksAre DEF Tried
<1>4. \A i \in Positions(g) \ {1} : key[i] = Unreached
  OBVIOUS
<1> HIDE DEF key
<1>5. SoundSearch(g, m, Positions(g), key, info)
  BY <1>2, <1>3, <1>4 DEF SoundSearch, RemovedAreDone, RemovedInOrder, NoneCheaper
<1> QED BY <1>5 DEF key

LEMMA InitSearch == SearchInit => SearchInv
<1> SUFFICES ASSUME SearchInit PROVE SearchInv
  OBVIOUS
<1>1. IInv /\ IsRsg(rsg)
  BY InitExact, RsgAssumption DEF IInv
<1> QED BY <1>1, SearchBegins DEF SearchInit, SearchInv

LEMMA StepSearch == SearchInv /\ [SearchNext]_searchVars => SearchInv'
<1> SUFFICES ASSUME SearchInv, [SearchNext]_searchVars PROVE SearchInv'
  OBVIOUS
<1>1. IInv /\ IInv' /\ IsRsg(rsg)
  BY StepExact, RsgAssumption DEF SearchInv, IInv
<1>2. CASE \E l \in PpLinks(rsg) \cup RspLinks(rsg), st \in LinkStatus : reportLinkStatus(l, st)
  <2>1. /\ rsg' = rsg
        /\ nodesInFH' = Positions(rsg)
        /\ keyOf' = [i \in Positions(rsg) |-> IF i = 1 THEN 0 ELSE Unreached]
    BY <1>2 DEF reportLinkStatus
  <2>2. SoundSearch(rsg, statusMap', nodesInFH', keyOf', rrNodeInfo')
    BY <1>1, <2>1, SearchBegins
  <2> QED BY <1>1, <2>1, <2>2 DEF SearchInv
<1>3. ASSUME NEW u \in nodesInFH, removeMax(u)
      PROVE  SearchInv'
  <2>1. Removed(rsg, statusMap, nodesInFH, keyOf, rrNodeInfo, u, keyOf', rrNodeInfo')
    BY <1>3, RemoveMaxRemoves
  <2>2. /\ rsg' = rsg
        /\ statusMap' = statusMap
        /\ nodesInFH' = nodesInFH \ {u}
        /\ IsMax(nodesInFH, keyOf, u)
    BY <1>3 DEF removeMax, maxNodes, IsMax
  <2>3. SoundSearch(rsg, statusMap, nodesInFH \ {u}, keyOf', rrNodeInfo')
    BY <1>1, <2>1, <2>2, RemovalIsSound DEF SearchInv
  <2> QED BY <1>1, <2>2, <2>3 DEF SearchInv
<1>4. CASE UNCHANGED searchVars
  BY <1>1, <1>4 DEF searchVars, SearchInv
<1> QED BY <1>2, <1>3, <1>4 DEF SearchNext

\* When the search ends every position has its least cost, whichever of several
\* nodes with the largest key the heap has yielded (rsgComputePreferredPathID).
LeastCosts == nodesInFH = {} => \A i \in Positions(rsg) : keyOf[i] = Costs(rsg, statusMap)[i]

LEMMA SearchInvGivesCosts == SearchInv => LeastCosts
BY DEF SearchInv, SoundSearch, RemovedAreDone, LeastCosts

THEOREM LeastCostsCorrect == SearchSpec => []LeastCosts
  BY InitSearch, StepSearch, SearchInvGivesCosts, PTL DEF SearchSpec

\* No position is reached at its cost from two positions of the same cost.
NoTies(g, m) ==
  \A i \in Positions(g) : \A l, k \in Best(g, m, Costs(g, m), i) :
    Costs(g, m)[l.from] = Costs(g, m)[k.from] => l.from = k.from

\* Without ties one link only qualifies for PrevLink.
LEMMA PrevIsFirst ==
  ASSUME NEW g \in Rsgs, NEW m, NoTies(g, m),
         NEW i \in Positions(g) \ Stops(g, m),
         NEW r \in Best(g, m, Costs(g, m), i),
         \A l \in Best(g, m, Costs(g, m), i) :
           /\ Costs(g, m)[r.from] <= Costs(g, m)[l.from]
           /\ l.from = r.from => r.rank <= l.rank
  PROVE  Prev(g, m, i) = r
<1> DEFINE c == Costs(g, m)
           best == Best(g, m, c, i)
           Q(l) == \A k \in best : \/ c[l.from] < c[k.from]
                                   \/ c[l.from] = c[k.from] /\ (l.from # k.from \/ l.rank <= k.rank)
<1>1. IsRsg(g) /\ \A l, k \in g.links : l.from = k.from /\ l.rank = k.rank => l = k
  BY RsgAssumption
<1>2. \A l \in best : l \in g.links /\ c[l.from] \in Nat /\ l.rank \in Nat
  <2> SUFFICES ASSUME NEW l \in best PROVE l \in g.links /\ c[l.from] \in Nat /\ l.rank \in Nat
    OBVIOUS
  <2>1. l \in InLinks(g, m, i) /\ c[l.from] # Unreached
    BY DEF Best
  <2>2. l \in g.links /\ l.from \in Positions(g) /\ l.rank \in Nat
    BY <1>1, <2>1, InLinksAre
  <2>3. IsCost(c[l.from])
    BY <1>1, <2>2, CostsAreCosts
  <2> QED BY <2>1, <2>2, <2>3 DEF IsCost
<1>3. Prev(g, m, i) = CHOOSE l \in best : Q(l)
  BY DEF Prev, PrevLink, Best
<1>4. \A l, k \in best : c[l.from] = c[k.from] => l.from = k.from
  BY DEF NoTies
<1>5. \A l \in best : c[r.from] <= c[l.from] /\ (l.from = r.from => r.rank <= l.rank)
  OBVIOUS
<1>6. r \in best
  OBVIOUS
<1> HIDE DEF c, best
<1>7. Q(r)
  <2> SUFFICES ASSUME NEW k \in best
               PROVE  \/ c[r.from] < c[k.from]
                      \/ c[r.from] = c[k.from] /\ (r.from # k.from \/ r.rank <= k.rank)
    OBVIOUS
  <2>1. c[r.from] \in Nat /\ c[k.from] \in Nat
    BY <1>2, <1>6
  <2> QED BY <1>5, <2>1
<1>8. ASSUME NEW l \in best, Q(l)
      PROVE  l = r
  <2>1. c[l.from] \in Nat /\ c[r.from] \in Nat /\ l.rank \in Nat /\ r.rank \in Nat
    BY <1>2, <1>6
  <2>2. /\ c[r.from] <= c[l.from]
        /\ c[l.from] < c[r.from]
           \/ (c[l.from] = c[r.from] /\ (l.from # r.from \/ l.rank <= r.rank))
    BY <1>5, <1>6, <1>8
  <2>3. c[l.from] = c[r.from] /\ (l.from # r.from \/ l.rank <= r.rank)
    BY <2>1, <2>2
  <2>4. l.from = r.from
    BY <1>4, <1>6, <2>3
  <2>5. l.rank = r.rank
    BY <1>5, <2>1, <2>3, <2>4
  <2> QED BY <1>1, <1>2, <1>6, <2>4, <2>5
<1> HIDE DEF Q
<1> QED BY <1>3, <1>6, <1>7, <1>8

\* At the end the positions are reached by the links that PrevLink yields.
LEMMA EndOfSearch ==
  ASSUME SearchInv, nodesInFH = {}, NoTies(rsg, statusMap), NEW i \in Positions(rsg)
  PROVE  /\ keyOf[i] = Costs(rsg, statusMap)[i]
         /\ i \notin Stops(rsg, statusMap) => rrNodeInfo[i] = Prev(rsg, statusMap, i)
<1> DEFINE c == Costs(rsg, statusMap)
           T == Tried(rsg, statusMap, {}, keyOf, i)
           r == rrNodeInfo[i]
<1>1. \A j \in Positions(rsg) : keyOf[j] = c[j]
  BY SearchInvGivesCosts DEF LeastCosts
<1>2. rsg \in Rsgs /\ IsRsg(rsg)
  BY RsgAssumption DEF SearchInv, IInv
<1>3. ASSUME i \notin Stops(rsg, statusMap)
      PROVE  r = Prev(rsg, statusMap, i)
  <2>1. i # 1 /\ c[i] # Unreached
    BY <1>3 DEF Stops
  <2>2. FirstToReach(rsg, statusMap, {}, keyOf, i, r)
    BY <1>1, <2>1 DEF SearchInv, SoundSearch
  <2>3. \A l \in InLinks(rsg, statusMap, i) : keyOf[l.from] = c[l.from]
    BY <1>1, <1>2, InLinksAre
  <2>4. keyOf[i] = c[i]
    BY <1>1
  <2> HIDE DEF c, r
  <2>5. \A l \in Best(rsg, statusMap, c, i) : l \in T /\ keyOf[l.from] + l.cost = keyOf[i]
    BY <2>3, <2>4 DEF Best, Tried
  <2>6. r \in Best(rsg, statusMap, c, i)
    BY <2>2, <2>3, <2>4 DEF FirstToReach, Tried, Best
  <2>7. \A l \in Best(rsg, statusMap, c, i) :
          c[r.from] <= c[l.from] /\ (l.from = r.from => r.rank <= l.rank)
    <3> SUFFICES ASSUME NEW l \in Best(rsg, statusMap, c, i)
                 PROVE  c[r.from] <= c[l.from] /\ (l.from = r.from => r.rank <= l.rank)
      OBVIOUS
    <3>1. keyOf[r.from] <= keyOf[l.from] /\ (l.from = r.from => r.rank <= l.rank)
      BY <2>2, <2>5 DEF FirstToReach
    <3>2. keyOf[l.from] = c[l.from] /\ keyOf[r.from] = c[r.from]
      BY <2>3, <2>6 DEF Best
    <3> QED BY <3>1, <3>2
  <2> QED BY <1>2, <1>3, <2>6, <2>7, PrevIsFirst DEF c
<1> QED BY <1>1, <1>3

LEMMA SearchInvGivesRoute == SearchInv /\ NoTies(rsg, statusMap) => SearchGivesBestRoute
<1> SUFFICES ASSUME SearchInv, NoTies(rsg, statusMap), nodesInFH = {}
             PROVE  SearchGivesBestRoute
  BY DEF SearchGivesBestRoute
<1> DEFINE n == Len(rsg.prim)
           c == Costs(rsg, statusMap)
           Back(f, i) == IF i = 1 \/ keyOf[i] = Unreached THEN {}
                         ELSE {rrNodeInfo[i]} \cup f[rrNodeInfo[i].from]
<1>1. IsRsg(rsg)
  BY RsgAssumption DEF SearchInv, IInv
<1>2. \A i \in Positions(rsg) : \A f : Back(f, i) = BackAt(rsg, statusMap, f, i)
  <2> SUFFICES ASSUME NEW i \in Positions(rsg), NEW f
               PROVE  Back(f, i) = BackAt(rsg, statusMap, f, i)
    OBVIOUS
  <2>1. keyOf[i] = c[i]
    BY EndOfSearch
  <2>2. CASE i \in Stops(rsg, statusMap)
    BY <2>1, <2>2, BackAtIs DEF Stops
  <2>3. CASE i \notin Stops(rsg, statusMap)
    <3>1. rrNodeInfo[i] = Prev(rsg, statusMap, i)
      BY <2>3, EndOfSearch
    <3>2. i # 1 /\ keyOf[i] # Unreached
      BY <2>1, <2>3 DEF Stops
    <3> QED BY <2>3, <3>1, <3>2, BackAtIs
  <2> QED BY <2>2, <2>3
<1> DEFINE back == CHOOSE f : f = [i \in 1 .. n |-> Back(f, i)]
<1>3. back = CHOOSE f : f = [i \in Positions(rsg) |-> BackAt(rsg, statusMap, f, i)]
  <2>1. \A f : [i \in 1 .. n |-> Back(f, i)]
               = [i \in Positions(rsg) |-> BackAt(rsg, statusMap, f, i)]
    BY <1>2 DEF Positions
  <2> HIDE DEF Back
  <2> QED BY <2>1
<1>4. BestRoute(rsg, statusMap) = IF c[n] = Unreached THEN {} ELSE back[n]
  <2> HIDE DEF back
  <2> QED BY <1>3 DEF BestRoute, BackAt, Positions
<1>5. keyOf[n] = c[n]
  <2>1. n \in Positions(rsg)
    BY <1>1 DEF IsRsg, Positions
  <2> QED BY <2>1, EndOfSearch
<1>6. SearchGivesBestRoute <=>
        (nodesInFH = {} =>
          BestRoute(rsg, statusMap) = IF keyOf[n] = Unreached THEN {} ELSE back[n])
  BY DEF SearchGivesBestRoute
<1> HIDE DEF back, c
<1> QED BY <1>4, <1>5, <1>6

\* The search of rsgComputePreferredPathID, step by step on a heap, ends with the
\* route of BestRoute, wherever no two positions tie; where they do, the heap
\* decides between routes of the same cost.
THEOREM SearchGivesBestRouteCorrect ==
  SearchSpec => [](NoTies(rsg, statusMap) => SearchGivesBestRoute)
<1>1. SearchInv => (NoTies(rsg, statusMap) => SearchGivesBestRoute)
  BY SearchInvGivesRoute
<1> QED
  BY InitSearch, StepSearch, <1>1, PTL DEF SearchSpec

-----------------------------------------------------------------------------
(* The failover, and the Capsule. *)

FsDomains ==
  /\ DOMAIN preferredDownPathId = PpNodes
  /\ DOMAIN preferredUpPathId = PpNodes
  /\ DOMAIN isDownPathInRspState = PpNodes
  /\ DOMAIN isUpPathInRspState = PpNodes

FlagsAgree ==
  \A n \in PpNodes :
    /\ isDownPathInRspState[n] <=> preferredDownPathId[n] # RSG.primID
    /\ isUpPathInRspState[n] <=> preferredUpPathId[n] # RSG.primID

\* Is id that of an RSP with node n at its upstream end?
LeavesAt(n, id) == \E p \in Rsps(RSG) : p.id = id /\ p.nodes[Len(p.nodes)] = n

DetoursLeave ==
  \A n \in PpNodes : preferredDownPathId[n] # RSG.primID => LeavesAt(n, preferredDownPathId[n])

FsInv == FsDomains /\ FlagsAgree /\ DetoursLeave

\* The RSP with a path id is one of the RSG, with all that is assumed of these.
LEMMA RspOfId ==
  ASSUME NEW p \in Rsps(RSG)
  PROVE  /\ p.id \in Nat \ {0, RSG.primID}
         /\ p.nodes \in Seq(Nat)
         /\ Len(p.nodes) >= 2
         /\ p.nodes[1] \in PpNodes
         /\ p.nodes[Len(p.nodes)] \in PpNodes
         /\ IsPath(p.nodes)
         /\ (CHOOSE q \in Rsps(RSG) : q.id = p.id) = p
<1>1. PICK i \in 1 .. Len(RSG.rsps) : p = RSG.rsps[i]
  BY DEF Rsps
<1>2. /\ p.id \in Nat \ {0, RSG.primID}
      /\ \A j \in 1 .. Len(RSG.rsps) : RSG.rsps[j].id = p.id => j = i
      /\ p.nodes \in Seq(Nat)
      /\ Len(p.nodes) >= 2
      /\ {p.nodes[1], p.nodes[Len(p.nodes)]} \subseteq PpNodes
      /\ IsPath(p.nodes)
  BY <1>1, FailoverAssumption
<1>3. \A q \in Rsps(RSG) : q.id = p.id => q = p
  <2> SUFFICES ASSUME NEW q \in Rsps(RSG), q.id = p.id PROVE q = p
    OBVIOUS
  <2>1. PICK j \in 1 .. Len(RSG.rsps) : q = RSG.rsps[j]
    BY DEF Rsps
  <2> QED
    BY <1>1, <1>2, <2>1
<1> QED
  BY <1>2, <1>3

\* A node of the PP is at its index.
LEMMA AtIndex ==
  ASSUME NEW n \in PpNodes
  PROVE  PpIndex(RSG, n) \in 1 .. Len(RSG.prim) /\ RSG.prim[PpIndex(RSG, n)] = n
<1>1. \E i \in 1 .. Len(RSG.prim) : RSG.prim[i] = n
  BY DEF PpNodes, PathNodes
<1> QED
  BY <1>1 DEF PpIndex

\* The entry of an RSP at its upstream end leads to a node.
LEMMA RspHasEntry ==
  ASSUME NEW p \in Rsps(RSG)
  PROVE  lookupForwardingEntry(p.nodes[Len(p.nodes)], p.id) # NoPath
<1> DEFINE n == p.nodes[Len(p.nodes)]
           at == {i \in 1 .. Len(p.nodes) : p.nodes[i] = n /\ i + -1 \in 1 .. Len(p.nodes)}
<1>1. p.id # RSG.primID /\ p.nodes \in Seq(Nat) /\ Len(p.nodes) >= 2
      /\ (CHOOSE q \in Rsps(RSG) : q.id = p.id) = p
  BY RspOfId
<1>2. Len(p.nodes) \in at
  BY <1>1
<1>3. lookupForwardingEntry(n, p.id) = p.nodes[(CHOOSE i \in at : TRUE) + -1]
  BY <1>1, <1>2 DEF lookupForwardingEntry
<1>4. (CHOOSE i \in at : TRUE) + -1 \in 1 .. Len(p.nodes)
  BY <1>2
<1>5. \A i \in 1 .. Len(p.nodes) : p.nodes[i] \in Nat
  BY <1>1
<1>6. p.nodes[(CHOOSE i \in at : TRUE) + -1] \in Nat
  BY <1>4, <1>5
<1>7. lookupForwardingEntry(n, p.id) # -1
  <2> HIDE DEF at, n
  <2> QED
    BY <1>3, <1>6
<1> QED
  BY <1>7 DEF NoPath

\* A path the search yields for the way down from n is the PP or one of the RSPs
\* that lead on from n.
LEMMA SearchYieldsEntry ==
  ASSUME NEW n \in PpNodes, NEW m
  PROVE  LET id == rsgComputePreferredPathID(RSG, m, n).downLinkID
         IN id \in {NoPath, RSG.primID} \/ LeavesAt(n, id)
<1> DEFINE out == {l \in RSG.links : l.from = PpIndex(RSG, n) /\ l \in BestRoute(RSG, m)}
           id == rsgComputePreferredPathID(RSG, m, n).downLinkID
<1>1. id = IF out = {} THEN NoPath ELSE (CHOOSE l \in out : TRUE).pathID
  BY DEF rsgComputePreferredPathID
<1>2. CASE out = {}
  BY <1>1, <1>2
<1>3. CASE out # {}
  <2>1. PICK l \in out : id = l.pathID
    BY <1>1, <1>3
  <2>2. l \in {PpLink(RSG, i) : i \in 1 .. Len(RSG.prim) - 1}
             \cup {RspLink(RSG, i) : i \in 1 .. Len(RSG.rsps)}
    BY <2>1, FailoverAssumption DEF genLltcRrSubgraph
  <2>3. CASE l \in {PpLink(RSG, i) : i \in 1 .. Len(RSG.prim) - 1}
    BY <2>1, <2>3 DEF PpLink
  <2>4. ASSUME NEW i \in 1 .. Len(RSG.rsps), l = RspLink(RSG, i)
        PROVE  LeavesAt(n, id)
    <3> DEFINE p == RSG.rsps[i]
    <3>1. p \in Rsps(RSG)
      BY DEF Rsps
    <3>2. l.from = PpIndex(RSG, p.nodes[Len(p.nodes)]) /\ l.pathID = p.id
      BY <2>4 DEF RspLink
    <3>3. PpIndex(RSG, n) = PpIndex(RSG, p.nodes[Len(p.nodes)])
      BY <2>1, <3>2
    <3>4. p.nodes[Len(p.nodes)] \in PpNodes
      BY <3>1, RspOfId
    <3>5. n = p.nodes[Len(p.nodes)]
      BY <3>3, <3>4, AtIndex
    <3> QED
      BY <2>1, <3>1, <3>2, <3>5 DEF LeavesAt
  <2> QED
    BY <2>2, <2>3, <2>4, <2>1
<1> QED
  BY <1>2, <1>3

\* At the start all routers prefer the PP.
LEMMA InitFs == Init => FsInv
  BY DEF Init, FsInv, FsDomains, FlagsAgree, DetoursLeave

\* What leaves the forwarding states alone keeps the invariant.
LEMMA FsUnchanged ==
  ASSUME FsInv, UNCHANGED fsVars
  PROVE  FsInv'
<1>1. /\ preferredDownPathId' = preferredDownPathId
      /\ preferredUpPathId' = preferredUpPathId
      /\ isDownPathInRspState' = isDownPathInRspState
      /\ isUpPathInRspState' = isUpPathInRspState
  BY DEF fsVars
<1>2. FsDomains'
  BY <1>1 DEF FsInv, FsDomains
<1>3. FlagsAgree' /\ DetoursLeave'
  BY <1>1, Zenon DEF FsInv, FlagsAgree, DetoursLeave, LeavesAt
<1> QED
  BY <1>2, <1>3 DEF FsInv

\* A router that records statuses keeps its flags and paths in step.
LEMMA UpdateKeepsFs ==
  ASSUME FsInv, NEW n, NEW lsa, updatePreferredPathWithLSA(n, lsa)
  PROVE  FsInv'
<1>1. CASE n \notin PpNodes
  <2>1. UNCHANGED fsVars
    BY <1>1 DEF updatePreferredPathWithLSA
  <2> QED
    BY <2>1, FsUnchanged
<1>2. CASE n \in PpNodes
  <2> DEFINE m  == rsgUpdateLinkStatus(RSG, linkStatusMap[n], lsa)
             pl == rsgComputePreferredPathID(RSG, m, n)
             down == pl.downLinkID
             up == pl.upLinkID
  <2>1. /\ preferredDownPathId' = [preferredDownPathId EXCEPT ![n] = switched(@, down)]
        /\ isDownPathInRspState' =
             [isDownPathInRspState EXCEPT ![n] = flagged(@, preferredDownPathId[n], down)]
        /\ preferredUpPathId' = [preferredUpPathId EXCEPT ![n] = switched(@, up)]
        /\ isUpPathInRspState' =
             [isUpPathInRspState EXCEPT ![n] = flagged(@, preferredUpPathId[n], up)]
    BY <1>2 DEF updatePreferredPathWithLSA
  <2>2. down \in {NoPath, RSG.primID} \/ LeavesAt(n, down)
    BY <1>2, SearchYieldsEntry
  <2> HIDE DEF m, pl, down, up
  <2>3. FsDomains'
    BY <2>1 DEF FsInv, FsDomains
  <2>4. ASSUME NEW k \in PpNodes, k # n
        PROVE  /\ isDownPathInRspState'[k] <=> preferredDownPathId'[k] # RSG.primID
               /\ isUpPathInRspState'[k] <=> preferredUpPathId'[k] # RSG.primID
               /\ preferredDownPathId'[k] # RSG.primID => LeavesAt(k, preferredDownPathId'[k])
    BY <2>1, <2>4 DEF FsInv, FsDomains, FlagsAgree, DetoursLeave
  <2>5. /\ preferredDownPathId'[n] = switched(preferredDownPathId[n], down)
        /\ isDownPathInRspState'[n] = flagged(isDownPathInRspState[n], preferredDownPathId[n], down)
        /\ preferredUpPathId'[n] = switched(preferredUpPathId[n], up)
        /\ isUpPathInRspState'[n] = flagged(isUpPathInRspState[n], preferredUpPathId[n], up)
    BY <1>2, <2>1 DEF FsInv, FsDomains
  <2>6. /\ isDownPathInRspState'[n] <=> preferredDownPathId'[n] # RSG.primID
        /\ isUpPathInRspState'[n] <=> preferredUpPathId'[n] # RSG.primID
    BY <1>2, <2>5 DEF FsInv, FlagsAgree, switched, flagged
  <2>7. preferredDownPathId'[n] # RSG.primID => LeavesAt(n, preferredDownPathId'[n])
    BY <1>2, <2>2, <2>5 DEF FsInv, DetoursLeave, switched
  <2>8. FlagsAgree'
    BY <2>4, <2>6 DEF FlagsAgree
  <2>9. DetoursLeave'
    <3>1. \A k \in PpNodes : preferredDownPathId'[k] # RSG.primID => LeavesAt(k, preferredDownPathId'[k])
      BY <2>4, <2>7
    <3> QED
      BY <3>1 DEF DetoursLeave, LeavesAt
  <2> QED
    BY <2>3, <2>8, <2>9 DEF FsInv
<1> QED
  BY <1>1, <1>2

LEMMA NextKeepsFs == FsInv /\ [Next]_controlVars => FsInv'
<1> SUFFICES ASSUME FsInv, [Next]_controlVars PROVE FsInv'
  OBVIOUS
<1>1. CASE UNCHANGED controlVars
  BY <1>1, FsUnchanged DEF controlVars
<1>2. ASSUME NEW l \in Links, LinkChanges(l) PROVE FsInv'
  BY <1>2, FsUnchanged DEF LinkChanges
<1>3. ASSUME NEW o \in Nodes, NEW F \in SUBSET outdated(o), linkTestConcludes(o, F) PROVE FsInv'
  <2>1. updatePreferredPathWithLSA(o, status'[o])
    BY <1>3 DEF linkTestConcludes
  <2> QED
    BY <2>1, UpdateKeepsFs
<1>4. ASSUME NEW n \in PpNodes, NEW o \in Nodes, onReceiveLsa(n, o) PROVE FsInv'
  <2>1. updatePreferredPathWithLSA(n, Head(inbox[n][o]))
    BY <1>4 DEF onReceiveLsa
  <2> QED
    BY <2>1, UpdateKeepsFs
<1> QED
  BY <1>1, <1>2, <1>3, <1>4 DEF Next

\* A router that prefers an RSP has an entry for it.
LEMMA FsInvGivesEntries == FsInv => DetourHasEntry
<1> SUFFICES ASSUME FsInv PROVE DetourHasEntry
  OBVIOUS
<1>1. ASSUME NEW n \in PpNodes, isDownPathInRspState[n]
      PROVE  lookupForwardingEntry(n, preferredDownPathId[n]) # NoPath
  <2>1. LeavesAt(n, preferredDownPathId[n])
    BY <1>1 DEF FsInv, FlagsAgree, DetoursLeave
  <2>2. PICK p \in Rsps(RSG) : p.id = preferredDownPathId[n] /\ p.nodes[Len(p.nodes)] = n
    BY <2>1 DEF LeavesAt
  <2>3. lookupForwardingEntry(p.nodes[Len(p.nodes)], p.id) # NoPath
    BY RspHasEntry
  <2> QED
    BY <2>2, <2>3
<1> QED
  BY <1>1 DEF FsInv, FlagsAgree, DetourHasEntry

\* Whatever LSAs arrive in whatever order, on every RSG: a router that is in the
\* state of detouring has an entry for the path it prefers, and one that is not
\* prefers the PP.
THEOREM DetourHasEntryCorrect == Spec => []DetourHasEntry
  BY InitFs, NextKeepsFs, FsInvGivesEntries, PTL DEF Spec

-----------------------------------------------------------------------------
(* The maps. *)

Lsas(o) == [LinksOf(o) -> LinkStatus]

MapTypes ==
  /\ DOMAIN status = Nodes
  /\ \A o \in Nodes : status[o] \in Lsas(o)
  /\ DOMAIN inbox = PpNodes
  /\ \A n \in PpNodes : DOMAIN inbox[n] = Nodes
  /\ \A n \in PpNodes, o \in Nodes : inbox[n][o] \in Seq(Lsas(o))
  /\ DOMAIN linkStatusMap = PpNodes
  /\ \A n \in PpNodes : DOMAIN linkStatusMap[n] = Keys(RSG)

LastIsNow ==
  \A n \in PpNodes, o \in Nodes :
    inbox[n][o] # <<>> => inbox[n][o][Len(inbox[n][o])] = status[o]

\* The entry of l at n is that of its end o, or n has still to get an LSA of o.
Follows(n, l, o) == inbox[n][o] # <<>> \/ linkStatusMap[n][l] = status[o][l]

MapInv ==
  /\ MapTypes
  /\ LastIsNow
  /\ \A n \in PpNodes, l \in Links : \E o \in Nodes : l \in LinksOf(o) /\ Follows(n, l, o)

\* A link has an end.
LEMMA LinkHasEnd ==
  ASSUME NEW l \in Links
  PROVE  \E o \in Nodes : l \in LinksOf(o)
<1>1. ASSUME NEW nodes, Len(nodes) \in Nat, PathNodes(nodes) \subseteq Nodes, l \in PathLinks(nodes)
      PROVE  \E o \in Nodes : l \in LinksOf(o)
  <2>1. PICK i \in 1 .. Len(nodes) - 1 : l = rsgGetLinkID(nodes[i], nodes[i + 1])
    BY <1>1 DEF PathLinks
  <2>2. nodes[i] \in Nodes
    <3>1. i \in 1 .. Len(nodes)
      BY <1>1, <2>1
    <3> QED
      BY <1>1, <3>1 DEF PathNodes
  <2>3. nodes[i] \in {l[1], l[2]}
    BY <2>1 DEF rsgGetLinkID
  <2> QED
    BY <2>2, <2>3 DEF LinksOf
<1>2. CASE l \in PpLinks(RSG)
  <2>1. Len(RSG.prim) \in Nat /\ PathNodes(RSG.prim) \subseteq Nodes
    BY FailoverAssumption DEF Nodes, PpNodes
  <2> QED
    BY <1>1, <1>2, <2>1 DEF PpLinks
<1>3. CASE l \in RspLinks(RSG)
  <2>1. PICK p \in Rsps(RSG) : l \in PathLinks(p.nodes)
    BY <1>3 DEF RspLinks
  <2>2. Len(p.nodes) \in Nat
    BY RspOfId
  <2>3. PathNodes(p.nodes) \subseteq Nodes
    BY DEF Nodes
  <2> QED
    BY <1>1, <2>1, <2>2, <2>3
<1> QED
  BY <1>2, <1>3 DEF Links

\* Recording statuses sets the entries of their links and of no others.
LEMMA UpdateOfLinks ==
  ASSUME NEW m, NEW sts, DOMAIN m = Keys(RSG)
  PROVE  LET r == rsgUpdateLinkStatus(RSG, m, sts)
         IN /\ DOMAIN r = Keys(RSG)
            /\ \A l \in Links : r[l] = IF l \in DOMAIN sts THEN sts[l] ELSE m[l]
<1> DEFINE links == [k \in DOMAIN m |-> IF k \in DOMAIN sts THEN sts[k] ELSE m[k]]
           failed(p) == \E l \in PathLinks(p.nodes) : links[l] = "FAILURE"
           rspsOf(k) == {p \in Rsps(RSG) : k = <<p.id>> /\ PathLinks(p.nodes) \cap DOMAIN sts # {}}
           r == rsgUpdateLinkStatus(RSG, m, sts)
<1>1. r = [k \in DOMAIN m |-> IF rspsOf(k) = {} THEN links[k]
                              ELSE IF \E p \in rspsOf(k) : failed(p) THEN "FAILURE" ELSE "NORMAL"]
  BY DEF rsgUpdateLinkStatus
<1>2. ASSUME NEW l \in Links
      PROVE  l \in Keys(RSG) /\ rspsOf(l) = {}
  <2>1. l \in Keys(RSG)
    BY DEF Links, Keys
  <2>2. \E nodes : l \in PathLinks(nodes)
    BY DEF Links, PpLinks, RspLinks
  <2>3. ASSUME NEW nodes, l \in PathLinks(nodes)
        PROVE  Len(l) = 2
    <3>1. PICK i \in 1 .. Len(nodes) - 1 : l = rsgGetLinkID(nodes[i], nodes[i + 1])
      BY <2>3 DEF PathLinks
    <3> QED
      BY <3>1 DEF rsgGetLinkID
  <2>4. Len(l) = 2
    BY <2>2, <2>3
  <2>5. \A p : Len(<<p.id>>) = 1
    OBVIOUS
  <2>6. \A p : l # <<p.id>>
    BY <2>4, <2>5
  <2> QED
    BY <2>1, <2>6
<1>3. ASSUME NEW l \in Links
      PROVE  r[l] = IF l \in DOMAIN sts THEN sts[l] ELSE m[l]
  <2>1. r[l] = links[l]
    <3> HIDE DEF links, r, rspsOf, failed
    <3> QED
      BY <1>1, <1>2
  <2> QED
    BY <1>2, <2>1
<1> QED
  BY <1>1, <1>3

\* What a step that applies LSA lsa of o at n makes of the entries.
Writes(n, o, lsa) ==
  /\ DOMAIN linkStatusMap' = PpNodes
  /\ \A k \in PpNodes : DOMAIN linkStatusMap'[k] = Keys(RSG)
  /\ \A k \in PpNodes, l \in Links :
       linkStatusMap'[k][l] = IF k = n /\ l \in LinksOf(o) THEN lsa[l] ELSE linkStatusMap[k][l]

LEMMA UpdateOfMaps ==
  ASSUME MapTypes, NEW n, NEW o \in Nodes, NEW lsa \in Lsas(o), updatePreferredPathWithLSA(n, lsa)
  PROVE  Writes(n, o, lsa)
<1> USE DEF Writes
<1>1. CASE n \notin PpNodes
  BY <1>1 DEF updatePreferredPathWithLSA, fsVars, MapTypes
<1>2. CASE n \in PpNodes
  <2> DEFINE r == rsgUpdateLinkStatus(RSG, linkStatusMap[n], lsa)
  <2>1. linkStatusMap' = [linkStatusMap EXCEPT ![n] = r]
    BY <1>2 DEF updatePreferredPathWithLSA
  <2>2. DOMAIN linkStatusMap = PpNodes /\ DOMAIN linkStatusMap[n] = Keys(RSG) /\ DOMAIN lsa = LinksOf(o)
    BY <1>2 DEF MapTypes, Lsas
  <2>3. /\ DOMAIN r = Keys(RSG)
        /\ \A l \in Links : r[l] = IF l \in DOMAIN lsa THEN lsa[l] ELSE linkStatusMap[n][l]
    BY <2>2, UpdateOfLinks
  <2> HIDE DEF r
  <2> QED
    BY <1>2, <2>1, <2>2, <2>3 DEF MapTypes
<1> QED
  BY <1>1, <1>2

LEMMA InitMaps == Init => MapInv
<1> SUFFICES ASSUME Init PROVE MapInv
  OBVIOUS
<1>1. MapTypes
  BY DEF Init, MapTypes, Lsas, LinkStatus, AllNormal
<1>2. LastIsNow
  BY DEF Init, LastIsNow
<1>3. ASSUME NEW n \in PpNodes, NEW l \in Links
      PROVE  \E o \in Nodes : l \in LinksOf(o) /\ Follows(n, l, o)
  <2>1. PICK o \in Nodes : l \in LinksOf(o)
    BY LinkHasEnd
  <2>2. linkStatusMap[n][l] = "NORMAL"
    BY DEF Init, AllNormal, Keys, Links
  <2>3. status[o][l] = "NORMAL"
    BY <2>1 DEF Init
  <2> QED
    BY <2>1, <2>2, <2>3 DEF Follows
<1> QED
  BY <1>1, <1>2, <1>3 DEF MapInv

\* A test at o puts its new statuses at the end of every inbox.
LEMMA TestKeepsMaps ==
  ASSUME MapInv, NEW o \in Nodes, NEW F \in SUBSET outdated(o), linkTestConcludes(o, F)
  PROVE  MapInv'
<1> DEFINE new == [l \in LinksOf(o) |-> IF l \in F THEN IF linkUp[l] THEN "NORMAL" ELSE "FAILURE"
                                       ELSE status[o][l]]
<1>1. /\ MapTypes
      /\ status' = [status EXCEPT ![o] = new]
      /\ inbox' = [n \in PpNodes |-> [inbox[n] EXCEPT ![o] = Append(@, status'[o])]]
      /\ updatePreferredPathWithLSA(o, status'[o])
  BY DEF MapInv, linkTestConcludes, findsOut, flood
<1>2. new \in Lsas(o)
  BY <1>1 DEF MapTypes, Lsas, LinkStatus
<1> HIDE DEF new
<1>3. /\ DOMAIN status' = Nodes
      /\ status'[o] = new
      /\ \A k \in Nodes : k # o => status'[k] = status[k]
  BY <1>1 DEF MapTypes
<1>4. /\ DOMAIN inbox' = PpNodes
      /\ \A n \in PpNodes : DOMAIN inbox'[n] = Nodes
      /\ \A n \in PpNodes : inbox'[n][o] = Append(inbox[n][o], new)
      /\ \A n \in PpNodes, k \in Nodes : k # o => inbox'[n][k] = inbox[n][k]
  BY <1>1, <1>3 DEF MapTypes
<1>5. /\ DOMAIN linkStatusMap' = PpNodes
      /\ \A k \in PpNodes : DOMAIN linkStatusMap'[k] = Keys(RSG)
      /\ \A k \in PpNodes, l \in Links :
           linkStatusMap'[k][l] = IF k = o /\ l \in LinksOf(o) THEN new[l] ELSE linkStatusMap[k][l]
  <2>1. updatePreferredPathWithLSA(o, new)
    BY <1>1, <1>3
  <2>2. MapTypes
    BY <1>1
  <2>3. Writes(o, o, new)
    BY <1>2, <2>1, <2>2, UpdateOfMaps
  <2> QED
    BY <2>3 DEF Writes
<1>6. \A n \in PpNodes : /\ inbox'[n][o] \in Seq(Lsas(o))
                         /\ inbox'[n][o] # <<>>
                         /\ inbox'[n][o][Len(inbox'[n][o])] = new
  <2> SUFFICES ASSUME NEW n \in PpNodes
               PROVE  /\ inbox'[n][o] \in Seq(Lsas(o))
                      /\ inbox'[n][o] # <<>>
                      /\ inbox'[n][o][Len(inbox'[n][o])] = new
    OBVIOUS
  <2>1. inbox[n][o] \in Seq(Lsas(o)) /\ inbox'[n][o] = Append(inbox[n][o], new)
    BY <1>1, <1>4 DEF MapTypes
  <2> QED
    BY <1>2, <2>1
<1>7. MapTypes'
  <2>1. \A k \in Nodes : status'[k] \in Lsas(k)
    BY <1>1, <1>2, <1>3 DEF MapTypes
  <2>2. \A n \in PpNodes, k \in Nodes : inbox'[n][k] \in Seq(Lsas(k))
    BY <1>1, <1>4, <1>6 DEF MapTypes
  <2> QED
    BY <1>3, <1>4, <1>5, <2>1, <2>2 DEF MapTypes
<1>8. LastIsNow'
  <2>1. ASSUME NEW n \in PpNodes, NEW k \in Nodes, inbox'[n][k] # <<>>
        PROVE  inbox'[n][k][Len(inbox'[n][k])] = status'[k]
    BY <1>3, <1>4, <1>6, <2>1 DEF MapInv, LastIsNow
  <2> QED
    BY <2>1 DEF LastIsNow
<1>9. ASSUME NEW n \in PpNodes, NEW l \in Links
      PROVE  \E k \in Nodes : l \in LinksOf(k) /\ Follows(n, l, k)'
  <2>1. CASE l \in LinksOf(o)
    BY <1>6, <2>1 DEF Follows
  <2>2. CASE l \notin LinksOf(o)
    <3>1. PICK k \in Nodes : l \in LinksOf(k) /\ Follows(n, l, k)
      BY DEF MapInv
    <3>2. k # o
      BY <2>2, <3>1
    <3>3. inbox'[n][k] = inbox[n][k] /\ status'[k] = status[k] /\ linkStatusMap'[n][l] = linkStatusMap[n][l]
      BY <1>3, <1>4, <1>5, <2>2, <3>2
    <3>4. Follows(n, l, k)'
      BY <3>1, <3>3 DEF Follows
    <3> QED
      BY <3>1, <3>4
  <2> QED
    BY <2>1, <2>2
<1> QED
  BY <1>7, <1>8, <1>9 DEF MapInv

\* An LSA of o that arrives at n: the last one has the present statuses of o.
LEMMA LsaKeepsMaps ==
  ASSUME MapInv, NEW n \in PpNodes, NEW o \in Nodes, onReceiveLsa(n, o)
  PROVE  MapInv'
<1> DEFINE q == inbox[n][o]
<1>1. /\ MapTypes
      /\ status' = status
      /\ q # <<>>
      /\ inbox' = [inbox EXCEPT ![n][o] = Tail(@)]
      /\ updatePreferredPathWithLSA(n, Head(q))
  BY DEF MapInv, onReceiveLsa, arrives
<1>2. q \in Seq(Lsas(o))
  BY <1>1 DEF MapTypes
<1>3. /\ DOMAIN inbox' = PpNodes
      /\ \A m \in PpNodes : DOMAIN inbox'[m] = Nodes
      /\ inbox'[n][o] = Tail(q)
      /\ \A m \in PpNodes, k \in Nodes : m # n \/ k # o => inbox'[m][k] = inbox[m][k]
  <2>1. /\ DOMAIN inbox = PpNodes
        /\ \A m \in PpNodes : DOMAIN inbox[m] = Nodes
    BY <1>1 DEF MapTypes
  <2>5. inbox' = [inbox EXCEPT ![n] = [inbox[n] EXCEPT ![o] = Tail(inbox[n][o])]]
    BY DEF onReceiveLsa, arrives
  <2>2. inbox'[n] = [inbox[n] EXCEPT ![o] = Tail(inbox[n][o])] /\ DOMAIN inbox' = PpNodes
    BY <2>1, <2>5
  <2>3. \A m \in PpNodes : m # n => inbox'[m] = inbox[m]
    BY <2>1, <2>5
  <2>4. /\ DOMAIN inbox'[n] = Nodes
        /\ inbox'[n][o] = Tail(q)
        /\ \A k \in Nodes : k # o => inbox'[n][k] = inbox[n][k]
    BY <2>1, <2>2
  <2> HIDE DEF q
  <2> QED
    BY <2>1, <2>2, <2>3, <2>4
<1>10. q[Len(q)] = status[o]
  BY <1>1 DEF MapInv, LastIsNow
<1> HIDE DEF q
<1>4. Head(q) \in Lsas(o) /\ Tail(q) \in Seq(Lsas(o))
  BY <1>1, <1>2
<1>5. /\ DOMAIN linkStatusMap' = PpNodes
      /\ \A k \in PpNodes : DOMAIN linkStatusMap'[k] = Keys(RSG)
      /\ \A k \in PpNodes, l \in Links :
           linkStatusMap'[k][l] = IF k = n /\ l \in LinksOf(o) THEN Head(q)[l] ELSE linkStatusMap[k][l]
  <2>1. updatePreferredPathWithLSA(n, Head(q)) /\ MapTypes /\ Head(q) \in Lsas(o)
    BY <1>1, <1>4, Zenon
  <2>2. Writes(n, o, Head(q))
    BY <2>1, UpdateOfMaps, Zenon
  <2> QED
    BY <2>2 DEF Writes
<1>6. MapTypes'
  <2>1. \A m \in PpNodes, k \in Nodes : inbox'[m][k] \in Seq(Lsas(k))
    BY <1>1, <1>3, <1>4 DEF MapTypes
  <2> QED
    BY <1>1, <1>3, <1>5, <2>1 DEF MapTypes
<1>7. Tail(q) # <<>> => Tail(q)[Len(Tail(q))] = q[Len(q)]
  BY <1>1, <1>2
<1>8. Tail(q) = <<>> => Head(q) = q[Len(q)]
  <2>1. Len(Tail(q)) = Len(q) - 1 /\ Len(q) \in Nat
    BY <1>1, <1>2
  <2>2. Len(<<>>) = 0
    OBVIOUS
  <2> DEFINE t == Tail(q)
            k == Len(q)
  <2>5. Len(t) = k - 1 /\ k \in Nat
    BY <2>1
  <2>6. t = <<>> => Len(t) = 0
    BY <2>2
  <2> HIDE DEF t, k
  <2>7. t = <<>> => k = 1
    BY <2>5, <2>6
  <2>3. Tail(q) = <<>> => Len(q) = 1
    BY <2>7 DEF t, k
  <2>4. Head(q) = q[1]
    BY <1>1, <1>2
  <2> QED
    BY <2>3, <2>4
<1>9. LastIsNow'
  <2>1. ASSUME NEW m \in PpNodes, NEW k \in Nodes, inbox'[m][k] # <<>>
        PROVE  inbox'[m][k][Len(inbox'[m][k])] = status'[k]
    <3>1. CASE m = n /\ k = o
      BY <1>1, <1>3, <1>7, <1>10, <2>1, <3>1
    <3>2. CASE m # n \/ k # o
      <4>1. inbox'[m][k] = inbox[m][k]
        BY <1>3, <3>2
      <4>2. inbox[m][k] # <<>> => inbox[m][k][Len(inbox[m][k])] = status[k]
        BY DEF MapInv, LastIsNow
      <4> QED
        BY <1>1, <2>1, <4>1, <4>2
    <3> QED
      BY <3>1, <3>2
  <2> QED
    BY <2>1 DEF LastIsNow
<1>11. ASSUME NEW m \in PpNodes, NEW l \in Links
       PROVE  \E k \in Nodes : l \in LinksOf(k) /\ Follows(m, l, k)'
  <2>1. CASE m = n /\ l \in LinksOf(o)
    <3>1. linkStatusMap'[m][l] = Head(q)[l]
      BY <1>5, <2>1
    <3>2. inbox'[m][o] # <<>> \/ linkStatusMap'[m][l] = status'[o][l]
      BY <1>1, <1>3, <1>8, <1>10, <2>1, <3>1
    <3> QED
      BY <2>1, <3>2 DEF Follows
  <2>2. CASE ~(m = n /\ l \in LinksOf(o))
    <3>1. PICK k \in Nodes : l \in LinksOf(k) /\ Follows(m, l, k)
      BY DEF MapInv
    <3>2. linkStatusMap'[m][l] = linkStatusMap[m][l]
      BY <1>5, <2>2
    <3>3. m # n \/ k # o
      BY <2>2, <3>1
    <3>4. inbox'[m][k] = inbox[m][k]
      BY <1>3, <3>3
    <3>5. Follows(m, l, k)'
      BY <1>1, <3>1, <3>2, <3>4 DEF Follows
    <3> QED
      BY <3>1, <3>5
  <2> QED
    BY <2>1, <2>2
<1> QED
  BY <1>6, <1>9, <1>11 DEF MapInv

LEMMA NextKeepsMaps == MapInv /\ [Next]_controlVars => MapInv'
<1> SUFFICES ASSUME MapInv, [Next]_controlVars PROVE MapInv'
  OBVIOUS
<1>1. ASSUME UNCHANGED <<status, inbox, linkStatusMap>> PROVE MapInv'
  BY <1>1 DEF MapInv, MapTypes, LastIsNow, Follows
<1>2. CASE UNCHANGED controlVars
  BY <1>1, <1>2 DEF controlVars, fsVars
<1>3. ASSUME NEW l \in Links, LinkChanges(l) PROVE MapInv'
  BY <1>1, <1>3 DEF LinkChanges, fsVars
<1>4. ASSUME NEW o \in Nodes, NEW F \in SUBSET outdated(o), linkTestConcludes(o, F) PROVE MapInv'
  BY <1>4, TestKeepsMaps
<1>5. ASSUME NEW n \in PpNodes, NEW o \in Nodes, onReceiveLsa(n, o) PROVE MapInv'
  BY <1>5, LsaKeepsMaps
<1> QED
  BY <1>2, <1>3, <1>4, <1>5 DEF Next

\* An entry of a map is true if nothing is under way.
LEMMA MapInvGivesTruth == MapInv => MapsAreTrue
<1> SUFFICES ASSUME MapInv, Settled, NEW n \in PpNodes, NEW l \in Links
             PROVE  linkStatusMap[n][l] = "NORMAL" <=> linkUp[l]
  BY DEF MapsAreTrue
<1>1. PICK o \in Nodes : l \in LinksOf(o) /\ Follows(n, l, o)
  BY DEF MapInv
<1>2. inbox[n][o] = <<>> /\ (status[o][l] = "NORMAL" <=> linkUp[l])
  BY <1>1 DEF Settled
<1> QED
  BY <1>1, <1>2 DEF Follows

\* On every RSG, once the routers at both ends of every link know its state and
\* all LSAs have arrived, every router on the PP has the true status of every
\* link, in whatever order the LSAs of the two ends wrote its entry.
THEOREM MapsAreTrueCorrect == Spec => []MapsAreTrue
  BY MapInvGivesTruth, InitMaps, NextKeepsMaps, PTL DEF Spec

-----------------------------------------------------------------------------
(* The RSG of the flow, and the way back to the PP. *)

PpLast == Len(RSG.prim)

\* Every virtual link is one of the PP or of an RSP.
LEMMA LinkIs ==
  ASSUME NEW l \in RSG.links
  PROVE  \/ \E i \in 1 .. PpLast - 1 : l = PpLink(RSG, i)
         \/ \E i \in 1 .. Len(RSG.rsps) : l = RspLink(RSG, i)
<1>1. l \in {PpLink(RSG, i) : i \in 1 .. Len(RSG.prim) - 1}
           \cup {RspLink(RSG, i) : i \in 1 .. Len(RSG.rsps)}
  BY FailoverAssumption DEF genLltcRrSubgraph
<1> QED BY <1>1 DEF PpLast

\* The virtual link of an RSP.
LEMMA RspLinkIs ==
  ASSUME NEW i \in 1 .. Len(RSG.rsps)
  PROVE  /\ RSG.rsps[i] \in Rsps(RSG)
         /\ RspLink(RSG, i).from = PpIndex(RSG, RSG.rsps[i].nodes[Len(RSG.rsps[i].nodes)])
         /\ RspLink(RSG, i).to = PpIndex(RSG, RSG.rsps[i].nodes[1])
         /\ RspLink(RSG, i).from \in 1 .. PpLast
         /\ RspLink(RSG, i).to \in 1 .. PpLast
         /\ RspLink(RSG, i).from < RspLink(RSG, i).to
         /\ RspLink(RSG, i).isOnPrimPath = FALSE
         /\ RspLink(RSG, i).linkID = <<0>>
         /\ RspLink(RSG, i).pathID = RSG.rsps[i].id
         /\ RspLink(RSG, i).cost \in Nat
         /\ RspLink(RSG, i).rank = i
<1> DEFINE p == RSG.rsps[i]
           l == RspLink(RSG, i)
<1>1. p \in Rsps(RSG)
  BY DEF Rsps
<1>2. p.nodes[1] \in PpNodes /\ p.nodes[Len(p.nodes)] \in PpNodes
  BY <1>1, RspOfId
<1>3. PpIndex(RSG, p.nodes[Len(p.nodes)]) < PpIndex(RSG, p.nodes[1]) /\ p.cost \in Nat
  BY FailoverAssumption
<1>4. PpIndex(RSG, p.nodes[Len(p.nodes)]) \in 1 .. PpLast /\ PpIndex(RSG, p.nodes[1]) \in 1 .. PpLast
  BY <1>2, AtIndex DEF PpLast
<1>5. /\ l.from = PpIndex(RSG, p.nodes[Len(p.nodes)])
      /\ l.to = PpIndex(RSG, p.nodes[1])
      /\ l.isOnPrimPath = FALSE
      /\ l.linkID = <<0>>
      /\ l.pathID = p.id
      /\ l.cost = p.cost
      /\ l.rank = i
  BY DEF RspLink
<1> HIDE DEF l, p
<1>6. /\ l.from \in 1 .. PpLast
      /\ l.to \in 1 .. PpLast
      /\ l.from < l.to
      /\ l.cost \in Nat
  BY <1>3, <1>4, <1>5
<1> QED
  BY <1>1, <1>5, <1>6 DEF l, p

\* The virtual link of the PP at position i.
LEMMA PpLinkIs ==
  ASSUME NEW i \in 1 .. PpLast - 1
  PROVE  /\ PpLink(RSG, i) \in RSG.links
         /\ PpLink(RSG, i).from = i
         /\ PpLink(RSG, i).to = i + 1
         /\ PpLink(RSG, i).isOnPrimPath = TRUE
         /\ PpLink(RSG, i).linkID = rsgGetLinkID(RSG.prim[i], RSG.prim[i + 1])
         /\ PpLink(RSG, i).linkID \in PpLinks(RSG)
         /\ PpLink(RSG, i).pathID = RSG.primID
         /\ PpLink(RSG, i).cost = RSG.cost
         /\ PpLink(RSG, i).rank = 0
<1>1. PpLink(RSG, i) \in RSG.links
  BY FailoverAssumption DEF genLltcRrSubgraph, PpLast
<1>2. rsgGetLinkID(RSG.prim[i], RSG.prim[i + 1]) \in PpLinks(RSG)
  BY DEF PpLinks, PathLinks, PpLast
<1> QED
  BY <1>1, <1>2 DEF PpLink

\* The RSG of the flow is one that can be searched.
LEMMA RsgOfFlow == IsRsg(RSG)
<1>1. PpLast \in Nat \ {0} /\ RSG.cost \in Nat
  BY FailoverAssumption DEF PpLast
<1>2. ASSUME NEW l \in RSG.links
      PROVE  /\ l.from \in Positions(RSG)
             /\ l.to \in Positions(RSG)
             /\ l.from < l.to
             /\ l.cost \in Nat
             /\ l.rank \in Nat
  <2>1. CASE \E i \in 1 .. PpLast - 1 : l = PpLink(RSG, i)
    <3>1. PICK i \in 1 .. PpLast - 1 : l = PpLink(RSG, i)
      BY <2>1
    <3>2. l.from = i /\ l.to = i + 1 /\ l.cost = RSG.cost /\ l.rank = 0
      BY <3>1, PpLinkIs
    <3> QED BY <1>1, <3>2 DEF Positions, PpLast
  <2>2. CASE \E i \in 1 .. Len(RSG.rsps) : l = RspLink(RSG, i)
    <3>1. PICK i \in 1 .. Len(RSG.rsps) : l = RspLink(RSG, i)
      BY <2>2
    <3>2. i \in Nat
      BY FailoverAssumption
    <3> QED BY <3>1, <3>2, RspLinkIs DEF Positions, PpLast
  <2> QED BY <2>1, <2>2, LinkIs
<1>3. IsFiniteSet(RSG.links)
  <2> DEFINE a == PpLast - 1
             b == Len(RSG.rsps)
             f == [i \in 1 .. a |-> PpLink(RSG, i)]
             h == [i \in 1 .. b |-> RspLink(RSG, i)]
             F == {f[i] : i \in 1 .. a}
             H == {h[i] : i \in 1 .. b}
  <2>1. a \in Nat /\ b \in Nat
    BY <1>1, FailoverAssumption
  <2>2. DOMAIN f = 1 .. a /\ DOMAIN h = 1 .. b
    OBVIOUS
  <2>3. F = {PpLink(RSG, i) : i \in 1 .. Len(RSG.prim) - 1} /\ H = {RspLink(RSG, i) : i \in 1 .. Len(RSG.rsps)}
    BY DEF PpLast
  <2>4. RSG.links = F \cup H
    BY <2>3, FailoverAssumption DEF genLltcRrSubgraph
  <2>5. IsFiniteSet(F) /\ IsFiniteSet(H)
    <3> HIDE DEF f, h, a, b
    <3> QED BY <2>1, <2>2, FiniteRange
  <2> HIDE DEF F, H
  <2> QED BY <2>4, <2>5, FS_Union
<1> QED
  BY <1>1, <1>2, <1>3 DEF IsRsg, PpLast

\* Are all links of the PP recorded as normal?
PpNormal(m) == \A l \in PpLinks(RSG) : m[l] = "NORMAL"

\* While the PP is whole the search may use its links and no others.
LEMMA OnlyPpUsable ==
  ASSUME NEW m, PpNormal(m), NEW l \in RSG.links
  PROVE  Usable(RSG, m, l) <=> \E i \in 1 .. PpLast - 1 : l = PpLink(RSG, i)
<1>0. PpLast \in Nat
  BY FailoverAssumption DEF PpLast
<1>1. ASSUME NEW j \in 1 .. PpLast - 1
      PROVE  m[rsgGetLinkID(RSG.prim[j], RSG.prim[j + 1])] = "NORMAL"
  BY <1>1 DEF PpNormal, PpLinks, PathLinks, PpLast
<1>2. ASSUME NEW k \in 1 .. PpLast
      PROVE  Component(RSG, m, k) = 0
  <2>1. {j \in 1 .. k - 1 : m[rsgGetLinkID(RSG.prim[j], RSG.prim[j + 1])] = "FAILURE"} = {}
    <3> SUFFICES ASSUME NEW j \in 1 .. k - 1
                 PROVE  m[rsgGetLinkID(RSG.prim[j], RSG.prim[j + 1])] # "FAILURE"
      OBVIOUS
    <3>1. j \in 1 .. PpLast - 1
      BY <1>0
    <3> QED
      BY <1>1, <3>1
  <2> QED
    BY <2>1, FS_EmptySet DEF Component
<1>3. ASSUME NEW i \in 1 .. PpLast - 1, l = PpLink(RSG, i) PROVE Usable(RSG, m, l)
  BY <1>1, <1>3, PpLinkIs DEF Usable
<1>4. ASSUME NEW i \in 1 .. Len(RSG.rsps), l = RspLink(RSG, i) PROVE ~Usable(RSG, m, l)
  <2>1. l.from \in 1 .. PpLast /\ l.to \in 1 .. PpLast /\ l.isOnPrimPath = FALSE
    BY <1>4, RspLinkIs
  <2>2. Component(RSG, m, l.from) = Component(RSG, m, l.to)
    BY <1>2, <2>1
  <2> QED BY <2>1, <2>2 DEF Usable
<1> QED
  BY <1>3, <1>4, LinkIs

\* The PP is then the route.
LEMMA PpIsRoute ==
  ASSUME NEW m, PpNormal(m)
  PROVE  /\ \A l \in BestRoute(RSG, m) : \E i \in 1 .. PpLast - 1 : l = PpLink(RSG, i)
         /\ LeadsThrough(RSG, m, 1 .. PpLast)
<1> DEFINE c == Costs(RSG, m)
           T == {i \in 1 .. PpLast : c[i] = Unreached}
<1>0. PpLast \in Nat \ {0}
  BY RsgOfFlow DEF IsRsg, PpLast
<1>1. T = {}
  <2> SUFFICES ASSUME T # {} PROVE FALSE
    OBVIOUS
  <2>1. PICK x \in T : \A y \in T : x <= y
    <3>1. T \subseteq 1 .. PpLast
      OBVIOUS
    <3> HIDE DEF T
    <3> QED BY <1>0, <3>1, FirstPosition
  <2>2. x \in Positions(RSG) /\ c[x] = Unreached
    BY DEF Positions, PpLast
  <2>3. x # 1
    <3>1. c[x] = CostAt(RSG, m, c, x)
      BY <2>2, RsgOfFlow, CostsSolve
    <3>2. x = 1 => c[x] = 0
      BY <3>1 DEF CostAt
    <3> QED BY <2>2, <3>2 DEF Unreached
  <2>4. x - 1 \in 1 .. PpLast - 1 /\ x - 1 \in 1 .. PpLast /\ (x - 1) + 1 = x /\ x - 1 < x
    BY <1>0, <2>3
  <2> DEFINE e == PpLink(RSG, x - 1)
  <2>5. e \in RSG.links /\ e.from = x - 1 /\ e.to = x /\ Usable(RSG, m, e)
    BY <2>4, PpLinkIs, OnlyPpUsable
  <2>6. c[x - 1] # Unreached
    BY <1>0, <2>1, <2>4
  <2> HIDE DEF e
  <2>7. e \in Via(RSG, m, c, x)
    BY <2>5, <2>6 DEF Via, InLinks
  <2>8. Via(RSG, m, c, x) = {}
    BY <2>2, <2>3, RsgOfFlow, ReachedByBest
  <2> QED BY <2>7, <2>8
<1>2. c[PpLast] # Unreached
  BY <1>0, <1>1
<1>3. PICK R : LeadsThrough(RSG, m, R)
  BY <1>2, RsgOfFlow, RouteLeadsThrough DEF PpLast
<1>4. ASSUME NEW l \in BestRoute(RSG, m)
      PROVE  \E i \in 1 .. PpLast - 1 : l = PpLink(RSG, i)
  <2>1. l \in RSG.links /\ Usable(RSG, m, l)
    BY <1>3 DEF LeadsThrough
  <2> QED BY <2>1, OnlyPpUsable
<1>5. R = 1 .. PpLast
  <2> DEFINE U == (1 .. PpLast) \ R
  <2>1. R \subseteq 1 .. PpLast
    BY <1>3 DEF LeadsThrough, Positions, PpLast
  <2> SUFFICES ASSUME U # {} PROVE FALSE
    BY <2>1
  <2>2. PICK x \in U : \A y \in U : y <= x
    <3>1. U \subseteq 1 .. PpLast
      OBVIOUS
    <3> HIDE DEF U
    <3> QED BY <1>0, <3>1, LastPosition
  <2>3. PpLast \in R
    BY <1>3 DEF LeadsThrough, PpLast
  <2>4. x + 1 \in 1 .. PpLast /\ x + 1 # 1 /\ x \in Int /\ x + 1 > x
    BY <1>0, <2>3
  <2>5. x + 1 \in R
    BY <2>2, <2>4
  <2>6. PICK l \in BestRoute(RSG, m) : l.to = x + 1
    BY <1>3, <2>4, <2>5 DEF LeadsThrough
  <2>7. PICK i \in 1 .. PpLast - 1 : l = PpLink(RSG, i)
    BY <1>4
  <2>8. i + 1 = x + 1 /\ l.from = i
    BY <2>6, <2>7, PpLinkIs
  <2>9. i = x
    BY <2>4, <2>8
  <2>10. l.from \in R
    BY <1>3 DEF LeadsThrough
  <2> QED BY <2>8, <2>9, <2>10
<1> QED
  BY <1>3, <1>4, <1>5

\* The links of the search's route that leave node n, and those that enter it.
OutOf(m, n) == {l \in RSG.links : l.from = PpIndex(RSG, n) /\ l \in BestRoute(RSG, m)}
Into(m, n) == {l \in RSG.links : l.to = PpIndex(RSG, n) /\ l \in BestRoute(RSG, m)}
SearchDown(m, n) == rsgComputePreferredPathID(RSG, m, n).downLinkID
SearchUp(m, n) == rsgComputePreferredPathID(RSG, m, n).upLinkID

\* The paths that the search yields are those of links of its route.
LEMMA SearchIs ==
  ASSUME NEW m, NEW n
  PROVE  /\ OutOf(m, n) = {} => SearchDown(m, n) = NoPath
         /\ OutOf(m, n) # {} => \E l \in OutOf(m, n) : SearchDown(m, n) = l.pathID
         /\ OutOf(m, n) = {} \/ Into(m, n) = {} => SearchUp(m, n) = NoPath
         /\ OutOf(m, n) # {} /\ Into(m, n) # {} => \E l \in Into(m, n) : SearchUp(m, n) = l.pathID
<1>1. /\ SearchDown(m, n) = IF OutOf(m, n) = {} THEN NoPath ELSE (CHOOSE l \in OutOf(m, n) : TRUE).pathID
      /\ SearchUp(m, n) = IF OutOf(m, n) = {} \/ Into(m, n) = {} THEN NoPath
                          ELSE (CHOOSE l \in Into(m, n) : TRUE).pathID
  BY DEF rsgComputePreferredPathID, SearchDown, SearchUp, OutOf, Into
<1> QED BY <1>1

\* What the search yields at a node while the PP is whole.
LEMMA SearchYieldsPp ==
  ASSUME NEW m, PpNormal(m), NEW n \in PpNodes, PpIndex(RSG, n) # PpLast
  PROVE  /\ SearchDown(m, n) = RSG.primID
         /\ PpIndex(RSG, n) # 1 => SearchUp(m, n) = RSG.primID
<1> DEFINE i == PpIndex(RSG, n)
<1>1. i \in 1 .. PpLast
  BY AtIndex DEF PpLast
<1>2. /\ \A l \in BestRoute(RSG, m) : \E j \in 1 .. PpLast - 1 : l = PpLink(RSG, j)
      /\ LeadsThrough(RSG, m, 1 .. PpLast)
  BY PpIsRoute
<1>3. \A l \in BestRoute(RSG, m) : l.pathID = RSG.primID
  BY <1>2, PpLinkIs
<1>4. OutOf(m, n) # {}
  <2>1. PICK l \in BestRoute(RSG, m) : l.from = i
    BY <1>1, <1>2 DEF LeadsThrough, PpLast
  <2>2. l \in RSG.links
    BY <1>2 DEF LeadsThrough
  <2> QED BY <2>1, <2>2 DEF OutOf
<1>5. i # 1 => Into(m, n) # {}
  <2> SUFFICES ASSUME i # 1 PROVE Into(m, n) # {}
    OBVIOUS
  <2>1. PICK l \in BestRoute(RSG, m) : l.to = i
    BY <1>1, <1>2 DEF LeadsThrough
  <2>2. l \in RSG.links
    BY <1>2 DEF LeadsThrough
  <2> QED BY <2>1, <2>2 DEF Into
<1>6. /\ \A l \in OutOf(m, n) : l.pathID = RSG.primID
      /\ \A l \in Into(m, n) : l.pathID = RSG.primID
  BY <1>3 DEF OutOf, Into
<1> QED BY <1>4, <1>5, <1>6, SearchIs

\* No virtual link leaves the consumer, and none enters the producer.
LEMMA SearchAtEnds ==
  ASSUME NEW m, NEW n \in PpNodes
  PROVE  /\ PpIndex(RSG, n) = PpLast => SearchDown(m, n) = NoPath /\ SearchUp(m, n) = NoPath
         /\ PpIndex(RSG, n) = 1 => SearchUp(m, n) = NoPath
<1>1. \A l \in RSG.links : l.from # PpLast /\ l.to # 1
  <2> SUFFICES ASSUME NEW l \in RSG.links PROVE l.from # PpLast /\ l.to # 1
    OBVIOUS
  <2>1. l.from \in 1 .. PpLast /\ l.to \in 1 .. PpLast /\ l.from < l.to /\ PpLast \in Nat
    BY RsgOfFlow DEF IsRsg, Positions, PpLast
  <2> QED BY <2>1
<1>2. PpIndex(RSG, n) = PpLast => OutOf(m, n) = {}
  BY <1>1 DEF OutOf
<1>3. PpIndex(RSG, n) = 1 => Into(m, n) = {}
  BY <1>1 DEF Into
<1> QED BY <1>2, <1>3, SearchIs

\* The paths down and up that n prefers are those that the search yields for map
\* m, if it yields any.  The ends of the PP never change one they have no choice of.
Prefers(n, m, down, up) ==
  /\ SearchDown(m, n) \in {NoPath, down}
  /\ SearchUp(m, n) \in {NoPath, up}
  /\ PpIndex(RSG, n) = PpLast => down = RSG.primID /\ up = RSG.primID
  /\ PpIndex(RSG, n) = 1 => up = RSG.primID

PrefInv ==
  \A n \in PpNodes :
    Prefers(n, linkStatusMap[n], preferredDownPathId[n], preferredUpPathId[n])

\* At the start the search yields the PP, which is preferred.
LEMMA InitPref == Init => PrefInv
<1> SUFFICES ASSUME Init, NEW n \in PpNodes
             PROVE  Prefers(n, linkStatusMap[n], preferredDownPathId[n], preferredUpPathId[n])
  BY DEF PrefInv
<1>1. /\ linkStatusMap[n] = AllNormal(RSG)
      /\ preferredDownPathId[n] = RSG.primID
      /\ preferredUpPathId[n] = RSG.primID
  BY DEF Init
<1>2. PpNormal(AllNormal(RSG))
  BY DEF PpNormal, AllNormal, Keys
<1>3. /\ SearchDown(AllNormal(RSG), n) \in {NoPath, RSG.primID}
      /\ SearchUp(AllNormal(RSG), n) \in {NoPath, RSG.primID}
  BY <1>2, SearchYieldsPp, SearchAtEnds
<1> QED BY <1>1, <1>3 DEF Prefers

\* A router that searches its new map follows it.
LEMMA SwitchPrefers ==
  ASSUME NEW n \in PpNodes, NEW m0, NEW m, NEW down, NEW up, Prefers(n, m0, down, up)
  PROVE  Prefers(n, m, switched(down, SearchDown(m, n)), switched(up, SearchUp(m, n)))
<1>1. /\ PpIndex(RSG, n) = PpLast => SearchDown(m, n) = NoPath /\ SearchUp(m, n) = NoPath
      /\ PpIndex(RSG, n) = 1 => SearchUp(m, n) = NoPath
  BY SearchAtEnds
<1> QED BY <1>1, Zenon DEF Prefers, switched

\* A router that records statuses prefers what its search yields for them.
LEMMA UpdateKeepsPref ==
  ASSUME PrefInv, FsDomains, MapTypes, NEW n, NEW lsa, updatePreferredPathWithLSA(n, lsa)
  PROVE  PrefInv'
<1>1. CASE n \notin PpNodes
  <2>1. /\ linkStatusMap' = linkStatusMap
        /\ preferredDownPathId' = preferredDownPathId
        /\ preferredUpPathId' = preferredUpPathId
    BY <1>1 DEF updatePreferredPathWithLSA, fsVars
  <2> QED
    BY <2>1, Zenon DEF PrefInv, Prefers, SearchDown, SearchUp
<1>2. CASE n \in PpNodes
  <2> DEFINE m == rsgUpdateLinkStatus(RSG, linkStatusMap[n], lsa)
  <2>1. /\ linkStatusMap' = [linkStatusMap EXCEPT ![n] = m]
        /\ preferredDownPathId' = [preferredDownPathId EXCEPT ![n] = switched(@, SearchDown(m, n))]
        /\ preferredUpPathId' = [preferredUpPathId EXCEPT ![n] = switched(@, SearchUp(m, n))]
    BY <1>2 DEF updatePreferredPathWithLSA, SearchDown, SearchUp
  <2> HIDE DEF m
  <2>2. Prefers(n, m, switched(preferredDownPathId[n], SearchDown(m, n)),
                      switched(preferredUpPathId[n], SearchUp(m, n)))
    <3>1. Prefers(n, linkStatusMap[n], preferredDownPathId[n], preferredUpPathId[n])
      BY <1>2 DEF PrefInv
    <3> QED
      BY <1>2, <3>1, SwitchPrefers
  <2>3. /\ DOMAIN linkStatusMap = PpNodes
        /\ DOMAIN preferredDownPathId = PpNodes
        /\ DOMAIN preferredUpPathId = PpNodes
    BY DEF FsDomains, MapTypes
  <2>4. /\ linkStatusMap'[n] = m
        /\ preferredDownPathId'[n] = switched(preferredDownPathId[n], SearchDown(m, n))
        /\ preferredUpPathId'[n] = switched(preferredUpPathId[n], SearchUp(m, n))
    BY <1>2, <2>1, <2>3
  <2>5. ASSUME NEW k \in PpNodes
        PROVE  Prefers(k, linkStatusMap'[k], preferredDownPathId'[k], preferredUpPathId'[k])
    <3>1. CASE k = n
      BY <2>2, <2>4, <3>1
    <3>2. CASE k # n
      <4>1. /\ linkStatusMap'[k] = linkStatusMap[k]
            /\ preferredDownPathId'[k] = preferredDownPathId[k]
            /\ preferredUpPathId'[k] = preferredUpPathId[k]
        BY <2>1, <2>3, <3>2
      <4>2. Prefers(k, linkStatusMap[k], preferredDownPathId[k], preferredUpPathId[k])
        BY DEF PrefInv
      <4> QED BY <4>1, <4>2
    <3> QED BY <3>1, <3>2
  <2> QED
    BY <2>5 DEF PrefInv, Prefers, SearchDown, SearchUp
<1> QED
  BY <1>1, <1>2

BackInv == FsInv /\ MapInv /\ PrefInv

LEMMA InitBack == Init => BackInv
  BY InitFs, InitMaps, InitPref DEF BackInv

LEMMA NextKeepsBack == BackInv /\ [Next]_controlVars => BackInv'
<1> SUFFICES ASSUME BackInv, [Next]_controlVars PROVE BackInv'
  OBVIOUS
<1>1. FsInv' /\ MapInv'
  BY NextKeepsFs, NextKeepsMaps DEF BackInv
<1>2. PrefInv /\ FsDomains /\ MapTypes
  BY DEF BackInv, FsInv, MapInv
<1>3. ASSUME UNCHANGED <<linkStatusMap, preferredDownPathId, preferredUpPathId>> PROVE PrefInv'
  BY <1>2, <1>3, Zenon DEF PrefInv, Prefers, SearchDown, SearchUp
<1>4. CASE UNCHANGED controlVars
  BY <1>1, <1>3, <1>4 DEF controlVars, fsVars, BackInv
<1>5. ASSUME NEW l \in Links, LinkChanges(l) PROVE PrefInv'
  BY <1>3, <1>5 DEF LinkChanges, fsVars
<1>6. ASSUME NEW o \in Nodes, NEW F \in SUBSET outdated(o), linkTestConcludes(o, F) PROVE PrefInv'
  <2>1. updatePreferredPathWithLSA(o, status'[o])
    BY <1>6 DEF linkTestConcludes
  <2> QED
    BY <1>2, <2>1, UpdateKeepsPref
<1>7. ASSUME NEW n \in PpNodes, NEW o \in Nodes, onReceiveLsa(n, o) PROVE PrefInv'
  <2>1. updatePreferredPathWithLSA(n, Head(inbox[n][o]))
    BY <1>7 DEF onReceiveLsa
  <2> QED
    BY <1>2, <2>1, UpdateKeepsPref
<1> QED
  BY <1>1, <1>4, <1>5, <1>6, <1>7 DEF Next, BackInv

\* On every RSG: once the PP is whole again and its state is known everywhere,
\* every router is back on the PP in both directions, also a router that a
\* detour left out, which kept the path it preferred when the PP failed.
THEOREM BackToPpCorrect == Spec => []BackToPp
<1>1. BackInv => BackToPp
  <2> SUFFICES ASSUME BackInv, Settled, \A l \in PpLinks(RSG) : linkUp[l], NEW n \in PpNodes
               PROVE  preferredDownPathId[n] = RSG.primID /\ preferredUpPathId[n] = RSG.primID
    BY DEF BackToPp
  <2>1. PpNormal(linkStatusMap[n])
    <3>1. MapsAreTrue
      BY MapInvGivesTruth DEF BackInv
    <3> QED
      BY <3>1 DEF MapsAreTrue, PpNormal, Links
  <2>2. Prefers(n, linkStatusMap[n], preferredDownPathId[n], preferredUpPathId[n])
    BY DEF BackInv, PrefInv
  <2>3. RSG.primID # NoPath
    BY FailoverAssumption DEF NoPath
  <2>4. CASE PpIndex(RSG, n) = PpLast
    BY <2>2, <2>4 DEF Prefers
  <2>5. CASE PpIndex(RSG, n) # PpLast
    <3>1. /\ SearchDown(linkStatusMap[n], n) = RSG.primID
          /\ PpIndex(RSG, n) # 1 => SearchUp(linkStatusMap[n], n) = RSG.primID
      BY <2>1, <2>5, SearchYieldsPp
    <3> QED BY <2>2, <2>3, <3>1 DEF Prefers
  <2> QED
    BY <2>4, <2>5
<1> QED
  BY InitBack, NextKeepsBack, <1>1, PTL DEF Spec

-----------------------------------------------------------------------------
(* The route after a failure. *)

\* The virtual link of an RSP has key 0, which no LSA writes.
ZeroNormal == \A n \in PpNodes : linkStatusMap[n][<<0>>] = "NORMAL"

\* Other links than the unsteady ones stay up.
SteadyUp == DOMAIN linkUp = Links /\ \A l \in Links \ Unsteady : linkUp[l]

WorkInv == BackInv /\ ZeroNormal /\ SteadyUp

\* A link is never taken for key 0.
LEMMA LinkIsPair ==
  ASSUME NEW l \in Links
  PROVE  Len(l) = 2
<1>1. ASSUME NEW nodes, l \in PathLinks(nodes) PROVE Len(l) = 2
  <2>1. PICK i \in 1 .. Len(nodes) - 1 : l = rsgGetLinkID(nodes[i], nodes[i + 1])
    BY <1>1 DEF PathLinks
  <2> QED BY <2>1 DEF rsgGetLinkID
<1>2. \E nodes : l \in PathLinks(nodes)
  BY DEF Links, PpLinks, RspLinks
<1> QED BY <1>1, <1>2

\* Recording statuses leaves key 0 alone.
LEMMA UpdateOfZero ==
  ASSUME NEW m, DOMAIN m = Keys(RSG), NEW o, NEW lsa \in Lsas(o)
  PROVE  rsgUpdateLinkStatus(RSG, m, lsa)[<<0>>] = m[<<0>>]
<1> DEFINE links == [k \in DOMAIN m |-> IF k \in DOMAIN lsa THEN lsa[k] ELSE m[k]]
           failed(p) == \E l \in PathLinks(p.nodes) : links[l] = "FAILURE"
           rspsOf(k) == {p \in Rsps(RSG) : k = <<p.id>> /\ PathLinks(p.nodes) \cap DOMAIN lsa # {}}
           r == rsgUpdateLinkStatus(RSG, m, lsa)
<1>1. r = [k \in DOMAIN m |-> IF rspsOf(k) = {} THEN links[k]
                              ELSE IF \E p \in rspsOf(k) : failed(p) THEN "FAILURE" ELSE "NORMAL"]
  BY DEF rsgUpdateLinkStatus
<1>2. \A p \in Rsps(RSG) : p.id # 0
  BY RspOfId
<1>3. rspsOf(<<0>>) = {}
  BY <1>2
<1>4. <<0>> \in Keys(RSG)
  BY DEF Keys
<1>5. <<0>> \notin DOMAIN lsa
  <2>1. DOMAIN lsa \subseteq Links
    BY DEF Lsas, LinksOf
  <2>2. Len(<<0>>) = 1
    OBVIOUS
  <2>3. <<0>> \notin Links
    BY <2>2, LinkIsPair
  <2> QED BY <2>1, <2>3
<1>6. links[<<0>>] = m[<<0>>]
  BY <1>4, <1>5
<1>7. r[<<0>>] = links[<<0>>]
  <2> HIDE DEF links, rspsOf, failed, r
  <2> QED BY <1>1, <1>3, <1>4
<1> QED BY <1>6, <1>7

LEMMA UpdateKeepsZero ==
  ASSUME ZeroNormal, MapTypes, NEW n, NEW o, NEW lsa \in Lsas(o), updatePreferredPathWithLSA(n, lsa)
  PROVE  ZeroNormal'
<1>1. CASE n \notin PpNodes
  BY <1>1 DEF updatePreferredPathWithLSA, fsVars, ZeroNormal
<1>2. CASE n \in PpNodes
  <2> DEFINE m == rsgUpdateLinkStatus(RSG, linkStatusMap[n], lsa)
  <2>1. linkStatusMap' = [linkStatusMap EXCEPT ![n] = m]
    BY <1>2 DEF updatePreferredPathWithLSA
  <2>2. m[<<0>>] = linkStatusMap[n][<<0>>]
    BY <1>2, UpdateOfZero DEF MapTypes
  <2> HIDE DEF m
  <2> QED BY <1>2, <2>1, <2>2 DEF ZeroNormal, MapTypes
<1> QED BY <1>1, <1>2

LEMMA InitWork == Init => WorkInv
<1> SUFFICES ASSUME Init PROVE WorkInv
  OBVIOUS
<1>1. ZeroNormal
  BY DEF Init, ZeroNormal, AllNormal, Keys
<1>2. SteadyUp
  BY DEF Init, SteadyUp
<1> QED BY <1>1, <1>2, InitBack DEF WorkInv

LEMMA NextKeepsWork == WorkInv /\ [Next]_controlVars => WorkInv'
<1> SUFFICES ASSUME WorkInv, [Next]_controlVars PROVE WorkInv'
  OBVIOUS
<1>1. BackInv'
  BY NextKeepsBack DEF WorkInv
<1>2. ZeroNormal /\ SteadyUp /\ MapTypes
  BY DEF WorkInv, BackInv, MapInv
<1>3. MapTypes'
  BY <1>1 DEF BackInv, MapInv
<1>4. CASE UNCHANGED controlVars
  BY <1>1, <1>2, <1>4 DEF WorkInv, ZeroNormal, SteadyUp, controlVars, linkVars, fsVars
<1>5. ASSUME NEW l \in Links, LinkChanges(l) PROVE WorkInv'
  <2>1. l \in Unsteady /\ linkUp' = [linkUp EXCEPT ![l] = ~@] /\ linkStatusMap' = linkStatusMap
    BY <1>5 DEF LinkChanges, fsVars
  <2>2. SteadyUp'
    BY <1>2, <2>1 DEF SteadyUp
  <2>3. ZeroNormal'
    BY <1>2, <2>1 DEF ZeroNormal
  <2> QED BY <1>1, <2>2, <2>3 DEF WorkInv
<1>6. ASSUME NEW o \in Nodes, NEW F \in SUBSET outdated(o), linkTestConcludes(o, F) PROVE WorkInv'
  <2>1. updatePreferredPathWithLSA(o, status'[o]) /\ linkUp' = linkUp
    BY <1>6 DEF linkTestConcludes, linkVars
  <2>2. status'[o] \in Lsas(o)
    BY <1>3 DEF MapTypes, Lsas
  <2>3. ZeroNormal'
    BY <1>2, <2>1, <2>2, UpdateKeepsZero
  <2>4. SteadyUp'
    BY <1>2, <2>1 DEF SteadyUp
  <2> QED BY <1>1, <2>3, <2>4 DEF WorkInv
<1>7. ASSUME NEW n \in PpNodes, NEW o \in Nodes, onReceiveLsa(n, o) PROVE WorkInv'
  <2>1. updatePreferredPathWithLSA(n, Head(inbox[n][o])) /\ linkUp' = linkUp
    BY <1>7 DEF onReceiveLsa, linkVars
  <2>2. Head(inbox[n][o]) \in Lsas(o)
    <3>1. inbox[n][o] \in Seq(Lsas(o)) /\ inbox[n][o] # <<>>
      BY <1>2, <1>7 DEF MapTypes, onReceiveLsa, arrives
    <3> QED BY <3>1
  <2>3. ZeroNormal'
    BY <1>2, <2>1, <2>2, UpdateKeepsZero
  <2>4. SteadyUp'
    BY <1>2, <2>1 DEF SteadyUp
  <2> QED BY <1>1, <2>3, <2>4 DEF WorkInv
<1> QED
  BY <1>4, <1>5, <1>6, <1>7 DEF Next

\* Maps that agree on the PP are searched alike.
AgreeOnPp(m, k) ==
  /\ \A l \in PpLinks(RSG) : m[l] = "FAILURE" <=> k[l] = "FAILURE"
  /\ m[<<0>>] = "FAILURE" <=> k[<<0>>] = "FAILURE"

LEMMA SearchedAlike ==
  ASSUME NEW m, NEW k, AgreeOnPp(m, k)
  PROVE  Costs(RSG, m) = Costs(RSG, k) /\ BestRoute(RSG, m) = BestRoute(RSG, k)
<1>0. PpLast \in Nat
  BY FailoverAssumption DEF PpLast
<1>1. ASSUME NEW i \in 1 .. PpLast
      PROVE  Component(RSG, m, i) = Component(RSG, k, i)
  <2> DEFINE id(j) == rsgGetLinkID(RSG.prim[j], RSG.prim[j + 1])
  <2>1. \A j \in 1 .. PpLast - 1 : id(j) \in PpLinks(RSG)
    BY DEF PpLinks, PathLinks, PpLast
  <2>2. \A j \in 1 .. i - 1 : j \in 1 .. PpLast - 1
    BY <1>0
  <2>3. {j \in 1 .. i - 1 : m[id(j)] = "FAILURE"} = {j \in 1 .. i - 1 : k[id(j)] = "FAILURE"}
    BY <2>1, <2>2 DEF AgreeOnPp
  <2> QED BY <2>3 DEF Component
<1>2. ASSUME NEW l \in RSG.links
      PROVE  Usable(RSG, m, l) <=> Usable(RSG, k, l)
  <2>1. l.from \in 1 .. PpLast /\ l.to \in 1 .. PpLast
    BY RsgOfFlow DEF IsRsg, Positions, PpLast
  <2>2. l.linkID \in PpLinks(RSG) \/ l.linkID = <<0>>
    <3>1. \A i \in 1 .. PpLast - 1 : PpLink(RSG, i).linkID \in PpLinks(RSG)
      BY PpLinkIs
    <3>2. \A i \in 1 .. Len(RSG.rsps) : RspLink(RSG, i).linkID = <<0>>
      BY RspLinkIs
    <3> QED BY <3>1, <3>2, LinkIs
  <2>3. m[l.linkID] = "FAILURE" <=> k[l.linkID] = "FAILURE"
    BY <2>2 DEF AgreeOnPp
  <2>4. Component(RSG, m, l.from) = Component(RSG, k, l.from)
        /\ Component(RSG, m, l.to) = Component(RSG, k, l.to)
    BY <1>1, <2>1
  <2> QED BY <2>3, <2>4 DEF Usable
<1>3. \A i \in Positions(RSG) : InLinks(RSG, m, i) = InLinks(RSG, k, i)
  BY <1>2 DEF InLinks
<1> QED BY <1>3, SearchOfUsable

\* What the links of the PP are, as a map.
Truth == [k \in Keys(RSG) |-> IF k \in {l \in PpLinks(RSG) \cap Unsteady : ~linkUp[l]}
                              THEN "FAILURE" ELSE "NORMAL"]

\* In the end all routers search a map that agrees with it.
LEMMA SettledMapsAgree ==
  ASSUME WorkInv, Settled, NEW n \in PpNodes
  PROVE  AgreeOnPp(linkStatusMap[n], Truth)
<1>1. ASSUME NEW l \in PpLinks(RSG)
      PROVE  linkStatusMap[n][l] = "FAILURE" <=> Truth[l] = "FAILURE"
  <2>1. l \in Links /\ l \in Keys(RSG)
    BY DEF Links, Keys
  <2>2. PICK o \in Nodes : l \in LinksOf(o) /\ Follows(n, l, o)
    BY <2>1 DEF WorkInv, BackInv, MapInv
  <2>3. linkStatusMap[n][l] = status[o][l] /\ (status[o][l] = "NORMAL" <=> linkUp[l])
    BY <2>1, <2>2 DEF Settled, Follows
  <2>4. status[o][l] \in LinkStatus
    BY <2>2 DEF WorkInv, BackInv, MapInv, MapTypes, Lsas
  <2>5. linkStatusMap[n][l] = "FAILURE" <=> ~linkUp[l]
    BY <2>3, <2>4 DEF LinkStatus
  <2>6. ~linkUp[l] => l \in Unsteady
    BY <2>1 DEF WorkInv, SteadyUp
  <2> QED BY <2>1, <2>5, <2>6 DEF Truth
<1>2. linkStatusMap[n][<<0>>] = "NORMAL"
  BY DEF WorkInv, ZeroNormal
<1>3. Truth[<<0>>] = "NORMAL"
  <2>1. Len(<<0>>) = 1
    OBVIOUS
  <2>2. <<0>> \notin PpLinks(RSG)
    BY <2>1, LinkIsPair DEF Links
  <2> QED BY <2>2 DEF Truth, Keys
<1> QED BY <1>1, <1>2, <1>3 DEF AgreeOnPp

\* The index of the i-th node of the PP.
LEMMA IndexAt ==
  ASSUME NEW i \in 1 .. PpLast
  PROVE  RSG.prim[i] \in PpNodes /\ PpIndex(RSG, RSG.prim[i]) = i
<1>1. RSG.prim[i] \in PpNodes
  BY DEF PpNodes, PathNodes, PpLast
<1>2. PpIndex(RSG, RSG.prim[i]) \in 1 .. PpLast /\ RSG.prim[PpIndex(RSG, RSG.prim[i])] = RSG.prim[i]
  BY <1>1, AtIndex DEF PpLast
<1>3. \A j, k \in 1 .. PpLast : RSG.prim[j] = RSG.prim[k] => j = k
  BY FailoverAssumption DEF IsPath, PpLast
<1> QED BY <1>1, <1>2, <1>3

\* What a router prefers leads on, to a later position of the PP.
LEMMA LegLeadsOn ==
  ASSUME FsInv, NEW i \in 1 .. PpLast - 1
  PROVE  LegEnd(i) \in 1 .. PpLast /\ LegEnd(i) > i
<1> DEFINE n == RSG.prim[i]
           id == preferredDownPathId[n]
<1>0. PpLast \in Nat /\ i \in 1 .. PpLast
  BY FailoverAssumption DEF PpLast
<1>1. n \in PpNodes /\ PpIndex(RSG, n) = i
  BY <1>0, IndexAt
<1>2. CASE id = RSG.primID
  <2>1. LegEnd(i) = i + 1
    BY <1>2 DEF LegEnd
  <2> QED BY <1>0, <2>1
<1>3. CASE id # RSG.primID
  <2>1. PICK p \in Rsps(RSG) : p.id = id /\ p.nodes[Len(p.nodes)] = n
    BY <1>1, <1>3 DEF FsInv, DetoursLeave, LeavesAt
  <2>2. (CHOOSE q \in Rsps(RSG) : q.id = id) = p
    BY <2>1, RspOfId
  <2>3. LegEnd(i) = PpIndex(RSG, p.nodes[1])
    BY <1>3, <2>2 DEF LegEnd
  <2>4. PICK k \in 1 .. Len(RSG.rsps) : p = RSG.rsps[k]
    BY DEF Rsps
  <2> DEFINE l == RspLink(RSG, k)
  <2>5. l.from \in 1 .. PpLast /\ l.to \in 1 .. PpLast /\ l.from < l.to
    BY RspLinkIs
  <2>6. l.from = PpIndex(RSG, n) /\ l.to = PpIndex(RSG, p.nodes[1])
    BY <2>1, <2>4, RspLinkIs
  <2> HIDE DEF l, n
  <2>7. PpIndex(RSG, p.nodes[1]) \in 1 .. PpLast /\ i < PpIndex(RSG, p.nodes[1])
    BY <1>1, <2>5, <2>6
  <2> QED BY <1>0, <2>3, <2>7
<1> QED BY <1>2, <1>3

\* The way along the preferred paths is well defined: it always leads on.
LegAt(f, i) == IF i = PpLast THEN {} ELSE LegLinks(i) \cup f[LegEnd(i)]
AlongLegs == CHOOSE f : f = [i \in 1 .. PpLast |-> LegAt(f, i)]

LEMMA AlongLegsIs ==
  ASSUME FsInv
  PROVE  \A i \in 1 .. PpLast : AlongLegs[i] = LegAt(AlongLegs, i)
<1> DEFINE P == 1 .. PpLast
           next == [i \in P |-> IF i = PpLast THEN i ELSE LegEnd(i)]
           f == [i \in P |-> UNION {LegLinks(j) : j \in Trail(P, next, i) \ {PpLast}}]
<1>0. PpLast \in Nat
  BY FailoverAssumption DEF PpLast
<1>1. \A i \in P : i # PpLast => LegEnd(i) \in P
  BY <1>0, LegLeadsOn
<1>2. next \in [P -> P]
  BY <1>1
<1>3. /\ \A i \in P : i # PpLast => next[i] = LegEnd(i)
      /\ \A i \in P : i = PpLast => next[i] = i
  OBVIOUS
<1>10. \A i \in P : f[i] = UNION {LegLinks(j) : j \in Trail(P, next, i) \ {PpLast}}
  OBVIOUS
<1>11. f = [i \in P |-> f[i]]
  OBVIOUS
<1> HIDE DEF next, f, P
<1>4. ASSUME NEW i \in P
      PROVE  f[i] = LegAt(f, i)
  <2>1. CASE i = PpLast
    <3>1. Closed({i}, next)
      BY <1>3, <2>1 DEF Closed
    <3>2. \A S \in SUBSET P : i \in S /\ Closed(S, next) => Trail(P, next, i) \subseteq S
      BY <1>2, TrailIs
    <3>3. Trail(P, next, i) \ {PpLast} = {}
      BY <2>1, <3>1, <3>2
    <3> QED BY <1>10, <2>1, <3>3 DEF LegAt
  <2>2. CASE i # PpLast
    <3>1. Trail(P, next, i) = {i} \cup Trail(P, next, LegEnd(i))
      BY <1>2, <1>3, <2>2, TrailIs
    <3>2. Trail(P, next, i) \ {PpLast} = {i} \cup (Trail(P, next, LegEnd(i)) \ {PpLast})
      BY <2>2, <3>1
    <3>3. f[LegEnd(i)] = UNION {LegLinks(j) : j \in Trail(P, next, LegEnd(i)) \ {PpLast}}
      BY <1>1, <1>10, <2>2
    <3>4. f[i] = LegLinks(i) \cup f[LegEnd(i)]
      BY <1>10, <3>2, <3>3
    <3> QED BY <2>2, <3>4 DEF LegAt
  <2> QED BY <2>1, <2>2
<1>5. f = [i \in P |-> LegAt(f, i)]
  <2>1. [i \in P |-> f[i]] = [i \in P |-> LegAt(f, i)]
    BY <1>4
  <2> QED BY <1>11, <2>1
<1>6. AlongLegs = [i \in P |-> LegAt(AlongLegs, i)]
  BY <1>5 DEF AlongLegs, P
<1>7. \A i \in P : AlongLegs[i] = LegAt(AlongLegs, i)
  BY <1>6
<1> QED BY <1>7 DEF P

\* A leg of the route that all maps yield is up, and ends on the route.
LEMMA LegIsUp ==
  ASSUME WorkInv, Settled, RspsUp, NEW R, LeadsThrough(RSG, Truth, R), NEW i \in R, i # PpLast
  PROVE  LegEnd(i) \in R /\ \A e \in LegLinks(i) : linkUp[e]
<1> DEFINE n == RSG.prim[i]
           m == linkStatusMap[n]
           id == preferredDownPathId[n]
<1>0. PpLast \in Nat /\ i \in 1 .. PpLast
  BY FailoverAssumption DEF PpLast, LeadsThrough, Positions
<1>1. n \in PpNodes /\ PpIndex(RSG, n) = i
  BY <1>0, IndexAt
<1>2. BestRoute(RSG, m) = BestRoute(RSG, Truth)
  BY <1>1, SettledMapsAgree, SearchedAlike
<1>3. OutOf(m, n) # {}
  <2>1. PICK l \in BestRoute(RSG, Truth) : l.from = i
    BY DEF LeadsThrough, PpLast
  <2>2. l \in RSG.links
    BY DEF LeadsThrough
  <2> QED BY <1>1, <1>2, <2>1, <2>2 DEF OutOf
<1>4. PICK l \in OutOf(m, n) : SearchDown(m, n) = l.pathID
  BY <1>3, SearchIs
<1>5. /\ l \in RSG.links
      /\ l.from = i
      /\ l \in BestRoute(RSG, Truth)
  BY <1>1, <1>2 DEF OutOf
<1>6. l.to \in R /\ Usable(RSG, Truth, l)
  BY <1>5 DEF LeadsThrough
<1>7. SearchDown(m, n) \in {NoPath, id}
  BY <1>1 DEF WorkInv, BackInv, PrefInv, Prefers
<1>8. CASE \E j \in 1 .. PpLast - 1 : l = PpLink(RSG, j)
  <2>1. PICK j \in 1 .. PpLast - 1 : l = PpLink(RSG, j)
    BY <1>8
  <2>2. /\ j = i
        /\ l.to = i + 1
        /\ l.pathID = RSG.primID
        /\ l.linkID = rsgGetLinkID(RSG.prim[i], RSG.prim[i + 1])
        /\ l.linkID \in PpLinks(RSG)
    BY <1>5, <2>1, PpLinkIs
  <2>3. id = RSG.primID
    BY <1>4, <1>7, <2>2, FailoverAssumption DEF NoPath
  <2>4. LegEnd(i) = l.to /\ LegLinks(i) = {l.linkID}
    BY <2>2, <2>3 DEF LegEnd, LegLinks
  <2>5. linkUp[l.linkID]
    <3>1. Truth[l.linkID] # "FAILURE"
      BY <1>6 DEF Usable
    <3>2. l.linkID \in Keys(RSG) /\ l.linkID \in Links
      BY <2>2 DEF Keys, Links
    <3>3. l.linkID \notin {k \in PpLinks(RSG) \cap Unsteady : ~linkUp[k]}
      BY <3>1, <3>2 DEF Truth
    <3>4. l.linkID \notin Unsteady => linkUp[l.linkID]
      BY <3>2 DEF WorkInv, SteadyUp
    <3> QED BY <2>2, <3>3, <3>4
  <2> QED BY <1>6, <2>4, <2>5
<1>9. CASE \E k \in 1 .. Len(RSG.rsps) : l = RspLink(RSG, k)
  <2>1. PICK k \in 1 .. Len(RSG.rsps) : l = RspLink(RSG, k)
    BY <1>9
  <2> DEFINE p == RSG.rsps[k]
  <2>2. p \in Rsps(RSG) /\ l.to = PpIndex(RSG, p.nodes[1]) /\ l.pathID = p.id
    BY <2>1, RspLinkIs
  <2> HIDE DEF p
  <2>3. p.id # RSG.primID /\ p.id # NoPath /\ (CHOOSE q \in Rsps(RSG) : q.id = p.id) = p
    BY <2>2, RspOfId DEF NoPath
  <2>4. id = p.id
    BY <1>4, <1>7, <2>2, <2>3
  <2>5. LegEnd(i) = l.to /\ LegLinks(i) = PathLinks(p.nodes)
    BY <2>2, <2>3, <2>4 DEF LegEnd, LegLinks
  <2>6. \A e \in PathLinks(p.nodes) : linkUp[e]
    BY <2>2 DEF RspsUp
  <2> QED BY <1>6, <2>5, <2>6
<1> QED BY <1>5, <1>8, <1>9, LinkIs

\* The way along the legs from the producer never leaves the route of the search.
LEMMA WorkInvGivesRoute ==
  ASSUME DetoursSuffice, WorkInv, Settled, RspsUp
  PROVE  \A l \in RouteLinks : linkUp[l]
<1>0. PpLast \in Nat \ {0}
  BY RsgOfFlow DEF IsRsg, PpLast
<1>1. Costs(RSG, Truth)[PpLast] # Unreached
  BY DEF DetoursSuffice, Truth, PpLast
<1>2. PICK R : LeadsThrough(RSG, Truth, R)
  BY <1>1, RsgOfFlow, RouteLeadsThrough DEF PpLast
<1>3. FsInv
  BY DEF WorkInv, BackInv
<1>4. \A i \in 1 .. PpLast : AlongLegs[i] = LegAt(AlongLegs, i)
  BY <1>3, AlongLegsIs
<1>5. R \subseteq 1 .. PpLast /\ 1 \in R
  BY <1>2 DEF LeadsThrough, Positions, PpLast
<1> DEFINE T == {i \in R : ~ \A l \in AlongLegs[i] : linkUp[l]}
<1>6. T = {}
  <2> SUFFICES ASSUME T # {} PROVE FALSE
    OBVIOUS
  <2>1. PICK x \in T : \A y \in T : y <= x
    <3>1. T \subseteq 1 .. PpLast
      BY <1>5
    <3> HIDE DEF T
    <3> QED BY <1>0, <3>1, LastPosition
  <2>2. x \in R /\ x \in 1 .. PpLast /\ ~ \A l \in AlongLegs[x] : linkUp[l]
    BY <1>5
  <2>3. CASE x = PpLast
    <3>1. AlongLegs[x] = {}
      BY <1>4, <2>2, <2>3 DEF LegAt
    <3> QED BY <2>2, <3>1
  <2>4. CASE x # PpLast
    <3>1. LegEnd(x) \in R /\ \A e \in LegLinks(x) : linkUp[e]
      BY <1>2, <2>2, <2>4, LegIsUp
    <3>2. LegEnd(x) \in 1 .. PpLast /\ LegEnd(x) > x
      <4>1. x \in 1 .. PpLast - 1
        BY <1>0, <2>2, <2>4
      <4> QED BY <1>3, <4>1, LegLeadsOn
    <3>3. LegEnd(x) \notin T
      BY <2>1, <2>2, <3>2
    <3>4. \A l \in AlongLegs[LegEnd(x)] : linkUp[l]
      BY <3>1, <3>3
    <3>5. AlongLegs[x] = LegLinks(x) \cup AlongLegs[LegEnd(x)]
      BY <1>4, <2>2, <2>4 DEF LegAt
    <3> QED BY <2>2, <3>1, <3>4, <3>5
  <2> QED BY <2>3, <2>4
<1>7. \A l \in AlongLegs[1] : linkUp[l]
  BY <1>5, <1>6
<1>8. RouteLinks = AlongLegs[1]
  BY DEF RouteLinks, AlongLegs, LegAt, PpLast
<1> QED BY <1>7, <1>8

\* On every RSG with RSPs around the links that may fail: once the failures of the
\* PP are known everywhere, the paths that the routers prefer, each by its own
\* search on its own map, make up a route to the consumer over links that are up.
THEOREM RouteWorksCorrect == DetoursSuffice => (Spec => []RouteWorks)
<1> SUFFICES ASSUME DetoursSuffice PROVE Spec => []RouteWorks
  OBVIOUS
<1>1. WorkInv => RouteWorks
  BY WorkInvGivesRoute DEF RouteWorks
<1> QED
  BY InitWork, NextKeepsWork, <1>1, PTL DEF Spec

-----------------------------------------------------------------------------
(* The Capsule that the routers lead. *)

CapsuleInv ==
  /\ FsInv
  /\ OnItsPath
  /\ capsule # NoCapsule /\ capsule.onRsp => \E p \in Rsps(RSG) : p.id = capsule.pathId

\* The entry of the PP at its i-th node leads to the next one.
LEMMA PpEntry ==
  ASSUME NEW n, lookupForwardingEntry(n, RSG.primID) # NoPath
  PROVE  \E i \in 1 .. Len(RSG.prim) - 1 :
           RSG.prim[i] = n /\ lookupForwardingEntry(n, RSG.primID) = RSG.prim[i + 1]
<1> DEFINE at == {i \in 1 .. Len(RSG.prim) : RSG.prim[i] = n /\ i + 1 \in 1 .. Len(RSG.prim)}
<1>1. lookupForwardingEntry(n, RSG.primID) = IF at = {} THEN NoPath ELSE RSG.prim[(CHOOSE i \in at : TRUE) + 1]
  BY DEF lookupForwardingEntry
<1>2. at # {}
  BY <1>1
<1>3. PICK i \in at : lookupForwardingEntry(n, RSG.primID) = RSG.prim[i + 1]
  BY <1>1, <1>2
<1>4. Len(RSG.prim) \in Nat
  BY FailoverAssumption
<1>5. i \in 1 .. Len(RSG.prim) - 1
  BY <1>3, <1>4
<1> QED
  BY <1>3, <1>5

\* An entry of an RSP leads one node back on it.
LEMMA RspEntry ==
  ASSUME NEW p \in Rsps(RSG), NEW n, lookupForwardingEntry(n, p.id) # NoPath
  PROVE  \E i \in 2 .. Len(p.nodes) :
           p.nodes[i] = n /\ lookupForwardingEntry(n, p.id) = p.nodes[i - 1]
<1> DEFINE at == {i \in 1 .. Len(p.nodes) : p.nodes[i] = n /\ i + -1 \in 1 .. Len(p.nodes)}
<1>6. p.id # RSG.primID /\ (CHOOSE q \in Rsps(RSG) : q.id = p.id) = p
  BY RspOfId
<1>1. lookupForwardingEntry(n, p.id) = IF at = {} THEN NoPath ELSE p.nodes[(CHOOSE i \in at : TRUE) + -1]
  BY <1>6 DEF lookupForwardingEntry
<1>2. at # {}
  BY <1>1
<1>3. PICK i \in at : lookupForwardingEntry(n, p.id) = p.nodes[i + -1]
  BY <1>1, <1>2
<1>4. Len(p.nodes) \in Nat
  BY RspOfId
<1>5. i \in 2 .. Len(p.nodes) /\ i + -1 = i - 1
  BY <1>3, <1>4
<1> QED
  BY <1>3, <1>5

\* A router on the PP that handles a Capsule sends it by an entry.
LEMMA DeliverKeepsCapsule ==
  ASSUME CapsuleInv, NEW n \in PpNodes, deliverCapsule(n), UNCHANGED controlVars
  PROVE  /\ CapsuleInv'
         /\ capsule' # NoCapsule =>
              /\ capsule'.from = n
              /\ capsule'.onRsp => LeavesAt(n, capsule'.pathId)
<1> DEFINE id == preferredDownPathId[n]
           next == lookupForwardingEntry(n, id)
<1>1. FsInv'
  BY FsUnchanged DEF CapsuleInv, controlVars
<1>2. CASE capsule' = NoCapsule
  BY <1>1, <1>2 DEF CapsuleInv, OnItsPath
<1>3. CASE capsule' # NoCapsule
  <2>1. capsule' = Sent(n, next, id) /\ ~(next = NoPath /\ ~isDownPathInRspState[n])
    BY <1>3 DEF deliverCapsule
  <2>2. DetourHasEntry
    BY FsInvGivesEntries DEF CapsuleInv
  <2>3. next # NoPath
    BY <2>1, <2>2 DEF DetourHasEntry
  <2>4. isDownPathInRspState[n] <=> id # RSG.primID
    BY <2>2 DEF DetourHasEntry
  <2> HIDE DEF next, id
  <2>5. /\ capsule'.from = n
        /\ capsule'.to = next
        /\ capsule'.pathId = id
        /\ capsule'.onRsp <=> id # RSG.primID
    BY <2>1, <2>4 DEF Sent, sendLltcData, sendLltcNonPitData, InFlight
  <2>6. id # RSG.primID => LeavesAt(n, id)
    BY DEF CapsuleInv, FsInv, DetoursLeave, id
  <2>7. OnItsPath'
    BY <2>3, <2>5 DEF OnItsPath, next
  <2>8. capsule'.onRsp => \E p \in Rsps(RSG) : p.id = capsule'.pathId
    BY <2>5, <2>6 DEF LeavesAt
  <2> QED
    BY <1>1, <2>5, <2>6, <2>7, <2>8 DEF CapsuleInv
<1> QED
  BY <1>2, <1>3

\* A Capsule on the PP arrives at its next node.
LEMMA CapsuleArrives ==
  ASSUME CapsuleInv, capsule # NoCapsule, ~capsule.onRsp
  PROVE  \E i \in 1 .. Len(RSG.prim) - 1 :
           capsule.from = RSG.prim[i] /\ capsule.to = RSG.prim[i + 1]
<1>1. /\ capsule.to # NoPath
      /\ lookupForwardingEntry(capsule.from, capsule.pathId) = capsule.to
      /\ capsule.pathId = RSG.primID
  BY DEF CapsuleInv, OnItsPath
<1> QED
  BY <1>1, PpEntry

LEMMA OnThePp ==
  ASSUME NEW i \in 1 .. Len(RSG.prim)
  PROVE  RSG.prim[i] \in PpNodes /\ PpIndex(RSG, RSG.prim[i]) = i
<1>1. RSG.prim[i] \in PpNodes
  BY DEF PpNodes, PathNodes
<1>2. PpIndex(RSG, RSG.prim[i]) \in 1 .. Len(RSG.prim)
      /\ RSG.prim[PpIndex(RSG, RSG.prim[i])] = RSG.prim[i]
  BY <1>1, AtIndex
<1> QED
  BY <1>1, <1>2, FailoverAssumption DEF IsPath

LEMMA InitCapsule == CapsuleInit => CapsuleInv
  BY InitFs DEF CapsuleInit, CapsuleInv, OnItsPath

LEMMA NextKeepsCapsule == CapsuleInv /\ [CapsuleNext]_vars => CapsuleInv'
<1> SUFFICES ASSUME CapsuleInv, [CapsuleNext]_vars PROVE CapsuleInv'
  OBVIOUS
<1>1. ASSUME [Next]_controlVars, UNCHANGED <<capsule, fate>> PROVE CapsuleInv'
  <2>1. FsInv'
    BY <1>1, NextKeepsFs DEF CapsuleInv
  <2> QED
    BY <1>1, <2>1 DEF CapsuleInv, OnItsPath
<1>2. CASE send
  <2>1. Len(RSG.prim) \in Nat /\ Len(RSG.prim) # 0
    BY FailoverAssumption
  <2>2. Producer \in PpNodes
    BY <2>1, OnThePp DEF Producer
  <2> QED
    BY <1>2, <2>2, DeliverKeepsCapsule DEF send
<1>3. CASE onReceiveCapsule
  <2>1. capsule # NoCapsule /\ ~capsule.onRsp
    BY <1>3 DEF onReceiveCapsule, Arrived
  <2>2. PICK i \in 1 .. Len(RSG.prim) - 1 : capsule.to = RSG.prim[i + 1]
    BY <2>1, CapsuleArrives
  <2>3. i + 1 \in 1 .. Len(RSG.prim)
    BY SMTT(30), <2>2, FailoverAssumption
  <2>4. capsule.to \in PpNodes
    BY <2>2, <2>3, OnThePp
  <2> QED
    BY <1>3, <2>4, DeliverKeepsCapsule DEF onReceiveCapsule
<1>4. CASE receiveCapsuleOnRsp
  <2> DEFINE next == lookupForwardingEntry(capsule.to, capsule.pathId)
  <2>1. capsule # NoCapsule /\ capsule.onRsp /\ UNCHANGED controlVars
    BY <1>4 DEF receiveCapsuleOnRsp, Arrived
  <2>2. FsInv'
    BY <2>1, FsUnchanged DEF CapsuleInv, controlVars
  <2>3. CASE capsule' = NoCapsule
    BY <2>2, <2>3 DEF CapsuleInv, OnItsPath
  <2>4. CASE capsule' # NoCapsule
    <3>1. next # NoPath /\ capsule' = sendLltcNonPitData(capsule.to, next, capsule.pathId)
      BY <1>4, <2>4 DEF receiveCapsuleOnRsp
    <3>2. capsule.pathId # RSG.primID /\ \E p \in Rsps(RSG) : p.id = capsule.pathId
      BY <2>1 DEF CapsuleInv, OnItsPath
    <3> HIDE DEF next
    <3>3. /\ capsule'.from = capsule.to
          /\ capsule'.to = next
          /\ capsule'.pathId = capsule.pathId
          /\ capsule'.onRsp = TRUE
      BY <3>1 DEF sendLltcNonPitData, InFlight
    <3>4. OnItsPath'
      BY <3>1, <3>2, <3>3 DEF OnItsPath, next
    <3> QED
      BY <2>2, <3>2, <3>3, <3>4 DEF CapsuleInv
  <2> QED
    BY <2>3, <2>4
<1>5. CASE lose
  <2>1. capsule' = NoCapsule /\ UNCHANGED controlVars
    BY <1>5 DEF lose
  <2>2. FsInv'
    BY <2>1, FsUnchanged DEF CapsuleInv, controlVars
  <2> QED
    BY <2>1, <2>2 DEF CapsuleInv, OnItsPath
<1> QED
  BY <1>1, <1>2, <1>3, <1>4, <1>5 DEF CapsuleNext, vars

\* Routers that disagree, or switch while the Capsule is on its way, do not send
\* it astray, on any RSG: a Capsule is always on a link of the path of its tag.
THEOREM OnItsPathCorrect == CapsuleSpec => []OnItsPath
<1>1. CapsuleInv => OnItsPath
  BY DEF CapsuleInv
<1> QED
  BY <1>1, InitCapsule, NextKeepsCapsule, PTL DEF CapsuleSpec

\* The same of the flags and paths of the routers, which a Capsule leaves alone.
THEOREM DetourHasEntryUnderWay == CapsuleSpec => []DetourHasEntry
<1>1. CapsuleInv => DetourHasEntry
  BY FsInvGivesEntries DEF CapsuleInv
<1> QED
  BY <1>1, InitCapsule, NextKeepsCapsule, PTL DEF CapsuleSpec

-----------------------------------------------------------------------------
(* A Capsule moves on. *)

LEMMA FinitePath == ASSUME NEW s \in Seq(Nat) PROVE IsFiniteSet(PathNodes(s))
  BY FiniteRange DEF PathNodes

LEMMA NodesFinite == Cardinality(Nodes) \in Nat /\ Cardinality(Nodes) > 0
<1> DEFINE N == Len(RSG.rsps)
           f == [i \in 1 .. N |-> PathNodes(RSG.rsps[i].nodes)]
           S == {f[i] : i \in 1 .. N}
<1>1. N \in Nat /\ RSG.prim \in Seq(Nat) /\ RSG.prim # <<>>
  BY FailoverAssumption
<1>2. IsFiniteSet(S)
  <2>1. DOMAIN f = 1 .. N
    OBVIOUS
  <2> HIDE DEF f, N
  <2> QED
    BY <1>1, <2>1, FiniteRange
<1>3. \A T \in S : IsFiniteSet(T)
  <2> SUFFICES ASSUME NEW i \in 1 .. N PROVE IsFiniteSet(f[i])
    OBVIOUS
  <2>1. RSG.rsps[i].nodes \in Seq(Nat)
    BY FailoverAssumption
  <2> QED
    BY <2>1, FinitePath
<1>4. IsFiniteSet(UNION S)
  <2> HIDE DEF S
  <2> QED
    BY <1>2, <1>3, FS_UNION
<1>5. UNION {PathNodes(p.nodes) : p \in Rsps(RSG)} = UNION S
  BY DEF Rsps
<1>6. IsFiniteSet(PpNodes)
  BY <1>1, FinitePath DEF PpNodes
<1>7. IsFiniteSet(Nodes)
  BY <1>4, <1>5, <1>6, FS_Union DEF Nodes
<1>8. Nodes # {}
  <2>1. 1 \in 1 .. Len(RSG.prim)
    BY <1>1
  <2> QED
    BY <2>1, OnThePp DEF Nodes
<1> QED
  BY <1>7, <1>8, FS_CardinalityType, FS_EmptySet

\* A Capsule on the PP at n counts less than any that leaves the next node.
LEMMA ProgressOnPp ==
  ASSUME NEW c, ~c.onRsp, NEW i \in 1 .. Len(RSG.prim), c.from = RSG.prim[i]
  PROVE  Progress(c) = i * Cardinality(Nodes)
  BY OnThePp DEF Progress

LEMMA ProgressOnRsp ==
  ASSUME NEW c, c.onRsp, NEW p \in Rsps(RSG), c.pathId = p.id,
         NEW i \in 1 .. Len(p.nodes), c.from = p.nodes[i]
  PROVE  Progress(c) = PpIndex(RSG, p.nodes[Len(p.nodes)]) * Cardinality(Nodes) + Len(p.nodes) - i
<1>1. (CHOOSE q \in Rsps(RSG) : q.id = p.id) = p /\ IsPath(p.nodes)
  BY RspOfId
<1>2. \A j \in 1 .. Len(p.nodes) : p.nodes[j] = c.from <=> j = i
  BY <1>1 DEF IsPath
<1>3. (CHOOSE j \in 1 .. Len(p.nodes) : p.nodes[j] = c.from) = i
  BY <1>2
<1> QED
  BY <1>1, <1>3 DEF Progress

LEMMA StepMovesOn ==
  ASSUME CapsuleInv, CapsuleNext, capsule # NoCapsule, capsule' # NoCapsule, capsule' # capsule
  PROVE  Progress(capsule') > Progress(capsule)
<1> DEFINE C == Cardinality(Nodes)
<1>0. C \in Nat /\ C > 0 /\ Len(RSG.prim) \in Nat
  BY NodesFinite, FailoverAssumption
<1> HIDE DEF C
<1>1. CASE onReceiveCapsule
  <2>1. ~capsule.onRsp
    BY <1>1 DEF onReceiveCapsule, Arrived
  <2>2. PICK i \in 1 .. Len(RSG.prim) - 1 : capsule.from = RSG.prim[i] /\ capsule.to = RSG.prim[i + 1]
    BY <2>1, CapsuleArrives
  <2>3. i \in 1 .. Len(RSG.prim) /\ i + 1 \in 1 .. Len(RSG.prim)
    BY <1>0
  <2>4. Progress(capsule) = i * C
    BY <2>1, <2>2, <2>3, ProgressOnPp DEF C
  <2>5. capsule.to \in PpNodes /\ PpIndex(RSG, capsule.to) = i + 1
    BY <2>2, <2>3, OnThePp
  <2>6. /\ capsule'.from = capsule.to
        /\ capsule'.onRsp => LeavesAt(capsule.to, capsule'.pathId)
    BY <1>1, <2>5, DeliverKeepsCapsule DEF onReceiveCapsule
  <2>7. CASE ~capsule'.onRsp
    <3>1. Progress(capsule') = (i + 1) * C
      BY <2>2, <2>3, <2>6, <2>7, ProgressOnPp DEF C
    <3> QED
      BY <1>0, <2>3, <2>4, <3>1
  <2>8. CASE capsule'.onRsp
    <3>1. PICK p \in Rsps(RSG) : p.id = capsule'.pathId /\ p.nodes[Len(p.nodes)] = capsule.to
      BY <2>6, <2>8 DEF LeavesAt
    <3>2. Len(p.nodes) \in 1 .. Len(p.nodes)
      BY RspOfId
    <3>3. Progress(capsule') = PpIndex(RSG, p.nodes[Len(p.nodes)]) * C + Len(p.nodes) - Len(p.nodes)
      BY <2>6, <2>8, <3>1, <3>2, ProgressOnRsp DEF C
    <3>4. Progress(capsule') = (i + 1) * C
      BY <1>0, <2>3, <2>5, <3>1, <3>2, <3>3
    <3> QED
      BY <1>0, <2>3, <2>4, <3>4
  <2> QED
    BY <2>7, <2>8
<1>2. CASE receiveCapsuleOnRsp
  <2> DEFINE next == lookupForwardingEntry(capsule.to, capsule.pathId)
  <2>1. capsule.onRsp /\ next # NoPath /\ capsule' = sendLltcNonPitData(capsule.to, next, capsule.pathId)
    BY <1>2 DEF receiveCapsuleOnRsp, Arrived
  <2>2. capsule'.from = capsule.to /\ capsule'.pathId = capsule.pathId /\ capsule'.onRsp
    <3> HIDE DEF next
    <3> QED
      BY <2>1 DEF sendLltcNonPitData, InFlight
  <2>3. PICK p \in Rsps(RSG) : p.id = capsule.pathId
    BY <2>1 DEF CapsuleInv
  <2>4. lookupForwardingEntry(capsule.from, p.id) = capsule.to /\ capsule.to # NoPath
    BY <2>3 DEF CapsuleInv, OnItsPath
  <2>5. PICK i \in 2 .. Len(p.nodes) : p.nodes[i] = capsule.from /\ capsule.to = p.nodes[i - 1]
    BY <2>4, RspEntry
  <2>6. Len(p.nodes) \in Nat /\ p.nodes[Len(p.nodes)] \in PpNodes
    BY RspOfId
  <2>7. i \in 1 .. Len(p.nodes) /\ i - 1 \in 1 .. Len(p.nodes)
    BY <2>6
  <2> DEFINE base == PpIndex(RSG, p.nodes[Len(p.nodes)]) * C
  <2>8. Progress(capsule) = base + Len(p.nodes) - i
    BY <2>1, <2>3, <2>5, <2>7, ProgressOnRsp DEF C
  <2>9. Progress(capsule') = base + Len(p.nodes) - (i - 1)
    BY <2>2, <2>3, <2>5, <2>7, ProgressOnRsp DEF C
  <2>10. base \in Int
    BY <1>0, <2>6, AtIndex
  <2> HIDE DEF base
  <2> QED
    BY <2>6, <2>7, <2>8, <2>9, <2>10
<1>3. CASE send
  BY <1>3 DEF send
<1>4. CASE lose
  BY <1>4 DEF lose
<1> QED
  BY <1>1, <1>2, <1>3, <1>4 DEF CapsuleNext

\* A Capsule never loops, on any RSG: every router that handles it moves it on,
\* along the PP or along an RSP from its upstream end, whatever the others prefer.
THEOREM NeverBackCorrect == CapsuleSpec => NeverBack
<1>1. CapsuleInv /\ [CapsuleNext]_vars =>
        [capsule # NoCapsule /\ capsule' # NoCapsule =>
           capsule' = capsule \/ Progress(capsule') > Progress(capsule)]_vars
  BY StepMovesOn DEF vars
<1> QED
  BY <1>1, InitCapsule, NextKeepsCapsule, PTL DEF CapsuleSpec, NeverBack
=============================================================================
