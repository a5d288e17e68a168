------------------------ MODULE FibonacciHeapProofs ------------------------
(***************************************************************************)
(* What the operations of the heap keep and return, for heaps of any size: *)
(* lemmas, for the modules that use the heap.                              *)
(*                                                                         *)
(* A heap is sound (HeapInv of FibonacciHeap) if its lists are closed in   *)
(* both directions, each the list of the children of one node or that of   *)
(* the roots, if the nodes hang in trees by falling keys, have the degrees *)
(* of their numbers of children, and MaxNode is a root with the largest    *)
(* key.  The degrees are bound, so that the table by degrees that relink   *)
(* fills is large enough: a node of degree d has at least 2 to the d / 2   *)
(* below it or had so before cuts, which decreases of keys alone can do.   *)
(***************************************************************************)
EXTENDS FibonacciHeap, FiniteSetTheorems, WellFoundedInduction, TLAPS

-----------------------------------------------------------------------------
\* Some numbers have a least one.
LEMMA LeastOfNats ==
  ASSUME NEW T, T \subseteq Nat, T # {}
  PROVE  \E x \in T : \A y \in T : x <= y
<1>1. PICK x \in T : \A y \in T : ~ (<<y, x>> \in OpToRel(<, Nat))
  BY WFMin, NatLessThanWellFounded
<1>2. \A y \in T : ~(y < x)
  BY <1>1 DEF OpToRel
<1> QED
  BY <1>2

\* What holds at first and from each number to the next holds for all.
LEMMA CountUp ==
  ASSUME NEW n \in Nat, NEW K, 0 \in K, \A k \in 1 .. n : k - 1 \in K => k \in K
  PROVE  \A k \in 0 .. n : k \in K
<1> DEFINE T == {k \in 0 .. n : k \notin K}
<1>1. SUFFICES ASSUME T # {} PROVE FALSE
  OBVIOUS
<1>2. PICK x \in T : \A y \in T : x <= y
  <2>1. T \subseteq Nat
    OBVIOUS
  <2> HIDE DEF T
  <2> QED
    BY <1>1, <2>1, LeastOfNats
<1>3. x \in 1 .. n /\ x - 1 \in 0 .. n /\ x - 1 \notin T
  BY <1>2
<1> QED
  BY <1>2, <1>3

-----------------------------------------------------------------------------
(* Loops.  stage[i] has the states possible after i rounds, F[i] maps those *)
(* before the i-th round to those after it.                                 *)

IsRun(f, k, s, F, stage) ==
  /\ f[0] = s
  /\ \A i \in 1 .. k : f[i] = F[i][f[i - 1]]
  /\ \A i \in 0 .. k : f[i] \in stage[i]

IsTrace(f, n) == f = [i \in 0 .. n |-> f[i]]
HasRun(n, k, s, F, stage) == \E f : IsTrace(f, n) /\ IsRun(f, k, s, F, stage)

LEMMA OneMoreRound ==
  ASSUME NEW n \in Nat, NEW stage, NEW s, NEW F, NEW k \in 1 .. n,
         F[k] \in [stage[k - 1] -> stage[k]], HasRun(n, k - 1, s, F, stage)
  PROVE  HasRun(n, k, s, F, stage)
<1>1. PICK f : IsTrace(f, n) /\ IsRun(f, k - 1, s, F, stage)
  BY DEF HasRun
<1> DEFINE g == [i \in 0 .. n |-> IF i = k THEN F[k][f[k - 1]] ELSE f[i]]
<1>2. /\ IsTrace(g, n) /\ g[k] = F[k][f[k - 1]]
      /\ \A i \in 0 .. k - 1 : g[i] = f[i]
  BY DEF IsTrace
<1> HIDE DEF g
<1>0. 0 \in 0 .. k - 1 /\ k - 1 \in 0 .. k - 1
  OBVIOUS
<1>3. g[k] \in stage[k]
  <2>1. f[k - 1] \in stage[k - 1]
    BY <1>0, <1>1 DEF IsRun
  <2> QED
    BY <1>2, <2>1
<1>4. ASSUME NEW i \in 1 .. k PROVE g[i] = F[i][g[i - 1]]
  <2>1. CASE i = k
    BY <1>0, <2>1, <1>2
  <2>2. CASE i # k
    <3>1. i \in 1 .. k - 1 /\ i \in 0 .. k - 1 /\ i - 1 \in 0 .. k - 1
      BY <2>2
    <3>2. f[i] = F[i][f[i - 1]]
      BY <3>1, <1>1 DEF IsRun
    <3> QED
      BY <3>1, <3>2, <1>2
  <2> QED
    BY <2>1, <2>2
<1>5. ASSUME NEW i \in 0 .. k PROVE g[i] \in stage[i]
  <2>1. i = k \/ i \in 0 .. k - 1
    OBVIOUS
  <2> QED
    BY <2>1, <1>1, <1>2, <1>3 DEF IsRun
<1>6. g[0] = s
  BY <1>0, <1>1, <1>2 DEF IsRun
<1>7. IsRun(g, k, s, F, stage)
  BY <1>4, <1>5, <1>6 DEF IsRun
<1> QED
  BY <1>2, <1>7 DEF HasRun

LEMMA RunExists ==
  ASSUME NEW n \in Nat, NEW stage, NEW s \in stage[0],
         NEW F, \A i \in 1 .. n : F[i] \in [stage[i - 1] -> stage[i]]
  PROVE  \E f : IsTrace(f, n) /\ IsRun(f, n, s, F, stage)
<1> DEFINE K == {k \in 0 .. n : HasRun(n, k, s, F, stage)}
<1>1. 0 \in K
  <2> DEFINE f == [i \in 0 .. n |-> s]
  <2>1. IsTrace(f, n) /\ f[0] = s
    BY DEF IsTrace
  <2> HIDE DEF f
  <2>2. IsRun(f, 0, s, F, stage)
    BY <2>1 DEF IsRun
  <2> QED
    BY <2>1, <2>2 DEF HasRun
<1>2. ASSUME NEW k \in 1 .. n, k - 1 \in K
      PROVE  k \in K
  BY <1>2, OneMoreRound
<1>3. n \in K
  <2>1. \A k \in 1 .. n : k - 1 \in K => k \in K
    BY <1>2
  <2> HIDE DEF K
  <2> QED
    BY <1>1, <2>1, CountUp
<1> QED
  BY <1>3 DEF HasRun

LEMMA RunStays ==
  ASSUME NEW n \in Nat, NEW stage, NEW f, f[0] \in stage[0],
         \A i \in 1 .. n : f[i - 1] \in stage[i - 1] => f[i] \in stage[i]
  PROVE  \A i \in 0 .. n : f[i] \in stage[i]
<1> DEFINE K == {k \in 0 .. n : f[k] \in stage[k]}
<1>1. 0 \in K /\ \A k \in 1 .. n : k - 1 \in K => k \in K
  OBVIOUS
<1> HIDE DEF K
<1>2. \A k \in 0 .. n : k \in K
  BY <1>1, CountUp
<1> QED
  BY <1>2 DEF K

-----------------------------------------------------------------------------
(* Circular lists.  The nodes of S are in lists, those of a list have one   *)
(* class, and a list has all nodes of its class: a set that right does not  *)
(* lead out of has the whole class of each of its nodes.                    *)

Stays(next, C) == \A x \in C : next[x] \in C

Whole(right, cls, S) ==
  \A C \in SUBSET S : Stays(right, C) => \A x \in C, y \in S : cls[x] = cls[y] => y \in C

Paired(left, right, cls, S) ==
  \A x \in S : /\ left[x] \in S /\ right[x] \in S
               /\ left[right[x]] = x /\ right[left[x]] = x
               /\ cls[right[x]] = cls[x]

Circular(left, right, cls, S) == Paired(left, right, cls, S) /\ Whole(right, cls, S)

\* Only x has its class.
Alone(cls, S, x) == \A z \in S \ {x} : cls[z] # cls[x]

\* right2 is right without x, which is a list of its own.
Isolates(left, right, left2, right2, S, x) ==
  /\ \A z \in S : right2[z] = IF z = x THEN x ELSE IF z = left[x] THEN right[x] ELSE right[z]
  /\ \A z \in S : left2[z] = IF z = x THEN x ELSE IF z = right[x] THEN left[x] ELSE left[z]

\* right2 is right with x after m.
Joins(left, right, left2, right2, S, x, m) ==
  /\ \A z \in S : right2[z] = IF z = m THEN x ELSE IF z = x THEN right[m] ELSE right[z]
  /\ \A z \in S : left2[z] = IF z = right[m] THEN x ELSE IF z = x THEN m ELSE left[z]

\* A class is one list still when one of its nodes has left it.
LEMMA IsolatedLists ==
  ASSUME NEW S, NEW left, NEW right, NEW cls, Circular(left, right, cls, S), NEW x \in S,
         NEW left2, NEW right2, NEW cls2, Isolates(left, right, left2, right2, S, x),
         \A z \in S \ {x} : cls2[z] = cls[z], Alone(cls2, S, x)
  PROVE  Circular(left2, right2, cls2, S)
<1> USE DEF Stays
<1>1. Paired(left2, right2, cls2, S)
  <2> SUFFICES ASSUME NEW z \in S
               PROVE  /\ left2[z] \in S /\ right2[z] \in S
                      /\ left2[right2[z]] = z /\ right2[left2[z]] = z
                      /\ cls2[right2[z]] = cls2[z]
    BY DEF Paired
  <2> QED
    BY DEF Circular, Paired, Isolates
<1>2. ASSUME NEW C \in SUBSET S, Stays(right2, C), NEW a \in C, NEW b \in S, cls2[a] = cls2[b]
      PROVE  b \in C
  <2> DEFINE D == IF left[x] \in C \ {x} THEN C \cup {x} ELSE C \ {x}
  <2>1. Stays(right, D)
    BY <1>2 DEF Circular, Paired, Isolates
  <2>2. CASE a = x \/ b = x
    BY <1>2, <2>2 DEF Alone
  <2>3. CASE a # x /\ b # x
    <3>1. a \in D /\ D \in SUBSET S /\ cls[a] = cls[b]
      BY <2>3, <1>2
    <3>2. b \in D
      <4> HIDE DEF D
      <4> QED
        BY <3>1, <2>1 DEF Circular, Whole
    <3> QED
      BY <3>2, <2>3
  <2> QED
    BY <2>2, <2>3
<1>3. Whole(right2, cls2, S)
  BY <1>2 DEF Whole
<1> QED
  BY <1>1, <1>3 DEF Circular

\* Nor do lists fall apart when a node that was alone joins one.
LEMMA JoinedLists ==
  ASSUME NEW S, NEW left, NEW right, NEW cls, Circular(left, right, cls, S),
         NEW x \in S, NEW m \in S, m # x, Alone(cls, S, x),
         NEW left2, NEW right2, NEW cls2, Joins(left, right, left2, right2, S, x, m),
         \A z \in S : cls2[z] = IF z = x THEN cls[m] ELSE cls[z]
  PROVE  Circular(left2, right2, cls2, S)
<1> USE DEF Stays
<1>0. right[x] = x /\ left[x] = x /\ right[m] # x /\ right[m] \in S /\ cls[right[m]] = cls[m]
  BY DEF Circular, Paired, Alone
<1>1. Paired(left2, right2, cls2, S)
  <2> SUFFICES ASSUME NEW z \in S
               PROVE  /\ left2[z] \in S /\ right2[z] \in S
                      /\ left2[right2[z]] = z /\ right2[left2[z]] = z
                      /\ cls2[right2[z]] = cls2[z]
    BY DEF Paired
  <2> QED
    BY <1>0 DEF Circular, Paired, Joins
<1>2. ASSUME NEW C \in SUBSET S, Stays(right2, C)
      PROVE  \A a \in C \ {x}, b \in S : cls2[a] = cls2[b] => b \in C
  <2> DEFINE D == C \ {x}
  <2>1. Stays(right, D)
    BY <1>2, <1>0 DEF Circular, Paired, Joins
  <2>2. ASSUME NEW a \in D, NEW b \in S \ {x}, cls[a] = cls[b]
        PROVE  b \in D
    <3> D \in SUBSET S
      OBVIOUS
    <3> HIDE DEF D
    <3> QED
      BY <2>1, <2>2 DEF Circular, Whole
  <2>3. ASSUME NEW a \in D, cls2[a] = cls2[x]
        PROVE  x \in C
    <3>1. cls[a] = cls[m]
      BY <2>3
    <3>2. m \in D
      BY <3>1, <2>2
    <3> QED
      BY <3>2, <1>2 DEF Joins
  <2> QED
    BY <2>2, <2>3
<1>3. ASSUME NEW C \in SUBSET S, Stays(right2, C), NEW a \in C, NEW b \in S, cls2[a] = cls2[b]
      PROVE  b \in C
  <2>1. CASE a # x
    BY <2>1, <1>2, <1>3
  <2>2. CASE a = x
    <3>1. right[m] \in C \ {x} /\ cls2[right[m]] = cls2[x]
      BY <2>2, <1>0, <1>3 DEF Joins
    <3> QED
      BY <3>1, <1>2, <1>3, <2>2
  <2> QED
    BY <2>1, <2>2
<1>4. Whole(right2, cls2, S)
  BY <1>3 DEF Whole
<1> QED
  BY <1>1, <1>4 DEF Circular

-----------------------------------------------------------------------------
(* Trees.  No set of nodes has all their parents in it, as it would if a    *)
(* node were its own ancestor.                                              *)

NodeOrNull(Id) == Id \cup {NULL}

HeapsOn(Id) ==
  [key : [Id -> Int], left : [Id -> Id], right : [Id -> Id], child : [Id -> NodeOrNull(Id)],
   parent : [Id -> NodeOrNull(Id)], degree : [Id -> Int], mark : [Id -> BOOLEAN],
   maxNode : NodeOrNull(Id), numberOfNodes : Int]

Kids(parent, S, x) == {y \in S : parent[y] = x}

Rooted(parent, S) ==
  /\ \A x \in S : parent[x] \in S \cup {NULL}
  /\ \A T \in SUBSET S : T # {} => \E x \in T : parent[x] \notin T

FamiliesAgree(child, degree, parent, S) ==
  \A x \in S :
    /\ child[x] = NULL => Kids(parent, S, x) = {}
    /\ child[x] # NULL => child[x] \in S /\ parent[child[x]] = x
    /\ degree[x] = Cardinality(Kids(parent, S, x))

\* The pointers of the nodes of S are right.
Forest(h, S) ==
  /\ Circular(h.left, h.right, h.parent, S)
  /\ Rooted(h.parent, S)
  /\ FamiliesAgree(h.child, h.degree, h.parent, S)

Ordered(h, S) == \A x \in S : h.parent[x] # NULL => h.key[x] <= h.key[h.parent[x]]

IsRoot(h, S, x) == x \in S /\ h.parent[x] = NULL

\* Node ids are numbers, so that NULL is none.
Ids(Id) == IsFiniteSet(Id) /\ Id \subseteq Nat

HeapOn(h, S, Id) ==
  /\ h \in HeapsOn(Id)
  /\ S \subseteq Id
  /\ Forest(h, S)
  /\ Ordered(h, S)

HeapInv(h, S, Id) ==
  /\ HeapOn(h, S, Id)
  /\ h.numberOfNodes = Cardinality(S)
  /\ S = {} => h.maxNode = NULL
  /\ S # {} => IsRoot(h, S, h.maxNode) /\ \A x \in S : h.key[x] <= h.key[h.maxNode]

\* The fields of a heap.
LEMMA HeapFields ==
  ASSUME NEW Id, NEW h \in HeapsOn(Id)
  PROVE  /\ h.key \in [Id -> Int] /\ h.left \in [Id -> Id] /\ h.right \in [Id -> Id]
         /\ h.child \in [Id -> NodeOrNull(Id)] /\ h.parent \in [Id -> NodeOrNull(Id)]
         /\ h.degree \in [Id -> Int] /\ h.mark \in [Id -> BOOLEAN]
         /\ h.maxNode \in NodeOrNull(Id) /\ h.numberOfNodes \in Int
BY DEF HeapsOn

LEMMA SubsetCard ==
  ASSUME NEW Id, Ids(Id), NEW T \in SUBSET Id
  PROVE  IsFiniteSet(T) /\ Cardinality(T) \in Nat /\ Cardinality(T) <= Cardinality(Id)
BY FS_Subset, FS_CardinalityType DEF Ids

\* Whoever is above all roots is above all nodes.
LEMMA RootsAreAbove ==
  ASSUME NEW Id, Ids(Id), NEW S, NEW h, HeapOn(h, S, Id), NEW k \in Int,
         \A x \in S : h.parent[x] = NULL => h.key[x] <= k
  PROVE  \A x \in S : h.key[x] <= k
<1> DEFINE T == {x \in S : ~(h.key[x] <= k)}
<1>1. CASE T = {}
  BY <1>1
<1>2. CASE T # {}
  <2>1. PICK x \in T : h.parent[x] \notin T
    <3> HIDE DEF T
    <3>1. T \in SUBSET S
      BY DEF T
    <3> QED
      BY <3>1, <1>2 DEF HeapOn, Forest, Rooted
  <2>2. x \in Id /\ h.key \in [Id -> Int] /\ h.parent[x] \in S \cup {NULL} /\ S \subseteq Id
    BY HeapFields DEF HeapOn, Forest, Rooted
  <2>3. h.parent[x] # NULL
    BY <2>2
  <2>4. h.key[x] <= h.key[h.parent[x]] /\ h.key[h.parent[x]] <= k
    BY <2>1, <2>2, <2>3 DEF HeapOn, Ordered
  <2> QED
    BY <2>2, <2>3, <2>4
<1> QED
  BY <1>1, <1>2

LEMMA SomeRoot ==
  ASSUME NEW Id, NEW S, S # {}, NEW h, HeapOn(h, S, Id)
  PROVE  \E x \in S : IsRoot(h, S, x)
BY DEF HeapOn, Forest, Rooted, IsRoot

-----------------------------------------------------------------------------
(* Pointer surgery. *)

SameButDegree(g, h) ==
  /\ g.key = h.key /\ g.left = h.left /\ g.right = h.right /\ g.child = h.child
  /\ g.parent = h.parent /\ g.maxNode = h.maxNode /\ g.numberOfNodes = h.numberOfNodes

SameButChild(g, h) ==
  /\ g.key = h.key /\ g.left = h.left /\ g.right = h.right /\ g.degree = h.degree
  /\ g.parent = h.parent /\ g.maxNode = h.maxNode /\ g.numberOfNodes = h.numberOfNodes

SameButParent(g, h) ==
  /\ g.key = h.key /\ g.left = h.left /\ g.right = h.right /\ g.child = h.child
  /\ g.degree = h.degree /\ g.maxNode = h.maxNode /\ g.numberOfNodes = h.numberOfNodes

withDegree(h, x, n) == [h EXCEPT !.degree[x] = n]
withChild(h, x, c) == [h EXCEPT !.child[x] = c]
withParent(h, x, p) == [h EXCEPT !.parent[x] = p, !.mark[x] = FALSE]

LEMMA WithDegree ==
  ASSUME NEW Id, NEW h \in HeapsOn(Id), NEW x \in Id, NEW n \in Int
  PROVE  /\ withDegree(h, x, n) \in HeapsOn(Id) /\ SameButDegree(withDegree(h, x, n), h)
         /\ withDegree(h, x, n).degree = [h.degree EXCEPT ![x] = n]
BY DEF withDegree, HeapsOn, SameButDegree

LEMMA WithChild ==
  ASSUME NEW Id, NEW h \in HeapsOn(Id), NEW x \in Id, NEW c \in NodeOrNull(Id)
  PROVE  /\ withChild(h, x, c) \in HeapsOn(Id) /\ SameButChild(withChild(h, x, c), h)
         /\ withChild(h, x, c).child = [h.child EXCEPT ![x] = c]
BY DEF withChild, HeapsOn, SameButChild

LEMMA WithParent ==
  ASSUME NEW Id, NEW h \in HeapsOn(Id), NEW x \in Id, NEW p \in NodeOrNull(Id)
  PROVE  /\ withParent(h, x, p) \in HeapsOn(Id) /\ SameButParent(withParent(h, x, p), h)
         /\ withParent(h, x, p).parent = [h.parent EXCEPT ![x] = p]
BY DEF withParent, HeapsOn, SameButParent

\* All but the pointers to the left and to the right.
SameButLists(g, h) ==
  /\ g.key = h.key /\ g.child = h.child /\ g.parent = h.parent /\ g.degree = h.degree
  /\ g.mark = h.mark /\ g.maxNode = h.maxNode /\ g.numberOfNodes = h.numberOfNodes

Unlinked(g, h, x) ==
  /\ SameButLists(g, h)
  /\ g.right = [h.right EXCEPT ![h.left[x]] = h.right[x]]
  /\ g.left = [h.left EXCEPT ![g.right[x]] = h.left[x]]

Linked(g, h, x, m) ==
  /\ SameButLists(g, h)
  /\ g.right = [[h.right EXCEPT ![x] = h.right[m]] EXCEPT ![m] = x]
  /\ g.left = [[h.left EXCEPT ![x] = m] EXCEPT ![g.right[x]] = x]

LEMMA UnlinkIs ==
  ASSUME NEW Id, NEW h \in HeapsOn(Id), NEW x \in Id
  PROVE  unlink(h, x) \in HeapsOn(Id) /\ Unlinked(unlink(h, x), h, x)
BY DEF unlink, HeapsOn, SameButLists, Unlinked

LEMMA LinkIs ==
  ASSUME NEW Id, NEW h \in HeapsOn(Id), NEW x \in Id, NEW m \in Id
  PROVE  linkRightOf(h, x, m) \in HeapsOn(Id) /\ Linked(linkRightOf(h, x, m), h, x, m)
BY DEF linkRightOf, HeapsOn, SameButLists, Linked

\* h after x has been moved to the right of m.
moved(h, x, m) == linkRightOf(unlink(h, x), x, m)

LEMMA MovedIs ==
  ASSUME NEW Id, NEW h \in HeapsOn(Id), NEW x \in Id, NEW m \in Id
  PROVE  moved(h, x, m) \in HeapsOn(Id) /\ SameButLists(moved(h, x, m), h)
<1>1. unlink(h, x) \in HeapsOn(Id) /\ SameButLists(unlink(h, x), h)
  BY UnlinkIs DEF Unlinked
<1>2. /\ moved(h, x, m) \in HeapsOn(Id)
      /\ SameButLists(moved(h, x, m), unlink(h, x))
  BY <1>1, LinkIs DEF moved, Linked
<1> QED
  BY <1>1, <1>2 DEF SameButLists

\* x alone, and the rest of the list it was in.
LEMMA UnlinkIsolates ==
  ASSUME NEW Id, NEW h \in HeapsOn(Id), NEW S \in SUBSET Id, NEW x \in S,
         NEW cls, Circular(h.left, h.right, cls, S)
  PROVE  Isolates(h.left, h.right, [unlink(h, x).left EXCEPT ![x] = x],
                  [unlink(h, x).right EXCEPT ![x] = x], S, x)
<1>0. Unlinked(unlink(h, x), h, x)
  BY UnlinkIs
<1>1. /\ h.left \in [Id -> Id] /\ h.right \in [Id -> Id]
      /\ unlink(h, x).right = [h.right EXCEPT ![h.left[x]] = h.right[x]]
      /\ unlink(h, x).left = [h.left EXCEPT ![unlink(h, x).right[x]] = h.left[x]]
  BY <1>0, HeapFields DEF Unlinked
<1>2. \A z \in S : z \in Id /\ h.left[z] \in S /\ h.right[z] \in S /\ h.left[h.right[z]] = z /\ h.right[h.left[z]] = z
  BY DEF Circular, Paired
<1>3. unlink(h, x).right[x] = h.right[x]
  BY <1>1, <1>2
<1> QED
  BY <1>1, <1>2, <1>3 DEF Isolates

LEMMA LinkJoins ==
  ASSUME NEW Id, NEW h \in HeapsOn(Id), NEW S \in SUBSET Id, NEW x \in S, NEW m \in S, x # m,
         NEW left, NEW right, NEW cls, Circular(left, right, cls, S),
         left = [h.left EXCEPT ![x] = x], right = [h.right EXCEPT ![x] = x],
         Alone(cls, S, x)
  PROVE  Joins(left, right, linkRightOf(h, x, m).left, linkRightOf(h, x, m).right, S, x, m)
<1>0. Linked(linkRightOf(h, x, m), h, x, m)
  BY LinkIs
<1>1. /\ h.left \in [Id -> Id] /\ h.right \in [Id -> Id]
      /\ linkRightOf(h, x, m).right = [[h.right EXCEPT ![x] = h.right[m]] EXCEPT ![m] = x]
      /\ linkRightOf(h, x, m).left = [[h.left EXCEPT ![x] = m] EXCEPT ![linkRightOf(h, x, m).right[x]] = x]
  BY <1>0, HeapFields DEF Linked
<1>2. \A z \in S : z \in Id /\ left[z] \in S /\ right[z] \in S /\ left[right[z]] = z /\ right[left[z]] = z /\ cls[right[z]] = cls[z]
  BY DEF Circular, Paired
<1>3. right[x] = x /\ right[m] # x /\ right[m] = h.right[m]
  BY <1>1, <1>2 DEF Alone
<1>4. linkRightOf(h, x, m).right[x] = h.right[m]
  BY <1>1, <1>2, <1>3
<1> QED
  BY <1>1, <1>2, <1>3, <1>4 DEF Joins

\* x moves from its list to that of m.
LEMMA MovedLists ==
  ASSUME NEW Id, Ids(Id), NEW h \in HeapsOn(Id), NEW S \in SUBSET Id, NEW x \in S, NEW m \in S, x # m,
         Circular(h.left, h.right, h.parent, S),
         NEW cls, \A z \in S : cls[z] = IF z = x THEN h.parent[m] ELSE h.parent[z]
  PROVE  Circular(moved(h, x, m).left, moved(h, x, m).right, cls, S)
<1> DEFINE g == unlink(h, x)
           alone == [h.parent EXCEPT ![x] = -2]
           left == [g.left EXCEPT ![x] = x]
           right == [g.right EXCEPT ![x] = x]
<1>1. g \in HeapsOn(Id)
  BY UnlinkIs
<1>2. Isolates(h.left, h.right, left, right, S, x)
  BY UnlinkIsolates
<1>3. Alone(alone, S, x) /\ \A z \in S : alone[z] = IF z = x THEN -2 ELSE h.parent[z]
  <2>1. h.parent \in [Id -> NodeOrNull(Id)]
    BY HeapFields
  <2> QED
    BY <2>1 DEF Alone, Ids, NodeOrNull, NULL
<1>4. Circular(left, right, alone, S)
  <2> HIDE DEF left, right, alone
  <2> QED
    BY <1>2, <1>3, IsolatedLists
<1>5. Joins(left, right, linkRightOf(g, x, m).left, linkRightOf(g, x, m).right, S, x, m)
  <2>1. left = [g.left EXCEPT ![x] = x] /\ right = [g.right EXCEPT ![x] = x]
    OBVIOUS
  <2> HIDE DEF left, right, alone, g
  <2> QED
    BY <1>1, <1>3, <1>4, <2>1, LinkJoins
<1>6. \A z \in S : cls[z] = IF z = x THEN alone[m] ELSE alone[z]
  BY <1>3
<1> HIDE DEF left, right, alone, g
<1>7. Circular(linkRightOf(g, x, m).left, linkRightOf(g, x, m).right, cls, S)
  BY <1>3, <1>4, <1>5, <1>6, JoinedLists
<1> QED
  BY <1>7 DEF g, moved

\* Moving looks at the lists only.
LEMMA MovedLooksAtLists ==
  ASSUME NEW Id, NEW h \in HeapsOn(Id), NEW g \in HeapsOn(Id), NEW x \in Id, NEW m \in Id,
         g.left = h.left, g.right = h.right
  PROVE  moved(g, x, m).left = moved(h, x, m).left /\ moved(g, x, m).right = moved(h, x, m).right
<1>1. /\ unlink(g, x) \in HeapsOn(Id) /\ Unlinked(unlink(g, x), g, x)
      /\ unlink(h, x) \in HeapsOn(Id) /\ Unlinked(unlink(h, x), h, x)
  BY UnlinkIs
<1>2. unlink(g, x).right = unlink(h, x).right /\ unlink(g, x).left = unlink(h, x).left
  BY <1>1 DEF Unlinked
<1>3. Linked(moved(g, x, m), unlink(g, x), x, m) /\ Linked(moved(h, x, m), unlink(h, x), x, m)
  BY <1>1, LinkIs DEF moved
<1> QED
  BY <1>2, <1>3 DEF Linked

\* A node that is linked in anew is moved, whatever else was changed meanwhile.
LEMMA LinkedIsMoved ==
  ASSUME NEW Id, NEW h \in HeapsOn(Id), NEW f \in HeapsOn(Id), NEW x \in Id, NEW m \in Id,
         f.left = unlink(h, x).left, f.right = unlink(h, x).right
  PROVE  /\ linkRightOf(f, x, m).left = moved(h, x, m).left
         /\ linkRightOf(f, x, m).right = moved(h, x, m).right
<1>1. Linked(linkRightOf(f, x, m), f, x, m)
  BY LinkIs
<1>2. unlink(h, x) \in HeapsOn(Id)
  BY UnlinkIs
<1>3. Linked(moved(h, x, m), unlink(h, x), x, m)
  BY <1>2, LinkIs DEF moved
<1> QED
  BY <1>1, <1>3 DEF Linked

\* The children of y are those they were without x, all others as they were.
OneLess(parent2, parent, S, x, y) ==
  /\ \A w \in S \ {y} : Kids(parent2, S, w) = Kids(parent, S, w)
  /\ Kids(parent2, S, y) = Kids(parent, S, y) \ {x}
  /\ x \in Kids(parent, S, y)
  /\ Cardinality(Kids(parent2, S, y)) = Cardinality(Kids(parent, S, y)) - 1

LEMMA OneChildLess ==
  ASSUME NEW Id, Ids(Id), NEW S \in SUBSET Id, NEW parent, NEW x \in S, NEW parent2, NEW y \in S,
         parent[x] = y, parent2[x] \notin S, \A z \in S \ {x} : parent2[z] = parent[z]
  PROVE  OneLess(parent2, parent, S, x, y)
<1>1. \A w \in S \ {y} : Kids(parent2, S, w) = Kids(parent, S, w)
  <2> TAKE w \in S \ {y}
  <2>1. \A z \in S : parent2[z] = w <=> parent[z] = w
    OBVIOUS
  <2> QED
    BY <2>1 DEF Kids
<1>2. Kids(parent2, S, y) = Kids(parent, S, y) \ {x}
  <2>1. \A z \in S : parent2[z] = y <=> parent[z] = y /\ z # x
    OBVIOUS
  <2> QED
    BY <2>1 DEF Kids
<1>3. x \in Kids(parent, S, y)
  BY DEF Kids
<1>4. Kids(parent, S, y) \in SUBSET Id
  BY DEF Kids
<1>5. IsFiniteSet(Kids(parent, S, y))
  BY <1>4, SubsetCard
<1>6. Cardinality(Kids(parent, S, y) \ {x}) = Cardinality(Kids(parent, S, y)) - 1
  BY <1>3, <1>5, FS_RemoveElement
<1> QED
  BY <1>1, <1>2, <1>3, <1>6 DEF OneLess

CutTo(h2, h, x, y, m) ==
  /\ h2.left = moved(h, x, m).left
  /\ h2.right = moved(h, x, m).right
  /\ h2.parent = [h.parent EXCEPT ![x] = NULL]
  /\ h2.degree = [h.degree EXCEPT ![y] = @ - 1]
  /\ h2.child = [h.child EXCEPT ![y] = IF h.degree[y] - 1 = 0 THEN NULL
                                       ELSE IF @ = x THEN h.right[x] ELSE @]

\* A child that becomes a root leaves all pointers right.
LEMMA CutForest ==
  ASSUME NEW Id, Ids(Id), NEW S \in SUBSET Id, NEW h \in HeapsOn(Id), NEW h2, Forest(h, S),
         NEW x \in S, NEW y, y = h.parent[x], y # NULL, NEW m, IsRoot(h, S, m),
         CutTo(h2, h, x, y, m)
  PROVE  Forest(h2, S)
<1>0. /\ h.parent \in [Id -> NodeOrNull(Id)] /\ h.child \in [Id -> NodeOrNull(Id)]
      /\ h.degree \in [Id -> Int]
      /\ m \in S /\ h.parent[m] = NULL /\ m # x
      /\ y \in S /\ x \in Id /\ y \in Id /\ NULL \notin S
  <2>1. NULL \notin S
    BY DEF Ids, NULL
  <2> QED
    BY <2>1, HeapFields DEF Forest, Rooted, IsRoot
<1>1. \A z \in S : h2.parent[z] = IF z = x THEN NULL ELSE h.parent[z]
  BY <1>0 DEF CutTo
<1>2. Circular(h2.left, h2.right, h2.parent, S)
  <2>1. Circular(h.left, h.right, h.parent, S) /\ \A z \in S : h2.parent[z] = IF z = x THEN h.parent[m] ELSE h.parent[z]
    BY <1>0, <1>1 DEF Forest
  <2>2. Circular(moved(h, x, m).left, moved(h, x, m).right, h2.parent, S)
    BY <1>0, <2>1, MovedLists
  <2> QED
    BY <2>2 DEF CutTo
<1>3. Rooted(h2.parent, S)
  BY <1>0, <1>1 DEF Forest, Rooted
<1>4. FamiliesAgree(h2.child, h2.degree, h2.parent, S)
  <2>0. OneLess(h2.parent, h.parent, S, x, y)
    <3>1. h2.parent[x] \notin S /\ \A z \in S \ {x} : h2.parent[z] = h.parent[z]
      BY <1>0, <1>1
    <3> QED
      BY <1>0, <3>1, OneChildLess
  <2>1. /\ \A w \in S \ {y} : Kids(h2.parent, S, w) = Kids(h.parent, S, w)
        /\ Kids(h2.parent, S, y) = Kids(h.parent, S, y) \ {x}
        /\ x \in Kids(h.parent, S, y)
        /\ Cardinality(Kids(h2.parent, S, y)) = Cardinality(Kids(h.parent, S, y)) - 1
    BY <2>0 DEF OneLess
  <2>2. /\ \A w \in Id : h2.degree[w] = IF w = y THEN h.degree[y] - 1 ELSE h.degree[w]
        /\ \A w \in Id : h2.child[w] = IF w = y THEN IF h.degree[y] - 1 = 0 THEN NULL
                                          ELSE IF h.child[y] = x THEN h.right[x] ELSE h.child[y]
                                     ELSE h.child[w]
    BY <1>0 DEF CutTo
  <2>3. \A w \in S : /\ h.child[w] = NULL => Kids(h.parent, S, w) = {}
                     /\ h.child[w] # NULL => h.child[w] \in S /\ h.parent[h.child[w]] = w
                     /\ h.degree[w] = Cardinality(Kids(h.parent, S, w))
    BY DEF Forest, FamiliesAgree
  <2>4. \A w \in S : h2.degree[w] = Cardinality(Kids(h2.parent, S, w))
    BY <1>0, <2>1, <2>2, <2>3
  <2>5. ASSUME NEW w \in S \ {y}
        PROVE  /\ h2.child[w] = NULL => Kids(h2.parent, S, w) = {}
               /\ h2.child[w] # NULL => h2.child[w] \in S /\ h2.parent[h2.child[w]] = w
    <3>1. h2.child[w] = h.child[w] /\ w \in Id
      BY <1>0, <2>2
    <3>2. h.child[w] # NULL => h.child[w] # x
      BY <2>3, <1>0
    <3> QED
      BY <3>1, <3>2, <2>1, <2>3, <1>1
  <2>6. h2.child[y] = NULL => Kids(h2.parent, S, y) = {}
    <3>1. CASE h.degree[y] - 1 = 0
      <4>1. Cardinality(Kids(h2.parent, S, y)) = 0 /\ IsFiniteSet(Kids(h2.parent, S, y))
        <5>1. Kids(h2.parent, S, y) \in SUBSET Id
          BY DEF Kids
        <5> QED
          BY <5>1, <3>1, <1>0, <2>1, <2>3, SubsetCard
      <4> QED
        BY <4>1, FS_EmptySet
    <3>2. CASE h.degree[y] - 1 # 0
      <4>1. h.right[x] \in S
        BY DEF Forest, Circular, Paired
      <4> QED
        BY <4>1, <3>2, <1>0, <2>1, <2>2, <2>3
    <3> QED
      BY <3>1, <3>2
  <2>7. h2.child[y] # NULL => h2.child[y] \in S /\ h2.parent[h2.child[y]] = y
    <3> SUFFICES ASSUME h2.child[y] # NULL PROVE h2.child[y] \in S /\ h2.parent[h2.child[y]] = y
      OBVIOUS
    <3>1. h.degree[y] - 1 # 0
      BY <2>2, <1>0
    <3>2. CASE h.child[y] # x
      BY <3>1, <3>2, <2>1, <2>2, <2>3, <1>0, <1>1
    <3>3. CASE h.child[y] = x
      <4>1. h2.child[y] = h.right[x] /\ h.right[x] \in S /\ h.parent[h.right[x]] = y
        BY <3>1, <3>3, <2>2, <1>0 DEF Forest, Circular, Paired
      <4>2. ASSUME h.right[x] = x PROVE FALSE
        <5>1. {x} \in SUBSET S /\ Stays(h.right, {x})
          BY <4>2 DEF Stays
        <5>2. \A b \in S : h.parent[x] = h.parent[b] => b \in {x}
          BY <5>1 DEF Forest, Circular, Whole
        <5>3. Kids(h2.parent, S, y) = {}
          BY <5>2, <2>1 DEF Kids
        <5> QED
          BY <5>3, <2>1, <2>3, <3>1, <1>0, FS_EmptySet
      <4> QED
        BY <4>1, <4>2, <1>1
    <3> QED
      BY <3>2, <3>3
  <2> QED
    BY <2>4, <2>5, <2>6, <2>7 DEF FamiliesAgree
<1> QED
  BY <1>2, <1>3, <1>4 DEF Forest

\* What a cut leaves.
CutLeaves(h2, h, x) ==
  /\ h2.parent = [h.parent EXCEPT ![x] = NULL]
  /\ h2.key = h.key /\ h2.maxNode = h.maxNode /\ h2.numberOfNodes = h.numberOfNodes

LEMMA CutKeeps ==
  ASSUME NEW Id, Ids(Id), NEW S \in SUBSET Id, NEW h \in HeapsOn(Id), Forest(h, S),
         IsRoot(h, S, h.maxNode), NEW x \in S, NEW y, y = h.parent[x], y # NULL
  PROVE  /\ cut(h, x, y) \in HeapsOn(Id)
         /\ Forest(cut(h, x, y), S)
         /\ CutLeaves(cut(h, x, y), h, x)
<1> DEFINE m == h.maxNode
           c == IF h.degree[y] - 1 = 0 THEN NULL ELSE IF h.child[y] = x THEN h.right[x] ELSE h.child[y]
           e == unlink(h, x)
           g == withDegree(e, y, h.degree[y] - 1)
           f == withChild(g, y, c)
           k == linkRightOf(f, x, m)
           r == withParent(k, x, NULL)
<1>0. /\ x \in Id /\ y \in Id /\ m \in Id /\ NULL \notin S /\ h.parent[m] = NULL /\ m # x
      /\ h.degree \in [Id -> Int] /\ h.right \in [Id -> Id] /\ h.child \in [Id -> NodeOrNull(Id)]
      /\ NULL \in NodeOrNull(Id) /\ \A z \in Id : z \in NodeOrNull(Id)
  BY HeapFields DEF Forest, Rooted, IsRoot, Ids, NULL, NodeOrNull
<1>1. e \in HeapsOn(Id) /\ Unlinked(e, h, x)
  BY <1>0, UnlinkIs
<1>2. e.right[x] = h.right[x]
  <2>1. h.left[x] \in Id /\ h.right[h.left[x]] = x
    BY DEF Forest, Circular, Paired
  <2> QED
    BY <2>1, <1>0, <1>1 DEF Unlinked
<1> HIDE DEF e
<1>3. h.degree[y] - 1 \in Int /\ c \in NodeOrNull(Id)
  BY <1>0
<1> HIDE DEF c
<1>4. g \in HeapsOn(Id) /\ SameButDegree(g, e) /\ g.degree = [e.degree EXCEPT ![y] = h.degree[y] - 1]
  BY <1>0, <1>1, <1>3, WithDegree
<1> HIDE DEF g
<1>5. f \in HeapsOn(Id) /\ SameButChild(f, g) /\ f.child = [g.child EXCEPT ![y] = c]
  BY <1>0, <1>4, <1>3, WithChild
<1> HIDE DEF f
<1>6. k \in HeapsOn(Id) /\ SameButLists(k, f)
  BY <1>0, <1>5, LinkIs DEF Linked
<1>7. k.left = moved(h, x, m).left /\ k.right = moved(h, x, m).right
  BY <1>0, <1>4, <1>5, LinkedIsMoved DEF SameButChild, SameButDegree, e
<1> HIDE DEF k
<1>8. r \in HeapsOn(Id) /\ SameButParent(r, k) /\ r.parent = [k.parent EXCEPT ![x] = NULL]
  BY <1>0, <1>6, WithParent
<1> HIDE DEF r
<1>9. /\ r.parent = [h.parent EXCEPT ![x] = NULL]
      /\ r.degree = [h.degree EXCEPT ![y] = h.degree[y] - 1]
      /\ r.child = [h.child EXCEPT ![y] = c]
      /\ r.left = moved(h, x, m).left
      /\ r.right = moved(h, x, m).right
      /\ r.key = h.key /\ r.maxNode = h.maxNode /\ r.numberOfNodes = h.numberOfNodes
  BY <1>1, <1>4, <1>5, <1>6, <1>7, <1>8
     DEF Unlinked, SameButLists, SameButChild, SameButDegree, SameButParent
<1>10. cut(h, x, y) = r
  <2>1. e.degree = h.degree /\ e.maxNode = m /\ e.child = h.child
    BY <1>1 DEF Unlinked, SameButLists
  <2> DEFINE G == [unlink(h, x) EXCEPT !.degree[y] = @ - 1]
             F == [G EXCEPT !.child[y] = IF G.degree[y] = 0 THEN NULL
                                         ELSE IF @ = x THEN G.right[x] ELSE @]
  <2>0. cut(h, x, y) = withParent(linkRightOf(F, x, F.maxNode), x, NULL)
    BY DEF cut, withParent
  <2>2. G = g
    BY <2>1 DEF g, withDegree, e
  <2> HIDE DEF G
  <2>3. g.degree[y] = h.degree[y] - 1 /\ g.child = h.child /\ g.right[x] = h.right[x] /\ g.maxNode = m
    BY <1>0, <1>2, <1>4, <2>1 DEF SameButDegree
  <2>4. F = f
    BY <2>2, <2>3 DEF f, withChild, c
  <2> HIDE DEF F
  <2>5. f.maxNode = m
    BY <1>5, <2>3 DEF SameButChild
  <2> QED
    BY <2>0, <2>4, <2>5 DEF r, k
<1>11. CutTo(r, h, x, y, m)
  BY <1>9 DEF CutTo, c
<1>12. Forest(r, S)
  BY <1>11, CutForest
<1> QED
  BY <1>8, <1>9, <1>10, <1>12 DEF CutLeaves

\* Only the right neighbours of x, of m, and of the one x was right of change.
LEMMA MovedRight ==
  ASSUME NEW Id, NEW h \in HeapsOn(Id), NEW x \in Id, NEW m \in Id, NEW z \in Id,
         z # x, z # m, h.right[z] # x, h.right[h.left[x]] = x
  PROVE  moved(h, x, m).right[z] = h.right[z]
<1>1. unlink(h, x) \in HeapsOn(Id) /\ Unlinked(unlink(h, x), h, x)
  BY UnlinkIs
<1>2. Linked(moved(h, x, m), unlink(h, x), x, m)
  BY <1>1, LinkIs DEF moved
<1>3. h.right \in [Id -> Id] /\ unlink(h, x).right \in [Id -> Id]
  BY <1>1, HeapFields
<1>4. z # h.left[x] /\ unlink(h, x).right = [h.right EXCEPT ![h.left[x]] = h.right[x]]
  BY <1>1 DEF Unlinked
<1>5. unlink(h, x).right[z] = h.right[z]
  BY <1>3, <1>4
<1> QED
  BY <1>2, <1>3, <1>5 DEF Linked

ChildTo(h2, h, y, x) ==
  /\ h2.left = IF h.child[x] = NULL THEN [unlink(h, y).left EXCEPT ![y] = y]
                                    ELSE moved(h, y, h.child[x]).left
  /\ h2.right = IF h.child[x] = NULL THEN [unlink(h, y).right EXCEPT ![y] = y]
                                     ELSE moved(h, y, h.child[x]).right
  /\ h2.parent = [h.parent EXCEPT ![y] = x]
  /\ h2.degree = [h.degree EXCEPT ![x] = @ + 1]
  /\ h2.child = [h.child EXCEPT ![x] = IF @ = NULL THEN y ELSE @]

\* So does a root that becomes the child of another.
LEMMA ChildForest ==
  ASSUME NEW Id, Ids(Id), NEW S \in SUBSET Id, NEW h \in HeapsOn(Id), NEW h2, Forest(h, S),
         NEW x, NEW y, IsRoot(h, S, x), IsRoot(h, S, y), x # y, ChildTo(h2, h, y, x)
  PROVE  Forest(h2, S)
<1>0. /\ h.parent \in [Id -> NodeOrNull(Id)] /\ h.child \in [Id -> NodeOrNull(Id)]
      /\ h.degree \in [Id -> Int]
      /\ x \in S /\ h.parent[x] = NULL /\ y \in S /\ h.parent[y] = NULL
      /\ x \in Id /\ y \in Id /\ NULL \notin S
  <2>1. NULL \notin S
    BY DEF Ids, NULL
  <2> QED
    BY <2>1, HeapFields DEF Forest, Rooted, IsRoot
<1>1. \A z \in S : h2.parent[z] = IF z = y THEN x ELSE h.parent[z]
  BY <1>0 DEF ChildTo
<1>2. \A w \in S : /\ h.child[w] = NULL => Kids(h.parent, S, w) = {}
                   /\ h.child[w] # NULL => h.child[w] \in S /\ h.parent[h.child[w]] = w
                   /\ h.degree[w] = Cardinality(Kids(h.parent, S, w))
  BY DEF Forest, FamiliesAgree
<1>3. Circular(h2.left, h2.right, h2.parent, S)
  <2>1. CASE h.child[x] = NULL
    <3>1. Alone(h2.parent, S, y)
      <4>1. \A z \in S : h.parent[z] # x
        BY <1>0, <1>2, <2>1 DEF Kids
      <4> QED
        BY <4>1, <1>0, <1>1 DEF Alone
    <3>2. Isolates(h.left, h.right, h2.left, h2.right, S, y)
      <4>1. Isolates(h.left, h.right, [unlink(h, y).left EXCEPT ![y] = y],
                     [unlink(h, y).right EXCEPT ![y] = y], S, y)
        BY <1>0, UnlinkIsolates DEF Forest
      <4> QED
        BY <2>1, <4>1 DEF ChildTo
    <3> QED
      BY <1>0, <1>1, <3>1, <3>2, IsolatedLists DEF Forest
  <2>2. CASE h.child[x] # NULL
    <3>1. h.child[x] \in S /\ h.parent[h.child[x]] = x /\ h.child[x] # y
      BY <1>0, <1>2, <2>2
    <3>2. \A z \in S : h2.parent[z] = IF z = y THEN h.parent[h.child[x]] ELSE h.parent[z]
      BY <1>1, <3>1
    <3>3. Circular(moved(h, y, h.child[x]).left, moved(h, y, h.child[x]).right, h2.parent, S)
      BY <1>0, <3>1, <3>2, MovedLists DEF Forest
    <3> QED
      BY <2>2, <3>3 DEF ChildTo
  <2> QED
    BY <2>1, <2>2
<1>4. Rooted(h2.parent, S)
  <2>1. \A z \in S : h2.parent[z] \in S \cup {NULL}
    BY <1>0, <1>1 DEF Forest, Rooted
  <2>2. ASSUME NEW T \in SUBSET S, T # {}
        PROVE  \E z \in T : h2.parent[z] \notin T
    <3>1. PICK w \in T : h.parent[w] \notin T
      BY <2>2 DEF Forest, Rooted
    <3>2. CASE w # y
      BY <3>1, <3>2, <1>1
    <3>3. CASE w = y /\ x \in T
      BY <3>3, <1>0, <1>1
    <3>4. CASE w = y /\ x \notin T
      BY <3>4, <1>0, <1>1
    <3> QED
      BY <3>2, <3>3, <3>4
  <2> QED
    BY <2>1, <2>2 DEF Rooted
<1>5. FamiliesAgree(h2.child, h2.degree, h2.parent, S)
  <2>0. OneLess(h.parent, h2.parent, S, y, x)
    <3>1. h2.parent[y] = x /\ h.parent[y] \notin S /\ \A z \in S \ {y} : h.parent[z] = h2.parent[z]
      BY <1>0, <1>1
    <3> QED
      BY <1>0, <3>1, OneChildLess
  <2>1. /\ \A w \in S \ {x} : Kids(h2.parent, S, w) = Kids(h.parent, S, w)
        /\ y \in Kids(h2.parent, S, x)
        /\ Cardinality(Kids(h.parent, S, x)) = Cardinality(Kids(h2.parent, S, x)) - 1
    BY <2>0 DEF OneLess
  <2>2. Cardinality(Kids(h2.parent, S, x)) \in Nat
    <3>1. Kids(h2.parent, S, x) \in SUBSET Id
      BY DEF Kids
    <3> QED
      BY <3>1, SubsetCard
  <2>3. /\ \A w \in Id : h2.degree[w] = IF w = x THEN h.degree[x] + 1 ELSE h.degree[w]
        /\ \A w \in Id : h2.child[w] = IF w = x /\ h.child[x] = NULL THEN y ELSE h.child[w]
    BY <1>0 DEF ChildTo
  <2>4. \A w \in S : h2.degree[w] = Cardinality(Kids(h2.parent, S, w))
    BY <1>0, <1>2, <2>1, <2>2, <2>3
  <2>5. ASSUME NEW w \in S
        PROVE  /\ h2.child[w] = NULL => Kids(h2.parent, S, w) = {}
               /\ h2.child[w] # NULL => h2.child[w] \in S /\ h2.parent[h2.child[w]] = w
    <3>1. CASE w # x
      <4>1. h.child[w] # NULL => h.child[w] # y
        BY <1>0, <1>2
      <4> QED
        BY <3>1, <4>1, <1>0, <1>1, <1>2, <2>1, <2>3
    <3>2. CASE w = x /\ h.child[x] = NULL
      BY <3>2, <1>0, <1>1, <2>3
    <3>3. CASE w = x /\ h.child[x] # NULL
      <4>1. h.child[x] # y
        BY <3>3, <1>0, <1>2
      <4> QED
        BY <3>3, <4>1, <1>0, <1>1, <1>2, <2>3
    <3> QED
      BY <3>1, <3>2, <3>3
  <2> QED
    BY <2>4, <2>5 DEF FamiliesAgree
<1> QED
  BY <1>3, <1>4, <1>5 DEF Forest

\* What is left of h when y becomes a child of x.
ChildLeaves(h2, h, S, y, x) ==
  /\ h2.parent = [h.parent EXCEPT ![y] = x]
  /\ h2.degree = [h.degree EXCEPT ![x] = @ + 1]
  /\ h2.key = h.key /\ h2.maxNode = h.maxNode /\ h2.numberOfNodes = h.numberOfNodes
  /\ \A z \in S : IsRoot(h, S, z) /\ z # y /\ h.right[z] # y => h2.right[z] = h.right[z]

LEMMA MakeChildKeeps ==
  ASSUME NEW Id, Ids(Id), NEW S \in SUBSET Id, NEW h \in HeapsOn(Id), Forest(h, S),
         NEW x, NEW y, IsRoot(h, S, x), IsRoot(h, S, y), x # y
  PROVE  /\ makeChild(h, y, x) \in HeapsOn(Id)
         /\ Forest(makeChild(h, y, x), S)
         /\ ChildLeaves(makeChild(h, y, x), h, S, y, x)
<1> DEFINE e == unlink(h, y)
           g == [e EXCEPT !.parent[y] = x, !.mark[y] = FALSE, !.degree[x] = @ + 1]
           r == makeChild(h, y, x)
<1>0. /\ x \in Id /\ y \in Id /\ x \in S /\ y \in S
      /\ h.degree \in [Id -> Int] /\ h.right \in [Id -> Id] /\ h.left \in [Id -> Id]
      /\ h.child \in [Id -> NodeOrNull(Id)]
      /\ h.right[h.left[y]] = y /\ h.left[y] \in S
  BY HeapFields DEF Forest, IsRoot, Circular, Paired
<1>1. e \in HeapsOn(Id) /\ Unlinked(e, h, y)
  BY <1>0, UnlinkIs
<1> HIDE DEF e
<1>2. g \in HeapsOn(Id)
  <2> DEFINE p == withParent(e, y, x)
             grown == withDegree(p, x, h.degree[x] + 1)
  <2>1. e.degree = h.degree /\ x \in NodeOrNull(Id) /\ h.degree[x] + 1 \in Int
    BY <1>0, <1>1 DEF Unlinked, SameButLists, NodeOrNull
  <2>2. p \in HeapsOn(Id)
    BY <1>0, <1>1, <2>1, WithParent
  <2> HIDE DEF p
  <2>3. grown \in HeapsOn(Id)
    BY <1>0, <2>1, <2>2, WithDegree
  <2>4. grown = g
    BY <2>1, <1>1 DEF grown, p, withDegree, withParent, HeapsOn
  <2> QED
    BY <2>3, <2>4
<1>3. /\ g.parent = [e.parent EXCEPT ![y] = x] /\ g.degree = [e.degree EXCEPT ![x] = @ + 1]
      /\ g.left = e.left /\ g.right = e.right /\ g.child = e.child /\ g.key = e.key
      /\ g.maxNode = e.maxNode /\ g.numberOfNodes = e.numberOfNodes
  BY <1>0, <1>1 DEF HeapsOn
<1>4. /\ g.parent = [h.parent EXCEPT ![y] = x] /\ g.degree = [h.degree EXCEPT ![x] = h.degree[x] + 1]
      /\ g.left = e.left /\ g.right = e.right /\ g.child = h.child /\ g.key = h.key
      /\ g.maxNode = h.maxNode /\ g.numberOfNodes = h.numberOfNodes
  BY <1>3, <1>1 DEF Unlinked, SameButLists
<1> DEFINE a == [g EXCEPT !.child[x] = y, !.left[y] = y, !.right[y] = y]
           b == linkRightOf(g, y, h.child[x])
<1>5. r = IF h.child[x] = NULL THEN a ELSE b
  BY DEF makeChild, e
<1> HIDE DEF g, r
<1>6. CASE h.child[x] = NULL
  <2>1. a \in HeapsOn(Id)
    BY <1>0, <1>2 DEF HeapsOn, NodeOrNull
  <2>2. /\ a.parent = g.parent /\ a.degree = g.degree /\ a.key = g.key
        /\ a.maxNode = g.maxNode /\ a.numberOfNodes = g.numberOfNodes
        /\ a.child = [g.child EXCEPT ![x] = y]
        /\ a.left = [g.left EXCEPT ![y] = y]
        /\ a.right = [g.right EXCEPT ![y] = y]
    BY <1>2 DEF HeapsOn
  <2>3. r = a
    BY <1>5, <1>6
  <2> HIDE DEF a
  <2>4. ChildTo(r, h, y, x)
    BY <1>4, <1>6, <2>2, <2>3 DEF ChildTo, e
  <2>5. Forest(r, S)
    BY <2>4, ChildForest
  <2>6. ASSUME NEW z \in S, z # y, h.right[z] # y
        PROVE  r.right[z] = h.right[z]
    <3>1. z # h.left[y] /\ z \in Id
      BY <2>6, <1>0
    <3>2. e.right = [h.right EXCEPT ![h.left[y]] = h.right[y]]
      BY <1>1 DEF Unlinked
    <3>3. e.right[z] = h.right[z] /\ e.right \in [Id -> Id]
      BY <3>1, <3>2, <1>0
    <3> QED
      BY <2>6, <3>1, <3>3, <2>2, <2>3, <1>4
  <2> QED
    BY <1>4, <2>1, <2>2, <2>3, <2>5, <2>6 DEF ChildLeaves, r
<1>7. CASE h.child[x] # NULL
  <2>0. h.child[x] \in Id /\ h.child[x] \in S /\ h.parent[h.child[x]] = x
    BY <1>7, <1>0 DEF Forest, FamiliesAgree
  <2>1. b \in HeapsOn(Id) /\ SameButLists(b, g)
    BY <2>0, <1>0, <1>2, LinkIs DEF Linked
  <2>2. b.left = moved(h, y, h.child[x]).left /\ b.right = moved(h, y, h.child[x]).right
    BY <2>0, <1>0, <1>2, <1>4, LinkedIsMoved DEF e
  <2>3. r = b
    BY <1>5, <1>7
  <2> HIDE DEF b
  <2>4. ChildTo(r, h, y, x)
    <3>1. r.child = [h.child EXCEPT ![x] = IF @ = NULL THEN y ELSE @]
      BY <1>0, <1>4, <1>7, <2>1, <2>3 DEF SameButLists
    <3> QED
      BY <3>1, <1>4, <1>7, <2>1, <2>2, <2>3 DEF ChildTo, SameButLists
  <2>5. Forest(r, S)
    BY <2>4, ChildForest
  <2>6. ASSUME NEW z \in S, IsRoot(h, S, z), z # y, h.right[z] # y
        PROVE  r.right[z] = h.right[z]
    <3>1. z \in Id /\ z # h.child[x]
      BY <2>0, <2>6, <1>0 DEF IsRoot, Ids, NULL
    <3> QED
      BY <3>1, <2>0, <2>2, <2>3, <2>6, <1>0, MovedRight
  <2> QED
    BY <1>4, <2>1, <2>3, <2>5, <2>6 DEF ChildLeaves, SameButLists, r
<1> QED
  BY <1>6, <1>7 DEF r

-----------------------------------------------------------------------------
(* Larger keys. *)

LEMMA SizeIs ==
  ASSUME NEW Id, Ids(Id), NEW h \in HeapsOn(Id)
  PROVE  size(h) = Cardinality(Id) /\ size(h) \in Nat
<1>1. DOMAIN h.key = Id
  BY HeapFields
<1> QED
  BY <1>1, FS_CardinalityType DEF size, Ids

Cursors(Id) == [heap : HeapsOn(Id), at : NodeOrNull(Id)]

\* h with some nodes made roots, and a node to go on with.
Risen(h, S, s) ==
  /\ Forest(s.heap, S)
  /\ s.heap.key = h.key /\ s.heap.maxNode = h.maxNode /\ s.heap.numberOfNodes = h.numberOfNodes
  /\ \A z \in S : s.heap.parent[z] \in {h.parent[z], NULL}
  /\ s.at \in S \cup {NULL}

LEMMA UpKeeps ==
  ASSUME NEW Id, Ids(Id), NEW S \in SUBSET Id, NEW h \in HeapsOn(Id), IsRoot(h, S, h.maxNode),
         NEW s \in Cursors(Id), Risen(h, S, s)
  PROVE  up(s) \in Cursors(Id) /\ Risen(h, S, up(s))
<1> DEFINE g == s.heap
           y == s.at
           x == g.parent[y]
<1>0. g \in HeapsOn(Id) /\ Forest(g, S) /\ NULL \in NodeOrNull(Id) /\ y \in NodeOrNull(Id)
  BY DEF Risen, Cursors, NodeOrNull
<1>1. CASE y = NULL
  BY <1>1 DEF up
<1>2. CASE y # NULL /\ x = NULL
  <2>1. up(s) = [heap |-> g, at |-> NULL]
    BY <1>2 DEF up
  <2> QED
    BY <2>1, <1>0 DEF Risen, Cursors
<1>3. CASE y # NULL /\ x # NULL /\ ~g.mark[y]
  <2> DEFINE f == [g EXCEPT !.mark[y] = TRUE]
  <2>1. up(s) = [heap |-> f, at |-> NULL]
    BY <1>3 DEF up
  <2>2. /\ f \in HeapsOn(Id)
        /\ f.key = g.key /\ f.left = g.left /\ f.right = g.right /\ f.child = g.child
        /\ f.parent = g.parent /\ f.degree = g.degree /\ f.maxNode = g.maxNode
        /\ f.numberOfNodes = g.numberOfNodes
    BY <1>0 DEF HeapsOn
  <2> HIDE DEF f
  <2>3. Forest(f, S)
    BY <1>0, <2>2 DEF Forest
  <2> QED
    BY <2>1, <2>2, <2>3, <1>0 DEF Risen, Cursors
<1>4. CASE y # NULL /\ x # NULL /\ g.mark[y]
  <2> DEFINE f == cut(g, y, x)
  <2>1. up(s) = [heap |-> f, at |-> x]
    BY <1>4 DEF up
  <2>2. y \in S /\ x \in S /\ IsRoot(g, S, g.maxNode)
    BY <1>0, <1>4 DEF Risen, Forest, Rooted, IsRoot
  <2>3. f \in HeapsOn(Id) /\ Forest(f, S) /\ CutLeaves(f, g, y)
    BY <2>2, <1>0, <1>4, CutKeeps
  <2> HIDE DEF f
  <2>4. \A z \in S : f.parent[z] \in {g.parent[z], NULL}
    <3>1. g.parent \in [Id -> NodeOrNull(Id)] /\ f.parent = [g.parent EXCEPT ![y] = NULL]
      BY <1>0, <2>3, HeapFields DEF CutLeaves
    <3> QED
      BY <3>1
  <2>5. up(s) \in Cursors(Id)
    BY <2>1, <2>2, <2>3 DEF Cursors, NodeOrNull
  <2>6. up(s).heap = f /\ up(s).at = x
    BY <2>1
  <2>7. \A z \in S : f.parent[z] \in {h.parent[z], NULL}
    BY <2>4 DEF Risen
  <2>8. f.key = h.key /\ f.maxNode = h.maxNode /\ f.numberOfNodes = h.numberOfNodes
    BY <2>3 DEF Risen, CutLeaves
  <2> HIDE DEF x, y, g
  <2> QED
    BY <2>2, <2>3, <2>5, <2>6, <2>7, <2>8 DEF Risen
<1> QED
  BY <1>1, <1>2, <1>3, <1>4

LEMMA CascadeKeeps ==
  ASSUME NEW Id, Ids(Id), NEW S \in SUBSET Id, NEW h \in HeapsOn(Id), IsRoot(h, S, h.maxNode),
         Forest(h, S), NEW y \in S
  PROVE  /\ cascadingCut(h, y) \in HeapsOn(Id)
         /\ Risen(h, S, [heap |-> cascadingCut(h, y), at |-> NULL])
<1> DEFINE n == size(h)
           s0 == [heap |-> h, at |-> y]
           good == {s \in Cursors(Id) : Risen(h, S, s)}
           stage == [i \in 0 .. n |-> good]
           F == [i \in 1 .. n |-> [s \in good |-> up(s)]]
           a == CHOOSE g : g = [i \in 0 .. n |-> IF i = 0 THEN s0 ELSE up(g[i - 1])]
<1>0. n \in Nat
  BY SizeIs
<1> HIDE DEF n
<1>1. s0 \in good
  BY DEF Risen, Cursors, NodeOrNull
<1>2. \A s \in good : up(s) \in good
  BY UpKeeps
<1> HIDE DEF good
<1>3. s0 \in stage[0] /\ \A i \in 1 .. n : F[i] \in [stage[i - 1] -> stage[i]]
  BY <1>0, <1>1, <1>2
<1>4. PICK f : IsTrace(f, n) /\ IsRun(f, n, s0, F, stage)
  <2> HIDE DEF F, stage, s0
  <2> QED
    BY <1>0, <1>3, RunExists
<1>5. f = [i \in 0 .. n |-> IF i = 0 THEN s0 ELSE up(f[i - 1])]
  <2>1. ASSUME NEW i \in 1 .. n PROVE f[i] = up(f[i - 1])
    <3>1. i - 1 \in 0 .. n /\ f[i] = F[i][f[i - 1]] /\ f[i - 1] \in stage[i - 1]
      <4> HIDE DEF F, stage
      <4>1. i - 1 \in 0 .. n
        BY <1>0
      <4> QED
        BY <4>1, <1>4 DEF IsRun
    <3> QED
      BY <3>1
  <2>2. f[0] = s0
    BY <1>4 DEF IsRun
  <2> HIDE DEF F, stage, s0
  <2>3. \A i \in 0 .. n : f[i] = IF i = 0 THEN s0 ELSE up(f[i - 1])
    BY <1>0, <2>1, <2>2
  <2> QED
    BY <1>4, <2>3 DEF IsTrace
<1>6. a = [i \in 0 .. n |-> IF i = 0 THEN s0 ELSE up(a[i - 1])]
  <2> HIDE DEF s0
  <2> QED
    BY <1>5
<1> HIDE DEF a
<1>7. a[n] \in good
  <2>1. a[0] \in stage[0] /\ \A i \in 1 .. n : a[i - 1] \in stage[i - 1] => a[i] \in stage[i]
    BY <1>0, <1>1, <1>2, <1>6
  <2>2. \A i \in 0 .. n : a[i] \in stage[i]
    <3> HIDE DEF stage
    <3> QED
      BY <1>0, <2>1, RunStays
  <2> QED
    BY <1>0, <2>2
<1>8. cascadingCut(h, y) = a[n].heap
  BY DEF cascadingCut, Loop, a, n
<1> QED
  BY <1>7, <1>8 DEF good, Risen, Cursors

\* The heap with the key of x set.
withKey(h, x, k) == [h EXCEPT !.key[x] = k]
withMax(h, x) == [h EXCEPT !.maxNode = x]

SameButKey(g, h) ==
  /\ g.left = h.left /\ g.right = h.right /\ g.child = h.child /\ g.parent = h.parent
  /\ g.degree = h.degree /\ g.maxNode = h.maxNode /\ g.numberOfNodes = h.numberOfNodes

SameButMax(g, h) ==
  /\ g.left = h.left /\ g.right = h.right /\ g.child = h.child /\ g.parent = h.parent
  /\ g.degree = h.degree /\ g.key = h.key /\ g.numberOfNodes = h.numberOfNodes

LEMMA WithKey ==
  ASSUME NEW Id, NEW h \in HeapsOn(Id), NEW x \in Id, NEW k \in Int
  PROVE  /\ withKey(h, x, k) \in HeapsOn(Id) /\ SameButKey(withKey(h, x, k), h)
         /\ withKey(h, x, k).key = [h.key EXCEPT ![x] = k]
BY DEF withKey, HeapsOn, SameButKey

LEMMA WithMax ==
  ASSUME NEW Id, NEW h \in HeapsOn(Id), NEW x \in NodeOrNull(Id)
  PROVE  /\ withMax(h, x) \in HeapsOn(Id) /\ SameButMax(withMax(h, x), h)
         /\ withMax(h, x).maxNode = x
BY DEF withMax, HeapsOn, SameButMax

\* A heap is one again when a key has grown.
LEMMA IncreaseKeeps ==
  ASSUME NEW Id, Ids(Id), NEW S, NEW h, HeapInv(h, S, Id), NEW x \in S, NEW k \in Int, h.key[x] <= k
  PROVE  /\ HeapInv(increaseKey(h, x, k), S, Id)
         /\ increaseKey(h, x, k).key = [h.key EXCEPT ![x] = k]
<1> DEFINE g == withKey(h, x, k)
           y == h.parent[x]
           f == IF y # NULL /\ k > g.key[y] THEN cascadingCut(cut(g, x, y), y) ELSE g
           r == IF k > f.key[f.maxNode] THEN withMax(f, x) ELSE f
<1>0. /\ h \in HeapsOn(Id) /\ S \in SUBSET Id /\ x \in Id /\ Forest(h, S) /\ Ordered(h, S)
      /\ h.key \in [Id -> Int] /\ IsRoot(h, S, h.maxNode) /\ h.maxNode \in S
      /\ \A z \in S : h.key[z] <= h.key[h.maxNode]
      /\ h.numberOfNodes = Cardinality(S)
      /\ \A z \in S : h.parent[z] \in S \cup {NULL}
      /\ NULL \notin S
  <2>1. NULL \notin S
    BY DEF HeapInv, HeapOn, Ids, NULL
  <2> QED
    BY <2>1, HeapFields DEF HeapInv, HeapOn, IsRoot, Forest, Rooted
<1>1. g \in HeapsOn(Id) /\ SameButKey(g, h) /\ g.key = [h.key EXCEPT ![x] = k]
  BY <1>0, WithKey
<1>2. increaseKey(h, x, k) = r
  <2>1. g.parent[x] = y
    BY <1>1 DEF SameButKey
  <2> QED
    BY <2>1 DEF increaseKey, withKey, withMax
<1> HIDE DEF g
<1>3. Forest(g, S) /\ g.parent = h.parent /\ IsRoot(g, S, g.maxNode) /\ g.maxNode = h.maxNode
  BY <1>0, <1>1 DEF Forest, SameButKey, IsRoot
<1>4. /\ f \in HeapsOn(Id) /\ Forest(f, S) /\ f.key = g.key
      /\ f.maxNode = h.maxNode /\ f.numberOfNodes = h.numberOfNodes
      /\ \A z \in S : f.parent[z] \in {h.parent[z], NULL}
      /\ y # NULL /\ k > g.key[y] => f.parent[x] = NULL
  <2>1. CASE y # NULL /\ k > g.key[y]
    <3> DEFINE c == cut(g, x, y)
    <3>1. c \in HeapsOn(Id) /\ Forest(c, S) /\ CutLeaves(c, g, x)
      BY <2>1, <1>0, <1>1, <1>3, CutKeeps
    <3> HIDE DEF c
    <3>2. /\ g.parent \in [Id -> NodeOrNull(Id)]
          /\ \A z \in S : c.parent[z] = IF z = x THEN NULL ELSE g.parent[z]
          /\ c.maxNode = g.maxNode
      BY <1>0, <1>1, <3>1, HeapFields DEF CutLeaves
    <3>3. IsRoot(c, S, c.maxNode)
      BY <3>2, <1>3 DEF IsRoot
    <3>4. y \in S
      BY <1>0, <2>1
    <3>5. /\ cascadingCut(c, y) \in HeapsOn(Id)
          /\ Risen(c, S, [heap |-> cascadingCut(c, y), at |-> NULL])
      BY <1>0, <3>1, <3>3, <3>4, CascadeKeeps
    <3>6. f = cascadingCut(c, y)
      BY <2>1 DEF c
    <3> HIDE DEF f
    <3>7. /\ f \in HeapsOn(Id) /\ Forest(f, S) /\ f.key = c.key /\ f.maxNode = c.maxNode
          /\ f.numberOfNodes = c.numberOfNodes
          /\ \A z \in S : f.parent[z] \in {c.parent[z], NULL}
      BY <3>5, <3>6 DEF Risen
    <3> QED
      BY <3>1, <3>2, <3>7, <1>1, <1>3 DEF CutLeaves, SameButKey
  <2>2. CASE ~(y # NULL /\ k > g.key[y])
    BY <2>2, <1>1, <1>3 DEF SameButKey
  <2> QED
    BY <2>1, <2>2
<1> HIDE DEF f
<1>5. ASSUME NEW z \in S, f.parent[z] # NULL PROVE f.key[z] <= f.key[f.parent[z]]
  <2>1. f.parent[z] = h.parent[z] /\ h.parent[z] \in S /\ h.key[z] <= h.key[h.parent[z]]
    BY <1>0, <1>4, <1>5 DEF Ordered
  <2>2. f.key = [h.key EXCEPT ![x] = k]
    BY <1>1, <1>4
  <2>3. \A w \in S : f.key[w] = IF w = x THEN k ELSE h.key[w]
    BY <1>0, <2>2
  <2>4. CASE z = x
    <3>1. k <= g.key[y]
      <4>1. g.key[y] \in Int
        BY <1>0, <1>1, <2>1, <2>4
      <4> QED
        BY <4>1, <1>4, <1>5, <2>4, <2>1
    <3> QED
      BY <3>1, <2>1, <2>3, <2>4, <1>4
  <2>5. CASE z # x
    <3>1. h.key[z] \in Int /\ h.key[h.parent[z]] \in Int
      BY <1>0, <2>1
    <3> QED
      BY <3>1, <2>1, <2>3, <2>5
  <2> QED
    BY <2>4, <2>5
<1>6. Ordered(f, S)
  BY <1>5 DEF Ordered
<1>7. \A w \in S : f.key[w] = (IF w = x THEN k ELSE h.key[w]) /\ f.key[w] \in Int /\ h.key[w] \in Int
  BY <1>0, <1>1, <1>4
<1>8. IsRoot(f, S, f.maxNode)
  BY <1>0, <1>4 DEF IsRoot
<1>9. CASE k > f.key[f.maxNode]
  <2>1. /\ withMax(f, x) \in HeapsOn(Id) /\ SameButMax(withMax(f, x), f)
        /\ withMax(f, x).maxNode = x /\ r = withMax(f, x)
    <3>1. x \in NodeOrNull(Id)
      BY <1>0 DEF NodeOrNull
    <3> QED
      BY <3>1, <1>4, <1>9, WithMax
  <2> HIDE DEF r
  <2>2. f.key[x] = k /\ \A z \in S : f.key[z] <= k
    <3>1. f.maxNode # x
      BY <1>7, <1>9, <1>0
    <3>2. f.key[f.maxNode] = h.key[h.maxNode]
      BY <3>1, <1>4, <1>7, <1>0
    <3> QED
      BY <3>2, <1>0, <1>7, <1>9
  <2>3. f.parent[x] = NULL
    <3> SUFFICES ASSUME f.parent[x] # NULL PROVE FALSE
      OBVIOUS
    <3>1. f.parent[x] \in S /\ k <= f.key[f.parent[x]] /\ f.parent[x] # x
      <4>1. f.parent[x] # x
        <5>1. {x} \in SUBSET S /\ {x} # {}
          OBVIOUS
        <5>2. \E z \in {x} : f.parent[z] \notin {x}
          BY <5>1, <1>4 DEF Forest, Rooted
        <5> QED
          BY <5>2
      <4> QED
        BY <4>1, <1>5, <2>2, <1>4, <1>0
    <3>2. f.key[f.parent[x]] = h.key[f.parent[x]] /\ h.key[f.parent[x]] <= h.key[h.maxNode]
      BY <3>1, <1>7, <1>0
    <3>3. f.key[f.maxNode] = h.key[h.maxNode] \/ f.maxNode = x
      BY <1>4, <1>7, <1>0
    <3>4. f.maxNode # x
      BY <1>7, <1>9, <1>0
    <3> QED
      BY <3>1, <3>2, <3>3, <3>4, <1>7, <1>9, <1>0
  <2>4. Forest(r, S) /\ Ordered(r, S)
    BY <1>4, <1>6, <2>1 DEF SameButMax, Forest, Ordered
  <2>5. HeapInv(r, S, Id)
    BY <1>0, <1>4, <2>1, <2>2, <2>3, <2>4 DEF HeapInv, HeapOn, SameButMax, IsRoot
  <2> QED
    BY <1>1, <1>2, <1>4, <2>1, <2>5 DEF SameButMax
<1>10. CASE ~(k > f.key[f.maxNode])
  <2>1. r = f
    BY <1>10
  <2>2. \A z \in S : f.key[z] <= f.key[f.maxNode]
    <3> TAKE z \in S
    <3>1. k <= f.key[f.maxNode] /\ f.maxNode \in S
      BY <1>10, <1>7, <1>4, <1>0
    <3>2. h.key[h.maxNode] <= f.key[f.maxNode]
      BY <1>7, <1>4, <1>0
    <3> QED
      BY <3>1, <3>2, <1>7, <1>0
  <2> HIDE DEF r
  <2>3. HeapInv(r, S, Id)
    BY <1>0, <1>4, <1>6, <1>8, <2>1, <2>2 DEF HeapInv, HeapOn
  <2> QED
    BY <1>1, <1>2, <1>4, <2>1, <2>3
<1> QED
  BY <1>9, <1>10

-----------------------------------------------------------------------------
(* Insertion. *)

\* x is as the heap is created: in no list, and without a child or a parent.
Pristine(h, x) ==
  /\ h.left[x] = x /\ h.right[x] = x /\ h.child[x] = NULL /\ h.parent[x] = NULL
  /\ h.degree[x] = 0

Unchanged(g, h, x) ==
  /\ g.left[x] = h.left[x] /\ g.right[x] = h.right[x] /\ g.child[x] = h.child[x]
  /\ g.parent[x] = h.parent[x] /\ g.degree[x] = h.degree[x]

LEMMA ExtendedLists ==
  ASSUME NEW S, NEW left, NEW right, NEW cls, Circular(left, right, cls, S), NEW x, x \notin S,
         left[x] = x, right[x] = x, Alone(cls, S \cup {x}, x)
  PROVE  Circular(left, right, cls, S \cup {x})
<1>1. Paired(left, right, cls, S \cup {x})
  BY DEF Circular, Paired
<1>2. ASSUME NEW C \in SUBSET (S \cup {x}), Stays(right, C), NEW a \in C, NEW b \in S \cup {x}, cls[a] = cls[b]
      PROVE  b \in C
  <2>1. CASE a = x \/ b = x
    BY <2>1, <1>2 DEF Alone
  <2>2. CASE a # x /\ b # x
    <3> DEFINE D == C \ {x}
    <3>1. D \in SUBSET S /\ Stays(right, D) /\ a \in D /\ b \in S
      BY <2>2, <1>2 DEF Stays, Circular, Paired
    <3> HIDE DEF D
    <3>2. b \in D
      BY <3>1, <1>2 DEF Circular, Whole
    <3> QED
      BY <3>2 DEF D
  <2> QED
    BY <2>1, <2>2
<1> QED
  BY <1>1, <1>2 DEF Circular, Whole

\* A node joins the list of m.
LEMMA LinkedForest ==
  ASSUME NEW Id, Ids(Id), NEW S \in SUBSET Id, NEW h \in HeapsOn(Id), Forest(h, S),
         NEW x \in Id \ S, Pristine(h, x), IsRoot(h, S, h.maxNode)
  PROVE  /\ linkRightOf(h, x, h.maxNode) \in HeapsOn(Id)
         /\ SameButLists(linkRightOf(h, x, h.maxNode), h)
         /\ Forest(linkRightOf(h, x, h.maxNode), S \cup {x})
         /\ \A z \in Id \ (S \cup {x}) : Unchanged(linkRightOf(h, x, h.maxNode), h, z)
<1> DEFINE m == h.maxNode
           g == linkRightOf(h, x, m)
           alone == [h.parent EXCEPT ![x] = -2]
           T == S \cup {x}
<1>0. /\ m \in S /\ m \in Id /\ h.parent[m] = NULL /\ m # x
      /\ h.parent \in [Id -> NodeOrNull(Id)] /\ h.left \in [Id -> Id] /\ h.right \in [Id -> Id]
      /\ NULL \notin Id
  <2>1. NULL \notin Id
    BY DEF Ids, NULL
  <2> QED
    BY <2>1, HeapFields DEF IsRoot
<1>1. g \in HeapsOn(Id) /\ Linked(g, h, x, m)
  BY <1>0, LinkIs
<1> HIDE DEF g
<1>2. \A z \in Id : alone[z] = (IF z = x THEN -2 ELSE h.parent[z]) /\ h.parent[z] # -2
  BY <1>0 DEF NodeOrNull, Ids, NULL
<1> HIDE DEF alone
<1>3. Circular(h.left, h.right, alone, T)
  <2>1. Circular(h.left, h.right, alone, S)
    <3>1. \A z \in S : alone[z] = h.parent[z]
      BY <1>2
    <3>2. Paired(h.left, h.right, alone, S)
      BY <3>1 DEF Forest, Circular, Paired
    <3>3. Whole(h.right, alone, S)
      BY <3>1 DEF Forest, Circular, Whole
    <3> QED
      BY <3>2, <3>3 DEF Circular
  <2>2. Alone(alone, T, x)
    BY <1>2 DEF Alone
  <2> QED
    BY <2>1, <2>2, ExtendedLists DEF Pristine
<1>4. Circular(g.left, g.right, g.parent, T)
  <2>1. h.left = [h.left EXCEPT ![x] = x] /\ h.right = [h.right EXCEPT ![x] = x]
    BY <1>0 DEF Pristine
  <2>2. Alone(alone, T, x) /\ T \in SUBSET Id /\ x \in T /\ m \in T
    BY <1>0, <1>2 DEF Alone
  <2> HIDE DEF T
  <2>3. Joins(h.left, h.right, g.left, g.right, T, x, m)
    BY <1>0, <1>3, <2>1, <2>2, LinkJoins DEF g
  <2>4. g.parent = h.parent
    BY <1>1 DEF Linked, SameButLists
  <2>5. \A z \in T : h.parent[z] = IF z = x THEN alone[m] ELSE alone[z]
    BY <1>0, <1>2, <2>2 DEF Pristine
  <2>6. Circular(g.left, g.right, h.parent, T)
    BY <1>0, <1>3, <2>2, <2>3, <2>5, JoinedLists
  <2> QED
    BY <2>4, <2>6
<1>5. Rooted(h.parent, T)
  <2>1. \A z \in T : h.parent[z] \in T \cup {NULL}
    BY DEF Forest, Rooted, Pristine
  <2>2. ASSUME NEW U \in SUBSET T, U # {} PROVE \E z \in U : h.parent[z] \notin U
    <3>1. CASE x \in U
      BY <3>1, <1>0 DEF Pristine
    <3>2. CASE x \notin U
      BY <3>2, <2>2 DEF Forest, Rooted
    <3> QED
      BY <3>1, <3>2
  <2> QED
    BY <2>1, <2>2 DEF Rooted
<1>6. FamiliesAgree(h.child, h.degree, h.parent, T)
  <2>1. \A w \in S : Kids(h.parent, T, w) = Kids(h.parent, S, w)
    BY <1>0 DEF Kids, Pristine
  <2>2. Kids(h.parent, T, x) = {}
    BY <1>0 DEF Kids, Pristine, Forest, Rooted
  <2>3. Cardinality({}) = 0
    BY FS_EmptySet
  <2> QED
    BY <2>1, <2>2, <2>3 DEF FamiliesAgree, Forest, Pristine
<1>7. Forest(g, T)
  BY <1>1, <1>4, <1>5, <1>6 DEF Forest, Linked, SameButLists
<1>8. ASSUME NEW z \in Id \ T PROVE Unchanged(g, h, z)
  <2>1. h.right[m] \in S /\ z # x /\ z # m
    BY <1>0 DEF Forest, Circular, Paired
  <2>2. g.right[z] = h.right[z] /\ g.right[x] = h.right[m]
    BY <2>1, <1>0, <1>1 DEF Linked
  <2>3. g.left[z] = h.left[z]
    BY <2>1, <2>2, <1>0, <1>1 DEF Linked
  <2> QED
    BY <2>2, <2>3, <1>1 DEF Unchanged, Linked, SameButLists
<1> QED
  BY <1>1, <1>7, <1>8 DEF Linked, g

withNumber(h, n) == [h EXCEPT !.numberOfNodes = n]

SameButNumber(g, h) ==
  /\ g.left = h.left /\ g.right = h.right /\ g.child = h.child /\ g.parent = h.parent
  /\ g.degree = h.degree /\ g.key = h.key /\ g.maxNode = h.maxNode

LEMMA WithNumber ==
  ASSUME NEW Id, NEW h \in HeapsOn(Id), NEW n \in Int
  PROVE  /\ withNumber(h, n) \in HeapsOn(Id) /\ SameButNumber(withNumber(h, n), h)
         /\ withNumber(h, n).numberOfNodes = n
BY DEF withNumber, HeapsOn, SameButNumber

\* Insertion of a node, x, makes a heap of one node more.
Inserted(g, h, S, x, Id) ==
  /\ HeapInv(g, S \cup {x}, Id) /\ g.key = h.key
  /\ \A z \in Id \ (S \cup {x}) : Unchanged(g, h, z)

LEMMA InsertKeeps ==
  ASSUME NEW Id, Ids(Id), NEW S, NEW h, HeapInv(h, S, Id), NEW x \in Id \ S, Pristine(h, x)
  PROVE  Inserted(insert(h, x), h, S, x, Id)
<1> DEFINE g == IF h.maxNode = NULL THEN h ELSE linkRightOf(h, x, h.maxNode)
           isMax == h.maxNode = NULL \/ h.key[x] > h.key[h.maxNode]
           f == withMax(g, IF isMax THEN x ELSE h.maxNode)
           r == withNumber(f, h.numberOfNodes + 1)
           T == S \cup {x}
<1>0. /\ h \in HeapsOn(Id) /\ S \in SUBSET Id /\ Forest(h, S) /\ Ordered(h, S)
      /\ h.key \in [Id -> Int] /\ h.numberOfNodes \in Int /\ NULL \notin Id /\ x \in Id
      /\ x \in NodeOrNull(Id) /\ h.maxNode \in NodeOrNull(Id)
      /\ h.numberOfNodes = Cardinality(S)
      /\ h.maxNode = NULL => S = {}
      /\ h.maxNode # NULL => IsRoot(h, S, h.maxNode) /\ \A z \in S : h.key[z] <= h.key[h.maxNode]
  <2>1. NULL \notin Id
    BY DEF Ids, NULL
  <2> QED
    BY <2>1, HeapFields DEF HeapInv, HeapOn, IsRoot, NodeOrNull
<1>1. /\ g \in HeapsOn(Id) /\ SameButLists(g, h) /\ Forest(g, T)
      /\ \A z \in Id \ T : Unchanged(g, h, z)
  <2>1. CASE h.maxNode = NULL
    <3>1. S = {} /\ g = h /\ T = {x}
      BY <2>1, <1>0
    <3>2. Circular(h.left, h.right, h.parent, {x})
      BY DEF Circular, Paired, Whole, Stays, Pristine
    <3>3. Rooted(h.parent, {x})
      <4>1. h.parent[x] = NULL /\ NULL # x
        BY <1>0 DEF Pristine
      <4> QED
        BY <4>1 DEF Rooted
    <3>4. FamiliesAgree(h.child, h.degree, h.parent, {x})
      <4>1. Kids(h.parent, {x}, x) = {}
        BY <1>0 DEF Kids, Pristine
      <4> QED
        BY <4>1, FS_EmptySet DEF FamiliesAgree, Pristine
    <3> QED
      BY <1>0, <3>1, <3>2, <3>3, <3>4 DEF Forest, SameButLists, Unchanged
  <2>2. CASE h.maxNode # NULL
    BY <2>2, <1>0, LinkedForest
  <2> QED
    BY <2>1, <2>2
<1>2. g.maxNode = h.maxNode /\ g.numberOfNodes = h.numberOfNodes /\ g.key = h.key
  BY <1>1 DEF SameButLists
<1>3. insert(h, x) = r
  <2> HIDE DEF g, isMax
  <2>1. insert(h, x) = [g EXCEPT !.maxNode = IF isMax THEN x ELSE @, !.numberOfNodes = @ + 1]
    BY DEF insert, g, isMax
  <2> QED
    BY <2>1, <1>1, <1>2 DEF withMax, withNumber, HeapsOn
<1> HIDE DEF g
<1>4. f \in HeapsOn(Id) /\ SameButMax(f, g) /\ f.maxNode = (IF isMax THEN x ELSE h.maxNode)
  BY <1>0, <1>1, WithMax
<1> HIDE DEF f
<1>5. r \in HeapsOn(Id) /\ SameButNumber(r, f) /\ r.numberOfNodes = h.numberOfNodes + 1
  <2> DEFINE n == h.numberOfNodes + 1
  <2>1. n \in Int
    BY <1>0
  <2> HIDE DEF n
  <2>2. withNumber(f, n) \in HeapsOn(Id) /\ SameButNumber(withNumber(f, n), f)
        /\ withNumber(f, n).numberOfNodes = n
    BY <2>1, <1>4, WithNumber
  <2> QED
    BY <2>2 DEF n
<1> HIDE DEF r
<1>6. /\ r.left = g.left /\ r.right = g.right /\ r.child = h.child /\ r.parent = h.parent
      /\ r.degree = h.degree /\ r.key = h.key /\ r.maxNode = (IF isMax THEN x ELSE h.maxNode)
      /\ r.child = g.child /\ r.parent = g.parent /\ r.degree = g.degree
  BY <1>1, <1>4, <1>5 DEF SameButLists, SameButMax, SameButNumber
<1>7. Forest(r, T)
  BY <1>1, <1>6 DEF Forest
<1>8. Ordered(r, T)
  BY <1>0, <1>6 DEF Ordered, Pristine
<1>9. r.numberOfNodes = Cardinality(T)
  <2>1. IsFiniteSet(S) /\ x \notin S
    BY <1>0, SubsetCard
  <2> QED
    BY <2>1, <1>0, <1>5, FS_AddElement
<1>10. IsRoot(r, T, r.maxNode)
  BY <1>0, <1>6 DEF IsRoot, Pristine
<1>11. \A z \in T : r.key[z] <= r.key[r.maxNode]
  <2>1. CASE h.maxNode = NULL
    BY <2>1, <1>0, <1>6
  <2>2. CASE h.maxNode # NULL /\ h.key[x] > h.key[h.maxNode]
    <3>1. \A z \in S : h.key[z] <= h.key[h.maxNode] /\ h.key[z] \in Int /\ h.key[h.maxNode] \in Int /\ h.key[x] \in Int
      BY <2>2, <1>0 DEF IsRoot
    <3>2. r.maxNode = x
      BY <2>2, <1>6
    <3> QED
      BY <2>2, <3>1, <3>2, <1>0, <1>6
  <2>3. CASE h.maxNode # NULL /\ ~(h.key[x] > h.key[h.maxNode])
    <3>1. h.key[h.maxNode] \in Int /\ h.key[x] \in Int
      BY <2>3, <1>0 DEF IsRoot
    <3>2. h.key[x] <= h.key[h.maxNode]
      BY <2>3, <3>1
    <3> QED
      BY <2>3, <3>2, <1>0, <1>6
  <2> QED
    BY <2>1, <2>2, <2>3
<1>12. HeapInv(r, T, Id)
  BY <1>0, <1>5, <1>7, <1>8, <1>9, <1>10, <1>11 DEF HeapInv, HeapOn
<1>13. \A z \in Id \ T : Unchanged(r, h, z)
  BY <1>1, <1>6 DEF Unchanged
<1> QED
  BY <1>3, <1>6, <1>12, <1>13 DEF Inserted

-----------------------------------------------------------------------------
(* Removal, part one: the children of the maximum become roots. *)

\* What z is to the loop that frees its children: n are left, c is the next.
ghost(h, z, c, n) == withDegree(withChild(h, z, IF n = 0 THEN NULL ELSE c), z, n)

LEMMA GhostIs ==
  ASSUME NEW Id, NEW h \in HeapsOn(Id), NEW z \in Id, NEW c \in NodeOrNull(Id), NEW n \in Int
  PROVE  /\ ghost(h, z, c, n) \in HeapsOn(Id)
         /\ ghost(h, z, c, n).child = [h.child EXCEPT ![z] = IF n = 0 THEN NULL ELSE c]
         /\ ghost(h, z, c, n).degree = [h.degree EXCEPT ![z] = n]
         /\ ghost(h, z, c, n).key = h.key /\ ghost(h, z, c, n).left = h.left
         /\ ghost(h, z, c, n).right = h.right /\ ghost(h, z, c, n).parent = h.parent
         /\ ghost(h, z, c, n).maxNode = h.maxNode
         /\ ghost(h, z, c, n).numberOfNodes = h.numberOfNodes
<1> DEFINE k == IF n = 0 THEN NULL ELSE c
           g == withChild(h, z, k)
<1>0. k \in NodeOrNull(Id)
  BY DEF NodeOrNull
<1> HIDE DEF k
<1>1. g \in HeapsOn(Id) /\ SameButChild(g, h) /\ g.child = [h.child EXCEPT ![z] = k]
  BY <1>0, WithChild
<1> HIDE DEF g
<1>2. /\ withDegree(g, z, n) \in HeapsOn(Id) /\ SameButDegree(withDegree(g, z, n), g)
      /\ withDegree(g, z, n).degree = [g.degree EXCEPT ![z] = n]
  BY <1>1, WithDegree
<1>3. ghost(h, z, c, n) = withDegree(g, z, n)
  BY DEF ghost, g, k
<1> QED
  BY <1>1, <1>2, <1>3 DEF SameButChild, SameButDegree, k

\* h with n children of z left, s.at the next of them.
Freeing(h, S, z, s, n) ==
  /\ n \in Nat
  /\ Forest(ghost(s.heap, z, s.at, n), S)
  /\ s.heap.key = h.key /\ s.heap.maxNode = h.maxNode /\ s.heap.numberOfNodes = h.numberOfNodes
  /\ \A x \in S : s.heap.parent[x] \in {h.parent[x], NULL}

LEMMA ReleaseKeeps ==
  ASSUME NEW Id, Ids(Id), NEW S \in SUBSET Id, NEW h \in HeapsOn(Id), NEW z, IsRoot(h, S, z),
         NEW s \in Cursors(Id), NEW n \in Nat, n # 0, Freeing(h, S, z, s, n)
  PROVE  release(s, z) \in Cursors(Id) /\ Freeing(h, S, z, release(s, z), n - 1)
<1> DEFINE g == ghost(s.heap, z, s.at, n)
           c == s.at
           d == s.heap.right[c]
           k == moved(s.heap, c, z)
           f == [k EXCEPT !.parent[c] = NULL]
           g2 == ghost(f, z, d, n - 1)
<1>0. /\ s.heap \in HeapsOn(Id) /\ c \in NodeOrNull(Id) /\ z \in Id /\ z \in S /\ n \in Int
      /\ h.parent[z] = NULL /\ NULL \notin Id /\ NULL \in NodeOrNull(Id)
      /\ \A x \in Id : x \in NodeOrNull(Id)
  BY DEF Cursors, IsRoot, Ids, NULL, NodeOrNull
<1>1. /\ g \in HeapsOn(Id) /\ g.child = [s.heap.child EXCEPT ![z] = IF n = 0 THEN NULL ELSE c]
      /\ g.degree = [s.heap.degree EXCEPT ![z] = n]
      /\ g.key = s.heap.key /\ g.left = s.heap.left /\ g.right = s.heap.right
      /\ g.parent = s.heap.parent
  BY <1>0, GhostIs
<1> HIDE DEF g
<1>2. Forest(g, S) /\ s.heap.child \in [Id -> NodeOrNull(Id)] /\ s.heap.degree \in [Id -> Int]
      /\ s.heap.right \in [Id -> Id]
  BY <1>0, HeapFields DEF g, Freeing
<1>3. g.child[z] = c /\ g.degree[z] = n
  BY <1>0, <1>1, <1>2
<1>4. c # NULL /\ c \in S /\ g.parent[c] = z /\ c \in Id /\ c # z
  <2>1. Kids(g.parent, S, z) # {}
    <3>1. Cardinality(Kids(g.parent, S, z)) = n
      BY <1>0, <1>2, <1>3 DEF Forest, FamiliesAgree
    <3> QED
      BY <3>1, FS_EmptySet
  <2>2. c # NULL /\ c \in S /\ g.parent[c] = z
    BY <2>1, <1>0, <1>2, <1>3 DEF Forest, FamiliesAgree
  <2>3. g.parent[z] = NULL
    BY <1>0, <1>1 DEF Freeing
  <2> QED
    BY <2>2, <2>3, <1>0
<1>5. d \in Id /\ d = g.right[c]
  BY <1>1, <1>2, <1>4
<1>6. k \in HeapsOn(Id) /\ SameButLists(k, s.heap)
  BY <1>0, <1>4, MovedIs
<1>7. k.left = moved(g, c, z).left /\ k.right = moved(g, c, z).right
  BY <1>0, <1>1, <1>4, MovedLooksAtLists
<1>8. release(s, z) = [heap |-> f, at |-> d]
  BY DEF release, moved
<1> HIDE DEF k
<1>9. /\ f \in HeapsOn(Id)
      /\ f.parent = [k.parent EXCEPT ![c] = NULL]
      /\ f.left = k.left /\ f.right = k.right /\ f.child = k.child /\ f.degree = k.degree
      /\ f.key = k.key /\ f.maxNode = k.maxNode /\ f.numberOfNodes = k.numberOfNodes
  <2>1. f \in HeapsOn(Id)
    BY <1>0, <1>4, <1>6 DEF HeapsOn
  <2> QED
    BY <2>1, <1>6 DEF HeapsOn
<1> HIDE DEF f
<1>10. n - 1 \in Int /\ n - 1 \in Nat
  OBVIOUS
<1>11. /\ g2 \in HeapsOn(Id) /\ g2.child = [f.child EXCEPT ![z] = IF n - 1 = 0 THEN NULL ELSE d]
       /\ g2.degree = [f.degree EXCEPT ![z] = n - 1]
       /\ g2.left = f.left /\ g2.right = f.right /\ g2.parent = f.parent
  <2> DEFINE p == n - 1
  <2>1. p \in Int
    OBVIOUS
  <2>2. d \in NodeOrNull(Id)
    BY <1>0, <1>5
  <2> HIDE DEF p, d
  <2>3. /\ ghost(f, z, d, p) \in HeapsOn(Id)
        /\ ghost(f, z, d, p).child = [f.child EXCEPT ![z] = IF p = 0 THEN NULL ELSE d]
        /\ ghost(f, z, d, p).degree = [f.degree EXCEPT ![z] = p]
        /\ ghost(f, z, d, p).left = f.left /\ ghost(f, z, d, p).right = f.right
        /\ ghost(f, z, d, p).parent = f.parent
    BY <1>0, <1>9, <2>1, <2>2, GhostIs
  <2> QED
    BY <2>3 DEF p
<1> HIDE DEF g2
<1>12. CutTo(g2, g, c, z, z)
  <2>1. g2.parent = [g.parent EXCEPT ![c] = NULL]
    BY <1>1, <1>6, <1>9, <1>11 DEF SameButLists
  <2>2. g2.degree = [g.degree EXCEPT ![z] = @ - 1]
    BY <1>0, <1>1, <1>2, <1>6, <1>9, <1>11 DEF SameButLists
  <2>3. g2.child = [g.child EXCEPT ![z] = IF n - 1 = 0 THEN NULL ELSE d]
    BY <1>0, <1>1, <1>2, <1>6, <1>9, <1>11 DEF SameButLists
  <2>4. g2.child = [g.child EXCEPT ![z] = IF g.degree[z] - 1 = 0 THEN NULL
                                          ELSE IF g.child[z] = c THEN g.right[c] ELSE g.child[z]]
    BY <2>3, <1>3, <1>5
  <2>5. g2.left = moved(g, c, z).left /\ g2.right = moved(g, c, z).right
    BY <1>7, <1>9, <1>11
  <2> QED
    BY <2>1, <2>2, <2>4, <2>5 DEF CutTo
<1>13. Forest(g2, S)
  <2>1. IsRoot(g, S, z)
    BY <1>0, <1>1 DEF Freeing, IsRoot
  <2>2. z = g.parent[c] /\ z # NULL
    BY <1>0, <1>4
  <2> QED
    BY <1>1, <1>2, <1>4, <1>12, <2>1, <2>2, CutForest
<1>14. \A x \in S : f.parent[x] \in {h.parent[x], NULL}
  <2>1. k.parent \in [Id -> NodeOrNull(Id)] /\ k.parent = s.heap.parent
    BY <1>6, HeapFields DEF SameButLists
  <2> QED
    BY <2>1, <1>4, <1>9 DEF Freeing
<1>15. release(s, z) \in Cursors(Id)
  BY <1>0, <1>5, <1>8, <1>9 DEF Cursors
<1>16. f.key = h.key /\ f.maxNode = h.maxNode /\ f.numberOfNodes = h.numberOfNodes
  BY <1>6, <1>9 DEF SameButLists, Freeing
<1>17. release(s, z).heap = f /\ release(s, z).at = d
  BY <1>8
<1> HIDE DEF d
<1> QED
  BY <1>10, <1>13, <1>14, <1>15, <1>16, <1>17 DEF Freeing, g2

\* Freed is z of all its children.
LEMMA ReleaseAll ==
  ASSUME NEW Id, Ids(Id), NEW S \in SUBSET Id, NEW h \in HeapsOn(Id), Forest(h, S),
         IsRoot(h, S, h.maxNode)
  PROVE  /\ releaseChildren(h) \in HeapsOn(Id)
         /\ \E c \in NodeOrNull(Id) : Freeing(h, S, h.maxNode, [heap |-> releaseChildren(h), at |-> c], 0)
<1> DEFINE z == h.maxNode
           n == h.degree[z]
           s0 == [heap |-> h, at |-> h.child[z]]
           stage == [i \in 0 .. n |-> {s \in Cursors(Id) : Freeing(h, S, z, s, n - i)}]
           F == [i \in 1 .. n |-> [s \in stage[i - 1] |-> release(s, z)]]
           a == CHOOSE g : g = [i \in 0 .. n |-> IF i = 0 THEN s0 ELSE release(g[i - 1], z)]
<1>0. /\ z \in Id /\ z \in S /\ h.child[z] \in NodeOrNull(Id) /\ NULL \in NodeOrNull(Id)
      /\ h.child \in [Id -> NodeOrNull(Id)] /\ h.degree \in [Id -> Int]
  BY HeapFields DEF IsRoot, NodeOrNull
<1>1. n \in Nat /\ (n = 0 => h.child[z] = NULL)
  <2>1. Kids(h.parent, S, z) \in SUBSET Id
    BY DEF Kids
  <2>2. n = Cardinality(Kids(h.parent, S, z))
    BY <1>0 DEF Forest, FamiliesAgree
  <2>3. n \in Nat /\ IsFiniteSet(Kids(h.parent, S, z))
    BY <2>1, <2>2, SubsetCard
  <2>4. n = 0 => Kids(h.parent, S, z) = {}
    BY <2>2, <2>3, FS_EmptySet
  <2> QED
    BY <2>3, <2>4, <1>0 DEF Kids, Forest, FamiliesAgree
<1>2. s0 \in Cursors(Id) /\ Freeing(h, S, z, s0, n)
  <2> DEFINE g == ghost(h, z, h.child[z], n)
  <2>1. /\ g \in HeapsOn(Id) /\ g.child = [h.child EXCEPT ![z] = IF n = 0 THEN NULL ELSE h.child[z]]
        /\ g.degree = [h.degree EXCEPT ![z] = n]
        /\ g.left = h.left /\ g.right = h.right /\ g.parent = h.parent
    BY <1>0, <1>1, GhostIs
  <2> HIDE DEF g
  <2>2. g.child = h.child /\ g.degree = h.degree
    BY <1>0, <1>1, <2>1
  <2>3. Forest(g, S)
    BY <2>1, <2>2 DEF Forest
  <2>4. s0.heap = h /\ s0.at = h.child[z] /\ s0 \in Cursors(Id)
    BY <1>0 DEF Cursors
  <2> HIDE DEF s0, n
  <2> QED
    BY <2>3, <2>4, <1>1 DEF Freeing, g
<1> HIDE DEF n
<1>3. s0 \in stage[0]
  BY <1>1, <1>2
<1>4. ASSUME NEW i \in 1 .. n, NEW s \in stage[i - 1] PROVE release(s, z) \in stage[i]
  <2> DEFINE p == n - (i - 1)
  <2>1. p \in Nat /\ p # 0 /\ p - 1 = n - i /\ i - 1 \in 0 .. n /\ i \in 0 .. n
    BY <1>1
  <2>2. s \in Cursors(Id) /\ Freeing(h, S, z, s, p)
    BY <2>1
  <2> HIDE DEF p
  <2>3. release(s, z) \in Cursors(Id) /\ Freeing(h, S, z, release(s, z), p - 1)
    BY <2>1, <2>2, ReleaseKeeps
  <2> QED
    BY <2>1, <2>3
<1>5. \A i \in 1 .. n : F[i] \in [stage[i - 1] -> stage[i]]
  <2> HIDE DEF stage, z
  <2> QED
    BY <1>4
<1> HIDE DEF stage, s0
<1>6. PICK f : IsTrace(f, n) /\ IsRun(f, n, s0, F, stage)
  <2> HIDE DEF F
  <2> QED
    BY <1>1, <1>3, <1>5, RunExists
<1>7. f = [i \in 0 .. n |-> IF i = 0 THEN s0 ELSE release(f[i - 1], z)]
  <2>1. ASSUME NEW i \in 1 .. n PROVE f[i] = release(f[i - 1], z)
    <3>1. i - 1 \in 0 .. n /\ f[i] = F[i][f[i - 1]] /\ f[i - 1] \in stage[i - 1]
      <4> HIDE DEF F
      <4>1. i - 1 \in 0 .. n
        BY <1>1
      <4> QED
        BY <4>1, <1>6 DEF IsRun
    <3> QED
      BY <3>1
  <2>2. f[0] = s0
    BY <1>6 DEF IsRun
  <2> HIDE DEF F, z
  <2>3. \A i \in 0 .. n : f[i] = IF i = 0 THEN s0 ELSE release(f[i - 1], z)
    BY <1>1, <2>1, <2>2
  <2> QED
    BY <1>6, <2>3 DEF IsTrace
<1>8. a = [i \in 0 .. n |-> IF i = 0 THEN s0 ELSE release(a[i - 1], z)]
  BY <1>7
<1> HIDE DEF a, F
<1>9. a[n] \in stage[n]
  <2>1. a[0] \in stage[0] /\ \A i \in 1 .. n : a[i - 1] \in stage[i - 1] => a[i] \in stage[i]
    <3>1. ASSUME NEW i \in 1 .. n, a[i - 1] \in stage[i - 1] PROVE a[i] \in stage[i]
      <4>1. a[i] = release(a[i - 1], z)
        BY <1>1, <1>8
      <4> QED
        BY <4>1, <3>1, <1>4
    <3>2. a[0] = s0
      BY <1>1, <1>8
    <3> QED
      BY <3>1, <3>2, <1>3
  <2>2. \A i \in 0 .. n : a[i] \in stage[i]
    BY <1>1, <2>1, RunStays
  <2> QED
    BY <1>1, <2>2
<1>10. releaseChildren(h) = a[n].heap
  BY DEF releaseChildren, Loop, a, n, s0
<1>11. a[n] \in Cursors(Id) /\ Freeing(h, S, z, a[n], 0)
  <2>1. n - n = 0 /\ n \in 0 .. n
    BY <1>1
  <2>2. a[n] \in Cursors(Id) /\ Freeing(h, S, z, a[n], n - n)
    BY <2>1, <1>9 DEF stage
  <2> QED
    BY <2>1, <2>2
<1>12. a[n] = [heap |-> a[n].heap, at |-> a[n].at] /\ a[n].heap \in HeapsOn(Id) /\ a[n].at \in NodeOrNull(Id)
  BY <1>11 DEF Cursors
<1> QED
  BY <1>10, <1>11, <1>12

LEMMA ShrunkLists ==
  ASSUME NEW S, NEW left, NEW right, NEW cls, Circular(left, right, cls, S), NEW x \in S,
         Alone(cls, S, x)
  PROVE  Circular(left, right, cls, S \ {x})
<1>1. Paired(left, right, cls, S \ {x})
  <2> SUFFICES ASSUME NEW z \in S \ {x}
               PROVE  /\ left[z] \in S \ {x} /\ right[z] \in S \ {x}
                      /\ left[right[z]] = z /\ right[left[z]] = z
                      /\ cls[right[z]] = cls[z]
    BY DEF Paired
  <2> QED
    BY DEF Circular, Paired, Alone
<1>2. Whole(right, cls, S \ {x})
  BY DEF Circular, Whole
<1> QED
  BY <1>1, <1>2 DEF Circular

\* p is h but for what z knows of its children, which have left.
Childless(p, h, S, z) ==
  /\ p.left = h.left /\ p.right = h.right /\ p.parent = h.parent
  /\ p.parent[z] = NULL /\ p.degree[z] = 0
  /\ \A x \in S \ {z} : p.child[x] = h.child[x] /\ p.degree[x] = h.degree[x]

LEMMA LeavesForest ==
  ASSUME NEW Id, Ids(Id), NEW S \in SUBSET Id, NEW h \in HeapsOn(Id), NEW z \in S,
         NEW p \in HeapsOn(Id), Forest(p, S), Childless(p, h, S, z)
  PROVE  /\ Forest(unlink(h, z), S \ {z})
         /\ unlink(h, z).right[z] = h.right[z]
<1> DEFINE g == unlink(h, z)
           alone == [h.parent EXCEPT ![z] = -2]
           left == [g.left EXCEPT ![z] = z]
           right == [g.right EXCEPT ![z] = z]
           T == S \ {z}
<1>0. /\ h.parent \in [Id -> NodeOrNull(Id)] /\ h.left \in [Id -> Id] /\ h.right \in [Id -> Id]
      /\ z \in Id /\ NULL \notin Id
      /\ Circular(h.left, h.right, h.parent, S)
  <2>1. NULL \notin Id
    BY DEF Ids, NULL
  <2> QED
    BY <2>1, HeapFields DEF Forest, Childless
<1>1. g \in HeapsOn(Id) /\ Unlinked(g, h, z)
  BY <1>0, UnlinkIs
<1>2. Isolates(h.left, h.right, left, right, S, z)
  BY <1>0, UnlinkIsolates
<1>3. /\ \A x \in Id : alone[x] = (IF x = z THEN -2 ELSE h.parent[x]) /\ h.parent[x] # -2
      /\ Alone(alone, S, z)
  <2>1. \A x \in Id : h.parent[x] # -2
    <3>1. -2 \notin NodeOrNull(Id)
      BY DEF NodeOrNull, Ids, NULL
    <3> QED
      BY <3>1, <1>0
  <2>2. \A x \in Id : alone[x] = IF x = z THEN -2 ELSE h.parent[x]
    BY <1>0
  <2> HIDE DEF alone
  <2> QED
    BY <2>1, <2>2, <1>0 DEF Alone
<1>4. Circular(left, right, alone, T)
  <2> HIDE DEF left, right, alone
  <2>1. \A x \in S \ {z} : alone[x] = h.parent[x]
    BY <1>3
  <2>2. Circular(left, right, alone, S)
    BY <1>0, <1>2, <1>3, <2>1, IsolatedLists
  <2> QED
    BY <1>3, <2>2, ShrunkLists
<1>5. Circular(g.left, g.right, g.parent, T)
  <2>1. \A x \in T : /\ g.left[x] = left[x] /\ g.right[x] = right[x] /\ g.parent[x] = alone[x]
    <3>1. g.left \in [Id -> Id] /\ g.right \in [Id -> Id] /\ g.parent = h.parent
      BY <1>1, HeapFields DEF Unlinked, SameButLists
    <3> QED
      BY <3>1, <1>3
  <2> HIDE DEF left, right, alone, T, g
  <2>2. Paired(g.left, g.right, g.parent, T)
    <3> SUFFICES ASSUME NEW x \in T
                 PROVE  /\ g.left[x] \in T /\ g.right[x] \in T
                        /\ g.left[g.right[x]] = x /\ g.right[g.left[x]] = x
                        /\ g.parent[g.right[x]] = g.parent[x]
      BY DEF Paired
    <3>1. /\ left[x] \in T /\ right[x] \in T
          /\ left[right[x]] = x /\ right[left[x]] = x /\ alone[right[x]] = alone[x]
      BY <1>4 DEF Circular, Paired
    <3> QED
      BY <2>1, <3>1
  <2>3. Whole(g.right, g.parent, T)
    <3> SUFFICES ASSUME NEW C \in SUBSET T, Stays(g.right, C), NEW a \in C, NEW b \in T,
                        g.parent[a] = g.parent[b]
                 PROVE  b \in C
      BY DEF Whole
    <3>1. Stays(right, C) /\ alone[a] = alone[b]
      BY <2>1 DEF Stays
    <3> QED
      BY <3>1, <1>4 DEF Circular, Whole
  <2> QED
    BY <2>2, <2>3 DEF Circular
<1>6. Kids(h.parent, S, z) = {}
  <2>1. Kids(h.parent, S, z) \in SUBSET Id
    BY DEF Kids
  <2>2. Cardinality(Kids(h.parent, S, z)) = 0
    BY DEF Forest, FamiliesAgree, Childless
  <2> QED
    BY <2>1, <2>2, SubsetCard, FS_EmptySet
<1>7. \A x \in T : h.parent[x] # z
  BY <1>6 DEF Kids
<1>8. Rooted(h.parent, T)
  <2>1. Rooted(h.parent, S)
    BY DEF Forest, Childless
  <2> QED
    BY <2>1, <1>7 DEF Rooted
<1>9. FamiliesAgree(h.child, h.degree, h.parent, T)
  <2> SUFFICES ASSUME NEW x \in T
               PROVE  /\ h.child[x] = NULL => Kids(h.parent, T, x) = {}
                      /\ h.child[x] # NULL => h.child[x] \in T /\ h.parent[h.child[x]] = x
                      /\ h.degree[x] = Cardinality(Kids(h.parent, T, x))
    BY DEF FamiliesAgree
  <2>1. /\ h.child[x] = NULL => Kids(h.parent, S, x) = {}
        /\ h.child[x] # NULL => h.child[x] \in S /\ h.parent[h.child[x]] = x
        /\ h.degree[x] = Cardinality(Kids(h.parent, S, x))
    BY DEF Forest, FamiliesAgree, Childless
  <2>2. h.parent[z] = NULL /\ x # NULL
    BY <1>0 DEF Childless
  <2>3. Kids(h.parent, T, x) = Kids(h.parent, S, x)
    BY <2>2 DEF Kids
  <2> QED
    BY <2>1, <2>2, <2>3
<1>10. Forest(g, T)
  BY <1>1, <1>5, <1>8, <1>9 DEF Forest, Unlinked, SameButLists
<1>11. g.right[z] = h.right[z]
  <2>1. h.left[z] \in Id /\ h.right[h.left[z]] = z
    BY <1>0 DEF Circular, Paired
  <2> QED
    BY <2>1, <1>0, <1>1 DEF Unlinked
<1> QED
  BY <1>10, <1>11

\* What remains when the maximum is gone.
Headless(g, h, S, Id) ==
  /\ HeapOn(g, S \ {h.maxNode}, Id)
  /\ g.key = h.key /\ g.numberOfNodes = h.numberOfNodes
  /\ g.right[h.maxNode] = h.maxNode => S = {h.maxNode}
  /\ g.right[h.maxNode] # h.maxNode => IsRoot(g, S \ {h.maxNode}, g.right[h.maxNode])

LEMMA MaximumLeaves ==
  ASSUME NEW Id, Ids(Id), NEW S, NEW h, HeapInv(h, S, Id), S # {}
  PROVE  Headless(unlink(releaseChildren(h), h.maxNode), h, S, Id)
<1> DEFINE z == h.maxNode
           f == releaseChildren(h)
           g == unlink(f, z)
           T == S \ {z}
<1>0. /\ h \in HeapsOn(Id) /\ S \in SUBSET Id /\ Forest(h, S) /\ Ordered(h, S)
      /\ IsRoot(h, S, z) /\ z \in S /\ z \in Id /\ NULL \notin Id
  <2>1. NULL \notin Id
    BY DEF Ids, NULL
  <2> QED
    BY <2>1 DEF HeapInv, HeapOn, IsRoot
<1>1. f \in HeapsOn(Id) /\ \E c \in NodeOrNull(Id) : Freeing(h, S, z, [heap |-> f, at |-> c], 0)
  BY <1>0, ReleaseAll
<1> HIDE DEF f
<1>2. PICK c \in NodeOrNull(Id) : Freeing(h, S, z, [heap |-> f, at |-> c], 0)
  BY <1>1
<1> DEFINE p == ghost(f, z, c, 0)
<1>3. /\ Forest(p, S)
      /\ f.key = h.key /\ f.maxNode = h.maxNode /\ f.numberOfNodes = h.numberOfNodes
      /\ \A x \in S : f.parent[x] \in {h.parent[x], NULL}
  BY <1>2 DEF Freeing
<1>4. p \in HeapsOn(Id) /\ Childless(p, f, S, z)
  <2>1. /\ p \in HeapsOn(Id)
        /\ p.child = [f.child EXCEPT ![z] = IF 0 = 0 THEN NULL ELSE c]
        /\ p.degree = [f.degree EXCEPT ![z] = 0]
        /\ p.left = f.left /\ p.right = f.right /\ p.parent = f.parent
    BY <1>0, <1>1, GhostIs
  <2>2. f.child \in [Id -> NodeOrNull(Id)] /\ f.degree \in [Id -> Int]
    BY <1>1, HeapFields
  <2>3. f.parent[z] = NULL
    BY <1>0, <1>3 DEF IsRoot
  <2> HIDE DEF p, z
  <2> QED
    BY <2>1, <2>2, <2>3, <1>0 DEF Childless
<1> HIDE DEF p
<1>5. Forest(g, T) /\ g.right[z] = f.right[z]
  <2> HIDE DEF z
  <2>1. Forest(unlink(f, z), S \ {z}) /\ unlink(f, z).right[z] = f.right[z]
    BY <1>0, <1>1, <1>3, <1>4, LeavesForest
  <2> QED
    BY <2>1
<1>6. g \in HeapsOn(Id) /\ SameButLists(g, f)
  BY <1>0, <1>1, UnlinkIs DEF Unlinked
<1> HIDE DEF g
<1>7. Ordered(g, T)
  BY <1>0, <1>3, <1>6 DEF Ordered, SameButLists
<1>8. HeapOn(g, T, Id)
  BY <1>0, <1>5, <1>6, <1>7 DEF HeapOn
<1>9. Circular(f.left, f.right, f.parent, S) /\ f.parent[z] = NULL
  BY <1>3, <1>4 DEF Forest, Childless
<1>10. ASSUME g.right[z] = z PROVE S = {z}
  <2> SUFFICES ASSUME T # {} PROVE FALSE
    BY <1>0
  <2>1. PICK r \in T : IsRoot(g, T, r)
    <3> HIDE DEF T
    <3> QED
      BY <1>8, SomeRoot
  <2>2. f.parent[r] = f.parent[z] /\ r \in S /\ r # z
    BY <2>1, <1>6, <1>9 DEF IsRoot, SameButLists
  <2>3. {z} \in SUBSET S /\ Stays(f.right, {z})
    BY <1>0, <1>5, <1>10 DEF Stays
  <2> QED
    BY <2>2, <2>3, <1>9 DEF Circular, Whole
<1>11. ASSUME g.right[z] # z PROVE IsRoot(g, T, g.right[z])
  <2>1. f.right[z] \in S /\ f.parent[f.right[z]] = f.parent[z]
    BY <1>0, <1>9 DEF Circular, Paired
  <2> QED
    BY <2>1, <1>5, <1>6, <1>9, <1>11 DEF IsRoot, SameButLists
<1>12. g.key = h.key /\ g.numberOfNodes = h.numberOfNodes
  BY <1>3, <1>6 DEF SameButLists
<1> QED
  BY <1>8, <1>10, <1>11, <1>12 DEF Headless, g, f

-----------------------------------------------------------------------------
(* Walks round a list. *)

Class(cls, S, x) == {y \in S : cls[y] = cls[x]}

\* w goes once round the list R by right.
IsRound(w, n, right, R) ==
  /\ w \in [0 .. n -> R]
  /\ w[n] = w[0]
  /\ \A i \in 1 .. n : w[i] = right[w[i - 1]]
  /\ \A i, j \in 0 .. n - 1 : w[i] = w[j] => i = j
  /\ \A y \in R : \E i \in 0 .. n - 1 : w[i] = y

IsWalk(f, n, right) == \A i \in 1 .. n : f[i] = right[f[i - 1]]

\* Walks that meet once have gone together for as long as both have gone.
LEMMA WalkBack ==
  ASSUME NEW left, NEW right, NEW cls, NEW S, Paired(left, right, cls, S), NEW N \in Nat,
         NEW f \in [0 .. N -> S], IsWalk(f, N, right),
         NEW i \in 0 .. N, NEW j \in 0 .. N, i < j, f[i] = f[j], NEW d, d = j - i
  PROVE  f[d] = f[0]
<1> DEFINE K == {k \in 0 .. i : f[i - k] = f[j - k]}
<1>1. 0 \in K
  OBVIOUS
<1>2. ASSUME NEW k \in 1 .. i, k - 1 \in K PROVE k \in K
  <2> DEFINE i1 == i - k  j1 == j - k
  <2>1. i1 \in 0 .. N /\ j1 \in 0 .. N /\ i1 + 1 \in 1 .. N /\ j1 + 1 \in 1 .. N
    OBVIOUS
  <2>2. i1 + 1 = i - (k - 1) /\ j1 + 1 = j - (k - 1)
    OBVIOUS
  <2>3. f[i1 + 1] = f[j1 + 1]
    BY <1>2, <2>2
  <2>4. f[i1 + 1] = right[f[i1]] /\ f[j1 + 1] = right[f[j1]]
    <3>1. f[i1 + 1] = right[f[(i1 + 1) - 1]] /\ f[j1 + 1] = right[f[(j1 + 1) - 1]]
      BY <2>1 DEF IsWalk
    <3> QED
      BY <2>1, <3>1
  <2>5. f[i1] \in S /\ f[j1] \in S
    BY <2>1
  <2>6. f[i1] = f[j1]
    <3> HIDE DEF i1, j1, K
    <3>1. left[right[f[i1]]] = f[i1] /\ left[right[f[j1]]] = f[j1]
      BY <2>5 DEF Paired
    <3> QED
      BY <2>3, <2>4, <3>1
  <2> QED
    BY <2>6
<1>3. i \in K
  <2>1. \A k \in 1 .. i : k - 1 \in K => k \in K
    BY <1>2
  <2> HIDE DEF K
  <2>2. i \in Nat
    OBVIOUS
  <2>3. \A k \in 0 .. i : k \in K
    BY <1>1, <2>1, <2>2, CountUp
  <2> QED
    BY <2>2, <2>3
<1> QED
  BY <1>3

LEMMA RoundExists ==
  ASSUME NEW Id, IsFiniteSet(Id), NEW S \in SUBSET Id, NEW left, NEW right, NEW cls,
         Circular(left, right, cls, S), NEW x \in S
  PROVE  \E n \in 1 .. Cardinality(Id) : \E w : w[0] = x /\ IsRound(w, n, right, Class(cls, S, x))
<1> DEFINE N == Cardinality(Id)
           R == Class(cls, S, x)
           stage == [i \in 0 .. N |-> R]
           F == [i \in 1 .. N |-> [y \in R |-> right[y]]]
<1>0. N \in Nat /\ x \in R /\ \A y \in R : right[y] \in R
  BY FS_CardinalityType DEF Class, Circular, Paired
<1>1. PICK f : IsTrace(f, N) /\ IsRun(f, N, x, F, stage)
  <2>1. x \in stage[0] /\ \A i \in 1 .. N : F[i] \in [stage[i - 1] -> stage[i]]
    <3> HIDE DEF R
    <3> QED
      BY <1>0
  <2> HIDE DEF F, stage
  <2> QED
    BY <1>0, <2>1, RunExists
<1>2. f \in [0 .. N -> R] /\ f[0] = x /\ \A i \in 1 .. N : f[i] = right[f[i - 1]]
  <2>1. f[0] = x /\ \A i \in 0 .. N : f[i] \in R
    BY <1>1, <1>0 DEF IsRun
  <2>2. ASSUME NEW i \in 1 .. N PROVE f[i] = right[f[i - 1]]
    <3>1. f[i] = F[i][f[i - 1]] /\ i - 1 \in 0 .. N
      <4> HIDE DEF F, stage
      <4> QED
        BY <1>0, <1>1 DEF IsRun
    <3>2. f[i - 1] \in R
      BY <3>1, <2>1
    <3> HIDE DEF R
    <3> QED
      BY <3>1, <3>2
  <2>3. f \in [0 .. N -> R]
    BY <1>1, <2>1 DEF IsTrace
  <2> QED
    BY <2>1, <2>2, <2>3
<1> HIDE DEF F, stage
<1>3. R \in SUBSET S /\ f \in [0 .. N -> S]
  BY <1>2 DEF Class
<1>4. ASSUME NEW i \in 0 .. N, NEW j \in 0 .. N, i < j, f[i] = f[j] PROVE f[j - i] = x
  <2>1. Paired(left, right, cls, S)
    BY DEF Circular
  <2> HIDE DEF R, N
  <2>2. IsWalk(f, N, right)
    BY <1>2 DEF IsWalk
  <2>3. f[j - i] = f[0]
    <3> DEFINE d == j - i
    <3> HIDE DEF d
    <3>1. f[d] = f[0]
      BY <1>0, <1>3, <1>4, <2>1, <2>2, WalkBack DEF d
    <3> QED
      BY <3>1 DEF d
  <2> QED
    BY <1>2, <2>3
<1> DEFINE P == {k \in 1 .. N : f[k] = x}
<1>5. P # {}
  <2>1. IsFiniteSet(0 .. N) /\ Cardinality(0 .. N) = N + 1
    <3>1. 0 \in Int /\ N \in Int /\ ~(0 > N) /\ N - 0 + 1 = N + 1
      BY <1>0
    <3> HIDE DEF N
    <3> QED
      BY <3>1, FS_Interval
  <2>2. f \in [0 .. N -> Id] /\ N < N + 1
    BY <1>0, <1>3
  <2>3. \E i, j \in 0 .. N : i # j /\ f[i] = f[j]
    BY <2>1, <2>2, FS_PigeonHole
  <2>4. PICK i \in 0 .. N, j \in 0 .. N : i < j /\ f[i] = f[j]
    <3> HIDE DEF N
    <3> QED
      BY <1>0, <2>3
  <2>5. f[j - i] = x
    BY <1>4, <2>4
  <2>6. j - i \in 1 .. N
    <3> HIDE DEF N
    <3> QED
      BY <2>4, <1>0
  <2> QED
    BY <2>5, <2>6
<1>6. PICK n \in P : \A m \in P : n <= m
  <2>1. P \subseteq Nat
    OBVIOUS
  <2> HIDE DEF P
  <2> QED
    BY <1>5, <2>1, LeastOfNats
<1>7. n \in 1 .. N /\ f[n] = x /\ n \in Nat
  BY <1>6
<1> DEFINE w == [i \in 0 .. n |-> f[i]]
<1> HIDE DEF N, R
<1>8. w \in [0 .. n -> R] /\ w[n] = x /\ w[0] = x /\ \A i \in 0 .. n : w[i] = f[i]
  BY <1>0, <1>2, <1>7
<1>9. ASSUME NEW i \in 1 .. n PROVE w[i] = right[w[i - 1]]
  <2>1. i \in 1 .. N /\ i - 1 \in 0 .. n
    BY <1>0, <1>7
  <2> QED
    BY <2>1, <1>2, <1>8
<1> HIDE DEF w
<1>10. ASSUME NEW i \in 0 .. n - 1, NEW j \in 0 .. n - 1, w[i] = w[j], i < j PROVE FALSE
  <2>1. i \in 0 .. N /\ j \in 0 .. N /\ i \in 0 .. n /\ j \in 0 .. n /\ j - i \in 1 .. N /\ j - i < n
    BY <1>0, <1>7, <1>10
  <2>2. f[j - i] = x
    BY <2>1, <1>4, <1>8, <1>10
  <2>3. j - i \in P
    BY <2>1, <2>2
  <2>4. n <= j - i
    BY <2>3, <1>6
  <2> QED
    BY <2>1, <2>4, <1>7
<1>11. \A i, j \in 0 .. n - 1 : w[i] = w[j] => i = j
  <2> SUFFICES ASSUME NEW i \in 0 .. n - 1, NEW j \in 0 .. n - 1, w[i] = w[j], i # j PROVE FALSE
    OBVIOUS
  <2>1. i < j \/ j < i
    BY <1>7
  <2> QED
    BY <2>1, <1>10
<1>12. \A y \in R : \E i \in 0 .. n - 1 : w[i] = y
  <2> DEFINE C == {w[i] : i \in 0 .. n - 1}
  <2>1. C \in SUBSET S /\ x \in C
    BY <1>7, <1>8, <1>3
  <2>2. ASSUME NEW y \in C PROVE right[y] \in C
    <3>1. PICK i \in 0 .. n - 1 : w[i] = y
      BY <2>2
    <3>2. i + 1 \in 1 .. n /\ (i + 1) - 1 = i
      BY <3>1, <1>7
    <3>3. w[i + 1] = right[y]
      BY <3>1, <3>2, <1>9
    <3>4. CASE i + 1 = n
      BY <3>3, <3>4, <2>1, <1>8
    <3>5. CASE i + 1 # n
      <4>1. i + 1 \in 0 .. n - 1
        BY <3>2, <3>5, <1>7
      <4> QED
        BY <4>1, <3>3
    <3> QED
      BY <3>4, <3>5
  <2>3. Stays(right, C)
    BY <2>2 DEF Stays
  <2> HIDE DEF C
  <2>4. \A y \in S : cls[x] = cls[y] => y \in C
    BY <2>1, <2>3 DEF Circular, Whole
  <2>5. \A y \in R : y \in C
    BY <2>4 DEF R, Class
  <2> QED
    BY <2>5 DEF C
<1>13. IsRound(w, n, right, R)
  BY <1>7, <1>8, <1>9, <1>11, <1>12 DEF IsRound
<1> QED
  BY <1>7, <1>8, <1>13 DEF N, R

\* A round is as long as the list has nodes.
LEMMA RoundCounts ==
  ASSUME NEW R, NEW n \in Nat \ {0}, NEW w, NEW right, IsRound(w, n, right, R)
  PROVE  IsFiniteSet(R) /\ Cardinality(R) = n
<1> DEFINE v == [i \in 0 .. n - 1 |-> w[i]]
<1>1. v \in Bijection(0 .. n - 1, R)
  <2>1. v \in [0 .. n - 1 -> R] /\ \A i \in 0 .. n - 1 : v[i] = w[i]
    BY DEF IsRound
  <2> HIDE DEF v
  <2> QED
    BY <2>1 DEF IsRound, Bijection, Injection, Surjection, IsInjective
<1>2. IsFiniteSet(0 .. n - 1) /\ Cardinality(0 .. n - 1) = n
  <2> DEFINE p == n - 1
  <2>1. 0 \in Int /\ p \in Int /\ ~(0 > p) /\ p - 0 + 1 = n
    OBVIOUS
  <2> HIDE DEF p
  <2>2. IsFiniteSet(0 .. p) /\ Cardinality(0 .. p) = n
    BY <2>1, FS_Interval
  <2> QED
    BY <2>2 DEF p
<1> QED
  BY <1>1, <1>2, FS_Bijection DEF ExistsBijection

-----------------------------------------------------------------------------
(* Removal, part two: no two of the roots that are left have one degree. *)

Slots(Id) == 0 .. Cardinality(Id)

Tables(Id) == [heap : HeapsOn(Id), at : Id, degreeTable : [Slots(Id) -> NodeOrNull(Id)]]

\* An entry of the table is a root of its degree.
Tabled(h, S, Id, table) ==
  \A d \in Slots(Id) : table[d] # NULL => IsRoot(h, S, table[d]) /\ h.degree[table[d]] = d

\* The roots w[lo], w[lo + 1], ... are not in the table, and next to each other.
Waiting(h, S, Id, table, w, lo, n) ==
  \A j \in lo .. n - 1 :
    /\ IsRoot(h, S, w[j])
    /\ \A d \in Slots(Id) : table[d] # w[j]
    /\ j + 1 <= n - 1 => h.right[w[j]] = w[j + 1]

\* All roots but x are in the table, or wait.
Covered(h, S, Id, table, w, lo, n, x) ==
  \A r \in S : IsRoot(h, S, r) =>
    r = x \/ (\E d \in Slots(Id) : table[d] = r) \/ (\E j \in lo .. n - 1 : w[j] = r)

\* The root s.at is in neither; degrees under d are done with.
Merging(h, S, Id, w, lo, n, s, d) ==
  /\ HeapOn(s.heap, S, Id) /\ s.heap.key = h.key /\ s.heap.numberOfNodes = h.numberOfNodes
  /\ Tabled(s.heap, S, Id, s.degreeTable)
  /\ Waiting(s.heap, S, Id, s.degreeTable, w, lo, n)
  /\ Covered(s.heap, S, Id, s.degreeTable, w, lo, n, s.at)
  /\ IsRoot(s.heap, S, s.at)
  /\ \A e \in Slots(Id) : s.degreeTable[e] # s.at
  /\ \A j \in lo .. n - 1 : w[j] # s.at
  /\ s.heap.degree[s.at] < d => s.degreeTable[s.heap.degree[s.at]] = NULL

LEMMA DegreeIsSlot ==
  ASSUME NEW Id, Ids(Id), NEW S, NEW h, HeapOn(h, S, Id), NEW x \in S
  PROVE  h.degree[x] \in Slots(Id) /\ h.degree[x] \in Nat
<1>1. Kids(h.parent, S, x) \in SUBSET Id
  BY DEF Kids, HeapOn
<1>2. h.degree[x] = Cardinality(Kids(h.parent, S, x))
  BY DEF HeapOn, Forest, FamiliesAgree
<1> QED
  BY <1>1, <1>2, SubsetCard DEF Slots

\* A root that comes under a greater one.
LEMMA ChildHeap ==
  ASSUME NEW Id, Ids(Id), NEW S, NEW h, HeapOn(h, S, Id), NEW x, NEW y, IsRoot(h, S, x),
         IsRoot(h, S, y), x # y, h.key[y] <= h.key[x]
  PROVE  /\ HeapOn(makeChild(h, y, x), S, Id)
         /\ ChildLeaves(makeChild(h, y, x), h, S, y, x)
         /\ \A r \in S : makeChild(h, y, x).parent[r] = IF r = y THEN x ELSE h.parent[r]
         /\ \A r \in S : makeChild(h, y, x).degree[r] = IF r = x THEN h.degree[x] + 1 ELSE h.degree[r]
<1> DEFINE g == makeChild(h, y, x)
<1>1. g \in HeapsOn(Id) /\ Forest(g, S) /\ ChildLeaves(g, h, S, y, x)
  BY MakeChildKeeps DEF HeapOn
<1> HIDE DEF g
<1>2. h.parent \in [Id -> NodeOrNull(Id)] /\ h.degree \in [Id -> Int] /\ S \subseteq Id
  BY HeapFields DEF HeapOn
<1>3. \A r \in S : g.parent[r] = IF r = y THEN x ELSE h.parent[r]
  BY <1>1, <1>2 DEF ChildLeaves
<1>4. \A r \in S : g.degree[r] = IF r = x THEN h.degree[x] + 1 ELSE h.degree[r]
  BY <1>1, <1>2 DEF ChildLeaves
<1>5. Ordered(g, S)
  BY <1>1, <1>3 DEF HeapOn, Ordered, ChildLeaves
<1> QED
  BY <1>1, <1>3, <1>4, <1>5 DEF HeapOn, g

LEMMA MergeKeeps ==
  ASSUME NEW Id, Ids(Id), NEW S, NEW h, NEW w, NEW n \in Nat, NEW lo \in Nat,
         NEW d \in Slots(Id), NEW s \in Tables(Id), Merging(h, S, Id, w, lo, n, s, d)
  PROVE  merge(s, d) \in Tables(Id) /\ Merging(h, S, Id, w, lo, n, merge(s, d), d + 1)
<1> DEFINE g == s.heap
           x == s.at
           table == s.degreeTable
           y == table[d]
           top == IF g.key[x] < g.key[y] THEN y ELSE x
           low == IF top = x THEN y ELSE x
<1>0. /\ HeapOn(g, S, Id) /\ IsRoot(g, S, x) /\ table \in [Slots(Id) -> NodeOrNull(Id)]
      /\ g.degree[x] \in Nat /\ S \subseteq Id /\ d \in Nat
      /\ NULL \notin Id /\ g.key \in [Id -> Int] /\ g.degree[x] \in Slots(Id)
  <2>1. NULL \notin Id
    BY DEF Ids, NULL
  <2>2. HeapOn(g, S, Id) /\ IsRoot(g, S, x) /\ x \in S
    BY DEF Merging, IsRoot
  <2>3. g.degree[x] \in Slots(Id) /\ g.degree[x] \in Nat
    BY <2>2, DegreeIsSlot
  <2> QED
    BY <2>1, <2>2, <2>3, HeapFields DEF Tables, HeapOn, Slots
<1>1. CASE g.degree[x] # d \/ y = NULL
  <2>1. merge(s, d) = s
    BY <1>1 DEF merge
  <2>2. g.degree[x] < d + 1 => table[g.degree[x]] = NULL
    BY <1>0, <1>1 DEF Merging
  <2> QED
    BY <2>1, <2>2 DEF Merging
<1>2. CASE g.degree[x] = d /\ y # NULL
  <2>1. IsRoot(g, S, y) /\ g.degree[y] = d /\ y # x
    BY <1>2 DEF Merging, Tabled
  <2> DEFINE f == makeChild(g, low, top)
             t == [table EXCEPT ![d] = NULL]
  <2>2. merge(s, d) = [heap |-> f, at |-> top, degreeTable |-> t]
    BY <1>2 DEF merge
  <2>3. /\ {top, low} = {x, y} /\ top # low /\ g.key[low] <= g.key[top]
        /\ IsRoot(g, S, top) /\ IsRoot(g, S, low) /\ g.degree[top] = d
    <3>1. g.key[x] \in Int /\ g.key[y] \in Int
      BY <1>0, <2>1 DEF IsRoot
    <3>2. x # y /\ IsRoot(g, S, x) /\ IsRoot(g, S, y) /\ g.degree[x] = d /\ g.degree[y] = d
      BY <2>1, <1>0, <1>2
    <3> HIDE DEF g, x, y
    <3>3. CASE g.key[x] < g.key[y]
      BY <3>1, <3>2, <3>3
    <3>4. CASE ~(g.key[x] < g.key[y])
      BY <3>1, <3>2, <3>4
    <3> QED
      BY <3>3, <3>4
  <2> HIDE DEF top, low
  <2>4. /\ HeapOn(f, S, Id) /\ ChildLeaves(f, g, S, low, top)
        /\ \A r \in S : f.parent[r] = IF r = low THEN top ELSE g.parent[r]
        /\ \A r \in S : f.degree[r] = IF r = top THEN g.degree[top] + 1 ELSE g.degree[r]
    BY <1>0, <2>3, ChildHeap
  <2> HIDE DEF f
  <2>5. f.key = g.key /\ f.numberOfNodes = g.numberOfNodes /\ f \in HeapsOn(Id)
    BY <2>4 DEF ChildLeaves, HeapOn
  <2>6. \A r \in S : IsRoot(f, S, r) <=> IsRoot(g, S, r) /\ r # low
    <3>1. top # NULL
      BY <1>0, <2>3 DEF IsRoot
    <3> QED
      BY <3>1, <2>4, <2>3 DEF IsRoot
  <2>7. \A e \in Slots(Id) : t[e] = IF e = d THEN NULL ELSE table[e]
    BY <1>0
  <2>8. t \in [Slots(Id) -> NodeOrNull(Id)]
    BY <1>0 DEF NodeOrNull
  <2> HIDE DEF t
  <2>9. \A e \in Slots(Id) : t[e] # NULL => t[e] # top /\ t[e] # low
    <3> SUFFICES ASSUME NEW e \in Slots(Id), t[e] # NULL PROVE t[e] # x /\ t[e] # y
      BY <2>3
    <3>1. e # d /\ t[e] = table[e]
      BY <2>7
    <3>2. table[e] # x
      BY DEF Merging
    <3>3. g.degree[table[e]] = e
      BY <3>1 DEF Merging, Tabled
    <3> QED
      BY <3>1, <3>2, <3>3, <2>1
  <2>10. Tabled(f, S, Id, t)
    <3> SUFFICES ASSUME NEW e \in Slots(Id), t[e] # NULL
                 PROVE  IsRoot(f, S, t[e]) /\ f.degree[t[e]] = e
      BY DEF Tabled
    <3>1. t[e] = table[e] /\ IsRoot(g, S, t[e]) /\ g.degree[t[e]] = e /\ t[e] \in S
      BY <2>7 DEF Merging, Tabled, IsRoot
    <3> QED
      BY <3>1, <2>4, <2>6, <2>9
  <2>11. Waiting(f, S, Id, t, w, lo, n)
    <3> SUFFICES ASSUME NEW j \in lo .. n - 1
                 PROVE  /\ IsRoot(f, S, w[j])
                        /\ \A e \in Slots(Id) : t[e] # w[j]
                        /\ j + 1 <= n - 1 => f.right[w[j]] = w[j + 1]
      BY DEF Waiting
    <3>1. /\ IsRoot(g, S, w[j]) /\ \A e \in Slots(Id) : table[e] # w[j]
          /\ j + 1 <= n - 1 => g.right[w[j]] = w[j + 1]
          /\ w[j] # x /\ w[j] \in S /\ w[j] # NULL
      BY <1>0 DEF Merging, Waiting, IsRoot
    <3>2. w[j] # y
      BY <3>1
    <3>3. w[j] # low /\ \A e \in Slots(Id) : t[e] # w[j]
      BY <3>1, <3>2, <2>3, <2>7
    <3>4. ASSUME j + 1 <= n - 1 PROVE f.right[w[j]] = w[j + 1]
      <4>1. j + 1 \in lo .. n - 1
        BY <3>4
      <4>2. w[j + 1] # x /\ \A e \in Slots(Id) : table[e] # w[j + 1]
        BY <4>1 DEF Merging, Waiting
      <4>3. w[j + 1] # low
        BY <4>2, <2>3
      <4> QED
        BY <3>1, <3>3, <3>4, <4>3, <2>4 DEF ChildLeaves
    <3> QED
      BY <3>1, <3>3, <3>4, <2>6
  <2>12. Covered(f, S, Id, t, w, lo, n, top)
    <3> SUFFICES ASSUME NEW r \in S, IsRoot(f, S, r), r # top
                 PROVE  (\E e \in Slots(Id) : t[e] = r) \/ (\E j \in lo .. n - 1 : w[j] = r)
      BY DEF Covered
    <3>1. IsRoot(g, S, r) /\ r # x /\ r # y
      BY <2>3, <2>6
    <3>2. (\E e \in Slots(Id) : table[e] = r) \/ (\E j \in lo .. n - 1 : w[j] = r)
      BY <3>1 DEF Merging, Covered
    <3> QED
      BY <3>1, <3>2, <2>7
  <2>13. IsRoot(f, S, top) /\ top \in S /\ top \in Id /\ f.degree[top] = d + 1 /\ ~(d + 1 < d + 1)
    BY <2>3, <2>4, <2>6, <1>0 DEF IsRoot
  <2>14. \A e \in Slots(Id) : t[e] # top
    BY <2>9, <2>13, <1>0
  <2>15. \A j \in lo .. n - 1 : w[j] # top
    <3> SUFFICES ASSUME NEW j \in lo .. n - 1 PROVE w[j] # x /\ w[j] # y
      BY <2>3
    <3> QED
      BY DEF Merging, Waiting
  <2>16. merge(s, d) \in Tables(Id)
    BY <2>2, <2>5, <2>8, <2>13 DEF Tables
  <2>17. merge(s, d).heap = f /\ merge(s, d).at = top /\ merge(s, d).degreeTable = t
    BY <2>2
  <2>18. f.key = h.key /\ f.numberOfNodes = h.numberOfNodes
    BY <2>5 DEF Merging
  <2> QED
    BY <2>4, <2>10, <2>11, <2>12, <2>13, <2>14, <2>15, <2>16, <2>17, <2>18 DEF Merging
<1> QED
  BY <1>1, <1>2

\* i roots have entered the table.
Filling(h, S, Id, w, n, s, i) ==
  /\ HeapOn(s.heap, S, Id) /\ s.heap.key = h.key /\ s.heap.numberOfNodes = h.numberOfNodes
  /\ Tabled(s.heap, S, Id, s.degreeTable)
  /\ Waiting(s.heap, S, Id, s.degreeTable, w, i, n)
  /\ Covered(s.heap, S, Id, s.degreeTable, w, i, n, NULL)

LEMMA MergeIntoKeeps ==
  ASSUME NEW Id, Ids(Id), NEW S, NEW h, NEW w, NEW n \in Nat, NEW lo \in Nat,
         NEW s \in Tables(Id), Merging(h, S, Id, w, lo, n, s, 0)
  PROVE  /\ mergeInto(s.heap, s.at, s.degreeTable) \in Tables(Id)
         /\ Filling(h, S, Id, w, n, mergeInto(s.heap, s.at, s.degreeTable), lo)
<1> DEFINE k == size(s.heap) + 1
           s0 == [heap |-> s.heap, at |-> s.at, degreeTable |-> s.degreeTable]
           stage == [i \in 0 .. k |-> {t \in Tables(Id) : Merging(h, S, Id, w, lo, n, t, i)}]
           F == [i \in 1 .. k |-> [t \in stage[i - 1] |-> merge(t, i - 1)]]
           a == CHOOSE g : g = [i \in 0 .. k |-> IF i = 0 THEN s0 ELSE merge(g[i - 1], i - 1)]
<1>0. k \in Nat /\ k = Cardinality(Id) + 1 /\ Cardinality(Id) \in Nat
  <2>1. s.heap \in HeapsOn(Id)
    BY DEF Tables
  <2> QED
    BY <2>1, SizeIs
<1>1. s0 = s
  BY DEF Tables
<1> HIDE DEF k, s0
<1>2. s0 \in stage[0]
  BY <1>0, <1>1
<1>3. ASSUME NEW i \in 1 .. k, NEW t \in stage[i - 1] PROVE merge(t, i - 1) \in stage[i]
  <2> DEFINE d == i - 1
  <2>1. d \in Slots(Id) /\ d \in 0 .. k /\ i \in 0 .. k /\ d + 1 = i
    BY <1>0 DEF Slots
  <2>2. t \in Tables(Id) /\ Merging(h, S, Id, w, lo, n, t, d)
    BY <2>1
  <2> HIDE DEF d
  <2>3. merge(t, d) \in Tables(Id) /\ Merging(h, S, Id, w, lo, n, merge(t, d), d + 1)
    BY <2>1, <2>2, MergeKeeps
  <2>4. merge(t, d) \in stage[i]
    BY <2>1, <2>3
  <2> QED
    BY <2>4 DEF d
<1>4. \A i \in 1 .. k : F[i] \in [stage[i - 1] -> stage[i]]
  <2> HIDE DEF stage
  <2> QED
    BY <1>3
<1> HIDE DEF stage
<1>5. PICK f : IsTrace(f, k) /\ IsRun(f, k, s0, F, stage)
  <2> HIDE DEF F
  <2> QED
    BY <1>0, <1>2, <1>4, RunExists
<1>6. f = [i \in 0 .. k |-> IF i = 0 THEN s0 ELSE merge(f[i - 1], i - 1)]
  <2>1. ASSUME NEW i \in 1 .. k PROVE f[i] = merge(f[i - 1], i - 1)
    <3>1. i - 1 \in 0 .. k /\ f[i] = F[i][f[i - 1]] /\ f[i - 1] \in stage[i - 1]
      <4> HIDE DEF F
      <4>1. i - 1 \in 0 .. k
        BY <1>0
      <4> QED
        BY <4>1, <1>5 DEF IsRun
    <3> QED
      BY <3>1
  <2>2. f[0] = s0
    BY <1>5 DEF IsRun
  <2> HIDE DEF F
  <2>3. \A i \in 0 .. k : f[i] = IF i = 0 THEN s0 ELSE merge(f[i - 1], i - 1)
    BY <1>0, <2>1, <2>2
  <2> QED
    BY <1>5, <2>3 DEF IsTrace
<1>7. a = [i \in 0 .. k |-> IF i = 0 THEN s0 ELSE merge(a[i - 1], i - 1)]
  BY <1>6
<1> HIDE DEF a, F
<1>8. a[k] \in stage[k]
  <2>1. ASSUME NEW i \in 1 .. k, a[i - 1] \in stage[i - 1] PROVE a[i] \in stage[i]
    <3>1. a[i] = merge(a[i - 1], i - 1)
      BY <1>0, <1>7
    <3> QED
      BY <3>1, <2>1, <1>3
  <2>2. a[0] \in stage[0]
    BY <1>0, <1>2, <1>7
  <2>3. \A i \in 0 .. k : a[i] \in stage[i]
    BY <1>0, <2>1, <2>2, RunStays
  <2> QED
    BY <1>0, <2>3
<1> DEFINE t == a[k]
           d == t.heap.degree[t.at]
           table == [t.degreeTable EXCEPT ![d] = t.at]
           m == mergeInto(s.heap, s.at, s.degreeTable)
<1>9. m = [t EXCEPT !.degreeTable[t.heap.degree[t.at]] = t.at]
  BY DEF mergeInto, Loop, a, k, s0
<1>10. t \in Tables(Id) /\ Merging(h, S, Id, w, lo, n, t, k)
  BY <1>0, <1>8 DEF stage
<1> HIDE DEF t, m
<1>11. m \in Tables(Id) /\ m.heap = t.heap /\ m.at = t.at /\ m.degreeTable = table
  <2>1. t.degreeTable \in [Slots(Id) -> NodeOrNull(Id)] /\ t.at \in NodeOrNull(Id)
    BY <1>10 DEF Tables, NodeOrNull
  <2>2. table \in [Slots(Id) -> NodeOrNull(Id)]
    BY <2>1
  <2>3. m = [t EXCEPT !.degreeTable = table]
    BY <1>9, <1>10 DEF Tables
  <2> HIDE DEF table
  <2> QED
    BY <2>2, <2>3, <1>10 DEF Tables
<1>12. d \in Slots(Id) /\ d < k /\ t.degreeTable[d] = NULL
  <2>1. t.at \in S /\ HeapOn(t.heap, S, Id)
    BY <1>10 DEF Merging, IsRoot
  <2>2. d \in Slots(Id)
    BY <2>1, DegreeIsSlot
  <2>3. d < k
    BY <2>2, <1>0 DEF Slots
  <2> QED
    BY <2>2, <2>3, <1>10 DEF Merging
<1>13. \A e \in Slots(Id) : table[e] = IF e = d THEN t.at ELSE t.degreeTable[e]
  BY <1>10, <1>12 DEF Tables
<1> HIDE DEF table
<1>14. Tabled(t.heap, S, Id, table)
  BY <1>10, <1>13 DEF Merging, Tabled
<1>15. Waiting(t.heap, S, Id, table, w, lo, n)
  BY <1>10, <1>13 DEF Merging, Waiting
<1>16. Covered(t.heap, S, Id, table, w, lo, n, NULL)
  <2> SUFFICES ASSUME NEW r \in S, IsRoot(t.heap, S, r)
               PROVE  (\E e \in Slots(Id) : table[e] = r) \/ (\E j \in lo .. n - 1 : w[j] = r)
    BY DEF Covered
  <2>1. CASE r = t.at
    BY <2>1, <1>12, <1>13
  <2>2. CASE r # t.at
    <3>1. (\E e \in Slots(Id) : t.degreeTable[e] = r) \/ (\E j \in lo .. n - 1 : w[j] = r)
      BY <2>2, <1>10 DEF Merging, Covered
    <3>2. r # NULL
      BY <1>10 DEF Merging, HeapOn, Ids, NULL
    <3> QED
      BY <3>1, <3>2, <1>12, <1>13
  <2> QED
    BY <2>1, <2>2
<1> QED
  BY <1>10, <1>11, <1>14, <1>15, <1>16 DEF Filling, Merging, m

DistinctOn(w, n) == \A a, b \in 0 .. n - 1 : w[a] = w[b] => a = b
OnWay(w, n, s, i) == i <= n - 1 => s.at = w[i]

LEMMA EnterKeeps ==
  ASSUME NEW Id, Ids(Id), NEW S, NEW h, NEW n \in Nat, NEW i \in 0 .. n - 1, NEW w, DistinctOn(w, n),
         NEW s \in Tables(Id), Filling(h, S, Id, w, n, s, i), OnWay(w, n, s, i)
  PROVE  /\ enter(s) \in Tables(Id)
         /\ Filling(h, S, Id, w, n, enter(s), i + 1)
         /\ OnWay(w, n, enter(s), i + 1)
<1> DEFINE lo == i + 1
           g == s.heap
           m == mergeInto(s.heap, s.at, s.degreeTable)
<1>0. lo \in Nat /\ i \in i .. n - 1 /\ i <= n - 1 /\ g \in HeapsOn(Id) /\ s.at = w[i] /\ S \subseteq Id
  BY DEF Tables, OnWay, Filling, HeapOn
<1>1. /\ IsRoot(g, S, w[i]) /\ \A d \in Slots(Id) : s.degreeTable[d] # w[i]
      /\ i + 1 <= n - 1 => g.right[w[i]] = w[i + 1]
  BY <1>0 DEF Filling, Waiting
<1>2. Merging(h, S, Id, w, lo, n, s, 0)
  <2>1. \A j \in lo .. n - 1 : j \in i .. n - 1 /\ w[j] # s.at
    <3> SUFFICES ASSUME NEW j \in lo .. n - 1 PROVE j \in i .. n - 1 /\ w[j] # w[i]
      BY <1>0
    <3>1. j \in 0 .. n - 1 /\ j # i /\ j \in i .. n - 1
      OBVIOUS
    <3> QED
      BY <3>1 DEF DistinctOn
  <2>2. Waiting(g, S, Id, s.degreeTable, w, lo, n)
    BY <2>1 DEF Filling, Waiting
  <2>3. Covered(g, S, Id, s.degreeTable, w, lo, n, s.at)
    <3> SUFFICES ASSUME NEW r \in S, IsRoot(g, S, r), r # s.at
                 PROVE  (\E d \in Slots(Id) : s.degreeTable[d] = r) \/ (\E j \in lo .. n - 1 : w[j] = r)
      BY DEF Covered
    <3>1. r # NULL
      BY <1>0 DEF Ids, NULL
    <3>2. (\E d \in Slots(Id) : s.degreeTable[d] = r) \/ (\E j \in i .. n - 1 : w[j] = r)
      BY <3>1 DEF Filling, Covered
    <3>3. ASSUME NEW j \in i .. n - 1, w[j] = r PROVE j \in lo .. n - 1
      BY <3>3, <1>0
    <3> QED
      BY <3>2, <3>3
  <2>4. ~(g.degree[s.at] < 0)
    <3>1. s.at \in S /\ HeapOn(g, S, Id)
      BY <1>0, <1>1 DEF IsRoot, Filling
    <3>2. g.degree[s.at] \in Nat
      BY <3>1, DegreeIsSlot
    <3> QED
      BY <3>2
  <2> HIDE DEF lo
  <2> QED
    BY <2>1, <2>2, <2>3, <2>4, <1>0, <1>1 DEF Filling, Merging
<1> HIDE DEF lo
<1>3. m \in Tables(Id) /\ Filling(h, S, Id, w, n, m, lo)
  BY <1>0, <1>2, MergeIntoKeeps
<1>4. enter(s) = [m EXCEPT !.at = g.right[s.at]]
  BY DEF enter
<1> HIDE DEF m
<1>5. /\ enter(s) \in Tables(Id) /\ enter(s).heap = m.heap /\ enter(s).degreeTable = m.degreeTable
      /\ enter(s).at = g.right[w[i]]
  <2>1. g.right[w[i]] \in Id
    <3>1. g.right \in [Id -> Id]
      BY <1>0, HeapFields
    <3> QED
      BY <3>1, <1>0, <1>1 DEF IsRoot
  <2> HIDE DEF g
  <2> QED
    BY <2>1, <1>0, <1>3, <1>4 DEF Tables
<1>6. Filling(h, S, Id, w, n, enter(s), lo)
  BY <1>3, <1>5 DEF Filling
<1>7. OnWay(w, n, enter(s), lo)
  BY <1>1, <1>5 DEF OnWay, lo
<1> QED
  BY <1>5, <1>6, <1>7 DEF lo

LEMMA FillTableKeeps ==
  ASSUME NEW Id, Ids(Id), NEW S, NEW h, HeapOn(h, S, Id), NEW x, IsRoot(h, S, x),
         NEW n \in Nat \ {0}, NEW w, w[0] = x, IsRound(w, n, h.right, Class(h.parent, S, x)),
         NEW none, none = [d \in Slots(Id) |-> NULL]
  PROVE  /\ fillTable(h, x, n, none) \in Tables(Id)
         /\ Filling(h, S, Id, w, n, fillTable(h, x, n, none), n)
<1> DEFINE s0 == [heap |-> h, at |-> x, degreeTable |-> none]
           stage == [i \in 0 .. n |-> {s \in Tables(Id) : Filling(h, S, Id, w, n, s, i) /\ OnWay(w, n, s, i)}]
           F == [i \in 1 .. n |-> [s \in stage[i - 1] |-> enter(s)]]
           a == CHOOSE g : g = [i \in 0 .. n |-> IF i = 0 THEN s0 ELSE enter(g[i - 1])]
<1>0. x \in Id /\ x \in S /\ h.parent[x] = NULL /\ S \subseteq Id /\ NULL \notin Id
  <2>1. NULL \notin Id
    BY DEF Ids, NULL
  <2> QED
    BY <2>1 DEF HeapOn, IsRoot
<1>1. s0 \in Tables(Id)
  BY <1>0 DEF Tables, HeapOn, NodeOrNull
<1>2. s0.heap = h /\ s0.at = x /\ \A d \in Slots(Id) : s0.degreeTable[d] = NULL
  OBVIOUS
<1> HIDE DEF s0
<1>3. Filling(h, S, Id, w, n, s0, 0)
  <2>1. Tabled(h, S, Id, s0.degreeTable)
    BY <1>2 DEF Tabled
  <2>2. Waiting(h, S, Id, s0.degreeTable, w, 0, n)
    <3> SUFFICES ASSUME NEW j \in 0 .. n - 1
                 PROVE  /\ IsRoot(h, S, w[j])
                        /\ \A d \in Slots(Id) : s0.degreeTable[d] # w[j]
                        /\ j + 1 <= n - 1 => h.right[w[j]] = w[j + 1]
      BY DEF Waiting
    <3>1. w[j] \in Class(h.parent, S, x)
      BY DEF IsRound
    <3>2. IsRoot(h, S, w[j]) /\ w[j] # NULL
      BY <3>1, <1>0 DEF Class, IsRoot
    <3>3. h.right[w[j]] = w[j + 1]
      <4>1. j + 1 \in 1 .. n /\ (j + 1) - 1 = j
        OBVIOUS
      <4> QED
        BY <4>1 DEF IsRound
    <3> QED
      BY <3>2, <3>3, <1>2
  <2>3. Covered(h, S, Id, s0.degreeTable, w, 0, n, NULL)
    BY <1>0 DEF Covered, IsRound, Class, IsRoot
  <2> QED
    BY <2>1, <2>2, <2>3, <1>2 DEF Filling
<1>4. s0 \in stage[0]
  BY <1>1, <1>2, <1>3 DEF OnWay
<1>5. ASSUME NEW i \in 1 .. n, NEW s \in stage[i - 1] PROVE enter(s) \in stage[i]
  <2> DEFINE p == i - 1
  <2>1. p \in 0 .. n - 1 /\ p \in 0 .. n /\ i \in 0 .. n /\ p + 1 = i /\ n \in Nat
    OBVIOUS
  <2>2. s \in Tables(Id) /\ Filling(h, S, Id, w, n, s, p) /\ OnWay(w, n, s, p)
    BY <2>1
  <2> HIDE DEF p
  <2>3. DistinctOn(w, n)
    BY DEF IsRound, DistinctOn
  <2>4. enter(s) \in Tables(Id) /\ Filling(h, S, Id, w, n, enter(s), p + 1) /\ OnWay(w, n, enter(s), p + 1)
    BY <2>1, <2>2, <2>3, EnterKeeps
  <2> QED
    BY <2>1, <2>4
<1>6. \A i \in 1 .. n : F[i] \in [stage[i - 1] -> stage[i]]
  <2> HIDE DEF stage
  <2> QED
    BY <1>5
<1> HIDE DEF stage
<1>7. PICK f : IsTrace(f, n) /\ IsRun(f, n, s0, F, stage)
  <2> HIDE DEF F
  <2> QED
    BY <1>4, <1>6, RunExists
<1>8. f = [i \in 0 .. n |-> IF i = 0 THEN s0 ELSE enter(f[i - 1])]
  <2>1. ASSUME NEW i \in 1 .. n PROVE f[i] = enter(f[i - 1])
    <3>1. i - 1 \in 0 .. n /\ f[i] = F[i][f[i - 1]] /\ f[i - 1] \in stage[i - 1]
      <4> HIDE DEF F
      <4>1. i - 1 \in 0 .. n
        OBVIOUS
      <4> QED
        BY <4>1, <1>7 DEF IsRun
    <3> QED
      BY <3>1
  <2>2. f[0] = s0
    BY <1>7 DEF IsRun
  <2> HIDE DEF F
  <2>3. \A i \in 0 .. n : f[i] = IF i = 0 THEN s0 ELSE enter(f[i - 1])
    BY <2>1, <2>2
  <2> QED
    BY <1>7, <2>3 DEF IsTrace
<1>9. a = [i \in 0 .. n |-> IF i = 0 THEN s0 ELSE enter(a[i - 1])]
  BY <1>8
<1> HIDE DEF a, F
<1>10. a[n] \in stage[n]
  <2>1. ASSUME NEW i \in 1 .. n, a[i - 1] \in stage[i - 1] PROVE a[i] \in stage[i]
    <3>1. a[i] = enter(a[i - 1])
      BY <1>9
    <3> QED
      BY <3>1, <2>1, <1>5
  <2>2. a[0] \in stage[0]
    BY <1>4, <1>9
  <2>3. \A i \in 0 .. n : a[i] \in stage[i]
    BY <2>1, <2>2, RunStays
  <2> QED
    BY <2>3
<1>11. fillTable(h, x, n, none) = a[n]
  BY DEF fillTable, Loop, a, s0
<1> QED
  BY <1>10, <1>11 DEF stage

-----------------------------------------------------------------------------
(* Removal, part three: the roots are linked anew. *)

\* g is h with its lists linked anew, and a maximum among the first k entries.
Combining(h, S, Id, table, g, k) ==
  /\ HeapOn(g, S, Id)
  /\ g.key = h.key /\ g.parent = h.parent /\ g.degree = h.degree /\ g.numberOfNodes = h.numberOfNodes
  /\ g.maxNode # NULL => \E e \in 0 .. k - 1 : table[e] = g.maxNode
  /\ \A e \in 0 .. k - 1 : table[e] # NULL => g.maxNode # NULL /\ g.key[table[e]] <= g.key[g.maxNode]

LEMMA RelinkKeeps ==
  ASSUME NEW Id, Ids(Id), NEW S, NEW h, HeapOn(h, S, Id), NEW table, Tabled(h, S, Id, table),
         NEW e \in Slots(Id), NEW g, Combining(h, S, Id, table, g, e)
  PROVE  Combining(h, S, Id, table, relink(g, table[e]), e + 1)
<1> DEFINE y == table[e]
           m == g.maxNode
           f == IF m = NULL THEN g ELSE moved(g, y, m)
           isMax == m = NULL \/ g.key[y] > g.key[m]
           r == withMax(f, IF isMax THEN y ELSE m)
<1>0. /\ e \in Nat /\ g \in HeapsOn(Id) /\ S \in SUBSET Id /\ NULL \notin Id
      /\ h.degree \in [Id -> Int]
      /\ \A c \in 0 .. e - 1 : c \in Slots(Id)
      /\ \A c \in 0 .. (e + 1) - 1 : c \in 0 .. e - 1 \/ c = e
      /\ \A c \in 0 .. e - 1 : c \in 0 .. (e + 1) - 1
      /\ e \in 0 .. (e + 1) - 1
  <2>1. NULL \notin Id
    BY DEF Ids, NULL
  <2>2. Cardinality(Id) \in Nat
    BY FS_CardinalityType DEF Ids
  <2>3. e \in Nat /\ \A c \in 0 .. e - 1 : c \in Slots(Id)
    BY <2>2 DEF Slots
  <2>4. g \in HeapsOn(Id) /\ S \in SUBSET Id /\ h.degree \in [Id -> Int]
    BY HeapFields DEF Combining, HeapOn
  <2> QED
    BY <2>1, <2>3, <2>4
<1>1. CASE y = NULL
  <2>1. relink(g, y) = g
    BY <1>1 DEF relink
  <2> QED
    BY <2>1, <1>0, <1>1 DEF Combining
<1>2. CASE y # NULL
  <2>1. IsRoot(h, S, y) /\ h.degree[y] = e /\ y \in S /\ y \in Id
    BY <1>0, <1>2 DEF Tabled, IsRoot
  <2>2. m # NULL => /\ IsRoot(h, S, m) /\ m \in S /\ m # y
                    /\ \E c \in 0 .. e - 1 : table[c] = m
    <3> SUFFICES ASSUME m # NULL PROVE IsRoot(h, S, m) /\ m \in S /\ m # y /\ \E c \in 0 .. e - 1 : table[c] = m
      OBVIOUS
    <3>1. PICK c \in 0 .. e - 1 : table[c] = m
      BY DEF Combining
    <3>2. IsRoot(h, S, m) /\ h.degree[m] = c
      BY <3>1, <1>0 DEF Tabled
    <3>3. c # e
      BY <1>0
    <3> QED
      BY <3>1, <3>2, <3>3, <2>1 DEF IsRoot
  <2>3. /\ f \in HeapsOn(Id) /\ SameButLists(f, g)
        /\ Circular(f.left, f.right, f.parent, S)
    <3>0. Circular(g.left, g.right, g.parent, S) /\ g.parent = h.parent
      BY DEF Combining, HeapOn, Forest
    <3>1. CASE m = NULL
      BY <3>0, <3>1, <1>0 DEF SameButLists
    <3>2. CASE m # NULL
      <4>1. f = moved(g, y, m) /\ m \in Id
        BY <3>2, <2>2, <1>0
      <4>2. moved(g, y, m) \in HeapsOn(Id) /\ SameButLists(moved(g, y, m), g)
        BY <4>1, <1>0, <2>1, MovedIs
      <4>3. \A z \in S : g.parent[z] = IF z = y THEN g.parent[m] ELSE g.parent[z]
        BY <3>0, <3>2, <2>1, <2>2 DEF IsRoot
      <4>4. Circular(moved(g, y, m).left, moved(g, y, m).right, g.parent, S)
        <5> HIDE DEF y, m, f
        <5> DEFINE cls == g.parent
        <5>1. \A z \in S : cls[z] = IF z = y THEN g.parent[m] ELSE g.parent[z]
          BY <4>3
        <5> HIDE DEF cls
        <5>2. Circular(moved(g, y, m).left, moved(g, y, m).right, cls, S)
          BY <3>0, <3>2, <5>1, <1>0, <2>1, <2>2, MovedLists
        <5> QED
          BY <5>2 DEF cls
      <4> HIDE DEF f
      <4> QED
        BY <4>1, <4>2, <4>4 DEF SameButLists
    <3> QED
      BY <3>1, <3>2
  <2>4. relink(g, y) = r
    <3>1. f.maxNode = m
      BY <2>3 DEF SameButLists
    <3>2. relink(g, y) = [(IF m = NULL THEN g ELSE moved(g, y, m)) EXCEPT !.maxNode = IF isMax THEN y ELSE @]
      BY <1>2 DEF relink, moved
    <3>3. relink(g, y) = [f EXCEPT !.maxNode = IF isMax THEN y ELSE @]
      BY <3>2
    <3> HIDE DEF f, isMax, m, y
    <3> QED
      BY <3>1, <3>3 DEF withMax
  <2> HIDE DEF f
  <2>5. r \in HeapsOn(Id) /\ SameButMax(r, f) /\ r.maxNode = (IF isMax THEN y ELSE m)
    <3>1. (IF isMax THEN y ELSE m) \in NodeOrNull(Id)
      BY <2>1, <1>0, HeapFields DEF NodeOrNull
    <3> HIDE DEF isMax
    <3> QED
      BY <3>1, <2>3, WithMax
  <2> HIDE DEF r
  <2>6. /\ r.key = g.key /\ r.parent = g.parent /\ r.degree = g.degree /\ r.child = g.child
        /\ r.numberOfNodes = g.numberOfNodes /\ r.left = f.left /\ r.right = f.right
        /\ f.parent = g.parent
    BY <2>3, <2>5 DEF SameButMax, SameButLists
  <2>7. HeapOn(r, S, Id)
    BY <2>3, <2>5, <2>6, <1>0 DEF Combining, HeapOn, Forest, Ordered
  <2>8. r.maxNode # NULL /\ \E c \in 0 .. (e + 1) - 1 : table[c] = r.maxNode
    <3>1. CASE isMax
      BY <3>1, <2>5, <1>0, <1>2
    <3>2. CASE ~isMax
      BY <3>2, <2>2, <2>5, <1>0
    <3> QED
      BY <3>1, <3>2
  <2>9. g.key \in [Id -> Int]
    BY <1>0, HeapFields
  <2>10. ASSUME NEW c \in 0 .. (e + 1) - 1, table[c] # NULL PROVE r.key[table[c]] <= r.key[r.maxNode]
    <3>1. table[c] \in Id
      BY <1>0, <2>10 DEF Tabled, IsRoot
    <3>2. m # NULL => m \in Id /\ (c # e => g.key[table[c]] <= g.key[m])
      BY <1>0, <2>2, <2>10 DEF Combining
    <3>3. m = NULL => c = e
      BY <1>0, <2>10 DEF Combining
    <3> QED
      BY <3>1, <3>2, <3>3, <2>1, <2>5, <2>6, <2>9
  <2> QED
    BY <2>4, <2>6, <2>7, <2>8, <2>10 DEF Combining
<1> QED
  BY <1>1, <1>2

LEMMA CombineKeeps ==
  ASSUME NEW Id, Ids(Id), NEW S, S # {}, NEW h, HeapOn(h, S, Id), NEW table, Tabled(h, S, Id, table),
         \A r \in S : IsRoot(h, S, r) => \E d \in Slots(Id) : table[d] = r
  PROVE  /\ HeapOn(combine(h, table), S, Id)
         /\ combine(h, table).key = h.key
         /\ combine(h, table).numberOfNodes = h.numberOfNodes
         /\ IsRoot(combine(h, table), S, combine(h, table).maxNode)
         /\ \A x \in S : combine(h, table).key[x] <= combine(h, table).key[combine(h, table).maxNode]
<1> DEFINE k == size(h) + 1
           s0 == withMax(h, NULL)
           stage == [i \in 0 .. k |-> {g \in HeapsOn(Id) : Combining(h, S, Id, table, g, i)}]
           F == [i \in 1 .. k |-> [g \in stage[i - 1] |-> relink(g, table[i - 1])]]
           a == CHOOSE f : f = [i \in 0 .. k |-> IF i = 0 THEN s0 ELSE relink(f[i - 1], table[i - 1])]
<1>0. k \in Nat /\ k = Cardinality(Id) + 1 /\ Cardinality(Id) \in Nat /\ h \in HeapsOn(Id) /\ NULL \notin Id
  <2>1. NULL \notin Id
    BY DEF Ids, NULL
  <2> QED
    BY <2>1, SizeIs DEF HeapOn
<1> HIDE DEF k
<1>1. s0 \in HeapsOn(Id) /\ SameButMax(s0, h) /\ s0.maxNode = NULL
  <2>1. NULL \in NodeOrNull(Id)
    BY DEF NodeOrNull
  <2> QED
    BY <2>1, <1>0, WithMax
<1>2. combine(h, table) = a[k]
  BY DEF combine, Loop, a, k, s0, withMax
<1> HIDE DEF s0
<1>3. Combining(h, S, Id, table, s0, 0)
  BY <1>1 DEF Combining, HeapOn, SameButMax, Forest, Ordered
<1>4. s0 \in stage[0]
  BY <1>0, <1>1, <1>3
<1>5. ASSUME NEW i \in 1 .. k, NEW g \in stage[i - 1] PROVE relink(g, table[i - 1]) \in stage[i]
  <2> DEFINE d == i - 1
  <2>1. d \in Slots(Id) /\ d \in 0 .. k /\ i \in 0 .. k /\ d + 1 = i
    BY <1>0 DEF Slots
  <2>2. Combining(h, S, Id, table, g, d)
    BY <2>1
  <2> HIDE DEF d
  <2>3. Combining(h, S, Id, table, relink(g, table[d]), d + 1)
    BY <2>1, <2>2, RelinkKeeps
  <2>4. relink(g, table[d]) \in HeapsOn(Id)
    BY <2>3 DEF Combining, HeapOn
  <2>5. relink(g, table[d]) \in stage[i]
    BY <2>1, <2>3, <2>4
  <2> QED
    BY <2>5 DEF d
<1>6. \A i \in 1 .. k : F[i] \in [stage[i - 1] -> stage[i]]
  <2> HIDE DEF stage
  <2> QED
    BY <1>5
<1> HIDE DEF stage
<1>7. PICK f : IsTrace(f, k) /\ IsRun(f, k, s0, F, stage)
  <2> HIDE DEF F
  <2> QED
    BY <1>0, <1>4, <1>6, RunExists
<1>8. f = [i \in 0 .. k |-> IF i = 0 THEN s0 ELSE relink(f[i - 1], table[i - 1])]
  <2>1. ASSUME NEW i \in 1 .. k PROVE f[i] = relink(f[i - 1], table[i - 1])
    <3>1. i - 1 \in 0 .. k /\ f[i] = F[i][f[i - 1]] /\ f[i - 1] \in stage[i - 1]
      <4> HIDE DEF F
      <4>1. i - 1 \in 0 .. k
        BY <1>0
      <4> QED
        BY <4>1, <1>7 DEF IsRun
    <3> QED
      BY <3>1
  <2>2. f[0] = s0
    BY <1>7 DEF IsRun
  <2> HIDE DEF F
  <2>3. \A i \in 0 .. k : f[i] = IF i = 0 THEN s0 ELSE relink(f[i - 1], table[i - 1])
    BY <1>0, <2>1, <2>2
  <2> QED
    BY <1>7, <2>3 DEF IsTrace
<1>9. a = [i \in 0 .. k |-> IF i = 0 THEN s0 ELSE relink(a[i - 1], table[i - 1])]
  BY <1>8
<1> HIDE DEF a, F
<1>10. a[k] \in stage[k]
  <2>1. ASSUME NEW i \in 1 .. k, a[i - 1] \in stage[i - 1] PROVE a[i] \in stage[i]
    <3>1. a[i] = relink(a[i - 1], table[i - 1])
      BY <1>0, <1>9
    <3> QED
      BY <3>1, <2>1, <1>5
  <2>2. a[0] \in stage[0]
    BY <1>0, <1>4, <1>9
  <2>3. \A i \in 0 .. k : a[i] \in stage[i]
    BY <1>0, <2>1, <2>2, RunStays
  <2> QED
    BY <1>0, <2>3
<1> DEFINE g == a[k]
<1>11. Combining(h, S, Id, table, g, k) /\ 0 .. k - 1 = Slots(Id)
  BY <1>0, <1>10 DEF stage, Slots
<1> HIDE DEF g
<1>12. HeapOn(g, S, Id) /\ g.key = h.key /\ g.parent = h.parent /\ g.numberOfNodes = h.numberOfNodes
  BY <1>11 DEF Combining
<1>13. \A r \in S : g.parent[r] = NULL => g.maxNode # NULL /\ g.key[r] <= g.key[g.maxNode]
  <2> SUFFICES ASSUME NEW r \in S, g.parent[r] = NULL PROVE g.maxNode # NULL /\ g.key[r] <= g.key[g.maxNode]
    OBVIOUS
  <2>1. PICK d \in Slots(Id) : table[d] = r
    BY <1>12 DEF IsRoot
  <2>2. r # NULL
    BY <1>0, <1>12 DEF HeapOn
  <2> QED
    BY <2>1, <2>2, <1>11 DEF Combining
<1>14. g.maxNode # NULL
  <2>1. \E x \in S : IsRoot(g, S, x)
    BY <1>12, SomeRoot
  <2> QED
    BY <2>1, <1>13 DEF IsRoot
<1>15. IsRoot(g, S, g.maxNode)
  <2>1. PICK e \in Slots(Id) : table[e] = g.maxNode
    BY <1>11, <1>14 DEF Combining
  <2>2. IsRoot(h, S, g.maxNode)
    BY <2>1, <1>14 DEF Tabled
  <2> QED
    BY <2>2, <1>12 DEF IsRoot
<1>16. \A x \in S : g.key[x] <= g.key[g.maxNode]
  <2>1. g.key[g.maxNode] \in Int
    BY <1>12, <1>15, HeapFields DEF HeapOn, IsRoot
  <2> QED
    BY <2>1, <1>12, <1>13, RootsAreAbove
<1> QED
  BY <1>2, <1>12, <1>15, <1>16 DEF g

-----------------------------------------------------------------------------
(* Removal. *)

\* Following right, one meets all of a list.
LEMMA RootsFromAre ==
  ASSUME NEW Id, Ids(Id), NEW S, NEW h, HeapOn(h, S, Id), NEW x, IsRoot(h, S, x),
         NEW n \in 1 .. Cardinality(Id), NEW w, w[0] = x,
         IsRound(w, n, h.right, Class(h.parent, S, x))
  PROVE  rootsFrom(h, x) = Class(h.parent, S, x)
<1> DEFINE N == size(h)
           R == Class(h.parent, S, x)
           stage == [i \in 0 .. N |-> R]
           F == [i \in 1 .. N |-> [y \in R |-> h.right[y]]]
           a == CHOOSE f : f = [i \in 0 .. N |-> IF i = 0 THEN x ELSE h.right[f[i - 1]]]
<1>0. N \in Nat /\ N = Cardinality(Id)
  BY SizeIs DEF HeapOn
<1>1. x \in R /\ \A y \in R : h.right[y] \in R
  BY DEF Class, IsRoot, HeapOn, Forest, Circular, Paired
<1> HIDE DEF N, R
<1>2. \A i \in 1 .. N : F[i] \in [stage[i - 1] -> stage[i]] /\ x \in stage[0]
  BY <1>0, <1>1
<1>3. x \in stage[0]
  BY <1>0, <1>1
<1>4. PICK f : IsTrace(f, N) /\ IsRun(f, N, x, F, stage)
  <2> HIDE DEF F, stage
  <2> QED
    BY <1>0, <1>2, <1>3, RunExists
<1>5. f = [i \in 0 .. N |-> IF i = 0 THEN x ELSE h.right[f[i - 1]]]
  <2>1. ASSUME NEW i \in 1 .. N PROVE f[i] = h.right[f[i - 1]]
    <3>1. i - 1 \in 0 .. N /\ f[i] = F[i][f[i - 1]] /\ f[i - 1] \in stage[i - 1]
      <4> HIDE DEF F, stage
      <4>1. i - 1 \in 0 .. N
        BY <1>0
      <4> QED
        BY <4>1, <1>4 DEF IsRun
    <3> QED
      BY <3>1
  <2>2. f[0] = x
    BY <1>4 DEF IsRun
  <2> HIDE DEF F, stage
  <2>3. \A i \in 0 .. N : f[i] = IF i = 0 THEN x ELSE h.right[f[i - 1]]
    BY <1>0, <2>1, <2>2
  <2> QED
    BY <1>4, <2>3 DEF IsTrace
<1>6. a = [i \in 0 .. N |-> IF i = 0 THEN x ELSE h.right[a[i - 1]]]
  BY <1>5
<1>7. rootsFrom(h, x) = {a[i] : i \in 0 .. N}
  BY DEF rootsFrom, N
<1> HIDE DEF a, F, stage
<1>8. a[0] = x /\ \A i \in 1 .. N : a[i] = h.right[a[i - 1]]
  BY <1>0, <1>6
<1>9. \A i \in 0 .. N : a[i] \in R
  <2> DEFINE K == {i \in 0 .. N : a[i] \in R}
  <2>1. 0 \in K /\ \A i \in 1 .. N : i - 1 \in K => i \in K
    BY <1>0, <1>1, <1>8
  <2> HIDE DEF K
  <2>2. \A i \in 0 .. N : i \in K
    BY <1>0, <2>1, CountUp
  <2> QED
    BY <2>2 DEF K
<1>10. \A i \in 0 .. n : a[i] = w[i]
  <2> DEFINE K == {i \in 0 .. n : a[i] = w[i]}
  <2>1. 0 \in K
    BY <1>8
  <2>2. \A i \in 1 .. n : i - 1 \in K => i \in K
    <3> SUFFICES ASSUME NEW i \in 1 .. n, i - 1 \in K PROVE a[i] = w[i]
      OBVIOUS
    <3>1. a[i] = h.right[a[i - 1]]
      BY <1>0, <1>8
    <3>2. w[i] = h.right[w[i - 1]]
      BY DEF IsRound
    <3> QED
      BY <3>1, <3>2
  <2> HIDE DEF K
  <2>3. n \in Nat
    OBVIOUS
  <2>4. \A i \in 0 .. n : i \in K
    BY <2>1, <2>2, <2>3, CountUp
  <2> QED
    BY <2>4 DEF K
<1>11. \A y \in R : \E i \in 0 .. N : a[i] = y
  <2> TAKE y \in R
  <2>1. PICK i \in 0 .. n - 1 : w[i] = y
    BY DEF IsRound, R
  <2>2. i \in 0 .. n /\ i \in 0 .. N
    BY <1>0
  <2> QED
    BY <2>1, <2>2, <1>10
<1> QED
  BY <1>7, <1>9, <1>11 DEF R

Topped(g, S) == IsRoot(g, S, g.maxNode) /\ \A x \in S : g.key[x] <= g.key[g.maxNode]

LEMMA DegreewiseMergeKeeps ==
  ASSUME NEW Id, Ids(Id), NEW S, NEW h, HeapOn(h, S, Id), IsRoot(h, S, h.maxNode)
  PROVE  /\ HeapOn(degreewiseMerge(h), S, Id) /\ Topped(degreewiseMerge(h), S)
         /\ degreewiseMerge(h).key = h.key /\ degreewiseMerge(h).numberOfNodes = h.numberOfNodes
<1> DEFINE x == h.maxNode
           R == Class(h.parent, S, x)
           none == [d \in 0 .. size(h) |-> NULL]
           m == fillTable(h, x, Cardinality(rootsFrom(h, x)), none)
<1>0. /\ size(h) = Cardinality(Id) /\ h \in HeapsOn(Id) /\ x \in S /\ S \in SUBSET Id
      /\ Circular(h.left, h.right, h.parent, S) /\ IsFiniteSet(Id) /\ Cardinality(Id) \in Nat
  <2>1. h \in HeapsOn(Id) /\ x \in S /\ S \in SUBSET Id /\ Circular(h.left, h.right, h.parent, S)
    BY DEF HeapOn, IsRoot, Forest
  <2>2. IsFiniteSet(Id) /\ Cardinality(Id) \in Nat
    BY FS_CardinalityType DEF Ids
  <2> QED
    BY <2>1, <2>2, SizeIs
<1>1. degreewiseMerge(h) = combine(m.heap, m.degreeTable)
  BY DEF degreewiseMerge
<1> HIDE DEF x, R
<1>2. PICK n \in 1 .. Cardinality(Id) : \E w : w[0] = x /\ IsRound(w, n, h.right, R)
  BY <1>0, RoundExists DEF R
<1>3. PICK w : w[0] = x /\ IsRound(w, n, h.right, R)
  BY <1>2
<1>4. n \in Nat \ {0} /\ n \in Nat
  BY <1>0
<1>5. IsRoot(h, S, x)
  BY DEF x
<1>6. rootsFrom(h, x) = R
  BY <1>3, <1>5, RootsFromAre DEF R
<1>7. Cardinality(R) = n
  BY <1>3, <1>4, RoundCounts
<1>8. none = [d \in Slots(Id) |-> NULL]
  BY <1>0 DEF Slots
<1> HIDE DEF none
<1>9. fillTable(h, x, n, none) \in Tables(Id) /\ Filling(h, S, Id, w, n, fillTable(h, x, n, none), n)
  BY <1>3, <1>4, <1>5, <1>8, FillTableKeeps DEF R
<1>10. m \in Tables(Id) /\ Filling(h, S, Id, w, n, m, n)
  BY <1>6, <1>7, <1>9
<1> HIDE DEF m
<1>11. /\ HeapOn(m.heap, S, Id) /\ m.heap.key = h.key /\ m.heap.numberOfNodes = h.numberOfNodes
       /\ Tabled(m.heap, S, Id, m.degreeTable)
       /\ \A r \in S : IsRoot(m.heap, S, r) => \E d \in Slots(Id) : m.degreeTable[d] = r
  <2>1. \A r \in S : r # NULL
    BY <1>0 DEF Ids, NULL
  <2>2. n .. n - 1 = {}
    BY <1>4
  <2> QED
    BY <2>1, <2>2, <1>10 DEF Filling, Covered
<1> DEFINE g == combine(m.heap, m.degreeTable)
<1>12. /\ HeapOn(g, S, Id) /\ g.key = m.heap.key /\ g.numberOfNodes = m.heap.numberOfNodes
       /\ IsRoot(g, S, g.maxNode) /\ \A y \in S : g.key[y] <= g.key[g.maxNode]
  <2> DEFINE k == m.heap  t == m.degreeTable
  <2>1. /\ HeapOn(k, S, Id) /\ Tabled(k, S, Id, t) /\ S # {}
        /\ \A r \in S : IsRoot(k, S, r) => \E d \in Slots(Id) : t[d] = r
    BY <1>0, <1>11
  <2> HIDE DEF k, t, g
  <2>2. /\ HeapOn(combine(k, t), S, Id) /\ combine(k, t).key = k.key
        /\ combine(k, t).numberOfNodes = k.numberOfNodes
        /\ IsRoot(combine(k, t), S, combine(k, t).maxNode)
        /\ \A y \in S : combine(k, t).key[y] <= combine(k, t).key[combine(k, t).maxNode]
    BY SMTT(60), <2>1, CombineKeeps
  <2>3. g = combine(k, t)
    BY DEF g, k, t
  <2> QED
    BY <2>2, <2>3 DEF k
<1> HIDE DEF g
<1> QED
  BY <1>1, <1>11, <1>12 DEF Topped, g

\* The heap without its maximum is a heap of the others.
LEMMA RemoveMaxKeeps ==
  ASSUME NEW Id, Ids(Id), NEW S, NEW h, HeapInv(h, S, Id), S # {}
  PROVE  /\ HeapInv(removeMax(h), S \ {h.maxNode}, Id)
         /\ removeMax(h).key = h.key
<1> DEFINE z == h.maxNode
           g == unlink(releaseChildren(h), z)
           T == S \ {z}
           c == degreewiseMerge(withMax(g, g.right[z]))
           f == IF g.right[z] = z THEN withMax(g, NULL) ELSE c
<1>1. Headless(g, h, S, Id)
  BY MaximumLeaves
<1>2. removeMax(h) = [f EXCEPT !.numberOfNodes = @ - 1]
  BY DEF removeMax, withMax
<1> HIDE DEF g, c
<1>3. /\ HeapOn(g, T, Id) /\ g \in HeapsOn(Id) /\ g.key = h.key /\ g.numberOfNodes = h.numberOfNodes
      /\ g.right[z] = z => S = {z}
      /\ g.right[z] # z => IsRoot(g, T, g.right[z])
  BY <1>1 DEF Headless, HeapOn
<1>4. /\ z \in S /\ S \in SUBSET Id /\ h.numberOfNodes = Cardinality(S)
      /\ IsFiniteSet(S) /\ Cardinality(S) \in Nat /\ Cardinality(T) = Cardinality(S) - 1
  <2>1. z \in S /\ S \in SUBSET Id /\ h.numberOfNodes = Cardinality(S)
    BY DEF HeapInv, HeapOn, IsRoot
  <2>2. IsFiniteSet(S) /\ Cardinality(S) \in Nat
    BY <2>1, SubsetCard
  <2> HIDE DEF z
  <2>3. Cardinality(S \ {z}) = Cardinality(S) - 1
    BY <2>1, <2>2, FS_RemoveElement
  <2> QED
    BY <2>1, <2>2, <2>3
<1>5. ASSUME NEW m \in NodeOrNull(Id)
      PROVE  /\ HeapOn(withMax(g, m), T, Id) /\ withMax(g, m).maxNode = m
             /\ withMax(g, m).key = h.key /\ withMax(g, m).numberOfNodes = h.numberOfNodes
             /\ withMax(g, m).parent = g.parent
  <2>1. withMax(g, m) \in HeapsOn(Id) /\ SameButMax(withMax(g, m), g) /\ withMax(g, m).maxNode = m
    BY <1>3, WithMax
  <2> QED
    BY <2>1, <1>3 DEF HeapOn, SameButMax, Forest, Ordered
<1>6. /\ HeapOn(f, T, Id) /\ f.key = h.key /\ f.numberOfNodes = h.numberOfNodes
      /\ T = {} => f.maxNode = NULL
      /\ T # {} => Topped(f, T)
  <2>1. CASE g.right[z] = z
    <3>1. NULL \in NodeOrNull(Id) /\ f = withMax(g, NULL) /\ T = {}
      BY <2>1, <1>3 DEF NodeOrNull
    <3> HIDE DEF f
    <3> QED
      BY <3>1, <1>5
  <2>2. CASE g.right[z] # z
    <3> DEFINE x == g.right[z]
               e == withMax(g, x)
    <3>1. x \in NodeOrNull(Id) /\ x \in T /\ IsRoot(g, T, x)
      BY <2>2, <1>3, <1>4 DEF IsRoot, NodeOrNull
    <3> HIDE DEF x
    <3>2. HeapOn(e, T, Id) /\ IsRoot(e, T, e.maxNode) /\ e.key = h.key /\ e.numberOfNodes = h.numberOfNodes
      BY <3>1, <1>5 DEF IsRoot
    <3> HIDE DEF e
    <3>3. /\ HeapOn(degreewiseMerge(e), T, Id) /\ Topped(degreewiseMerge(e), T)
          /\ degreewiseMerge(e).key = e.key /\ degreewiseMerge(e).numberOfNodes = e.numberOfNodes
      BY <3>2, DegreewiseMergeKeeps
    <3>4. f = degreewiseMerge(e)
      BY <2>2 DEF c, e, x
    <3> QED
      BY <3>1, <3>2, <3>3, <3>4
  <2> QED
    BY <2>1, <2>2
<1> HIDE DEF f
<1> DEFINE r == withNumber(f, Cardinality(T))
<1>7. removeMax(h) = r
  <2> HIDE DEF T, z
  <2>1. Cardinality(T) = f.numberOfNodes - 1
    BY <1>4, <1>6
  <2> QED
    BY <1>2, <2>1, <1>6 DEF withNumber, HeapOn, HeapsOn
<1>8. r \in HeapsOn(Id) /\ SameButNumber(r, f) /\ r.numberOfNodes = Cardinality(T)
  <2>1. Cardinality(T) \in Int /\ f \in HeapsOn(Id)
    BY <1>4, <1>6 DEF HeapOn
  <2> HIDE DEF T
  <2> QED
    BY <2>1, WithNumber
<1> HIDE DEF r
<1>9. HeapOn(r, T, Id)
  BY <1>6, <1>8 DEF HeapOn, Forest, Ordered, SameButNumber
<1>10. HeapInv(r, T, Id)
  BY <1>6, <1>8, <1>9 DEF HeapInv, SameButNumber, Topped, IsRoot
<1> QED
  BY <1>6, <1>7, <1>8, <1>10 DEF SameButNumber

-----------------------------------------------------------------------------
(* What the pointers lead to. *)

LEMMA ListIsClass ==
  ASSUME NEW Id, NEW S \in SUBSET Id, NEW h \in HeapsOn(Id), Forest(h, S), NEW x \in S
  PROVE  listOf(h, x) = Class(h.parent, S, x)
<1> DEFINE R == Class(h.parent, S, x)
           next == [z \in DOMAIN h.right |-> {h.right[z]}]
<1>1. DOMAIN next = Id /\ \A z \in Id : next[z] = {h.right[z]}
  <2>1. h.right \in [Id -> Id]
    BY HeapFields
  <2> QED
    BY <2>1
<1>2. listOf(h, x) = Reached(next, x)
  BY DEF listOf
<1> HIDE DEF next
<1>3. x \in R /\ R \in SUBSET S /\ \A z \in R : h.right[z] \in R
  BY DEF Class, Forest, Circular, Paired
<1>4. ASSUME NEW y \in Reached(next, x) PROVE y \in R
  <2>1. R \in SUBSET Id /\ x \in R /\ \A z \in R : next[z] \subseteq R
    BY <1>1, <1>3
  <2> HIDE DEF R
  <2> QED
    BY <2>1, <1>1 DEF Reached
<1>5. ASSUME NEW y \in R PROVE y \in Reached(next, x)
  <2> SUFFICES ASSUME NEW C \in SUBSET Id, x \in C, \A z \in C : next[z] \subseteq C
               PROVE  y \in C
    BY <1>1, <1>3, <1>5 DEF Reached
  <2> DEFINE D == C \cap S
  <2>1. D \in SUBSET S /\ x \in D /\ Stays(h.right, D)
    BY <1>1 DEF Stays, Forest, Circular, Paired
  <2> HIDE DEF D
  <2>2. y \in S /\ h.parent[x] = h.parent[y]
    BY <1>5 DEF Class
  <2>3. y \in D
    BY <2>1, <2>2 DEF Forest, Circular, Whole
  <2> QED
    BY <2>3 DEF D
<1> HIDE DEF R
<1>6. Reached(next, x) = R
  BY <1>4, <1>5
<1> QED
  BY <1>2, <1>6 DEF R

LEMMA ChildrenAreKids ==
  ASSUME NEW Id, Ids(Id), NEW S \in SUBSET Id, NEW h \in HeapsOn(Id), Forest(h, S), NEW x \in S
  PROVE  childrenOf(h, x) = Kids(h.parent, S, x)
<1>1. CASE h.child[x] = NULL
  BY <1>1 DEF childrenOf, Forest, FamiliesAgree
<1>2. CASE h.child[x] # NULL
  <2>1. h.child[x] \in S /\ h.parent[h.child[x]] = x
    BY <1>2 DEF Forest, FamiliesAgree
  <2>2. listOf(h, h.child[x]) = Class(h.parent, S, h.child[x])
    BY <2>1, ListIsClass
  <2>3. Class(h.parent, S, h.child[x]) = Kids(h.parent, S, x)
    BY <2>1 DEF Class, Kids
  <2> QED
    BY <1>2, <2>2, <2>3 DEF childrenOf
<1> QED
  BY <1>1, <1>2

\* All nodes are reached from the maximum.
LEMMA AllAreReached ==
  ASSUME NEW Id, Ids(Id), NEW S, NEW h, HeapInv(h, S, Id), S # {}
  PROVE  S = Reached([x \in DOMAIN h.right |-> {h.right[x]} \cup childrenOf(h, x)], h.maxNode)
<1> DEFINE next == [x \in DOMAIN h.right |-> {h.right[x]} \cup childrenOf(h, x)]
           m == h.maxNode
<1>0. /\ h \in HeapsOn(Id) /\ S \in SUBSET Id /\ Forest(h, S) /\ m \in S /\ h.parent[m] = NULL
      /\ h.right \in [Id -> Id] /\ NULL \notin S
  <2>1. h \in HeapsOn(Id) /\ S \in SUBSET Id /\ Forest(h, S) /\ m \in S /\ h.parent[m] = NULL
    BY DEF HeapInv, HeapOn, IsRoot
  <2>2. NULL \notin S
    BY <2>1 DEF Ids, NULL
  <2> QED
    BY <2>1, <2>2, HeapFields
<1>1. DOMAIN next = Id /\ \A z \in S : next[z] = {h.right[z]} \cup Kids(h.parent, S, z)
  BY <1>0, ChildrenAreKids
<1> HIDE DEF next
<1>2. ASSUME NEW y \in Reached(next, m) PROVE y \in S
  <2>1. \A z \in S : next[z] \subseteq S
    BY <1>0, <1>1 DEF Kids, Forest, Circular, Paired
  <2> QED
    BY <2>1, <1>0, <1>1 DEF Reached
<1>3. ASSUME NEW y \in S PROVE y \in Reached(next, m)
  <2> SUFFICES ASSUME NEW C \in SUBSET Id, m \in C, \A z \in C : next[z] \subseteq C
               PROVE  y \in C
    BY <1>0, <1>1 DEF Reached
  <2> DEFINE D == C \cap S
             T == S \ C
  <2>1. D \in SUBSET S /\ m \in D /\ Stays(h.right, D)
    BY <1>0, <1>1 DEF Stays, Forest, Circular, Paired
  <2> SUFFICES ASSUME T # {} PROVE FALSE
    OBVIOUS
  <2>2. PICK x \in T : h.parent[x] \notin T
    <3>1. T \in SUBSET S
      OBVIOUS
    <3> HIDE DEF T
    <3> QED
      BY <3>1, <1>0 DEF Forest, Rooted
  <2>3. CASE h.parent[x] = NULL
    <3>1. h.parent[m] = h.parent[x] /\ x \in S
      BY <2>3, <1>0
    <3> HIDE DEF D
    <3>2. x \in D
      BY <3>1, <2>1, <1>0 DEF Forest, Circular, Whole
    <3> QED
      BY <3>2 DEF D
  <2>4. CASE h.parent[x] # NULL
    <3>1. h.parent[x] \in S /\ h.parent[x] \in C /\ x \in S
      BY <2>2, <2>4, <1>0 DEF Forest, Rooted
    <3>2. x \in Kids(h.parent, S, h.parent[x])
      BY <3>1 DEF Kids
    <3> QED
      BY <3>1, <3>2, <1>1
  <2> QED
    BY <2>3, <2>4
<1>4. S = Reached(next, m)
  BY <1>2, <1>3
<1> QED
  BY <1>4 DEF next

\* The pointers and keys are right, so the heap is as the searches expect it.
LEMMA HeapIs ==
  ASSUME NEW Id, Ids(Id), NEW S, NEW h, HeapInv(h, S, Id)
  PROVE  IsHeapOf(h, S)
<1>0. /\ h \in HeapsOn(Id) /\ S \in SUBSET Id /\ Forest(h, S) /\ Ordered(h, S)
      /\ h.numberOfNodes = Cardinality(S) /\ NULL \notin S
      /\ S = {} => h.maxNode = NULL
      /\ S # {} => h.maxNode \in S /\ h.parent[h.maxNode] = NULL /\ \A x \in S : h.key[x] <= h.key[h.maxNode]
  <2>1. NULL \notin S
    BY DEF HeapInv, HeapOn, Ids, NULL
  <2> QED
    BY <2>1 DEF HeapInv, HeapOn, IsRoot
<1>1. (h.maxNode = NULL) <=> (S = {})
  BY <1>0
<1>2. ASSUME S # {}, NEW x \in listOf(h, h.maxNode)
      PROVE  h.parent[x] = NULL /\ h.key[x] <= h.key[h.maxNode]
  <2>1. listOf(h, h.maxNode) = Class(h.parent, S, h.maxNode)
    BY <1>0, <1>2, ListIsClass
  <2> QED
    BY <2>1, <1>0, <1>2 DEF Class
<1>3. ASSUME NEW x \in S
      PROVE  /\ h.left[h.right[x]] = x /\ h.right[h.left[x]] = x
             /\ h.degree[x] = Cardinality(childrenOf(h, x))
             /\ \A y \in childrenOf(h, x) : h.parent[y] = x /\ h.key[y] <= h.key[x]
  <2>1. childrenOf(h, x) = Kids(h.parent, S, x)
    BY <1>0, ChildrenAreKids
  <2>2. h.left[h.right[x]] = x /\ h.right[h.left[x]] = x
    BY <1>0 DEF Forest, Circular, Paired
  <2>3. h.degree[x] = Cardinality(Kids(h.parent, S, x))
    BY <1>0 DEF Forest, FamiliesAgree
  <2>4. \A y \in Kids(h.parent, S, x) : h.parent[y] = x /\ h.key[y] <= h.key[x]
    BY <1>0 DEF Kids, Ordered
  <2> QED
    BY <2>1, <2>2, <2>3, <2>4
<1> QED
  BY <1>0, <1>1, <1>2, <1>3, AllAreReached DEF IsHeapOf
=============================================================================
