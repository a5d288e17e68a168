--------------------------- MODULE FibonacciHeap ---------------------------
(***************************************************************************)
(* The max-Fibonacci heap of the searches for routes: the pointers of its  *)
(* nodes, and its operations as operators on the heap.  A node object is a *)
(* node id; its key stands in an array the heap reads through a key        *)
(* function, so the search writes a key first and tells the heap then.     *)
(*                                                                         *)
(* A heap h is a record of functions on the node ids (left, right, child,  *)
(* parent, degree, mark, and key for the array) with the fields maxNode    *)
(* and numberOfNodes.                                                      *)
(*                                                                         *)
(* An operator named Faulty... is a version of the operator after it with  *)
(* a mistake one could make in this code; nothing else uses it.            *)
(***************************************************************************)
EXTENDS Integers, FiniteSets

NULL == -1

\* A loop: s after n rounds, of which step(s, i) is the i-th.
Loop(step(_, _), s, n) ==
  LET after[i \in 0 .. n] == IF i = 0 THEN s ELSE step(after[i - 1], i) IN after[n]

\* No list, path or degree of the heap is longer.
size(h) == Cardinality(DOMAIN h.key)

emptyHeap(key) ==
  LET Id == DOMAIN key IN
  [key |-> key, left |-> [x \in Id |-> x], right |-> [x \in Id |-> x],
   child |-> [x \in Id |-> NULL], parent |-> [x \in Id |-> NULL],
   degree |-> [x \in Id |-> 0], mark |-> [x \in Id |-> FALSE],
   maxNode |-> NULL, numberOfNodes |-> 0]

\* x leaves the circular list it is in; its own pointers stay.
unlink(h, x) ==
  LET g == [h EXCEPT !.right[h.left[x]] = h.right[x]]
  IN [g EXCEPT !.left[g.right[x]] = g.left[x]]

\* x enters the list of m, to the right of m.
linkRightOf(h, x, m) ==
  LET g == [h EXCEPT !.left[x] = m, !.right[x] = h.right[m]]
      f == [g EXCEPT !.right[m] = x]
  IN [f EXCEPT !.left[f.right[x]] = x]

insert(h, x) ==
  LET g == IF h.maxNode = NULL THEN h ELSE linkRightOf(h, x, h.maxNode)
      isMax == h.maxNode = NULL \/ h.key[x] > h.key[h.maxNode]
  IN [g EXCEPT !.maxNode = IF isMax THEN x ELSE @, !.numberOfNodes = @ + 1]

-----------------------------------------------------------------------------
\* x becomes a root again.  The child pointer of y must not keep pointing at it.
cut(h, x, y) ==
  LET g == [unlink(h, x) EXCEPT !.degree[y] = @ - 1]
      f == [g EXCEPT !.child[y] = IF g.degree[y] = 0 THEN NULL
                                  ELSE IF @ = x THEN g.right[x] ELSE @]
  IN [linkRightOf(f, x, f.maxNode) EXCEPT !.parent[x] = NULL, !.mark[x] = FALSE]

\* A node that loses a second child is cut off too, and so on upwards.
up(s) ==
  LET x == s.heap.parent[s.at] IN
  IF s.at = NULL THEN s
  ELSE IF x = NULL THEN [heap |-> s.heap, at |-> NULL]
  ELSE IF ~s.heap.mark[s.at] THEN [heap |-> [s.heap EXCEPT !.mark[s.at] = TRUE], at |-> NULL]
  ELSE [heap |-> cut(s.heap, s.at, x), at |-> x]

cascadingCut(h, y) == Loop(LAMBDA s, i : up(s), [heap |-> h, at |-> y], size(h)).heap

FaultyIncrease(h, x, k) ==
  LET g == [h EXCEPT !.key[x] = k]
      y == g.parent[x]
  IN IF y # NULL /\ k > g.key[y] THEN cascadingCut(cut(g, x, y), y) ELSE g

\* The key of x has become k.  A key that grows above that of its parent cuts x
\* off; one that shrinks is accepted and left where it is.
increaseKey(h, x, k) ==
  LET g == [h EXCEPT !.key[x] = k]
      y == g.parent[x]
      f == IF y # NULL /\ k > g.key[y] THEN cascadingCut(cut(g, x, y), y) ELSE g
  IN IF k > f.key[f.maxNode] THEN [f EXCEPT !.maxNode = x] ELSE f

-----------------------------------------------------------------------------
\* Root y becomes a child of root x.
makeChild(h, y, x) ==
  LET g == [unlink(h, y) EXCEPT !.parent[y] = x, !.mark[y] = FALSE, !.degree[x] = @ + 1]
  IN IF h.child[x] = NULL
     THEN [g EXCEPT !.child[x] = y, !.left[y] = y, !.right[y] = y]
     ELSE linkRightOf(g, y, h.child[x])

\* x enters the degree table, after merging with the roots of its degree.
merge(s, d) ==
  LET y == s.degreeTable[d]
      top == IF s.heap.key[s.at] < s.heap.key[y] THEN y ELSE s.at
      low == IF top = s.at THEN y ELSE s.at
  IN IF s.heap.degree[s.at] # d \/ y = NULL THEN s
     ELSE [heap |-> makeChild(s.heap, low, top), at |-> top,
           degreeTable |-> [s.degreeTable EXCEPT ![d] = NULL]]

mergeInto(h, x, degreeTable) ==
  LET s == Loop(LAMBDA t, i : merge(t, i - 1), [heap |-> h, at |-> x, degreeTable |-> degreeTable],
                size(h) + 1)
  IN [s EXCEPT !.degreeTable[s.heap.degree[s.at]] = s.at]

rootsFrom(h, x) ==
  LET right[i \in 0 .. size(h)] == IF i = 0 THEN x ELSE h.right[right[i - 1]]
  IN {right[i] : i \in 0 .. size(h)}

\* Starting with x, the next numRoots roots enter the table.
enter(s) == [mergeInto(s.heap, s.at, s.degreeTable) EXCEPT !.at = s.heap.right[s.at]]

fillTable(h, x, numRoots, degreeTable) ==
  Loop(LAMBDA s, i : enter(s), [heap |-> h, at |-> x, degreeTable |-> degreeTable], numRoots)

\* The roots of the table are linked anew, with the maximum.
relink(h, y) ==
  LET g == linkRightOf(unlink(h, y), y, h.maxNode)
      isMax == h.maxNode = NULL \/ h.key[y] > h.key[h.maxNode]
  IN IF y = NULL THEN h
     ELSE [(IF h.maxNode = NULL THEN h ELSE g) EXCEPT !.maxNode = IF isMax THEN y ELSE @]

combine(h, degreeTable) ==
  Loop(LAMBDA g, i : relink(g, degreeTable[i - 1]), [h EXCEPT !.maxNode = NULL], size(h) + 1)

degreewiseMerge(h) ==
  LET none == [d \in 0 .. size(h) |-> NULL]   \* 45 entries in the code
      m == fillTable(h, h.maxNode, Cardinality(rootsFrom(h, h.maxNode)), none)
  IN combine(m.heap, m.degreeTable)

-----------------------------------------------------------------------------
\* The children of the maximum, z, become roots.
release(s, z) ==
  [heap |-> [linkRightOf(unlink(s.heap, s.at), s.at, z) EXCEPT !.parent[s.at] = NULL],
   at |-> s.heap.right[s.at]]

releaseChildren(h) ==
  LET z == h.maxNode
  IN Loop(LAMBDA s, i : release(s, z), [heap |-> h, at |-> h.child[z]], h.degree[z]).heap

\* The heap after its maximum, h.maxNode, is removed.
removeMax(h) ==
  LET z == h.maxNode
      g == unlink(releaseChildren(h), z)
      f == IF g.right[z] = z THEN [g EXCEPT !.maxNode = NULL]
           ELSE degreewiseMerge([g EXCEPT !.maxNode = g.right[z]])
  IN [f EXCEPT !.numberOfNodes = @ - 1]

-----------------------------------------------------------------------------
(* What the heap is to the searches. *)

\* The nodes that pointers lead to from x: the least set with x that next, from
\* any node to those it points at, does not lead out of.
Reached(next, x) ==
  {y \in DOMAIN next :
     \A C \in SUBSET DOMAIN next : (x \in C /\ \A z \in C : next[z] \subseteq C) => y \in C}

listOf(h, x) == Reached([z \in DOMAIN h.right |-> {h.right[z]}], x)
childrenOf(h, x) == IF h.child[x] = NULL THEN {} ELSE listOf(h, h.child[x])

\* h is a heap of exactly the nodes of S: all are reached from maxNode, every
\* list is circular both ways, a parent and its children know of each other, no
\* key exceeds that of its parent, no root exceeds maxNode.
IsHeapOf(h, S) ==
  /\ h.numberOfNodes = Cardinality(S)
  /\ (h.maxNode = NULL) <=> (S = {})
  /\ S # {} =>
       /\ S = Reached([x \in DOMAIN h.right |-> {h.right[x]} \cup childrenOf(h, x)], h.maxNode)
       /\ \A x \in listOf(h, h.maxNode) : h.parent[x] = NULL /\ h.key[x] <= h.key[h.maxNode]
       /\ \A x \in S :
            /\ h.left[h.right[x]] = x /\ h.right[h.left[x]] = x
            /\ h.degree[x] = Cardinality(childrenOf(h, x))
            /\ \A y \in childrenOf(h, x) : h.parent[y] = x /\ h.key[y] <= h.key[x]
=============================================================================
