------------------------- MODULE MCRouteGeneration -------------------------
(***************************************************************************)
(* Networks and configurations for TLC: all networks of four nodes and     *)
(* those of five with five to eight links, of one reliability as the       *)
(* scenario loads them, under bounds on the delay that bind and one that   *)
(* does not; complete networks of four nodes with two reliabilities, under *)
(* the latter bound only: where links differ and the bound binds, a node   *)
(* can keep the RSPs of a way that was bettered (see the README).          *)
(***************************************************************************)
EXTENDS RouteGeneration

Links4 == <<<<0, 1>>, <<1, 2>>, <<2, 3>>, <<0, 2>>, <<1, 3>>, <<0, 3>>>>
Links5 == Links4 \o <<<<3, 4>>, <<2, 4>>, <<4, 0>>, <<1, 4>>>>

Chosen(pairs, S) ==
  FoldLeft(LAMBDA r, i : IF i \in S THEN Append(r, pairs[i]) ELSE r, <<>>, [i \in DOMAIN pairs |-> i])

Csv(n, pairs, relias) ==
  [type |-> "CSV", nodeIds |-> [i \in 1 .. n |-> i - 1], pairs |-> pairs, relias |-> relias]
Uniform(n, pairs) == Csv(n, pairs, [i \in DOMAIN pairs |-> 8500])

\* A ring with a line twice, its nodes numbered as in those files.
Numbered(t) == [type |-> t, nodeIds |-> <<7, 3, 12, 5>>, relias |-> [i \in 1 .. 5 |-> 8500],
                pairs |-> <<<<7, 3>>, <<3, 12>>, <<3, 7>>, <<12, 5>>, <<5, 7>>>>]

Fours == {Uniform(4, Chosen(Links4, S)) : S \in SUBSET (1 .. 6)}
Fives == {Uniform(5, Chosen(Links5, S)) : S \in {T \in SUBSET (1 .. 10) : Cardinality(T) \in 5 .. 8}}
Mixed == {Csv(4, Links4, r) : r \in [1 .. 6 -> {6000, 9500}]}

Config(b, d, p, r) == [beta |-> b, maxPathDelay |-> d, numPPLinks |-> p, numNonPPLinks |-> r]

AllSetups ==
  ((Fours \cup Fives \cup {Numbered("IEEE"), Numbered("BRITE")}) \X {Config(2, 4, 1, 1), Config(3, 20, 1, 0)})
    \cup (Mixed \X {Config(2, 20, 1, 0)})
FlowsTo3And2 == <<3, 2>>
=============================================================================
