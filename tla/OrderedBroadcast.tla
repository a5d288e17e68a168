-------------------------- MODULE OrderedBroadcast --------------------------
(***************************************************************************)
(* What the flooding of LSAs promises when no message is lost: every node  *)
(* gets every LSA of every origin, and those of one origin in the order in *)
(* which the origin sent them.  LSAs of different origins may reach two    *)
(* nodes in different orders.                                              *)
(***************************************************************************)
EXTENDS Integers

CONSTANTS Nodes, Origins, MaxSeq

VARIABLES
  sent,   \* how many LSAs each origin has sent
  got     \* got[n][o]: the numbers of the LSAs of o that n has got

vars == <<sent, got>>

Init ==
  /\ sent = [o \in Origins |-> 0]
  /\ got = [n \in Nodes |-> [o \in Origins |-> {}]]

Send(o) ==
  /\ sent[o] < MaxSeq[o]
  /\ sent' = [sent EXCEPT ![o] = @ + 1]
  /\ UNCHANGED got

\* Node n gets the next LSA of o.
Deliver(n, o) ==
  \E v \in 1 .. sent[o] :
    /\ got[n][o] = 1 .. v - 1
    /\ got' = [got EXCEPT ![n] = [@ EXCEPT ![o] = 1 .. v]]
    /\ UNCHANGED sent

Next == \E o \in Origins : Send(o) \/ \E n \in Nodes : Deliver(n, o)

Spec == Init /\ [][Next]_vars

FairSpec == Spec /\ \A n \in Nodes, o \in Origins : WF_vars(Deliver(n, o))
=============================================================================
