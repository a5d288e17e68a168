---------------------------- MODULE LsaFlooding ----------------------------
(***************************************************************************)
(* Flooding of link state advertisements among the TA-FRR routers.         *)
(*                                                                         *)
(* A router whose link statuses changed draws an LSA id, applies the       *)
(* statuses to its own route subgraphs and sends the LSA on all its faces. *)
(* A router that receives an LSA drops it if it has seen the id, and else  *)
(* remembers the id, sends the LSA on all its faces, the one it came from  *)
(* included, and applies it.  The router that draws an id does not         *)
(* remember it: its own LSA comes back, and is applied and flooded again.  *)
(*                                                                         *)
(* An LSA writes the status of every monitored link of its origin, and the *)
(* LSAs of the two ends of a link write the same entry of linkStatusMap:   *)
(* the last writer wins, and no LSA carries a number that any router       *)
(* reads.  What counts here is which LSA wrote an entry last; the statuses *)
(* themselves are those of module Failover.                                *)
(*                                                                         *)
(* The n-th LSA of origin o is <<o, n>>; its id in the code is a random    *)
(* 32-bit number, so a collision of two ids is not modelled.  A link is a  *)
(* pair of FIFO channels: ns-3 point-to-point devices have a FIFO queue    *)
(* and a constant delay.                                                   *)
(*                                                                         *)
(* An operator named Faulty... is a version of the operator after it with  *)
(* a mistake one could make in this code; no behaviour of Spec uses it.    *)
(***************************************************************************)
EXTENDS Integers, Sequences, FiniteSets

CONSTANTS
  Nodes,
  Links,      \* sets of two nodes
  Monitored,  \* the links whose faces have remoteLltcNodeId # -1
  Origins,    \* the nodes whose link statuses change
  MaxSeq,     \* bound: how many LSAs each origin sends
  Lossy,      \* messages may be lost
  NoLsa

Channels == {c \in Nodes \X Nodes : {c[1], c[2]} \in Links}
LsaIds   == UNION {{o} \X (1 .. MaxSeq[o]) : o \in Origins}

ASSUME FloodingAssumption ==
  /\ \A l \in Links : \E a, b \in Nodes : a # b /\ l = {a, b}
  /\ Monitored \subseteq Links
  /\ Origins \subseteq Nodes
  /\ MaxSeq \in [Origins -> Nat]
  /\ Lossy \in BOOLEAN
  /\ NoLsa \notin LsaIds

\* The topology is connected: a link leaves every proper part of it.
ASSUME Connected ==
  /\ \A n \in Nodes : \E c \in Channels : c[1] = n
  /\ \A S \in SUBSET Nodes : S # {} /\ S # Nodes =>
       \E c \in Channels : c[1] \in S /\ c[2] \notin S

VARIABLES
  sent,          \* how many LSAs each origin has flooded
  recentLsaIds,  \* per node
  linkStatusMap, \* per node and monitored link: the LSA that wrote it last
  wire           \* environment: the LSAs in flight on each channel

vars == <<sent, recentLsaIds, linkStatusMap, wire>>

Init ==
  /\ sent = [o \in Origins |-> 0]
  /\ recentLsaIds = [n \in Nodes |-> {}]
  /\ linkStatusMap = [n \in Nodes |-> [l \in Monitored |-> NoLsa]]
  /\ wire = [c \in Channels |-> <<>>]

-----------------------------------------------------------------------------
FaultyOnlyOwn(n, id) ==
  [linkStatusMap EXCEPT ![n] = [l \in Monitored |-> IF id[1] \in l /\ n \in l THEN id ELSE @[l]]]

\* Node n writes the statuses of LSA id: those of the links of its origin.
updatePreferredPathWithLSA(n, id) ==
  [linkStatusMap EXCEPT ![n] = [l \in Monitored |-> IF id[1] \in l THEN id ELSE @[l]]]

\* Node n sends id on all its faces, given the channels w.
FaultyJumpQueue(n, id, w) ==
  [c \in Channels |-> IF c[1] = n THEN <<id>> \o w[c] ELSE w[c]]
FaultySkipFace(n, id, w) ==
  [c \in Channels |-> IF c[1] = n /\ c[2] \notin Origins THEN Append(w[c], id) ELSE w[c]]

sendNonPitData(n, id, w) ==
  [c \in Channels |-> IF c[1] = n THEN Append(w[c], id) ELSE w[c]]

FaultyReuseNumber(o) ==
  /\ sent[o] < MaxSeq[o]
  /\ sent' = [sent EXCEPT ![o] = @ + 1]
  /\ linkStatusMap' = updatePreferredPathWithLSA(o, <<o, sent[o]>>)
  /\ wire' = sendNonPitData(o, <<o, sent[o]>>, wire)
  /\ UNCHANGED recentLsaIds

\* The statuses of o changed: the part of broadcastingLsaTask after the diff.
broadcastingLsaTask(o) ==
  LET id == <<o, sent[o] + 1>> IN
  /\ sent[o] < MaxSeq[o]
  /\ sent' = [sent EXCEPT ![o] = @ + 1]
  /\ linkStatusMap' = updatePreferredPathWithLSA(o, id)
  /\ wire' = sendNonPitData(o, id, wire)
  /\ UNCHANGED recentLsaIds

FaultyForget(n, id) == [recentLsaIds EXCEPT ![n] = {id}]

remember(n, id) == [recentLsaIds EXCEPT ![n] = @ \cup {id}]

\* The LSA at the head of channel c reaches the node at its end.
onReceiveLsa(c) ==
  LET id   == Head(wire[c])
      n    == c[2]
      rest == [wire EXCEPT ![c] = Tail(@)]
  IN
  /\ wire[c] # <<>>
  /\ \/ /\ id \in recentLsaIds[n]
        /\ wire' = rest
        /\ UNCHANGED <<recentLsaIds, linkStatusMap>>
     \/ /\ id \notin recentLsaIds[n]
        /\ recentLsaIds' = remember(n, id)
        /\ wire' = sendNonPitData(n, id, rest)
        /\ linkStatusMap' = updatePreferredPathWithLSA(n, id)
  /\ UNCHANGED sent

LoseLsa(c) ==
  /\ Lossy
  /\ wire[c] # <<>>
  /\ wire' = [wire EXCEPT ![c] = Tail(@)]
  /\ UNCHANGED <<sent, recentLsaIds, linkStatusMap>>

Next ==
  \/ \E o \in Origins : broadcastingLsaTask(o)
  \/ \E c \in Channels : onReceiveLsa(c) \/ LoseLsa(c)

Spec == Init /\ [][Next]_vars

\* A message in flight arrives or is lost.
FairSpec == Spec /\ \A c \in Channels : WF_vars(onReceiveLsa(c) \/ LoseLsa(c))

-----------------------------------------------------------------------------
(* Properties. *)

TypeOK ==
  /\ sent \in [Origins -> Nat]
  /\ \A o \in Origins : sent[o] <= MaxSeq[o]
  /\ recentLsaIds \in [Nodes -> SUBSET LsaIds]
  /\ linkStatusMap \in [Nodes -> [Monitored -> LsaIds \cup {NoLsa}]]
  /\ wire \in [Channels -> Seq(LsaIds)]

Copies(c, id) == Cardinality({i \in 1 .. Len(wire[c]) : wire[c][i] = id})

\* Flooding does not multiply messages: at any time a channel holds at most one
\* copy of an LSA, or two if it leaves the origin, which floods its LSA twice,
\* although every node sends an LSA back on the face it came from.
NoStorm ==
  \A c \in Channels, id \in LsaIds : Copies(c, id) <= IF c[1] = id[1] THEN 2 ELSE 1

\* Flooding ends: a finite number of LSAs leads to a finite number of messages,
\* whether messages are lost or not.
FloodEnds == <>[](\A c \in Channels : wire[c] = <<>>)

Quiet == \A c \in Channels : wire[c] = <<>>

\* Once no LSA is in flight every node has seen every LSA, and the entry of a
\* link was written last by the newest LSA of one of its two ends: no older LSA
\* overtook a newer one, though an origin applies its own LSAs twice and the
\* two ends of a link write the same entry.
QuietMeansCurrent ==
  ~Lossy /\ Quiet =>
    \A n \in Nodes :
      /\ \A o \in Origins : \A v \in 1 .. sent[o] : <<o, v>> \in recentLsaIds[n]
      /\ \A l \in Monitored :
           \/ \E o \in l \cap Origins : sent[o] > 0 /\ linkStatusMap[n][l] = <<o, sent[o]>>
           \/ linkStatusMap[n][l] = NoLsa /\ \A o \in l \cap Origins : sent[o] = 0

\* An entry is never overwritten by an older LSA of the same origin, except at
\* the origin itself, whose own LSAs come back to it.
NoOlderOverwrite ==
  [][~Lossy => \A n \in Nodes, l \in Monitored :
       LET was == linkStatusMap[n][l]
           now == linkStatusMap'[n][l]
       IN was # NoLsa /\ now # NoLsa /\ now[1] = was[1] /\ now[1] # n => now[2] >= was[2]]_vars

\* Flooding implements ordered broadcast if no message is lost.
gotOf == [n \in Nodes |-> [o \in Origins |-> {v \in 1 .. MaxSeq[o] : <<o, v>> \in recentLsaIds[n]}]]
Broadcast == INSTANCE OrderedBroadcast WITH got <- gotOf
ImplementsBroadcast == Broadcast!FairSpec
=============================================================================
