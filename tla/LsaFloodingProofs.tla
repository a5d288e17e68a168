------------------------- MODULE LsaFloodingProofs -------------------------
(***************************************************************************)
(* Proofs about the flooding of LSAs: type correctness, and, if no message *)
(* is lost, that a quiet network is up to date, that no LSA overwrites a   *)
(* newer one of its origin, and that flooding is an ordered broadcast.     *)
(*                                                                         *)
(* The invariant behind them looks at one channel at a time.  What the     *)
(* near end has seen or sent, the far end has seen or will get over this   *)
(* channel (Spread, FromOrigin).  What is in flight is in order (InOrder), *)
(* so what a node has seen has no gaps (NoGaps), and an LSA it has not     *)
(* seen yet is newer than all it has seen of the same origin.              *)
(*                                                                         *)
(* Lost messages or not, a node sends an LSA over a channel when it first  *)
(* sees it, and its origin once more: so a channel holds no more copies of *)
(* it than were sent over it (SentOnce).                                   *)
(***************************************************************************)
EXTENDS LsaFlooding, FiniteSetTheorems, FunctionTheorems, TLAPS

(* A channel, as the sequence s of messages in flight and the set R of the *)
(* LSAs its far end has seen.                                              *)

Covers(s, R, id) == id \in R \/ \E i \in 1 .. Len(s) : s[i] = id

OrderedAt(s, R) ==
  \A i \in 1 .. Len(s) : \A u \in 1 .. s[i][2] - 1 :
    \/ <<s[i][1], u>> \in R
    \/ \E j \in 1 .. i - 1 : s[j] = <<s[i][1], u>>

Spread     == \A c \in Channels : \A id \in recentLsaIds[c[1]] :
                Covers(wire[c], recentLsaIds[c[2]], id)
FromOrigin == \A o \in Origins : \A v \in 1 .. sent[o] : \A c \in Channels :
                c[1] = o => Covers(wire[c], recentLsaIds[c[2]], <<o, v>>)
InOrder    == \A c \in Channels : OrderedAt(wire[c], recentLsaIds[c[2]])
NoGaps     == \A n \in Nodes, o \in Origins : \A v \in 1 .. MaxSeq[o] :
                <<o, v>> \in recentLsaIds[n] => \A u \in 1 .. v - 1 : <<o, u>> \in recentLsaIds[n]

\* Nothing is seen or in flight before it is sent.
IsSent(id)  == id[2] <= sent[id[1]]
SentOnly   == /\ \A n \in Nodes : \A id \in recentLsaIds[n] : IsSent(id)
              /\ \A c \in Channels : \A i \in 1 .. Len(wire[c]) : IsSent(wire[c][i])

\* What a node that last wrote id to the entry of link l has seen.
EntryOf(n, l, id) ==
  /\ id = NoLsa => \A o \in l \cap Origins :
       /\ n = o => sent[o] = 0
       /\ \A v \in 1 .. MaxSeq[o] : <<o, v>> \notin recentLsaIds[n]
  /\ id # NoLsa =>
       /\ id[1] \in l
       /\ IsSent(id)
       /\ id \in recentLsaIds[n] \/ id[1] = n
       /\ \A v \in 1 .. MaxSeq[id[1]] : <<id[1], v>> \in recentLsaIds[n] => v <= id[2]
Newest     == \A n \in Nodes, l \in Monitored : EntryOf(n, l, linkStatusMap[n][l])

IInv == TypeOK /\ Spread /\ FromOrigin /\ InOrder /\ NoGaps /\ SentOnly /\ Newest

-----------------------------------------------------------------------------
(* One channel. *)

LEMMA AppendFacts ==
  ASSUME NEW S, NEW s \in Seq(S), NEW x \in S
  PROVE  /\ Append(s, x) \in Seq(S)
         /\ Len(Append(s, x)) = Len(s) + 1
         /\ \A i \in 1 .. Len(s) : Append(s, x)[i] = s[i]
         /\ Append(s, x)[Len(s) + 1] = x
OBVIOUS

LEMMA TailFacts ==
  ASSUME NEW S, NEW s \in Seq(S), s # <<>>
  PROVE  /\ Tail(s) \in Seq(S)
         /\ Len(s) \in Nat \ {0}
         /\ Len(Tail(s)) = Len(s) - 1
         /\ \A i \in 1 .. Len(s) - 1 : Tail(s)[i] = s[i + 1]
         /\ Head(s) = s[1]
         /\ Head(s) \in S
OBVIOUS

LEMMA CoversGrows ==
  ASSUME NEW s, NEW R, NEW Q, R \subseteq Q, NEW id, Covers(s, R, id)
  PROVE  Covers(s, Q, id)
BY DEF Covers

LEMMA CoversAppend ==
  ASSUME NEW S, NEW s \in Seq(S), NEW x \in S, NEW R
  PROVE  /\ Covers(Append(s, x), R, x)
         /\ \A id : Covers(s, R, id) => Covers(Append(s, x), R, id)
<1>1. Len(s) \in Nat
  OBVIOUS
<1>2. Covers(Append(s, x), R, x)
  BY <1>1, AppendFacts, Len(s) + 1 \in 1 .. Len(Append(s, x)) DEF Covers
<1>3. ASSUME NEW id, Covers(s, R, id) PROVE Covers(Append(s, x), R, id)
  <2>1. CASE id \in R
    BY <2>1 DEF Covers
  <2>2. CASE \E i \in 1 .. Len(s) : s[i] = id
    <3>1. PICK i \in 1 .. Len(s) : s[i] = id
      BY <2>2
    <3>2. i \in 1 .. Len(Append(s, x)) /\ Append(s, x)[i] = id
      BY <1>1, <3>1, AppendFacts
    <3> QED BY <3>2 DEF Covers
  <2> QED BY <1>3, <2>1, <2>2 DEF Covers
<1> QED BY <1>2, <1>3

LEMMA CoversTail ==
  ASSUME NEW S, NEW s \in Seq(S), s # <<>>, NEW R, Head(s) \in R,
         NEW id, NEW Q, Q \subseteq R, Covers(s, Q, id)
  PROVE  Covers(Tail(s), R, id)
<1>1. CASE id \in Q
  BY <1>1 DEF Covers
<1>2. CASE \E i \in 1 .. Len(s) : s[i] = id
  <2>1. PICK i \in 1 .. Len(s) : s[i] = id
    BY <1>2
  <2>2. CASE i = 1
    BY <2>1, <2>2, TailFacts DEF Covers
  <2>3. CASE i # 1
    <3>1. i - 1 \in 1 .. Len(Tail(s)) /\ Tail(s)[i - 1] = id
      BY <2>1, <2>3, TailFacts
    <3> QED BY <3>1 DEF Covers
  <2> QED BY <2>2, <2>3
<1> QED BY <1>1, <1>2 DEF Covers

LEMMA OrderedGrows ==
  ASSUME NEW s, NEW R, NEW Q, R \subseteq Q, OrderedAt(s, R)
  PROVE  OrderedAt(s, Q)
BY DEF OrderedAt

LEMMA OrderedAppend ==
  ASSUME NEW S, NEW s \in Seq(S), NEW x \in S, NEW R, OrderedAt(s, R),
         \A u \in 1 .. x[2] - 1 : Covers(s, R, <<x[1], u>>)
  PROVE  OrderedAt(Append(s, x), R)
<1> DEFINE t == Append(s, x)
<1>1. Len(s) \in Nat
  OBVIOUS
<1>2. SUFFICES ASSUME NEW i \in 1 .. Len(t), NEW u \in 1 .. t[i][2] - 1, <<t[i][1], u>> \notin R
               PROVE  \E j \in 1 .. i - 1 : t[j] = <<t[i][1], u>>
  BY DEF OrderedAt
<1>3. CASE i \in 1 .. Len(s)
  <2>1. t[i] = s[i]
    BY <1>3, AppendFacts
  <2>2. PICK j \in 1 .. i - 1 : s[j] = <<s[i][1], u>>
    BY <1>2, <1>3, <2>1 DEF OrderedAt
  <2>3. t[j] = s[j]
    BY <1>1, <1>3, <2>2, AppendFacts
  <2> QED BY <2>1, <2>2, <2>3
<1>4. CASE i = Len(s) + 1
  <2>1. t[i] = x
    BY <1>4, AppendFacts
  <2>2. Covers(s, R, <<x[1], u>>)
    BY <2>1
  <2>3. PICK j \in 1 .. Len(s) : s[j] = <<x[1], u>>
    BY <1>2, <2>1, <2>2 DEF Covers
  <2>4. t[j] = s[j] /\ j \in 1 .. i - 1
    BY <1>1, <1>4, <2>3, AppendFacts
  <2> QED BY <2>1, <2>3, <2>4
<1>5. i \in 1 .. Len(s) \/ i = Len(s) + 1
  BY <1>1, AppendFacts
<1> QED BY <1>3, <1>4, <1>5

LEMMA OrderedTail ==
  ASSUME NEW S, NEW s \in Seq(S), s # <<>>, NEW R, NEW Q, Q \subseteq R,
         Head(s) \in R, OrderedAt(s, Q)
  PROVE  OrderedAt(Tail(s), R)
<1> DEFINE t == Tail(s)
<1>1. SUFFICES ASSUME NEW i \in 1 .. Len(t), NEW u \in 1 .. t[i][2] - 1, <<t[i][1], u>> \notin R
               PROVE  \E j \in 1 .. i - 1 : t[j] = <<t[i][1], u>>
  BY DEF OrderedAt
<1>2. t[i] = s[i + 1] /\ i + 1 \in 1 .. Len(s)
  BY TailFacts
<1>3. PICK j \in 1 .. (i + 1) - 1 : s[j] = <<t[i][1], u>>
  BY <1>1, <1>2 DEF OrderedAt
<1>4. j # 1
  BY <1>1, <1>3, TailFacts
<1>5. j - 1 \in 1 .. i - 1 /\ t[j - 1] = s[j]
  BY <1>2, <1>3, <1>4, TailFacts
<1> QED BY <1>3, <1>5

-----------------------------------------------------------------------------
(* LSA ids, channels and the steps, one channel and one entry at a time. *)

LEMMA LsaIdFacts ==
  /\ \A o \in Origins : \A v \in 1 .. MaxSeq[o] : <<o, v>> \in LsaIds
  /\ \A id \in LsaIds : /\ id[1] \in Origins
                        /\ id[2] \in 1 .. MaxSeq[id[1]]
                        /\ id = <<id[1], id[2]>>
BY FloodingAssumption DEF LsaIds

LEMMA ChannelFacts ==
  \A c \in Channels : c[1] \in Nodes /\ c[2] \in Nodes /\ c[1] # c[2]
<1> TAKE c \in Channels
<1>1. c \in Nodes \X Nodes /\ {c[1], c[2]} \in Links
  BY DEF Channels
<1>2. PICK a, b \in Nodes : a # b /\ {c[1], c[2]} = {a, b}
  BY <1>1, FloodingAssumption
<1> QED BY <1>1, <1>2

\* Origin o sends LSA id.
Broadcasts(o, id) ==
  /\ id = <<o, sent[o] + 1>>
  /\ id \in LsaIds
  /\ sent' = [sent EXCEPT ![o] = sent[o] + 1]
  /\ recentLsaIds' = recentLsaIds
  /\ \A c \in Channels :
       /\ c[1] = o => wire'[c] = Append(wire[c], id)
       /\ c[1] # o => wire'[c] = wire[c]
  /\ \A n \in Nodes, l \in Monitored :
       linkStatusMap'[n][l] = IF n = o /\ o \in l THEN id ELSE linkStatusMap[n][l]

\* Node n gets LSA id over channel c, for the first time or once more.
Gets(c, n, id) ==
  /\ wire[c] # <<>>
  /\ id = Head(wire[c])
  /\ n = c[2]
  /\ id \in LsaIds
  /\ sent' = sent

GetsNew(c, n, id) ==
  /\ Gets(c, n, id)
  /\ id \notin recentLsaIds[n]
  /\ \A m \in Nodes : recentLsaIds'[m] = IF m = n THEN recentLsaIds[n] \cup {id}
                                                  ELSE recentLsaIds[m]
  /\ wire'[c] = Tail(wire[c])
  /\ \A d \in Channels :
       /\ d[1] = n => wire'[d] = Append(wire[d], id)
       /\ d # c /\ d[1] # n => wire'[d] = wire[d]
  /\ \A m \in Nodes, l \in Monitored :
       linkStatusMap'[m][l] = IF m = n /\ id[1] \in l THEN id ELSE linkStatusMap[m][l]

GetsAgain(c, n, id) ==
  /\ Gets(c, n, id)
  /\ id \in recentLsaIds[n]
  /\ wire'[c] = Tail(wire[c])
  /\ \A d \in Channels : d # c => wire'[d] = wire[d]
  /\ UNCHANGED <<recentLsaIds, linkStatusMap>>

LEMMA BroadcastFacts ==
  ASSUME NEW o \in Origins, TypeOK, broadcastingLsaTask(o)
  PROVE  TypeOK' /\ Broadcasts(o, <<o, sent[o] + 1>>)
<1> DEFINE id == <<o, sent[o] + 1>>
<1> USE FloodingAssumption
<1>0. sent[o] \in Nat /\ MaxSeq[o] \in Nat /\ sent[o] < MaxSeq[o]
  <2>1. sent[o] < MaxSeq[o]
    BY DEF broadcastingLsaTask
  <2>2. sent \in [Origins -> Nat] /\ MaxSeq \in [Origins -> Nat]
    BY DEF TypeOK
  <2> QED BY <2>1, <2>2
<1>1. id \in LsaIds
  <2>1. sent[o] + 1 \in 1 .. MaxSeq[o]
    BY <1>0
  <2> QED BY <2>1, LsaIdFacts
<1>2. sent' = [sent EXCEPT ![o] = sent[o] + 1]
  BY DEF broadcastingLsaTask
<1>3. recentLsaIds' = recentLsaIds
  BY DEF broadcastingLsaTask
<1>4. wire' = [c \in Channels |-> IF c[1] = o THEN Append(wire[c], id) ELSE wire[c]]
  BY DEF broadcastingLsaTask, sendNonPitData
<1>5. linkStatusMap' = [linkStatusMap EXCEPT ![o] =
                          [l \in Monitored |-> IF o \in l THEN id ELSE linkStatusMap[o][l]]]
  BY DEF broadcastingLsaTask, updatePreferredPathWithLSA
<1> HIDE DEF id
<1>6. /\ sent' \in [Origins -> Nat]
      /\ \A p \in Origins : sent'[p] <= MaxSeq[p]
  <2>1. sent \in [Origins -> Nat] /\ \A p \in Origins : sent[p] <= MaxSeq[p]
    BY DEF TypeOK
  <2>2. \A p \in Origins : sent'[p] = IF p = o THEN sent[o] + 1 ELSE sent[p]
    BY <1>2, <2>1
  <2> QED BY <1>0, <1>2, <2>1, <2>2
<1>7. wire' \in [Channels -> Seq(LsaIds)]
  <2>1. \A c \in Channels : Append(wire[c], id) \in Seq(LsaIds) /\ wire[c] \in Seq(LsaIds)
    BY <1>1, AppendFacts DEF TypeOK
  <2> QED BY <1>4, <2>1
<1>8. linkStatusMap' \in [Nodes -> [Monitored -> LsaIds \cup {NoLsa}]]
  <2>1. [l \in Monitored |-> IF o \in l THEN id ELSE linkStatusMap[o][l]]
          \in [Monitored -> LsaIds \cup {NoLsa}]
    BY <1>1 DEF TypeOK
  <2> QED BY <1>5, <2>1 DEF TypeOK
<1>9. \A n \in Nodes, l \in Monitored :
        linkStatusMap'[n][l] = IF n = o /\ o \in l THEN id ELSE linkStatusMap[n][l]
  BY <1>5 DEF TypeOK
<1>10. TypeOK'
  BY <1>3, <1>6, <1>7, <1>8 DEF TypeOK
<1>11. Broadcasts(o, id)
  BY <1>1, <1>2, <1>3, <1>4, <1>9 DEF Broadcasts, id
<1> QED BY <1>10, <1>11 DEF id

LEMMA ReceiveFacts ==
  ASSUME NEW c \in Channels, TypeOK, onReceiveLsa(c)
  PROVE  /\ TypeOK'
         /\ GetsNew(c, c[2], Head(wire[c])) \/ GetsAgain(c, c[2], Head(wire[c]))
<1> DEFINE id == Head(wire[c])
           n  == c[2]
           rest == [wire EXCEPT ![c] = Tail(wire[c])]
<1> USE FloodingAssumption
<1>1. /\ wire[c] # <<>>
      /\ sent' = sent
      /\ \/ /\ id \in recentLsaIds[n]
            /\ wire' = rest
            /\ UNCHANGED <<recentLsaIds, linkStatusMap>>
         \/ /\ id \notin recentLsaIds[n]
            /\ recentLsaIds' = remember(n, id)
            /\ wire' = sendNonPitData(n, id, rest)
            /\ linkStatusMap' = updatePreferredPathWithLSA(n, id)
  BY DEF onReceiveLsa
<1>2. n \in Nodes /\ c[1] # n
  BY ChannelFacts
<1>3. id \in LsaIds /\ Tail(wire[c]) \in Seq(LsaIds)
  BY <1>1, TailFacts DEF TypeOK
<1>4. /\ rest \in [Channels -> Seq(LsaIds)]
      /\ rest[c] = Tail(wire[c])
      /\ \A d \in Channels : d # c => rest[d] = wire[d]
  BY <1>3 DEF TypeOK
<1>5. Gets(c, n, id)
  BY <1>1, <1>3 DEF Gets
<1> HIDE DEF id, n, rest
<1>6. CASE /\ id \in recentLsaIds[n]
           /\ wire' = rest
           /\ UNCHANGED <<recentLsaIds, linkStatusMap>>
  <2>1. TypeOK'
    BY <1>1, <1>4, <1>6 DEF TypeOK
  <2>2. GetsAgain(c, n, id)
    BY <1>4, <1>5, <1>6 DEF GetsAgain
  <2> QED BY <2>1, <2>2 DEF n, id
<1>7. CASE /\ id \notin recentLsaIds[n]
           /\ recentLsaIds' = remember(n, id)
           /\ wire' = sendNonPitData(n, id, rest)
           /\ linkStatusMap' = updatePreferredPathWithLSA(n, id)
  <2>1. recentLsaIds' = [recentLsaIds EXCEPT ![n] = recentLsaIds[n] \cup {id}]
    BY <1>7 DEF remember
  <2>2. wire' = [d \in Channels |-> IF d[1] = n THEN Append(rest[d], id) ELSE rest[d]]
    BY <1>7 DEF sendNonPitData
  <2>3. linkStatusMap' = [linkStatusMap EXCEPT ![n] =
                            [l \in Monitored |-> IF id[1] \in l THEN id ELSE linkStatusMap[n][l]]]
    BY <1>7 DEF updatePreferredPathWithLSA
  <2>4. recentLsaIds' \in [Nodes -> SUBSET LsaIds]
    BY <1>2, <1>3, <2>1 DEF TypeOK
  <2>5. wire' \in [Channels -> Seq(LsaIds)]
    <3>1. \A d \in Channels : Append(rest[d], id) \in Seq(LsaIds) /\ rest[d] \in Seq(LsaIds)
      BY <1>3, <1>4, AppendFacts
    <3> QED BY <2>2, <3>1
  <2>6. linkStatusMap' \in [Nodes -> [Monitored -> LsaIds \cup {NoLsa}]]
    <3>1. [l \in Monitored |-> IF id[1] \in l THEN id ELSE linkStatusMap[n][l]]
            \in [Monitored -> LsaIds \cup {NoLsa}]
      BY <1>2, <1>3 DEF TypeOK
    <3> QED BY <2>3, <3>1 DEF TypeOK
  <2>7. TypeOK'
    BY <1>1, <2>4, <2>5, <2>6 DEF TypeOK
  <2>8. \A m \in Nodes : recentLsaIds'[m] = IF m = n THEN recentLsaIds[n] \cup {id}
                                                     ELSE recentLsaIds[m]
    BY <1>2, <2>1 DEF TypeOK
  <2>9. /\ wire'[c] = Tail(wire[c])
        /\ \A d \in Channels :
             /\ d[1] = n => wire'[d] = Append(wire[d], id)
             /\ d # c /\ d[1] # n => wire'[d] = wire[d]
    BY <1>2, <1>4, <2>2
  <2>10. \A m \in Nodes, l \in Monitored :
           linkStatusMap'[m][l] = IF m = n /\ id[1] \in l THEN id ELSE linkStatusMap[m][l]
    BY <1>2, <2>3 DEF TypeOK
  <2>11. GetsNew(c, n, id)
    BY <1>5, <1>7, <2>8, <2>9, <2>10 DEF GetsNew
  <2> QED BY <2>7, <2>11 DEF n, id
<1> QED BY <1>1, <1>6, <1>7

LEMMA InitTypeOK == Init => TypeOK
BY FloodingAssumption DEF Init, TypeOK

LEMMA NextTypeOK == TypeOK /\ [Next]_vars => TypeOK'
<1> SUFFICES ASSUME TypeOK, [Next]_vars PROVE TypeOK'
  OBVIOUS
<1>1. ASSUME NEW o \in Origins, broadcastingLsaTask(o) PROVE TypeOK'
  BY <1>1, BroadcastFacts
<1>2. ASSUME NEW c \in Channels, onReceiveLsa(c) PROVE TypeOK'
  BY <1>2, ReceiveFacts
<1>3. ASSUME NEW c \in Channels, LoseLsa(c) PROVE TypeOK'
  <2>1. Tail(wire[c]) \in Seq(LsaIds)
    BY <1>3, TailFacts DEF TypeOK, LoseLsa
  <2> QED BY <1>3, <2>1 DEF TypeOK, LoseLsa
<1>4. ASSUME UNCHANGED vars PROVE TypeOK'
  BY <1>4 DEF TypeOK, vars
<1> QED BY <1>1, <1>2, <1>3, <1>4 DEF Next

\* The state is of its types on every topology, lossy or not.
THEOREM TypeCorrect == Spec => []TypeOK
<1>1. Init => TypeOK
  BY InitTypeOK
<1>2. TypeOK /\ [Next]_vars => TypeOK'
  BY NextTypeOK
<1> QED BY <1>1, <1>2, PTL DEF Spec

-----------------------------------------------------------------------------
(* The invariant. *)

\* The LSA a node gets for the first time is the next one of its origin.
LEMMA NextInOrder ==
  ASSUME IInv, NEW c \in Channels, NEW n, NEW id, GetsNew(c, n, id)
  PROVE  /\ id[1] \in Origins
         /\ id[2] \in 1 .. MaxSeq[id[1]]
         /\ id = <<id[1], id[2]>>
         /\ IsSent(id)
         /\ \A u \in 1 .. id[2] - 1 : <<id[1], u>> \in recentLsaIds[n]
         /\ \A w \in 1 .. MaxSeq[id[1]] : <<id[1], w>> \in recentLsaIds[n] => w < id[2]
<1>1. /\ wire[c] # <<>> /\ id = Head(wire[c]) /\ n = c[2] /\ id \in LsaIds
      /\ id \notin recentLsaIds[n]
  BY DEF GetsNew, Gets
<1>2. n \in Nodes
  BY <1>1, ChannelFacts
<1>3. id[1] \in Origins /\ id[2] \in 1 .. MaxSeq[id[1]] /\ id = <<id[1], id[2]>>
  BY <1>1, LsaIdFacts
<1>4. 1 \in 1 .. Len(wire[c]) /\ wire[c][1] = id
  BY <1>1, TailFacts DEF IInv, TypeOK
<1>5. IsSent(id)
  BY <1>4 DEF IInv, SentOnly
<1>6. ASSUME NEW u \in 1 .. id[2] - 1 PROVE <<id[1], u>> \in recentLsaIds[n]
  <2>1. OrderedAt(wire[c], recentLsaIds[n])
    BY <1>1 DEF IInv, InOrder
  <2> QED BY <1>4, <2>1 DEF OrderedAt
<1>7. MaxSeq[id[1]] \in Nat
  BY <1>3, FloodingAssumption
<1>8. ASSUME NEW w \in 1 .. MaxSeq[id[1]], <<id[1], w>> \in recentLsaIds[n]
      PROVE  w < id[2]
  <2>1. w # id[2]
    BY <1>1, <1>3, <1>8
  <2>2. ~ id[2] < w
    <3>1. SUFFICES ASSUME id[2] < w PROVE FALSE
      OBVIOUS
    <3>2. id[2] \in 1 .. w - 1
      BY <1>3, <1>7, <3>1
    <3>3. <<id[1], id[2]>> \in recentLsaIds[n]
      BY <1>2, <1>3, <1>8, <3>2 DEF IInv, NoGaps
    <3> QED BY <1>1, <1>3, <3>3
  <2> QED BY <1>3, <1>7, <2>1, <2>2
<1> QED BY <1>3, <1>5, <1>6, <1>8

LEMMA GetsNewChannel ==
  ASSUME TypeOK, NEW c \in Channels, NEW n, NEW id, GetsNew(c, n, id), NEW d \in Channels
  PROVE  \/ /\ d[1] = n
            /\ wire'[d] = Append(wire[d], id)
            /\ recentLsaIds'[d[2]] = recentLsaIds[d[2]]
         \/ /\ d = c /\ d[1] # n
            /\ wire[d] # <<>> /\ Head(wire[d]) = id /\ wire'[d] = Tail(wire[d])
            /\ recentLsaIds'[d[2]] = recentLsaIds[d[2]] \cup {id}
            /\ recentLsaIds'[d[1]] = recentLsaIds[d[1]]
         \/ /\ d # c /\ d[1] # n
            /\ wire'[d] = wire[d]
            /\ recentLsaIds[d[2]] \subseteq recentLsaIds'[d[2]]
            /\ recentLsaIds'[d[1]] = recentLsaIds[d[1]]
<1>1. n = c[2] /\ d[1] \in Nodes /\ d[2] \in Nodes /\ d[1] # d[2] /\ c[1] # c[2]
  BY ChannelFacts DEF GetsNew, Gets
<1>2. CASE d[1] = n
  BY <1>1, <1>2 DEF GetsNew
<1>3. CASE d = c /\ d[1] # n
  BY <1>1, <1>3 DEF GetsNew, Gets
<1>4. CASE d # c /\ d[1] # n
  BY <1>1, <1>4 DEF GetsNew
<1> QED BY <1>1, <1>2, <1>3, <1>4

LEMMA GetsNewCovers ==
  ASSUME TypeOK, NEW c \in Channels, NEW n, NEW id, GetsNew(c, n, id), NEW d \in Channels,
         NEW x, Covers(wire[d], recentLsaIds[d[2]], x)
  PROVE  Covers(wire'[d], recentLsaIds'[d[2]], x)
<1>1. wire[d] \in Seq(LsaIds) /\ id \in LsaIds
  BY DEF TypeOK, GetsNew, Gets
<1>2. CASE d[1] = n /\ wire'[d] = Append(wire[d], id)
             /\ recentLsaIds'[d[2]] = recentLsaIds[d[2]]
  BY <1>1, <1>2, CoversAppend
<1>3. CASE wire[d] # <<>> /\ Head(wire[d]) = id /\ wire'[d] = Tail(wire[d])
             /\ recentLsaIds'[d[2]] = recentLsaIds[d[2]] \cup {id}
  BY <1>1, <1>3, CoversTail
<1>4. CASE wire'[d] = wire[d] /\ recentLsaIds[d[2]] \subseteq recentLsaIds'[d[2]]
  BY <1>4, CoversGrows
<1> QED BY <1>2, <1>3, <1>4, GetsNewChannel

LEMMA GetsNewKeeps ==
  ASSUME IInv, TypeOK', NEW c \in Channels, NEW n, NEW id, GetsNew(c, n, id)
  PROVE  IInv'
<1> DEFINE o == id[1]
           v == id[2]
<1> USE FloodingAssumption
<1>1. /\ o \in Origins /\ v \in 1 .. MaxSeq[o] /\ id = <<o, v>> /\ IsSent(id)
      /\ \A u \in 1 .. v - 1 : <<o, u>> \in recentLsaIds[n]
      /\ \A w \in 1 .. MaxSeq[o] : <<o, w>> \in recentLsaIds[n] => w < v
  BY NextInOrder
<1>2. TypeOK /\ n \in Nodes /\ sent' = sent /\ id \in LsaIds /\ id # NoLsa
  BY ChannelFacts DEF IInv, GetsNew, Gets
<1>3. \A m \in Nodes : recentLsaIds'[m] = IF m = n THEN recentLsaIds[n] \cup {id}
                                                   ELSE recentLsaIds[m]
  BY DEF GetsNew
<1>4. \A d \in Channels : wire[d] \in Seq(LsaIds)
  BY <1>2 DEF TypeOK
<1> HIDE DEF o, v
<1>5. Spread'
  <2> SUFFICES ASSUME NEW d \in Channels, NEW x \in recentLsaIds'[d[1]]
               PROVE  Covers(wire'[d], recentLsaIds'[d[2]], x)
    BY DEF Spread
  <2>1. CASE x \in recentLsaIds[d[1]]
    BY <1>2, <2>1, GetsNewCovers DEF IInv, Spread
  <2>2. CASE x \notin recentLsaIds[d[1]]
    <3>1. x = id /\ d[1] = n
      BY <1>3, <2>2, ChannelFacts
    <3>2. wire'[d] = Append(wire[d], id)
      BY <3>1 DEF GetsNew
    <3> QED BY <1>2, <1>4, <3>1, <3>2, CoversAppend
  <2> QED BY <2>1, <2>2
<1>6. FromOrigin'
  BY <1>2, GetsNewCovers DEF IInv, FromOrigin
<1>7. InOrder'
  <2> SUFFICES ASSUME NEW d \in Channels
               PROVE  OrderedAt(wire'[d], recentLsaIds'[d[2]])
    BY DEF InOrder
  <2>1. OrderedAt(wire[d], recentLsaIds[d[2]])
    BY DEF IInv, InOrder
  <2>2. CASE /\ d[1] = n /\ wire'[d] = Append(wire[d], id)
             /\ recentLsaIds'[d[2]] = recentLsaIds[d[2]]
    <3>1. \A u \in 1 .. id[2] - 1 : Covers(wire[d], recentLsaIds[d[2]], <<id[1], u>>)
      BY <1>1, <2>2 DEF IInv, Spread, o, v
    <3> QED BY <1>2, <1>4, <2>1, <2>2, <3>1, OrderedAppend
  <2>3. CASE /\ wire[d] # <<>> /\ Head(wire[d]) = id /\ wire'[d] = Tail(wire[d])
             /\ recentLsaIds'[d[2]] = recentLsaIds[d[2]] \cup {id}
    BY <1>4, <2>1, <2>3, OrderedTail
  <2>4. CASE wire'[d] = wire[d] /\ recentLsaIds[d[2]] \subseteq recentLsaIds'[d[2]]
    BY <2>1, <2>4, OrderedGrows
  <2> QED BY <1>2, <2>2, <2>3, <2>4, GetsNewChannel
<1>8. NoGaps'
  <2> SUFFICES ASSUME NEW m \in Nodes, NEW p \in Origins, NEW w \in 1 .. MaxSeq[p],
                      <<p, w>> \in recentLsaIds'[m], NEW u \in 1 .. w - 1
               PROVE  <<p, u>> \in recentLsaIds'[m]
    BY DEF NoGaps
  <2>1. CASE <<p, w>> \in recentLsaIds[m]
    BY <1>3, <2>1 DEF IInv, NoGaps
  <2>2. CASE <<p, w>> \notin recentLsaIds[m]
    <3>1. m = n /\ <<p, w>> = <<o, v>>
      BY <1>1, <1>3, <2>2
    <3>2. p = o /\ w = v
      BY <3>1
    <3> QED BY <1>1, <1>3, <3>1, <3>2
  <2> QED BY <2>1, <2>2
<1>9. SentOnly'
  <2>1. ASSUME NEW m \in Nodes, NEW x \in recentLsaIds'[m] PROVE IsSent(x)
    BY <1>1, <1>3 DEF IInv, SentOnly
  <2>2. ASSUME NEW d \in Channels, NEW i \in 1 .. Len(wire'[d]) PROVE IsSent(wire'[d][i])
    <3>0. \A j \in 1 .. Len(wire[d]) : IsSent(wire[d][j])
      BY DEF IInv, SentOnly
    <3>1. CASE wire'[d] = Append(wire[d], id)
      <4>1. i \in 1 .. Len(wire[d]) \/ i = Len(wire[d]) + 1
        BY <1>2, <1>4, <3>1, AppendFacts
      <4>2. wire'[d][i] = id \/ (i \in 1 .. Len(wire[d]) /\ wire'[d][i] = wire[d][i])
        BY <1>2, <1>4, <3>1, <4>1, AppendFacts
      <4> QED BY <1>1, <3>0, <4>2
    <3>2. CASE wire[d] # <<>> /\ wire'[d] = Tail(wire[d])
      <4>1. i + 1 \in 1 .. Len(wire[d]) /\ wire'[d][i] = wire[d][i + 1]
        BY <1>4, <3>2, TailFacts
      <4> QED BY <3>0, <4>1
    <3>3. CASE wire'[d] = wire[d]
      BY <3>0, <3>3
    <3> QED BY <1>2, <3>1, <3>2, <3>3, GetsNewChannel
  <2> QED BY <1>2, <2>1, <2>2 DEF SentOnly, IsSent
<1>10. Newest'
  <2> SUFFICES ASSUME NEW m \in Nodes, NEW l \in Monitored
               PROVE  EntryOf(m, l, linkStatusMap[m][l])'
    BY DEF Newest
  <2>1. linkStatusMap'[m][l] = IF m = n /\ o \in l THEN id ELSE linkStatusMap[m][l]
    BY DEF GetsNew, o
  <2>2. CASE m = n /\ o \in l
    <3>1. linkStatusMap'[m][l] = id
      BY <2>1, <2>2
    <3>2. \A w \in 1 .. MaxSeq[o] : <<o, w>> \in recentLsaIds'[n] => w <= v
      <4> TAKE w \in 1 .. MaxSeq[o]
      <4>1. <<o, w>> \in recentLsaIds'[n] => <<o, w>> \in recentLsaIds[n] \/ w = v
        BY <1>1, <1>2, <1>3
      <4> QED BY <1>1, <4>1
    <3>3. IsSent(id)'
      BY <1>1, <1>2 DEF IsSent
    <3>4. id \in recentLsaIds'[n]
      BY <1>2, <1>3
    <3> QED BY <1>2, <2>2, <3>1, <3>2, <3>3, <3>4 DEF EntryOf, o, v
  <2>3. CASE ~ (m = n /\ o \in l)
    <3> DEFINE e == linkStatusMap[m][l]
    <3>1. linkStatusMap'[m][l] = e /\ EntryOf(m, l, e)
      BY <2>1, <2>3 DEF IInv, Newest
    <3>2. \A p \in l \cap Origins : \A w \in 1 .. MaxSeq[p] :
            <<p, w>> \in recentLsaIds'[m] => <<p, w>> \in recentLsaIds[m]
      BY <1>1, <1>3, <2>3
    <3>3. e \in LsaIds \cup {NoLsa}
      BY <1>2 DEF TypeOK
    <3>4. CASE e = NoLsa
      BY <1>2, <3>1, <3>2, <3>4 DEF EntryOf
    <3>5. CASE e # NoLsa
      <4>1. e[1] \in l \cap Origins
        BY <3>1, <3>3, <3>5, LsaIdFacts DEF EntryOf
      <4>2. IsSent(e)'
        BY <1>2, <3>1, <3>5 DEF EntryOf, IsSent
      <4>3. recentLsaIds[m] \subseteq recentLsaIds'[m]
        BY <1>3
      <4> QED BY <3>1, <3>2, <3>5, <4>1, <4>2, <4>3 DEF EntryOf
    <3> QED BY <3>4, <3>5
  <2> QED BY <2>2, <2>3
<1> QED BY <1>5, <1>6, <1>7, <1>8, <1>9, <1>10 DEF IInv

LEMMA BroadcastCovers ==
  ASSUME TypeOK, NEW o \in Origins, NEW id, Broadcasts(o, id), NEW d \in Channels,
         NEW x, Covers(wire[d], recentLsaIds[d[2]], x)
  PROVE  Covers(wire'[d], recentLsaIds'[d[2]], x)
<1>1. wire[d] \in Seq(LsaIds) /\ id \in LsaIds /\ recentLsaIds' = recentLsaIds
  BY DEF TypeOK, Broadcasts
<1>2. CASE d[1] = o
  <2>1. wire'[d] = Append(wire[d], id)
    BY <1>2 DEF Broadcasts
  <2> QED BY <1>1, <2>1, CoversAppend
<1>3. CASE d[1] # o
  BY <1>1, <1>3 DEF Broadcasts
<1> QED BY <1>2, <1>3

LEMMA BroadcastKeeps ==
  ASSUME IInv, TypeOK', NEW o \in Origins, NEW id, Broadcasts(o, id)
  PROVE  IInv'
<1> USE FloodingAssumption
<1>1. /\ TypeOK
      /\ id = <<o, sent[o] + 1>> /\ id \in LsaIds /\ id # NoLsa
      /\ recentLsaIds' = recentLsaIds
  BY DEF IInv, Broadcasts
<1>2. /\ \A p \in Origins : sent[p] \in Nat /\ sent[p] <= sent'[p]
      /\ \A p \in Origins : p # o => sent'[p] = sent[p]
      /\ sent'[o] = sent[o] + 1
  BY DEF IInv, TypeOK, Broadcasts
<1>3. \A d \in Channels : /\ wire[d] \in Seq(LsaIds)
                          /\ d[1] = o => wire'[d] = Append(wire[d], id)
                          /\ d[1] # o => wire'[d] = wire[d]
  BY <1>1 DEF TypeOK, Broadcasts
<1>4. \A x \in LsaIds : x[1] \in Origins /\ x[2] \in Nat /\ (IsSent(x) => IsSent(x)')
  <2> TAKE x \in LsaIds
  <2>1. x[1] \in Origins /\ x[2] \in 1 .. MaxSeq[x[1]] /\ MaxSeq[x[1]] \in Nat
    BY LsaIdFacts
  <2>2. sent[x[1]] \in Nat /\ sent'[x[1]] \in Nat /\ sent[x[1]] <= sent'[x[1]]
    BY <1>2, <2>1
  <2> QED BY <2>1, <2>2 DEF IsSent
<1>5. IsSent(id)'
  BY <1>1, <1>2 DEF IsSent
<1>6. Spread'
  BY <1>1, BroadcastCovers DEF IInv, Spread
<1>7. FromOrigin'
  <2> SUFFICES ASSUME NEW p \in Origins, NEW w \in 1 .. sent'[p], NEW d \in Channels, d[1] = p
               PROVE  Covers(wire'[d], recentLsaIds'[d[2]], <<p, w>>)
    BY DEF FromOrigin
  <2>1. CASE w \in 1 .. sent[p]
    BY <1>1, <2>1, BroadcastCovers DEF IInv, FromOrigin
  <2>2. CASE w \notin 1 .. sent[p]
    <3>1. p = o /\ w = sent[o] + 1
      BY <1>2, <2>2
    <3>2. wire'[d] = Append(wire[d], id) /\ <<p, w>> = id
      BY <1>1, <1>3, <3>1
    <3>3. Covers(Append(wire[d], id), recentLsaIds'[d[2]], id)
      BY <1>1, <1>3, CoversAppend
    <3> QED BY <3>2, <3>3
  <2> QED BY <2>1, <2>2
<1>8. InOrder'
  <2> SUFFICES ASSUME NEW d \in Channels
               PROVE  OrderedAt(wire'[d], recentLsaIds[d[2]])
    BY <1>1 DEF InOrder
  <2>1. OrderedAt(wire[d], recentLsaIds[d[2]])
    BY DEF IInv, InOrder
  <2>2. CASE d[1] = o
    <3>1. \A u \in 1 .. id[2] - 1 : Covers(wire[d], recentLsaIds[d[2]], <<id[1], u>>)
      BY <1>1, <1>2, <2>2 DEF IInv, FromOrigin
    <3>2. wire'[d] = Append(wire[d], id)
      BY <1>3, <2>2
    <3> QED BY <1>1, <1>3, <2>1, <3>1, <3>2, OrderedAppend
  <2>3. CASE d[1] # o
    BY <1>3, <2>1, <2>3
  <2> QED BY <2>2, <2>3
<1>9. NoGaps'
  BY <1>1 DEF IInv, NoGaps
<1>10. SentOnly'
  <2>1. ASSUME NEW m \in Nodes, NEW x \in recentLsaIds[m] PROVE IsSent(x)'
    BY <1>1, <1>4 DEF IInv, SentOnly, TypeOK
  <2>2. ASSUME NEW d \in Channels, NEW i \in 1 .. Len(wire'[d])
        PROVE  wire'[d][i][2] <= sent'[wire'[d][i][1]]
    <3>1. \A j \in 1 .. Len(wire[d]) : wire[d][j] \in LsaIds /\ IsSent(wire[d][j])
      BY <1>3 DEF IInv, SentOnly
    <3>2. CASE wire'[d] = Append(wire[d], id)
      <4>1. i \in 1 .. Len(wire[d]) \/ i = Len(wire[d]) + 1
        BY <1>1, <1>3, <3>2, AppendFacts
      <4>2. wire'[d][i] = id \/ (i \in 1 .. Len(wire[d]) /\ wire'[d][i] = wire[d][i])
        BY <1>1, <1>3, <3>2, <4>1, AppendFacts
      <4> QED BY <1>4, <1>5, <3>1, <4>2 DEF IsSent
    <3>3. CASE wire'[d] = wire[d]
      BY <1>4, <3>1, <3>3 DEF IsSent
    <3> QED BY <1>3, <3>2, <3>3
  <2> QED BY <1>1, <2>1, <2>2 DEF SentOnly, IsSent
<1>11. Newest'
  <2> SUFFICES ASSUME NEW m \in Nodes, NEW l \in Monitored
               PROVE  EntryOf(m, l, linkStatusMap[m][l])'
    BY DEF Newest
  <2>1. linkStatusMap'[m][l] = IF m = o /\ o \in l THEN id ELSE linkStatusMap[m][l]
    BY DEF Broadcasts
  <2>2. CASE m = o /\ o \in l
    <3>1. linkStatusMap'[m][l] = id
      BY <2>1, <2>2
    <3>2. \A w \in 1 .. MaxSeq[o] : <<o, w>> \in recentLsaIds[m] => w <= sent[o]
      BY <1>1 DEF IInv, SentOnly, IsSent
    <3>3. \A w \in 1 .. MaxSeq[id[1]] : <<id[1], w>> \in recentLsaIds'[m] => w <= id[2]
      BY <1>1, <1>2, <3>2
    <3> QED BY <1>1, <1>5, <2>2, <3>1, <3>3 DEF EntryOf
  <2>3. CASE ~ (m = o /\ o \in l)
    <3> DEFINE e == linkStatusMap[m][l]
    <3>1. linkStatusMap'[m][l] = e /\ EntryOf(m, l, e)
      BY <2>1, <2>3 DEF IInv, Newest
    <3>2. e \in LsaIds \cup {NoLsa}
      BY <1>1 DEF TypeOK
    <3>3. CASE e = NoLsa
      <4>1. \A p \in l \cap Origins : m = p => sent'[p] = 0
        BY <1>2, <2>3, <3>1, <3>3 DEF EntryOf
      <4> QED BY <1>1, <3>1, <3>3, <4>1 DEF EntryOf
    <3>4. CASE e # NoLsa
      <4>1. IsSent(e)'
        BY <1>4, <3>1, <3>2, <3>4 DEF EntryOf
      <4> QED BY <1>1, <3>1, <3>4, <4>1 DEF EntryOf
    <3> QED BY <3>3, <3>4
  <2> QED BY <2>2, <2>3
<1> QED BY <1>6, <1>7, <1>8, <1>9, <1>10, <1>11 DEF IInv

LEMMA GetsAgainKeeps ==
  ASSUME IInv, TypeOK', NEW c \in Channels, NEW n, NEW id, GetsAgain(c, n, id)
  PROVE  IInv'
<1>1. /\ wire[c] # <<>> /\ id = Head(wire[c]) /\ n = c[2] /\ id \in recentLsaIds[n]
      /\ sent' = sent /\ recentLsaIds' = recentLsaIds /\ linkStatusMap' = linkStatusMap
      /\ wire'[c] = Tail(wire[c])
      /\ \A d \in Channels : d # c => wire'[d] = wire[d]
      /\ \A d \in Channels : wire[d] \in Seq(LsaIds)
  BY DEF IInv, TypeOK, GetsAgain, Gets
<1>2. ASSUME NEW d \in Channels, NEW x, Covers(wire[d], recentLsaIds[d[2]], x)
      PROVE  Covers(wire'[d], recentLsaIds[d[2]], x)
  <2>1. CASE d = c
    BY <1>1, <1>2, <2>1, CoversTail
  <2>2. CASE d # c
    BY <1>1, <1>2, <2>2
  <2> QED BY <2>1, <2>2
<1>3. Spread' /\ FromOrigin'
  BY <1>1, <1>2 DEF IInv, Spread, FromOrigin
<1>4. InOrder'
  <2> SUFFICES ASSUME NEW d \in Channels
               PROVE  OrderedAt(wire'[d], recentLsaIds[d[2]])
    BY <1>1 DEF InOrder
  <2>1. OrderedAt(wire[d], recentLsaIds[d[2]])
    BY DEF IInv, InOrder
  <2>2. CASE d = c
    BY <1>1, <2>1, <2>2, OrderedTail
  <2>3. CASE d # c
    BY <1>1, <2>1, <2>3
  <2> QED BY <2>2, <2>3
<1>5. NoGaps' /\ Newest'
  BY <1>1 DEF IInv, NoGaps, Newest, EntryOf, IsSent
<1>6. SentOnly'
  <2>1. ASSUME NEW d \in Channels, NEW i \in 1 .. Len(wire'[d]) PROVE IsSent(wire'[d][i])
    <3>0. \A j \in 1 .. Len(wire[d]) : IsSent(wire[d][j])
      BY DEF IInv, SentOnly
    <3>1. CASE d = c
      <4>1. wire'[d] = Tail(wire[d]) /\ wire[d] # <<>> /\ wire[d] \in Seq(LsaIds)
        BY <1>1, <3>1
      <4>2. i + 1 \in 1 .. Len(wire[d]) /\ wire'[d][i] = wire[d][i + 1]
        BY <4>1, TailFacts
      <4> QED BY <3>0, <4>2
    <3>2. CASE d # c
      BY <1>1, <3>0, <3>2
    <3> QED BY <3>1, <3>2
  <2> QED BY <1>1, <2>1 DEF IInv, SentOnly, IsSent
<1> QED BY <1>3, <1>4, <1>5, <1>6 DEF IInv

LEMMA InitIInv == Init => IInv
<1> SUFFICES ASSUME Init PROVE IInv
  OBVIOUS
<1>1. TypeOK
  BY InitTypeOK
<1>2. \A c \in Channels : wire[c] = <<>> /\ Len(wire[c]) = 0
  BY DEF Init
<1>3. (\A n \in Nodes : recentLsaIds[n] = {}) /\ (\A o \in Origins : sent[o] = 0)
  BY DEF Init
<1>4. Spread /\ FromOrigin
  BY <1>3, ChannelFacts DEF Spread, FromOrigin
<1>5. InOrder /\ NoGaps /\ SentOnly
  BY <1>2, <1>3 DEF InOrder, OrderedAt, NoGaps, SentOnly
<1>6. Newest
  BY <1>3 DEF Init, Newest, EntryOf
<1> QED BY <1>1, <1>4, <1>5, <1>6 DEF IInv

LEMMA NextIInv == ~Lossy /\ IInv /\ [Next]_vars => IInv'
<1> SUFFICES ASSUME ~Lossy, IInv, [Next]_vars PROVE IInv'
  OBVIOUS
<1>1. TypeOK /\ TypeOK'
  BY NextTypeOK DEF IInv
<1>2. ASSUME NEW o \in Origins, broadcastingLsaTask(o) PROVE IInv'
  BY <1>1, <1>2, BroadcastFacts, BroadcastKeeps
<1>3. ASSUME NEW c \in Channels, onReceiveLsa(c) PROVE IInv'
  BY <1>1, <1>3, ReceiveFacts, GetsNewKeeps, GetsAgainKeeps
<1>4. ASSUME NEW c \in Channels, LoseLsa(c) PROVE IInv'
  BY <1>4 DEF LoseLsa
<1>5. ASSUME UNCHANGED vars PROVE IInv'
  <2>1. sent' = sent /\ recentLsaIds' = recentLsaIds /\ linkStatusMap' = linkStatusMap
        /\ wire' = wire
    BY <1>5 DEF vars
  <2> QED BY <1>1, <2>1 DEF IInv, Spread, FromOrigin, InOrder, NoGaps, SentOnly, Newest,
                            EntryOf, IsSent
<1> QED BY <1>2, <1>3, <1>4, <1>5 DEF Next

LEMMA Inductive == ~Lossy => (Spec => []IInv)
<1>1. ~Lossy /\ IInv /\ [Next]_vars => IInv'
  BY NextIInv
<1>2. Init => IInv
  BY InitIInv
<1>3. ASSUME ~Lossy PROVE Spec => []IInv
  <2>1. IInv /\ [Next]_vars => IInv'
    BY <1>1, <1>3
  <2> QED BY <1>2, <2>1, PTL DEF Spec
<1> QED BY <1>3

-----------------------------------------------------------------------------
(* What follows from the invariant. *)

LEMMA QuietSpreads ==
  ASSUME IInv, Quiet, NEW o \in Origins, NEW v \in 1 .. sent[o], NEW n \in Nodes
  PROVE  <<o, v>> \in recentLsaIds[n]
<1> DEFINE id == <<o, v>>
           S  == {m \in Nodes : id \in recentLsaIds[m]}
<1>1. \A c \in Channels : \A R, x : Covers(wire[c], R, x) => x \in R
  <2>1. \A c \in Channels : Len(wire[c]) = 0
    BY DEF Quiet
  <2> QED BY <2>1 DEF Covers
<1>2. \A c \in Channels : c[1] \in S => c[2] \in S
  BY <1>1, ChannelFacts DEF IInv, Spread
<1>3. S # {}
  <2>1. o \in Nodes
    BY FloodingAssumption
  <2>2. PICK c \in Channels : c[1] = o
    BY <2>1, Connected
  <2>3. c[2] \in S
    BY <1>1, <2>2, ChannelFacts DEF IInv, FromOrigin
  <2> QED BY <2>3
<1>4. S = Nodes
  <2> HIDE DEF S
  <2>1. S \in SUBSET Nodes
    BY DEF S
  <2> QED BY <1>2, <1>3, <2>1, Connected
<1> QED BY <1>4

LEMMA QuietIsCurrent == ~Lossy /\ IInv => QuietMeansCurrent
<1> SUFFICES ASSUME IInv, Quiet, NEW n \in Nodes
             PROVE  /\ \A o \in Origins : \A v \in 1 .. sent[o] : <<o, v>> \in recentLsaIds[n]
                    /\ \A l \in Monitored :
                         \/ \E o \in l \cap Origins :
                              sent[o] > 0 /\ linkStatusMap[n][l] = <<o, sent[o]>>
                         \/ linkStatusMap[n][l] = NoLsa /\ \A o \in l \cap Origins : sent[o] = 0
  BY DEF QuietMeansCurrent
<1>1. \A o \in Origins : \A v \in 1 .. sent[o] : <<o, v>> \in recentLsaIds[n]
  BY QuietSpreads
<1>2. \A o \in Origins : sent[o] \in Nat /\ MaxSeq[o] \in Nat /\ sent[o] <= MaxSeq[o]
  BY FloodingAssumption DEF IInv, TypeOK
<1>3. ASSUME NEW l \in Monitored
      PROVE  \/ \E o \in l \cap Origins :
                  sent[o] > 0 /\ linkStatusMap[n][l] = <<o, sent[o]>>
             \/ linkStatusMap[n][l] = NoLsa /\ \A o \in l \cap Origins : sent[o] = 0
  <2> DEFINE e == linkStatusMap[n][l]
  <2>1. EntryOf(n, l, e) /\ e \in LsaIds \cup {NoLsa}
    BY DEF IInv, Newest, TypeOK
  <2>2. CASE e = NoLsa
    <3>1. ASSUME NEW o \in l \cap Origins PROVE sent[o] = 0
      <4>1. \A v \in 1 .. MaxSeq[o] : <<o, v>> \notin recentLsaIds[n]
        BY <2>1, <2>2 DEF EntryOf
      <4>2. sent[o] # 0 => 1 \in 1 .. sent[o] /\ 1 \in 1 .. MaxSeq[o]
        BY <1>2
      <4> QED BY <1>1, <4>1, <4>2
    <3> QED BY <2>2, <3>1
  <2>3. CASE e # NoLsa
    <3> DEFINE o == e[1]
    <3>1. /\ o \in l \cap Origins /\ e[2] \in 1 .. MaxSeq[o] /\ e = <<o, e[2]>>
          /\ e[2] <= sent[o]
          /\ \A v \in 1 .. MaxSeq[o] : <<o, v>> \in recentLsaIds[n] => v <= e[2]
      BY <2>1, <2>3, LsaIdFacts DEF EntryOf, IsSent
    <3> HIDE DEF o
    <3>2. sent[o] > 0 /\ sent[o] \in 1 .. MaxSeq[o]
      BY <1>2, <3>1
    <3>3. sent[o] <= e[2]
      <4>1. o \in Origins /\ sent[o] \in 1 .. sent[o]
        BY <1>2, <3>1, <3>2
      <4>2. <<o, sent[o]>> \in recentLsaIds[n]
        BY <1>1, <4>1
      <4> QED BY <3>1, <3>2, <4>2
    <3>4. e = <<o, sent[o]>>
      BY <1>2, <3>1, <3>3
    <3> QED BY <3>1, <3>2, <3>4
  <2> QED BY <2>2, <2>3
<1> QED BY <1>1, <1>3

\* If no message is lost, a quiet network is up to date: every node has seen
\* every LSA, and each entry of its linkStatusMap was written last by the newest
\* LSA of one end of the link, whatever the connected topology.
THEOREM QuietMeansCurrentCorrect == Spec => []QuietMeansCurrent
<1>1. CASE Lossy
  <2>1. QuietMeansCurrent
    BY <1>1 DEF QuietMeansCurrent
  <2> QED BY <2>1, PTL
<1>2. CASE ~Lossy
  <2>1. IInv => QuietMeansCurrent
    BY <1>2, QuietIsCurrent
  <2>2. Spec => []IInv
    BY <1>2, Inductive
  <2> QED BY <2>1, <2>2, PTL
<1> QED BY <1>1, <1>2

\* A step never overwrites an entry with an older LSA of the same origin, except
\* at that origin.
NewerOnly(n, l) ==
  LET was == linkStatusMap[n][l]
      now == linkStatusMap'[n][l]
  IN was # NoLsa /\ now # NoLsa /\ now[1] = was[1] /\ now[1] # n => now[2] >= was[2]

LEMMA StepNewerOnly ==
  ASSUME ~Lossy, IInv, Next, NEW n \in Nodes, NEW l \in Monitored
  PROVE  NewerOnly(n, l)
<1> DEFINE was == linkStatusMap[n][l]
           now == linkStatusMap'[n][l]
<1>0. TypeOK /\ EntryOf(n, l, was) /\ was \in LsaIds \cup {NoLsa}
  BY DEF IInv, Newest, TypeOK
<1>1. CASE now = was
  <2>1. was # NoLsa => was[2] \in Nat
    <3>1. was # NoLsa => was[1] \in Origins /\ was[2] \in 1 .. MaxSeq[was[1]]
      BY <1>0, LsaIdFacts
    <3> QED BY <3>1, FloodingAssumption
  <2> QED BY <1>1, <2>1 DEF NewerOnly
<1>2. ASSUME NEW o \in Origins, broadcastingLsaTask(o) PROVE NewerOnly(n, l)
  <2>1. Broadcasts(o, <<o, sent[o] + 1>>)
    BY <1>0, <1>2, BroadcastFacts
  <2>2. now = was \/ (n = o /\ now = <<o, sent[o] + 1>>)
    BY <2>1 DEF Broadcasts
  <2>3. CASE n = o /\ now = <<o, sent[o] + 1>>
    BY <2>3 DEF NewerOnly
  <2> QED BY <1>1, <2>2, <2>3
<1>3. ASSUME NEW c \in Channels, onReceiveLsa(c) PROVE NewerOnly(n, l)
  <2> DEFINE id == Head(wire[c])
  <2>1. GetsNew(c, c[2], id) \/ GetsAgain(c, c[2], id)
    BY <1>0, <1>3, ReceiveFacts
  <2>2. CASE GetsAgain(c, c[2], id)
    BY <1>1, <2>2 DEF GetsAgain
  <2>3. CASE GetsNew(c, c[2], id)
    <3>1. now = was \/ (n = c[2] /\ now = id)
      BY <2>3 DEF GetsNew
    <3>2. ASSUME n = c[2], now = id, was # NoLsa, now[1] = was[1], now[1] # n
          PROVE  now[2] >= was[2]
      <4>1. was[2] \in 1 .. MaxSeq[was[1]] /\ was = <<was[1], was[2]>> /\ was[1] \in Origins
        BY <1>0, <3>2, LsaIdFacts
      <4>2. was \in recentLsaIds[n]
        BY <1>0, <3>2 DEF EntryOf
      <4>3. was[2] < id[2] /\ id[2] \in 1 .. MaxSeq[id[1]] /\ id[1] \in Origins
        BY <2>3, <3>2, <4>1, <4>2, NextInOrder
      <4> QED BY <3>2, <4>1, <4>3, FloodingAssumption
    <3> QED BY <1>1, <3>1, <3>2 DEF NewerOnly
  <2> QED BY <2>1, <2>2, <2>3
<1>4. ASSUME NEW c \in Channels, LoseLsa(c) PROVE NewerOnly(n, l)
  BY <1>4 DEF LoseLsa
<1> QED BY <1>2, <1>3, <1>4 DEF Next

\* If no message is lost, no node but the origin has an entry overwritten by an
\* LSA older than the one of the same origin that wrote it.
THEOREM NoOlderOverwriteCorrect == Spec => NoOlderOverwrite
<1>1. CASE Lossy
  BY <1>1, PTL DEF NoOlderOverwrite
<1>2. CASE ~Lossy
  <2>1. IInv /\ [Next]_vars =>
          [\A n \in Nodes, l \in Monitored : NewerOnly(n, l)]_vars
    BY <1>2, StepNewerOnly
  <2>2. Spec => []IInv
    BY <1>2, Inductive
  <2>3. [\A n \in Nodes, l \in Monitored : NewerOnly(n, l)]_vars =>
        [~Lossy => \A n \in Nodes, l \in Monitored :
           LET was == linkStatusMap[n][l]
               now == linkStatusMap'[n][l]
           IN was # NoLsa /\ now # NoLsa /\ now[1] = was[1] /\ now[1] # n => now[2] >= was[2]]_vars
    BY DEF NewerOnly
  <2> QED BY <2>1, <2>2, <2>3, PTL DEF Spec, NoOlderOverwrite
<1> QED BY <1>1, <1>2

-----------------------------------------------------------------------------
(* How many copies of an LSA a channel holds. *)

\* The places of x in s.
Places(s, x) == {i \in 1 .. Len(s) : s[i] = x}

LEMMA PlacesFinite ==
  ASSUME NEW S, NEW s \in Seq(S), NEW x
  PROVE  IsFiniteSet(Places(s, x)) /\ Cardinality(Places(s, x)) \in Nat
<1>1. Len(s) \in Nat
  OBVIOUS
<1>2. IsFiniteSet(1 .. Len(s))
  BY <1>1, FS_Interval
<1>3. Places(s, x) \in SUBSET (1 .. Len(s))
  BY DEF Places
<1>4. IsFiniteSet(Places(s, x))
  BY <1>2, <1>3, FS_Subset
<1> QED BY <1>4, FS_CardinalityType

LEMMA PlacesAppend ==
  ASSUME NEW S, NEW s \in Seq(S), NEW y \in S, NEW x
  PROVE  Cardinality(Places(Append(s, y), x)) =
           Cardinality(Places(s, x)) + (IF x = y THEN 1 ELSE 0)
<1> DEFINE t == Append(s, y)
           n == Len(s)
           P == Places(s, x)
           Q == Places(t, x)
<1>1. /\ n \in Nat
      /\ Len(t) = n + 1
      /\ \A i \in 1 .. n : t[i] = s[i]
      /\ t[n + 1] = y
  BY AppendFacts
<1>2. Q = {i \in 1 .. Len(t) : t[i] = x} /\ P = {i \in 1 .. n : s[i] = x}
  BY DEF Places
<1>3. IsFiniteSet(P) /\ Cardinality(P) \in Nat
  BY PlacesFinite
<1> HIDE DEF t, n, P, Q
<1>4. CASE x = y
  <2>1. Q = P \cup {n + 1} /\ n + 1 \notin P
    BY <1>1, <1>2, <1>4
  <2>2. Cardinality(Q) = Cardinality(P) + 1
    BY <1>3, <2>1, FS_AddElement
  <2> QED BY <1>4, <2>2 DEF P, Q, t
<1>5. CASE x # y
  <2>1. Q = P
    BY <1>1, <1>2, <1>5
  <2> QED BY <1>3, <1>5, <2>1 DEF P, Q, t
<1> QED BY <1>4, <1>5

LEMMA PlacesTail ==
  ASSUME NEW S, NEW s \in Seq(S), s # <<>>, NEW x
  PROVE  Cardinality(Places(Tail(s), x)) <= Cardinality(Places(s, x))
<1> DEFINE t == Tail(s)
           n == Len(s)
           P == Places(s, x)
           Q == Places(t, x)
           next == [i \in Q |-> i + 1]
<1>1. /\ n \in Nat \ {0}
      /\ Len(t) = n - 1
      /\ \A i \in 1 .. n - 1 : t[i] = s[i + 1]
  BY TailFacts
<1>2. Q = {i \in 1 .. Len(t) : t[i] = x} /\ P = {i \in 1 .. n : s[i] = x}
  BY DEF Places
<1>3. IsFiniteSet(P)
  BY PlacesFinite
<1> HIDE DEF t, n, P, Q
<1>4. \A i \in Q : i \in Nat /\ i + 1 \in P
  BY <1>1, <1>2
<1>5. next \in Injection(Q, P)
  BY <1>4, Fun_IsInj
<1> HIDE DEF next
<1>6. Cardinality(Q) <= Cardinality(P)
  BY <1>3, <1>5, FS_Injection
<1> QED BY <1>6 DEF P, Q, t

\* How often node n has sent id on each of its channels: once when it drew the
\* id, and once when it saw it first.
TimesSent(n, id) ==
  (IF n = id[1] /\ IsSent(id) THEN 1 ELSE 0) + (IF id \in recentLsaIds[n] THEN 1 ELSE 0)

SentOnce == \A c \in Channels, id \in LsaIds : Copies(c, id) <= TimesSent(c[1], id)

LEMMA TimesSentFacts ==
  ASSUME TypeOK, NEW n, NEW id
  PROVE  /\ TimesSent(n, id) \in 0 .. 2
         /\ n # id[1] => TimesSent(n, id) \in 0 .. 1
BY DEF TimesSent

LEMMA CopiesFacts ==
  ASSUME TypeOK, NEW c \in Channels, NEW id
  PROVE  wire[c] \in Seq(LsaIds) /\ Copies(c, id) = Cardinality(Places(wire[c], id))
         /\ Copies(c, id) \in Nat
<1>1. wire[c] \in Seq(LsaIds)
  BY DEF TypeOK
<1>2. Copies(c, id) = Cardinality(Places(wire[c], id))
  BY DEF Copies, Places
<1> QED BY <1>1, <1>2, PlacesFinite

\* A step on one channel: what it appends it counts as sent.
LEMMA ChannelStep ==
  ASSUME TypeOK, TypeOK', NEW c \in Channels, NEW id \in LsaIds, NEW x \in LsaIds,
         Copies(c, id) <= TimesSent(c[1], id),
         \/ wire'[c] = wire[c] /\ TimesSent(c[1], id) <= TimesSent(c[1], id)'
         \/ wire[c] # <<>> /\ wire'[c] = Tail(wire[c])
            /\ TimesSent(c[1], id) <= TimesSent(c[1], id)'
         \/ wire'[c] = Append(wire[c], x)
            /\ TimesSent(c[1], id)' >= TimesSent(c[1], id) + (IF id = x THEN 1 ELSE 0)
  PROVE  Copies(c, id)' <= TimesSent(c[1], id)'
<1> DEFINE was == Cardinality(Places(wire[c], id))
           is  == Cardinality(Places(wire'[c], id))
           ts  == TimesSent(c[1], id)
           tn  == TimesSent(c[1], id)'
<1>1. wire[c] \in Seq(LsaIds) /\ Copies(c, id) = was /\ was \in Nat
  BY CopiesFacts
<1>2. wire'[c] \in Seq(LsaIds)
  BY DEF TypeOK
<1>3. Copies(c, id)' = is /\ is \in Nat
  <2>1. Copies(c, id)' = is
    BY DEF Copies, Places
  <2> QED BY <1>2, <2>1, PlacesFinite
<1>4. ts \in 0 .. 2 /\ tn \in 0 .. 2
  BY DEF TimesSent
<1>5. was <= ts
  BY <1>1
<1>6. CASE wire'[c] = wire[c] /\ ts <= tn
  <2>1. is = was
    BY <1>6
  <2> HIDE DEF was, is, ts, tn
  <2>2. is <= tn
    BY <1>1, <1>4, <1>5, <1>6, <2>1
  <2> QED BY <1>3, <2>2 DEF tn
<1>7. CASE wire[c] # <<>> /\ wire'[c] = Tail(wire[c]) /\ ts <= tn
  <2>1. is <= was
    BY <1>1, <1>7, PlacesTail
  <2> HIDE DEF was, is, ts, tn
  <2>2. is <= tn
    BY <1>1, <1>3, <1>4, <1>5, <1>7, <2>1
  <2> QED BY <1>3, <2>2 DEF tn
<1>8. CASE wire'[c] = Append(wire[c], x) /\ tn >= ts + (IF id = x THEN 1 ELSE 0)
  <2>1. is = was + (IF id = x THEN 1 ELSE 0)
    BY <1>1, <1>8, PlacesAppend
  <2> HIDE DEF was, is, ts, tn
  <2>2. is <= tn
    BY <1>1, <1>3, <1>4, <1>5, <1>8, <2>1
  <2> QED BY <1>3, <2>2 DEF tn
<1> QED BY <1>6, <1>7, <1>8

LEMMA InitSentOnce == Init => SentOnce
<1> SUFFICES ASSUME Init, NEW c \in Channels, NEW id \in LsaIds
             PROVE  Copies(c, id) <= TimesSent(c[1], id)
  BY DEF SentOnce
<1>1. TypeOK /\ wire[c] = <<>>
  BY InitTypeOK DEF Init
<1>2. {i \in 1 .. Len(wire[c]) : wire[c][i] = id} = {}
  BY <1>1
<1>3. Copies(c, id) = 0
  BY <1>2, FS_EmptySet DEF Copies
<1> QED BY <1>1, <1>3, TimesSentFacts

LEMMA BroadcastSentOnce ==
  ASSUME TypeOK, TypeOK', SentOnce, NEW o \in Origins, NEW x, Broadcasts(o, x),
         NEW c \in Channels, NEW id \in LsaIds
  PROVE  Copies(c, id)' <= TimesSent(c[1], id)'
<1>1. /\ x = <<o, sent[o] + 1>> /\ x \in LsaIds
      /\ sent' = [sent EXCEPT ![o] = sent[o] + 1]
      /\ recentLsaIds' = recentLsaIds
      /\ c[1] = o => wire'[c] = Append(wire[c], x)
      /\ c[1] # o => wire'[c] = wire[c]
  BY DEF Broadcasts
<1>2. /\ id[1] \in Origins /\ id[2] \in Nat /\ id = <<id[1], id[2]>>
      /\ \A p \in Origins : sent[p] \in Nat
      /\ \A p \in Origins : sent'[p] = IF p = o THEN sent[o] + 1 ELSE sent[p]
  BY <1>1, LsaIdFacts, FloodingAssumption DEF TypeOK
<1>3. /\ IsSent(id) => IsSent(id)'
      /\ id = x => ~IsSent(id) /\ IsSent(id)'
  BY <1>1, <1>2 DEF IsSent
<1>4. TimesSent(c[1], id) <= TimesSent(c[1], id)'
  BY <1>1, <1>3 DEF TimesSent
<1>5. c[1] = o /\ id = x => TimesSent(c[1], id)' >= TimesSent(c[1], id) + 1
  BY <1>1, <1>3 DEF TimesSent
<1>6. TimesSent(c[1], id) \in 0 .. 2 /\ TimesSent(c[1], id)' \in 0 .. 2
  BY DEF TimesSent
<1>7. Copies(c, id) <= TimesSent(c[1], id)
  BY DEF SentOnce
<1>8. CASE c[1] = o
  <2>1. TimesSent(c[1], id)' >= TimesSent(c[1], id) + (IF id = x THEN 1 ELSE 0)
    BY <1>4, <1>5, <1>6, <1>8
  <2> QED BY <1>1, <1>7, <1>8, <2>1, ChannelStep
<1>9. CASE c[1] # o
  BY <1>1, <1>4, <1>7, <1>9, ChannelStep
<1> QED BY <1>8, <1>9

LEMMA GetsNewSentOnce ==
  ASSUME TypeOK, TypeOK', SentOnce, NEW b \in Channels, NEW n, NEW x, GetsNew(b, n, x),
         NEW c \in Channels, NEW id \in LsaIds
  PROVE  Copies(c, id)' <= TimesSent(c[1], id)'
<1>1. /\ x \in LsaIds /\ n \in Nodes /\ c[1] \in Nodes /\ x \notin recentLsaIds[n]
      /\ sent' = sent
  BY ChannelFacts DEF GetsNew, Gets
<1>2. \A m \in Nodes : recentLsaIds'[m] = IF m = n THEN recentLsaIds[n] \cup {x}
                                                   ELSE recentLsaIds[m]
  BY DEF GetsNew
<1>3. IsSent(id)' = IsSent(id)
  BY <1>1 DEF IsSent
<1>4. TimesSent(c[1], id) <= TimesSent(c[1], id)'
  BY <1>1, <1>2, <1>3 DEF TimesSent
<1>5. c[1] = n /\ id = x => TimesSent(c[1], id)' >= TimesSent(c[1], id) + 1
  BY <1>1, <1>2, <1>3 DEF TimesSent
<1>6. TimesSent(c[1], id) \in 0 .. 2 /\ TimesSent(c[1], id)' \in 0 .. 2
  BY DEF TimesSent
<1>7. Copies(c, id) <= TimesSent(c[1], id)
  BY DEF SentOnce
<1>8. CASE c[1] = n /\ wire'[c] = Append(wire[c], x)
  <2>1. TimesSent(c[1], id)' >= TimesSent(c[1], id) + (IF id = x THEN 1 ELSE 0)
    BY <1>4, <1>5, <1>6, <1>8
  <2> QED BY <1>1, <1>7, <1>8, <2>1, ChannelStep
<1>9. CASE wire[c] # <<>> /\ wire'[c] = Tail(wire[c])
  BY <1>1, <1>4, <1>7, <1>9, ChannelStep
<1>10. CASE wire'[c] = wire[c]
  BY <1>1, <1>4, <1>7, <1>10, ChannelStep
<1> QED BY <1>8, <1>9, <1>10, GetsNewChannel

\* A step that at most takes the first LSA off channel b.
LEMMA TakeSentOnce ==
  ASSUME TypeOK, TypeOK', SentOnce, sent' = sent, recentLsaIds' = recentLsaIds,
         NEW b \in Channels, wire[b] # <<>>, wire'[b] = Tail(wire[b]),
         \A d \in Channels : d # b => wire'[d] = wire[d]
  PROVE  SentOnce'
<1> SUFFICES ASSUME NEW c \in Channels, NEW id \in LsaIds
             PROVE  Copies(c, id)' <= TimesSent(c[1], id)'
  BY DEF SentOnce
<1>1. TimesSent(c[1], id)' = TimesSent(c[1], id) /\ TimesSent(c[1], id) \in 0 .. 2
  BY DEF TimesSent, IsSent
<1>2. Copies(c, id) <= TimesSent(c[1], id)
  BY DEF SentOnce
<1>3. TimesSent(c[1], id) <= TimesSent(c[1], id)'
  BY <1>1
<1> QED BY <1>2, <1>3, ChannelStep

LEMMA NextSentOnce == TypeOK /\ SentOnce /\ [Next]_vars => SentOnce'
<1> SUFFICES ASSUME TypeOK, SentOnce, [Next]_vars PROVE SentOnce'
  OBVIOUS
<1>1. TypeOK'
  BY NextTypeOK
<1>2. ASSUME NEW o \in Origins, broadcastingLsaTask(o) PROVE SentOnce'
  <2>1. Broadcasts(o, <<o, sent[o] + 1>>)
    BY <1>2, BroadcastFacts
  <2> QED BY <1>1, <2>1, BroadcastSentOnce DEF SentOnce
<1>3. ASSUME NEW c \in Channels, onReceiveLsa(c) PROVE SentOnce'
  <2>1. CASE GetsNew(c, c[2], Head(wire[c]))
    BY <1>1, <2>1, GetsNewSentOnce DEF SentOnce
  <2>2. CASE GetsAgain(c, c[2], Head(wire[c]))
    <3>1. /\ wire[c] # <<>> /\ wire'[c] = Tail(wire[c]) /\ sent' = sent
          /\ recentLsaIds' = recentLsaIds
          /\ \A d \in Channels : d # c => wire'[d] = wire[d]
      BY <2>2 DEF GetsAgain, Gets
    <3> QED BY <1>1, <3>1, TakeSentOnce
  <2> QED BY <1>3, <2>1, <2>2, ReceiveFacts
<1>4. ASSUME NEW c \in Channels, LoseLsa(c) PROVE SentOnce'
  <2>1. /\ wire[c] # <<>> /\ wire'[c] = Tail(wire[c]) /\ sent' = sent
        /\ recentLsaIds' = recentLsaIds
        /\ \A d \in Channels : d # c => wire'[d] = wire[d]
    BY <1>4 DEF LoseLsa, TypeOK
  <2> QED BY <1>1, <2>1, TakeSentOnce
<1>5. ASSUME UNCHANGED vars PROVE SentOnce'
  <2>1. sent' = sent /\ recentLsaIds' = recentLsaIds /\ wire' = wire
    BY <1>5 DEF vars
  <2> QED BY <2>1 DEF SentOnce, Copies, TimesSent, IsSent
<1> QED BY <1>2, <1>3, <1>4, <1>5 DEF Next

LEMMA SentOnceIsNoStorm == TypeOK /\ SentOnce => NoStorm
<1> SUFFICES ASSUME TypeOK, SentOnce, NEW c \in Channels, NEW id \in LsaIds
             PROVE  Copies(c, id) <= IF c[1] = id[1] THEN 2 ELSE 1
  BY DEF NoStorm
<1>1. Copies(c, id) <= TimesSent(c[1], id) /\ Copies(c, id) \in Nat
  BY CopiesFacts DEF SentOnce
<1> QED BY <1>1, TimesSentFacts

\* Flooding does not multiply messages on any topology, whether messages are
\* lost or not: a node sends an LSA on a channel when it first sees it, and its
\* origin once more when it draws it, so no more copies are in flight.
THEOREM NoStormCorrect == Spec => []NoStorm
<1>1. Init => TypeOK /\ SentOnce
  BY InitTypeOK, InitSentOnce
<1>2. TypeOK /\ SentOnce /\ [Next]_vars => (TypeOK /\ SentOnce)'
  BY NextTypeOK, NextSentOnce
<1>3. TypeOK /\ SentOnce => NoStorm
  BY SentOnceIsNoStorm
<1> QED BY <1>1, <1>2, <1>3, PTL DEF Spec

-----------------------------------------------------------------------------
(* The refinement. *)

LEMMA InitRefines == Init => Broadcast!Init
<1> SUFFICES ASSUME Init PROVE Broadcast!Init
  OBVIOUS
<1>1. \A n \in Nodes, o \in Origins :
        {v \in 1 .. MaxSeq[o] : <<o, v>> \in recentLsaIds[n]} = {}
  BY DEF Init
<1>2. gotOf = [n \in Nodes |-> [o \in Origins |-> {}]]
  BY <1>1 DEF gotOf
<1> QED BY <1>2 DEF Init, Broadcast!Init

LEMMA SendRefines ==
  ASSUME IInv, NEW o \in Origins, broadcastingLsaTask(o)
  PROVE  Broadcast!Send(o)
<1>1. sent[o] < MaxSeq[o] /\ sent' = [sent EXCEPT ![o] = sent[o] + 1]
      /\ recentLsaIds' = recentLsaIds
  BY DEF broadcastingLsaTask
<1>2. gotOf' = gotOf
  BY <1>1 DEF gotOf
<1> QED BY <1>1, <1>2 DEF Broadcast!Send

LEMMA DeliverRefines ==
  ASSUME IInv, NEW c \in Channels, NEW id, GetsNew(c, c[2], id)
  PROVE  Broadcast!Deliver(c[2], id[1])
<1> DEFINE n == c[2]
           o == id[1]
           v == id[2]
           seen(m, p) == {w \in 1 .. MaxSeq[p] : <<p, w>> \in recentLsaIds[m]}
           seenNext(m, p) == {w \in 1 .. MaxSeq[p] : <<p, w>> \in recentLsaIds'[m]}
<1>1. /\ o \in Origins /\ v \in 1 .. MaxSeq[o] /\ id = <<o, v>> /\ v <= sent[o]
      /\ \A u \in 1 .. v - 1 : <<o, u>> \in recentLsaIds[n]
      /\ \A w \in 1 .. MaxSeq[o] : <<o, w>> \in recentLsaIds[n] => w < v
  BY NextInOrder DEF IsSent
<1>2. /\ n \in Nodes /\ sent' = sent
      /\ \A m \in Nodes : recentLsaIds'[m] = IF m = n THEN recentLsaIds[n] \cup {id}
                                                     ELSE recentLsaIds[m]
  BY ChannelFacts DEF GetsNew, Gets
<1>3. sent[o] \in Nat /\ MaxSeq[o] \in Nat /\ v \in 1 .. sent[o]
  BY <1>1, FloodingAssumption DEF IInv, TypeOK
<1> HIDE DEF n, o, v
<1>4. seen(n, o) = 1 .. v - 1
  <2>1. \A w \in seen(n, o) : w \in 1 .. v - 1
    BY <1>1
  <2>2. \A w \in 1 .. v - 1 : w \in seen(n, o)
    BY <1>1, <1>3
  <2> QED BY <2>1, <2>2
<1>5. seenNext(n, o) = 1 .. v
  <2>1. \A w \in seenNext(n, o) : w \in 1 .. v
    BY <1>1, <1>2
  <2>2. \A w \in 1 .. v : w \in seenNext(n, o)
    BY <1>1, <1>2, <1>3
  <2> QED BY <2>1, <2>2
<1>6. \A m \in Nodes, p \in Origins : ~ (m = n /\ p = o) => seenNext(m, p) = seen(m, p)
  BY <1>1, <1>2
<1>7. gotOf = [m \in Nodes |-> [p \in Origins |-> seen(m, p)]]
      /\ gotOf' = [m \in Nodes |-> [p \in Origins |-> seenNext(m, p)]]
  BY DEF gotOf
<1> HIDE DEF seen, seenNext
<1>8. gotOf' = [gotOf EXCEPT ![n] = [gotOf[n] EXCEPT ![o] = 1 .. v]]
  BY <1>1, <1>2, <1>5, <1>6, <1>7
<1>9. gotOf[n][o] = 1 .. v - 1
  BY <1>1, <1>2, <1>4, <1>7
<1> QED BY <1>2, <1>3, <1>8, <1>9 DEF Broadcast!Deliver, n, o

LEMMA NextRefines ==
  ASSUME ~Lossy, IInv, [Next]_vars
  PROVE  [Broadcast!Next]_(Broadcast!vars)
<1>0. TypeOK
  BY DEF IInv
<1>1. ASSUME NEW o \in Origins, broadcastingLsaTask(o) PROVE Broadcast!Next
  BY <1>1, SendRefines DEF Broadcast!Next
<1>2. ASSUME NEW c \in Channels, onReceiveLsa(c)
      PROVE  Broadcast!Next \/ UNCHANGED Broadcast!vars
  <2> DEFINE id == Head(wire[c])
  <2>1. CASE GetsNew(c, c[2], id)
    <3>1. id[1] \in Origins /\ c[2] \in Nodes
      BY <2>1, NextInOrder, ChannelFacts
    <3>2. Broadcast!Deliver(c[2], id[1])
      BY <2>1, DeliverRefines
    <3> QED BY <3>1, <3>2 DEF Broadcast!Next
  <2>2. CASE GetsAgain(c, c[2], id)
    <3>1. sent' = sent /\ recentLsaIds' = recentLsaIds
      BY <2>2 DEF GetsAgain, Gets
    <3> QED BY <3>1 DEF Broadcast!vars, gotOf
  <2> QED BY <1>0, <1>2, <2>1, <2>2, ReceiveFacts
<1>3. ASSUME NEW c \in Channels, LoseLsa(c) PROVE FALSE
  BY <1>3 DEF LoseLsa
<1>4. ASSUME UNCHANGED vars PROVE UNCHANGED Broadcast!vars
  BY <1>4 DEF vars, Broadcast!vars, gotOf
<1> QED BY <1>1, <1>2, <1>3, <1>4 DEF Next

\* If no message is lost, flooding over any connected topology is an ordered
\* broadcast: every node gets the LSAs of an origin one after the other, none
\* twice.  (That it gets all of them in the end is left to the runs.)
THEOREM FloodingIsOrderedBroadcast == ~Lossy => (Spec => Broadcast!Spec)
<1> SUFFICES ASSUME ~Lossy PROVE Spec => Broadcast!Spec
  OBVIOUS
<1>1. Spec => []IInv
  BY Inductive
<1>2. Init => Broadcast!Init
  BY InitRefines
<1>3. IInv /\ [Next]_vars => [Broadcast!Next]_(Broadcast!vars)
  BY NextRefines
<1> QED BY <1>1, <1>2, <1>3, PTL DEF Spec, Broadcast!Spec
=============================================================================
