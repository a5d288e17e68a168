------------------------ MODULE ResequenceQueueProofs ------------------------
(***************************************************************************)
(* Proofs about the resequence queue: that its two queues agree, that no   *)
(* Capsule is handed on twice or forgotten, that none stays overdue, that  *)
(* Capsules are handed on in order if all are punctual, and that no timer  *)
(* is set for the past.                                                    *)
(*                                                                         *)
(* A step moves a Capsule from the wire to the queues or to the            *)
(* application and then the first few Capsules of q_seq to the             *)
(* application.  So the invariant is about any queues and any sequence of  *)
(* Capsules handed on (Sound), and each of these moves keeps it.           *)
(***************************************************************************)
EXTENDS ResequenceQueue, FiniteSetTheorems, SequenceTheorems, TLAPS

Rising(s)   == \A i, j \in 1 .. Len(s) : i < j => s[i] < s[j]
Distinct(s) == \A i, j \in 1 .. Len(s) : s[i] = s[j] => i = j
Queued(tq, id) == \E j \in 1 .. Len(tq) : tq[j].id = id

Capsules == [id : Ids, at : Times]

\* Queues s and tq, the id last and what was handed on before.
Sound(s, tq, last, out) ==
  /\ s \in Seq(Ids) /\ tq \in Seq(Capsules) /\ out \in Seq(Ids)
  /\ Rising(s)
  /\ Distinct(out)
  /\ \A id \in Ids : Occurs(s, id) => Queued(tq, id) /\ ~Occurs(out, id)
  /\ \A id \in Ids : Queued(tq, id) => Occurs(s, id) \/ Occurs(out, id)
  /\ IF out = <<>> THEN last = -1 /\ s = <<>> ELSE last = out[Len(out)]

\* The arrivals tq are in the order of time, none after t.
Timely(tq, t) ==
  /\ \A i, j \in 1 .. Len(tq) : i <= j => tq[i].at <= tq[j].at
  /\ \A i \in 1 .. Len(tq) : tq[i].at <= t

\* What has been handed on is in order, and what is queued comes after it.
Ahead(s, last, out) == Rising(out) /\ \A id \in Ids : Occurs(s, id) => id > last

\* Capsule c, on the wire at time t, comes after all that was handed on, or it
\* will be late.
WillBeFine(c, last, out, t) ==
  \/ c.id > last
  \/ t - c.at >= MaxWait
  \/ out # <<>> /\ c.id < out[1]

\* The queues, the Capsules w still under way and what was sent so far.
Held(s, tq, last, out, w) ==
  /\ Sound(s, tq, last, out)
  /\ Timely(tq, now)
  /\ \A c \in w : ~Occurs(s, c.id) /\ ~Occurs(out, c.id)
  /\ \A c \in w : \A j \in 1 .. Len(tq) : c.id < tq[j].id => c.at <= tq[j].at
  /\ \A j \in 1 .. Len(tq) : tq[j].id < sent
  /\ \A i \in 1 .. Len(out) : out[i] < sent

HeldInOrder(s, last, out, w) ==
  Ahead(s, last, out) /\ \A c \in w : WillBeFine(c, last, out, now)

\* A Capsule is on the wire once, and has been sent.
OnWire ==
  /\ \A c \in wire : c.id < sent /\ c.at <= now
  /\ \A c, d \in wire : c.id = d.id => c = d

\* No timer is due in the past.
TimersAhead == \A t \in timers : t >= now

TypeOK ==
  /\ now \in Times
  /\ sent \in 0 .. MaxId + 1
  /\ wire \in SUBSET Capsules
  /\ q_seq \in Seq(Ids)
  /\ q_time \in Seq(Capsules)
  /\ timers \in SUBSET Nat
  /\ lastDataId \in Ids \cup {-1}
  /\ delivered \in Seq(Ids)
  /\ punctual \in BOOLEAN

IInv ==
  /\ TypeOK
  /\ Held(q_seq, q_time, lastDataId, delivered, wire)
  /\ Len(q_seq) <= Size
  /\ OnWire
  /\ TimersAhead
  /\ punctual => HeldInOrder(q_seq, lastDataId, delivered, wire)

-----------------------------------------------------------------------------
(* The greatest number of a set, and leading. *)

LEMMA MaxFacts ==
  ASSUME NEW a \in Int, NEW b \in Int, NEW T \in SUBSET (a .. b), T # {}
  PROVE  Max(T) \in T /\ \A y \in T : y <= Max(T)
<1> DEFINE above(y) == y + 1 .. b
           G == {above(y) : y \in T}
           R == StrictSubsetOrdering(Int)
<1>1. T \subseteq Int
  OBVIOUS
<1>2. G \subseteq FiniteSubsetsOf(Int) /\ G # {}
  <2>1. \A y \in T : above(y) \in SUBSET Int /\ IsFiniteSet(above(y))
    BY <1>1, FS_Interval
  <2> QED BY <2>1 DEF FiniteSubsetsOf
<1>3. IsWellFoundedOn(R, FiniteSubsetsOf(Int))
  BY FS_StrictSubsetOrderingWellFounded
<1> HIDE DEF G, R
<1>4. PICK g \in G : \A h \in G : ~ (<<h, g>> \in R)
  BY <1>2, <1>3, WFMin
<1>5. PICK x \in T : g = above(x)
  BY <1>4 DEF G
<1>6. ASSUME NEW y \in T, x < y PROVE FALSE
  <2>1. above(y) \in SUBSET Int /\ above(x) \in SUBSET Int /\ above(y) \in G
    BY <1>1 DEF G
  <2>2. above(y) \subseteq above(x)
    BY <1>1, <1>6
  <2>3. y \in above(x) /\ y \notin above(y)
    BY <1>1, <1>6
  <2> HIDE DEF above
  <2>4. <<above(y), above(x)>> \in R
    BY <2>1, <2>2, <2>3 DEF R, StrictSubsetOrdering
  <2> QED BY <1>4, <1>5, <2>1, <2>4
<1>7. \A y \in T : x >= y
  BY <1>1, <1>6
<1>8. Max(T) \in T /\ \A y \in T : Max(T) >= y
  BY <1>7 DEF Max
<1> QED BY <1>1, <1>8

LEMMA LeadingFacts ==
  ASSUME NEW n \in Nat, NEW B
  PROVE  /\ leading(n, B) \in 0 .. n
         /\ \A i \in 1 .. leading(n, B) : i \in B
         /\ leading(n, B) < n => leading(n, B) + 1 \notin B
<1> DEFINE T == {k \in 0 .. n : 1 .. k \subseteq B}
           k == leading(n, B)
<1>1. T \in SUBSET (0 .. n) /\ 0 \in T
  OBVIOUS
<1>2. k = Max(T)
  BY DEF leading
<1> HIDE DEF T, k
<1>3. k \in T /\ \A y \in T : y <= k
  <2>1. 0 \in Int /\ n \in Int /\ T # {}
    BY <1>1
  <2>2. Max(T) \in T /\ \A y \in T : y <= Max(T)
    BY <1>1, <2>1, MaxFacts
  <2> QED BY <1>2, <2>2
<1>4. k \in 0 .. n /\ 1 .. k \subseteq B
  BY <1>3 DEF T
<1>5. ASSUME k < n, k + 1 \in B PROVE FALSE
  <2>1. k + 1 \in 0 .. n /\ 1 .. k + 1 \subseteq B
    BY <1>4, <1>5
  <2>2. k + 1 \in T
    BY <2>1 DEF T
  <2> QED BY <1>3, <1>4, <2>2
<1> QED BY <1>4, <1>5 DEF k

(* Parts of a sequence. *)

LEMMA PrefixFacts ==
  ASSUME NEW S, NEW s \in Seq(S), NEW p \in 0 .. Len(s)
  PROVE  /\ Prefix(s, p) \in Seq(S)
         /\ Len(Prefix(s, p)) = p
         /\ \A i \in 1 .. p : Prefix(s, p)[i] = s[i]
<1>1. Len(s) \in Nat /\ \A i \in 1 .. Len(s) : s[i] \in S
  OBVIOUS
<1>2. \A i \in 1 .. p : s[i] \in S
  BY <1>1
<1>3. /\ SubSeq(s, 1, p) \in Seq(S)
      /\ Len(SubSeq(s, 1, p)) = IF 1 <= p THEN p - 1 + 1 ELSE 0
      /\ \A i \in 1 .. p - 1 + 1 : SubSeq(s, 1, p)[i] = s[1 + i - 1]
  BY <1>1, <1>2, SubSeqProperties
<1> QED BY <1>1, <1>3 DEF Prefix

LEMMA BeyondFacts ==
  ASSUME NEW S, NEW s \in Seq(S), NEW p \in 0 .. Len(s)
  PROVE  /\ Beyond(s, p) \in Seq(S)
         /\ Len(Beyond(s, p)) = Len(s) - p
         /\ \A i \in 1 .. Len(s) - p : Beyond(s, p)[i] = s[i + p]
<1>1. Len(s) \in Nat /\ \A i \in 1 .. Len(s) : s[i] \in S
  OBVIOUS
<1>2. \A i \in p + 1 .. Len(s) : s[i] \in S
  BY <1>1
<1>3. /\ SubSeq(s, p + 1, Len(s)) \in Seq(S)
      /\ Len(SubSeq(s, p + 1, Len(s))) = IF p + 1 <= Len(s) THEN Len(s) - (p + 1) + 1 ELSE 0
      /\ \A i \in 1 .. Len(s) - (p + 1) + 1 : SubSeq(s, p + 1, Len(s))[i] = s[p + 1 + i - 1]
  BY <1>1, <1>2, SubSeqProperties
<1>4. \A i \in 1 .. Len(s) - p : p + 1 + i - 1 = i + p
  BY <1>1
<1> QED BY <1>1, <1>3, <1>4 DEF Beyond

LEMMA BeyondBeyond ==
  ASSUME NEW S, NEW s \in Seq(S), NEW p \in 0 .. Len(s), NEW m \in 0 .. Len(s) - p
  PROVE  Beyond(Beyond(s, p), m) = Beyond(s, p + m)
<1> DEFINE t == Beyond(s, p)
           u == Beyond(t, m)
           v == Beyond(s, p + m)
<1>0. Len(s) \in Nat
  OBVIOUS
<1>1. t \in Seq(S) /\ Len(t) = Len(s) - p /\ \A i \in 1 .. Len(s) - p : t[i] = s[i + p]
  BY BeyondFacts
<1>2. m \in 0 .. Len(t) /\ p + m \in 0 .. Len(s)
  BY <1>0, <1>1
<1> HIDE DEF t
<1>3. u \in Seq(S) /\ Len(u) = Len(t) - m /\ \A i \in 1 .. Len(t) - m : u[i] = t[i + m]
  BY <1>1, <1>2, BeyondFacts
<1>4. v \in Seq(S) /\ Len(v) = Len(s) - (p + m)
      /\ \A i \in 1 .. Len(s) - (p + m) : v[i] = s[i + (p + m)]
  BY <1>2, BeyondFacts
<1> HIDE DEF u, v
<1>5. Len(u) = Len(v)
  BY <1>0, <1>1, <1>3, <1>4
<1>6. ASSUME NEW i \in 1 .. Len(u) PROVE u[i] = v[i]
  <2>1. i + m \in 1 .. Len(s) - p /\ (i + m) + p = i + (p + m) /\ i \in 1 .. Len(t) - m
        /\ i \in 1 .. Len(s) - (p + m)
    BY <1>0, <1>1, <1>3
  <2> QED BY <1>1, <1>3, <1>4, <2>1
<1>7. u = v
  BY <1>3, <1>4, <1>5, <1>6, SeqEqual
<1> QED BY <1>7 DEF t, u, v

LEMMA ConcatFacts ==
  ASSUME NEW S, NEW s \in Seq(S), NEW t \in Seq(S)
  PROVE  /\ s \o t \in Seq(S)
         /\ Len(s \o t) = Len(s) + Len(t)
         /\ \A i \in 1 .. Len(s) : (s \o t)[i] = s[i]
         /\ \A i \in 1 .. Len(t) : (s \o t)[Len(s) + i] = t[i]
         /\ \A i \in 1 .. Len(s) + Len(t) : i > Len(s) =>
              i - Len(s) \in 1 .. Len(t) /\ (s \o t)[i] = t[i - Len(s)]
<1>1. Len(s) \in Nat /\ Len(t) \in Nat
  OBVIOUS
<1>2. s \o t \in Seq(S) /\ Len(s \o t) = Len(s) + Len(t)
      /\ \A i \in 1 .. Len(s) + Len(t) : (s \o t)[i] = IF i <= Len(s) THEN s[i] ELSE t[i - Len(s)]
  BY ConcatProperties
<1> QED BY <1>1, <1>2

(* What occurs in a sequence, and in which order. *)

LEMMA OccursConcat ==
  ASSUME NEW S, NEW s \in Seq(S), NEW t \in Seq(S), NEW x
  PROVE  Occurs(s \o t, x) <=> Occurs(s, x) \/ Occurs(t, x)
<1> DEFINE u == s \o t
<1>1. /\ Len(s) \in Nat /\ Len(t) \in Nat
      /\ Len(u) = Len(s) + Len(t)
      /\ \A i \in 1 .. Len(s) : u[i] = s[i]
      /\ \A i \in 1 .. Len(t) : u[Len(s) + i] = t[i]
      /\ \A i \in 1 .. Len(s) + Len(t) : i > Len(s) =>
           i - Len(s) \in 1 .. Len(t) /\ u[i] = t[i - Len(s)]
  BY ConcatFacts
<1> HIDE DEF u
<1>2. ASSUME Occurs(u, x) PROVE Occurs(s, x) \/ Occurs(t, x)
  <2>1. PICK i \in 1 .. Len(u) : u[i] = x
    BY <1>2 DEF Occurs
  <2>2. CASE i <= Len(s)
    BY <1>1, <2>1, <2>2 DEF Occurs
  <2>3. CASE i > Len(s)
    BY <1>1, <2>1, <2>3 DEF Occurs
  <2> QED BY <1>1, <2>2, <2>3
<1>3. ASSUME Occurs(s, x) PROVE Occurs(u, x)
  <2>1. PICK i \in 1 .. Len(s) : s[i] = x
    BY <1>3 DEF Occurs
  <2>2. i \in 1 .. Len(u) /\ u[i] = x
    BY <1>1, <2>1
  <2> QED BY <2>2 DEF Occurs
<1>4. ASSUME Occurs(t, x) PROVE Occurs(u, x)
  <2>1. PICK i \in 1 .. Len(t) : t[i] = x
    BY <1>4 DEF Occurs
  <2>2. Len(s) + i \in 1 .. Len(u) /\ u[Len(s) + i] = x
    BY <1>1, <2>1
  <2> QED BY <2>2 DEF Occurs
<1> QED BY <1>2, <1>3, <1>4 DEF u

LEMMA OccursSplit ==
  ASSUME NEW S, NEW s \in Seq(S), NEW p \in 0 .. Len(s), NEW x
  PROVE  Occurs(s, x) <=> Occurs(Prefix(s, p), x) \/ Occurs(Beyond(s, p), x)
<1> DEFINE a == Prefix(s, p)
           b == Beyond(s, p)
<1>1. /\ Len(s) \in Nat
      /\ Len(a) = p /\ \A i \in 1 .. p : a[i] = s[i]
      /\ Len(b) = Len(s) - p /\ \A i \in 1 .. Len(s) - p : b[i] = s[i + p]
  BY PrefixFacts, BeyondFacts
<1> HIDE DEF a, b
<1>2. ASSUME Occurs(s, x) PROVE Occurs(a, x) \/ Occurs(b, x)
  <2>1. PICK i \in 1 .. Len(s) : s[i] = x
    BY <1>2 DEF Occurs
  <2>2. CASE i <= p
    <3>1. i \in 1 .. Len(a) /\ a[i] = x
      BY <1>1, <2>1, <2>2
    <3> QED BY <3>1 DEF Occurs
  <2>3. CASE i > p
    <3>1. i - p \in 1 .. Len(b) /\ (i - p) + p = i
      BY <1>1, <2>1, <2>3
    <3>2. b[i - p] = x
      BY <1>1, <2>1, <3>1
    <3> QED BY <3>1, <3>2 DEF Occurs
  <2> QED BY <1>1, <2>2, <2>3
<1>3. ASSUME Occurs(a, x) PROVE Occurs(s, x)
  BY <1>1, <1>3 DEF Occurs
<1>4. ASSUME Occurs(b, x) PROVE Occurs(s, x)
  <2>1. PICK i \in 1 .. Len(b) : b[i] = x
    BY <1>4 DEF Occurs
  <2>2. i + p \in 1 .. Len(s) /\ s[i + p] = x
    BY <1>1, <2>1
  <2> QED BY <2>2 DEF Occurs
<1> QED BY <1>2, <1>3, <1>4 DEF a, b

LEMMA RisingConcat ==
  ASSUME NEW s \in Seq(Ids), NEW t \in Seq(Ids), Rising(s), Rising(t),
         \A x, y \in Ids : Occurs(s, x) /\ Occurs(t, y) => x < y
  PROVE  Rising(s \o t)
<1> DEFINE u == s \o t
<1>1. /\ Len(s) \in Nat /\ Len(t) \in Nat
      /\ Len(u) = Len(s) + Len(t)
      /\ \A i \in 1 .. Len(s) : u[i] = s[i]
      /\ \A i \in 1 .. Len(s) + Len(t) : i > Len(s) =>
           i - Len(s) \in 1 .. Len(t) /\ u[i] = t[i - Len(s)]
  BY ConcatFacts
<1>2. (\A i \in 1 .. Len(s) : s[i] \in Ids) /\ (\A i \in 1 .. Len(t) : t[i] \in Ids)
  OBVIOUS
<1> HIDE DEF u
<1>3. ASSUME NEW i \in 1 .. Len(u), NEW j \in 1 .. Len(u), i < j PROVE u[i] < u[j]
  <2>1. CASE j <= Len(s)
    BY <1>1, <1>3, <2>1 DEF Rising
  <2>2. CASE i > Len(s)
    <3>1. i - Len(s) \in 1 .. Len(t) /\ j - Len(s) \in 1 .. Len(t) /\ i - Len(s) < j - Len(s)
      BY <1>1, <1>3, <2>2
    <3>2. t[i - Len(s)] < t[j - Len(s)]
      BY <3>1 DEF Rising
    <3> QED BY <1>1, <1>3, <2>2, <3>2
  <2>3. CASE i <= Len(s) /\ j > Len(s)
    <3>1. i \in 1 .. Len(s) /\ j - Len(s) \in 1 .. Len(t)
      BY <1>1, <1>3, <2>3
    <3>2. Occurs(s, s[i]) /\ Occurs(t, t[j - Len(s)])
      BY <3>1 DEF Occurs
    <3>3. s[i] < t[j - Len(s)]
      BY <1>2, <3>1, <3>2
    <3> QED BY <1>1, <2>3, <3>1, <3>3
  <2> QED BY <1>1, <2>1, <2>2, <2>3
<1> QED BY <1>3 DEF Rising, u

LEMMA RisingSplit ==
  ASSUME NEW s \in Seq(Ids), Rising(s), NEW p \in 0 .. Len(s)
  PROVE  /\ Rising(Prefix(s, p))
         /\ Rising(Beyond(s, p))
         /\ \A x, y \in Ids : Occurs(Prefix(s, p), x) /\ Occurs(Beyond(s, p), y) => x < y
         /\ \A x \in Ids : p > 0 /\ Occurs(Prefix(s, p), x) => x <= s[p]
         /\ \A y \in Ids : p > 0 /\ Occurs(Beyond(s, p), y) => s[p] < y
<1> DEFINE a == Prefix(s, p)
           b == Beyond(s, p)
<1>1. /\ Len(s) \in Nat
      /\ Len(a) = p /\ \A i \in 1 .. p : a[i] = s[i]
      /\ Len(b) = Len(s) - p /\ \A i \in 1 .. Len(s) - p : b[i] = s[i + p]
  <2>1. Len(a) = p /\ \A i \in 1 .. p : a[i] = s[i]
    BY PrefixFacts
  <2>2. Len(b) = Len(s) - p /\ \A i \in 1 .. Len(s) - p : b[i] = s[i + p]
    BY BeyondFacts
  <2> QED BY <2>1, <2>2
<1>2. \A i \in 1 .. Len(s) : s[i] \in Int
  BY QueueAssumption DEF Ids
<1> HIDE DEF a, b
<1>3. Rising(a)
  BY <1>1 DEF Rising
<1>4. ASSUME NEW i \in 1 .. Len(b), NEW j \in 1 .. Len(b), i < j PROVE b[i] < b[j]
  <2>1. i + p \in 1 .. Len(s) /\ j + p \in 1 .. Len(s) /\ i + p < j + p
        /\ i \in 1 .. Len(s) - p /\ j \in 1 .. Len(s) - p
    BY <1>1, <1>4
  <2>2. s[i + p] < s[j + p]
    BY <2>1 DEF Rising
  <2> QED BY <1>1, <2>1, <2>2
<1>5. ASSUME NEW x, Occurs(a, x) PROVE \E i \in 1 .. p : s[i] = x
  BY <1>1, <1>5 DEF Occurs
<1>6. ASSUME NEW y, Occurs(b, y) PROVE \E j \in 1 .. Len(s) : j > p /\ s[j] = y
  <2>1. PICK j \in 1 .. Len(b) : b[j] = y
    BY <1>6 DEF Occurs
  <2>2. j + p \in 1 .. Len(s) /\ j + p > p /\ s[j + p] = y
    BY <1>1, <2>1
  <2> QED BY <2>2
<1>7. ASSUME NEW x, NEW y, Occurs(a, x), Occurs(b, y) PROVE x < y
  <2>1. PICK i \in 1 .. p : s[i] = x
    BY <1>5, <1>7
  <2>2. PICK j \in 1 .. Len(s) : j > p /\ s[j] = y
    BY <1>6, <1>7
  <2>3. i \in 1 .. Len(s) /\ i < j
    BY <1>1, <2>1, <2>2
  <2> QED BY <2>1, <2>2, <2>3 DEF Rising
<1>8. ASSUME NEW x, p > 0, Occurs(a, x) PROVE x <= s[p]
  <2>1. PICK i \in 1 .. p : s[i] = x
    BY <1>5, <1>8
  <2>2. i \in 1 .. Len(s) /\ p \in 1 .. Len(s) /\ (i = p \/ i < p)
    BY <1>1, <1>8, <2>1
  <2> QED BY <1>2, <2>1, <2>2 DEF Rising
<1>9. ASSUME NEW y, p > 0, Occurs(b, y) PROVE s[p] < y
  <2>1. PICK j \in 1 .. Len(s) : j > p /\ s[j] = y
    BY <1>6, <1>9
  <2>2. p \in 1 .. Len(s) /\ p < j
    BY <1>1, <1>9, <2>1
  <2> QED BY <2>1, <2>2 DEF Rising
<1> QED BY <1>3, <1>4, <1>7, <1>8, <1>9 DEF Rising, a, b

LEMMA RisingIsDistinct ==
  ASSUME NEW s \in Seq(Ids), Rising(s)
  PROVE  Distinct(s)
<1>1. \A i \in 1 .. Len(s) : s[i] \in Int
  BY QueueAssumption DEF Ids
<1>2. ASSUME NEW i \in 1 .. Len(s), NEW j \in 1 .. Len(s), s[i] = s[j] PROVE i = j
  <2>1. ~ (i < j) /\ ~ (j < i)
    BY <1>1, <1>2 DEF Rising
  <2> QED BY <2>1
<1> QED BY <1>2 DEF Distinct

LEMMA DistinctConcat ==
  ASSUME NEW s \in Seq(Ids), NEW t \in Seq(Ids), Distinct(s), Distinct(t),
         \A x \in Ids : Occurs(t, x) => ~Occurs(s, x)
  PROVE  Distinct(s \o t)
<1> DEFINE u == s \o t
<1>1. /\ Len(s) \in Nat /\ Len(t) \in Nat
      /\ Len(u) = Len(s) + Len(t)
      /\ \A i \in 1 .. Len(s) : u[i] = s[i]
      /\ \A i \in 1 .. Len(s) + Len(t) : i > Len(s) =>
           i - Len(s) \in 1 .. Len(t) /\ u[i] = t[i - Len(s)]
  BY ConcatFacts
<1>2. (\A i \in 1 .. Len(s) : s[i] \in Ids) /\ (\A i \in 1 .. Len(t) : t[i] \in Ids)
  OBVIOUS
<1> HIDE DEF u
<1>3. ASSUME NEW i \in 1 .. Len(s), NEW j \in 1 .. Len(u), j > Len(s), u[i] = u[j]
      PROVE  FALSE
  <2>1. j - Len(s) \in 1 .. Len(t) /\ u[j] = t[j - Len(s)] /\ u[i] = s[i]
    BY <1>1, <1>3
  <2>2. Occurs(s, s[i]) /\ Occurs(t, t[j - Len(s)])
    BY <2>1 DEF Occurs
  <2> QED BY <1>2, <1>3, <2>1, <2>2
<1>4. ASSUME NEW i \in 1 .. Len(u), NEW j \in 1 .. Len(u), u[i] = u[j] PROVE i = j
  <2>1. CASE i <= Len(s) /\ j <= Len(s)
    BY <1>1, <1>4, <2>1 DEF Distinct
  <2>2. CASE i > Len(s) /\ j > Len(s)
    <3>1. i - Len(s) \in 1 .. Len(t) /\ j - Len(s) \in 1 .. Len(t)
          /\ t[i - Len(s)] = t[j - Len(s)]
      BY <1>1, <1>4, <2>2
    <3>2. i - Len(s) = j - Len(s)
      BY <3>1 DEF Distinct
    <3> QED BY <1>1, <3>2
  <2>3. CASE i <= Len(s) /\ j > Len(s)
    BY <1>1, <1>3, <1>4, <2>3
  <2>4. CASE i > Len(s) /\ j <= Len(s)
    BY <1>1, <1>3, <1>4, <2>4
  <2> QED BY <1>1, <2>1, <2>2, <2>3, <2>4
<1> QED BY <1>4 DEF Distinct, u

LEMMA InsertedFacts ==
  ASSUME NEW s \in Seq(Ids), Rising(s), NEW id \in Ids, ~Occurs(s, id)
  PROVE  /\ inserted(s, id) \in Seq(Ids)
         /\ Rising(inserted(s, id))
         /\ Len(inserted(s, id)) = Len(s) + 1
         /\ \A x \in Ids : Occurs(inserted(s, id), x) <=> Occurs(s, x) \/ x = id
<1> DEFINE B == {i \in 1 .. Len(s) : s[i] <= id}
           k == leading(Len(s), B)
           a == Prefix(s, k)
           b == Beyond(s, k)
           c == a \o <<id>>
<1>0. Len(s) \in Nat /\ id \in Int /\ \A i \in 1 .. Len(s) : s[i] \in Int
  BY QueueAssumption DEF Ids
<1>01. \A x \in Ids : x \in Int
  BY QueueAssumption DEF Ids
<1>1. inserted(s, id) = c \o b
  BY DEF inserted
<1>2. /\ k \in 0 .. Len(s)
      /\ \A i \in 1 .. k : i \in B
      /\ k < Len(s) => k + 1 \notin B
  <2> HIDE DEF B
  <2> QED BY <1>0, LeadingFacts
<1>3. /\ \A i \in 1 .. k : s[i] <= id
      /\ k < Len(s) => ~ (s[k + 1] <= id)
  BY <1>0, <1>2
<1> HIDE DEF k
<1>4. a \in Seq(Ids) /\ Len(a) = k /\ \A i \in 1 .. k : a[i] = s[i]
  BY <1>2, PrefixFacts
<1>5. b \in Seq(Ids) /\ Len(b) = Len(s) - k /\ \A i \in 1 .. Len(s) - k : b[i] = s[i + k]
  BY <1>2, BeyondFacts
<1>6. /\ Rising(a) /\ Rising(b)
      /\ \A x, y \in Ids : Occurs(a, x) /\ Occurs(b, y) => x < y
  BY <1>2, RisingSplit
<1>7. \A x : Occurs(s, x) <=> Occurs(a, x) \/ Occurs(b, x)
  BY <1>2, OccursSplit
<1> HIDE DEF a, b
<1>8. <<id>> \in Seq(Ids) /\ Len(<<id>>) = 1 /\ Rising(<<id>>) /\ \A x : Occurs(<<id>>, x) <=> x = id
  BY DEF Rising, Occurs
<1>9. \A x \in Ids : Occurs(a, x) => x < id
  <2> SUFFICES ASSUME NEW x \in Ids, Occurs(a, x) PROVE x < id
    OBVIOUS
  <2>1. PICK i \in 1 .. Len(a) : a[i] = x
    BY DEF Occurs
  <2>2. x <= id
    BY <1>3, <1>4, <2>1
  <2>3. x # id
    BY <1>7
  <2>4. x \in Int
    BY <1>01
  <2> QED BY <1>0, <2>2, <2>3, <2>4
<1>10. \A y \in Ids : Occurs(b, y) => id < y
  <2> SUFFICES ASSUME NEW y \in Ids, Occurs(b, y) PROVE id < y
    OBVIOUS
  <2>1. PICK j \in 1 .. Len(b) : b[j] = y
    BY DEF Occurs
  <2>2. k < Len(s) /\ 1 \in 1 .. Len(b) /\ k + 1 \in 1 .. Len(s)
    BY <1>0, <1>2, <1>5, <2>1
  <2>3. b[1] = s[1 + k] /\ 1 + k = k + 1
    BY <1>2, <1>5, <2>2
  <2>4. s[k + 1] \in Int /\ ~ (s[k + 1] <= id)
    BY <1>0, <1>3, <2>2
  <2>5. b[1] \in Int /\ id < b[1]
    BY <1>0, <2>3, <2>4
  <2>6. j = 1 \/ b[1] < b[j]
    BY <1>6, <2>1, <2>2 DEF Rising
  <2>7. y \in Int
    BY <1>01
  <2>8. y = b[1] \/ b[1] < y
    BY <2>1, <2>6
  <2> QED BY <1>0, <2>5, <2>7, <2>8
<1>11. c \in Seq(Ids) /\ Len(c) = k + 1 /\ Rising(c)
       /\ \A x : Occurs(c, x) <=> Occurs(a, x) \/ x = id
  <2>1. c \in Seq(Ids) /\ Len(c) = k + 1
    BY <1>4, <1>8, ConcatFacts
  <2>2. \A x, y \in Ids : Occurs(a, x) /\ Occurs(<<id>>, y) => x < y
    BY <1>8, <1>9
  <2>3. Rising(c)
    BY <1>4, <1>6, <1>8, <2>2, RisingConcat
  <2>4. \A x : Occurs(c, x) <=> Occurs(a, x) \/ Occurs(<<id>>, x)
    BY <1>4, <1>8, OccursConcat
  <2> QED BY <1>8, <2>1, <2>3, <2>4
<1> HIDE DEF c
<1>12. c \o b \in Seq(Ids) /\ Len(c \o b) = (k + 1) + (Len(s) - k)
  <2>1. c \in Seq(Ids) /\ b \in Seq(Ids)
    BY <1>5, <1>11
  <2>2. c \o b \in Seq(Ids) /\ Len(c \o b) = Len(c) + Len(b)
    BY <2>1, ConcatFacts
  <2> QED BY <1>5, <1>11, <2>2
<1>13. \A x, y \in Ids : Occurs(c, x) /\ Occurs(b, y) => x < y
  BY <1>6, <1>10, <1>11
<1>14. Rising(c \o b)
  BY <1>5, <1>6, <1>11, <1>13, RisingConcat
<1>15. \A x : Occurs(c \o b, x) <=> Occurs(c, x) \/ Occurs(b, x)
  BY <1>5, <1>11, OccursConcat
<1>16. Len(c \o b) = Len(s) + 1
  BY <1>0, <1>2, <1>12
<1>17. \A x \in Ids : Occurs(c \o b, x) <=> Occurs(s, x) \/ x = id
  BY <1>7, <1>11, <1>15
<1> QED BY <1>1, <1>12, <1>14, <1>16, <1>17

-----------------------------------------------------------------------------
(* The moves. *)

\* The first p Capsules of s are handed on.
LEMMA HandOnKeeps ==
  ASSUME NEW s, NEW tq, NEW last, NEW out, Sound(s, tq, last, out), NEW p \in 1 .. Len(s)
  PROVE  Sound(Beyond(s, p), tq, s[p], out \o Prefix(s, p))
<1> DEFINE a == Prefix(s, p)
           b == Beyond(s, p)
           o == out \o a
<1>1. /\ s \in Seq(Ids) /\ tq \in Seq(Capsules) /\ out \in Seq(Ids)
      /\ Rising(s)
      /\ Distinct(out)
      /\ \A id \in Ids : Occurs(s, id) => Queued(tq, id) /\ ~Occurs(out, id)
      /\ \A id \in Ids : Queued(tq, id) => Occurs(s, id) \/ Occurs(out, id)
  BY DEF Sound
<1>2. Len(s) \in Nat /\ p \in 0 .. Len(s)
  BY <1>1
<1>3. a \in Seq(Ids) /\ Len(a) = p /\ \A i \in 1 .. p : a[i] = s[i]
  BY <1>1, <1>2, PrefixFacts
<1>4. b \in Seq(Ids)
  BY <1>1, <1>2, BeyondFacts
<1>5. /\ Rising(a) /\ Rising(b)
      /\ \A x, y \in Ids : Occurs(a, x) /\ Occurs(b, y) => x < y
  BY <1>1, <1>2, RisingSplit
<1>6. \A x : Occurs(s, x) <=> Occurs(a, x) \/ Occurs(b, x)
  BY <1>1, <1>2, OccursSplit
<1> HIDE DEF a, b
<1>7. o \in Seq(Ids) /\ Len(o) = Len(out) + p /\ o[Len(out) + p] = s[p]
  <2>1. out \in Seq(Ids) /\ a \in Seq(Ids)
    BY <1>1, <1>3
  <2>2. /\ o \in Seq(Ids) /\ Len(o) = Len(out) + Len(a)
        /\ \A i \in 1 .. Len(a) : o[Len(out) + i] = a[i]
    BY <2>1, ConcatFacts
  <2> QED BY <1>3, <2>2
<1>8. \A x : Occurs(o, x) <=> Occurs(out, x) \/ Occurs(a, x)
  BY <1>1, <1>3, OccursConcat
<1>9. Distinct(o)
  <2>1. Distinct(a)
    BY <1>3, <1>5, RisingIsDistinct
  <2>2. \A x \in Ids : Occurs(a, x) => ~Occurs(out, x)
    BY <1>1, <1>6
  <2> QED BY <1>1, <1>3, <2>1, <2>2, DistinctConcat
<1>10. \A id \in Ids : Occurs(b, id) => ~Occurs(a, id)
  <2>1. \A x \in Ids : ~ (x < x)
    BY QueueAssumption DEF Ids
  <2> QED BY <1>5, <2>1
<1> HIDE DEF o
<1>11. \A id \in Ids : Occurs(b, id) => Queued(tq, id) /\ ~Occurs(o, id)
  BY <1>1, <1>6, <1>8, <1>10
<1>12. \A id \in Ids : Queued(tq, id) => Occurs(b, id) \/ Occurs(o, id)
  BY <1>1, <1>6, <1>8
<1>13. o # <<>> /\ s[p] = o[Len(o)]
  <2>1. Len(out) \in Nat
    BY <1>1
  <2>2. Len(o) # 0
    BY <1>7, <2>1
  <2> QED BY <1>7, <2>2
<1>14. Sound(b, tq, s[p], o)
  BY <1>1, <1>4, <1>5, <1>7, <1>9, <1>11, <1>12, <1>13 DEF Sound
<1> QED BY <1>14 DEF a, b, o

LEMMA HandOnAhead ==
  ASSUME NEW s \in Seq(Ids), NEW tq, NEW last, NEW out, Sound(s, tq, last, out),
         Ahead(s, last, out), NEW p \in 1 .. Len(s)
  PROVE  Ahead(Beyond(s, p), s[p], out \o Prefix(s, p))
<1> DEFINE a == Prefix(s, p)
           b == Beyond(s, p)
<1>1. out \in Seq(Ids) /\ Rising(s) /\ Rising(out)
      /\ (\A id \in Ids : Occurs(s, id) => id > last)
      /\ (IF out = <<>> THEN last = -1 /\ s = <<>> ELSE last = out[Len(out)])
  BY DEF Sound, Ahead
<1>2. Len(s) \in Nat /\ p \in 0 .. Len(s) /\ p > 0 /\ Len(out) \in Nat
      /\ \A i \in 1 .. Len(out) : out[i] \in Ids
  BY <1>1
<1>3. a \in Seq(Ids)
  BY <1>2, PrefixFacts
<1>4. /\ Rising(a)
      /\ \A y \in Ids : Occurs(b, y) => s[p] < y
  BY <1>1, <1>2, RisingSplit
<1>5. \A x : Occurs(s, x) <=> Occurs(a, x) \/ Occurs(b, x)
  BY <1>2, OccursSplit
<1> HIDE DEF a, b
<1>6. ASSUME NEW x \in Ids, NEW y \in Ids, Occurs(out, x), Occurs(a, y) PROVE x < y
  <2>1. PICK i \in 1 .. Len(out) : out[i] = x
    BY <1>6 DEF Occurs
  <2>2. last = out[Len(out)] /\ Len(out) \in 1 .. Len(out) /\ last \in Ids
    BY <1>1, <1>2, <2>1
  <2>3. i = Len(out) \/ x < last
    BY <1>1, <1>2, <2>1, <2>2 DEF Rising
  <2>4. y > last
    BY <1>1, <1>5, <1>6
  <2>5. Ids \subseteq Int
    BY QueueAssumption DEF Ids
  <2> QED BY <2>1, <2>2, <2>3, <2>4, <2>5
<1>7. Rising(out \o a)
  BY <1>1, <1>3, <1>4, <1>6, RisingConcat
<1>8. s[p] \in Ids
  BY <1>2
<1>9. \A y \in Ids : Occurs(b, y) => y > s[p]
  <2>1. Ids \subseteq Int
    BY QueueAssumption DEF Ids
  <2> QED BY <1>4, <1>8, <2>1
<1>10. Ahead(b, s[p], out \o a)
  BY <1>7, <1>9 DEF Ahead
<1> QED BY <1>10 DEF a, b

\* What releaseQueue does: it hands on the first p Capsules of s and takes the
\* first e of tq off.
Releases(s, tq, last, t, r, p, e) ==
  /\ r.seq = Beyond(s, p)
  /\ r.out = Prefix(s, p)
  /\ r.time = Beyond(tq, e)
  /\ r.last = IF p = 0 THEN last ELSE s[p]
  /\ \A j \in 1 .. e : tq[j].at <= t - MaxWait
  /\ \A j \in 1 .. e : \A i \in p + 1 .. Len(s) : s[i] > tq[j].id
  /\ p < Len(s) /\ e < Len(tq) => tq[e + 1].at > t - MaxWait
  /\ \/ \A i \in 1 .. p : s[i] = last + i
     \/ \E j \in 1 .. e : s[p] <= tq[j].id

LEMMA ReleaseFacts ==
  ASSUME NEW s \in Seq(Ids), Rising(s), NEW tq \in Seq(Capsules), NEW last \in Int, NEW t \in Int
  PROVE  \E p \in 0 .. Len(s), e \in 0 .. Len(tq) :
           Releases(s, tq, last, t, releaseQueue(s, tq, last, t), p, e)
<1> DEFINE r  == releaseQueue(s, tq, last, t)
           F  == {i \in 1 .. Len(s) : s[i] = last + i}
           k  == followers(s, last)
           s1 == Beyond(s, k)
           E  == {i \in 1 .. Len(tq) : tq[i].at <= t - MaxWait}
           e  == expired(tq, t)
           D  == {-1} \cup {tq[i].id : i \in 1 .. e}
           x  == Max(D)
           M  == {i \in 1 .. Len(s1) : s1[i] <= x}
           m  == leading(Len(s1), M)
<1>0. /\ Len(s) \in Nat /\ Len(tq) \in Nat
      /\ \A i \in 1 .. Len(s) : s[i] \in Nat
      /\ \A i \in 1 .. Len(tq) : tq[i].id \in Ids /\ tq[i].at \in Int
  <2>1. Len(s) \in Nat /\ Len(tq) \in Nat
    OBVIOUS
  <2>2. (\A i \in 1 .. Len(s) : s[i] \in Ids) /\ (\A i \in 1 .. Len(tq) : tq[i] \in Capsules)
    OBVIOUS
  <2>3. (\A i \in Ids : i \in Nat) /\ (\A c \in Capsules : c.id \in Ids /\ c.at \in Int)
    BY QueueAssumption DEF Ids, Times, Capsules
  <2> QED BY <2>1, <2>2, <2>3
<1>1. r = IF s1 = <<>>
          THEN [seq |-> s1, time |-> tq, out |-> Prefix(s, k), last |-> last + k]
          ELSE [seq |-> Beyond(s1, m), time |-> Beyond(tq, e), out |-> Prefix(s, k + m),
                last |-> IF m = 0 THEN last + k ELSE s1[m]]
  BY DEF releaseQueue
<1>2. k \in 0 .. Len(s) /\ \A i \in 1 .. k : s[i] = last + i
  <2>1. k = leading(Len(s), F)
    BY DEF followers
  <2>2. k \in 0 .. Len(s) /\ \A i \in 1 .. k : i \in F
    <3> HIDE DEF F, k
    <3> QED BY <1>0, <2>1, LeadingFacts
  <2> QED BY <2>2
<1>3. /\ e \in 0 .. Len(tq)
      /\ \A j \in 1 .. e : tq[j].at <= t - MaxWait
      /\ e < Len(tq) => tq[e + 1].at > t - MaxWait
  <2>1. e = leading(Len(tq), E)
    BY DEF expired
  <2>2. /\ e \in 0 .. Len(tq)
        /\ \A j \in 1 .. e : j \in E
        /\ e < Len(tq) => e + 1 \notin E
    <3> HIDE DEF E, e
    <3> QED BY <1>0, <2>1, LeadingFacts
  <2>3. e < Len(tq) => e + 1 \in 1 .. Len(tq)
    BY <1>0, <2>2
  <2>4. e < Len(tq) => ~ (tq[e + 1].at <= t - MaxWait)
    BY <2>2, <2>3
  <2> HIDE DEF e
  <2> QED BY <1>0, <2>2, <2>3, <2>4, QueueAssumption
<1>4. /\ s1 \in Seq(Ids) /\ Len(s1) = Len(s) - k
      /\ \A i \in 1 .. Len(s) - k : s1[i] = s[i + k]
  BY <1>2, BeyondFacts
<1>5. /\ x \in Int /\ (x = -1 \/ \E j \in 1 .. e : x = tq[j].id)
      /\ \A j \in 1 .. e : tq[j].id <= x
  <2>1. \A j \in 1 .. e : tq[j].id \in -1 .. MaxId
    BY <1>0, <1>3, QueueAssumption DEF Ids
  <2>2. D \in SUBSET (-1 .. MaxId) /\ D # {} /\ -1 \in Int /\ MaxId \in Int
    <3> HIDE DEF e
    <3> QED BY <2>1, QueueAssumption
  <2>3. x \in D /\ \A y \in D : y <= x
    <3> HIDE DEF D
    <3> QED BY <2>2, MaxFacts
  <2>4. \A j \in 1 .. e : tq[j].id \in D
    OBVIOUS
  <2> HIDE DEF x, e
  <2>5. x \in D => x = -1 \/ \E j \in 1 .. e : x = tq[j].id
    OBVIOUS
  <2> HIDE DEF D
  <2>6. x \in Int
    BY <2>2, <2>3
  <2> QED BY <2>3, <2>4, <2>5, <2>6
<1>6. /\ m \in 0 .. Len(s1)
      /\ \A i \in 1 .. m : s1[i] <= x
      /\ m < Len(s1) => s1[m + 1] > x
  <2>1. /\ m \in 0 .. Len(s1)
        /\ \A i \in 1 .. m : i \in M
        /\ m < Len(s1) => m + 1 \notin M
    <3>1. Len(s1) \in Nat
      BY <1>4
    <3> HIDE DEF M, s1
    <3> QED BY <3>1, LeadingFacts
  <2> HIDE DEF s1, m, x
  <2>2. m < Len(s1) => m + 1 \in 1 .. Len(s1) /\ s1[m + 1] \in Int
    <3>1. Len(s1) \in Nat /\ \A i \in 1 .. Len(s1) : s1[i] \in Int
      BY <1>4, QueueAssumption DEF Ids
    <3> QED BY <2>1, <3>1
  <2>3. m < Len(s1) => ~ (s1[m + 1] <= x)
    BY <2>1, <2>2
  <2> QED BY <1>5, <2>1, <2>2, <2>3
<1> HIDE DEF r, k, s1, e, x, m
<1>7. CASE s1 = <<>>
  <2>1. /\ r.seq = s1 /\ r.time = tq /\ r.out = Prefix(s, k) /\ r.last = last + k
    BY <1>1, <1>7
  <2>2. k = Len(s)
    BY <1>0, <1>2, <1>4, <1>7
  <2>3. Beyond(tq, 0) = tq
    BY SubSeqFull DEF Beyond
  <2>4. r.last = IF k = 0 THEN last ELSE s[k]
    BY <1>2, <2>1
  <2>5. \A j \in 1 .. 0 : FALSE
    OBVIOUS
  <2>6. Releases(s, tq, last, t, r, k, 0)
    BY <1>2, <2>1, <2>2, <2>3, <2>4, <2>5 DEF Releases, s1
  <2>7. 0 \in 0 .. Len(tq)
    BY <1>0
  <2> QED BY <1>2, <2>6, <2>7 DEF r
<1>8. CASE s1 # <<>>
  <2> DEFINE p == k + m
  <2>1. /\ r.seq = Beyond(s1, m) /\ r.time = Beyond(tq, e) /\ r.out = Prefix(s, p)
        /\ r.last = IF m = 0 THEN last + k ELSE s1[m]
    BY <1>1, <1>8
  <2>2. p \in 0 .. Len(s) /\ m \in 0 .. Len(s) - k
    BY <1>0, <1>2, <1>4, <1>6
  <2>3. r.seq = Beyond(s, p)
    BY <1>2, <2>1, <2>2, BeyondBeyond DEF s1
  <2>4. m > 0 => s1[m] = s[p] /\ s1[m] <= x
    <3>1. m > 0 => m \in 1 .. m /\ m \in 1 .. Len(s) - k /\ m + k = p
      BY <1>2, <2>2
    <3> QED BY <1>4, <1>6, <3>1
  <2>5. r.last = IF p = 0 THEN last ELSE s[p]
    <3>1. CASE m = 0
      BY <1>2, <2>1, <3>1
    <3>2. CASE m # 0
      BY <1>2, <2>1, <2>2, <2>4, <3>2
    <3> QED BY <3>1, <3>2
  <2>6. ASSUME NEW j \in 1 .. e, NEW i \in p + 1 .. Len(s) PROVE s[i] > tq[j].id
    <3>1. m < Len(s1) /\ m + 1 \in 1 .. Len(s) - k /\ (m + 1) + k = p + 1 /\ p + 1 \in 1 .. Len(s)
          /\ i \in 1 .. Len(s)
      BY <1>0, <1>2, <1>4, <2>2
    <3>2. s[p + 1] > x
      BY <1>4, <1>6, <3>1
    <3>3. i = p + 1 \/ s[p + 1] < s[i]
      <4>1. i = p + 1 \/ p + 1 < i
        BY <1>0, <2>2
      <4> QED BY <3>1, <4>1 DEF Rising
    <3>4. tq[j].id <= x /\ tq[j].id \in Int /\ s[i] \in Int /\ s[p + 1] \in Int
      <4>1. j \in 1 .. Len(tq)
        BY <1>0, <1>3
      <4> QED BY <1>0, <1>5, <3>1, <4>1, QueueAssumption DEF Ids
    <3> QED BY <1>5, <3>2, <3>3, <3>4
  <2>7. \/ \A i \in 1 .. p : s[i] = last + i
        \/ \E j \in 1 .. e : s[p] <= tq[j].id
    <3>1. CASE m = 0
      <4>1. p = k
        BY <1>2, <3>1
      <4> QED BY <1>2, <4>1
    <3>2. CASE m # 0
      <4>1. m > 0 /\ p \in 1 .. Len(s)
        BY <1>2, <2>2, <3>2
      <4>2. s[p] <= x /\ s[p] \in Nat
        BY <1>0, <2>4, <4>1
      <4>3. x # -1
        BY <4>2
      <4> QED BY <1>5, <4>2, <4>3
    <3> QED BY <3>1, <3>2
  <2> HIDE DEF p
  <2>8. Releases(s, tq, last, t, r, p, e)
    BY <1>3, <2>1, <2>3, <2>5, <2>6, <2>7 DEF Releases
  <2> QED BY <1>3, <2>2, <2>8 DEF r
<1> QED BY <1>7, <1>8

LEMMA PopKeeps ==
  ASSUME NEW s, NEW tq, NEW last, NEW out, Sound(s, tq, last, out), NEW e \in 0 .. Len(tq),
         \A j \in 1 .. e : \A i \in 1 .. Len(s) : s[i] > tq[j].id
  PROVE  Sound(s, Beyond(tq, e), last, out)
<1> DEFINE b == Beyond(tq, e)
<1>1. /\ s \in Seq(Ids) /\ tq \in Seq(Capsules)
      /\ \A id \in Ids : Occurs(s, id) => Queued(tq, id) /\ ~Occurs(out, id)
      /\ \A id \in Ids : Queued(tq, id) => Occurs(s, id) \/ Occurs(out, id)
  BY DEF Sound
<1>2. Len(tq) \in Nat /\ b \in Seq(Capsules) /\ Len(b) = Len(tq) - e
      /\ \A i \in 1 .. Len(tq) - e : b[i] = tq[i + e]
  BY <1>1, BeyondFacts
<1> HIDE DEF b
<1>3. ASSUME NEW id \in Ids, Occurs(s, id) PROVE Queued(b, id)
  <2>1. PICK j \in 1 .. Len(tq) : tq[j].id = id
    BY <1>1, <1>3 DEF Queued
  <2>2. PICK i \in 1 .. Len(s) : s[i] = id
    BY <1>3 DEF Occurs
  <2>3. ~ (id > id)
    BY QueueAssumption DEF Ids
  <2>4. j > e
    BY <1>2, <2>1, <2>2, <2>3
  <2>5. j - e \in 1 .. Len(tq) - e /\ (j - e) + e = j
    BY <1>2, <2>1, <2>4
  <2>6. j - e \in 1 .. Len(b) /\ b[j - e] = tq[j]
    BY <1>2, <2>5
  <2> QED BY <2>1, <2>6 DEF Queued
<1>4. ASSUME NEW id \in Ids, Queued(b, id) PROVE Queued(tq, id)
  <2>1. PICK i \in 1 .. Len(b) : b[i].id = id
    BY <1>4 DEF Queued
  <2>2. i + e \in 1 .. Len(tq) /\ b[i] = tq[i + e]
    BY <1>2, <2>1
  <2> QED BY <2>1, <2>2 DEF Queued
<1>5. Sound(s, b, last, out)
  BY <1>1, <1>2, <1>3, <1>4 DEF Sound
<1> QED BY <1>5 DEF b

\* Handing on loses nothing and makes nothing up.
LEMMA HandOnOccurs ==
  ASSUME NEW s \in Seq(Ids), NEW out \in Seq(Ids), NEW p \in 0 .. Len(s), NEW x
  PROVE  Occurs(Beyond(s, p), x) \/ Occurs(out \o Prefix(s, p), x)
           <=> Occurs(s, x) \/ Occurs(out, x)
<1>1. Prefix(s, p) \in Seq(Ids)
  BY PrefixFacts
<1>2. Occurs(out \o Prefix(s, p), x) <=> Occurs(out, x) \/ Occurs(Prefix(s, p), x)
  BY <1>1, OccursConcat
<1>3. Occurs(s, x) <=> Occurs(Prefix(s, p), x) \/ Occurs(Beyond(s, p), x)
  BY OccursSplit
<1> QED BY <1>2, <1>3

LEMMA HandOnNothing ==
  ASSUME NEW s \in Seq(Ids), NEW out \in Seq(Ids)
  PROVE  Beyond(s, 0) = s /\ out \o Prefix(s, 0) = out
<1>1. Beyond(s, 0) = s
  BY SubSeqFull DEF Beyond
<1>2. Prefix(s, 0) = <<>>
  BY SubSeqEmpty DEF Prefix
<1>3. out \o <<>> = out
  BY ConcatEmptySeq
<1> QED BY <1>1, <1>2, <1>3

\* releaseQueue keeps the queues sound.
LEMMA ReleaseKeeps ==
  ASSUME NEW s, NEW tq, NEW last, NEW out, Sound(s, tq, last, out), NEW t,
         NEW r, NEW p \in 0 .. Len(s), NEW e \in 0 .. Len(tq), Releases(s, tq, last, t, r, p, e)
  PROVE  Sound(r.seq, r.time, r.last, out \o r.out)
<1>1. s \in Seq(Ids) /\ tq \in Seq(Capsules) /\ out \in Seq(Ids)
  BY DEF Sound
<1>2. r.seq = Beyond(s, p) /\ r.out = Prefix(s, p) /\ r.time = Beyond(tq, e)
      /\ r.last = (IF p = 0 THEN last ELSE s[p])
      /\ \A j \in 1 .. e : \A i \in p + 1 .. Len(s) : s[i] > tq[j].id
  BY DEF Releases
<1>3. Sound(r.seq, tq, r.last, out \o r.out)
  <2>1. CASE p = 0
    <3>1. r.seq = s /\ out \o r.out = out /\ r.last = last
      BY <1>1, <1>2, <2>1, HandOnNothing
    <3> QED BY <3>1
  <2>2. CASE p # 0
    <3>1. p \in 1 .. Len(s) /\ r.last = s[p]
      BY <1>1, <1>2, <2>2
    <3> QED BY <1>2, <3>1, HandOnKeeps
  <2> QED BY <2>1, <2>2
<1>4. ASSUME NEW j \in 1 .. e, NEW i \in 1 .. Len(r.seq) PROVE r.seq[i] > tq[j].id
  <2>1. Len(r.seq) = Len(s) - p /\ r.seq[i] = s[i + p] /\ i + p \in p + 1 .. Len(s)
    <3>1. Len(s) \in Nat
      BY <1>1
    <3>2. /\ Len(Beyond(s, p)) = Len(s) - p
          /\ \A n \in 1 .. Len(s) - p : Beyond(s, p)[n] = s[n + p]
      BY <1>1, BeyondFacts
    <3> QED BY <1>2, <3>1, <3>2
  <2> QED BY <1>2, <2>1
<1>5. Sound(r.seq, Beyond(tq, e), r.last, out \o r.out)
  BY <1>3, <1>4, PopKeeps
<1> QED BY <1>2, <1>5

\* releaseQueue takes the oldest arrivals off.
LEMMA ReleaseTimely ==
  ASSUME NEW tq \in Seq(Capsules), NEW t \in Int, Timely(tq, t), NEW e \in 0 .. Len(tq)
  PROVE  /\ Timely(Beyond(tq, e), t)
         /\ \A j \in 1 .. Len(Beyond(tq, e)) : \E i \in 1 .. Len(tq) : Beyond(tq, e)[j] = tq[i]
         /\ (e < Len(tq) => tq[e + 1].at > t - MaxWait) =>
              \A j \in 1 .. Len(Beyond(tq, e)) : Beyond(tq, e)[j].at > t - MaxWait
<1> DEFINE b == Beyond(tq, e)
<1>1. Len(tq) \in Nat /\ Len(b) = Len(tq) - e /\ \A i \in 1 .. Len(tq) - e : b[i] = tq[i + e]
  BY BeyondFacts
<1>2. \A i \in 1 .. Len(tq) : tq[i].at \in Int
  <2>1. \A i \in 1 .. Len(tq) : tq[i] \in Capsules
    OBVIOUS
  <2>2. \A c \in Capsules : c.at \in Int
    BY QueueAssumption DEF Capsules, Times
  <2> QED BY <2>1, <2>2
<1> HIDE DEF b
<1>3. \A j \in 1 .. Len(b) : j + e \in e + 1 .. Len(tq) /\ j + e \in 1 .. Len(tq) /\ b[j] = tq[j + e]
  BY <1>1
<1>4. Timely(b, t)
  <2>1. ASSUME NEW i \in 1 .. Len(b), NEW j \in 1 .. Len(b), i <= j PROVE b[i].at <= b[j].at
    <3>1. i + e <= j + e
      BY <1>1, <2>1
    <3>2. tq[i + e].at <= tq[j + e].at
      BY <1>3, <3>1 DEF Timely
    <3> QED BY <1>3, <3>2
  <2>2. \A j \in 1 .. Len(b) : b[j].at <= t
    BY <1>3 DEF Timely
  <2> QED BY <2>1, <2>2 DEF Timely
<1>5. ASSUME e < Len(tq) => tq[e + 1].at > t - MaxWait, NEW j \in 1 .. Len(b)
      PROVE  b[j].at > t - MaxWait
  <2>1. e < Len(tq) /\ e + 1 <= j + e /\ e + 1 \in 1 .. Len(tq)
    BY <1>1
  <2>2. tq[e + 1].at <= tq[j + e].at
    BY <1>3, <2>1 DEF Timely
  <2>3. tq[e + 1].at \in Int /\ tq[j + e].at \in Int /\ t - MaxWait \in Int
    BY <1>2, <1>3, <2>1, QueueAssumption
  <2>4. tq[j + e].at > t - MaxWait
    BY <1>5, <2>1, <2>2, <2>3
  <2> QED BY <1>3, <2>4
<1> QED BY <1>3, <1>4, <1>5 DEF b

LEMMA ConcatFirst ==
  ASSUME NEW out \in Seq(Ids), NEW a \in Seq(Ids), out # <<>>
  PROVE  out \o a # <<>> /\ (out \o a)[1] = out[1]
<1>1. Len(out) \in Nat /\ Len(out) # 0 /\ Len(a) \in Nat
  OBVIOUS
<1>2. Len(out \o a) = Len(out) + Len(a) /\ \A i \in 1 .. Len(out) : (out \o a)[i] = out[i]
  BY ConcatFacts
<1>3. Len(out \o a) # 0 /\ 1 \in 1 .. Len(out)
  BY <1>1, <1>2
<1>4. out \o a # <<>>
  BY <1>3
<1> QED BY <1>2, <1>3, <1>4

\* Every id of out is below n exactly if every id that occurs in it is.
LEMMA BelowOccurs ==
  ASSUME NEW out \in Seq(Ids), NEW n
  PROVE  (\A i \in 1 .. Len(out) : out[i] < n) <=> (\A x \in Ids : Occurs(out, x) => x < n)
<1>1. \A i \in 1 .. Len(out) : out[i] \in Ids
  OBVIOUS
<1> QED BY <1>1 DEF Occurs

\* releaseQueue, with the Capsules under way.
LEMMA ReleaseHeld ==
  ASSUME NEW s, NEW tq, NEW last, NEW out, NEW w \in SUBSET Capsules, now \in Int, sent \in Int,
         last \in Int, Held(s, tq, last, out, w), NEW r, r = releaseQueue(s, tq, last, now)
  PROVE  /\ Held(r.seq, r.time, r.last, out \o r.out, w)
         /\ HeldInOrder(s, last, out, w) => HeldInOrder(r.seq, r.last, out \o r.out, w)
         /\ Len(r.seq) <= Len(s)
         /\ r.seq # <<>> => \A j \in 1 .. Len(r.time) : r.time[j].at > now - MaxWait
         /\ r.last \in Ids \cup {last}
<1>1. s \in Seq(Ids) /\ tq \in Seq(Capsules) /\ out \in Seq(Ids) /\ Rising(s)
      /\ Sound(s, tq, last, out)
  BY DEF Held, Sound
<1>2. PICK p \in 0 .. Len(s), e \in 0 .. Len(tq) : Releases(s, tq, last, now, r, p, e)
  BY <1>1, ReleaseFacts
<1>3. r.seq = Beyond(s, p) /\ r.out = Prefix(s, p) /\ r.time = Beyond(tq, e)
      /\ r.last = (IF p = 0 THEN last ELSE s[p])
      /\ (\A j \in 1 .. e : tq[j].at <= now - MaxWait)
      /\ (p < Len(s) /\ e < Len(tq) => tq[e + 1].at > now - MaxWait)
      /\ ((\A i \in 1 .. p : s[i] = last + i) \/ (\E j \in 1 .. e : s[p] <= tq[j].id))
  BY <1>2 DEF Releases
<1>4. Len(s) \in Nat /\ Len(tq) \in Nat /\ (\A i \in 1 .. Len(s) : s[i] \in Ids)
      /\ \A j \in 1 .. Len(tq) : tq[j] \in Capsules
  BY <1>1
<1>5. Prefix(s, p) \in Seq(Ids) /\ Beyond(s, p) \in Seq(Ids) /\ Len(Beyond(s, p)) = Len(s) - p
  BY <1>1, <1>2, PrefixFacts, BeyondFacts
<1>6. out \o r.out \in Seq(Ids)
  BY <1>1, <1>3, <1>5, ConcatFacts
<1>7. \A x : Occurs(r.seq, x) \/ Occurs(out \o r.out, x) <=> Occurs(s, x) \/ Occurs(out, x)
  BY <1>1, <1>3, HandOnOccurs
<1>8. /\ Timely(r.time, now)
      /\ \A j \in 1 .. Len(r.time) : \E i \in 1 .. Len(tq) : r.time[j] = tq[i]
      /\ (e < Len(tq) => tq[e + 1].at > now - MaxWait) =>
           \A j \in 1 .. Len(r.time) : r.time[j].at > now - MaxWait
  <2> DEFINE b == Beyond(tq, e)
  <2>1. Timely(tq, now)
    BY DEF Held
  <2>2. /\ Timely(b, now)
        /\ \A j \in 1 .. Len(b) : \E i \in 1 .. Len(tq) : b[j] = tq[i]
        /\ (e < Len(tq) => tq[e + 1].at > now - MaxWait) =>
             \A j \in 1 .. Len(b) : b[j].at > now - MaxWait
    BY <1>1, <2>1, ReleaseTimely
  <2>3. r.time = b
    BY <1>3
  <2> HIDE DEF b
  <2> QED BY <2>2, <2>3
<1>9. Held(r.seq, r.time, r.last, out \o r.out, w)
  <2>1. Sound(r.seq, r.time, r.last, out \o r.out)
    BY <1>1, <1>2, ReleaseKeeps
  <2>2. \A c \in w : ~Occurs(r.seq, c.id) /\ ~Occurs(out \o r.out, c.id)
    BY <1>7 DEF Held
  <2>3. \A c \in w : \A j \in 1 .. Len(r.time) : c.id < r.time[j].id => c.at <= r.time[j].at
    BY <1>8 DEF Held
  <2>4. \A j \in 1 .. Len(r.time) : r.time[j].id < sent
    BY <1>8 DEF Held
  <2>5. \A i \in 1 .. Len(out \o r.out) : (out \o r.out)[i] < sent
    <3>1. \A x \in Ids : Occurs(out, x) => x < sent
      BY <1>1, BelowOccurs DEF Held
    <3>2. \A x \in Ids : Occurs(s, x) => x < sent
      BY <1>1 DEF Held, Sound, Queued
    <3>3. \A x \in Ids : Occurs(out \o r.out, x) => x < sent
      BY <1>7, <3>1, <3>2
    <3> QED BY <1>6, <3>3, BelowOccurs
  <2> QED BY <1>8, <2>1, <2>2, <2>3, <2>4, <2>5 DEF Held
<1>10. Len(r.seq) <= Len(s)
  BY <1>3, <1>4, <1>5
<1>11. ASSUME r.seq # <<>> PROVE \A j \in 1 .. Len(r.time) : r.time[j].at > now - MaxWait
  <2>1. Len(Beyond(s, p)) # 0
    BY <1>3, <1>5, <1>11
  <2>2. p < Len(s)
    BY <1>4, <1>5, <2>1
  <2> QED BY <1>3, <1>8, <2>2
<1>12. r.last \in Ids \cup {last}
  BY <1>3, <1>4
<1>13. ASSUME HeldInOrder(s, last, out, w)
       PROVE  HeldInOrder(r.seq, r.last, out \o r.out, w)
  <2>1. CASE p = 0
    <3>1. r.seq = s /\ out \o r.out = out /\ r.last = last
      BY <1>1, <1>3, <2>1, HandOnNothing
    <3> QED BY <1>13, <3>1
  <2>2. CASE p # 0
    <3>1. p \in 1 .. Len(s) /\ r.last = s[p] /\ s[p] \in Ids
      BY <1>3, <1>4, <2>2
    <3>2. Ahead(r.seq, r.last, out \o r.out)
      BY <1>1, <1>3, <1>13, <3>1, HandOnAhead DEF HeldInOrder
    <3>3. out # <<>>
      <4>1. s # <<>>
        BY <1>4, <3>1
      <4> QED BY <1>1, <4>1 DEF Sound
    <3>4. out \o r.out # <<>> /\ (out \o r.out)[1] = out[1]
      BY <1>1, <1>3, <1>5, <3>3, ConcatFirst
    <3>5. ASSUME NEW c \in w, ~ (now - c.at >= MaxWait), ~ (c.id < out[1])
          PROVE  c.id > s[p]
      <4>1. c \in Capsules /\ c.id \in Ids /\ c.id \in Int /\ c.at \in Int
        BY QueueAssumption DEF Capsules, Ids, Times
      <4>2. c.id > last
        BY <1>13, <3>3, <3>5 DEF HeldInOrder, WillBeFine
      <4>3. \A i \in 1 .. Len(s) : s[i] # c.id
        BY <4>1 DEF Held, Occurs
      <4>4. s[p] # c.id /\ s[p] \in Int
        BY <3>1, <4>3, QueueAssumption DEF Ids
      <4>5. CASE \A i \in 1 .. p : s[i] = last + i
        <5>1. last + p = s[p]
          BY <3>1, <4>5
        <5>2. ASSUME c.id < last + p PROVE FALSE
          <6>1. c.id - last \in 1 .. p /\ last + (c.id - last) = c.id
            BY <3>1, <4>1, <4>2, <5>2
          <6>2. s[c.id - last] = c.id /\ c.id - last \in 1 .. Len(s)
            BY <1>4, <3>1, <4>5, <6>1
          <6> QED BY <4>3, <6>2
        <5> QED BY <3>1, <4>1, <4>4, <5>1, <5>2
      <4>6. CASE \E j \in 1 .. e : s[p] <= tq[j].id
        <5>1. PICK j \in 1 .. e : s[p] <= tq[j].id
          BY <4>6
        <5>2. j \in 1 .. Len(tq) /\ tq[j].at <= now - MaxWait
          BY <1>2, <1>3, <1>4, <5>1
        <5>3. tq[j].id \in Int /\ tq[j].at \in Int
          BY <1>4, <5>2, QueueAssumption DEF Capsules, Ids, Times
        <5>4. c.id < tq[j].id => c.at <= tq[j].at
          BY <5>2 DEF Held
        <5>5. MaxWait \in Int
          BY QueueAssumption
        <5>6. c.at > now - MaxWait
          BY <3>5, <4>1, <5>5
        <5>7. ~ (c.id < tq[j].id)
          BY <4>1, <5>2, <5>3, <5>4, <5>5, <5>6
        <5> QED BY <4>1, <4>4, <5>1, <5>3, <5>7
      <4> QED BY <1>3, <4>5, <4>6
    <3>6. \A c \in w : WillBeFine(c, r.last, out \o r.out, now)
      BY <3>1, <3>4, <3>5 DEF WillBeFine
    <3> QED BY <3>2, <3>6 DEF HeldInOrder
  <2> QED BY <2>1, <2>2
<1> QED BY <1>9, <1>10, <1>11, <1>12, <1>13

\* A full queue hands on its first Capsule.
LEMMA GiveHeld ==
  ASSUME TypeOK, Held(q_seq, q_time, lastDataId, delivered, wire), q_seq # <<>>
  PROVE  /\ Held(Tail(q_seq), q_time, Head(q_seq), delivered \o <<Head(q_seq)>>, wire)
         /\ Len(Tail(q_seq)) = Len(q_seq) - 1
         /\ Head(q_seq) \in Ids
<1> DEFINE s == q_seq
           o == delivered \o Prefix(s, 1)
<1>1. s \in Seq(Ids) /\ delivered \in Seq(Ids) /\ Sound(s, q_time, lastDataId, delivered)
  BY DEF Held, TypeOK
<1>2. Len(s) \in Nat /\ Len(s) # 0 /\ 1 \in 1 .. Len(s) /\ 1 \in 0 .. Len(s)
  BY <1>1
<1>3. Tail(s) = Beyond(s, 1) /\ Head(s) = s[1] /\ s[1] \in Ids /\ Len(Tail(s)) = Len(s) - 1
  <2>1. Tail(s) = SubSeq(s, 2, Len(s))
    BY <1>1, TailIsSubSeq
  <2>2. Tail(s) = Beyond(s, 1)
    BY <2>1 DEF Beyond
  <2> QED BY <1>1, <1>2, <2>2
<1>4. Prefix(s, 1) = <<s[1]>>
  <2>1. Prefix(s, 1) \in Seq(Ids) /\ Len(Prefix(s, 1)) = 1 /\ \A i \in 1 .. 1 : Prefix(s, 1)[i] = s[i]
    BY <1>1, <1>2, PrefixFacts
  <2>2. <<s[1]>> \in Seq(Ids) /\ Len(<<s[1]>>) = 1 /\ \A i \in 1 .. 1 : <<s[1]>>[i] = s[i]
    BY <1>3
  <2> QED BY <2>1, <2>2, SeqEqual
<1>5. Sound(Beyond(s, 1), q_time, s[1], o)
  BY <1>1, <1>2, HandOnKeeps
<1>6. \A x : Occurs(Beyond(s, 1), x) \/ Occurs(o, x) <=> Occurs(s, x) \/ Occurs(delivered, x)
  BY <1>1, <1>2, HandOnOccurs
<1>7. o \in Seq(Ids)
  BY <1>5 DEF Sound
<1>8. \A i \in 1 .. Len(o) : o[i] < sent
  <2>1. \A x \in Ids : Occurs(delivered, x) => x < sent
    BY <1>1, BelowOccurs DEF Held
  <2>2. \A x \in Ids : Occurs(s, x) => x < sent
    BY <1>1 DEF Held, Sound, Queued
  <2>3. \A x \in Ids : Occurs(o, x) => x < sent
    BY <1>6, <2>1, <2>2
  <2> QED BY <1>7, <2>3, BelowOccurs
<1>9. Held(Beyond(s, 1), q_time, s[1], o, wire)
  BY <1>5, <1>6, <1>8 DEF Held
<1> QED BY <1>3, <1>4, <1>9

\* Capsule c is queued.
LEMMA InsertHeld ==
  ASSUME TypeOK, OnWire, NEW c \in wire, NEW s, NEW last, NEW out, out # <<>>,
         Held(s, q_time, last, out, wire)
  PROVE  /\ Held(inserted(s, c.id), Append(q_time, [id |-> c.id, at |-> now]), last, out, wire \ {c})
         /\ HeldInOrder(s, last, out, wire) /\ ~ (now - c.at >= MaxWait) /\ ~ (c.id < out[1]) =>
              HeldInOrder(inserted(s, c.id), last, out, wire \ {c})
         /\ Len(inserted(s, c.id)) = Len(s) + 1
<1> DEFINE id == c.id
           d  == [id |-> id, at |-> now]
           s1 == inserted(s, id)
           q  == Append(q_time, d)
<1>1. s \in Seq(Ids) /\ Rising(s) /\ q_time \in Seq(Capsules) /\ out \in Seq(Ids)
      /\ Sound(s, q_time, last, out) /\ Timely(q_time, now)
  BY DEF Held, Sound
<1>2. c \in Capsules /\ id \in Ids /\ now \in Times /\ d \in Capsules /\ d.id = id /\ d.at = now
  BY DEF TypeOK, Capsules
<1>3. ~Occurs(s, id) /\ ~Occurs(out, id)
  BY DEF Held
<1>4. s1 \in Seq(Ids) /\ Rising(s1) /\ Len(s1) = Len(s) + 1
      /\ \A x \in Ids : Occurs(s1, x) <=> Occurs(s, x) \/ x = id
  BY <1>1, <1>2, <1>3, InsertedFacts
<1>5. /\ q \in Seq(Capsules) /\ Len(q_time) \in Nat /\ Len(q) = Len(q_time) + 1
      /\ \A j \in 1 .. Len(q_time) : q[j] = q_time[j]
      /\ q[Len(q_time) + 1] = d
  BY <1>1, <1>2, AppendProperties
<1> HIDE DEF s1, q, d
<1>6. \A j \in 1 .. Len(q) : (j \in 1 .. Len(q_time) /\ q[j] = q_time[j])
                             \/ (j = Len(q_time) + 1 /\ q[j] = d)
  BY <1>5
<1>7. \A x \in Ids : Queued(q, x) <=> Queued(q_time, x) \/ x = id
  <2>1. ASSUME NEW x \in Ids, Queued(q, x) PROVE Queued(q_time, x) \/ x = id
    BY <1>2, <1>6, <2>1 DEF Queued
  <2>2. ASSUME NEW x \in Ids, Queued(q_time, x) PROVE Queued(q, x)
    <3>1. PICK j \in 1 .. Len(q_time) : q_time[j].id = x
      BY <2>2 DEF Queued
    <3>2. j \in 1 .. Len(q) /\ q[j] = q_time[j]
      BY <1>5, <3>1
    <3> QED BY <3>1, <3>2 DEF Queued
  <2>3. Queued(q, id)
    <3>1. Len(q_time) + 1 \in 1 .. Len(q)
      BY <1>5
    <3> QED BY <1>2, <1>5, <3>1 DEF Queued
  <2> QED BY <2>1, <2>2, <2>3
<1>8. Sound(s1, q, last, out)
  <2>1. \A x \in Ids : Occurs(s1, x) => Queued(q, x) /\ ~Occurs(out, x)
    BY <1>1, <1>3, <1>4, <1>7 DEF Sound
  <2>2. \A x \in Ids : Queued(q, x) => Occurs(s1, x) \/ Occurs(out, x)
    BY <1>1, <1>4, <1>7 DEF Sound
  <2>3. Distinct(out) /\ last = out[Len(out)]
    BY <1>1 DEF Sound
  <2> QED BY <1>1, <1>4, <1>5, <2>1, <2>2, <2>3 DEF Sound
<1>9. Timely(q, now)
  <2>1. \A j \in 1 .. Len(q_time) : q_time[j].at <= now
    BY <1>1 DEF Timely
  <2>2. now \in Int
    BY <1>2, QueueAssumption DEF Times
  <2>3. \A j \in 1 .. Len(q) : q[j].at <= now
    BY <1>2, <1>6, <2>1, <2>2
  <2>4. ASSUME NEW i \in 1 .. Len(q), NEW j \in 1 .. Len(q), i <= j PROVE q[i].at <= q[j].at
    <3>1. CASE j = Len(q_time) + 1
      BY <1>2, <1>5, <2>3, <3>1
    <3>2. CASE j \in 1 .. Len(q_time)
      <4>1. i \in 1 .. Len(q_time)
        BY <1>5, <2>4, <3>2
      <4> QED BY <1>1, <1>5, <2>4, <3>2, <4>1 DEF Timely
    <3> QED BY <1>6, <3>1, <3>2
  <2> QED BY <2>3, <2>4 DEF Timely
<1>10. \A x \in wire \ {c} : x \in Capsules /\ x.id \in Ids /\ x.id # id /\ x.at <= now
  BY DEF OnWire, TypeOK, Capsules
<1>11. Held(s1, q, last, out, wire \ {c})
  <2>1. \A x \in wire \ {c} : ~Occurs(s1, x.id) /\ ~Occurs(out, x.id)
    BY <1>4, <1>10 DEF Held
  <2>2. \A x \in wire \ {c} : \A j \in 1 .. Len(q) : x.id < q[j].id => x.at <= q[j].at
    BY <1>2, <1>6, <1>10 DEF Held
  <2>3. \A j \in 1 .. Len(q) : q[j].id < sent
    BY <1>2, <1>6 DEF Held, OnWire
  <2>4. \A i \in 1 .. Len(out) : out[i] < sent
    BY DEF Held
  <2> QED BY <1>8, <1>9, <2>1, <2>2, <2>3, <2>4 DEF Held
<1>12. ASSUME HeldInOrder(s, last, out, wire), ~ (now - c.at >= MaxWait), ~ (id < out[1])
       PROVE  HeldInOrder(s1, last, out, wire \ {c})
  <2>1. id > last
    BY <1>12 DEF HeldInOrder, WillBeFine
  <2>2. Ahead(s1, last, out)
    BY <1>4, <1>12, <2>1 DEF HeldInOrder, Ahead
  <2> QED BY <1>12, <2>2 DEF HeldInOrder
<1> QED BY <1>4, <1>11, <1>12 DEF s1, q, d

\* Capsule c is handed on without being queued.
LEMMA PassHeld ==
  ASSUME TypeOK, OnWire, Held(q_seq, q_time, lastDataId, delivered, wire),
         NEW c \in wire, lastDataId = -1 \/ c.id = lastDataId + 1
  PROVE  /\ Held(q_seq, q_time, c.id, Append(delivered, c.id), wire \ {c})
         /\ HeldInOrder(q_seq, lastDataId, delivered, wire) =>
              HeldInOrder(q_seq, c.id, Append(delivered, c.id), wire \ {c})
<1> DEFINE id == c.id
           o  == Append(delivered, id)
           n  == Len(delivered)
<1>1. /\ q_seq \in Seq(Ids) /\ q_time \in Seq(Capsules) /\ delivered \in Seq(Ids)
      /\ Rising(q_seq) /\ Distinct(delivered) /\ Timely(q_time, now)
      /\ \A x \in Ids : Occurs(q_seq, x) => Queued(q_time, x) /\ ~Occurs(delivered, x)
      /\ \A x \in Ids : Queued(q_time, x) => Occurs(q_seq, x) \/ Occurs(delivered, x)
      /\ IF delivered = <<>> THEN lastDataId = -1 /\ q_seq = <<>>
                             ELSE lastDataId = delivered[Len(delivered)]
  BY DEF Held, Sound
<1>2. c \in Capsules /\ id \in Ids /\ id \in Int
  BY QueueAssumption DEF TypeOK, Capsules, Ids
<1>3. ~Occurs(q_seq, id) /\ ~Occurs(delivered, id)
  BY DEF Held
<1>4. /\ o \in Seq(Ids) /\ o # <<>> /\ n \in Nat /\ Len(o) = n + 1
      /\ \A i \in 1 .. n : o[i] = delivered[i]
      /\ o[n + 1] = id
  BY <1>1, <1>2, AppendProperties
<1> HIDE DEF o
<1>5. \A i \in 1 .. Len(o) : (i \in 1 .. n /\ o[i] = delivered[i]) \/ (i = n + 1 /\ o[i] = id)
  BY <1>4
<1>6. \A x : Occurs(o, x) <=> Occurs(delivered, x) \/ x = id
  <2>1. \A x : Occurs(o, x) => Occurs(delivered, x) \/ x = id
    BY <1>5 DEF Occurs
  <2>2. \A x : Occurs(delivered, x) => Occurs(o, x)
    <3>1. \A i \in 1 .. n : i \in 1 .. Len(o) /\ o[i] = delivered[i]
      BY <1>4
    <3> QED BY <3>1 DEF Occurs
  <2>3. Occurs(o, id)
    <3>1. n + 1 \in 1 .. Len(o)
      BY <1>4
    <3> QED BY <1>4, <3>1 DEF Occurs
  <2> QED BY <2>1, <2>2, <2>3
<1>7. Distinct(o)
  <2>1. ASSUME NEW i \in 1 .. Len(o), NEW j \in 1 .. Len(o), o[i] = o[j] PROVE i = j
    <3>1. \A k \in 1 .. n : delivered[k] # id
      BY <1>3 DEF Occurs
    <3> QED BY <1>1, <1>5, <2>1, <3>1 DEF Distinct
  <2> QED BY <2>1 DEF Distinct
<1>8. Sound(q_seq, q_time, id, o)
  <2>1. \A x \in Ids : Occurs(q_seq, x) => Queued(q_time, x) /\ ~Occurs(o, x)
    BY <1>1, <1>3, <1>6
  <2>2. \A x \in Ids : Queued(q_time, x) => Occurs(q_seq, x) \/ Occurs(o, x)
    BY <1>1, <1>6
  <2> QED BY <1>1, <1>4, <1>7, <2>1, <2>2 DEF Sound
<1>9. \A x \in wire \ {c} : x \in Capsules /\ x.id \in Ids /\ x.id \in Int /\ x.id # id
  BY QueueAssumption DEF OnWire, TypeOK, Capsules, Ids
<1>10. Held(q_seq, q_time, id, o, wire \ {c})
  <2>1. \A x \in wire \ {c} : ~Occurs(q_seq, x.id) /\ ~Occurs(o, x.id)
    BY <1>6, <1>9 DEF Held
  <2>2. \A i \in 1 .. Len(o) : o[i] < sent
    BY <1>5 DEF Held, OnWire
  <2>3. \A x \in wire \ {c} : \A j \in 1 .. Len(q_time) : x.id < q_time[j].id => x.at <= q_time[j].at
    BY DEF Held
  <2>4. \A j \in 1 .. Len(q_time) : q_time[j].id < sent
    BY DEF Held
  <2> QED BY <1>1, <1>8, <2>1, <2>2, <2>3, <2>4 DEF Held
<1>11. lastDataId \in Int /\ (delivered = <<>> <=> lastDataId = -1)
  <2>1. delivered # <<>> => n \in 1 .. n /\ delivered[n] \in Ids
    BY <1>1, <1>4
  <2> QED BY <1>1, <2>1, QueueAssumption DEF Ids
<1>12. ASSUME HeldInOrder(q_seq, lastDataId, delivered, wire)
       PROVE  HeldInOrder(q_seq, id, o, wire \ {c})
  <2>0. Rising(delivered) /\ (\A x \in Ids : Occurs(q_seq, x) => x > lastDataId)
        /\ \A x \in wire : WillBeFine(x, lastDataId, delivered, now)
    BY <1>12 DEF HeldInOrder, Ahead
  <2>1. CASE delivered = <<>>
    <3>1. n = 0 /\ q_seq = <<>>
      BY <1>1, <2>1
    <3>2. Rising(o)
      BY <1>4, <3>1 DEF Rising
    <3>3. \A x : ~Occurs(q_seq, x)
      BY <3>1 DEF Occurs
    <3>4. o[1] = id
      BY <1>4, <3>1
    <3>5. \A x \in wire \ {c} : WillBeFine(x, id, o, now)
      <4>1. \A x \in wire \ {c} : x.id > id \/ x.id < id
        BY <1>2, <1>9
      <4> QED BY <1>4, <3>4, <4>1 DEF WillBeFine
    <3> QED BY <3>2, <3>3, <3>5 DEF HeldInOrder, Ahead
  <2>2. CASE delivered # <<>>
    <3>1. id = lastDataId + 1 /\ n \in 1 .. n /\ lastDataId = delivered[n]
      BY <1>1, <1>4, <1>11, <2>2
    <3>2. \A i \in 1 .. n : delivered[i] < id
      <4>1. \A i \in 1 .. n : i = n \/ delivered[i] < delivered[n]
        BY <1>4, <2>0, <3>1 DEF Rising
      <4>2. \A i \in 1 .. n : delivered[i] \in Int
        BY <1>1, QueueAssumption DEF Ids
      <4> QED BY <1>11, <3>1, <4>1, <4>2
    <3>3. Rising(o)
      <4>1. ASSUME NEW i \in 1 .. Len(o), NEW j \in 1 .. Len(o), i < j PROVE o[i] < o[j]
        <5>1. i \in 1 .. n /\ o[i] = delivered[i]
          BY <1>4, <4>1
        <5>2. CASE j = n + 1
          BY <1>4, <3>2, <5>1, <5>2
        <5>3. CASE j \in 1 .. n
          BY <1>4, <2>0, <4>1, <5>1, <5>3 DEF Rising
        <5> QED BY <1>4, <5>2, <5>3
      <4> QED BY <4>1 DEF Rising
    <3>4. \A x \in Ids : Occurs(q_seq, x) => x > id
      <4>1. \A x \in Ids : Occurs(q_seq, x) => x > lastDataId /\ x # id /\ x \in Int
        BY <1>3, <2>0, QueueAssumption DEF Ids
      <4> QED BY <1>11, <3>1, <4>1
    <3>5. \A x \in wire \ {c} : WillBeFine(x, id, o, now)
      <4>1. ASSUME NEW x \in wire \ {c} PROVE WillBeFine(x, id, o, now)
        <5>1. WillBeFine(x, lastDataId, delivered, now)
          BY <2>0
        <5>2. o[1] = delivered[1]
          BY <1>4, <3>1
        <5>3. x.id > lastDataId => x.id > id
          BY <1>9, <1>11, <3>1
        <5> QED BY <1>4, <5>1, <5>2, <5>3 DEF WillBeFine
      <4> QED BY <4>1
    <3> QED BY <3>3, <3>4, <3>5 DEF HeldInOrder, Ahead
  <2> QED BY <2>1, <2>2
<1> QED BY <1>10, <1>12 DEF o

-----------------------------------------------------------------------------
(* The steps. *)

\* The Capsules on the wire may get fewer.
LEMMA HeldFewer ==
  ASSUME NEW s, NEW tq, NEW last, NEW out, NEW w, NEW v, v \subseteq w
  PROVE  /\ Held(s, tq, last, out, w) => Held(s, tq, last, out, v)
         /\ HeldInOrder(s, last, out, w) => HeldInOrder(s, last, out, v)
BY DEF Held, HeldInOrder

\* Held and HeldInOrder are about now and sent beside their arguments.
LEMMA HeldLater ==
  ASSUME now' = now, sent' = sent, NEW s, NEW tq, NEW last, NEW out, NEW w
  PROVE  /\ Held(s, tq, last, out, w) =>
              /\ Sound(s, tq, last, out)
              /\ Timely(tq, now')
              /\ \A c \in w : ~Occurs(s, c.id) /\ ~Occurs(out, c.id)
              /\ \A c \in w : \A j \in 1 .. Len(tq) : c.id < tq[j].id => c.at <= tq[j].at
              /\ \A j \in 1 .. Len(tq) : tq[j].id < sent'
              /\ \A i \in 1 .. Len(out) : out[i] < sent'
         /\ HeldInOrder(s, last, out, w) =>
              Ahead(s, last, out) /\ \A c \in w : WillBeFine(c, last, out, now')
BY DEF Held, HeldInOrder

LEMMA TypeFacts ==
  ASSUME TypeOK, OnWire, Held(q_seq, q_time, lastDataId, delivered, wire)
  PROVE  /\ now \in Nat /\ now \in Int /\ sent \in Nat /\ lastDataId \in Int
         /\ wire \in SUBSET Capsules
         /\ MaxWait \in Nat \ {0} /\ Size \in Nat \ {0}
         /\ Len(q_seq) \in Nat
         /\ delivered = <<>> <=> lastDataId = -1
<1>1. now \in Nat /\ sent \in Nat /\ lastDataId \in Int /\ wire \in SUBSET Capsules
      /\ MaxWait \in Nat \ {0} /\ Size \in Nat \ {0} /\ Len(q_seq) \in Nat
  BY QueueAssumption DEF TypeOK, Times, Ids
<1>2. delivered \in Seq(Ids)
      /\ IF delivered = <<>> THEN lastDataId = -1 ELSE lastDataId = delivered[Len(delivered)]
  BY DEF Held, Sound
<1>3. delivered # <<>> => Len(delivered) \in 1 .. Len(delivered) /\ delivered[Len(delivered)] \in Ids
  BY <1>2
<1>4. -1 \notin Ids
  BY QueueAssumption DEF Ids
<1> QED BY <1>1, <1>2, <1>3, <1>4

\* After a release: s, tq, last and out are the queues, the last id and what was
\* handed on before it.
LEMMA AfterRelease ==
  ASSUME IInv, NEW s, NEW tq, NEW last, NEW out, NEW w \in SUBSET wire, last \in Ids \cup {-1},
         Held(s, tq, last, out, w), Len(s) <= Size, s \in Seq(Ids),
         NEW r, r = releaseQueue(s, tq, last, now),
         wire' = w, now' = now, sent' = sent,
         q_seq' = r.seq, q_time' = r.time, lastDataId' = r.last, delivered' = out \o r.out,
         punctual' \in BOOLEAN,
         punctual' => HeldInOrder(s, last, out, w),
         timers' \in SUBSET (timers \cup (IF r.seq = <<>> THEN {} ELSE {r.time[1].at + MaxWait}))
  PROVE  /\ IInv'
         /\ q_seq' # <<>> => \A j \in 1 .. Len(q_time') : q_time'[j].at > now - MaxWait
<1>0. /\ now \in Nat /\ now \in Int /\ sent \in Int /\ last \in Int /\ w \in SUBSET Capsules
      /\ MaxWait \in Nat \ {0} /\ Size \in Nat \ {0}
  BY TypeFacts, QueueAssumption DEF IInv, Ids
<1>1. /\ Held(r.seq, r.time, r.last, out \o r.out, w)
      /\ HeldInOrder(s, last, out, w) => HeldInOrder(r.seq, r.last, out \o r.out, w)
      /\ Len(r.seq) <= Len(s)
      /\ r.seq # <<>> => \A j \in 1 .. Len(r.time) : r.time[j].at > now - MaxWait
      /\ r.last \in Ids \cup {last}
  BY <1>0, ReleaseHeld
<1>2. Sound(r.seq, r.time, r.last, out \o r.out)
  BY <1>1 DEF Held
<1>3. r.seq \in Seq(Ids) /\ r.time \in Seq(Capsules) /\ out \o r.out \in Seq(Ids)
  BY <1>2 DEF Sound
<1>4. ASSUME r.seq # <<>>
      PROVE  r.time[1].at + MaxWait \in Nat /\ r.time[1].at + MaxWait >= now
  <2>1. Len(r.seq) \in Nat /\ Len(r.seq) # 0 /\ Len(r.time) \in Nat
    BY <1>3, <1>4
  <2>2. 1 \in 1 .. Len(r.seq) /\ r.seq[1] \in Ids
    BY <1>3, <2>1
  <2>3. Occurs(r.seq, r.seq[1])
    BY <2>2 DEF Occurs
  <2>4. Queued(r.time, r.seq[1])
    BY <1>2, <2>2, <2>3 DEF Sound
  <2>5. 1 \in 1 .. Len(r.time)
    BY <2>1, <2>4 DEF Queued
  <2>6. r.time[1] \in Capsules /\ r.time[1].at > now - MaxWait
    BY <1>1, <1>3, <1>4, <2>5
  <2>7. r.time[1].at \in Nat
    BY <2>6, QueueAssumption DEF Capsules, Times
  <2> QED BY <1>0, <2>6, <2>7
<1>5. timers' \in SUBSET Nat /\ \A t \in timers' : t >= now
  <2>1. timers \in SUBSET Nat /\ \A t \in timers : t >= now
    BY DEF IInv, TypeOK, TimersAhead
  <2>2. CASE r.seq = <<>>
    BY <2>1, <2>2
  <2>3. CASE r.seq # <<>>
    <3>1. timers' \subseteq timers \cup {r.time[1].at + MaxWait}
      BY <2>3
    <3> QED BY <1>4, <2>1, <2>3, <3>1
  <2> QED BY <2>2, <2>3
<1>6. TypeOK'
  <2>1. lastDataId' \in Ids \cup {-1}
    BY <1>1
  <2>2. now' \in Times /\ sent' \in 0 .. MaxId + 1
    BY DEF IInv, TypeOK
  <2> QED BY <1>0, <1>3, <1>5, <2>1, <2>2 DEF TypeOK
<1>7. Held(q_seq, q_time, lastDataId, delivered, wire)'
  <2>1. /\ Sound(r.seq, r.time, r.last, out \o r.out)
        /\ Timely(r.time, now')
        /\ \A c \in w : ~Occurs(r.seq, c.id) /\ ~Occurs(out \o r.out, c.id)
        /\ \A c \in w : \A j \in 1 .. Len(r.time) : c.id < r.time[j].id => c.at <= r.time[j].at
        /\ \A j \in 1 .. Len(r.time) : r.time[j].id < sent'
        /\ \A i \in 1 .. Len(out \o r.out) : (out \o r.out)[i] < sent'
    BY <1>1, HeldLater
  <2>2. /\ Sound(q_seq', q_time', lastDataId', delivered')
        /\ Timely(q_time', now')
        /\ \A c \in wire' : ~Occurs(q_seq', c.id) /\ ~Occurs(delivered', c.id)
        /\ \A c \in wire' : \A j \in 1 .. Len(q_time') : c.id < q_time'[j].id => c.at <= q_time'[j].at
        /\ \A j \in 1 .. Len(q_time') : q_time'[j].id < sent'
        /\ \A i \in 1 .. Len(delivered') : delivered'[i] < sent'
    BY <2>1
  <2> QED BY <2>2 DEF Held
<1>8. Len(q_seq') <= Size
  <2>1. Len(r.seq) \in Nat /\ Len(s) \in Nat
    BY <1>3
  <2> QED BY <1>0, <1>1, <2>1
<1>9. OnWire'
  BY DEF IInv, OnWire
<1>10. TimersAhead'
  BY <1>5 DEF TimersAhead
<1>11. ASSUME punctual' PROVE HeldInOrder(q_seq, lastDataId, delivered, wire)'
  <2>1. HeldInOrder(r.seq, r.last, out \o r.out, w)
    BY <1>1, <1>11
  <2>2. Ahead(r.seq, r.last, out \o r.out)
        /\ \A c \in w : WillBeFine(c, r.last, out \o r.out, now')
    BY <2>1, HeldLater
  <2>3. Ahead(q_seq', lastDataId', delivered')
        /\ \A c \in wire' : WillBeFine(c, lastDataId', delivered', now')
    BY <2>2
  <2> QED BY <2>3 DEF HeldInOrder
<1>12. q_seq' # <<>> => \A j \in 1 .. Len(q_time') : q_time'[j].at > now - MaxWait
  BY <1>1
<1> QED BY <1>6, <1>7, <1>8, <1>9, <1>10, <1>11, <1>12 DEF IInv

\* What a step leaves behind: the invariant, and nothing overdue if it queued a
\* Capsule or released some.
Good ==
  /\ IInv'
  /\ q_time' # q_time /\ q_seq' # <<>> =>
       \A j \in 1 .. Len(q_time') : q_time'[j].at > now - MaxWait

LEMMA AutoKeeps ==
  ASSUME IInv, autoDequeueTask
  PROVE  Good
<1> DEFINE r == releaseQueue(q_seq, q_time, lastDataId, now)
<1>1. /\ timers' = timers \ {now}
      /\ q_seq' = r.seq /\ q_time' = r.time /\ lastDataId' = r.last
      /\ delivered' = delivered \o r.out
      /\ now' = now /\ sent' = sent /\ wire' = wire /\ punctual' = punctual
  BY DEF autoDequeueTask, envVars
<1>2. TypeOK /\ Held(q_seq, q_time, lastDataId, delivered, wire) /\ Len(q_seq) <= Size
      /\ (punctual => HeldInOrder(q_seq, lastDataId, delivered, wire))
  BY DEF IInv
<1>3. /\ wire \in SUBSET wire /\ lastDataId \in Ids \cup {-1} /\ q_seq \in Seq(Ids)
      /\ punctual' \in BOOLEAN
  BY <1>1, <1>2 DEF TypeOK
<1> HIDE DEF r
<1>4. timers' \in SUBSET (timers \cup (IF r.seq = <<>> THEN {} ELSE {r.time[1].at + MaxWait}))
  BY <1>1
<1>5. r = releaseQueue(q_seq, q_time, lastDataId, now)
  BY DEF r
<1>6. /\ IInv'
      /\ q_seq' # <<>> => \A j \in 1 .. Len(q_time') : q_time'[j].at > now - MaxWait
  BY <1>1, <1>2, <1>3, <1>4, <1>5, AfterRelease
<1> QED BY <1>6 DEF Good

LEMMA QueueKeeps ==
  ASSUME IInv, NEW c \in wire, wire' = wire \ {c}, queue(c.id),
         punctual' = (punctual /\ ~late(c) /\ ~full), now' = now, sent' = sent
  PROVE  Good
<1> DEFINE given == IF full THEN <<Head(q_seq)>> ELSE <<>>
           last  == IF full THEN Head(q_seq) ELSE lastDataId
           out   == delivered \o given
           s     == inserted(kept, c.id)
           tq    == Append(q_time, [id |-> c.id, at |-> now])
           w     == wire \ {c}
           r     == releaseQueue(s, tq, last, now)
<1>1. /\ lastDataId # -1
      /\ q_seq' = r.seq /\ q_time' = r.time /\ lastDataId' = r.last
      /\ delivered' = out \o r.out
      /\ timers' = IF r.seq = <<>> THEN timers ELSE timers \cup {r.time[1].at + MaxWait}
  BY DEF queue, timersAfter
<1>2. TypeOK /\ Held(q_seq, q_time, lastDataId, delivered, wire) /\ Len(q_seq) <= Size /\ OnWire
      /\ (punctual => HeldInOrder(q_seq, lastDataId, delivered, wire))
  BY DEF IInv
<1>3. Len(q_seq) \in Nat /\ Size \in Nat \ {0} /\ delivered # <<>>
  BY <1>1, <1>2, TypeFacts
<1>4. /\ Held(kept, q_time, last, out, wire) /\ out # <<>> /\ Len(kept) + 1 <= Size
      /\ last \in Ids \cup {-1}
      /\ ~full => last = lastDataId /\ out = delivered /\ kept = q_seq
  <2>1. CASE full
    <3>1. q_seq # <<>>
      BY <1>3, <2>1 DEF full
    <3>2. /\ Held(Tail(q_seq), q_time, Head(q_seq), delivered \o <<Head(q_seq)>>, wire)
          /\ Len(Tail(q_seq)) = Len(q_seq) - 1
          /\ Head(q_seq) \in Ids
      BY <1>2, <3>1, GiveHeld
    <3>3. kept = Tail(q_seq) /\ last = Head(q_seq) /\ out = delivered \o <<Head(q_seq)>>
      BY <2>1 DEF kept
    <3>4. <<Head(q_seq)>> \in Seq(Ids) /\ delivered \in Seq(Ids)
      BY <1>2, <3>2 DEF TypeOK
    <3>5. out # <<>>
      BY <1>3, <3>3, <3>4, ConcatFirst
    <3> HIDE DEF last, out
    <3>6. Len(kept) = Len(q_seq) - 1
      BY <3>2, <3>3
    <3> QED BY <1>2, <1>3, <2>1, <3>2, <3>3, <3>5, <3>6
  <2>2. CASE ~full
    <3>1. kept = q_seq /\ last = lastDataId /\ given = <<>>
      BY <2>2 DEF kept
    <3>2. out = delivered
      BY <1>2, <3>1, ConcatEmptySeq DEF TypeOK
    <3>3. Len(q_seq) + 1 <= Size
      BY <1>2, <1>3, <2>2 DEF full
    <3> HIDE DEF last, out
    <3> QED BY <1>2, <1>3, <2>2, <3>1, <3>2, <3>3 DEF TypeOK
  <2> QED BY <2>1, <2>2
<1> HIDE DEF last, out
<1>5. /\ Held(s, tq, last, out, w)
      /\ HeldInOrder(kept, last, out, wire) /\ ~ (now - c.at >= MaxWait) /\ ~ (c.id < out[1]) =>
           HeldInOrder(s, last, out, w)
      /\ Len(s) = Len(kept) + 1
  BY <1>2, <1>4, InsertHeld
<1>6. punctual' => HeldInOrder(s, last, out, w)
  BY <1>2, <1>3, <1>4, <1>5 DEF late
<1> HIDE DEF s, tq, w, r
<1>7. s \in Seq(Ids) /\ Len(s) <= Size
  BY <1>4, <1>5 DEF Held, Sound
<1>8. punctual' \in BOOLEAN /\ w \in SUBSET wire /\ wire' = w
  BY <1>2 DEF TypeOK, w
<1>9. timers' \in SUBSET (timers \cup (IF r.seq = <<>> THEN {} ELSE {r.time[1].at + MaxWait}))
  BY <1>1
<1>10. r = releaseQueue(s, tq, last, now)
  BY DEF r
<1>11. /\ IInv'
       /\ q_seq' # <<>> => \A j \in 1 .. Len(q_time') : q_time'[j].at > now - MaxWait
  BY <1>1, <1>4, <1>5, <1>6, <1>7, <1>8, <1>9, <1>10, AfterRelease
<1> QED BY <1>11 DEF Good

LEMMA PassKeeps ==
  ASSUME IInv, NEW c \in wire, wire' = wire \ {c}, pass(c.id),
         punctual' = (punctual /\ ~late(c)), now' = now, sent' = sent
  PROVE  Good
<1> DEFINE o == Append(delivered, c.id)
           w == wire \ {c}
<1>1. /\ lastDataId = -1 \/ c.id = lastDataId + 1
      /\ lastDataId' = c.id /\ delivered' = o
      /\ q_seq' = q_seq /\ q_time' = q_time /\ timers' = timers
  BY DEF pass
<1>2. TypeOK /\ Held(q_seq, q_time, lastDataId, delivered, wire) /\ Len(q_seq) <= Size /\ OnWire
      /\ TimersAhead /\ (punctual => HeldInOrder(q_seq, lastDataId, delivered, wire))
  BY DEF IInv
<1>3. /\ Held(q_seq, q_time, c.id, o, w)
      /\ HeldInOrder(q_seq, lastDataId, delivered, wire) => HeldInOrder(q_seq, c.id, o, w)
  BY <1>1, <1>2, PassHeld
<1> HIDE DEF o, w
<1>4. TypeOK'
  <2>1. c.id \in Ids
    BY <1>2 DEF TypeOK, Capsules
  <2>2. o \in Seq(Ids)
    BY <1>3 DEF Held, Sound
  <2>3. punctual' \in BOOLEAN /\ wire' \in SUBSET Capsules
    BY <1>2 DEF TypeOK
  <2> QED BY <1>1, <1>2, <2>1, <2>2, <2>3 DEF TypeOK
<1>5. Held(q_seq, q_time, lastDataId, delivered, wire)'
  <2>1. /\ Sound(q_seq, q_time, c.id, o)
        /\ Timely(q_time, now')
        /\ \A x \in w : ~Occurs(q_seq, x.id) /\ ~Occurs(o, x.id)
        /\ \A x \in w : \A j \in 1 .. Len(q_time) : x.id < q_time[j].id => x.at <= q_time[j].at
        /\ \A j \in 1 .. Len(q_time) : q_time[j].id < sent'
        /\ \A i \in 1 .. Len(o) : o[i] < sent'
    BY <1>3, HeldLater
  <2> QED BY <1>1, <2>1 DEF Held, w
<1>6. OnWire' /\ TimersAhead'
  BY <1>1, <1>2 DEF OnWire, TimersAhead
<1>7. punctual' => HeldInOrder(q_seq, lastDataId, delivered, wire)'
  <2>1. SUFFICES ASSUME punctual' PROVE HeldInOrder(q_seq, lastDataId, delivered, wire)'
    OBVIOUS
  <2>2. Ahead(q_seq, c.id, o) /\ \A x \in w : WillBeFine(x, c.id, o, now')
    BY <1>2, <1>3, <2>1, HeldLater
  <2> QED BY <1>1, <2>2 DEF HeldInOrder, w
<1> QED BY <1>1, <1>2, <1>4, <1>5, <1>6, <1>7 DEF Good, IInv

LEMMA SendKeeps ==
  ASSUME IInv, sendData
  PROVE  Good
<1> DEFINE d == [id |-> sent, at |-> now]
<1>1. /\ sent <= MaxId /\ sent' = sent + 1 /\ wire' = wire \cup {d}
      /\ now' = now /\ q_seq' = q_seq /\ q_time' = q_time /\ timers' = timers
      /\ lastDataId' = lastDataId /\ delivered' = delivered /\ punctual' = punctual
  BY DEF sendData, queueVars
<1>2. TypeOK /\ Held(q_seq, q_time, lastDataId, delivered, wire) /\ Len(q_seq) <= Size /\ OnWire
      /\ TimersAhead /\ (punctual => HeldInOrder(q_seq, lastDataId, delivered, wire))
  BY DEF IInv
<1>3. sent \in Ids /\ sent \in Nat /\ sent + 1 \in 0 .. MaxId + 1 /\ now \in Times /\ now \in Int
  BY <1>1, <1>2, QueueAssumption DEF TypeOK, Ids, Times
<1>4. d \in Capsules /\ d.id = sent /\ d.at = now
  BY <1>3 DEF Capsules
<1> HIDE DEF d
<1>5. TypeOK'
  BY <1>1, <1>2, <1>3, <1>4 DEF TypeOK
<1>6. /\ \A x \in Ids : x \in Int /\ (x < sent => x < sent + 1)
      /\ \A c \in Capsules : c.id \in Ids
      /\ \A i \in 1 .. Len(delivered) : delivered[i] \in Ids
      /\ \A i \in 1 .. Len(q_time) : q_time[i] \in Capsules
      /\ delivered \in Seq(Ids) /\ q_time \in Seq(Capsules)
  <2>1. \A x \in Ids : x \in Int
    BY QueueAssumption DEF Ids
  <2>2. delivered \in Seq(Ids) /\ q_time \in Seq(Capsules)
    BY <1>2 DEF TypeOK
  <2>3. \A c \in Capsules : c.id \in Ids
    BY DEF Capsules
  <2> QED BY <1>3, <2>1, <2>2, <2>3
<1>7. \A j \in 1 .. Len(q_time) : q_time[j].id \in Int /\ q_time[j].id < sent
  BY <1>2, <1>6 DEF Held
<1>8. ~Occurs(q_seq, sent) /\ ~Occurs(delivered, sent)
  <2>1. ~Occurs(delivered, sent)
    BY <1>2, <1>3, <1>6 DEF Held, Occurs
  <2>2. ~Queued(q_time, sent)
    BY <1>3, <1>7 DEF Queued
  <2> QED BY <1>2, <1>3, <2>1, <2>2 DEF Held, Sound
<1>9. Held(q_seq, q_time, lastDataId, delivered, wire)'
  <2>1. Sound(q_seq, q_time, lastDataId, delivered) /\ Timely(q_time, now)
    BY <1>2 DEF Held
  <2>2. \A c \in wire' : ~Occurs(q_seq, c.id) /\ ~Occurs(delivered, c.id)
    BY <1>1, <1>2, <1>4, <1>8 DEF Held
  <2>3. \A c \in wire' : \A j \in 1 .. Len(q_time) : c.id < q_time[j].id => c.at <= q_time[j].at
    BY <1>1, <1>2, <1>3, <1>4, <1>7 DEF Held
  <2>4. \A j \in 1 .. Len(q_time) : q_time[j].id < sent'
    BY <1>1, <1>3, <1>7
  <2>5. \A i \in 1 .. Len(delivered) : delivered[i] < sent'
    BY <1>1, <1>2, <1>6 DEF Held
  <2> QED BY <1>1, <2>1, <2>2, <2>3, <2>4, <2>5 DEF Held
<1>10. OnWire'
  <2>1. \A c \in wire : c \in Capsules /\ c.id < sent /\ c.at <= now /\ c.id \in Ids /\ c.id # sent
    BY <1>2, <1>3, <1>6 DEF OnWire, TypeOK
  <2>2. \A c \in wire' : c.id < sent' /\ c.at <= now'
    BY <1>1, <1>3, <1>4, <1>6, <2>1
  <2>3. \A c, e \in wire' : c.id = e.id => c = e
    BY <1>1, <1>2, <1>4, <2>1 DEF OnWire
  <2> QED BY <2>2, <2>3 DEF OnWire
<1>11. TimersAhead'
  BY <1>1, <1>2 DEF TimersAhead
<1>12. punctual' => HeldInOrder(q_seq, lastDataId, delivered, wire)'
  <2>1. SUFFICES ASSUME punctual PROVE HeldInOrder(q_seq, lastDataId, delivered, wire)'
    BY <1>1
  <2>2. sent > lastDataId
    <3>1. CASE delivered = <<>>
      BY <1>2, <1>3, <3>1 DEF Held, Sound
    <3>2. CASE delivered # <<>>
      <4>1. lastDataId = delivered[Len(delivered)]
        BY <1>2, <3>2 DEF Held, Sound
      <4>2. Len(delivered) \in 1 .. Len(delivered)
        BY <1>6, <3>2
      <4> QED BY <1>2, <1>3, <1>6, <4>1, <4>2 DEF Held
    <3> QED BY <3>1, <3>2
  <2>3. Ahead(q_seq, lastDataId, delivered)
        /\ \A c \in wire : WillBeFine(c, lastDataId, delivered, now)
    BY <1>2, <2>1 DEF HeldInOrder
  <2>4. WillBeFine(d, lastDataId, delivered, now)
    BY <1>4, <2>2 DEF WillBeFine
  <2> QED BY <1>1, <2>3, <2>4 DEF HeldInOrder
<1> QED BY <1>1, <1>2, <1>5, <1>9, <1>10, <1>11, <1>12 DEF Good, IInv

LEMMA LoseKeeps ==
  ASSUME IInv, NEW c \in wire, LoseCapsule(c)
  PROVE  Good
<1>1. /\ wire' = wire \ {c}
      /\ now' = now /\ sent' = sent /\ q_seq' = q_seq /\ q_time' = q_time /\ timers' = timers
      /\ lastDataId' = lastDataId /\ delivered' = delivered /\ punctual' = punctual
  BY DEF LoseCapsule, queueVars
<1>2. TypeOK' /\ OnWire' /\ TimersAhead' /\ Len(q_seq') <= Size
  BY <1>1 DEF IInv, TypeOK, OnWire, TimersAhead
<1>3. Held(q_seq, q_time, lastDataId, delivered, wire)'
  BY <1>1 DEF IInv, Held
<1>4. punctual' => HeldInOrder(q_seq, lastDataId, delivered, wire)'
  BY <1>1 DEF IInv, HeldInOrder
<1> QED BY <1>1, <1>2, <1>3, <1>4 DEF Good, IInv

LEMMA TickKeeps ==
  ASSUME IInv, Tick
  PROVE  Good
<1>1. /\ now < MaxTime /\ now \notin timers /\ now' = now + 1
      /\ wire' = wire /\ sent' = sent /\ q_seq' = q_seq /\ q_time' = q_time /\ timers' = timers
      /\ lastDataId' = lastDataId /\ delivered' = delivered /\ punctual' = punctual
  BY DEF Tick, queueVars
<1>2. TypeOK /\ Held(q_seq, q_time, lastDataId, delivered, wire) /\ Len(q_seq) <= Size /\ OnWire
      /\ TimersAhead /\ (punctual => HeldInOrder(q_seq, lastDataId, delivered, wire))
  BY DEF IInv
<1>3. now \in Int /\ now + 1 \in Times /\ MaxWait \in Int
  BY <1>1, <1>2, QueueAssumption DEF TypeOK, Times
<1>4. /\ \A c \in wire : c \in Capsules /\ c.at \in Int
      /\ \A i \in 1 .. Len(q_time) : q_time[i].at \in Int
  <2>1. \A c \in Capsules : c.at \in Int
    BY QueueAssumption DEF Capsules, Times
  <2>2. q_time \in Seq(Capsules) /\ wire \in SUBSET Capsules
    BY <1>2 DEF TypeOK
  <2> QED BY <2>1, <2>2
<1>5. TypeOK'
  BY <1>1, <1>2, <1>3 DEF TypeOK
<1>6. Timely(q_time', now')
  BY <1>1, <1>2, <1>3, <1>4 DEF Held, Timely
<1>7. Held(q_seq, q_time, lastDataId, delivered, wire)'
  BY <1>1, <1>2, <1>6 DEF Held
<1>8. OnWire'
  BY <1>1, <1>2, <1>3, <1>4 DEF OnWire
<1>9. TimersAhead'
  <2>1. timers \in SUBSET Nat
    BY <1>2 DEF TypeOK
  <2> QED BY <1>1, <1>2, <1>3, <2>1 DEF TimersAhead
<1>10. punctual' => HeldInOrder(q_seq, lastDataId, delivered, wire)'
  <2>1. \A c \in wire : now - c.at >= MaxWait => now' - c.at >= MaxWait
    BY <1>1, <1>3, <1>4
  <2> QED BY <1>1, <1>2, <2>1 DEF HeldInOrder, WillBeFine
<1> QED BY <1>1, <1>2, <1>5, <1>7, <1>8, <1>9, <1>10 DEF Good, IInv

LEMMA InitIInv == Init => IInv
<1> SUFFICES ASSUME Init PROVE IInv
  OBVIOUS
<1>1. /\ now = 0 /\ sent = 0 /\ wire = {} /\ q_seq = <<>> /\ q_time = <<>> /\ timers = {}
      /\ lastDataId = -1 /\ delivered = <<>> /\ punctual = TRUE
  BY DEF Init
<1>2. TypeOK
  BY <1>1, QueueAssumption DEF TypeOK, Times
<1>3. Sound(<<>>, <<>>, -1, <<>>) /\ Timely(<<>>, 0) /\ Ahead(<<>>, -1, <<>>)
  BY DEF Sound, Rising, Distinct, Occurs, Queued, Timely, Ahead
<1>4. Held(q_seq, q_time, lastDataId, delivered, wire)
  BY <1>1, <1>3 DEF Held
<1>5. HeldInOrder(q_seq, lastDataId, delivered, wire)
  BY <1>1, <1>3 DEF HeldInOrder
<1>6. Len(q_seq) <= Size
  BY <1>1, QueueAssumption
<1> QED BY <1>1, <1>2, <1>4, <1>5, <1>6 DEF IInv, OnWire, TimersAhead

LEMMA NextGood == IInv /\ [Next]_vars => Good
<1> SUFFICES ASSUME IInv, [Next]_vars PROVE Good
  OBVIOUS
<1>1. CASE sendData
  BY <1>1, SendKeeps
<1>2. ASSUME NEW c \in wire, receiveData(c) PROVE Good
  <2>1. wire' = wire \ {c} /\ now' = now /\ sent' = sent
    BY <1>2 DEF receiveData
  <2>2. CASE pass(c.id) /\ punctual' = (punctual /\ ~late(c))
    BY <2>1, <2>2, PassKeeps
  <2>3. CASE queue(c.id) /\ punctual' = (punctual /\ ~late(c) /\ ~full)
    BY <2>1, <2>3, QueueKeeps
  <2> QED BY <1>2, <2>2, <2>3 DEF receiveData
<1>3. ASSUME NEW c \in wire, LoseCapsule(c) PROVE Good
  BY <1>3, LoseKeeps
<1>4. CASE autoDequeueTask
  BY <1>4, AutoKeeps
<1>5. CASE Tick
  BY <1>5, TickKeeps
<1>6. CASE UNCHANGED vars
  <2>1. /\ now' = now /\ sent' = sent /\ wire' = wire /\ q_seq' = q_seq /\ q_time' = q_time
        /\ timers' = timers /\ lastDataId' = lastDataId /\ delivered' = delivered
        /\ punctual' = punctual
    BY <1>6 DEF vars, envVars, queueVars
  <2> QED BY <2>1 DEF Good, IInv, TypeOK, Held, HeldInOrder, OnWire, TimersAhead
<1> QED BY <1>1, <1>2, <1>3, <1>4, <1>5, <1>6 DEF Next

LEMMA Inductive == Spec => []IInv
<1>1. IInv /\ [Next]_vars => IInv'
  BY NextGood DEF Good
<1> QED BY <1>1, InitIInv, PTL DEF Spec

-----------------------------------------------------------------------------
(* What follows from the invariant. *)

\* The state is of its types.
THEOREM TypeCorrect == Spec => []TypeOK
<1>1. IInv => TypeOK
  BY DEF IInv
<1> QED BY <1>1, Inductive, PTL

LEMMA SoundFacts ==
  ASSUME IInv
  PROVE  /\ q_seq \in Seq(Ids) /\ q_time \in Seq(Capsules) /\ delivered \in Seq(Ids)
         /\ Rising(q_seq) /\ Distinct(delivered)
         /\ \A id \in Ids : Occurs(q_seq, id) => Queued(q_time, id) /\ ~Occurs(delivered, id)
         /\ \A id \in Ids : Queued(q_time, id) => Occurs(q_seq, id) \/ Occurs(delivered, id)
BY DEF IInv, Held, Sound

\* receiveData may read the front of q_time whenever q_seq is not empty: for any
\* size and any waiting time, q_time has every Capsule of q_seq, which is sorted
\* and never longer than its limit.
THEOREM QueuesAgreeCorrect == Spec => []QueuesAgree
<1>1. IInv => QueuesAgree
  <2> SUFFICES ASSUME IInv PROVE QueuesAgree
    OBVIOUS
  <2>1. \A i \in 1 .. Len(q_seq) : \E j \in 1 .. Len(q_time) : q_time[j].id = q_seq[i]
    <3> TAKE i \in 1 .. Len(q_seq)
    <3>1. q_seq[i] \in Ids
      BY SoundFacts
    <3>2. Occurs(q_seq, q_seq[i])
      BY DEF Occurs
    <3> QED BY <3>1, <3>2, SoundFacts DEF Queued
  <2>2. \A i, j \in 1 .. Len(q_seq) : i < j => q_seq[i] < q_seq[j]
    BY SoundFacts DEF Rising
  <2> QED BY <2>1, <2>2 DEF IInv, QueuesAgree
<1> QED BY <1>1, Inductive, PTL

\* No Capsule is handed on twice, and none that arrived is forgotten, whatever
\* the order in which Capsules arrive and with any of them lost.
THEOREM NothingTwiceOrLostCorrect == Spec => []NothingTwiceOrLost
<1>1. IInv => NothingTwiceOrLost
  <2> SUFFICES ASSUME IInv PROVE NothingTwiceOrLost
    OBVIOUS
  <2>1. \A i, j \in 1 .. Len(delivered) : delivered[i] = delivered[j] => i = j
    BY SoundFacts DEF Distinct
  <2>2. \A i \in 1 .. Len(delivered) : ~Occurs(q_seq, delivered[i])
    <3> TAKE i \in 1 .. Len(delivered)
    <3>1. delivered[i] \in Ids
      BY SoundFacts
    <3>2. Occurs(delivered, delivered[i])
      BY DEF Occurs
    <3> QED BY <3>1, <3>2, SoundFacts
  <2>3. \A id \in {q_time[j].id : j \in 1 .. Len(q_time)} : Occurs(q_seq, id) \/ Occurs(delivered, id)
    <3> TAKE id \in {q_time[j].id : j \in 1 .. Len(q_time)}
    <3>1. PICK j \in 1 .. Len(q_time) : id = q_time[j].id
      OBVIOUS
    <3>2. q_time[j] \in Capsules
      BY SoundFacts
    <3>3. id \in Ids /\ Queued(q_time, id)
      BY <3>1, <3>2 DEF Queued, Capsules
    <3> QED BY <3>3, SoundFacts
  <2> QED BY <2>1, <2>2, <2>3 DEF NothingTwiceOrLost
<1> QED BY <1>1, Inductive, PTL

\* If every Capsule comes within the waiting time and the queue is never full,
\* the application gets the Capsules in their order, however many are lost.
THEOREM InOrderCorrect == Spec => []InOrder
<1>1. IInv => InOrder
  BY DEF IInv, InOrder, HeldInOrder, Ahead, Rising
<1> QED BY <1>1, Inductive, PTL

\* No Capsule stays in the queues longer than the waiting time when another one
\* is queued.
THEOREM NoneOverdueCorrect == Spec => NoneOverdue
<1>1. IInv /\ [Next]_vars =>
        [q_time' # q_time /\ q_seq' # <<>> =>
           \A j \in 1 .. Len(q_time') : q_time'[j].at > now - MaxWait]_vars
  BY NextGood DEF Good
<1> QED BY <1>1, Inductive, PTL DEF Spec, NoneOverdue

\* No event is scheduled with a negative delay: the Capsule at the front of
\* q_time is never overdue when receiveData sets a timer for it.
THEOREM TimersAheadCorrect == Spec => []TimersAhead
<1>1. IInv => TimersAhead
  BY DEF IInv
<1> QED BY <1>1, Inductive, PTL
=============================================================================
