-------------------------- MODULE ForwarderProofs --------------------------
(***************************************************************************)
(* What is proved of the forwarder, for any faces, names, next hops and    *)
(* packets: Data goes to those who wait for it and to nobody else, nobody  *)
(* who waits is forgotten, Interests do not circle and keep their scope,   *)
(* and the entry of a flow stays.                                          *)
(*                                                                         *)
(* History variables say who waits for how long; the heart of the proof is *)
(* that the in-records of an entry say the same (Waiting), and that an     *)
(* entry from which an Interest is out stays for as long (Pending).        *)
(***************************************************************************)
EXTENDS Forwarder, FiniteSetTheorems, WellFoundedInduction, TLAPS

(* Hypotheses on the network, which the theorems name where they need them. *)

\* Every Interest has a lifetime.
LivingInterests == \A a \in Arrivals : a[2].packet.kind = "Interest" => a[2].packet.lifetime > 0

\* No Interest asks for whatever Data there is: one that Data under its name may
\* answer does not name a part of the path to /localhost or to the LLTC prefix.
OwnPrefixes ==
  \A k \in Keys, prefix \in {Localhost, LltcPrefix} :
    k.canBePrefix /\ IsPrefix(k.name, prefix) => IsPrefix(prefix, k.name)

\* An entry of a flow gets more time from Data than any Interest asks for.
FlowLifetimes ==
  \A a \in Arrivals :
    a[2].packet.kind = "Interest" /\ IsPrefix(LltcPrefix, a[2].packet.name) =>
      a[2].packet.lifetime <= PitDuration

\* Flows are not of the host itself.
LltcIsRemote == LltcPrefix # <<>> /\ ~IsPrefix(Localhost, LltcPrefix)

-----------------------------------------------------------------------------
(* The invariant. *)

EntryFields == {"in", "out", "timer", "satisfied", "fresh"}

InTable(t) ==
  DOMAIN t \subseteq Faces /\ \A f \in DOMAIN t : DOMAIN t[f] = {"nonce", "left"} /\ t[f].left \in Int

OutTable(t) ==
  /\ DOMAIN t \subseteq Faces
  /\ \A f \in DOMAIN t : DOMAIN t[f] = {"nonce", "left", "nacked"} /\ t[f].left \in Int

IsEntry(e) == DOMAIN e = EntryFields /\ InTable(e.in) /\ OutTable(e.out) /\ e.timer \in Nat

DataPackets == {Tagged(a[2]) : a \in {b \in Arrivals : b[2].packet.kind = "Data"}}

CsEntries == [data : DataPackets, left : Int, unsolicited : BOOLEAN]

\* The types of the state.
TypeOK ==
  /\ DOMAIN pit \subseteq Keys
  /\ \A k \in DOMAIN pit : IsEntry(pit[k])
  /\ cs \in Seq(CsEntries)
  /\ asked \in [Faces \X Keys -> Int]
  /\ flow \in [Keys -> Nat]

\* What a face waits for is in its in-record; and what is in an in-record it waits
\* for, or would, had it not sent such Data itself.
Waits(table, f, a) ==
  /\ a > 0 => f \in DOMAIN table /\ table[f].left = a
  /\ f \in DOMAIN table /\ table[f].left > 0 => a = table[f].left \/ a = -table[f].left

EntryOf(k) == IF k \in DOMAIN pit THEN pit[k] ELSE EmptyEntry

WaitsAt(k, f) ==
  /\ asked[<<f, k>>] # 0 => ~OutOfScope(f, k.name)
  /\ Waits(EntryOf(k).in, f, asked[<<f, k>>])

Waiting == \A k \in Keys, f \in Faces : WaitsAt(k, f)

\* While an Interest is out the entry stays for all who wait.
PendingFor(e, a) == a > 0 /\ hasPendingOutRecords(e) => a <= e.timer

PendingAt(k, f) ==
  /\ PendingFor(EntryOf(k), asked[<<f, k>>])
  /\ UnderLltc(k.name) => asked[<<f, k>>] <= PitDuration

Pending == \A k \in Keys, f \in Faces : PendingAt(k, f)

\* The entry of a flow lives as long as the history says.
FlowKept ==
  \A k \in Keys : flow[k] > 0 => k \in DOMAIN pit /\ pit[k].timer >= flow[k] /\ UnderLltc(k.name)

\* What was sent in vain is remembered.
Remembered == dead \subseteq dnl

-----------------------------------------------------------------------------
(* Prefixes of names. *)

LEMMA PrefixMeans ==
  ASSUME NEW S, NEW s \in Seq(S), NEW t \in Seq(S)
  PROVE  IsPrefix(s, t) <=> Len(s) <= Len(t) /\ \A i \in 1 .. Len(s) : s[i] = t[i]
<1>1. Len(s) \in Nat /\ Len(t) \in Nat
  OBVIOUS
<1>2. ASSUME Len(s) <= Len(t)
      PROVE  /\ Len(SubSeq(s, 1, Len(s))) = Len(s) /\ Len(SubSeq(t, 1, Len(s))) = Len(s)
             /\ SubSeq(s, 1, Len(s)) \in Seq(S) /\ SubSeq(t, 1, Len(s)) \in Seq(S)
             /\ \A i \in 1 .. Len(s) : SubSeq(s, 1, Len(s))[i] = s[i] /\ SubSeq(t, 1, Len(s))[i] = t[i]
  BY <1>1, <1>2
<1>3. CASE IsPrefix(s, t)
  <2>1. Len(s) <= Len(t) /\ SubSeq(s, 1, Len(s)) = SubSeq(t, 1, Len(s))
    BY <1>3 DEF IsPrefix
  <2>2. \A i \in 1 .. Len(s) : s[i] = t[i]
    BY <1>2, <2>1
  <2> QED BY <1>3, <2>1, <2>2
<1>4. ASSUME Len(s) <= Len(t), \A i \in 1 .. Len(s) : s[i] = t[i] PROVE IsPrefix(s, t)
  <2>1. SubSeq(s, 1, Len(s)) = SubSeq(t, 1, Len(s))
    BY <1>1, <1>2, <1>4
  <2> QED BY <1>4, <2>1 DEF IsPrefix
<1> QED BY <1>3, <1>4

LEMMA PrefixOfPrefix ==
  ASSUME NEW S, NEW p \in Seq(S), NEW s \in Seq(S), NEW t \in Seq(S), IsPrefix(p, s), IsPrefix(s, t)
  PROVE  IsPrefix(p, t)
<1>1. Len(p) \in Nat /\ Len(s) \in Nat /\ Len(t) \in Nat
  OBVIOUS
<1>2. Len(p) <= Len(s) /\ \A i \in 1 .. Len(p) : p[i] = s[i]
  BY PrefixMeans
<1>3. Len(s) <= Len(t) /\ \A i \in 1 .. Len(s) : s[i] = t[i]
  BY PrefixMeans
<1>4. Len(p) <= Len(t) /\ \A i \in 1 .. Len(p) : p[i] = t[i]
  BY <1>1, <1>2, <1>3
<1> QED BY <1>4, PrefixMeans

\* Of two prefixes of a name one is a prefix of the other.
LEMMA PrefixesOfOne ==
  ASSUME NEW S, NEW p \in Seq(S), NEW s \in Seq(S), NEW t \in Seq(S), IsPrefix(p, t), IsPrefix(s, t)
  PROVE  IsPrefix(p, s) \/ IsPrefix(s, p)
<1>1. Len(p) \in Nat /\ Len(s) \in Nat /\ Len(t) \in Nat
  OBVIOUS
<1>2. Len(p) <= Len(t) /\ \A i \in 1 .. Len(p) : p[i] = t[i]
  BY PrefixMeans
<1>3. Len(s) <= Len(t) /\ \A i \in 1 .. Len(s) : s[i] = t[i]
  BY PrefixMeans
<1>4. CASE Len(p) <= Len(s)
  <2>1. \A i \in 1 .. Len(p) : p[i] = s[i]
    BY <1>1, <1>2, <1>3, <1>4
  <2> QED BY <1>4, <2>1, PrefixMeans
<1>5. CASE Len(s) <= Len(p)
  <2>1. \A i \in 1 .. Len(s) : s[i] = p[i]
    BY <1>1, <1>2, <1>3, <1>5
  <2> QED BY <1>5, <2>1, PrefixMeans
<1> QED BY <1>1, <1>4, <1>5

-----------------------------------------------------------------------------
(* The largest and the smallest of finitely many numbers. *)

LEMMA MaxFacts ==
  ASSUME NEW T, T \subseteq Int, IsFiniteSet(T), T # {}
  PROVE  Max(T) \in T /\ \A y \in T : y <= Max(T)
<1> DEFINE above(y) == {z \in T : z > y}
           G == {above(y) : y \in T}
           R == StrictSubsetOrdering(T)
<1>1. G \subseteq FiniteSubsetsOf(T) /\ G # {}
  <2>1. \A y \in T : above(y) \in SUBSET T /\ IsFiniteSet(above(y))
    BY FS_Subset
  <2> QED BY <2>1 DEF FiniteSubsetsOf
<1>2. IsWellFoundedOn(R, FiniteSubsetsOf(T))
  BY FS_StrictSubsetOrderingWellFounded
<1> HIDE DEF G, R
<1>3. PICK g \in G : \A h \in G : ~ (<<h, g>> \in R)
  BY <1>1, <1>2, WFMin
<1>4. PICK x \in T : g = above(x)
  BY <1>3 DEF G
<1>5. ASSUME NEW y \in T, x < y PROVE FALSE
  <2>1. above(y) \in SUBSET T /\ above(x) \in SUBSET T /\ above(y) \in G
    BY DEF G
  <2>2. above(y) \subseteq above(x)
    <3>1. x \in Int /\ y \in Int /\ \A z \in T : z \in Int
      OBVIOUS
    <3>2. \A z \in T : z > y => z > x
      BY <1>5, <3>1
    <3> QED BY <3>2
  <2>3. y \in above(x) /\ y \notin above(y)
    BY <1>5
  <2> HIDE DEF above
  <2>4. <<above(y), above(x)>> \in R
    BY <2>1, <2>2, <2>3 DEF R, StrictSubsetOrdering
  <2> QED BY <1>3, <1>4, <2>1, <2>4
<1>6. \A y \in T : x >= y
  BY <1>5
<1>7. Max(T) \in T /\ \A y \in T : Max(T) >= y
  BY <1>6 DEF Max
<1> QED BY <1>7

LEMMA MinFacts ==
  ASSUME NEW T, T \subseteq Int, IsFiniteSet(T), T # {}
  PROVE  Min(T) \in T /\ \A y \in T : Min(T) <= y
<1> DEFINE below(y) == {z \in T : z < y}
           G == {below(y) : y \in T}
           R == StrictSubsetOrdering(T)
<1>1. G \subseteq FiniteSubsetsOf(T) /\ G # {}
  <2>1. \A y \in T : below(y) \in SUBSET T /\ IsFiniteSet(below(y))
    BY FS_Subset
  <2> QED BY <2>1 DEF FiniteSubsetsOf
<1>2. IsWellFoundedOn(R, FiniteSubsetsOf(T))
  BY FS_StrictSubsetOrderingWellFounded
<1> HIDE DEF G, R
<1>3. PICK g \in G : \A h \in G : ~ (<<h, g>> \in R)
  BY <1>1, <1>2, WFMin
<1>4. PICK x \in T : g = below(x)
  BY <1>3 DEF G
<1>5. ASSUME NEW y \in T, y < x PROVE FALSE
  <2>1. below(y) \in SUBSET T /\ below(x) \in SUBSET T /\ below(y) \in G
    BY DEF G
  <2>2. below(y) \subseteq below(x)
    <3>1. x \in Int /\ y \in Int /\ \A z \in T : z \in Int
      OBVIOUS
    <3>2. \A z \in T : z < y => z < x
      BY <1>5, <3>1
    <3> QED BY <3>2
  <2>3. y \in below(x) /\ y \notin below(y)
    BY <1>5
  <2> HIDE DEF below
  <2>4. <<below(y), below(x)>> \in R
    BY <2>1, <2>2, <2>3 DEF R, StrictSubsetOrdering
  <2> QED BY <1>3, <1>4, <2>1, <2>4
<1>6. \A y \in T : x <= y
  BY <1>5
<1>7. Min(T) \in T /\ \A y \in T : Min(T) <= y
  BY <1>6 DEF Min
<1> QED BY <1>7


-----------------------------------------------------------------------------
(* Packets and keys. *)

Components == STRING \cup {"localhost"}

LEMMA NamesAreSequences ==
  Names \subseteq Seq(Components) /\ Localhost \in Seq(Components) /\ LltcPrefix \in Seq(Components)
<1>1. NameOrder \in Seq(Seq(STRING)) /\ LltcPrefix \in Seq(STRING)
  BY ForwarderAssumption
<1>2. \A A : \A B : A \subseteq B => \A s \in Seq(A) : s \in Seq(B)
  OBVIOUS
<1>3. Seq(STRING) \subseteq Seq(Components)
  BY <1>2 DEF Components
<1>4. \A i \in DOMAIN NameOrder : NameOrder[i] \in Seq(STRING)
  BY <1>1
<1>5. Names \subseteq Seq(Components)
  BY <1>3, <1>4 DEF Names, ToSet
<1>6. \A S : \A x \in S : <<x>> \in Seq(S)
  OBVIOUS
<1>7. <<"localhost">> \in Seq(Components)
  BY <1>6 DEF Components
<1> QED BY <1>1, <1>3, <1>5, <1>7, Zenon DEF Localhost

LEMMA TaggedInterest ==
  ASSUME NEW a \in Arrivals, a[2].packet.kind # "Data", NEW interest, interest = Tagged(a[2])
  PROVE  /\ IsInterest(interest) /\ Selectors(interest) \in Keys
         /\ interest.kind = a[2].packet.kind /\ interest.name = a[2].packet.name
         /\ interest.nonce = a[2].packet.nonce /\ interest.lifetime = a[2].packet.lifetime
         /\ interest.kind = "Interest" /\ interest.nextHop # NoFace => "NextHopFaceId" \in a[2].fields
<1> DEFINE p == a[2].packet
<1>1. IsInterest(p)
  BY ForwarderAssumption DEF IsData
<1>2. interest = p \/ (interest = [p EXCEPT !.nextHop = NoFace] /\ interest.kind = "Interest")
  BY <1>1 DEF Tagged, IsInterest
<1>3. /\ IsInterest(interest) /\ interest.kind = p.kind /\ interest.name = p.name
      /\ interest.nonce = p.nonce /\ interest.lifetime = p.lifetime
      /\ interest.canBePrefix = p.canBePrefix /\ interest.mustBeFresh = p.mustBeFresh
  BY <1>1, <1>2 DEF IsInterest
<1>4. Selectors(interest) = Selectors(p)
  BY <1>3 DEF Selectors
<1>5. Selectors(p) \in Keys
  BY DEF Keys
<1>6. ASSUME interest.kind = "Interest", interest.nextHop # NoFace PROVE "NextHopFaceId" \in a[2].fields
  <2>1. p.kind = "Interest"
    BY <1>3, <1>6
  <2> QED BY <1>1, <1>6, <2>1 DEF Tagged, IsInterest
<1> QED BY <1>3, <1>4, <1>5, <1>6

LEMMA TaggedData ==
  ASSUME NEW a \in Arrivals, a[2].packet.kind = "Data", NEW data, data = Tagged(a[2])
  PROVE  IsData(data) /\ data \in DataPackets
<1>1. IsData(a[2].packet)
  BY ForwarderAssumption DEF IsInterest
<1>2. IsData(data)
  BY <1>1 DEF Tagged, IsData
<1> QED BY <1>2 DEF DataPackets

LEMMA DataPacketsAreData ==
  \A data \in DataPackets : IsData(data)
BY TaggedData DEF DataPackets

LEMMA KeyFacts ==
  ASSUME NEW k \in Keys
  PROVE  k.name \in Names /\ k.name \in Seq(Components)
<1>1. PICK a \in Arrivals : a[2].packet.kind # "Data" /\ k = Selectors(a[2].packet)
  BY DEF Keys
<1>2. IsInterest(a[2].packet)
  BY <1>1, ForwarderAssumption DEF IsData
<1> QED BY <1>1, <1>2, NamesAreSequences DEF Selectors, IsInterest

LEMMA KeysAreFinite ==
  IsFiniteSet(Keys)
<1> DEFINE S == {b \in Arrivals : b[2].packet.kind # "Data"}
           g == [a \in S |-> Selectors(a[2].packet)]
<1>1. IsFiniteSet(S)
  BY ForwarderAssumption, FS_Subset
<1>2. Keys = {Selectors(a[2].packet) : a \in S}
  BY DEF Keys
<1>3. g \in Surjection(S, Keys)
  BY <1>2 DEF Surjection
<1> QED BY <1>1, <1>3, FS_Surjection

\* Data is of a flow, or of the host, if and only if the keys it matches are.
LEMMA MatchKeepsPrefix ==
  ASSUME NEW k \in Keys, NEW data, IsData(data), matchesData(k, data),
         NEW prefix \in {Localhost, LltcPrefix}
  PROVE  /\ IsPrefix(prefix, k.name) => IsPrefix(prefix, data.name)
         /\ OwnPrefixes /\ IsPrefix(prefix, data.name) => IsPrefix(prefix, k.name)
<1>1. prefix \in Seq(Components) /\ k.name \in Seq(Components) /\ data.name \in Seq(Components)
  BY NamesAreSequences, KeyFacts DEF IsData
<1>2. data.name = k.name \/ (k.canBePrefix /\ IsPrefix(k.name, data.name))
  BY DEF matchesData
<1>3. CASE data.name = k.name
  BY <1>3
<1>4. CASE k.canBePrefix /\ IsPrefix(k.name, data.name)
  <2>1. IsPrefix(prefix, k.name) => IsPrefix(prefix, data.name)
    BY <1>1, <1>4, PrefixOfPrefix
  <2>2. ASSUME OwnPrefixes, IsPrefix(prefix, data.name) PROVE IsPrefix(prefix, k.name)
    <3>1. IsPrefix(prefix, k.name) \/ IsPrefix(k.name, prefix)
      BY <1>1, <1>4, <2>2, PrefixesOfOne
    <3> QED BY <1>4, <2>2, <3>1 DEF OwnPrefixes
  <2> QED BY <2>1, <2>2
<1> QED BY <1>2, <1>3, <1>4

LEMMA MatchKeepsScope ==
  ASSUME NEW k \in Keys, NEW data, IsData(data), matchesData(k, data), OwnPrefixes
  PROVE  (UnderLltc(data.name) <=> UnderLltc(k.name)) /\ (IsLocalhost(data.name) <=> IsLocalhost(k.name))
BY MatchKeepsPrefix DEF UnderLltc, IsLocalhost

-----------------------------------------------------------------------------
(* What the handlers make of an entry. *)

IsWork(w) == DOMAIN w = {"e", "out"} /\ IsEntry(w.e)

\* What is sent: one packet, by several faces.
Frames(fs, packet) == {<<f, sendNetPacket(f, packet)>> : f \in fs}

LEMMA SendFacts ==
  ASSUME NEW w, DOMAIN w = {"e", "out"}, NEW fs, NEW packet, NEW v, v = Send(w, fs, packet)
  PROVE  DOMAIN v = {"e", "out"} /\ v.e = w.e /\ v.out = w.out \cup Frames(fs, packet)
BY DEF Send, Frames

\* An Interest was forwarded by some of the hops, or by none and rejected.
Forwarded(w, v, interest, hops) ==
  /\ IsWork(v)
  /\ v.e.in = w.e.in
  /\ v.out \subseteq w.out \cup Frames(hops, interest)
  /\ v.e.timer = w.e.timer \/ ~hasPendingOutRecords(v.e)

LEMMA OutgoingInterest ==
  ASSUME NEW w, IsWork(w), NEW interest, IsInterest(interest), NEW fs, fs \subseteq Faces
  PROVE  Forwarded(w, onOutgoingInterest(w, fs, interest), interest, fs)
<1> DEFINE record == [nonce |-> interest.nonce, left |-> interest.lifetime, nacked |-> FALSE]
           table == With(w.e.out, fs, record)
           u == [w EXCEPT !.e.out = table]
           v == Send(u, fs, interest)
<1>1. DOMAIN w = {"e", "out"} /\ DOMAIN w.e = EntryFields /\ InTable(w.e.in) /\ OutTable(w.e.out)
      /\ w.e.timer \in Nat
  BY DEF IsWork, IsEntry
<1>2. OutTable(table)
  <2>1. DOMAIN table = DOMAIN w.e.out \cup fs
    BY DEF With
  <2>2. \A f \in DOMAIN table : table[f] = record \/ (f \in DOMAIN w.e.out /\ table[f] = w.e.out[f])
    BY DEF With
  <2>3. DOMAIN record = {"nonce", "left", "nacked"} /\ record.left \in Int
    BY DEF IsInterest
  <2> HIDE DEF table, record
  <2> QED BY <1>1, <2>1, <2>2, <2>3 DEF OutTable
<1> HIDE DEF table
<1>3. /\ DOMAIN u = {"e", "out"} /\ DOMAIN u.e = EntryFields /\ u.e.in = w.e.in
      /\ u.e.out = table /\ u.e.timer = w.e.timer /\ u.out = w.out
  BY <1>1 DEF EntryFields
<1>4. onOutgoingInterest(w, fs, interest) = v
  BY DEF onOutgoingInterest, table
<1> HIDE DEF u
<1>5. DOMAIN v = {"e", "out"} /\ v.e = u.e /\ v.out = u.out \cup Frames(fs, interest)
  BY <1>3, SendFacts
<1> HIDE DEF v
<1>6. IsEntry(v.e)
  BY <1>1, <1>2, <1>3, <1>5 DEF IsEntry
<1> QED BY <1>3, <1>4, <1>5, <1>6 DEF Forwarded, IsWork

LEMMA NotForwarded ==
  ASSUME NEW w, IsWork(w), NEW interest, NEW hops
  PROVE  Forwarded(w, w, interest, hops)
BY DEF Forwarded

LEMMA Rejected ==
  ASSUME NEW w, IsWork(w), NEW interest, NEW hops, ~hasPendingOutRecords(w.e)
  PROVE  Forwarded(w, rejectPendingInterest(w), interest, hops)
<1> DEFINE v == [w EXCEPT !.e.timer = 0]
<1>1. DOMAIN w = {"e", "out"} /\ DOMAIN w.e = EntryFields /\ InTable(w.e.in) /\ OutTable(w.e.out)
  BY DEF IsWork, IsEntry
<1>2. /\ DOMAIN v = {"e", "out"} /\ DOMAIN v.e = EntryFields /\ v.e.in = w.e.in
      /\ v.e.out = w.e.out /\ v.e.timer = 0 /\ v.out = w.out
  BY <1>1 DEF EntryFields
<1>3. rejectPendingInterest(w) = v
  BY DEF rejectPendingInterest, setExpiryTimer
<1> HIDE DEF v
<1>4. ~hasPendingOutRecords(v.e)
  BY <1>2 DEF hasPendingOutRecords
<1>5. IsEntry(v.e)
  BY <1>1, <1>2 DEF IsEntry
<1> QED BY <1>2, <1>3, <1>4, <1>5 DEF Forwarded, IsWork

LEMMA ForwardedByMore ==
  ASSUME NEW w, NEW v, NEW interest, NEW hops, NEW more, hops \subseteq more,
         Forwarded(w, v, interest, hops)
  PROVE  Forwarded(w, v, interest, more)
BY DEF Forwarded, Frames

\* The hops that are the strategy's to choose.
Hops(interest) ==
  {f \in ToSet(fib[interest.name]) \cup {UpFace} :
     UnderLltc(interest.name) \/ ~OutOfScope(f, interest.name)}

LEMMA NextHops ==
  ASSUME NEW interest, IsInterest(interest)
  PROVE  /\ fib[interest.name] \in Seq(Faces)
         /\ \A i \in DOMAIN fib[interest.name] : fib[interest.name][i] \in Faces
         /\ ToSet(fib[interest.name]) = {fib[interest.name][i] : i \in DOMAIN fib[interest.name]}
         /\ ToSet(fib[interest.name]) \subseteq Faces
         /\ UpFace # NoFace => UpFace \in Faces
<1>1. fib[interest.name] \in Seq(Faces)
  BY ForwarderAssumption DEF IsInterest
<1>2. UpFace # NoFace => UpFace \in Faces
  BY ForwarderAssumption
<1>3. \A i \in DOMAIN fib[interest.name] : fib[interest.name][i] \in Faces
  BY <1>1
<1> QED BY <1>1, <1>2, <1>3 DEF ToSet

LEMMA BestRoute ==
  ASSUME NEW w, IsWork(w), NEW interest, IsInterest(interest)
  PROVE  Forwarded(w, bestRoute(w, interest), interest, Hops(interest))
<1> DEFINE hops == fib[interest.name]
           eligible == {i \in DOMAIN hops : /\ ~wouldViolateScope(interest.name, hops[i])
                                            /\ canForwardToLegacy(w.e, hops[i])}
           out == onOutgoingInterest(w, {hops[Min(eligible)]}, interest)
<1>1. /\ hops \in Seq(Faces) /\ \A i \in DOMAIN hops : hops[i] \in Faces
      /\ ToSet(hops) = {hops[i] : i \in DOMAIN hops}
  BY NextHops
<1>2. CASE hasPendingOutRecords(w.e)
  <2>1. bestRoute(w, interest) = w
    BY <1>2 DEF bestRoute
  <2> QED BY <2>1, NotForwarded
<1>3. CASE ~hasPendingOutRecords(w.e) /\ eligible = {}
  <2>1. bestRoute(w, interest) = rejectPendingInterest(w)
    BY <1>3 DEF bestRoute
  <2> QED BY <1>3, <2>1, Rejected
<1>4. CASE ~hasPendingOutRecords(w.e) /\ eligible # {}
  <2>1. bestRoute(w, interest) = out
    BY <1>4 DEF bestRoute
  <2>2. Min(eligible) \in eligible
    <3>1. Len(hops) \in Nat /\ DOMAIN hops = 1 .. Len(hops) /\ eligible \subseteq 1 .. Len(hops)
      BY <1>1
    <3>2. IsFiniteSet(1 .. Len(hops)) /\ 1 .. Len(hops) \subseteq Int
      BY <3>1, FS_Interval
    <3> HIDE DEF eligible
    <3>3. IsFiniteSet(eligible) /\ eligible \subseteq Int
      BY <3>1, <3>2, FS_Subset
    <3> QED BY <1>4, <3>3, MinFacts
  <2> DEFINE f == hops[Min(eligible)]
  <2>3. f \in ToSet(hops) /\ f \in Faces /\ ~wouldViolateScope(interest.name, f)
    BY <1>1, <2>2
  <2>4. f \in Hops(interest)
    BY <2>3 DEF Hops, OutOfScope, wouldViolateScope
  <2> HIDE DEF f
  <2>5. Forwarded(w, onOutgoingInterest(w, {f}, interest), interest, {f})
    BY <2>3, OutgoingInterest
  <2>6. Forwarded(w, onOutgoingInterest(w, {f}, interest), interest, Hops(interest))
    BY <2>4, <2>5, ForwardedByMore
  <2> QED BY <2>1, <2>6 DEF f
<1> QED BY <1>2, <1>3, <1>4

LEMMA Lltc ==
  ASSUME NEW w, IsWork(w), NEW interest, IsInterest(interest), UnderLltc(interest.name)
  PROVE  Forwarded(w, lltc(w, interest), interest, Hops(interest))
<1> DEFINE hops == ToSet(fib[interest.name])
<1>1. hops \subseteq Faces /\ (UpFace # NoFace => UpFace \in Faces)
  BY NextHops, Zenon
<1>2. Hops(interest) = hops \cup {UpFace}
  BY DEF Hops
<1>3. CASE hasPendingOutRecords(w.e)
  <2>1. lltc(w, interest) = w
    BY <1>3 DEF lltc
  <2> QED BY <2>1, NotForwarded
<1>4. CASE ~hasPendingOutRecords(w.e) /\ UpFace # NoFace
  <2>1. lltc(w, interest) = onOutgoingInterest(w, {UpFace}, interest)
    BY <1>4 DEF lltc
  <2>2. Forwarded(w, onOutgoingInterest(w, {UpFace}, interest), interest, {UpFace})
    BY <1>1, <1>4, OutgoingInterest
  <2>3. {UpFace} \subseteq Hops(interest)
    BY <1>2
  <2> QED BY <2>1, <2>2, <2>3, ForwardedByMore
<1>5. CASE ~hasPendingOutRecords(w.e) /\ UpFace = NoFace /\ fib[interest.name] = <<>>
  <2>1. lltc(w, interest) = rejectPendingInterest(w)
    BY <1>5 DEF lltc
  <2> QED BY <1>5, <2>1, Rejected
<1>6. CASE ~hasPendingOutRecords(w.e) /\ UpFace = NoFace /\ fib[interest.name] # <<>>
  <2>1. lltc(w, interest) = onOutgoingInterest(w, hops, interest)
    BY <1>6 DEF lltc
  <2> HIDE DEF hops
  <2>2. Forwarded(w, onOutgoingInterest(w, hops, interest), interest, hops)
    BY <1>1, OutgoingInterest
  <2>3. hops \subseteq Hops(interest)
    BY <1>2
  <2> QED BY <2>1, <2>2, <2>3, ForwardedByMore
<1> QED BY <1>3, <1>4, <1>5, <1>6

LEMMA Strategy ==
  ASSUME NEW w, IsWork(w), NEW interest, IsInterest(interest)
  PROVE  Forwarded(w, afterReceiveInterest(w, interest), interest, Hops(interest))
BY BestRoute, Lltc DEF afterReceiveInterest

\* An Interest that is not answered from the store: the entry stays for all who
\* wait, unless no Interest is out.
Missed(w, v, f, interest) ==
  /\ IsWork(v)
  /\ v.e.in = With(w.e.in, {f}, [nonce |-> interest.nonce, left |-> interest.lifetime])
  /\ v.out \subseteq w.out \cup Frames(IF interest.nextHop # NoFace THEN {interest.nextHop}
                                                               ELSE Hops(interest), interest)
  /\ \/ \A g \in DOMAIN v.e.in : v.e.in[g].left <= v.e.timer
     \/ ~hasPendingOutRecords(v.e)

LEMMA LastToExpire ==
  ASSUME NEW t, InTable(t), DOMAIN t # {}
  PROVE  MaxLeft(t) \in Int /\ \A f \in DOMAIN t : t[f].left <= MaxLeft(t)
<1> DEFINE T == {t[f].left : f \in DOMAIN t}
           g == [f \in DOMAIN t |-> t[f].left]
<1>1. IsFiniteSet(DOMAIN t)
  BY ForwarderAssumption, FS_Subset DEF InTable
<1>2. g \in Surjection(DOMAIN t, T)
  BY DEF Surjection
<1>3. IsFiniteSet(T)
  BY <1>1, <1>2, FS_Surjection
<1>4. T \subseteq Int /\ T # {} /\ \A f \in DOMAIN t : t[f].left \in T
  BY DEF InTable
<1>5. MaxLeft(t) = Max(T)
  BY DEF MaxLeft
<1> HIDE DEF T
<1>6. Max(T) \in T /\ \A y \in T : y <= Max(T)
  BY <1>3, <1>4, MaxFacts
<1> QED BY <1>4, <1>5, <1>6

LEMMA Miss ==
  ASSUME NEW w, IsWork(w), NEW f \in Faces, NEW interest, IsInterest(interest)
  PROVE  Missed(w, onContentStoreMiss(w, f, interest), f, interest)
<1> DEFINE record == [nonce |-> interest.nonce, left |-> interest.lifetime]
           table == With(w.e.in, {f}, record)
           recorded == [w EXCEPT !.e.in = table]
           last == MaxLeft(table)
           timed == [recorded EXCEPT !.e.timer = last]
           hops == IF interest.nextHop # NoFace THEN {interest.nextHop} ELSE Hops(interest)
           v == onContentStoreMiss(w, f, interest)
<1>1. DOMAIN w = {"e", "out"} /\ DOMAIN w.e = EntryFields /\ InTable(w.e.in) /\ OutTable(w.e.out)
      /\ w.e.timer \in Nat
  BY DEF IsWork, IsEntry
<1>2. InTable(table) /\ f \in DOMAIN table /\ table[f] = record
  <2>1. DOMAIN table = DOMAIN w.e.in \cup {f} /\ table[f] = record
    BY DEF With
  <2>2. \A g \in DOMAIN table : table[g] = record \/ (g \in DOMAIN w.e.in /\ table[g] = w.e.in[g])
    BY DEF With
  <2>3. DOMAIN record = {"nonce", "left"} /\ record.left \in Int
    BY DEF IsInterest
  <2> HIDE DEF table, record
  <2> QED BY <1>1, <2>1, <2>2, <2>3 DEF InTable
<1>3. record.left = interest.lifetime /\ interest.lifetime \in Nat
  BY DEF IsInterest
<1> HIDE DEF table, record
<1>4. last \in Nat /\ \A g \in DOMAIN table : table[g].left <= last
  <2>1. last \in Int /\ \A g \in DOMAIN table : table[g].left <= last
    BY <1>2, LastToExpire
  <2> QED BY <1>2, <1>3, <2>1
<1> HIDE DEF last
<1>5. /\ DOMAIN recorded = {"e", "out"} /\ DOMAIN recorded.e = EntryFields /\ recorded.e.in = table
      /\ recorded.e.out = w.e.out /\ recorded.out = w.out
  BY <1>1 DEF EntryFields
<1> HIDE DEF recorded
<1>6. /\ DOMAIN timed = {"e", "out"} /\ DOMAIN timed.e = EntryFields /\ timed.e.in = table
      /\ timed.e.out = w.e.out /\ timed.out = w.out /\ timed.e.timer = last
  BY <1>5 DEF EntryFields
<1>7. v = IF interest.nextHop # NoFace
          THEN IF interest.nextHop \in Faces THEN onOutgoingInterest(timed, {interest.nextHop}, interest)
               ELSE timed
          ELSE afterReceiveInterest(timed, interest)
  <2>1. recorded.e.in = table
    BY <1>5
  <2>2. setExpiryTimer(recorded, MaxLeft(recorded.e.in)) = timed
    BY <2>1 DEF setExpiryTimer, last
  <2> HIDE DEF timed
  <2> DEFINE set == setExpiryTimer(recorded, MaxLeft(recorded.e.in))
  <2>3. v = IF interest.nextHop # NoFace
            THEN IF interest.nextHop \in Faces THEN onOutgoingInterest(set, {interest.nextHop}, interest)
                 ELSE set
            ELSE afterReceiveInterest(set, interest)
    BY Zenon DEF onContentStoreMiss, recorded, table, record
  <2> HIDE DEF v, set
  <2>4. set = timed
    BY <2>2 DEF set
  <2> QED BY <2>3, <2>4
<1> HIDE DEF timed
<1>8. IsWork(timed)
  BY <1>1, <1>2, <1>4, <1>6 DEF IsWork, IsEntry
<1>9. Forwarded(timed, v, interest, hops)
  <2>1. CASE interest.nextHop # NoFace /\ interest.nextHop \in Faces
    BY <1>7, <1>8, <2>1, OutgoingInterest
  <2>2. CASE interest.nextHop # NoFace /\ interest.nextHop \notin Faces
    BY <1>7, <1>8, <2>2, NotForwarded
  <2>3. CASE interest.nextHop = NoFace
    BY <1>7, <1>8, <2>3, Strategy
  <2> QED BY <2>1, <2>2, <2>3
<1> HIDE DEF v
<1>10. IsWork(v) /\ v.e.in = table /\ v.out \subseteq w.out \cup Frames(hops, interest)
       /\ (v.e.timer = last \/ ~hasPendingOutRecords(v.e))
  BY <1>6, <1>9 DEF Forwarded
<1> QED BY <1>4, <1>10 DEF Missed, v, table, record

\* Data was sent by those of some faces that the scope allows; unless it is of a
\* flow, they wait no longer.
Sends(w, v, fs, data) ==
  /\ IsWork(v)
  /\ v.e.in = IF UnderLltc(data.name) THEN w.e.in ELSE Without(w.e.in, fs)
  /\ v.e.out = w.e.out /\ v.e.timer = w.e.timer
  /\ v.out = w.out \cup Frames({f \in fs : ~OutOfScope(f, data.name)}, data)

LEMMA WithoutIn ==
  ASSUME NEW t, InTable(t), NEW fs
  PROVE  InTable(Without(t, fs))
<1>1. DOMAIN Without(t, fs) = DOMAIN t \ fs /\ \A f \in DOMAIN t \ fs : Without(t, fs)[f] = t[f]
  BY DEF Without, Restrict
<1> QED BY <1>1 DEF InTable

LEMMA WithoutOut ==
  ASSUME NEW t, OutTable(t), NEW fs
  PROVE  OutTable(Without(t, fs))
<1>1. DOMAIN Without(t, fs) = DOMAIN t \ fs /\ \A f \in DOMAIN t \ fs : Without(t, fs)[f] = t[f]
  BY DEF Without, Restrict
<1> QED BY <1>1 DEF OutTable

LEMMA SendsData ==
  ASSUME NEW w, IsWork(w), NEW fs, NEW data
  PROVE  Sends(w, sendData(w, fs, data), fs, data)
<1> DEFINE table == Without(w.e.in, fs)
           u == IF UnderLltc(data.name) THEN w ELSE [w EXCEPT !.e.in = table]
           allowed == {f \in fs : ~OutOfScope(f, data.name)}
           v == Send(u, allowed, data)
<1>1. DOMAIN w = {"e", "out"} /\ DOMAIN w.e = EntryFields /\ InTable(w.e.in) /\ OutTable(w.e.out)
      /\ w.e.timer \in Nat
  BY DEF IsWork, IsEntry
<1>2. sendData(w, fs, data) = v
  BY DEF sendData, onOutgoingData, wouldViolateScope, OutOfScope
<1>3. InTable(table)
  BY <1>1, WithoutIn
<1> HIDE DEF table
<1>4. /\ DOMAIN u = {"e", "out"} /\ DOMAIN u.e = EntryFields
      /\ u.e.in = IF UnderLltc(data.name) THEN w.e.in ELSE table
      /\ u.e.out = w.e.out /\ u.e.timer = w.e.timer /\ u.out = w.out
  BY <1>1 DEF EntryFields
<1> HIDE DEF u, allowed
<1>5. DOMAIN v = {"e", "out"} /\ v.e = u.e /\ v.out = u.out \cup Frames(allowed, data)
  BY <1>4, SendFacts
<1> HIDE DEF v
<1>6. IsEntry(v.e)
  BY <1>1, <1>3, <1>4, <1>5 DEF IsEntry
<1> QED BY <1>2, <1>4, <1>5, <1>6 DEF Sends, IsWork, table, allowed

\* The fields of an entry that ends now, and of one that is satisfied.
Alike(w, v) == v.e.in = w.e.in /\ v.e.out = w.e.out /\ v.out = w.out

LEMMA Timed ==
  ASSUME NEW w, IsWork(w), NEW time \in Nat
  PROVE  /\ IsWork(setExpiryTimer(w, time)) /\ Alike(w, setExpiryTimer(w, time))
         /\ setExpiryTimer(w, time).e.timer = time
<1> DEFINE v == [w EXCEPT !.e.timer = time]
<1>1. DOMAIN w = {"e", "out"} /\ DOMAIN w.e = EntryFields /\ InTable(w.e.in) /\ OutTable(w.e.out)
  BY DEF IsWork, IsEntry
<1>2. /\ DOMAIN v = {"e", "out"} /\ DOMAIN v.e = EntryFields /\ v.e.in = w.e.in
      /\ v.e.out = w.e.out /\ v.e.timer = time /\ v.out = w.out
  BY <1>1 DEF EntryFields
<1>3. setExpiryTimer(w, time) = v
  BY DEF setExpiryTimer
<1> HIDE DEF v
<1>4. IsEntry(v.e)
  BY <1>1, <1>2 DEF IsEntry
<1> QED BY <1>2, <1>3, <1>4 DEF Alike, IsWork

LEMMA Satisfied ==
  ASSUME NEW w, IsWork(w), NEW data
  PROVE  /\ IsWork(satisfied(w, data)) /\ Alike(w, satisfied(w, data))
         /\ satisfied(w, data).e.timer = w.e.timer
<1> DEFINE v == [w EXCEPT !.e.satisfied = TRUE, !.e.fresh = data.fresh]
<1>1. DOMAIN w = {"e", "out"} /\ DOMAIN w.e = EntryFields /\ InTable(w.e.in) /\ OutTable(w.e.out)
      /\ w.e.timer \in Nat
  BY DEF IsWork, IsEntry
<1>2. /\ DOMAIN v = {"e", "out"} /\ DOMAIN v.e = EntryFields /\ v.e.in = w.e.in
      /\ v.e.out = w.e.out /\ v.e.timer = w.e.timer /\ v.out = w.out
  BY <1>1 DEF EntryFields
<1>3. satisfied(w, data) = v
  BY DEF satisfied
<1> HIDE DEF v
<1>4. IsEntry(v.e)
  BY <1>1, <1>2 DEF IsEntry
<1> QED BY <1>2, <1>3, <1>4 DEF Alike, IsWork

LEMMA WorkFacts ==
  ASSUME NEW e, IsEntry(e), NEW out
  PROVE  IsWork(Work(e, out)) /\ Work(e, out).e = e /\ Work(e, out).out = out
BY DEF Work, IsWork

LEMMA EmptyEntryFacts ==
  IsEntry(EmptyEntry) /\ DOMAIN EmptyEntry.in = {} /\ DOMAIN EmptyEntry.out = {}
<1>1. DOMAIN <<>> = {}
  OBVIOUS
<1> QED BY <1>1 DEF EmptyEntry, IsEntry, EntryFields, InTable, OutTable

\* Data that matches one entry.
Served(w, v, ingress, data) ==
  LET downstreams == {f \in DOMAIN w.e.in \ {ingress} : w.e.in[f].left > 0}
  IN /\ IsEntry(v.e)
     /\ v.e.timer = 0
     /\ v.e.in = Without(w.e.in, downstreams)
     /\ v.out = w.out \cup Frames({f \in downstreams : ~OutOfScope(f, data.name)}, data)

LEMMA OneMatchServes ==
  ASSUME NEW w, IsWork(w), NEW ingress, NEW data, ~UnderLltc(data.name)
  PROVE  Served(w, OneMatch(w, ingress, data), ingress, data)
<1> DEFINE w0 == setExpiryTimer(w, 0)
           fs == {f \in DOMAIN w0.e.in \ {ingress} : w0.e.in[f].left > 0}
           w1 == sendData(w0, fs, data)
           w2 == satisfied(w1, data)
           table == Without(w2.e.out, {ingress})
           w3 == [w2 EXCEPT !.e.out = table]
<1>1. IsWork(w0) /\ Alike(w, w0) /\ w0.e.timer = 0
  BY Timed
<1>2. OneMatch(w, ingress, data) = w3
  BY DEF OneMatch, sendDataToAll
<1> HIDE DEF w0
<1>3. fs = {f \in DOMAIN w.e.in \ {ingress} : w.e.in[f].left > 0}
  BY <1>1 DEF Alike
<1> HIDE DEF fs
<1>4. Sends(w0, w1, fs, data)
  BY <1>1, SendsData
<1> HIDE DEF w1
<1>5. IsWork(w1)
  BY <1>4 DEF Sends
<1>6. IsWork(w2) /\ Alike(w1, w2) /\ w2.e.timer = w1.e.timer
  BY <1>5, Satisfied
<1> HIDE DEF w2
<1>7. DOMAIN w2 = {"e", "out"} /\ DOMAIN w2.e = EntryFields /\ InTable(w2.e.in) /\ OutTable(w2.e.out)
  BY <1>6 DEF IsWork, IsEntry
<1>8. OutTable(table)
  BY <1>7, WithoutOut
<1> HIDE DEF table
<1>9. /\ DOMAIN w3.e = EntryFields /\ w3.e.in = w2.e.in /\ w3.e.out = table
      /\ w3.e.timer = w2.e.timer /\ w3.out = w2.out
  BY <1>7 DEF EntryFields
<1> HIDE DEF w3
<1>10. w3.e.timer = 0 /\ w3.e.in = Without(w.e.in, fs)
  BY <1>1, <1>4, <1>6, <1>9 DEF Sends, Alike
<1>11. w3.out = w.out \cup Frames({f \in fs : ~OutOfScope(f, data.name)}, data)
  BY <1>1, <1>4, <1>6, <1>9 DEF Sends, Alike
<1>12. IsEntry(w3.e)
  BY <1>7, <1>8, <1>9, <1>10 DEF IsEntry
<1> QED BY <1>2, <1>3, <1>10, <1>11, <1>12 DEF Served

\* Data that matches several entries.
LEMMA EndedFacts ==
  ASSUME NEW e, IsEntry(e), NEW ingress, NEW data
  PROVE  /\ IsEntry(Ended(e, ingress, data)) /\ Ended(e, ingress, data).timer = 0
         /\ DOMAIN Ended(e, ingress, data).in = {}
<1> DEFINE w == satisfied(Work(e, {}), data)
           table == Without(w.e.out, {ingress})
           d == [w.e EXCEPT !.timer = 0, !.in = <<>>, !.out = table]
<1>1. IsWork(w)
  BY WorkFacts, Satisfied
<1>2. Ended(e, ingress, data) = d
  BY DEF Ended
<1> HIDE DEF w
<1>3. DOMAIN w.e = EntryFields /\ OutTable(w.e.out)
  BY <1>1 DEF IsWork, IsEntry
<1>4. OutTable(table)
  BY <1>3, WithoutOut
<1> HIDE DEF table
<1>5. DOMAIN d = EntryFields /\ d.timer = 0 /\ d.in = <<>> /\ d.out = table
  BY <1>3 DEF EntryFields
<1>6. DOMAIN <<>> = {}
  OBVIOUS
<1> HIDE DEF d
<1>7. InTable(d.in) /\ DOMAIN d.in = {}
  BY <1>5, <1>6 DEF InTable
<1> QED BY <1>2, <1>4, <1>5, <1>7 DEF IsEntry

LEMMA SeveralServed ==
  ASSUME NEW matches, NEW ingress, NEW data
  PROVE  LET downstreams == UNION {{f \in DOMAIN pit[k].in : pit[k].in[f].left > 0} : k \in matches}
         IN SeveralMatches(matches, ingress, data)
              = Frames({f \in downstreams \ {ingress} : ~OutOfScope(f, data.name)}, data)
<1> DEFINE downstreams == UNION {{f \in DOMAIN pit[k].in : pit[k].in[f].left > 0} : k \in matches}
           w == Work(EmptyEntry, {})
           fs == {f \in downstreams \ {ingress} : ~OutOfScope(f, data.name)}
<1>1. SeveralMatches(matches, ingress, data) = Send(w, fs, data).out
  BY DEF SeveralMatches, onOutgoingData, wouldViolateScope, OutOfScope
<1>2. DOMAIN w = {"e", "out"} /\ w.out = {}
  BY DEF Work
<1> HIDE DEF w, fs
<1>3. Send(w, fs, data).out = w.out \cup Frames(fs, data)
  BY <1>2 DEF Send, Frames
<1> QED BY <1>1, <1>2, <1>3 DEF fs

\* Data from the store.
LEMMA Hit ==
  ASSUME NEW e, IsEntry(e), DOMAIN e.in = {}, NEW f, NEW data, NEW v,
         v = onContentStoreHit(Work(e, {}), f, data)
  PROVE  /\ IsEntry(v.e) /\ DOMAIN v.e.in = {}
         /\ v.out = Frames({g \in {f} : ~OutOfScope(g, data.name)}, data)
<1> DEFINE w0 == Work(e, {})
           w1 == satisfied(w0, data)
           w2 == setExpiryTimer(w1, 0)
<1>1. IsWork(w0) /\ w0.e = e /\ w0.out = {}
  BY WorkFacts
<1>2. v = sendData(w2, {f}, data)
  BY DEF onContentStoreHit
<1> HIDE DEF w0
<1>3. IsWork(w1) /\ Alike(w0, w1)
  BY <1>1, Satisfied
<1> HIDE DEF w1
<1>4. IsWork(w2) /\ Alike(w1, w2)
  BY <1>3, Timed
<1> HIDE DEF w2
<1>5. Sends(w2, v, {f}, data)
  BY <1>2, <1>4, SendsData
<1>6. DOMAIN w2.e.in = {} /\ w2.out = {}
  BY <1>1, <1>3, <1>4 DEF Alike
<1>7. DOMAIN v.e.in = {}
  BY <1>5, <1>6 DEF Sends, Without, Restrict
<1>8. v.out = Frames({g \in {f} : ~OutOfScope(g, data.name)}, data)
  BY <1>5, <1>6 DEF Sends
<1> QED BY <1>5, <1>7, <1>8 DEF Sends, IsWork

\* A Capsule leaves its entry as it was, and only Capsules are sent.
OnlyData(out) == \A s \in out : s[2].packet.kind = "Data"

LEMMA FramesOfData ==
  ASSUME NEW fs, NEW packet, packet.kind = "Data"
  PROVE  OnlyData(Frames(fs, packet))
BY DEF OnlyData, Frames, sendNetPacket, Frame

Passed(w, v) ==
  IsWork(v) /\ v.e.in = w.e.in /\ v.e.out = w.e.out /\ v.e.timer = w.e.timer /\ OnlyData(v.out)

LEMMA CapsulePassed ==
  ASSUME NEW w, IsWork(w), w.out = {}, NEW data, IsData(data), UnderLltc(data.name)
  PROVE  Passed(w, deliverCapsule(w, data)) /\ Passed(w, CapsuleOnRsp(w, data))
<1> DEFINE capsule(n) == [data EXCEPT !.transient = n]
<1>1. \A n : capsule(n).kind = "Data" /\ capsule(n).name = data.name
  BY DEF IsData
<1>2. Passed(w, w)
  BY DEF Passed, OnlyData
<1>3. ASSUME NEW fs, NEW n PROVE Passed(w, sendData(w, fs, capsule(n)))
  <2> DEFINE c == capsule(n)
             v == sendData(w, fs, c)
  <2>1. c.kind = "Data" /\ c.name = data.name
    BY <1>1
  <2> HIDE DEF c
  <2>2. Sends(w, v, fs, c)
    BY SendsData
  <2> HIDE DEF v
  <2>3. v.out = Frames({f \in fs : ~OutOfScope(f, c.name)}, c)
    BY <2>2 DEF Sends
  <2>4. OnlyData(v.out)
    BY <2>1, <2>3, FramesOfData
  <2> QED BY <2>1, <2>2, <2>4 DEF Sends, Passed, v, c
<1>4. ASSUME NEW fs, NEW n PROVE Passed(w, onOutgoingData(w, fs, capsule(n)))
  <2>1. sendData(w, fs, capsule(n)) = onOutgoingData(w, fs, capsule(n))
    BY <1>1 DEF sendData
  <2> QED BY <1>3, <2>1
<1>5. Passed(w, deliverCapsule(w, data))
  BY <1>2, <1>3, Zenon DEF deliverCapsule
<1>6. Passed(w, CapsuleOnRsp(w, data))
  BY <1>2, <1>4, Zenon DEF CapsuleOnRsp
<1> QED BY <1>5, <1>6

-----------------------------------------------------------------------------
(* The content store. *)

LEMMA RemovedAt ==
  ASSUME NEW S, NEW s \in Seq(S), NEW i \in 1 .. Len(s)
  PROVE  RemoveAt(s, i) \in Seq(S)
<1>1. SubSeq(s, 1, i - 1) \in Seq(S) /\ SubSeq(s, i + 1, Len(s)) \in Seq(S)
  <2>1. i \in Int /\ 1 <= i /\ i <= Len(s) /\ Len(s) \in Nat
    OBVIOUS
  <2>2. \A j \in 1 .. i - 1 : s[j] \in S
    BY <2>1
  <2>3. \A j \in i + 1 .. Len(s) : s[j] \in S
    BY <2>1
  <2> QED BY <2>1, <2>2, <2>3
<1> QED BY <1>1 DEF RemoveAt

LEMMA MovedTo ==
  ASSUME NEW S, NEW s \in Seq(S), NEW i \in 1 .. Len(s)
  PROVE  Moved(s, i) \in Seq(S)
<1>1. RemoveAt(s, i) \in Seq(S) /\ s[i] \in S
  BY RemovedAt
<1> QED BY <1>1 DEF Moved

LEMMA VictimIsThere ==
  ASSUME NEW s \in Seq(CsEntries), Len(s) > 0
  PROVE  Victim(s) \in 1 .. Len(s)
<1> DEFINE U == {i \in 1 .. Len(s) : s[i].unsolicited}
           T == {i \in 1 .. Len(s) : s[i].left < 0}
           u == IF U # {} THEN Min(U) ELSE 0
           t == IF T # {} THEN Min(T) ELSE 0
           inTurn == <<u, t, 1>>
           F == {i \in 1 .. Len(inTurn) : inTurn[i] # 0}
<1>1. Len(s) \in Nat /\ IsFiniteSet(1 .. Len(s)) /\ 1 \in 1 .. Len(s)
  BY FS_Interval
<1>2. u \in 0 .. Len(s)
  <2>1. U \subseteq 1 .. Len(s) /\ U \subseteq Int /\ IsFiniteSet(U)
    BY <1>1, FS_Subset
  <2> HIDE DEF U
  <2>2. CASE U = {}
    BY <1>1, <2>2
  <2>3. CASE U # {}
    <3>1. Min(U) \in U /\ u = Min(U)
      BY <2>1, <2>3, MinFacts
    <3>2. u \in 1 .. Len(s)
      BY <2>1, <3>1
    <3> QED BY <1>1, <3>2
  <2> QED BY <2>2, <2>3
<1>3. t \in 0 .. Len(s)
  <2>1. T \subseteq 1 .. Len(s) /\ T \subseteq Int /\ IsFiniteSet(T)
    BY <1>1, FS_Subset
  <2> HIDE DEF T
  <2>2. CASE T = {}
    BY <1>1, <2>2
  <2>3. CASE T # {}
    <3>1. Min(T) \in T /\ t = Min(T)
      BY <2>1, <2>3, MinFacts
    <3>2. t \in 1 .. Len(s)
      BY <2>1, <3>1
    <3> QED BY <1>1, <3>2
  <2> QED BY <2>2, <2>3
<1>4. Victim(s) = IF CsPolicy = "lru" THEN 1 ELSE inTurn[IF F # {} THEN Min(F) ELSE 0]
  BY DEF Victim, SelectInSeq
<1> HIDE DEF u, t
<1>5. Len(inTurn) = 3 /\ inTurn[1] = u /\ inTurn[2] = t /\ inTurn[3] = 1
  OBVIOUS
<1> HIDE DEF inTurn
<1>6. 3 \in F /\ F \subseteq 1 .. 3
  BY <1>5
<1>7. Min(F) \in F
  <2> DEFINE n == Len(inTurn)
  <2>1. n \in Int /\ F \subseteq 1 .. n
    BY <1>5
  <2> HIDE DEF n
  <2>2. IsFiniteSet(1 .. n) /\ 1 .. n \subseteq Int
    BY <2>1, FS_Interval
  <2> HIDE DEF F
  <2>3. IsFiniteSet(F) /\ F \subseteq Int /\ F # {}
    BY <1>6, <2>1, <2>2, FS_Subset
  <2> QED BY <2>3, MinFacts
<1>8. inTurn[Min(F)] # 0 /\ Min(F) \in 1 .. 3
  BY <1>5, <1>7
<1> HIDE DEF F
<1>9. inTurn[Min(F)] \in 1 .. Len(s)
  <2>1. Min(F) = 1 \/ Min(F) = 2 \/ Min(F) = 3
    BY <1>8
  <2>2. inTurn[Min(F)] \in 0 .. Len(s)
    BY <1>1, <1>2, <1>3, <1>5, <2>1
  <2> QED BY <1>1, <1>8, <2>2
<1> QED BY <1>1, <1>4, <1>6, <1>9

LEMMA Evicted ==
  ASSUME NEW s \in Seq(CsEntries)
  PROVE  evictEntries(s) \in Seq(CsEntries)
<1>1. CASE Len(s) > CsLimit
  <2>1. Len(s) > 0
    BY <1>1, CsAssumption
  <2>2. RemoveAt(s, Victim(s)) \in Seq(CsEntries)
    BY <2>1, VictimIsThere, RemovedAt
  <2> QED BY <1>1, <2>2 DEF evictEntries
<1>2. CASE ~(Len(s) > CsLimit)
  BY <1>2 DEF evictEntries
<1> QED BY <1>1, <1>2

LEMMA Inserted ==
  ASSUME NEW s \in Seq(CsEntries), NEW data \in DataPackets, NEW unsolicited \in BOOLEAN
  PROVE  insert(s, data, unsolicited) \in Seq(CsEntries)
<1> DEFINE old == {i \in DOMAIN s : SamePacket(s[i].data, data)}
           i == CHOOSE i \in old : TRUE
           e == [data |-> data, left |-> data.fresh, unsolicited |-> unsolicited]
           r == [s EXCEPT ![i].left = s[i].data.fresh, ![i].unsolicited = s[i].unsolicited /\ unsolicited]
<1>1. \A d \in DataPackets : d.fresh \in Nat
  BY DataPacketsAreData DEF IsData
<1>2. CASE CsLimit = 0 \/ data.noCache
  BY <1>2 DEF insert
<1>3. CASE ~(CsLimit = 0 \/ data.noCache) /\ old # {}
  <2>1. i \in old
    BY <1>3
  <2>2. insert(s, data, unsolicited) = Moved(r, i)
    BY <1>3 DEF insert
  <2>3. i \in 1 .. Len(s) /\ s[i] \in CsEntries
    BY <2>1
  <2> HIDE DEF i
  <2>4. r \in Seq(CsEntries) /\ Len(r) = Len(s)
    <3> DEFINE f == [s[i] EXCEPT !.left = s[i].data.fresh, !.unsolicited = s[i].unsolicited /\ unsolicited]
    <3> DEFINE x == s[i].unsolicited /\ unsolicited
    <3>1. x \in BOOLEAN
      OBVIOUS
    <3>2. r = [s EXCEPT ![i] = f]
      BY <2>3
    <3> HIDE DEF x
    <3>3. s[i].data.fresh \in Int
      BY <1>1, <2>3 DEF CsEntries
    <3>4. f \in CsEntries
      BY <2>3, <3>1, <3>3 DEF CsEntries
    <3> HIDE DEF f, r
    <3> QED BY <2>3, <3>2, <3>4
  <2> HIDE DEF r
  <2> QED BY <2>2, <2>3, <2>4, MovedTo
<1>4. CASE ~(CsLimit = 0 \/ data.noCache) /\ old = {}
  <2>1. insert(s, data, unsolicited) = evictEntries(Append(s, e))
    BY <1>4 DEF insert
  <2>2. e \in CsEntries
    BY <1>1 DEF CsEntries
  <2> HIDE DEF e
  <2>3. Append(s, e) \in Seq(CsEntries)
    BY <2>2
  <2> QED BY <2>1, <2>3, Evicted
<1> QED BY <1>2, <1>3, <1>4

LEMMA UsedAndAged ==
  ASSUME NEW s \in Seq(CsEntries)
  PROVE  /\ Aged(s) \in Seq(CsEntries)
         /\ \A i \in 1 .. Len(s) : beforeUse(s, i) \in Seq(CsEntries)
<1>1. ASSUME NEW i \in 1 .. Len(s) PROVE beforeUse(s, i) \in Seq(CsEntries)
  BY MovedTo DEF beforeUse
<1>2. Aged(s) \in Seq(CsEntries)
  <2>1. ASSUME NEW i \in 1 .. Len(s)
        PROVE  [s[i] EXCEPT !.left = Elapse(s[i].left)] \in CsEntries
    <3>1. s[i] \in CsEntries
      OBVIOUS
    <3>2. Elapse(s[i].left) \in Int
      BY <3>1 DEF Elapse, CsEntries
    <3> QED BY <3>1, <3>2 DEF CsEntries
  <2>2. DOMAIN s = 1 .. Len(s) /\ Len(s) \in Nat
    OBVIOUS
  <2>3. Aged(s) = [i \in 1 .. Len(s) |-> [s[i] EXCEPT !.left = Elapse(s[i].left)]]
    BY <2>2 DEF Aged
  <2> QED BY <2>1, <2>2, <2>3
<1> QED BY <1>1, <1>2

\* What is found in the store is there, and matches.
LEMMA Found ==
  ASSUME NEW s \in Seq(CsEntries), NEW interest, findInterest(s, interest) # 0
  PROVE  /\ findInterest(s, interest) \in 1 .. Len(s)
         /\ matchesData(interest, s[findInterest(s, interest)].data)
<1> DEFINE I == {i \in DOMAIN s : canSatisfy(s[i], interest)}
           P == {Pos(s[i].data.name) : i \in I}
<1>1. Len(s) \in Nat /\ DOMAIN s = 1 .. Len(s) /\ IsFiniteSet(1 .. Len(s))
  BY FS_Interval
<1>2. findInterest(s, interest) = FirstOf(s, I)
  BY DEF findInterest
<1>3. I # {}
  BY <1>2 DEF FirstOf
<1>4. \A i \in I : Pos(s[i].data.name) \in Int
  <2> SUFFICES ASSUME NEW i \in I PROVE Pos(s[i].data.name) \in Int
    OBVIOUS
  <2>1. s[i] \in CsEntries
    BY <1>1
  <2>2. s[i].data.name \in Names
    BY <2>1, DataPacketsAreData DEF CsEntries, IsData
  <2>3. \E j \in DOMAIN NameOrder : NameOrder[j] = s[i].data.name
    BY <2>2 DEF Names, ToSet
  <2>4. Pos(s[i].data.name) \in DOMAIN NameOrder
    BY <2>3 DEF Pos
  <2>5. DOMAIN NameOrder \subseteq Int
    BY ForwarderAssumption
  <2> QED BY <2>4, <2>5
<1>5. IsFiniteSet(P)
  <2> DEFINE g == [i \in I |-> Pos(s[i].data.name)]
  <2>1. g \in Surjection(I, P)
    BY DEF Surjection
  <2>2. IsFiniteSet(I)
    BY <1>1, FS_Subset
  <2> QED BY <2>1, <2>2, FS_Surjection
<1>6. P \subseteq Int /\ P # {} /\ \A i \in I : Pos(s[i].data.name) \in P
  BY <1>3, <1>4
<1>7. PICK i \in I : Pos(s[i].data.name) = Min(P)
  <2>1. Min(P) \in P
    <3> HIDE DEF P
    <3> QED BY <1>5, <1>6, MinFacts
  <2> QED BY <2>1
<1>8. \A j \in I : Pos(s[i].data.name) <= Pos(s[j].data.name)
  <2>1. \A y \in P : Min(P) <= y
    <3> HIDE DEF P
    <3> QED BY <1>5, <1>6, MinFacts
  <2> QED BY <1>6, <1>7, <2>1
<1> HIDE DEF P
<1>9. FirstOf(s, I) \in I
  <2> HIDE DEF I
  <2> QED BY <1>3, <1>7, <1>8 DEF FirstOf
<1> QED BY <1>1, <1>2, <1>9 DEF canSatisfy

-----------------------------------------------------------------------------
(* What each event does. *)

LEMMA EntryOfKey ==
  ASSUME TypeOK, NEW k
  PROVE  IsEntry(EntryOf(k))
BY EmptyEntryFacts DEF EntryOf, TypeOK

\* Nothing changes but the Nack that may be sent.
Looped ==
  UNCHANGED <<pit, cs, dnl, asked, unasked, unmet, dead, flow>>
    /\ \A s \in sent' : s[2].packet.kind = "Nack"

\* The store has an answer.
Answered(e, v, f, interest) ==
  /\ DOMAIN e.in = {} /\ DOMAIN v.e.in = {}
  /\ \E data \in DataPackets :
       /\ matchesData(Selectors(interest), data)
       /\ v.out = Frames({g \in {f} : ~OutOfScope(g, data.name)}, data)

Admitted(f, interest, v) ==
  LET k == Selectors(interest)
  IN /\ ~OutOfScope(f, interest.name)
     /\ <<interest.name, interest.nonce>> \notin dnl
     /\ IsEntry(v.e)
     /\ pit' = With(pit, {k}, v.e)
     /\ cs' \in Seq(CsEntries)
     /\ sent' = v.out
     /\ Account([asked EXCEPT ![<<f, k>>] = interest.lifetime], v.out, {k}, {})
     /\ flow' = [flow EXCEPT ![k] = 0]
     /\ UNCHANGED <<dnl, unmet, dead>>
     /\ \/ Missed(Work(EntryOf(k), {}), v, f, interest)
        \/ Answered(EntryOf(k), v, f, interest)

LEMMA InterestComes ==
  ASSUME TypeOK, NEW f \in Faces, NEW interest, IsInterest(interest), onIncomingInterest(f, interest)
  PROVE  interest.kind = "Interest" /\ (Looped \/ \E v : Admitted(f, interest, v))
<1> DEFINE k == Selectors(interest)
           e == EntryOf(k)
           hit == IF DOMAIN e.in = {} THEN findInterest(cs, interest) ELSE 0
           w == IF hit # 0 THEN onContentStoreHit(Work(e, {}), f, cs[hit].data)
                           ELSE onContentStoreMiss(Work(e, {}), f, interest)
           loops == <<k.name, interest.nonce>> \in dnl \/ findDuplicateNonce(e, f, interest.nonce)
<1>1. /\ interest.kind = "Interest" /\ ~OutOfScope(f, interest.name)
      /\ IF loops THEN onInterestLoop(f, interest)
         ELSE /\ pit' = With(pit, {k}, w.e)
              /\ cs' = IF hit # 0 THEN beforeUse(cs, hit) ELSE cs
              /\ sent' = w.out
              /\ Account([asked EXCEPT ![<<f, k>>] = interest.lifetime], w.out, {k}, {})
              /\ flow' = [flow EXCEPT ![k] = 0]
              /\ UNCHANGED <<dnl, unmet, dead>>
  BY Zenon DEF onIncomingInterest, EntryOf
<1>2. k.name = interest.name
  BY DEF Selectors
<1>3. IsEntry(e) /\ cs \in Seq(CsEntries)
  BY EntryOfKey DEF TypeOK
<1> HIDE DEF e, k
<1>4. CASE loops
  <2>1. onInterestLoop(f, interest)
    BY <1>1, <1>4
  <2> DEFINE nack == [interest EXCEPT !.kind = "Nack"]
  <2>2. nack.kind = "Nack"
    BY DEF IsInterest
  <2>3. \A s \in sent' : s[2].packet.kind = "Nack"
    <3>1. sent' = IF f \in P2pFaces THEN {<<f, sendNetPacket(f, nack)>>} ELSE {}
      BY <2>1 DEF onInterestLoop
    <3> HIDE DEF nack
    <3>2. sendNetPacket(f, nack).packet = nack
      BY DEF sendNetPacket, Frame
    <3> QED BY <2>2, <3>1, <3>2
  <2> QED BY <1>1, <2>1, <2>3 DEF onInterestLoop, Looped, ghosts
<1>5. CASE ~loops /\ hit # 0
  <2>1. DOMAIN e.in = {} /\ hit = findInterest(cs, interest)
    BY <1>5
  <2>2. hit \in 1 .. Len(cs) /\ matchesData(interest, cs[hit].data)
    BY <1>3, <1>5, <2>1, Found
  <2> HIDE DEF hit
  <2> DEFINE data == cs[hit].data
  <2>3. data \in DataPackets /\ matchesData(k, data)
    <3>1. cs[hit] \in CsEntries
      BY <1>3, <2>2
    <3> QED BY <2>2, <3>1 DEF CsEntries, matchesData, Selectors, k
  <2> HIDE DEF data
  <2>4. w = onContentStoreHit(Work(e, {}), f, data)
    BY <1>5 DEF data
  <2> HIDE DEF w
  <2>5. /\ IsEntry(w.e) /\ DOMAIN w.e.in = {}
        /\ w.out = Frames({g \in {f} : ~OutOfScope(g, data.name)}, data)
    BY <1>3, <2>1, <2>4, Hit
  <2>6. Answered(e, w, f, interest)
    BY <2>1, <2>3, <2>5 DEF Answered, k
  <2>7. cs' \in Seq(CsEntries)
    BY <1>1, <1>3, <1>5, <2>2, UsedAndAged
  <2>8. Admitted(f, interest, w)
    BY <1>1, <1>2, <1>5, <2>5, <2>6, <2>7 DEF Admitted, e, k
  <2> QED BY <1>1, <2>8
<1>6. CASE ~loops /\ hit = 0
  <2>1. w = onContentStoreMiss(Work(e, {}), f, interest)
    BY <1>6
  <2>2. IsWork(Work(e, {}))
    BY <1>3, WorkFacts
  <2>3. Missed(Work(e, {}), w, f, interest)
    BY <2>1, <2>2, Miss
  <2>4. cs' \in Seq(CsEntries)
    BY <1>1, <1>3, <1>6
  <2> HIDE DEF w
  <2>5. IsEntry(w.e)
    BY <2>3 DEF Missed, IsWork
  <2>6. Admitted(f, interest, w)
    BY <1>1, <1>2, <1>6, <2>3, <2>4, <2>5 DEF Admitted, e, k
  <2> QED BY <1>1, <2>6
<1> QED BY <1>4, <1>5, <1>6

\* A Capsule.
CapsuleAt(k, data) ==
  /\ k \in DOMAIN pit /\ matchesData(k, data)
  /\ cs' \in Seq(CsEntries)
  /\ \E e : /\ pit' = [pit EXCEPT ![k] = e]
            /\ IsEntry(e) /\ e.in = pit[k].in /\ e.timer = PitDuration
  /\ OnlyData(sent')
  /\ flow' = [flow EXCEPT ![k] = PitDuration]
  /\ UNCHANGED <<dnl, asked, unasked, unmet, dead>>

\* Data that belongs to no entry.
Unclaimed == UNCHANGED <<pit, cs, dnl, asked, unasked, unmet, dead, flow>> /\ OnlyData(sent')

LEMMA ForemostMatches ==
  ASSUME TypeOK, NEW data, IsData(data), NEW matches, matches \subseteq PitMatches(data), matches # {}
  PROVE  Foremost(matches) \in matches
<1> DEFINE T == {Len(k.name) : k \in matches}
           g == [k \in matches |-> Len(k.name)]
<1>1. matches \subseteq Keys
  BY DEF PitMatches, TypeOK
<1>2. IsFiniteSet(T)
  <2>1. g \in Surjection(matches, T)
    BY DEF Surjection
  <2>2. IsFiniteSet(matches)
    BY <1>1, KeysAreFinite, FS_Subset
  <2> QED BY <2>1, <2>2, FS_Surjection
<1>3. \A k \in matches : k.name \in Seq(Components)
  BY <1>1, KeyFacts
<1>4. T \subseteq Int /\ T # {} /\ \A k \in matches : Len(k.name) \in T /\ Len(k.name) \in Nat
  <2>1. \A k \in matches : Len(k.name) \in Nat
    BY <1>3
  <2>2. \A k \in matches : Len(k.name) \in T
    OBVIOUS
  <2>3. T \subseteq Int
    BY <2>1
  <2> HIDE DEF T
  <2> QED BY <2>1, <2>2, <2>3
<1>5. PICK k \in matches : Len(k.name) = Max(T)
  <2>1. Max(T) \in T
    <3> HIDE DEF T
    <3> QED BY <1>2, <1>4, MaxFacts
  <2> QED BY <2>1
<1>6. \A j \in matches : Len(j.name) <= Len(k.name)
  <2>1. \A y \in T : y <= Max(T)
    <3> HIDE DEF T
    <3> QED BY <1>2, <1>4, MaxFacts
  <2> QED BY <1>5, <2>1
<1> QED BY <1>6 DEF Foremost

LEMMA CapsuleComes ==
  ASSUME TypeOK, NEW f, NEW data \in DataPackets, UnderLltc(data.name),
         onLltcData(f, data, PitMatches(data))
  PROVE  Unclaimed \/ \E k : CapsuleAt(k, data)
<1> DEFINE matches == PitMatches(data)
           k == Foremost(matches)
           w0 == Work(pit[k], {})
           w1 == IF data.transient = 0 THEN deliverCapsule(w0, data) ELSE CapsuleOnRsp(w0, data)
           w2 == satisfied(w1, data)
           w3 == setExpiryTimer(w2, capsuleTimer)
<1>1. IsData(data)
  BY DataPacketsAreData
<1>2. CASE matches = {}
  <2> DEFINE idle == Work(EmptyEntry, {})
  <2>1. sent' = (IF data.transient = 0 THEN {} ELSE CapsuleOnRsp(idle, data).out)
        /\ UNCHANGED <<pit, cs, dnl, ghosts>>
    BY <1>2 DEF onLltcData
  <2>2. IsWork(idle) /\ idle.out = {}
    BY EmptyEntryFacts, WorkFacts
  <2> HIDE DEF idle
  <2>3. Passed(idle, CapsuleOnRsp(idle, data))
    BY <1>1, <2>2, CapsulePassed
  <2>4. OnlyData(sent')
    BY <2>1, <2>3 DEF Passed, OnlyData
  <2> QED BY <2>1, <2>4 DEF Unclaimed, ghosts
<1>3. CASE matches # {}
  <2>1. /\ cs' = (IF data.transient = 0 THEN insert(cs, data, FALSE) ELSE cs)
        /\ pit' = [pit EXCEPT ![k] = w3.e]
        /\ sent' = w2.out
        /\ flow' = [flow EXCEPT ![k] = PitDuration]
        /\ UNCHANGED <<dnl, asked, unasked, unmet, dead>>
    BY <1>3 DEF onLltcData
  <2>2. k \in matches
    BY <1>1, <1>3, ForemostMatches
  <2>3. k \in DOMAIN pit /\ matchesData(k, data) /\ IsEntry(pit[k])
    BY <2>2 DEF PitMatches, TypeOK
  <2> HIDE DEF k
  <2>4. IsWork(w0) /\ w0.e = pit[k] /\ w0.out = {}
    BY <2>3, WorkFacts
  <2> HIDE DEF w0
  <2>5. Passed(w0, w1)
    BY <1>1, <2>4, CapsulePassed
  <2> HIDE DEF w1
  <2>6. IsWork(w2) /\ Alike(w1, w2)
    BY <2>5, Satisfied DEF Passed
  <2> HIDE DEF w2
  <2>7. capsuleTimer = PitDuration /\ PitDuration \in Nat
    BY ForwarderAssumption DEF capsuleTimer
  <2>8. IsWork(w3) /\ Alike(w2, w3) /\ w3.e.timer = PitDuration
    BY <2>6, <2>7, Timed
  <2> HIDE DEF w3
  <2>9. IsEntry(w3.e) /\ w3.e.in = pit[k].in /\ w3.e.timer = PitDuration /\ OnlyData(w2.out)
    BY <2>4, <2>5, <2>6, <2>8 DEF Passed, Alike, IsWork
  <2>10. cs' \in Seq(CsEntries)
    BY <2>1, Inserted DEF TypeOK
  <2>11. CapsuleAt(k, data)
    BY <2>1, <2>3, <2>9, <2>10 DEF CapsuleAt
  <2> QED BY <2>11
<1> QED BY <1>2, <1>3

\* Ordinary Data: each entry it matches ends, and who waits no longer has it.
Waiters(matches, f) ==
  {g \in Faces \ {f} : \E k \in matches : g \in DOMAIN pit[k].in /\ pit[k].in[g].left > 0}

PlainAt(f, data, matches) ==
  /\ matches \subseteq DOMAIN pit /\ \A k \in matches : matchesData(k, data)
  /\ cs' \in Seq(CsEntries)
  /\ DOMAIN pit' = DOMAIN pit
  /\ \A k \in DOMAIN pit \ matches : pit'[k] = pit[k]
  /\ \A k \in matches :
       /\ IsEntry(pit'[k])
       /\ \A g \in DOMAIN pit'[k].in :
            /\ g \in DOMAIN pit[k].in /\ pit'[k].in[g] = pit[k].in[g]
            /\ g = f \/ ~(pit[k].in[g].left > 0)
  /\ sent' = Frames({g \in Waiters(matches, f) : ~OutOfScope(g, data.name)}, data)
  /\ Account(asked, sent', matches, {f})
  /\ unmet' = unmet \cup {p \in Faces \X Keys :
                            p[2] \in matches /\ asked'[p] > 0 /\ ~OutOfScope(p[1], data.name)}
  /\ dnl \subseteq dnl'
  /\ UNCHANGED <<dead, flow>>

LEMMA PlainDataComes ==
  ASSUME TypeOK, NEW f, NEW data \in DataPackets, ~UnderLltc(data.name),
         onPlainData(f, data, PitMatches(data))
  PROVE  PlainAt(f, data, PitMatches(data))
<1> DEFINE matches == PitMatches(data)
           one == OneMatch(Work(pit[Foremost(matches)], {}), f, data)
           single == Cardinality(matches) = 1
           out == IF single THEN one.out ELSE SeveralMatches(matches, f, data)
           met == {p \in Faces \X Keys : p[2] \in matches}
           sendTo == {g \in Waiters(matches, f) : ~OutOfScope(g, data.name)}
<1>1. IsData(data)
  BY DataPacketsAreData
<1>2. /\ matches # {}
      /\ cs' = (IF mode = "plain" THEN insert(cs, data, FALSE) ELSE cs)
      /\ pit' = [k \in DOMAIN pit |-> IF k \in matches THEN IF single THEN one.e ELSE Ended(pit[k], f, data)
                                                       ELSE pit[k]]
      /\ dnl \subseteq dnl'
      /\ sent' = out
      /\ Account(asked, out, matches, {f})
      /\ unmet' = unmet \cup {p \in met : asked'[p] > 0 /\ ~OutOfScope(p[1], data.name)}
      /\ UNCHANGED <<dead, flow>>
  <2>1. dnl \subseteq dnl'
    BY DEF onPlainData
  <2>2. /\ matches # {}
        /\ cs' = (IF mode = "plain" THEN insert(cs, data, FALSE) ELSE cs)
        /\ sent' = out
        /\ Account(asked, out, matches, {f})
        /\ unmet' = unmet \cup {p \in met : asked'[p] > 0 /\ ~OutOfScope(p[1], data.name)}
        /\ UNCHANGED <<dead, flow>>
    BY Zenon DEF onPlainData
  <2>3. pit' = [k \in DOMAIN pit |-> IF k \in matches THEN IF single THEN one.e ELSE Ended(pit[k], f, data)
                                                       ELSE pit[k]]
    BY DEF onPlainData
  <2> QED BY <2>1, <2>2, <2>3
<1>3. matches \subseteq DOMAIN pit /\ (\A k \in matches : matchesData(k, data)) /\ matches \subseteq Keys
  BY DEF PitMatches, TypeOK
<1>4. \A k \in DOMAIN pit : IsEntry(pit[k]) /\ DOMAIN pit[k].in \subseteq Faces
  BY DEF TypeOK, IsEntry, InTable
<1>5. cs' \in Seq(CsEntries)
  BY <1>2, Inserted DEF TypeOK
<1>6. unmet' = unmet \cup {p \in Faces \X Keys :
                            p[2] \in matches /\ asked'[p] > 0 /\ ~OutOfScope(p[1], data.name)}
  BY <1>2
<1>7. DOMAIN pit' = DOMAIN pit /\ \A k \in DOMAIN pit \ matches : pit'[k] = pit[k]
  BY <1>2
<1>8. CASE single
  <2>1. PICK k : matches = {k}
    <3>1. IsFiniteSet(matches)
      BY <1>3, KeysAreFinite, FS_Subset
    <3> HIDE DEF matches
    <3> QED BY <1>8, <3>1, FS_Singleton
  <2>2. Foremost(matches) = k
    BY <1>1, <1>2, <2>1, ForemostMatches
  <2> DEFINE w == Work(pit[k], {})
             v == OneMatch(w, f, data)
             D == {g \in DOMAIN w.e.in \ {f} : w.e.in[g].left > 0}
  <2>3. k \in DOMAIN pit /\ k \in matches /\ IsEntry(pit[k]) /\ DOMAIN pit[k].in \subseteq Faces
    BY <1>3, <1>4, <2>1
  <2>4. IsWork(w) /\ w.e = pit[k] /\ w.out = {}
    BY <2>3, WorkFacts
  <2>5. one = v
    BY <2>2
  <2> HIDE DEF w
  <2>6. Served(w, v, f, data)
    BY <2>4, OneMatchServes
  <2> HIDE DEF one, v, matches
  <2>7. /\ IsEntry(v.e) /\ v.e.in = Without(w.e.in, D)
        /\ v.out = w.out \cup Frames({g \in D : ~OutOfScope(g, data.name)}, data)
    BY <2>6 DEF Served
  <2>8. D = Waiters(matches, f)
    BY <2>1, <2>3, <2>4 DEF Waiters
  <2> HIDE DEF D
  <2>9. sent' = Frames(sendTo, data)
    BY <1>2, <1>8, <2>4, <2>5, <2>7, <2>8
  <2>10. pit'[k] = v.e
    BY <1>2, <1>8, <2>3, <2>5
  <2>11. \A g \in DOMAIN v.e.in :
           /\ g \in DOMAIN pit[k].in /\ v.e.in[g] = pit[k].in[g]
           /\ g = f \/ ~(pit[k].in[g].left > 0)
    BY <2>4, <2>7 DEF Without, Restrict, D
  <2>12. Account(asked, sent', matches, {f})
    BY <1>2
  <2>13. \A j \in matches :
           /\ IsEntry(pit'[j])
           /\ \A g \in DOMAIN pit'[j].in :
                /\ g \in DOMAIN pit[j].in /\ pit'[j].in[g] = pit[j].in[g]
                /\ g = f \/ ~(pit[j].in[g].left > 0)
    BY <2>1, <2>7, <2>10, <2>11
  <2> QED BY <1>2, <1>3, <1>5, <1>6, <1>7, <2>9, <2>12, <2>13 DEF PlainAt, matches
<1>9. CASE ~single
  <2> DEFINE D == UNION {{g \in DOMAIN pit[k].in : pit[k].in[g].left > 0} : k \in matches}
  <2>1. SeveralMatches(matches, f, data) = Frames({g \in D \ {f} : ~OutOfScope(g, data.name)}, data)
    BY SeveralServed
  <2>2. D \ {f} = Waiters(matches, f)
    BY <1>3, <1>4 DEF Waiters
  <2> HIDE DEF D
  <2>3. sent' = Frames(sendTo, data)
    BY <1>2, <1>9, <2>1, <2>2
  <2>4. ASSUME NEW j \in matches
        PROVE  IsEntry(pit'[j]) /\ DOMAIN pit'[j].in = {}
    <3>1. pit'[j] = Ended(pit[j], f, data)
      BY <1>2, <1>3, <1>9, <2>4
    <3>2. IsEntry(pit[j])
      BY <1>3, <1>4, <2>4
    <3> QED BY <3>1, <3>2, EndedFacts
  <2>5. Account(asked, sent', matches, {f})
    BY <1>2
  <2> HIDE DEF matches
  <2> QED BY <1>2, <1>3, <1>5, <1>6, <1>7, <2>3, <2>4, <2>5 DEF PlainAt, matches
<1> QED BY <1>8, <1>9

Nacked(k) ==
  /\ k \in DOMAIN pit
  /\ \E e : /\ pit' = [pit EXCEPT ![k] = e]
            /\ IsEntry(e) /\ e.in = pit[k].in
            /\ \/ /\ e.timer = pit[k].timer
                  /\ hasPendingOutRecords(e) => hasPendingOutRecords(pit[k])
                  /\ flow' = flow
               \/ /\ e.timer = 0 /\ ~hasPendingOutRecords(e)
                  /\ flow' = [flow EXCEPT ![k] = 0]
  /\ sent' = {}
  /\ UNCHANGED <<cs, dnl, asked, unasked, unmet, dead>>

LEMMA NackComes ==
  ASSUME TypeOK, NEW f, NEW nack, onIncomingNack(f, nack)
  PROVE  Nacked(Selectors(nack))
<1> DEFINE k == Selectors(nack)
           e == [pit[k] EXCEPT !.out[f].nacked = TRUE]
           d == [e EXCEPT !.timer = 0]
<1>1. /\ k \in DOMAIN pit /\ f \in DOMAIN pit[k].out
      /\ IF hasPendingOutRecords(e) THEN pit' = [pit EXCEPT ![k] = e] /\ flow' = flow
         ELSE pit' = [pit EXCEPT ![k] = d] /\ flow' = [flow EXCEPT ![k] = 0]
      /\ sent' = {}
      /\ UNCHANGED <<cs, dnl, asked, unasked, unmet, dead>>
  BY DEF onIncomingNack
<1>2. IsEntry(pit[k])
  BY <1>1 DEF TypeOK
<1> HIDE DEF k
<1>3. DOMAIN pit[k] = EntryFields /\ InTable(pit[k].in) /\ OutTable(pit[k].out) /\ pit[k].timer \in Nat
  BY <1>2 DEF IsEntry
<1>4. /\ DOMAIN e = EntryFields /\ e.in = pit[k].in /\ e.timer = pit[k].timer
      /\ e.out = [pit[k].out EXCEPT ![f].nacked = TRUE]
  BY <1>3 DEF EntryFields
<1>5. /\ DOMAIN e.out = DOMAIN pit[k].out
      /\ \A g \in DOMAIN e.out : /\ DOMAIN e.out[g] = {"nonce", "left", "nacked"}
                                 /\ e.out[g].left = pit[k].out[g].left
  BY <1>1, <1>3, <1>4 DEF OutTable
<1>6. \A g \in DOMAIN e.out : ~e.out[g].nacked => ~pit[k].out[g].nacked
  <2> SUFFICES ASSUME NEW g \in DOMAIN e.out, ~e.out[g].nacked PROVE ~pit[k].out[g].nacked
    OBVIOUS
  <2>1. CASE g = f
    <3>1. e.out[f].nacked = TRUE
      BY <1>1, <1>3, <1>4 DEF OutTable
    <3> QED BY <2>1, <3>1
  <2>2. CASE g # f
    <3>1. e.out[g] = pit[k].out[g]
      BY <1>1, <1>3, <1>4, <2>2
    <3> QED BY <3>1
  <2> QED BY <2>1, <2>2
<1>7. IsEntry(e)
  BY <1>3, <1>4, <1>5 DEF IsEntry, OutTable
<1>8. hasPendingOutRecords(e) => hasPendingOutRecords(pit[k])
  BY <1>5, <1>6 DEF hasPendingOutRecords
<1> HIDE DEF e
<1>9. DOMAIN d = EntryFields /\ d.in = e.in /\ d.out = e.out /\ d.timer = 0
  BY <1>4 DEF EntryFields
<1>10. IsEntry(d) /\ (hasPendingOutRecords(d) <=> hasPendingOutRecords(e))
  BY <1>7, <1>9 DEF IsEntry, hasPendingOutRecords
<1> HIDE DEF d
<1>11. CASE hasPendingOutRecords(e)
  BY <1>1, <1>4, <1>7, <1>8, <1>11 DEF Nacked, k
<1>12. CASE ~hasPendingOutRecords(e)
  BY <1>1, <1>4, <1>9, <1>10, <1>12 DEF Nacked, k
<1> QED BY <1>11, <1>12

\* An Interest that is admitted came in a frame that the face may send.
AdmittedFrom(f, a, v) ==
  /\ a[2].packet.kind = "Interest"
  /\ Tagged(a[2]).nextHop # NoFace => f \in LocalFields
  /\ Admitted(f, Tagged(a[2]), v)

InterestAdmitted(f) == \E a \in Arrivals : \E v : AdmittedFrom(f, a, v)

Received(f) ==
  \/ Looped
  \/ InterestAdmitted(f)
  \/ Unclaimed
  \/ \E data \in DataPackets : \E k : UnderLltc(data.name) /\ CapsuleAt(k, data)
  \/ \E data \in DataPackets : ~UnderLltc(data.name) /\ PlainAt(f, data, PitMatches(data))
  \/ \E k : Nacked(k)

LEMMA Receives ==
  ASSUME TypeOK, NEW f \in Faces, Receive(f)
  PROVE  mode' = mode /\ Received(f)
<1>1. PICK a \in Arrivals : /\ a[1] = f /\ doReceivePacket(f, a[2])
                            /\ \/ onIncomingInterest(f, Tagged(a[2]))
                               \/ onIncomingData(f, Tagged(a[2]))
                               \/ onIncomingNack(f, Tagged(a[2]))
                            /\ mode' = mode
  BY DEF Receive
<1> DEFINE packet == Tagged(a[2])
<1>2. CASE onIncomingInterest(f, packet)
  <2>1. packet.kind = "Interest"
    BY <1>2 DEF onIncomingInterest
  <2>2. a[2].packet.kind # "Data"
    BY <2>1, TaggedData DEF IsData
  <2>3. /\ IsInterest(packet) /\ packet.kind = a[2].packet.kind
        /\ packet.nextHop # NoFace => "NextHopFaceId" \in a[2].fields
    BY <2>1, <2>2, TaggedInterest
  <2>4. decodeInterest(f, a[2].fields)
    BY <1>1, <2>1, <2>3 DEF doReceivePacket
  <2>5. packet.nextHop # NoFace => f \in LocalFields
    BY <2>3, <2>4 DEF decodeInterest
  <2> HIDE DEF packet
  <2>6. Looped \/ \E v : Admitted(f, packet, v)
    BY <1>2, <2>3, InterestComes
  <2>7. ASSUME NEW v, Admitted(f, packet, v) PROVE AdmittedFrom(f, a, v)
    BY <2>1, <2>3, <2>5, <2>7 DEF AdmittedFrom, packet
  <2> QED BY <1>1, <2>6, <2>7 DEF Received, InterestAdmitted
<1>3. CASE onIncomingData(f, packet)
  <2>1. packet.kind = "Data"
    BY <1>3 DEF onIncomingData
  <2>2. a[2].packet.kind = "Data"
    BY <2>1, TaggedInterest DEF IsInterest
  <2>3. packet \in DataPackets
    BY <2>2, TaggedData
  <2> HIDE DEF packet
  <2>4. CASE UnderLltc(packet.name)
    <3>1. onLltcData(f, packet, PitMatches(packet))
      BY <1>3, <2>4 DEF onIncomingData
    <3>2. Unclaimed \/ \E k : CapsuleAt(k, packet)
      BY <2>3, <2>4, <3>1, CapsuleComes
    <3> QED BY <1>1, <2>3, <2>4, <3>2 DEF Received
  <2>5. CASE ~UnderLltc(packet.name)
    <3>1. onPlainData(f, packet, PitMatches(packet))
      BY <1>3, <2>5 DEF onIncomingData
    <3>2. PlainAt(f, packet, PitMatches(packet))
      BY <2>3, <2>5, <3>1, PlainDataComes
    <3> QED BY <1>1, <2>3, <2>5, <3>2 DEF Received
  <2> QED BY <2>4, <2>5
<1>4. CASE onIncomingNack(f, packet)
  <2>1. Nacked(Selectors(packet))
    BY <1>4, NackComes
  <2> QED BY <1>1, <2>1 DEF Received
<1> QED BY <1>1, <1>2, <1>3, <1>4

\* A timer fires.
LEMMA TimerFires ==
  ASSUME TypeOK, NEW k \in Keys, onInterestFinalize(k)
  PROVE  /\ k \in DOMAIN pit /\ pit[k].timer = 0
         /\ DOMAIN pit' = DOMAIN pit \ {k} /\ \A j \in DOMAIN pit' : pit'[j] = pit[j]
         /\ sent' = {} /\ dnl \subseteq dnl'
         /\ dead' \subseteq dead \cup dnl'
         /\ UNCHANGED <<mode, cs, unasked, unmet, flow>>
         /\ asked' = [p \in Faces \X Keys |-> IF p[2] = k THEN 0 ELSE asked[p]]
<1>1. /\ k \in DOMAIN pit /\ pit[k].timer = 0 /\ pit' = Without(pit, {k})
      /\ sent' = {} /\ dnl \subseteq dnl'
      /\ UNCHANGED <<mode, cs, unasked, unmet, flow>>
      /\ asked' = [p \in Faces \X Keys |-> IF p[2] = k THEN 0 ELSE asked[p]]
  BY DEF onInterestFinalize
<1>2. DOMAIN pit' = DOMAIN pit \ {k} /\ \A j \in DOMAIN pit' : pit'[j] = pit[j]
  BY <1>1 DEF Without, Restrict
<1>3. dead' \subseteq dead \cup dnl'
  <2>1. CASE pit[k].satisfied
    BY <2>1 DEF onInterestFinalize
  <2>2. CASE ~pit[k].satisfied
    <3>1. dead' = dead \cup {<<k.name, pit[k].out[f].nonce>> : f \in DOMAIN pit[k].out}
      BY <2>2 DEF onInterestFinalize
    <3>2. dnl' = dnl \cup insertDeadNonceList(k, pit[k], DOMAIN pit[k].out)
      BY DEF onInterestFinalize
    <3>3. insertDeadNonceList(k, pit[k], DOMAIN pit[k].out)
            = {<<k.name, pit[k].out[f].nonce>> : f \in DOMAIN pit[k].out}
      BY <2>2 DEF insertDeadNonceList
    <3> QED BY <3>1, <3>2, <3>3
  <2> QED BY <2>1, <2>2
<1> QED BY <1>1, <1>2, <1>3

LEMMA NotBelowZero ==
  ASSUME NEW x \in Int
  PROVE  Max({0, x}) = IF x > 0 THEN x ELSE 0
<1> DEFINE T == {0, x}
<1>1. IsFiniteSet(T)
  <2>1. IsFiniteSet({0}) /\ IsFiniteSet({x}) /\ T = {0} \cup {x}
    BY FS_Singleton
  <2> QED BY <2>1, FS_Union
<1>2. T \subseteq Int /\ T # {} /\ 0 \in T /\ x \in T /\ \A y \in T : y = 0 \/ y = x
  OBVIOUS
<1> HIDE DEF T
<1>3. Max(T) \in T /\ \A y \in T : y <= Max(T)
  BY <1>1, <1>2, MaxFacts
<1> DEFINE m == Max(T)
<1>4. (m = 0 \/ m = x) /\ 0 <= m /\ x <= m
  BY <1>2, <1>3
<1> HIDE DEF m
<1>5. m = IF x > 0 THEN x ELSE 0
  BY <1>4
<1> QED BY <1>5 DEF m, T

Aging(e, d) ==
  /\ IsEntry(d)
  /\ DOMAIN d.in = DOMAIN e.in
  /\ \A f \in DOMAIN d.in : d.in[f].left = Elapse(e.in[f].left)
  /\ d.timer = e.timer - 1
  /\ hasPendingOutRecords(d) => hasPendingOutRecords(e)

LEMMA EntryAges ==
  ASSUME NEW e, IsEntry(e), e.timer > 0
  PROVE  Aging(e, [e EXCEPT !.in = Older(e.in), !.out = Older(e.out), !.timer = e.timer - 1])
<1> DEFINE i == Older(e.in)
           o == Older(e.out)
           n == e.timer - 1
           d == [e EXCEPT !.in = i, !.out = o, !.timer = n]
<1>1. DOMAIN e = EntryFields /\ InTable(e.in) /\ OutTable(e.out) /\ e.timer \in Nat
  BY DEF IsEntry
<1>2. \A x \in Int : Elapse(x) \in Int /\ (Elapse(x) >= 0 => x >= 0)
  BY DEF Elapse
<1>3. InTable(i) /\ DOMAIN i = DOMAIN e.in /\ \A f \in DOMAIN i : i[f].left = Elapse(e.in[f].left)
  <2>1. DOMAIN i = DOMAIN e.in /\ \A f \in DOMAIN i : i[f] = [e.in[f] EXCEPT !.left = Elapse(e.in[f].left)]
    BY DEF Older
  <2> HIDE DEF i
  <2>2. \A f \in DOMAIN i : DOMAIN i[f] = {"nonce", "left"} /\ i[f].left = Elapse(e.in[f].left)
    BY <1>1, <2>1 DEF InTable
  <2>3. \A f \in DOMAIN i : i[f].left \in Int
    BY <1>1, <1>2, <2>1, <2>2 DEF InTable
  <2> QED BY <1>1, <2>1, <2>2, <2>3 DEF InTable
<1>4. /\ OutTable(o) /\ DOMAIN o = DOMAIN e.out
      /\ \A f \in DOMAIN o : o[f].left = Elapse(e.out[f].left) /\ o[f].nacked = e.out[f].nacked
  <2>1. DOMAIN o = DOMAIN e.out /\ \A f \in DOMAIN o : o[f] = [e.out[f] EXCEPT !.left = Elapse(e.out[f].left)]
    BY DEF Older
  <2> HIDE DEF o
  <2>2. \A f \in DOMAIN o : /\ DOMAIN o[f] = {"nonce", "left", "nacked"} /\ o[f].left = Elapse(e.out[f].left)
                            /\ o[f].nacked = e.out[f].nacked
    BY <1>1, <2>1 DEF OutTable
  <2>3. \A f \in DOMAIN o : o[f].left \in Int
    BY <1>1, <1>2, <2>1, <2>2 DEF OutTable
  <2> QED BY <1>1, <2>1, <2>2, <2>3 DEF OutTable
<1> HIDE DEF i, o
<1>5. n \in Nat
  BY <1>1
<1> HIDE DEF n
<1>6. DOMAIN d = EntryFields /\ d.in = i /\ d.out = o /\ d.timer = n
  BY <1>1 DEF EntryFields
<1> HIDE DEF d
<1>7. IsEntry(d)
  BY <1>3, <1>4, <1>5, <1>6 DEF IsEntry
<1>8. ASSUME hasPendingOutRecords(d) PROVE hasPendingOutRecords(e)
  <2>1. PICK f \in DOMAIN o : o[f].left >= 0 /\ ~o[f].nacked
    BY <1>6, <1>8 DEF hasPendingOutRecords
  <2>2. e.out[f].left \in Int /\ f \in DOMAIN e.out
    BY <1>1, <1>4 DEF OutTable
  <2>3. e.out[f].left >= 0 /\ ~e.out[f].nacked
    BY <1>2, <1>4, <2>1, <2>2
  <2> QED BY <2>2, <2>3 DEF hasPendingOutRecords
<1>9. Aging(e, d)
  BY <1>3, <1>6, <1>7, <1>8 DEF Aging, n
<1> QED BY <1>9 DEF d, i, o, n

LEMMA TimePasses ==
  ASSUME TypeOK, Tick
  PROVE  /\ DOMAIN pit' = DOMAIN pit /\ \A k \in DOMAIN pit : Aging(pit[k], pit'[k])
         /\ cs' \in Seq(CsEntries)
         /\ asked' \in [Faces \X Keys -> Int]
         /\ \A f \in Faces, k \in Keys :
              asked'[<<f, k>>] = IF asked[<<f, k>>] < 0 THEN asked[<<f, k>>] + 1
                                 ELSE IF asked[<<f, k>>] > 0 THEN asked[<<f, k>>] - 1 ELSE 0
         /\ flow' \in [Keys -> Nat]
         /\ \A k \in Keys : flow'[k] = IF flow[k] > 0 THEN flow[k] - 1 ELSE 0
         /\ sent' = {}
         /\ UNCHANGED <<mode, dnl, unasked, unmet, dead>>
<1>1. /\ \A k \in DOMAIN pit : pit[k].timer > 0
      /\ cs' = Aged(cs)
      /\ asked' = [p \in Faces \X Keys |->
                     IF asked[p] < 0 THEN asked[p] + 1 ELSE Max({0, asked[p] - 1})]
      /\ flow' = [k \in Keys |-> Max({0, flow[k] - 1})]
      /\ sent' = {}
      /\ UNCHANGED <<mode, dnl, unasked, unmet, dead>>
  BY DEF Tick
<1>2. pit' = [k \in DOMAIN pit |->
                [pit[k] EXCEPT !.in = Older(pit[k].in), !.out = Older(pit[k].out), !.timer = pit[k].timer - 1]]
  BY DEF Tick
<1>3. DOMAIN pit' = DOMAIN pit /\ \A k \in DOMAIN pit : Aging(pit[k], pit'[k])
  <2>1. ASSUME NEW k \in DOMAIN pit PROVE Aging(pit[k], pit'[k])
    <3>1. IsEntry(pit[k]) /\ pit[k].timer > 0
      BY <1>1 DEF TypeOK
    <3>2. pit'[k] = [pit[k] EXCEPT !.in = Older(pit[k].in), !.out = Older(pit[k].out),
                                   !.timer = pit[k].timer - 1]
      BY <1>2
    <3> QED BY <3>1, <3>2, EntryAges
  <2> QED BY <1>2, <2>1
<1>4. cs' \in Seq(CsEntries)
  BY <1>1, UsedAndAged DEF TypeOK
<1>5. \A p \in Faces \X Keys :
        /\ asked[p] \in Int
        /\ asked'[p] = IF asked[p] < 0 THEN asked[p] + 1 ELSE IF asked[p] > 0 THEN asked[p] - 1 ELSE 0
  <2> SUFFICES ASSUME NEW p \in Faces \X Keys
               PROVE  /\ asked[p] \in Int
                      /\ asked'[p] = IF asked[p] < 0 THEN asked[p] + 1
                                     ELSE IF asked[p] > 0 THEN asked[p] - 1 ELSE 0
    OBVIOUS
  <2>1. asked[p] \in Int
    BY DEF TypeOK
  <2>2. asked[p] - 1 \in Int
    BY <2>1
  <2>3. Max({0, asked[p] - 1}) = IF asked[p] - 1 > 0 THEN asked[p] - 1 ELSE 0
    BY <2>2, NotBelowZero
  <2>4. asked'[p] = IF asked[p] < 0 THEN asked[p] + 1 ELSE Max({0, asked[p] - 1})
    BY <1>1
  <2> QED BY <2>1, <2>3, <2>4
<1>6. asked' \in [Faces \X Keys -> Int]
  <2>1. \A p \in Faces \X Keys : asked'[p] \in Int
    BY <1>5
  <2>2. asked' = [p \in Faces \X Keys |-> asked'[p]]
    BY <1>1
  <2> QED BY <2>1, <2>2
<1>7. \A k \in Keys : flow[k] \in Nat /\ flow'[k] = IF flow[k] > 0 THEN flow[k] - 1 ELSE 0
  <2> SUFFICES ASSUME NEW k \in Keys
               PROVE  flow[k] \in Nat /\ flow'[k] = IF flow[k] > 0 THEN flow[k] - 1 ELSE 0
    OBVIOUS
  <2>1. flow[k] \in Nat /\ flow[k] - 1 \in Int
    BY DEF TypeOK
  <2>2. Max({0, flow[k] - 1}) = IF flow[k] - 1 > 0 THEN flow[k] - 1 ELSE 0
    BY <2>1, NotBelowZero
  <2>3. flow'[k] = Max({0, flow[k] - 1})
    BY <1>1
  <2> QED BY <2>1, <2>2, <2>3
<1>8. flow' \in [Keys -> Nat]
  <2>1. \A k \in Keys : flow'[k] \in Nat
    BY <1>7
  <2>2. flow' = [k \in Keys |-> flow'[k]]
    BY <1>1
  <2> QED BY <2>1, <2>2
<1>9. \A f \in Faces, k \in Keys : <<f, k>> \in Faces \X Keys
  OBVIOUS
<1> QED BY <1>1, <1>3, <1>4, <1>5, <1>6, <1>7, <1>8, <1>9

-----------------------------------------------------------------------------
(* The history. *)

Reached(out) == {s[1] : s \in DataTo(out)}

LEMMA ReachedByData ==
  ASSUME NEW fs, NEW data, data.kind = "Data"
  PROVE  DataTo(Frames(fs, data)) = {<<f, data>> : f \in fs} /\ Reached(Frames(fs, data)) = fs
<1>1. \A f \in fs : sendNetPacket(f, data).packet = data
  BY DEF sendNetPacket, Frame
<1>2. DataTo(Frames(fs, data)) = {<<f, data>> : f \in fs}
  <2>1. \A s \in Frames(fs, data) : s[2].packet = data /\ s[1] \in fs
    BY <1>1 DEF Frames
  <2>2. \A f \in fs : <<f, sendNetPacket(f, data)>> \in Frames(fs, data)
    BY DEF Frames
  <2>3. \A f \in fs : \E s \in Frames(fs, data) : s[1] = f /\ s[2].packet = data
    <3> SUFFICES ASSUME NEW f \in fs
                 PROVE  \E s \in Frames(fs, data) : s[1] = f /\ s[2].packet = data
      OBVIOUS
    <3> DEFINE frame == sendNetPacket(f, data)
    <3>1. frame.packet = data /\ <<f, frame>> \in Frames(fs, data)
      BY <1>1, <2>2
    <3> HIDE DEF frame
    <3> QED BY <3>1
  <2> QED BY <2>1, <2>3 DEF DataTo
<1> DEFINE T == {<<f, data>> : f \in fs}
<1>3. (\A f \in fs : <<f, data>> \in T) /\ \A s \in T : s[1] \in fs
  OBVIOUS
<1> HIDE DEF T
<1>4. {s[1] : s \in T} = fs
  <2>1. \A f \in fs : \E s \in T : s[1] = f
    BY <1>3
  <2> QED BY <1>3, <2>1
<1> QED BY <1>2, <1>4 DEF Reached, T

LEMMA ReachedByInterest ==
  ASSUME NEW fs, NEW interest, interest.kind # "Data", NEW out, out \subseteq Frames(fs, interest)
  PROVE  DataTo(out) = {} /\ Reached(out) = {}
<1>1. \A f \in fs : sendNetPacket(f, interest).packet = interest
  BY DEF sendNetPacket, Frame
<1>2. \A s \in out : s[2].packet = interest
  BY <1>1 DEF Frames
<1>3. DataTo(out) = {}
  BY <1>2 DEF DataTo
<1> QED BY <1>3 DEF Reached

Settled(waiting, out, keys, ingress) ==
  /\ asked' \in [Faces \X Keys -> Int]
  /\ \A f \in Faces, k \in Keys :
       asked'[<<f, k>>] = IF k \notin keys THEN waiting[<<f, k>>]
                          ELSE IF f \in Reached(out) THEN 0
                          ELSE IF f \in ingress /\ waiting[<<f, k>>] > 0 THEN -waiting[<<f, k>>]
                          ELSE waiting[<<f, k>>]
  /\ unasked' = unasked \cup {s \in DataTo(out) : /\ ~UnderLltc(s[2].name)
                                                  /\ \A k \in keys : waiting[<<s[1], k>>] = 0}

LEMMA Accounted ==
  ASSUME NEW waiting \in [Faces \X Keys -> Int], NEW out, NEW keys, NEW ingress,
         Account(waiting, out, keys, ingress)
  PROVE  Settled(waiting, out, keys, ingress)
<1>1. /\ asked' = [p \in Faces \X Keys |->
                     IF p[2] \notin keys THEN waiting[p]
                     ELSE IF p[1] \in Reached(out) THEN 0
                     ELSE IF p[1] \in ingress /\ waiting[p] > 0 THEN -waiting[p]
                     ELSE waiting[p]]
      /\ unasked' = unasked \cup {s \in DataTo(out) : /\ ~UnderLltc(s[2].name)
                                                      /\ \A k \in keys : waiting[<<s[1], k>>] = 0}
  BY Zenon DEF Account, Reached
<1>2. \A f \in Faces, k \in Keys :
        /\ <<f, k>> \in Faces \X Keys /\ <<f, k>>[1] = f /\ <<f, k>>[2] = k
  OBVIOUS
<1>3. \A f \in Faces, k \in Keys :
        asked'[<<f, k>>] = IF k \notin keys THEN waiting[<<f, k>>]
                           ELSE IF f \in Reached(out) THEN 0
                           ELSE IF f \in ingress /\ waiting[<<f, k>>] > 0 THEN -waiting[<<f, k>>]
                           ELSE waiting[<<f, k>>]
  BY <1>1, <1>2
<1>4. asked' \in [Faces \X Keys -> Int]
  <2>1. \A p \in Faces \X Keys : waiting[p] \in Int /\ -waiting[p] \in Int
    OBVIOUS
  <2> QED BY <1>1, <2>1
<1> QED BY <1>1, <1>3, <1>4 DEF Settled

\* An Interest counts as asked; if it is answered, it is over at once.
Asks(f, k, a) ==
  \A g \in Faces, j \in Keys :
    asked'[<<g, j>>] = IF g = f /\ j = k THEN a ELSE asked[<<g, j>>]

LEMMA AdmittedAsks ==
  ASSUME TypeOK, NEW f \in Faces, NEW a \in Arrivals, a[2].packet.kind = "Interest",
         NEW v, Admitted(f, Tagged(a[2]), v)
  PROVE  LET interest == Tagged(a[2])
             k == Selectors(interest)
         IN /\ asked' \in [Faces \X Keys -> Int]
            /\ Missed(Work(EntryOf(k), {}), v, f, interest) =>
                 Asks(f, k, interest.lifetime) /\ unasked' = unasked
            /\ Answered(EntryOf(k), v, f, interest) /\ OwnPrefixes =>
                 /\ Asks(f, k, 0)
                 /\ LivingInterests => unasked' = unasked
<1> DEFINE interest == Tagged(a[2])
           k == Selectors(interest)
           waiting == [asked EXCEPT ![<<f, k>>] = interest.lifetime]
           e == EntryOf(k)
<1>1. /\ IsInterest(interest) /\ k \in Keys /\ interest.kind = "Interest" /\ interest.lifetime \in Nat
      /\ k.name = interest.name /\ interest.lifetime = a[2].packet.lifetime
  BY TaggedInterest DEF IsInterest, Selectors
<1>2. ~OutOfScope(f, interest.name) /\ Account(waiting, v.out, {k}, {})
  BY DEF Admitted
<1> HIDE DEF interest, k
<1>3. waiting \in [Faces \X Keys -> Int]
  BY <1>1 DEF TypeOK
<1>4. \A g \in Faces, j \in Keys :
        waiting[<<g, j>>] = IF g = f /\ j = k THEN interest.lifetime ELSE asked[<<g, j>>]
  BY <1>1 DEF TypeOK
<1> HIDE DEF waiting
<1>5. /\ asked' \in [Faces \X Keys -> Int]
      /\ \A g \in Faces, j \in Keys :
           asked'[<<g, j>>] = IF j # k THEN waiting[<<g, j>>]
                              ELSE IF g \in Reached(v.out) THEN 0 ELSE waiting[<<g, j>>]
      /\ unasked' = unasked \cup {s \in DataTo(v.out) : /\ ~UnderLltc(s[2].name)
                                                        /\ waiting[<<s[1], k>>] = 0}
  <2>1. Settled(waiting, v.out, {k}, {})
    BY <1>2, <1>3, Accounted
  <2>2. unasked' = unasked \cup {s \in DataTo(v.out) : /\ ~UnderLltc(s[2].name)
                                                       /\ waiting[<<s[1], k>>] = 0}
    BY <2>1 DEF Settled
  <2>3. \A g \in Faces, j \in Keys :
           asked'[<<g, j>>] = IF j # k THEN waiting[<<g, j>>]
                              ELSE IF g \in Reached(v.out) THEN 0 ELSE waiting[<<g, j>>]
    BY <2>1 DEF Settled
  <2> QED BY <2>1, <2>2, <2>3 DEF Settled
<1>6. ASSUME Missed(Work(e, {}), v, f, interest)
      PROVE  Asks(f, k, interest.lifetime) /\ unasked' = unasked
  <2> DEFINE hops == IF interest.nextHop # NoFace THEN {interest.nextHop} ELSE Hops(interest)
  <2>1. v.out \subseteq Frames(hops, interest)
    BY <1>6 DEF Missed, Work
  <2> HIDE DEF hops
  <2>2. DataTo(v.out) = {} /\ Reached(v.out) = {}
    BY <1>1, <2>1, ReachedByInterest
  <2>3. unasked' = unasked
    BY <1>5, <2>2
  <2>4. Asks(f, k, interest.lifetime)
    BY <1>4, <1>5, <2>2 DEF Asks
  <2> QED BY <2>3, <2>4
<1>7. ASSUME Answered(e, v, f, interest), OwnPrefixes
      PROVE  Asks(f, k, 0) /\ (LivingInterests => unasked' = unasked)
  <2>1. PICK data \in DataPackets : /\ matchesData(k, data)
                                    /\ v.out = Frames({g \in {f} : ~OutOfScope(g, data.name)}, data)
    BY <1>7 DEF Answered, k
  <2>2. IsData(data) /\ data.kind = "Data"
    BY DataPacketsAreData DEF IsData
  <2>3. ~OutOfScope(f, data.name)
    BY <1>1, <1>2, <1>7, <2>1, <2>2, MatchKeepsScope DEF OutOfScope
  <2>4. v.out = Frames({f}, data)
    <3>1. {g \in {f} : ~OutOfScope(g, data.name)} = {f}
      BY <2>3
    <3> QED BY <2>1, <3>1
  <2>5. DataTo(v.out) = {<<f, data>>} /\ Reached(v.out) = {f}
    <3>1. DataTo(Frames({f}, data)) = {<<g, data>> : g \in {f}} /\ Reached(Frames({f}, data)) = {f}
      BY <2>2, ReachedByData
    <3> QED BY <2>4, <3>1
  <2>6. Asks(f, k, 0)
    BY <1>4, <1>5, <2>5 DEF Asks
  <2>7. ASSUME LivingInterests PROVE unasked' = unasked
    <3>1. waiting[<<f, k>>] > 0
      BY <1>1, <1>4, <2>7 DEF LivingInterests
    <3>2. \A s \in DataTo(v.out) : waiting[<<s[1], k>>] # 0
      BY <2>5, <3>1
    <3> QED BY <1>5, <3>2
  <2> QED BY <2>6, <2>7
<1> QED BY <1>5, <1>6, <1>7 DEF interest, k


-----------------------------------------------------------------------------
(* The types are kept. *)

\* One entry becomes e, or is new.
Becomes(k, e) ==
  /\ DOMAIN pit' = DOMAIN pit \cup {k}
  /\ pit'[k] = e
  /\ \A j \in DOMAIN pit \ {k} : pit'[j] = pit[j]

LEMMA BecomesByWith ==
  ASSUME NEW k, NEW e, pit' = With(pit, {k}, e)
  PROVE  Becomes(k, e)
BY DEF With, Becomes

LEMMA BecomesByExcept ==
  ASSUME NEW k, k \in DOMAIN pit, NEW e, pit' = [pit EXCEPT ![k] = e]
  PROVE  Becomes(k, e)
BY DEF Becomes

LEMMA BecomesTyped ==
  ASSUME TypeOK, NEW k \in Keys, NEW e, IsEntry(e), Becomes(k, e)
  PROVE  DOMAIN pit' \subseteq Keys /\ \A j \in DOMAIN pit' : IsEntry(pit'[j])
<1>1. DOMAIN pit \subseteq Keys /\ \A j \in DOMAIN pit : IsEntry(pit[j])
  BY DEF TypeOK
<1>2. DOMAIN pit' = DOMAIN pit \cup {k} /\ pit'[k] = e /\ \A j \in DOMAIN pit \ {k} : pit'[j] = pit[j]
  BY DEF Becomes
<1>3. ASSUME NEW j \in DOMAIN pit' PROVE IsEntry(pit'[j])
  <2>1. CASE j = k
    BY <1>2, <2>1
  <2>2. CASE j # k
    BY <1>1, <1>2, <2>2
  <2> QED BY <2>1, <2>2
<1> QED BY <1>1, <1>2, <1>3

\* The events, one by one.
LEMMA Events ==
  ASSUME TypeOK, [Next]_vars
  PROVE  \/ \E f \in Faces : mode' = mode /\ Received(f)
         \/ \E k \in Keys : onInterestFinalize(k)
         \/ Tick
         \/ UNCHANGED vars
BY Receives, Zenon DEF Next

LEMMA TypesAtArrival ==
  ASSUME TypeOK, NEW f \in Faces, Received(f)
  PROVE  TypeOK'
<1> USE DEF TypeOK
<1>1. CASE Looped
  BY <1>1 DEF Looped
<1>2. CASE InterestAdmitted(f)
  <2>1. PICK a \in Arrivals : \E v : AdmittedFrom(f, a, v)
    BY <1>2 DEF InterestAdmitted
  <2>2. PICK v : AdmittedFrom(f, a, v)
    BY <2>1
  <2> DEFINE k == Selectors(Tagged(a[2]))
  <2>3. k \in Keys /\ a[2].packet.kind = "Interest" /\ Admitted(f, Tagged(a[2]), v)
    BY <2>2, TaggedInterest DEF AdmittedFrom
  <2>4. /\ IsEntry(v.e) /\ pit' = With(pit, {k}, v.e) /\ cs' \in Seq(CsEntries)
        /\ flow' = [flow EXCEPT ![k] = 0]
    BY <2>3 DEF Admitted
  <2>5. asked' \in [Faces \X Keys -> Int]
    BY <2>3, AdmittedAsks
  <2> HIDE DEF k
  <2>6. DOMAIN pit' \subseteq Keys /\ \A j \in DOMAIN pit' : IsEntry(pit'[j])
    BY <2>3, <2>4, BecomesByWith, BecomesTyped
  <2>7. flow' \in [Keys -> Nat]
    BY <2>3, <2>4
  <2> QED BY <2>4, <2>5, <2>6, <2>7
<1>3. CASE Unclaimed
  BY <1>3 DEF Unclaimed
<1>4. ASSUME NEW data \in DataPackets, NEW k, CapsuleAt(k, data) PROVE TypeOK'
  <2>1. k \in DOMAIN pit /\ k \in Keys /\ cs' \in Seq(CsEntries) /\ asked' = asked
        /\ flow' = [flow EXCEPT ![k] = PitDuration]
    BY <1>4 DEF CapsuleAt
  <2>2. PICK e : pit' = [pit EXCEPT ![k] = e] /\ IsEntry(e)
    BY <1>4 DEF CapsuleAt
  <2>3. DOMAIN pit' \subseteq Keys /\ \A j \in DOMAIN pit' : IsEntry(pit'[j])
    BY <2>1, <2>2, BecomesByExcept, BecomesTyped
  <2>4. flow' \in [Keys -> Nat]
    BY <2>1, ForwarderAssumption
  <2> QED BY <2>1, <2>3, <2>4
<1>5. ASSUME NEW data \in DataPackets, PlainAt(f, data, PitMatches(data)) PROVE TypeOK'
  <2> DEFINE matches == PitMatches(data)
  <2>1. /\ matches \subseteq DOMAIN pit /\ cs' \in Seq(CsEntries) /\ DOMAIN pit' = DOMAIN pit
        /\ \A k \in DOMAIN pit \ matches : pit'[k] = pit[k]
        /\ \A k \in matches : IsEntry(pit'[k])
        /\ Account(asked, sent', matches, {f}) /\ flow' = flow
    BY <1>5 DEF PlainAt
  <2> HIDE DEF matches
  <2>2. asked' \in [Faces \X Keys -> Int]
    BY <2>1, Accounted DEF Settled
  <2>3. \A k \in DOMAIN pit' : IsEntry(pit'[k])
    BY <2>1
  <2> QED BY <2>1, <2>2, <2>3
<1>6. ASSUME NEW k, Nacked(k) PROVE TypeOK'
  <2>1. k \in DOMAIN pit /\ k \in Keys /\ cs' = cs /\ asked' = asked
    BY <1>6 DEF Nacked
  <2>2. PICK e : /\ pit' = [pit EXCEPT ![k] = e] /\ IsEntry(e)
                 /\ (flow' = flow \/ flow' = [flow EXCEPT ![k] = 0])
    BY <1>6 DEF Nacked
  <2>3. DOMAIN pit' \subseteq Keys /\ \A j \in DOMAIN pit' : IsEntry(pit'[j])
    BY <2>1, <2>2, BecomesByExcept, BecomesTyped
  <2>4. flow' \in [Keys -> Nat]
    BY <2>1, <2>2
  <2> QED BY <2>1, <2>3, <2>4
<1> QED BY <1>1, <1>2, <1>3, <1>4, <1>5, <1>6 DEF Received

LEMMA TypesKept ==
  ASSUME TypeOK, [Next]_vars
  PROVE  TypeOK'
<1>1. ASSUME NEW f \in Faces, Received(f) PROVE TypeOK'
  BY <1>1, TypesAtArrival
<1>2. ASSUME NEW k \in Keys, onInterestFinalize(k) PROVE TypeOK'
  <2>1. /\ DOMAIN pit' = DOMAIN pit \ {k} /\ \A j \in DOMAIN pit' : pit'[j] = pit[j]
        /\ cs' = cs /\ flow' = flow
        /\ asked' = [p \in Faces \X Keys |-> IF p[2] = k THEN 0 ELSE asked[p]]
    BY <1>2, TimerFires
  <2>2. asked' \in [Faces \X Keys -> Int]
    BY <2>1 DEF TypeOK
  <2> QED BY <2>1, <2>2 DEF TypeOK
<1>3. ASSUME Tick PROVE TypeOK'
  <2>1. /\ DOMAIN pit' = DOMAIN pit /\ \A k \in DOMAIN pit : IsEntry(pit'[k])
        /\ cs' \in Seq(CsEntries) /\ asked' \in [Faces \X Keys -> Int] /\ flow' \in [Keys -> Nat]
    BY <1>3, TimePasses DEF Aging
  <2> QED BY <2>1 DEF TypeOK
<1>4. ASSUME UNCHANGED vars PROVE TypeOK'
  <2>1. pit' = pit /\ cs' = cs /\ asked' = asked /\ flow' = flow
    BY <1>4 DEF vars, ghosts
  <2> QED BY <2>1 DEF TypeOK
<1> QED BY <1>1, <1>2, <1>3, <1>4, Events

LEMMA InitiallyTyped ==
  ASSUME Init
  PROVE  TypeOK /\ DOMAIN pit = {}
<1>1. pit = <<>> /\ cs = <<>> /\ asked = [p \in Faces \X Keys |-> 0] /\ flow = [k \in Keys |-> 0]
  BY DEF Init
<1>2. DOMAIN pit = {}
  BY <1>1
<1>3. asked \in [Faces \X Keys -> Int]
  BY <1>1
<1>4. cs \in Seq(CsEntries)
  BY <1>1
<1> QED BY <1>1, <1>2, <1>3, <1>4 DEF TypeOK

\* The state has its types: every entry is under the key of an Interest that came,
\* its timer is never negative, and the content store holds Data that came.
THEOREM TypeCorrect ==
  Spec => []TypeOK
<1>1. Init => TypeOK
  BY InitiallyTyped
<1>2. TypeOK /\ [Next]_vars => TypeOK'
  BY TypesKept
<1> QED BY <1>1, <1>2, PTL DEF Spec

-----------------------------------------------------------------------------
(* Interests. *)

\* An Interest that leaves is one that came now and was not answered.
Leaves(f, s, a, v) ==
  LET interest == Tagged(a[2])
  IN /\ a[2].packet.kind = "Interest"
     /\ interest.nextHop # NoFace => f \in LocalFields
     /\ Admitted(f, interest, v)
     /\ Missed(Work(EntryOf(Selectors(interest)), {}), v, f, interest)
     /\ s[1] \in (IF interest.nextHop # NoFace THEN {interest.nextHop} ELSE Hops(interest))
     /\ s[2].packet = interest

LEMMA InterestLeaves ==
  ASSUME TypeOK, NEW f \in Faces, Received(f), NEW s \in sent', s[2].packet.kind = "Interest"
  PROVE  \E a \in Arrivals : \E v : Leaves(f, s, a, v)
<1>1. ASSUME OnlyData(sent') PROVE FALSE
  BY <1>1 DEF OnlyData
<1>2. CASE Looped
  BY <1>2 DEF Looped
<1>3. CASE InterestAdmitted(f)
  <2>1. PICK a \in Arrivals : \E v : AdmittedFrom(f, a, v)
    BY <1>3 DEF InterestAdmitted
  <2>2. PICK v : AdmittedFrom(f, a, v)
    BY <2>1
  <2> DEFINE interest == Tagged(a[2])
             e == EntryOf(Selectors(interest))
             hops == IF interest.nextHop # NoFace THEN {interest.nextHop} ELSE Hops(interest)
  <2>3. sent' = v.out /\ (Missed(Work(e, {}), v, f, interest) \/ Answered(e, v, f, interest))
    BY <2>2 DEF AdmittedFrom, Admitted
  <2>4. ASSUME Answered(e, v, f, interest) PROVE FALSE
    <3>1. PICK data \in DataPackets : v.out = Frames({g \in {f} : ~OutOfScope(g, data.name)}, data)
      BY <2>4 DEF Answered
    <3>2. data.kind = "Data"
      BY DataPacketsAreData DEF IsData
    <3>3. OnlyData(v.out)
      BY <3>1, <3>2, FramesOfData
    <3> QED BY <1>1, <2>3, <3>3
  <2>5. Missed(Work(e, {}), v, f, interest)
    BY <2>3, <2>4
  <2> HIDE DEF interest
  <2>6. v.out \subseteq Frames(hops, interest)
    BY <2>5 DEF Missed, Work
  <2> HIDE DEF hops
  <2>7. s[1] \in hops /\ s[2].packet = interest
    BY <2>3, <2>6 DEF Frames, sendNetPacket, Frame
  <2>8. Leaves(f, s, a, v)
    <3>1. a[2].packet.kind = "Interest" /\ (interest.nextHop # NoFace => f \in LocalFields)
          /\ Admitted(f, interest, v)
      BY <2>2, Zenon DEF AdmittedFrom, interest
    <3>2. s[1] \in (IF interest.nextHop # NoFace THEN {interest.nextHop} ELSE Hops(interest))
      BY <2>7, Zenon DEF hops
    <3> HIDE DEF hops
    <3> QED BY <3>1, <3>2, <2>5, <2>7, Zenon DEF Leaves, interest
  <2> QED BY <2>8
<1>4. CASE Unclaimed
  BY <1>1, <1>4 DEF Unclaimed
<1>5. ASSUME NEW data, NEW k, CapsuleAt(k, data) PROVE FALSE
  BY <1>1, <1>5 DEF CapsuleAt
<1>6. ASSUME NEW data \in DataPackets, PlainAt(f, data, PitMatches(data)) PROVE FALSE
  <2>1. data.kind = "Data"
    BY DataPacketsAreData DEF IsData
  <2>2. sent' = Frames({g \in Waiters(PitMatches(data), f) : ~OutOfScope(g, data.name)}, data)
    BY <1>6 DEF PlainAt
  <2>3. OnlyData(sent')
    BY <2>1, <2>2, FramesOfData
  <2> QED BY <1>1, <2>3
<1>7. ASSUME NEW k, Nacked(k) PROVE FALSE
  BY <1>7 DEF Nacked
<1> QED BY <1>2, <1>3, <1>4, <1>5, <1>6, <1>7 DEF Received

LEMMA InterestsOnlyAtArrival ==
  ASSUME TypeOK, [Next]_vars, NEW s \in sent', s[2].packet.kind = "Interest"
  PROVE  \/ \E f \in Faces, a \in Arrivals : \E v : Leaves(f, s, a, v)
         \/ UNCHANGED vars
<1>1. ASSUME NEW f \in Faces, Received(f)
      PROVE  \E a \in Arrivals : \E v : Leaves(f, s, a, v)
  BY <1>1, InterestLeaves
<1>2. ASSUME NEW k \in Keys, onInterestFinalize(k) PROVE FALSE
  BY <1>2, TimerFires
<1>3. ASSUME Tick PROVE FALSE
  BY <1>3, TimePasses
<1> QED BY <1>1, <1>2, <1>3, Events

LEMMA RememberedKept ==
  ASSUME TypeOK, Remembered, [Next]_vars
  PROVE  Remembered'
<1>1. ASSUME NEW f \in Faces, Received(f) PROVE dead' = dead /\ dnl \subseteq dnl'
  <2>1. CASE Looped
    BY <2>1 DEF Looped
  <2>2. CASE InterestAdmitted(f)
    BY <2>2 DEF InterestAdmitted, AdmittedFrom, Admitted
  <2>3. CASE Unclaimed
    BY <2>3 DEF Unclaimed
  <2>4. ASSUME NEW data, NEW k, CapsuleAt(k, data) PROVE dead' = dead /\ dnl' = dnl
    BY <2>4 DEF CapsuleAt
  <2>5. ASSUME NEW data, PlainAt(f, data, PitMatches(data)) PROVE dead' = dead /\ dnl \subseteq dnl'
    BY <2>5 DEF PlainAt
  <2>6. ASSUME NEW k, Nacked(k) PROVE dead' = dead /\ dnl' = dnl
    BY <2>6 DEF Nacked
  <2> QED BY <1>1, <2>1, <2>2, <2>3, <2>4, <2>5, <2>6 DEF Received
<1>2. ASSUME NEW k \in Keys, onInterestFinalize(k) PROVE dead' \subseteq dead \cup dnl' /\ dnl \subseteq dnl'
  BY <1>2, TimerFires
<1>3. ASSUME Tick PROVE dead' = dead /\ dnl' = dnl
  BY <1>3, TimePasses
<1>4. ASSUME UNCHANGED vars PROVE dead' = dead /\ dnl' = dnl
  BY <1>4 DEF vars, ghosts
<1>5. dead' \subseteq dead \cup dnl' /\ dnl \subseteq dnl'
  BY <1>1, <1>2, <1>3, <1>4, Events
<1> QED BY <1>5 DEF Remembered

\* Interests do not circle: a nonce that an entry sent in vain is not sent again
\* after the entry's end.  Proved for any arrivals, because an entry that ends
\* unsatisfied leaves the nonces it sent in the dead nonce list (onInterestFinalize,
\* insertDeadNonceList), and whatever Interest leaves was looked up there when it
\* came (onIncomingInterest).
THEOREM NoCirclingCorrect ==
  Spec => NoCircling
<1>1. Init => TypeOK /\ Remembered
  BY InitiallyTyped DEF Init, Remembered
<1>2. TypeOK /\ Remembered /\ [Next]_vars => TypeOK' /\ Remembered'
  BY TypesKept, RememberedKept
<1>3. TypeOK /\ Remembered /\ [Next]_vars
        => [\A s \in sent' : s[2].packet.kind = "Interest"
              => <<s[2].packet.name, s[2].packet.nonce>> \notin dead]_vars
  <2> SUFFICES ASSUME TypeOK, Remembered, [Next]_vars, ~UNCHANGED vars,
                      NEW s \in sent', s[2].packet.kind = "Interest"
               PROVE  <<s[2].packet.name, s[2].packet.nonce>> \notin dead
    OBVIOUS
  <2>1. PICK f \in Faces, a \in Arrivals : \E v : Leaves(f, s, a, v)
    BY InterestsOnlyAtArrival
  <2>2. PICK v : Leaves(f, s, a, v)
    BY <2>1
  <2> DEFINE interest == Tagged(a[2])
  <2>3. s[2].packet = interest /\ Admitted(f, interest, v)
    BY <2>2 DEF Leaves
  <2> HIDE DEF interest
  <2>4. <<interest.name, interest.nonce>> \notin dnl
    BY <2>3 DEF Admitted
  <2> QED BY <2>3, <2>4 DEF Remembered
<1> QED BY <1>1, <1>2, <1>3, PTL DEF Spec, NoCircling

LEMMA FlowsAreNotOfTheHost ==
  ASSUME LltcIsRemote, NEW name \in Names, UnderLltc(name)
  PROVE  ~IsLocalhost(name)
<1> SUFFICES ASSUME IsLocalhost(name) PROVE FALSE
  OBVIOUS
<1>1. /\ name \in Seq(Components) /\ Localhost \in Seq(Components) /\ LltcPrefix \in Seq(Components)
      /\ IsPrefix(LltcPrefix, name) /\ IsPrefix(Localhost, name)
  BY NamesAreSequences DEF UnderLltc, IsLocalhost
<1>2. IsPrefix(LltcPrefix, Localhost)
  BY <1>1, PrefixesOfOne DEF LltcIsRemote
<1>3. Len(LltcPrefix) <= Len(Localhost) /\ \A i \in 1 .. Len(LltcPrefix) : LltcPrefix[i] = Localhost[i]
  BY <1>1, <1>2, PrefixMeans
<1>4. Len(Localhost) = 1
  BY DEF Localhost
<1>5. Len(LltcPrefix) \in Nat /\ Len(LltcPrefix) # 0
  BY <1>1 DEF LltcIsRemote
<1>6. Len(Localhost) <= Len(LltcPrefix) /\ \A i \in 1 .. Len(Localhost) : Localhost[i] = LltcPrefix[i]
  BY <1>3, <1>4, <1>5
<1>7. IsPrefix(Localhost, LltcPrefix)
  BY <1>1, <1>6, PrefixMeans
<1> QED BY <1>7 DEF LltcIsRemote

\* The scope of one Interest that was sent.
KeepsScope(s) ==
  LET interest == s[2].packet
      chosen == interest.nextHop = s[1]
                  /\ \E f \in LocalFields : asked[<<f, Selectors(interest)>>] > 0
  IN \/ chosen
     \/ /\ s[1] \in ToSet(fib[interest.name]) \cup {UpFace}
        /\ IsLocalhost(interest.name) => Local(s[1])

LEMMA ScopeKept ==
  ASSUME TypeOK, LivingInterests, LltcIsRemote, NEW f \in Faces, NEW a \in Arrivals, NEW s, NEW v,
         Leaves(f, s, a, v)
  PROVE  KeepsScope(s)'
<1> DEFINE interest == Tagged(a[2])
           k == Selectors(interest)
<1>1. /\ a[2].packet.kind = "Interest" /\ (interest.nextHop # NoFace => f \in LocalFields)
      /\ Admitted(f, interest, v) /\ Missed(Work(EntryOf(k), {}), v, f, interest)
      /\ s[1] \in (IF interest.nextHop # NoFace THEN {interest.nextHop} ELSE Hops(interest))
      /\ s[2].packet = interest
  BY DEF Leaves
<1>2. IsInterest(interest) /\ k \in Keys /\ interest.lifetime > 0 /\ interest.name \in Names
  BY <1>1, TaggedInterest DEF LivingInterests, IsInterest
<1>3. asked'[<<f, k>>] = interest.lifetime
  <2>1. Asks(f, k, interest.lifetime)
    BY <1>1, AdmittedAsks
  <2> HIDE DEF k, interest
  <2> QED BY <1>2, <2>1 DEF Asks
<1>4. CASE interest.nextHop # NoFace
  <2>1. s[1] = interest.nextHop /\ f \in LocalFields
    BY <1>1, <1>4
  <2>2. asked'[<<f, k>>] > 0
    BY <1>2, <1>3
  <2> HIDE DEF interest
  <2>3. s[2].packet.nextHop = s[1] /\ \E g \in LocalFields : asked'[<<g, Selectors(s[2].packet)>>] > 0
    BY <1>1, <2>1, <2>2
  <2> QED BY <2>3 DEF KeepsScope
<1>5. CASE interest.nextHop = NoFace
  <2> HIDE DEF interest
  <2>1. s[1] \in Hops(interest)
    BY <1>1, <1>5
  <2>2. s[1] \in ToSet(fib[interest.name]) \cup {UpFace}
        /\ (UnderLltc(interest.name) \/ ~OutOfScope(s[1], interest.name))
    BY <2>1 DEF Hops
  <2>3. IsLocalhost(interest.name) => Local(s[1])
    BY <1>2, <2>2, FlowsAreNotOfTheHost DEF OutOfScope
  <2>4. /\ s[1] \in ToSet(fib[s[2].packet.name]) \cup {UpFace}
        /\ IsLocalhost(s[2].packet.name) => Local(s[1])
    BY <1>1, <2>2, <2>3
  <2> QED BY <2>4 DEF KeepsScope
<1> QED BY <1>4, <1>5

\* Interests keep their scope: one leaves by a next hop of its name or of the PP,
\* one of /localhost by a local face only, unless a local application that still
\* waits chose the face with a NextHopFaceId.  It rests on decodeInterest, which
\* drops that field on other faces, and on the Interest being recorded before it
\* is forwarded (onContentStoreMiss).
THEOREM InterestsKeepScopeCorrect ==
  LivingInterests /\ LltcIsRemote => (Spec => []InterestsKeepScope)
<1> SUFFICES ASSUME LivingInterests, LltcIsRemote PROVE Spec => []InterestsKeepScope
  OBVIOUS
<1>1. Init => TypeOK /\ InterestsKeepScope
  BY InitiallyTyped DEF Init, InterestsKeepScope
<1>2. TypeOK /\ InterestsKeepScope /\ [Next]_vars => TypeOK' /\ InterestsKeepScope'
  <2> SUFFICES ASSUME TypeOK, InterestsKeepScope, [Next]_vars PROVE InterestsKeepScope'
    BY TypesKept
  <2>1. ASSUME NEW s \in sent', s[2].packet.kind = "Interest" PROVE KeepsScope(s)'
    <3>1. CASE UNCHANGED vars
      <4>1. sent' = sent /\ asked' = asked
        BY <3>1 DEF vars, ghosts
      <4>2. KeepsScope(s)
        BY <2>1, <4>1 DEF InterestsKeepScope, KeepsScope
      <4> QED BY <4>1, <4>2 DEF KeepsScope
    <3>2. CASE ~UNCHANGED vars
      <4>1. PICK f \in Faces, a \in Arrivals : \E v : Leaves(f, s, a, v)
        BY <2>1, <3>2, InterestsOnlyAtArrival
      <4>2. PICK v : Leaves(f, s, a, v)
        BY <4>1
      <4> QED BY <4>2, ScopeKept
    <3> QED BY <3>1, <3>2
  <2> QED BY <2>1 DEF InterestsKeepScope, KeepsScope
<1> QED BY <1>1, <1>2, PTL DEF Spec

-----------------------------------------------------------------------------
(* Entries stay. *)

\* Only an entry whose timer is due ends.
LEMMA OnlyTimersEnd ==
  ASSUME TypeOK, [Next]_vars
  PROVE  \A k \in DOMAIN pit : k \notin DOMAIN pit' => pit[k].timer = 0
<1>1. ASSUME NEW f \in Faces, Received(f) PROVE DOMAIN pit \subseteq DOMAIN pit'
  <2>1. CASE Looped
    BY <2>1 DEF Looped
  <2>2. CASE InterestAdmitted(f)
    <3>1. PICK a \in Arrivals : \E v : AdmittedFrom(f, a, v)
      BY <2>2 DEF InterestAdmitted
    <3>2. PICK v : AdmittedFrom(f, a, v)
      BY <3>1
    <3>3. pit' = With(pit, {Selectors(Tagged(a[2]))}, v.e)
      BY <3>2 DEF AdmittedFrom, Admitted
    <3> QED BY <3>3, BecomesByWith DEF Becomes
  <2>3. CASE Unclaimed
    BY <2>3 DEF Unclaimed
  <2>4. ASSUME NEW data, NEW k, CapsuleAt(k, data) PROVE DOMAIN pit \subseteq DOMAIN pit'
    BY <2>4 DEF CapsuleAt
  <2>5. ASSUME NEW data, PlainAt(f, data, PitMatches(data)) PROVE DOMAIN pit \subseteq DOMAIN pit'
    BY <2>5 DEF PlainAt
  <2>6. ASSUME NEW k, Nacked(k) PROVE DOMAIN pit \subseteq DOMAIN pit'
    BY <2>6 DEF Nacked
  <2> QED BY <1>1, <2>1, <2>2, <2>3, <2>4, <2>5, <2>6 DEF Received
<1>2. ASSUME NEW k \in Keys, onInterestFinalize(k)
      PROVE  pit[k].timer = 0 /\ DOMAIN pit' = DOMAIN pit \ {k}
  BY <1>2, TimerFires
<1>3. ASSUME Tick PROVE DOMAIN pit' = DOMAIN pit
  BY <1>3, TimePasses
<1>4. ASSUME UNCHANGED vars PROVE pit' = pit
  BY <1>4 DEF vars
<1> QED BY <1>1, <1>2, <1>3, <1>4, Events

FlowOf(j) == flow[j] > 0 => j \in DOMAIN pit /\ pit[j].timer >= flow[j] /\ UnderLltc(j.name)

\* A new promise, and how the entry keeps it.
Promise(k, e, t) ==
  /\ flow' = [flow EXCEPT ![k] = t]
  /\ t > 0 => e.timer >= t /\ UnderLltc(k.name)

LEMMA FlowsAtArrival ==
  ASSUME TypeOK, OwnPrefixes, NEW f \in Faces, Received(f), NEW j \in Keys, FlowOf(j), mode' = mode
  PROVE  FlowOf(j)'
<1>1. UnderLltc(j.name)' = UnderLltc(j.name)
  BY DEF UnderLltc
<1>2. flow \in [Keys -> Nat]
  BY DEF TypeOK
<1>3. CASE flow' = flow /\ (j \in DOMAIN pit => j \in DOMAIN pit' /\ pit'[j] = pit[j])
  BY <1>1, <1>3 DEF FlowOf
<1>4. ASSUME NEW k \in Keys, NEW e, Becomes(k, e), NEW t \in Nat, Promise(k, e, t)
      PROVE  FlowOf(j)'
  <2>1. CASE j = k
    <3>1. flow'[j] = t /\ j \in DOMAIN pit' /\ pit'[j] = e
      BY <1>2, <1>4, <2>1 DEF Becomes, Promise
    <3> QED BY <1>1, <1>4, <2>1, <3>1 DEF FlowOf, Promise
  <2>2. CASE j # k
    <3>1. flow'[j] = flow[j] /\ (j \in DOMAIN pit => j \in DOMAIN pit' /\ pit'[j] = pit[j])
      BY <1>2, <1>4, <2>2 DEF Becomes, Promise
    <3> QED BY <1>1, <3>1 DEF FlowOf
  <2> QED BY <2>1, <2>2
<1>5. CASE Looped \/ Unclaimed
  BY <1>3, <1>5 DEF Looped, Unclaimed
<1>6. CASE InterestAdmitted(f)
  <2>1. PICK a \in Arrivals : \E v : AdmittedFrom(f, a, v)
    BY <1>6 DEF InterestAdmitted
  <2>2. PICK v : AdmittedFrom(f, a, v)
    BY <2>1
  <2> DEFINE k == Selectors(Tagged(a[2]))
  <2>3. k \in Keys /\ pit' = With(pit, {k}, v.e) /\ flow' = [flow EXCEPT ![k] = 0]
    BY <2>2, TaggedInterest DEF AdmittedFrom, Admitted
  <2> HIDE DEF k
  <2>4. Becomes(k, v.e) /\ Promise(k, v.e, 0)
    BY <2>3, BecomesByWith DEF Promise
  <2> QED BY <1>4, <2>3, <2>4
<1>7. ASSUME NEW data \in DataPackets, NEW k, UnderLltc(data.name), CapsuleAt(k, data) PROVE FlowOf(j)'
  <2>1. k \in DOMAIN pit /\ k \in Keys /\ matchesData(k, data) /\ flow' = [flow EXCEPT ![k] = PitDuration]
    BY <1>7 DEF CapsuleAt, TypeOK
  <2>2. PICK e : pit' = [pit EXCEPT ![k] = e] /\ e.timer = PitDuration
    BY <1>7 DEF CapsuleAt
  <2>3. UnderLltc(k.name)
    BY <1>7, <2>1, MatchKeepsScope, DataPacketsAreData
  <2>4. Becomes(k, e)
    BY <2>1, <2>2, BecomesByExcept
  <2>5. PitDuration \in Nat /\ Promise(k, e, PitDuration)
    BY <2>1, <2>2, <2>3, ForwarderAssumption DEF Promise
  <2> QED BY <1>4, <2>1, <2>4, <2>5
<1>8. ASSUME NEW data \in DataPackets, ~UnderLltc(data.name), PlainAt(f, data, PitMatches(data))
      PROVE  FlowOf(j)'
  <2> DEFINE matches == PitMatches(data)
  <2>1. /\ \A k \in matches : matchesData(k, data)
        /\ DOMAIN pit' = DOMAIN pit /\ \A k \in DOMAIN pit \ matches : pit'[k] = pit[k]
        /\ flow' = flow
    BY <1>8 DEF PlainAt
  <2> HIDE DEF matches
  <2>2. CASE j \in matches
    <3>1. ~UnderLltc(j.name)
      BY <1>8, <2>1, <2>2, MatchKeepsScope, DataPacketsAreData
    <3> QED BY <2>1, <3>1 DEF FlowOf
  <2>3. CASE j \notin matches
    BY <1>3, <2>1, <2>3
  <2> QED BY <2>2, <2>3
<1>9. ASSUME NEW k, Nacked(k) PROVE FlowOf(j)'
  <2>1. k \in DOMAIN pit /\ k \in Keys
    BY <1>9 DEF Nacked, TypeOK
  <2>2. PICK e : /\ pit' = [pit EXCEPT ![k] = e]
                 /\ (e.timer = pit[k].timer /\ flow' = flow) \/ flow' = [flow EXCEPT ![k] = 0]
    BY <1>9 DEF Nacked
  <2>3. Becomes(k, e)
    BY <2>1, <2>2, BecomesByExcept
  <2>4. CASE flow' = [flow EXCEPT ![k] = 0]
    <3>1. Promise(k, e, 0)
      BY <2>4 DEF Promise
    <3> QED BY <1>4, <2>1, <2>3, <3>1
  <2>5. CASE e.timer = pit[k].timer /\ flow' = flow
    <3>1. CASE j = k
      BY <1>1, <2>1, <2>3, <2>5, <3>1 DEF Becomes, FlowOf
    <3>2. CASE j # k
      BY <1>3, <2>3, <2>5, <3>2 DEF Becomes
    <3> QED BY <3>1, <3>2
  <2> QED BY <2>2, <2>4, <2>5
<1> QED BY <1>5, <1>6, <1>7, <1>8, <1>9 DEF Received

LEMMA FlowsKept ==
  ASSUME TypeOK, OwnPrefixes, FlowKept, [Next]_vars
  PROVE  FlowKept'
<1> SUFFICES ASSUME NEW j \in Keys, FlowOf(j) PROVE FlowOf(j)'
  BY DEF FlowKept, FlowOf
<1>1. ASSUME NEW f \in Faces, mode' = mode /\ Received(f) PROVE FlowOf(j)'
  BY <1>1, FlowsAtArrival
<1>2. ASSUME NEW k \in Keys, onInterestFinalize(k) PROVE FlowOf(j)'
  <2>1. /\ k \in DOMAIN pit /\ pit[k].timer = 0
        /\ DOMAIN pit' = DOMAIN pit \ {k} /\ \A i \in DOMAIN pit' : pit'[i] = pit[i]
        /\ mode' = mode /\ flow' = flow
    BY <1>2, TimerFires
  <2>2. flow[j] \in Nat
    BY DEF TypeOK
  <2> QED BY <2>1, <2>2 DEF FlowOf, UnderLltc
<1>3. ASSUME Tick PROVE FlowOf(j)'
  <2>1. /\ DOMAIN pit' = DOMAIN pit /\ \A k \in DOMAIN pit : pit'[k].timer = pit[k].timer - 1
        /\ flow'[j] = IF flow[j] > 0 THEN flow[j] - 1 ELSE 0
        /\ mode' = mode
    BY <1>3, TimePasses DEF Aging
  <2>2. flow[j] \in Nat /\ (j \in DOMAIN pit => pit[j].timer \in Nat)
    BY DEF TypeOK, IsEntry
  <2> QED BY <2>1, <2>2 DEF FlowOf, UnderLltc
<1>4. ASSUME UNCHANGED vars PROVE FlowOf(j)'
  <2>1. pit' = pit /\ mode' = mode /\ flow' = flow
    BY <1>4 DEF vars, ghosts
  <2> QED BY <2>1 DEF FlowOf, UnderLltc
<1> QED BY <1>1, <1>2, <1>3, <1>4, Events

\* The entry of a flow stays for the whole duration after each Capsule, unless an
\* Interest for the flow or the last Nack set its timer anew: ordinary Data does
\* not end it, because Data that matches it is of the flow (OwnPrefixes) and takes
\* the branch of onIncomingData that renews the timer.
THEOREM FlowStaysCorrect ==
  OwnPrefixes => (Spec => FlowStays)
<1> SUFFICES ASSUME OwnPrefixes PROVE Spec => FlowStays
  OBVIOUS
<1>1. Init => TypeOK /\ FlowKept
  BY InitiallyTyped DEF Init, FlowKept
<1>2. TypeOK /\ FlowKept /\ [Next]_vars => TypeOK' /\ FlowKept'
  BY TypesKept, FlowsKept
<1>3. TypeOK /\ FlowKept /\ [Next]_vars => [\A k \in Keys : flow[k] > 0 => k \in DOMAIN pit']_vars
  <2> SUFFICES ASSUME TypeOK, FlowKept, [Next]_vars, NEW k \in Keys, flow[k] > 0
               PROVE  k \in DOMAIN pit'
    OBVIOUS
  <2>1. k \in DOMAIN pit /\ pit[k].timer >= flow[k] /\ flow[k] \in Nat
    BY DEF FlowKept, TypeOK
  <2>2. k \notin DOMAIN pit' => pit[k].timer = 0
    BY <2>1, OnlyTimersEnd
  <2> QED BY <2>1, <2>2
<1> QED BY <1>1, <1>2, <1>3, PTL DEF Spec, FlowStays

-----------------------------------------------------------------------------
(* Who waits. *)

\* The entry of one key becomes e, the others stay.
LEMMA OthersStay ==
  ASSUME NEW k, NEW e, Becomes(k, e)
  PROVE  EntryOf(k)' = e /\ \A j : j # k => EntryOf(j)' = EntryOf(j)
<1>1. DOMAIN pit' = DOMAIN pit \cup {k} /\ pit'[k] = e /\ \A j \in DOMAIN pit \ {k} : pit'[j] = pit[j]
  BY DEF Becomes
<1>2. EntryOf(k)' = e
  BY <1>1 DEF EntryOf
<1>3. ASSUME NEW j, j # k PROVE EntryOf(j)' = EntryOf(j)
  <2>1. CASE j \in DOMAIN pit
    BY <1>1, <1>3, <2>1 DEF EntryOf
  <2>2. CASE j \notin DOMAIN pit
    BY <1>1, <1>3, <2>2 DEF EntryOf
  <2> QED BY <2>1, <2>2
<1> QED BY <1>2, <1>3


\* An Interest asks for a while.
AskedNow(k, f, life) ==
  /\ ~OutOfScope(f, k.name)
  /\ \E nonce : EntryOf(k)'.in = With(EntryOf(k).in, {f}, [nonce |-> nonce, left |-> life])
  /\ Asks(f, k, life)
  /\ \A j : j # k => EntryOf(j)' = EntryOf(j)

AnsweredNow(k, f) ==
  /\ DOMAIN EntryOf(k).in = {} /\ DOMAIN EntryOf(k)'.in = {}
  /\ Asks(f, k, 0)
  /\ \A j : j # k => EntryOf(j)' = EntryOf(j)

LEMMA AdmittedWaits ==
  ASSUME TypeOK, NEW f \in Faces, NEW a \in Arrivals, a[2].packet.kind = "Interest",
         NEW v, Admitted(f, Tagged(a[2]), v)
  PROVE  LET interest == Tagged(a[2])
             k == Selectors(interest)
         IN /\ k \in Keys /\ EntryOf(k)' = v.e
            /\ \/ /\ Missed(Work(EntryOf(k), {}), v, f, interest)
                  /\ AskedNow(k, f, interest.lifetime) /\ unasked' = unasked
               \/ OwnPrefixes =>
                    AnsweredNow(k, f) /\ (LivingInterests => unasked' = unasked)
<1> DEFINE interest == Tagged(a[2])
           k == Selectors(interest)
<1>1. k \in Keys /\ k.name = interest.name
  BY TaggedInterest DEF Selectors
<1>2. /\ ~OutOfScope(f, interest.name) /\ pit' = With(pit, {k}, v.e)
      /\ Missed(Work(EntryOf(k), {}), v, f, interest) \/ Answered(EntryOf(k), v, f, interest)
  BY DEF Admitted
<1>3. /\ Missed(Work(EntryOf(k), {}), v, f, interest) =>
           Asks(f, k, interest.lifetime) /\ unasked' = unasked
      /\ Answered(EntryOf(k), v, f, interest) /\ OwnPrefixes =>
           /\ Asks(f, k, 0)
           /\ LivingInterests => unasked' = unasked
  BY AdmittedAsks
<1> HIDE DEF k, interest
<1>4. EntryOf(k)' = v.e /\ \A j : j # k => EntryOf(j)' = EntryOf(j)
  BY <1>2, BecomesByWith, OthersStay
<1>5. ASSUME Missed(Work(EntryOf(k), {}), v, f, interest) PROVE AskedNow(k, f, interest.lifetime)
  <2>1. v.e.in = With(EntryOf(k).in, {f}, [nonce |-> interest.nonce, left |-> interest.lifetime])
    BY <1>5 DEF Missed, Work
  <2>2. EntryOf(k)'.in = With(EntryOf(k).in, {f}, [nonce |-> interest.nonce, left |-> interest.lifetime])
    BY <1>4, <2>1
  <2> QED BY <1>1, <1>2, <1>3, <1>4, <1>5, <2>2 DEF AskedNow
<1>6. ASSUME Answered(EntryOf(k), v, f, interest), OwnPrefixes PROVE AnsweredNow(k, f)
  <2>1. DOMAIN EntryOf(k).in = {} /\ DOMAIN v.e.in = {}
    BY <1>6 DEF Answered
  <2> QED BY <1>3, <1>4, <1>6, <2>1 DEF AnsweredNow
<1> QED BY <1>1, <1>2, <1>3, <1>4, <1>5, <1>6 DEF k, interest

LEMMA AskedNowWaits ==
  ASSUME TypeOK, NEW k \in Keys, NEW f \in Faces, NEW life \in Nat, AskedNow(k, f, life),
         NEW j \in Keys, NEW g \in Faces, WaitsAt(j, g), mode' = mode
  PROVE  WaitsAt(j, g)'
<1>1. PICK nonce : EntryOf(k)'.in = With(EntryOf(k).in, {f}, [nonce |-> nonce, left |-> life])
  BY DEF AskedNow
<1> DEFINE record == [nonce |-> nonce, left |-> life]
<1>2. asked'[<<g, j>>] = IF g = f /\ j = k THEN life ELSE asked[<<g, j>>]
  BY DEF AskedNow, Asks
<1>3. CASE j = k /\ g = f
  <2>1. f \in DOMAIN EntryOf(k)'.in /\ EntryOf(k)'.in[f] = record
    BY <1>1 DEF With
  <2>2. EntryOf(k)'.in[f].left = life
    BY <2>1
  <2>3. ~OutOfScope(g, j.name)
    BY <1>3 DEF AskedNow
  <2> QED BY <1>2, <1>3, <2>1, <2>2, <2>3 DEF WaitsAt, Waits
<1>4. CASE j = k /\ g # f
  <2>1. /\ g \in DOMAIN EntryOf(k)'.in <=> g \in DOMAIN EntryOf(k).in
        /\ g \in DOMAIN EntryOf(k).in => EntryOf(k)'.in[g] = EntryOf(k).in[g]
    BY <1>1, <1>4 DEF With
  <2>2. asked'[<<g, j>>] = asked[<<g, j>>]
    BY <1>2, <1>4
  <2> QED BY <1>4, <2>1, <2>2 DEF WaitsAt, Waits
<1>5. CASE j # k
  <2>1. EntryOf(j)' = EntryOf(j) /\ asked'[<<g, j>>] = asked[<<g, j>>]
    BY <1>2, <1>5 DEF AskedNow
  <2> QED BY <2>1 DEF WaitsAt, Waits
<1> QED BY <1>3, <1>4, <1>5

LEMMA AnsweredNowWaits ==
  ASSUME TypeOK, NEW k \in Keys, NEW f \in Faces, AnsweredNow(k, f),
         NEW j \in Keys, NEW g \in Faces, WaitsAt(j, g)
  PROVE  WaitsAt(j, g)'
<1>1. asked'[<<g, j>>] = IF g = f /\ j = k THEN 0 ELSE asked[<<g, j>>]
  BY DEF AnsweredNow, Asks
<1>2. asked[<<g, j>>] \in Int
  BY DEF TypeOK
<1>3. CASE j = k
  BY <1>1, <1>2, <1>3 DEF AnsweredNow, WaitsAt, Waits
<1>4. CASE j # k
  <2>1. EntryOf(j)' = EntryOf(j) /\ asked'[<<g, j>>] = asked[<<g, j>>]
    BY <1>1, <1>4 DEF AnsweredNow
  <2> QED BY <2>1 DEF WaitsAt, Waits
<1> QED BY <1>3, <1>4

\* The entry of a key changes, but not its in-records.
LEMMA SameInWaits ==
  ASSUME NEW k, NEW e, Becomes(k, e), e.in = EntryOf(k).in, asked' = asked,
         NEW j, NEW g, WaitsAt(j, g)
  PROVE  WaitsAt(j, g)'
<1>1. EntryOf(k)' = e /\ (j # k => EntryOf(j)' = EntryOf(j))
  BY OthersStay
<1>2. EntryOf(j)'.in = EntryOf(j).in
  BY <1>1
<1> QED BY <1>2 DEF WaitsAt, Waits

\* Who got ordinary Data, and who still waits.
LEMMA PlainSettled ==
  ASSUME TypeOK, NEW f, NEW data \in DataPackets, NEW matches, PlainAt(f, data, matches)
  PROVE  /\ Reached(sent') = {g \in Waiters(matches, f) : ~OutOfScope(g, data.name)}
         /\ DataTo(sent') = {<<g, data>> : g \in Reached(sent')}
         /\ Settled(asked, sent', matches, {f})
<1> DEFINE fs == {g \in Waiters(matches, f) : ~OutOfScope(g, data.name)}
<1>1. data.kind = "Data"
  BY DataPacketsAreData DEF IsData
<1>2. sent' = Frames(fs, data) /\ Account(asked, sent', matches, {f})
  BY DEF PlainAt
<1> HIDE DEF fs
<1>3. DataTo(Frames(fs, data)) = {<<g, data>> : g \in fs} /\ Reached(Frames(fs, data)) = fs
  BY <1>1, ReachedByData
<1>4. Settled(asked, sent', matches, {f})
  BY <1>2, Accounted DEF TypeOK
<1> QED BY <1>2, <1>3, <1>4 DEF fs

LEMMA NobodyWaitsOn ==
  ASSUME TypeOK, OwnPrefixes, NEW f \in Faces, NEW data \in DataPackets, NEW matches,
         PlainAt(f, data, matches),
         NEW j \in Keys, j \in matches, NEW g \in Faces, WaitsAt(j, g)
  PROVE  /\ asked'[<<g, j>>] <= 0
         /\ WaitsAt(j, g)'
<1>1. /\ j \in DOMAIN pit /\ matchesData(j, data) /\ DOMAIN pit' = DOMAIN pit
      /\ \A h \in DOMAIN pit'[j].in :
            /\ h \in DOMAIN pit[j].in /\ pit'[j].in[h] = pit[j].in[h]
            /\ h = f \/ ~(pit[j].in[h].left > 0)
  BY DEF PlainAt
<1>2. EntryOf(j) = pit[j] /\ EntryOf(j)' = pit'[j]
  BY <1>1 DEF EntryOf
<1> DEFINE x == asked[<<g, j>>]
           y == asked'[<<g, j>>]
           got == g \in Reached(sent')
<1>3. /\ Settled(asked, sent', matches, {f})
      /\ Reached(sent') = {h \in Waiters(matches, f) : ~OutOfScope(h, data.name)}
  BY PlainSettled
<1>4. y = IF got THEN 0 ELSE IF g = f /\ x > 0 THEN -x ELSE x
  BY <1>3 DEF Settled
<1>5. x \in Int /\ (g \in DOMAIN pit[j].in => pit[j].in[g].left \in Int)
  BY <1>1 DEF TypeOK, IsEntry, InTable
<1>6. /\ x # 0 => ~OutOfScope(g, j.name)
      /\ x > 0 => g \in DOMAIN pit[j].in /\ pit[j].in[g].left = x
      /\ g \in DOMAIN pit[j].in /\ pit[j].in[g].left > 0 => x = pit[j].in[g].left \/ x = -pit[j].in[g].left
  BY <1>2 DEF WaitsAt, Waits
<1>7. OutOfScope(g, j.name) <=> OutOfScope(g, data.name)
  BY <1>1, MatchKeepsScope, DataPacketsAreData DEF OutOfScope
<1>8. x > 0 /\ g # f => got
  <2> SUFFICES ASSUME x > 0, g # f PROVE got
    OBVIOUS
  <2>1. g \in DOMAIN pit[j].in /\ pit[j].in[g].left > 0
    BY <1>6
  <2>2. g \in Waiters(matches, f)
    BY <2>1 DEF Waiters
  <2>3. ~OutOfScope(g, data.name)
    BY <1>5, <1>6, <1>7
  <2> QED BY <1>3, <2>2, <2>3
<1>9. g = f => ~got
  BY <1>3 DEF Waiters
<1> HIDE DEF got, x, y
<1>10. y <= 0
  BY <1>4, <1>5, <1>8
<1>11. y # 0 => ~OutOfScope(g, j.name)
  BY <1>4, <1>5, <1>6
<1>12. ASSUME g \in DOMAIN pit'[j].in, pit'[j].in[g].left > 0
       PROVE  y = pit'[j].in[g].left \/ y = -pit'[j].in[g].left
  <2>1. g \in DOMAIN pit[j].in /\ pit'[j].in[g] = pit[j].in[g] /\ pit[j].in[g].left > 0 /\ g = f
    BY <1>1, <1>12
  <2>2. x = pit[j].in[g].left \/ x = -pit[j].in[g].left
    BY <1>6, <2>1
  <2>3. y = -x \/ y = x
    BY <1>4, <1>9, <2>1
  <2> QED BY <1>5, <2>1, <2>2, <2>3
<1>13. y > 0 => g \in DOMAIN pit'[j].in /\ pit'[j].in[g].left = y
  BY <1>4, <1>5, <1>10
<1> QED BY <1>2, <1>10, <1>11, <1>12, <1>13 DEF WaitsAt, Waits, y

LEMMA WaitingAtArrival ==
  ASSUME TypeOK, OwnPrefixes, NEW f \in Faces, Received(f), mode' = mode,
         NEW j \in Keys, NEW g \in Faces, WaitsAt(j, g)
  PROVE  WaitsAt(j, g)'
<1>1. CASE Looped \/ Unclaimed
  <2>1. pit' = pit /\ asked' = asked
    BY <1>1 DEF Looped, Unclaimed
  <2>2. EntryOf(j)' = EntryOf(j)
    BY <2>1 DEF EntryOf
  <2> QED BY <2>1, <2>2 DEF WaitsAt
<1>2. CASE InterestAdmitted(f)
  <2>1. PICK a \in Arrivals : \E v : AdmittedFrom(f, a, v)
    BY <1>2 DEF InterestAdmitted
  <2>2. PICK v : AdmittedFrom(f, a, v)
    BY <2>1
  <2> DEFINE interest == Tagged(a[2])
             k == Selectors(interest)
  <2>3. a[2].packet.kind = "Interest" /\ Admitted(f, interest, v)
    BY <2>2 DEF AdmittedFrom
  <2>4. k \in Keys /\ (AskedNow(k, f, interest.lifetime) \/ AnsweredNow(k, f))
    BY <2>3, AdmittedWaits
  <2>5. interest.lifetime \in Nat
    BY <2>3, TaggedInterest DEF IsInterest
  <2> HIDE DEF k, interest
  <2> QED BY <2>4, <2>5, AskedNowWaits, AnsweredNowWaits
<1>3. ASSUME NEW data \in DataPackets, NEW k, CapsuleAt(k, data) PROVE WaitsAt(j, g)'
  <2>1. PICK e : pit' = [pit EXCEPT ![k] = e] /\ e.in = pit[k].in
    BY <1>3 DEF CapsuleAt
  <2>2. k \in DOMAIN pit /\ asked' = asked
    BY <1>3 DEF CapsuleAt
  <2>3. Becomes(k, e) /\ e.in = EntryOf(k).in
    BY <2>1, <2>2, BecomesByExcept DEF EntryOf
  <2> QED BY <2>2, <2>3, SameInWaits
<1>4. ASSUME NEW data \in DataPackets, PlainAt(f, data, PitMatches(data)) PROVE WaitsAt(j, g)'
  <2> DEFINE matches == PitMatches(data)
  <2>1. PlainAt(f, data, matches)
    BY <1>4
  <2> HIDE DEF matches
  <2>2. CASE j \in matches
    BY <2>1, <2>2, NobodyWaitsOn
  <2>3. CASE j \notin matches
    <3>1. DOMAIN pit' = DOMAIN pit /\ (j \in DOMAIN pit => pit'[j] = pit[j])
      BY <2>1, <2>3 DEF PlainAt
    <3>2. EntryOf(j)' = EntryOf(j)
      BY <3>1 DEF EntryOf
    <3>3. asked'[<<g, j>>] = asked[<<g, j>>]
      BY <2>1, <2>3, PlainSettled DEF Settled
    <3> QED BY <3>2, <3>3 DEF WaitsAt
  <2> QED BY <2>2, <2>3
<1>5. ASSUME NEW k, Nacked(k) PROVE WaitsAt(j, g)'
  <2>1. PICK e : pit' = [pit EXCEPT ![k] = e] /\ e.in = pit[k].in
    BY <1>5 DEF Nacked
  <2>2. k \in DOMAIN pit /\ asked' = asked
    BY <1>5 DEF Nacked
  <2>3. Becomes(k, e) /\ e.in = EntryOf(k).in
    BY <2>1, <2>2, BecomesByExcept DEF EntryOf
  <2> QED BY <2>2, <2>3, SameInWaits
<1> QED BY <1>1, <1>2, <1>3, <1>4, <1>5 DEF Received

\* A timer fires: the entry is gone, and nobody waits.
LEMMA EndedNow ==
  ASSUME TypeOK, NEW k \in Keys, onInterestFinalize(k), NEW j \in Keys, NEW g \in Faces
  PROVE  /\ asked'[<<g, j>>] = IF j = k THEN 0 ELSE asked[<<g, j>>]
         /\ EntryOf(j)' = IF j = k THEN EmptyEntry ELSE EntryOf(j)
         /\ mode' = mode
<1>1. /\ DOMAIN pit' = DOMAIN pit \ {k} /\ \A i \in DOMAIN pit' : pit'[i] = pit[i]
      /\ mode' = mode
      /\ asked' = [p \in Faces \X Keys |-> IF p[2] = k THEN 0 ELSE asked[p]]
  BY TimerFires
<1>2. asked'[<<g, j>>] = IF j = k THEN 0 ELSE asked[<<g, j>>]
  BY <1>1
<1>3. EntryOf(j)' = IF j = k THEN EmptyEntry ELSE EntryOf(j)
  BY <1>1 DEF EntryOf
<1> QED BY <1>1, <1>2, <1>3

\* Time passes for the entry of a key, if there is one.
LEMMA AgedNow ==
  ASSUME TypeOK, Tick, NEW j \in Keys, NEW g \in Faces
  PROVE  /\ asked'[<<g, j>>] = IF asked[<<g, j>>] < 0 THEN asked[<<g, j>>] + 1
                               ELSE IF asked[<<g, j>>] > 0 THEN asked[<<g, j>>] - 1 ELSE 0
         /\ Aging(EntryOf(j), EntryOf(j)') \/ (EntryOf(j)' = EmptyEntry /\ EntryOf(j) = EmptyEntry)
         /\ mode' = mode
<1>1. /\ DOMAIN pit' = DOMAIN pit /\ \A k \in DOMAIN pit : Aging(pit[k], pit'[k])
      /\ asked'[<<g, j>>] = IF asked[<<g, j>>] < 0 THEN asked[<<g, j>>] + 1
                            ELSE IF asked[<<g, j>>] > 0 THEN asked[<<g, j>>] - 1 ELSE 0
      /\ mode' = mode
  BY TimePasses
<1> QED BY <1>1 DEF EntryOf

LEMMA WaitingKept ==
  ASSUME TypeOK, OwnPrefixes, Waiting, [Next]_vars
  PROVE  Waiting'
<1> SUFFICES ASSUME NEW j \in Keys, NEW g \in Faces, WaitsAt(j, g) PROVE WaitsAt(j, g)'
  BY DEF Waiting
<1>1. ASSUME NEW f \in Faces, mode' = mode /\ Received(f) PROVE WaitsAt(j, g)'
  BY <1>1, WaitingAtArrival
<1>2. ASSUME NEW k \in Keys, onInterestFinalize(k) PROVE WaitsAt(j, g)'
  <2>1. /\ asked'[<<g, j>>] = IF j = k THEN 0 ELSE asked[<<g, j>>]
        /\ EntryOf(j)' = IF j = k THEN EmptyEntry ELSE EntryOf(j)
    BY <1>2, EndedNow
  <2> QED BY <2>1, EmptyEntryFacts DEF WaitsAt, Waits
<1>3. ASSUME Tick PROVE WaitsAt(j, g)'
  <2>1. /\ asked'[<<g, j>>] = IF asked[<<g, j>>] < 0 THEN asked[<<g, j>>] + 1
                              ELSE IF asked[<<g, j>>] > 0 THEN asked[<<g, j>>] - 1 ELSE 0
        /\ Aging(EntryOf(j), EntryOf(j)') \/ (EntryOf(j)' = EmptyEntry /\ EntryOf(j) = EmptyEntry)
    BY <1>3, AgedNow
  <2>2. asked[<<g, j>>] \in Int /\ IsEntry(EntryOf(j))
    BY EntryOfKey DEF TypeOK
  <2>3. CASE Aging(EntryOf(j), EntryOf(j)')
    <3>1. /\ DOMAIN EntryOf(j)'.in = DOMAIN EntryOf(j).in
          /\ g \in DOMAIN EntryOf(j).in =>
               EntryOf(j)'.in[g].left = Elapse(EntryOf(j).in[g].left) /\ EntryOf(j).in[g].left \in Int
      BY <2>2, <2>3 DEF Aging, IsEntry, InTable
    <3> QED BY <2>1, <2>2, <3>1 DEF WaitsAt, Waits, Elapse
  <2>4. CASE EntryOf(j)' = EmptyEntry /\ EntryOf(j) = EmptyEntry
    BY <2>1, <2>2, <2>4, EmptyEntryFacts DEF WaitsAt, Waits
  <2> QED BY <2>1, <2>3, <2>4
<1>4. ASSUME UNCHANGED vars PROVE WaitsAt(j, g)'
  <2>1. pit' = pit /\ asked' = asked
    BY <1>4 DEF vars, ghosts
  <2> QED BY <2>1 DEF WaitsAt, EntryOf
<1> QED BY <1>1, <1>2, <1>3, <1>4, Events

-----------------------------------------------------------------------------
(* Nobody is forgotten, and everybody gets the Data. *)

LEMMA PendingAtArrival ==
  ASSUME TypeOK, OwnPrefixes, FlowLifetimes, NEW f \in Faces, Received(f), mode' = mode,
         NEW j \in Keys, NEW g \in Faces, WaitsAt(j, g), WaitsAt(j, g)', PendingAt(j, g)
  PROVE  PendingAt(j, g)'
<1>1. UnderLltc(j.name)' = UnderLltc(j.name)
  BY DEF UnderLltc
<1>2. asked[<<g, j>>] \in Int /\ asked'[<<g, j>>] \in Int /\ PitDuration \in Nat
  BY TypesAtArrival, ForwarderAssumption DEF TypeOK
<1>3. ASSUME asked'[<<g, j>>] <= 0 PROVE PendingAt(j, g)'
  BY <1>2, <1>3 DEF PendingAt, PendingFor
<1>4. ASSUME asked'[<<g, j>>] = asked[<<g, j>>], EntryOf(j)' = EntryOf(j) PROVE PendingAt(j, g)'
  BY <1>1, <1>4 DEF PendingAt
<1>5. CASE Looped \/ Unclaimed
  <2>1. pit' = pit /\ asked' = asked
    BY <1>5 DEF Looped, Unclaimed
  <2> QED BY <1>4, <2>1 DEF EntryOf
<1>6. CASE InterestAdmitted(f)
  <2>1. PICK a \in Arrivals : \E v : AdmittedFrom(f, a, v)
    BY <1>6 DEF InterestAdmitted
  <2>2. PICK v : AdmittedFrom(f, a, v)
    BY <2>1
  <2> DEFINE interest == Tagged(a[2])
             k == Selectors(interest)
  <2>3. a[2].packet.kind = "Interest" /\ Admitted(f, interest, v)
    BY <2>2 DEF AdmittedFrom
  <2>4. /\ k \in Keys /\ EntryOf(k)' = v.e
        /\ \/ Missed(Work(EntryOf(k), {}), v, f, interest) /\ AskedNow(k, f, interest.lifetime)
           \/ AnsweredNow(k, f)
    BY <2>3, AdmittedWaits
  <2>5. k.name = interest.name /\ interest.lifetime \in Nat
        /\ (IsPrefix(LltcPrefix, k.name) => interest.lifetime <= PitDuration)
    BY <2>3, TaggedInterest DEF Selectors, FlowLifetimes, IsInterest
  <2> HIDE DEF k, interest
  <2>6. CASE Missed(Work(EntryOf(k), {}), v, f, interest) /\ AskedNow(k, f, interest.lifetime)
    <3>1. asked'[<<g, j>>] = IF g = f /\ j = k THEN interest.lifetime ELSE asked[<<g, j>>]
      BY <2>6 DEF AskedNow, Asks
    <3>2. CASE j = k
      <4>1. UnderLltc(j.name) => asked'[<<g, j>>] <= PitDuration
        BY <2>5, <3>1, <3>2 DEF UnderLltc, PendingAt
      <4>2. asked'[<<g, j>>] > 0 => g \in DOMAIN v.e.in /\ v.e.in[g].left = asked'[<<g, j>>]
        BY <2>4, <3>2 DEF WaitsAt, Waits
      <4>3. PendingFor(v.e, asked'[<<g, j>>])
        BY <2>6, <4>2 DEF Missed, PendingFor
      <4> QED BY <1>1, <2>4, <3>2, <4>1, <4>3 DEF PendingAt
    <3>3. CASE j # k
      <4>1. EntryOf(j)' = EntryOf(j) /\ asked'[<<g, j>>] = asked[<<g, j>>]
        BY <2>6, <3>1, <3>3 DEF AskedNow
      <4> QED BY <1>4, <4>1
    <3> QED BY <3>2, <3>3
  <2>7. CASE AnsweredNow(k, f)
    <3>1. asked'[<<g, j>>] = IF g = f /\ j = k THEN 0 ELSE asked[<<g, j>>]
      BY <2>7 DEF AnsweredNow, Asks
    <3>2. CASE j = k
      <4>1. ~(asked[<<g, j>>] > 0)
        BY <2>7, <3>2 DEF AnsweredNow, WaitsAt, Waits
      <4> QED BY <1>2, <1>3, <3>1, <4>1
    <3>3. CASE j # k
      <4>1. EntryOf(j)' = EntryOf(j) /\ asked'[<<g, j>>] = asked[<<g, j>>]
        BY <2>7, <3>1, <3>3 DEF AnsweredNow
      <4> QED BY <1>4, <4>1
    <3> QED BY <3>2, <3>3
  <2> QED BY <2>4, <2>6, <2>7
<1>7. ASSUME NEW data \in DataPackets, NEW k, UnderLltc(data.name), CapsuleAt(k, data)
      PROVE  PendingAt(j, g)'
  <2>1. PICK e : pit' = [pit EXCEPT ![k] = e] /\ e.timer = PitDuration
    BY <1>7 DEF CapsuleAt
  <2>2. k \in DOMAIN pit /\ k \in Keys /\ asked' = asked /\ matchesData(k, data)
    BY <1>7 DEF CapsuleAt, TypeOK
  <2>3. EntryOf(k)' = e /\ (j # k => EntryOf(j)' = EntryOf(j))
    BY <2>1, <2>2, BecomesByExcept, OthersStay
  <2>4. UnderLltc(k.name)
    BY <1>7, <2>2, MatchKeepsScope, DataPacketsAreData
  <2>5. CASE j = k
    BY <1>1, <2>1, <2>2, <2>3, <2>4, <2>5 DEF PendingAt, PendingFor
  <2>6. CASE j # k
    BY <1>4, <2>2, <2>3, <2>6
  <2> QED BY <2>5, <2>6
<1>8. ASSUME NEW data \in DataPackets, PlainAt(f, data, PitMatches(data)) PROVE PendingAt(j, g)'
  <2> DEFINE matches == PitMatches(data)
  <2>1. PlainAt(f, data, matches)
    BY <1>8
  <2> HIDE DEF matches
  <2>2. CASE j \in matches
    BY <1>3, <2>1, <2>2, NobodyWaitsOn
  <2>3. CASE j \notin matches
    <3>1. DOMAIN pit' = DOMAIN pit /\ (j \in DOMAIN pit => pit'[j] = pit[j])
      BY <2>1, <2>3 DEF PlainAt
    <3>2. EntryOf(j)' = EntryOf(j)
      BY <3>1 DEF EntryOf
    <3>3. asked'[<<g, j>>] = asked[<<g, j>>]
      BY <2>1, <2>3, PlainSettled DEF Settled
    <3> QED BY <1>4, <3>2, <3>3
  <2> QED BY <2>2, <2>3
<1>9. ASSUME NEW k, Nacked(k) PROVE PendingAt(j, g)'
  <2>1. PICK e : /\ pit' = [pit EXCEPT ![k] = e]
                 /\ \/ /\ e.timer = pit[k].timer
                       /\ hasPendingOutRecords(e) => hasPendingOutRecords(pit[k])
                    \/ ~hasPendingOutRecords(e)
    BY <1>9 DEF Nacked
  <2>2. k \in DOMAIN pit /\ asked' = asked /\ EntryOf(k) = pit[k]
    BY <1>9 DEF Nacked, EntryOf
  <2>3. EntryOf(k)' = e /\ (j # k => EntryOf(j)' = EntryOf(j))
    BY <2>1, <2>2, BecomesByExcept, OthersStay
  <2>4. CASE j = k
    BY <1>1, <2>1, <2>2, <2>3, <2>4 DEF PendingAt, PendingFor
  <2>5. CASE j # k
    BY <1>4, <2>2, <2>3, <2>5
  <2> QED BY <2>4, <2>5
<1> QED BY <1>5, <1>6, <1>7, <1>8, <1>9 DEF Received

LEMMA PendingKept ==
  ASSUME TypeOK, OwnPrefixes, FlowLifetimes, Waiting, Pending, [Next]_vars
  PROVE  Pending'
<1> SUFFICES ASSUME NEW j \in Keys, NEW g \in Faces, PendingAt(j, g), WaitsAt(j, g), WaitsAt(j, g)'
             PROVE  PendingAt(j, g)'
  BY WaitingKept DEF Pending, Waiting
<1>1. ASSUME NEW f \in Faces, mode' = mode /\ Received(f) PROVE PendingAt(j, g)'
  BY <1>1, PendingAtArrival
<1>2. asked[<<g, j>>] \in Int /\ PitDuration \in Nat
  BY ForwarderAssumption DEF TypeOK
<1>3. ASSUME NEW k \in Keys, onInterestFinalize(k) PROVE PendingAt(j, g)'
  <2>1. /\ asked'[<<g, j>>] = IF j = k THEN 0 ELSE asked[<<g, j>>]
        /\ EntryOf(j)' = IF j = k THEN EmptyEntry ELSE EntryOf(j)
        /\ mode' = mode
    BY <1>3, EndedNow
  <2> QED BY <1>2, <2>1 DEF PendingAt, PendingFor, UnderLltc
<1>4. ASSUME Tick PROVE PendingAt(j, g)'
  <2>1. /\ asked'[<<g, j>>] = IF asked[<<g, j>>] < 0 THEN asked[<<g, j>>] + 1
                              ELSE IF asked[<<g, j>>] > 0 THEN asked[<<g, j>>] - 1 ELSE 0
        /\ Aging(EntryOf(j), EntryOf(j)') \/ (EntryOf(j)' = EmptyEntry /\ EntryOf(j) = EmptyEntry)
        /\ mode' = mode
    BY <1>4, AgedNow
  <2>2. IsEntry(EntryOf(j)) /\ EntryOf(j).timer \in Nat
    BY EntryOfKey DEF IsEntry
  <2>3. UnderLltc(j.name)' => asked'[<<g, j>>] <= PitDuration
    BY <1>2, <2>1 DEF PendingAt, UnderLltc
  <2>4. PendingFor(EntryOf(j)', asked'[<<g, j>>])
    <3>1. CASE Aging(EntryOf(j), EntryOf(j)')
      BY <1>2, <2>1, <2>2, <3>1 DEF PendingAt, PendingFor, Aging
    <3>2. CASE EntryOf(j)' = EmptyEntry
      <4>1. ~hasPendingOutRecords(EmptyEntry)
        BY EmptyEntryFacts DEF hasPendingOutRecords
      <4> QED BY <3>2, <4>1 DEF PendingFor
    <3> QED BY <2>1, <3>1, <3>2
  <2> QED BY <2>3, <2>4 DEF PendingAt
<1>5. ASSUME UNCHANGED vars PROVE PendingAt(j, g)'
  <2>1. pit' = pit /\ asked' = asked /\ mode' = mode
    BY <1>5 DEF vars, ghosts
  <2> QED BY <2>1 DEF PendingAt, EntryOf, UnderLltc
<1> QED BY <1>1, <1>3, <1>4, <1>5, Events

LEMMA NobodyWaitsInitially ==
  ASSUME Init
  PROVE  Waiting /\ Pending
<1>1. DOMAIN pit = {} /\ asked = [p \in Faces \X Keys |-> 0]
  BY InitiallyTyped DEF Init
<1>2. \A k \in Keys, f \in Faces : asked[<<f, k>>] = 0 /\ EntryOf(k) = EmptyEntry
  BY <1>1 DEF EntryOf
<1>3. PitDuration \in Nat
  BY ForwarderAssumption
<1> QED BY <1>2, <1>3, EmptyEntryFacts DEF Waiting, WaitsAt, Waits, Pending, PendingAt, PendingFor

\* Nobody is forgotten: while a face waits and an Interest of the entry is still
\* out, the entry does not end.  The timer is set to the last in-record to expire
\* (onContentStoreMiss), Data for one face ends the entry for all only after all of
\* them got it, and a Capsule gives more time than any Interest asked for
\* (FlowLifetimes: 10 s, in the scenario 100 s, against the 1 s of a consumer's).
THEOREM NobodyForgottenCorrect ==
  OwnPrefixes /\ FlowLifetimes => (Spec => NobodyForgotten)
<1> SUFFICES ASSUME OwnPrefixes, FlowLifetimes PROVE Spec => NobodyForgotten
  OBVIOUS
<1>1. Init => TypeOK /\ Waiting /\ Pending
  BY InitiallyTyped, NobodyWaitsInitially
<1>2. TypeOK /\ Waiting /\ Pending /\ [Next]_vars => TypeOK' /\ Waiting' /\ Pending'
  BY TypesKept, WaitingKept, PendingKept
<1>3. TypeOK /\ Waiting /\ Pending /\ [Next]_vars
        => [\A k \in DOMAIN pit \ DOMAIN pit' :
              hasPendingOutRecords(pit[k]) => \A f \in Faces : asked[<<f, k>>] <= 0]_vars
  <2> SUFFICES ASSUME TypeOK, Pending, [Next]_vars, NEW k \in DOMAIN pit \ DOMAIN pit',
                      hasPendingOutRecords(pit[k]), NEW f \in Faces
               PROVE  asked[<<f, k>>] <= 0
    OBVIOUS
  <2>1. k \in Keys /\ asked[<<f, k>>] \in Int
    BY DEF TypeOK
  <2>2. pit[k].timer = 0
    BY OnlyTimersEnd
  <2>3. PendingFor(pit[k], asked[<<f, k>>])
    BY <2>1 DEF Pending, PendingAt, EntryOf
  <2> QED BY <2>1, <2>2, <2>3 DEF PendingFor
<1> QED BY <1>1, <1>2, <1>3, PTL DEF Spec, NobodyForgotten

LEMMA NothingUnasked ==
  ASSUME TypeOK, OwnPrefixes, LivingInterests, Waiting, [Next]_vars
  PROVE  unasked' = unasked /\ unmet' = unmet
<1>1. ASSUME NEW f \in Faces, Received(f) PROVE unasked' = unasked /\ unmet' = unmet
  <2>1. CASE Looped \/ Unclaimed
    BY <2>1 DEF Looped, Unclaimed
  <2>2. CASE InterestAdmitted(f)
    <3>1. PICK a \in Arrivals : \E v : AdmittedFrom(f, a, v)
      BY <2>2 DEF InterestAdmitted
    <3>2. PICK v : AdmittedFrom(f, a, v)
      BY <3>1
    <3>3. a[2].packet.kind = "Interest" /\ Admitted(f, Tagged(a[2]), v)
      BY <3>2 DEF AdmittedFrom
    <3>4. unasked' = unasked
      BY <3>3, AdmittedWaits
    <3>5. unmet' = unmet
      BY <3>3 DEF Admitted
    <3> QED BY <3>4, <3>5
  <2>3. ASSUME NEW data, NEW k, CapsuleAt(k, data) PROVE unasked' = unasked /\ unmet' = unmet
    BY <2>3 DEF CapsuleAt
  <2>4. ASSUME NEW data \in DataPackets, PlainAt(f, data, PitMatches(data))
        PROVE  unasked' = unasked /\ unmet' = unmet
    <3> DEFINE matches == PitMatches(data)
    <3>1. PlainAt(f, data, matches)
      BY <2>4
    <3> HIDE DEF matches
    <3>2. /\ matches \subseteq DOMAIN pit
          /\ unmet' = unmet \cup {p \in Faces \X Keys :
                            p[2] \in matches /\ asked'[p] > 0 /\ ~OutOfScope(p[1], data.name)}
      BY <3>1 DEF PlainAt
    <3>3. \A g \in Faces, k \in Keys : k \in matches => asked'[<<g, k>>] <= 0 /\ asked'[<<g, k>>] \in Int
      BY <3>1, NobodyWaitsOn, PlainSettled DEF Waiting, Settled
    <3>4. unmet' = unmet
      BY <3>2, <3>3
    <3>5. /\ Reached(sent') = {g \in Waiters(matches, f) : ~OutOfScope(g, data.name)}
          /\ DataTo(sent') = {<<g, data>> : g \in Reached(sent')}
          /\ Settled(asked, sent', matches, {f})
      BY <3>1, PlainSettled, Zenon
    <3>6. unasked' = unasked \cup {s \in DataTo(sent') : /\ ~UnderLltc(s[2].name)
                                                          /\ \A k \in matches : asked[<<s[1], k>>] = 0}
      BY <3>5 DEF Settled
    <3>7. ASSUME NEW s \in DataTo(sent') PROVE \E k \in matches : asked[<<s[1], k>>] # 0
      <4>1. s[1] \in Waiters(matches, f)
        BY <3>5
      <4>2. PICK k \in matches : s[1] \in DOMAIN pit[k].in /\ pit[k].in[s[1]].left > 0
        BY <4>1 DEF Waiters
      <4>3. k \in DOMAIN pit /\ k \in Keys /\ s[1] \in Faces /\ pit[k].in[s[1]].left \in Int
        BY <3>2, <4>1, <4>2 DEF Waiters, TypeOK, IsEntry, InTable
      <4>4. WaitsAt(k, s[1]) /\ EntryOf(k) = pit[k]
        BY <4>3 DEF Waiting, EntryOf
      <4>5. asked[<<s[1], k>>] # 0
        BY <4>2, <4>3, <4>4 DEF WaitsAt, Waits
      <4> QED BY <4>5
    <3>8. unasked' = unasked
      BY <3>6, <3>7
    <3> QED BY <3>4, <3>8
  <2>5. ASSUME NEW k, Nacked(k) PROVE unasked' = unasked /\ unmet' = unmet
    BY <2>5 DEF Nacked
  <2> QED BY <1>1, <2>1, <2>2, <2>3, <2>4, <2>5 DEF Received
<1>2. ASSUME NEW k \in Keys, onInterestFinalize(k) PROVE unasked' = unasked /\ unmet' = unmet
  BY <1>2, TimerFires
<1>3. ASSUME Tick PROVE unasked' = unasked /\ unmet' = unmet
  BY <1>3, TimePasses
<1>4. ASSUME UNCHANGED vars PROVE unasked' = unasked /\ unmet' = unmet
  BY <1>4 DEF vars, ghosts
<1> QED BY <1>1, <1>2, <1>3, <1>4, Events

\* Flow balance: ordinary Data, from the network or the store, goes to faces that
\* wait for it and to all of them, once.  Sending Data takes the in-record
\* (sendData), so that Data that comes twice finds none, and the face the Data
\* came from is left out.
THEOREM FlowBalanceCorrect ==
  OwnPrefixes /\ LivingInterests => (Spec => []FlowBalance)
<1> SUFFICES ASSUME OwnPrefixes, LivingInterests PROVE Spec => []FlowBalance
  OBVIOUS
<1>1. Init => TypeOK /\ Waiting /\ FlowBalance
  BY InitiallyTyped, NobodyWaitsInitially DEF Init, FlowBalance
<1>2. TypeOK /\ Waiting /\ FlowBalance /\ [Next]_vars => TypeOK' /\ Waiting' /\ FlowBalance'
  BY TypesKept, WaitingKept, NothingUnasked DEF FlowBalance
<1> QED BY <1>1, <1>2, PTL DEF Spec
=============================================================================
