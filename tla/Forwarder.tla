------------------------------ MODULE Forwarder ------------------------------
(***************************************************************************)
(* One NFD forwarder with the LLTC extensions: its PIT, its content store, *)
(* its dead nonces, and the best-route strategy for ordinary names and the *)
(* LLTC strategy, without failures, for those under the LLTC prefix.       *)
(*                                                                         *)
(* Handlers run to completion as events of the simulator.  Time is counted *)
(* in ticks: a record or timer is the time left until it expires, and time *)
(* passes only when no timer is due.                                       *)
(***************************************************************************)
EXTENDS LinkService, FiniteSets

CONSTANTS
  Faces,           \* the faces; what is known of each:
  LocalFaces,      \*   those of local applications,
  P2pFaces,        \*   and those that are point-to-point, no multi-access
  fib,             \* the next hops of a name, in order, as a function on Names
  UpFace, DownFace, RspFace, \* the entries of the PP and of a RSP, or NoFace
  LltcPrefix,      \* extensionLltcPrefix
  Modes,           \* a subset of {"plain", "lltc"}: whether that is NULL
  PitDuration,     \* extensionLltcPitDuration
  DnlLifetime,     \* the lifetime of a dead nonce
  Arrivals,        \* the frames that may come: a set of <<face, frame>>
  MaxArrivals      \* bound: how many of them come

Localhost == <<"localhost">>

\* What packets carry; a Nack carries the Interest it answers.
IsInterest(p) ==
  /\ DOMAIN p = {"kind", "name", "canBePrefix", "mustBeFresh", "nonce", "lifetime", "nextHop"}
  /\ p.kind \in {"Interest", "Nack"} /\ p.name \in Names /\ p.lifetime \in Nat

IsData(p) ==
  /\ DOMAIN p = {"kind", "name", "fresh", "noCache", "transient"}
  /\ p.kind = "Data" /\ p.name \in Names /\ p.fresh \in Nat

ASSUME ForwarderAssumption ==
  /\ IsFiniteSet(Faces) /\ NoFace \notin Faces
  /\ LocalFaces \cup P2pFaces \cup LocalFields \subseteq Faces
  /\ {UpFace, DownFace, RspFace} \subseteq Faces \cup {NoFace}
  /\ NameOrder \in Seq(Seq(STRING)) /\ LltcPrefix \in Seq(STRING)
  /\ fib \in [Names -> Seq(Faces)]
  /\ {PitDuration, DnlLifetime, MaxArrivals} \subseteq Nat
  /\ IsFiniteSet(Arrivals)
  /\ \A a \in Arrivals : a[1] \in Faces /\ (IsInterest(a[2].packet) \/ IsData(a[2].packet))

\* What identifies a PIT entry: the name and the selectors of its Interests.
Selectors(interest) == [name |-> interest.name, canBePrefix |-> interest.canBePrefix,
                        mustBeFresh |-> interest.mustBeFresh]

Keys == {Selectors(a[2].packet) : a \in {b \in Arrivals : b[2].packet.kind # "Data"}}

VARIABLES
  mode,      \* whether the LLTC prefix is set; never changes
  pit,       \* the entries, as a function on the keys that have one
  cs,        \* the content store
  dnl,       \* the dead nonce list
  arrived,   \* how many frames have come
  sent,      \* what the last step sent: a set of <<face, frame>>
  \* History:
  asked,     \* for how long a face waits for Data for a key since its last
             \*   Interest; negative if it has sent matching Data itself
  unasked,   \* who got Data without waiting, and who waited and did not get it
  unmet,     \*   when Data came that matched
  dead,      \* the nonces sent by entries that ended without Data
  flow       \* for how long the entry of a flow has to stay

ghosts == <<asked, unasked, unmet, dead, flow>>
vars == <<mode, pit, cs, dnl, arrived, sent, ghosts>>

Init ==
  /\ mode \in Modes
  /\ pit = <<>>
  /\ cs = <<>>
  /\ dnl = {}
  /\ arrived = 0
  /\ sent = {}
  /\ asked = [p \in Faces \X Keys |-> 0]
  /\ unasked = {}
  /\ unmet = {}
  /\ dead = {}
  /\ flow = [k \in Keys |-> 0]

UnderLltc(name) == mode = "lltc" /\ IsPrefix(LltcPrefix, name)

IsLocalhost(name) == IsPrefix(Localhost, name)

Local(f) == f \in LocalFaces

EmptyEntry == [in |-> <<>>, out |-> <<>>, timer |-> 0, satisfied |-> FALSE, fresh |-> 0]

\* The entry a handler works on, and what it has sent so far.
Work(entry, out) == [e |-> entry, out |-> out]

\* Handlers loop over sets of faces, so what they do is stated of the set.
Send(w, fs, packet) == [w EXCEPT !.out = @ \cup {<<f, sendNetPacket(f, packet)>> : f \in fs}]

setExpiryTimer(w, time) == [w EXCEPT !.e.timer = time]

With(records, fs, record) ==
  [f \in DOMAIN records \cup fs |-> IF f \in fs THEN record ELSE records[f]]

Without(records, fs) == Restrict(records, DOMAIN records \ fs)

MaxLeft(records) == Max({records[f].left : f \in DOMAIN records})

hasPendingOutRecords(e) == \E f \in DOMAIN e.out : e.out[f].left >= 0 /\ ~e.out[f].nacked

-----------------------------------------------------------------------------
(* Interests. *)

onOutgoingInterest(w, fs, interest) ==
  LET record == [nonce |-> interest.nonce, left |-> interest.lifetime, nacked |-> FALSE]
  IN Send([w EXCEPT !.e.out = With(@, fs, record)], fs, interest)

rejectPendingInterest(w) == setExpiryTimer(w, 0)

\* The helpers of NFD the best-route strategy chooses next hops with.
wouldViolateScope(name, out) == ~Local(out) /\ IsLocalhost(name)

canForwardToLegacy(e, f) ==
  /\ f \in DOMAIN e.out => e.out[f].left < 0
  /\ \E g \in DOMAIN e.in \ {f} : e.in[g].left >= 0

bestRoute(w, interest) ==
  LET hops == fib[interest.name]
      eligible == {i \in DOMAIN hops : /\ ~wouldViolateScope(interest.name, hops[i])
                                       /\ canForwardToLegacy(w.e, hops[i])}
  IN IF hasPendingOutRecords(w.e) THEN w
     ELSE IF eligible # {} THEN onOutgoingInterest(w, {hops[Min(eligible)]}, interest)
     ELSE rejectPendingInterest(w)

lltc(w, interest) ==
  IF hasPendingOutRecords(w.e) THEN w
  ELSE IF UpFace # NoFace THEN onOutgoingInterest(w, {UpFace}, interest)
  ELSE IF fib[interest.name] = <<>> THEN rejectPendingInterest(w)
  ELSE onOutgoingInterest(w, ToSet(fib[interest.name]), interest)

afterReceiveInterest(w, interest) ==
  IF UnderLltc(interest.name) THEN lltc(w, interest) ELSE bestRoute(w, interest)

FaultyMiss(w, f, interest) ==
  LET record == [nonce |-> interest.nonce, left |-> interest.lifetime]
      recorded == [w EXCEPT !.e.in = With(@, {f}, record)]
      timed == setExpiryTimer(recorded, interest.lifetime)
  IN IF interest.nextHop # NoFace
     THEN IF interest.nextHop \in Faces THEN onOutgoingInterest(timed, {interest.nextHop}, interest) ELSE timed
     ELSE afterReceiveInterest(timed, interest)

\* The last in-record to expire sets the timer, not the one that came last.  An
\* application may choose the next hop itself.
onContentStoreMiss(w, f, interest) ==
  LET record == [nonce |-> interest.nonce, left |-> interest.lifetime]
      recorded == [w EXCEPT !.e.in = With(@, {f}, record)]
      timed == setExpiryTimer(recorded, MaxLeft(recorded.e.in))
  IN IF interest.nextHop # NoFace
     THEN IF interest.nextHop \in Faces THEN onOutgoingInterest(timed, {interest.nextHop}, interest) ELSE timed
     ELSE afterReceiveInterest(timed, interest)

-----------------------------------------------------------------------------
(* Data. *)

\* Data of /localhost does not leave by a face that is not local.
onOutgoingData(w, fs, data) == Send(w, {f \in fs : ~wouldViolateScope(data.name, f)}, data)

\* Data of a flow leaves the in-record, for the Data that follows.
FaultySendData(w, fs, data) == onOutgoingData(w, fs, data)

sendData(w, fs, data) ==
  onOutgoingData(IF UnderLltc(data.name) THEN w ELSE [w EXCEPT !.e.in = Without(@, fs)], fs, data)

sendDataToAll(w, ingress, data) ==
  sendData(w, {f \in DOMAIN w.e.in \ {ingress} : w.e.in[f].left > 0}, data)

satisfied(w, data) == [w EXCEPT !.e.satisfied = TRUE, !.e.fresh = data.fresh]

\* The nonces an entry leaves in the list, of the out-records of some faces.
FaultyDeadNonces(k, e, faces) == {}

insertDeadNonceList(k, e, faces) ==
  IF e.satisfied /\ ~(k.mustBeFresh /\ e.fresh < DnlLifetime) THEN {}
  ELSE {<<k.name, e.out[f].nonce>> : f \in faces \cap DOMAIN e.out}

onContentStoreHit(w, f, data) == sendData(setExpiryTimer(satisfied(w, data), 0), {f}, data)

\* LltcStrategy: a Capsule takes the entry of the PP, or leaves by the face the
\* Interest came from; a CapsuleOnRSP, with the Transient tag, only that of its path.
CapsuleOnRsp(w, data) ==
  IF RspFace = NoFace THEN w ELSE onOutgoingData(w, {RspFace}, [data EXCEPT !.transient = 1])

deliverCapsule(w, data) ==
  LET capsule == [data EXCEPT !.transient = 0]
  IN IF DownFace # NoFace THEN sendData(w, {DownFace}, capsule)
     ELSE IF DOMAIN w.e.in # {} THEN sendData(w, {CHOOSE f \in DOMAIN w.e.in : TRUE}, capsule)
     ELSE w

\* Each Capsule gives the entry of its flow the whole duration again.
FaultyCapsuleTimer == 0

capsuleTimer == PitDuration

\* Data that matches one entry: its strategy sends it, the entry ends now.
OneMatch(w, ingress, data) ==
  LET done == satisfied(sendDataToAll(setExpiryTimer(w, 0), ingress, data), data)
  IN [done EXCEPT !.e.out = Without(@, {ingress})]

\* Data that matches several: each ends, and each face gets the Data once.
Ended(e, ingress, data) ==
  [satisfied(Work(e, {}), data).e EXCEPT !.timer = 0, !.in = <<>>, !.out = Without(@, {ingress})]

SeveralMatches(matches, ingress, data) ==
  LET downstreams == UNION {{f \in DOMAIN pit[k].in : pit[k].in[f].left > 0} : k \in matches}
  IN onOutgoingData(Work(EmptyEntry, {}), downstreams \ {ingress}, data).out

PitMatches(data) == {k \in DOMAIN pit : matchesData(k, data)}

\* The entry of the longest name.
Foremost(matches) == CHOOSE k \in matches : \A j \in matches : Len(j.name) <= Len(k.name)

-----------------------------------------------------------------------------
(* The history: who waits, and who got what. *)

DataTo(out) == {<<s[1], s[2].packet>> : s \in {t \in out : t[2].packet.kind = "Data"}}

\* Data that was sent answers the Interests of its face for some keys (for one
\* alone if it was cached); unless it is of a flow, there must be one.  The face
\* the Data came from, if any, has it anyway.
Account(waiting, out, keys, ingress) ==
  LET reached == {s[1] : s \in DataTo(out)}
  IN /\ asked' = [p \in Faces \X Keys |->
                     IF p[2] \notin keys THEN waiting[p]
                     ELSE IF p[1] \in reached THEN 0
                     ELSE IF p[1] \in ingress /\ waiting[p] > 0 THEN -waiting[p]
                     ELSE waiting[p]]
     /\ unasked' = unasked \cup
          {s \in DataTo(out) :
             /\ ~UnderLltc(s[2].name)
             /\ \A k \in keys : waiting[<<s[1], k>>] = 0}

-----------------------------------------------------------------------------
(* The events. *)

OutOfScope(f, name) == ~Local(f) /\ IsLocalhost(name)

\* A nonce the entry knows; on a point-to-point face not that of the last
\* Interest from there, which may come again.
findDuplicateNonce(e, f, nonce) ==
  LET same(records, g) == g \in DOMAIN records /\ records[g].nonce = nonce
  IN /\ \E g \in Faces : same(e.in, g) \/ same(e.out, g)
     /\ ~(f \in P2pFaces /\ same(e.in, f))

\* A looped Interest is answered with a Nack on a point-to-point face only.
onInterestLoop(f, interest) ==
  /\ sent' = IF f \in P2pFaces THEN {<<f, sendNetPacket(f, [interest EXCEPT !.kind = "Nack"])>>} ELSE {}
  /\ UNCHANGED <<pit, cs, dnl, ghosts>>

onIncomingInterest(f, interest) ==
  LET k == Selectors(interest)
      e == IF k \in DOMAIN pit THEN pit[k] ELSE EmptyEntry
      hit == IF DOMAIN e.in = {} THEN findInterest(cs, interest) ELSE 0
      w == IF hit # 0 THEN onContentStoreHit(Work(e, {}), f, cs[hit].data)
           ELSE onContentStoreMiss(Work(e, {}), f, interest)
  IN /\ interest.kind = "Interest"
     /\ ~OutOfScope(f, interest.name)
     /\ IF <<k.name, interest.nonce>> \in dnl \/ findDuplicateNonce(e, f, interest.nonce)
        THEN onInterestLoop(f, interest)
        ELSE /\ pit' = With(pit, {k}, w.e)
             /\ cs' = IF hit # 0 THEN beforeUse(cs, hit) ELSE cs
             /\ sent' = w.out
             /\ Account([asked EXCEPT ![<<f, k>>] = interest.lifetime], w.out, {k}, {})
             /\ flow' = [flow EXCEPT ![k] = 0]
             /\ UNCHANGED <<dnl, unmet, dead>>

\* Data of a flow: cached unless it is transient, and its entry stays.
onLltcData(f, data, matches) ==
  LET k == Foremost(matches)
      w == satisfied(IF data.transient = 0 THEN deliverCapsule(Work(pit[k], {}), data)
                                           ELSE CapsuleOnRsp(Work(pit[k], {}), data), data)
  IN IF matches = {}
     THEN /\ sent' = IF data.transient = 0 THEN {} ELSE CapsuleOnRsp(Work(EmptyEntry, {}), data).out
          /\ UNCHANGED <<pit, cs, dnl, ghosts>>
     ELSE /\ cs' = IF data.transient = 0 THEN insert(cs, data, FALSE) ELSE cs
          /\ pit' = [pit EXCEPT ![k] = setExpiryTimer(w, capsuleTimer).e]
          /\ sent' = w.out
          /\ flow' = [flow EXCEPT ![k] = PitDuration]
          /\ UNCHANGED <<dnl, asked, unasked, unmet, dead>>

\* Ordinary Data: it is cached only if no prefix is set.  Unsolicited Data is
\* dropped by the default policy.
onPlainData(f, data, matches) ==
  LET one == OneMatch(Work(pit[Foremost(matches)], {}), f, data)
      out == IF Cardinality(matches) = 1 THEN one.out ELSE SeveralMatches(matches, f, data)
      after(k) == IF Cardinality(matches) = 1 THEN one.e ELSE Ended(pit[k], f, data)
      met == {p \in Faces \X Keys : p[2] \in matches}
  IN /\ matches # {}
     /\ cs' = IF mode = "plain" THEN insert(cs, data, FALSE) ELSE cs
     /\ pit' = [k \in DOMAIN pit |-> IF k \in matches THEN after(k) ELSE pit[k]]
     /\ dnl' = dnl \cup UNION {insertDeadNonceList(k, satisfied(Work(pit[k], {}), data).e, {f}) : k \in matches}
     /\ sent' = out
     /\ Account(asked, out, matches, {f})
     /\ unmet' = unmet \cup {p \in met : asked'[p] > 0 /\ ~OutOfScope(p[1], data.name)}
     /\ UNCHANGED <<dead, flow>>

onIncomingData(f, data) ==
  /\ data.kind = "Data"
  /\ ~OutOfScope(f, data.name)
  /\ IF UnderLltc(data.name) THEN onLltcData(f, data, PitMatches(data))
                             ELSE onPlainData(f, data, PitMatches(data))

onIncomingNack(f, nack) ==
  LET k == Selectors(nack)
      nacked == [pit[k] EXCEPT !.out[f].nacked = TRUE]
  IN /\ nack.kind = "Nack"
     /\ f \in P2pFaces
     /\ k \in DOMAIN pit
     /\ f \in DOMAIN pit[k].out
     /\ pit[k].out[f].nonce = nack.nonce
     /\ IF hasPendingOutRecords(nacked)
        THEN /\ pit' = [pit EXCEPT ![k] = nacked]
             /\ UNCHANGED flow
        ELSE /\ pit' = [pit EXCEPT ![k] = [nacked EXCEPT !.timer = 0]]
             /\ flow' = [flow EXCEPT ![k] = 0]
     /\ sent' = {}
     /\ UNCHANGED <<cs, dnl, asked, unasked, unmet, dead>>

Receive(f) ==
  \E a \in Arrivals :
    /\ a[1] = f
    /\ arrived < MaxArrivals
    /\ doReceivePacket(f, a[2])
    /\ \/ onIncomingInterest(f, Tagged(a[2]))
       \/ onIncomingData(f, Tagged(a[2]))
       \/ onIncomingNack(f, Tagged(a[2]))
    /\ arrived' = arrived + 1
    /\ UNCHANGED mode

\* The timer of an entry fires.
onInterestFinalize(k) ==
  /\ k \in DOMAIN pit
  /\ pit[k].timer = 0
  /\ dnl' = dnl \cup insertDeadNonceList(k, pit[k], DOMAIN pit[k].out)
  /\ pit' = Without(pit, {k})
  /\ sent' = {}
  /\ asked' = [p \in Faces \X Keys |-> IF p[2] = k THEN 0 ELSE asked[p]]
  /\ dead' = IF pit[k].satisfied THEN dead
             ELSE dead \cup {<<k.name, pit[k].out[f].nonce>> : f \in DOMAIN pit[k].out}
  /\ UNCHANGED <<mode, cs, arrived, unasked, unmet, flow>>

Older(records) == [f \in DOMAIN records |-> [records[f] EXCEPT !.left = Elapse(@)]]

Tick ==
  /\ DOMAIN pit # {}
  /\ \A k \in DOMAIN pit : pit[k].timer > 0
  /\ pit' = [k \in DOMAIN pit |-> [pit[k] EXCEPT !.in = Older(@), !.out = Older(@), !.timer = @ - 1]]
  /\ cs' = Aged(cs)
  /\ asked' = [p \in Faces \X Keys |-> IF asked[p] < 0 THEN asked[p] + 1 ELSE Max({0, asked[p] - 1})]
  /\ flow' = [k \in Keys |-> Max({0, flow[k] - 1})]
  /\ sent' = {}
  /\ UNCHANGED <<mode, dnl, arrived, unasked, unmet, dead>>

Next ==
  \/ \E f \in Faces : Receive(f)
  \/ \E k \in Keys : onInterestFinalize(k)
  \/ Tick

Spec == Init /\ [][Next]_vars

-----------------------------------------------------------------------------
(* Properties. *)

\* Flow balance: ordinary Data goes to faces that wait for it and to all of
\* them, once, whether it matches one entry or several, was cached, comes
\* twice, or comes between the end of an entry's work and its timer.
FlowBalance == unasked = {} /\ unmet = {}

\* Nobody is forgotten: no entry ends while a face still waits and an Interest
\* is still out, whoever renewed the timer for how short a time.
NobodyForgotten ==
  [][\A k \in DOMAIN pit \ DOMAIN pit' :
       hasPendingOutRecords(pit[k]) => \A f \in Faces : asked[<<f, k>>] <= 0]_vars

\* A nonce that an entry sent and that was never satisfied is not sent again
\* after the entry's end, by any entry of the name: Interests do not circle.
NoCircling ==
  [][\A s \in sent' :
       s[2].packet.kind = "Interest" => <<s[2].packet.name, s[2].packet.nonce>> \notin dead]_vars

\* An Interest leaves by a next hop of its name, and one of /localhost by a
\* local face, unless a local application that still waits chose the face.
InterestsKeepScope ==
  \A s \in {t \in sent : t[2].packet.kind = "Interest"} :
    LET interest == s[2].packet
        chosen == interest.nextHop = s[1]
                    /\ \E f \in LocalFields : asked[<<f, Selectors(interest)>>] > 0
    IN \/ chosen
       \/ /\ s[1] \in ToSet(fib[interest.name]) \cup {UpFace}
          /\ IsLocalhost(interest.name) => Local(s[1])

\* The entry of a flow stays for the whole duration after each Capsule, unless
\* an Interest for the flow set its timer anew or the last Nack set it to now.
FlowStays ==
  [][\A k \in Keys : flow[k] > 0 => k \in DOMAIN pit']_vars
=============================================================================
