-------------------------- MODULE StreamingProofs --------------------------
(***************************************************************************)
(* Proofs that the consumer's application gets nothing twice and that no   *)
(* null pointer is read, on chains of any length, for any numbers of Data, *)
(* losses and retransmissions.                                             *)
(*                                                                         *)
(* Nothing twice: the node of the consumer hands on what is about an id it *)
(* has not seen, and has no timers that would send Data again (LastHop).   *)
(*                                                                         *)
(* No null pointer: what a node of R2T has seen and its neighbour has not, *)
(* the node waits for, and a CACK on its way is the only one of an id that *)
(* the node it goes to still waits for (Hop).  Data that is waited for is  *)
(* in the content store (OwnState), as a store never has two entries of    *)
(* one name and so has room for all.                                       *)
(***************************************************************************)
EXTENDS Streaming, FiniteSetTheorems, SequenceTheorems, WellFoundedInduction, TLAPS

NodeFields == {"pit", "cs", "transDataIDs", "csynStates", "retranStates", "recentDataID", "uids"}

Shape(w) == /\ DOMAIN w = {"s", "down", "up", "app", "null"}
            /\ DOMAIN w.s = NodeFields

\* Nothing was handed to the application, no id was seen, nothing null read.
Quiet(v, w) == /\ Shape(w)
               /\ w.app = v.app
               /\ w.null = v.null
               /\ w.s.transDataIDs = v.s.transDataIDs
               /\ w.s.csynStates = v.s.csynStates

\* Nothing was handed to the application.
Kept(v, w) == Shape(w) /\ w.app = v.app

LastHop ==
  /\ DOMAIN node = Nodes
  /\ \A n \in Nodes : DOMAIN node[n] = NodeFields
  /\ DOMAIN node[N].csynStates = {}
  /\ \E S : got \in Seq(S)
  /\ \A i \in DOMAIN got : got[i].dataID \in node[N].transDataIDs
  /\ \A i, j \in DOMAIN got : got[i].dataID = got[j].dataID => i = j

\* What the consumer's node has handed on is about an id it had not seen.
Handing(w) ==
  /\ DOMAIN w.s.csynStates = {}
  /\ \/ w.app = <<>> /\ w.s.transDataIDs = node[N].transDataIDs
     \/ \E p : /\ w.app = <<p>>
               /\ p.dataID \notin node[N].transDataIDs
               /\ w.s.transDataIDs = node[N].transDataIDs \cup {p.dataID}

Handled(n, w) == /\ Shape(w)
                 /\ n # N => w.app = <<>>
                 /\ n = N => Handing(w)

-----------------------------------------------------------------------------
(* The steps of handlers. *)

LEMMA CachedQuiet == \A w, p : Shape(w) => Quiet(w, Cached(w, p))
  BY DEF Shape, Quiet, Cached, NodeFields

LEMMA UsedQuiet == \A w, id : Shape(w) => Quiet(w, Used(w, id))
  BY DEF Shape, Quiet, Used, NodeFields

LEMMA SendUpQuiet == \A w, n, p : Shape(w) => Quiet(w, SendUp(w, n, p))
  BY DEF Shape, Quiet, SendUp, NodeFields

LEMMA SendDownQuiet == \A w, n, p : Shape(w) /\ HasEntry(n, 1) => Quiet(w, SendDown(w, n, p))
  BY DEF Shape, Quiet, SendDown, NodeFields

LEMMA SendDownLast ==
  ASSUME NEW w, NEW n, NEW p, Shape(w), ~HasEntry(n, 1)
  PROVE  LET v == SendDown(w, n, p) IN
         /\ Shape(v)
         /\ v.app = Append(w.app, p)
         /\ v.s = w.s
  BY DEF Shape, SendDown, NodeFields

LEMMA MarkSeen ==
  ASSUME NEW w, NEW id, Shape(w)
  PROVE  LET v == Mark(w, id) IN
         /\ Kept(w, v)
         /\ v.s.transDataIDs = w.s.transDataIDs \cup {id}
         /\ v.s.csynStates = w.s.csynStates
  BY DEF Shape, Kept, Mark, NodeFields

LEMMA EndRequestsQuiet == \A w, id : Shape(w) => \A v \in EndRequests(w, id) : Quiet(w, v)
<1> SUFFICES ASSUME NEW w, NEW id, Shape(w), NEW v \in EndRequests(w, id)
             PROVE  Quiet(w, v)
  OBVIOUS
<1>1. \A r : Quiet(w, [w EXCEPT !.s.retranStates = r])
  BY DEF Shape, Quiet, NodeFields
<1>2. Quiet(w, w)
  BY DEF Quiet
<1>3. v = w \/ \E u : v = [w EXCEPT !.s.retranStates = Removed(w.s.retranStates, {u})]
  BY DEF EndRequests
<1> QED
  BY <1>1, <1>2, <1>3

LEMMA RequestsQuiet == \A w, n, first, gap, id : Shape(w) => Quiet(w, Requests(w, n, first, gap, id))
<1> SUFFICES ASSUME NEW w, NEW n, NEW first, NEW gap, NEW id, Shape(w)
             PROVE  Quiet(w, Requests(w, n, first, gap, id))
  OBVIOUS
<1> DEFINE number(i) == Uid(n, w.s.uids + i)
           state(i) == [dataID |-> IF i < gap THEN first + i ELSE id + 1,
                        asks |-> id, times |-> 1, set |-> TRUE]
           states == [u \in {number(i) : i \in 0 .. gap} |->
                        state(CHOOSE i \in 0 .. gap : number(i) = u)]
           rrs == [i \in 1 .. gap |-> constructRR(number(i - 1), first + i - 1)]
           r == states @@ w.s.retranStates
           u == IF HasEntry(n, 0) THEN w.up \o rrs ELSE w.up
           i == w.s.uids + gap + 1
<1>1. \A x, y, z, t : Quiet(w, [w EXCEPT !.s.retranStates = x, !.s.uids = y, !.s.recentDataID = z, !.up = t])
  <2> SUFFICES ASSUME NEW x, NEW y, NEW z, NEW t
               PROVE  Quiet(w, [w EXCEPT !.s.retranStates = x, !.s.uids = y, !.s.recentDataID = z, !.up = t])
    OBVIOUS
  <2> DEFINE w1 == [w EXCEPT !.s.retranStates = x]
             w2 == [w1 EXCEPT !.s.uids = y]
             w3 == [w2 EXCEPT !.s.recentDataID = z]
             w4 == [w3 EXCEPT !.up = t]
  <2>1. Quiet(w, w1)
    BY DEF Shape, Quiet, NodeFields
  <2> HIDE DEF w1
  <2>2. Quiet(w1, w2)
    BY <2>1 DEF Shape, Quiet, NodeFields
  <2> HIDE DEF w2
  <2>3. Quiet(w2, w3)
    BY <2>2 DEF Shape, Quiet, NodeFields
  <2> HIDE DEF w3
  <2>4. Quiet(w3, w4)
    BY <2>3 DEF Shape, Quiet, NodeFields
  <2> HIDE DEF w4
  <2>5. Quiet(w, w4)
    BY <2>1, <2>2, <2>3, <2>4 DEF Quiet
  <2> QED
    BY <2>5, Zenon DEF w4, w3, w2, w1
<1>2. Requests(w, n, first, gap, id)
        = [w EXCEPT !.s.retranStates = r, !.s.uids = i, !.s.recentDataID = id, !.up = u]
  BY Zenon DEF Requests
<1> HIDE DEF number, state, states, rrs, r, u, i
<1>3. Quiet(w, [w EXCEPT !.s.retranStates = r, !.s.uids = i, !.s.recentDataID = id, !.up = u])
  BY <1>1, Zenon
<1> QED
  BY <1>2, <1>3, Zenon

LEMMA WaitsKept == \A w, n, id : Shape(w) => Kept(w, Waits(w, n, id))
  BY DEF Shape, Kept, Waits, NodeFields

-----------------------------------------------------------------------------
(* The handlers, at a node before the last: nothing is handed on. *)

LEMMA QuietKept == \A v, w : Quiet(v, w) => Kept(v, w)
  BY DEF Quiet, Kept

LEMMA KeptSteps ==
  ASSUME NEW n, HasEntry(n, 1), NEW w, Shape(w)
  PROVE  /\ \A p : Kept(w, SendDown(w, n, p))
         /\ \A p : Kept(w, SendUp(w, n, p))
         /\ \A id : Kept(w, Mark(w, id))
         /\ \A id : Kept(w, Waits(w, n, id))
         /\ \A first, gap, id : Kept(w, Requests(w, n, first, gap, id))
         /\ \A id : \A v \in EndRequests(w, id) : Kept(w, v)
         /\ \A id : Kept(w, Used(w, id))
  BY SendDownQuiet, SendUpQuiet, MarkSeen, WaitsKept, RequestsQuiet, EndRequestsQuiet, UsedQuiet, QuietKept

LEMMA R2tKept ==
  ASSUME NEW n, HasEntry(n, 1), NEW w, Shape(w), NEW p
  PROVE  Kept(w, r2t(w, n, p))
<1>1. Kept(w, w)
  BY DEF Kept
<1>2. Kept(w, r2tData(w, n, p.dataID))
  <2> DEFINE id == p.dataID
             w1 == SendDown(w, n, constructData(id))
             w2 == Waits(w1, n, id)
             w3 == Mark(w2, id)
             w4 == SendUp(w3, n, constructCACK(id))
  <2>1. Kept(w, w1)
    BY KeptSteps
  <2>2. Kept(w1, w2)
    BY <2>1, KeptSteps DEF Kept
  <2>3. Kept(w2, w3)
    BY <2>2, KeptSteps DEF Kept
  <2>4. Kept(w3, w4)
    BY <2>3, KeptSteps DEF Kept
  <2>5. Kept(w, w4)
    BY <2>1, <2>2, <2>3, <2>4 DEF Kept
  <2>6. r2tData(w, n, p.dataID) = IF Seen(w, id) THEN w ELSE w4
    BY Zenon DEF r2tData
  <2> HIDE DEF w4
  <2> QED
    BY <1>1, <2>5, <2>6
<1>3. Kept(w, r2tCACK(w, p.dataID))
  BY DEF r2tCACK, Kept, Shape, NodeFields
<1> QED
  BY <1>1, <1>2, <1>3 DEF r2t

LEMMA SdatpKept ==
  ASSUME NEW n, HasEntry(n, 1), NEW w, Shape(w), NEW p, NEW v \in sdatp(w, n, p)
  PROVE  Kept(w, v)
<1>1. Kept(w, w)
  BY DEF Kept
<1>2. ASSUME v \in sdatpData(w, n, p.dataID) PROVE Kept(w, v)
  <2>1. CASE Seen(w, p.dataID)
    BY <1>1, <1>2, <2>1 DEF sdatpData
  <2>2. CASE ~Seen(w, p.dataID)
    <3> DEFINE sent(x) == Mark(SendDown(x, n, constructData(p.dataID)), p.dataID)
    <3>1. PICK x \in EndRequests(w, p.dataID) : v = noticeGap(sent(x), n, p.dataID)
      BY <1>2, <2>2 DEF sdatpData
    <3>2. Kept(w, x)
      BY <3>1, KeptSteps
    <3>3. Kept(x, SendDown(x, n, constructData(p.dataID)))
      BY <3>2, KeptSteps DEF Kept
    <3>4. Kept(SendDown(x, n, constructData(p.dataID)), sent(x))
      BY <3>3, KeptSteps DEF Kept
    <3>5. \E first, gap : v = Requests(sent(x), n, first, gap, p.dataID)
      BY <3>1 DEF noticeGap
    <3> HIDE DEF sent
    <3>6. Kept(sent(x), v)
      BY <3>4, <3>5, KeptSteps DEF Kept
    <3> QED
      BY <3>2, <3>3, <3>4, <3>6 DEF Kept
  <2> QED
    BY <2>1, <2>2
<1>3. ASSUME v = sdatpRD(w, n, p) PROVE Kept(w, v)
  <2> DEFINE ended == [w EXCEPT !.s.retranStates = Removed(@, {p.number})]
             marked == Mark(ended, p.dataID)
  <2>1. Kept(w, ended)
    BY DEF Kept, Shape, NodeFields
  <2>2. v = ended \/ \E d : v = SendDown(marked, n, d)
    BY <1>3, Zenon DEF sdatpRD
  <2> HIDE DEF ended
  <2>3. Kept(ended, marked)
    BY <2>1, KeptSteps DEF Kept
  <2> HIDE DEF marked
  <2>4. \A d : Kept(marked, SendDown(marked, n, d))
    BY <2>3, KeptSteps DEF Kept
  <2> QED
    BY <2>1, <2>2, <2>3, <2>4 DEF Kept
<1>4. ASSUME v = sdatpRR(w, n, p) PROVE Kept(w, v)
  <2>1. v = w \/ v = Used(w, p.dataID) \/ \E d : v = SendDown(Used(w, p.dataID), n, d)
    BY <1>4, Zenon DEF sdatpRR
  <2>2. Kept(w, Used(w, p.dataID))
    BY KeptSteps
  <2>3. \A d : Kept(Used(w, p.dataID), SendDown(Used(w, p.dataID), n, d))
    BY <2>2, KeptSteps DEF Kept
  <2> QED
    BY <1>1, <2>1, <2>2, <2>3 DEF Kept
<1> QED
  BY <1>1, <1>2, <1>3, <1>4 DEF sdatp

-----------------------------------------------------------------------------
(* The handlers at the last node. *)

\* What is sent on from w, where nothing was handed on yet, about an id not seen.
Fresh(w) == /\ Shape(w)
            /\ w.app = <<>>
            /\ w.s.transDataIDs = node[N].transDataIDs
            /\ DOMAIN w.s.csynStates = {}

LEMMA FreshSteps ==
  ASSUME NEW w, Fresh(w)
  PROVE  /\ Handing(w)
         /\ \A p : Fresh(SendUp(w, N, p))
         /\ \A id : Fresh(Used(w, id))
         /\ \A id : \A v \in EndRequests(w, id) : Fresh(v)
         /\ \A v : Quiet(w, v) => Fresh(v)
<1>1. \A v : Quiet(w, v) => Fresh(v)
  BY DEF Fresh, Quiet
<1>2. Handing(w)
  BY DEF Fresh, Handing
<1> QED
  BY <1>1, <1>2, SendUpQuiet, UsedQuiet, EndRequestsQuiet DEF Fresh

\* To hand on what is about an id that was not seen, and mark the id.
LEMMA HandOn ==
  ASSUME NEW w, Fresh(w), NEW p, ~Seen(w, p.dataID), ~HasEntry(N, 1)
  PROVE  /\ Shape(Mark(SendDown(w, N, p), p.dataID))
         /\ Handing(Mark(SendDown(w, N, p), p.dataID))
         /\ Shape(SendDown(Mark(w, p.dataID), N, p))
         /\ Handing(SendDown(Mark(w, p.dataID), N, p))
<1>1. /\ Shape(w)
      /\ w.app = <<>>
      /\ w.s.transDataIDs = node[N].transDataIDs
      /\ DOMAIN w.s.csynStates = {}
      /\ p.dataID \notin node[N].transDataIDs
  BY DEF Fresh, Seen
<1>2. Append(w.app, p) = <<p>>
  BY <1>1
<1> DEFINE a == SendDown(w, N, p)
           b == Mark(a, p.dataID)
           c == Mark(w, p.dataID)
           d == SendDown(c, N, p)
<1>3. Shape(a) /\ a.app = <<p>> /\ a.s = w.s
  BY <1>1, <1>2, SendDownLast
<1>4. Shape(c) /\ c.app = <<>> /\ c.s.transDataIDs = w.s.transDataIDs \cup {p.dataID} /\ c.s.csynStates = w.s.csynStates
  BY <1>1, MarkSeen DEF Kept
<1> HIDE DEF a, c
<1>5. Shape(b) /\ b.app = <<p>> /\ b.s.transDataIDs = w.s.transDataIDs \cup {p.dataID} /\ b.s.csynStates = w.s.csynStates
  BY <1>3, MarkSeen DEF Kept
<1>6. Shape(d) /\ d.app = <<p>> /\ d.s = c.s
  BY <1>1, <1>2, <1>4, SendDownLast
<1> HIDE DEF b, d
<1>7. Shape(b) /\ Handing(b) /\ Shape(d) /\ Handing(d)
  BY <1>1, <1>4, <1>5, <1>6 DEF Handing
<1> QED
  BY <1>7, Zenon DEF a, b, c, d

LEMMA R2tLast ==
  ASSUME NEW w, Fresh(w), ~HasEntry(N, 1), NEW p
  PROVE  LET v == r2t(w, N, p) IN Shape(v) /\ Handing(v)
<1>1. Shape(w) /\ Handing(w)
  BY FreshSteps DEF Fresh
<1>2. LET v == r2tData(w, N, p.dataID) IN Shape(v) /\ Handing(v)
  <2> DEFINE d == constructData(p.dataID)
             m == Mark(SendDown(w, N, d), p.dataID)
             u == SendUp(m, N, constructCACK(p.dataID))
  <2>1. d.dataID = p.dataID
    BY DEF constructData, Packet
  <2>2. r2tData(w, N, p.dataID) = IF Seen(w, p.dataID) THEN w ELSE u
    BY Zenon DEF r2tData, Waits
  <2>3. ~Seen(w, p.dataID) => Shape(m) /\ Handing(m)
    <3> HIDE DEF d
    <3> QED
      BY <2>1, HandOn
  <2>4. Shape(m) => Quiet(m, u)
    <3> HIDE DEF m
    <3> QED
      BY SendUpQuiet
  <2> HIDE DEF m, u
  <2>5. ~Seen(w, p.dataID) => Shape(u) /\ Handing(u)
    BY <2>3, <2>4 DEF Quiet, Handing
  <2> QED
    BY <1>1, <2>2, <2>5
<1>3. LET v == r2tCACK(w, p.dataID) IN Shape(v) /\ Handing(v)
  <2> DEFINE v == r2tCACK(w, p.dataID)
  <2>1. /\ Shape(v)
        /\ v.app = w.app
        /\ v.s.transDataIDs = w.s.transDataIDs
        /\ v.s.csynStates = Removed(w.s.csynStates, {p.dataID})
    BY DEF r2tCACK, Fresh, Shape, NodeFields
  <2>2. DOMAIN v.s.csynStates = {}
    BY <2>1 DEF Removed, Restrict, Fresh
  <2> QED
    BY <2>1, <2>2 DEF Fresh, Handing
<1> QED
  BY <1>1, <1>2, <1>3 DEF r2t

LEMMA SdatpLast ==
  ASSUME NEW w, Fresh(w), ~HasEntry(N, 1), NEW p, NEW v \in sdatp(w, N, p)
  PROVE  Shape(v) /\ Handing(v)
<1>1. Shape(w) /\ Handing(w)
  BY FreshSteps DEF Fresh
<1>2. ASSUME v \in sdatpData(w, N, p.dataID) PROVE Shape(v) /\ Handing(v)
  <2> DEFINE d == constructData(p.dataID)
  <2>1. d.dataID = p.dataID
    BY DEF constructData, Packet
  <2>2. CASE Seen(w, p.dataID)
    BY <1>1, <1>2, <2>2 DEF sdatpData
  <2>3. CASE ~Seen(w, p.dataID)
    <3>1. PICK x \in EndRequests(w, p.dataID) : v = Mark(SendDown(x, N, d), p.dataID)
      BY <1>2, <2>3 DEF sdatpData
    <3>2. Fresh(x)
      BY <3>1, FreshSteps
    <3>3. ~Seen(x, p.dataID)
      BY <2>3, <3>2 DEF Seen, Fresh
    <3> HIDE DEF d
    <3> QED
      BY <2>1, <3>1, <3>2, <3>3, HandOn
  <2> QED
    BY <2>2, <2>3
<1>3. ASSUME v = sdatpRD(w, N, p) PROVE Shape(v) /\ Handing(v)
  <2> DEFINE ended == [w EXCEPT !.s.retranStates = Removed(@, {p.number})]
  <2>1. Fresh(ended)
    BY DEF Fresh, Shape, NodeFields
  <2>2. v = IF Seen(w, p.dataID) THEN ended ELSE SendDown(Mark(ended, p.dataID), N, p)
    BY <1>3, Zenon DEF sdatpRD
  <2> HIDE DEF ended
  <2>3. Seen(ended, p.dataID) <=> Seen(w, p.dataID)
    BY <2>1 DEF Seen, Fresh
  <2> QED
    BY <2>1, <2>2, <2>3, HandOn, FreshSteps DEF Fresh
<1>4. ASSUME v = sdatpRR(w, N, p) PROVE Shape(v) /\ Handing(v)
  <2>1. v = w \/ v = Used(w, p.dataID)
    BY <1>4 DEF sdatpRR
  <2>2. Fresh(Used(w, p.dataID))
    BY FreshSteps
  <2> QED
    BY <1>1, <2>1, <2>2, FreshSteps DEF Fresh
<1> QED
  BY <1>1, <1>2, <1>3, <1>4 DEF sdatp

-----------------------------------------------------------------------------
(* The events. *)

LEMMA NodesHaveEnds ==
  /\ N \in Nat /\ N > 0
  /\ \A n \in Nodes : HasEntry(n, 1) <=> n # N
  /\ ~HasEntry(N, 1)
  /\ N \in Nodes /\ 1 \in Nodes
<1>1. N \in Nat /\ N > 0
  BY StreamingAssumption
<1> QED
  BY <1>1 DEF Nodes, HasEntry

LEMMA WorkShape ==
  ASSUME LastHop, NEW n \in Nodes
  PROVE  /\ Shape(Work(n))
         /\ Work(n).app = <<>>
         /\ n = N => Fresh(Work(n))
  BY DEF LastHop, Work, Shape, Fresh

\* A handler that keeps to itself, or hands on what is new at the last node.
LEMMA KeptHandled ==
  ASSUME LastHop, NEW n \in Nodes, n # N, NEW w, Kept(Work(n), w)
  PROVE  Handled(n, w)
  BY WorkShape DEF Kept, Handled

LEMMA AfterDataHandled ==
  ASSUME LastHop, NEW n \in Nodes, NEW p, NEW w \in afterReceiveData(n, p)
  PROVE  Handled(n, w)
<1> DEFINE c == Cached(Work(n), p)
<1>1. Shape(Work(n)) /\ Quiet(Work(n), c)
  BY WorkShape, CachedQuiet
<1>2. w = r2t(c, n, p) \/ w \in sdatp(c, n, p)
  BY DEF afterReceiveData
<1> HIDE DEF c
<1>3. CASE n # N
  <2>1. HasEntry(n, 1) /\ Shape(c) /\ Kept(Work(n), c)
    BY <1>1, <1>3, NodesHaveEnds, QuietKept DEF Quiet
  <2>2. Kept(c, w)
    BY <1>2, <2>1, R2tKept, SdatpKept
  <2>3. Kept(Work(n), w)
    BY <2>1, <2>2 DEF Kept
  <2> QED
    BY <1>3, <2>3, KeptHandled
<1>4. CASE n = N
  <2>1. Fresh(Work(N))
    BY <1>4, WorkShape
  <2>2. Fresh(c)
    BY <1>1, <1>4, <2>1, FreshSteps
  <2>3. Shape(w) /\ Handing(w)
    BY <1>2, <1>4, <2>2, NodesHaveEnds, R2tLast, SdatpLast
  <2> QED
    BY <1>4, <2>3 DEF Handled
<1> QED
  BY <1>3, <1>4

LEMMA QuietHandled ==
  ASSUME LastHop, NEW n \in Nodes, NEW w, Quiet(Work(n), w)
  PROVE  Handled(n, w)
<1>1. CASE n # N
  BY <1>1, QuietKept, KeptHandled
<1>2. CASE n = N
  <2>1. Fresh(w)
    BY <1>2, WorkShape, FreshSteps
  <2> QED
    BY <1>2, <2>1, FreshSteps DEF Handled, Fresh
<1> QED
  BY <1>1, <1>2

LEMMA InterestHandled ==
  ASSUME LastHop, NEW n \in Nodes
  PROVE  Handled(n, afterReceiveInterest(n))
<1> DEFINE w == [Work(n) EXCEPT !.s.pit = TRUE]
<1>1. Shape(Work(n))
  BY WorkShape
<1>2. Quiet(Work(n), Work(n))
  BY <1>1 DEF Quiet
<1>3. Quiet(Work(n), w)
  <2> HIDE DEF Work
  <2> QED
    BY <1>1 DEF Quiet, Shape, NodeFields
<1>4. afterReceiveInterest(n) = IF node[n].pit THEN Work(n) ELSE SendUp(w, n, Interest)
  BY Zenon DEF afterReceiveInterest
<1> HIDE DEF w
<1>5. Quiet(w, SendUp(w, n, Interest))
  BY <1>3, SendUpQuiet DEF Quiet
<1>6. Quiet(Work(n), SendUp(w, n, Interest))
  BY <1>3, <1>5 DEF Quiet
<1> QED
  BY <1>2, <1>4, <1>6, QuietHandled

LEMMA ReceivedHandled ==
  ASSUME LastHop, NEW n \in Nodes, NEW p, NEW w \in Received(n, p)
  PROVE  Handled(n, w)
<1>1. w = afterReceiveInterest(n) \/ w \in afterReceiveData(n, p) \/ w = Work(n)
  BY DEF Received
<1>2. Quiet(Work(n), Work(n))
  BY WorkShape DEF Quiet
<1> QED
  BY <1>1, <1>2, InterestHandled, AfterDataHandled, QuietHandled

\* The timer of R2T is set at nodes before the last only.
LEMMA R2tTimerHandled ==
  ASSUME LastHop, NEW n \in Nodes, NEW id \in DOMAIN node[n].csynStates
  PROVE  Handled(n, waitingCACK(Work(n), n, id))
<1>1. n # N
  BY DEF LastHop
<1> DEFINE w == Work(n)
           again == [times |-> w.s.csynStates[id].times + 1,
                     set |-> Again(w.s.csynStates[id].times + 1)]
           u == Used(w, id)
           t == [u EXCEPT !.s.csynStates = Set(@, id, again)]
           v == SendDown(t, n, constructData(id))
<1>2. Shape(w)
  BY WorkShape
<1> HIDE DEF w
<1>3. Kept(w, [w EXCEPT !.null = TRUE])
  BY <1>2 DEF Kept, Shape, NodeFields
<1>4. Kept(w, u)
  BY <1>2, UsedQuiet, QuietKept
<1> HIDE DEF u
<1>5. Kept(u, t)
  BY <1>4 DEF Kept, Shape, NodeFields
<1>6. waitingCACK(w, n, id) = IF lookupInCs(w.s.cs, id) = 0 THEN [w EXCEPT !.null = TRUE] ELSE v
  BY Zenon DEF waitingCACK, u
<1> HIDE DEF t
<1>7. Kept(t, v)
  BY <1>1, <1>5, NodesHaveEnds, KeptSteps DEF Kept
<1> HIDE DEF v
<1>8. Kept(w, v)
  BY <1>4, <1>5, <1>7 DEF Kept
<1>9. Kept(w, waitingCACK(w, n, id))
  BY <1>3, <1>6, <1>8
<1> QED
  BY <1>1, <1>9, KeptHandled DEF w

LEMMA SdatpTimerHandled ==
  ASSUME LastHop, NEW n \in Nodes, NEW uid
  PROVE  Handled(n, waitingRD(Work(n), n, uid))
<1> DEFINE w == Work(n)
           state == w.s.retranStates[uid]
           again == [state EXCEPT !.times = state.times + 1, !.set = state.times + 1 < maxCSynTimes]
           t == [w EXCEPT !.s.retranStates = Set(@, uid, again)]
           v == SendUp(t, n, constructRR(uid, state.asks))
<1>1. Shape(w)
  BY WorkShape
<1> HIDE DEF w
<1>2. waitingRD(w, n, uid) = v
  BY Zenon DEF waitingRD
<1> HIDE DEF state, again
<1>3. Quiet(w, t)
  BY <1>1 DEF Quiet, Shape, NodeFields
<1> HIDE DEF t
<1>4. Quiet(t, v)
  BY <1>3, SendUpQuiet DEF Quiet
<1> HIDE DEF v
<1>5. Quiet(w, waitingRD(w, n, uid))
  BY <1>2, <1>3, <1>4 DEF Quiet
<1> QED
  BY <1>5, QuietHandled DEF w

-----------------------------------------------------------------------------
(* The theorem. *)

\* What a handler leaves behind keeps the invariant.
LEMMA DoneKeeps ==
  ASSUME LastHop, NEW n \in Nodes, NEW w, Handled(n, w), NEW downs, NEW ups, Done(w, n, downs, ups)
  PROVE  LastHop'
<1>1. node' = [node EXCEPT ![n] = w.s] /\ got' = got \o w.app
  BY DEF Done, OnData
<1>2. /\ DOMAIN node' = Nodes
      /\ node'[n] = w.s
      /\ \A m \in Nodes : m # n => node'[m] = node[m]
  BY <1>1 DEF LastHop
<1>3. /\ Shape(w)
      /\ n # N => w.app = <<>>
      /\ n = N => Handing(w)
  BY DEF Handled
<1>4. \A m \in Nodes : DOMAIN node'[m] = NodeFields
  BY <1>2, <1>3 DEF LastHop, Shape
<1>5. PICK S : got \in Seq(S)
  BY DEF LastHop
<1>6. CASE w.app = <<>> /\ DOMAIN node'[N].csynStates = {} /\ node'[N].transDataIDs = node[N].transDataIDs
  <2>1. got' = got
    BY <1>1, <1>5, <1>6
  <2> QED
    BY <1>2, <1>4, <1>5, <1>6, <2>1 DEF LastHop
<1>7. ASSUME NEW p, w.app = <<p>>, DOMAIN node'[N].csynStates = {}, p.dataID \notin node[N].transDataIDs,
             node'[N].transDataIDs = node[N].transDataIDs \cup {p.dataID}
      PROVE  LastHop'
  <2>1. got' = Append(got, p)
    BY <1>1, <1>5, <1>7
  <2>2. /\ got' \in Seq(S \cup {p})
        /\ Len(got) \in Nat
        /\ DOMAIN got = 1 .. Len(got)
        /\ DOMAIN got' = 1 .. Len(got) + 1
        /\ \A i \in DOMAIN got : got'[i] = got[i]
        /\ got'[Len(got) + 1] = p
    BY <1>5, <2>1
  <2>3. \A i \in DOMAIN got' : i \in DOMAIN got \/ i = Len(got) + 1
    BY <2>2
  <2>4. \A i \in DOMAIN got : got'[i] = got[i] /\ got[i].dataID \in node[N].transDataIDs
    BY <2>2 DEF LastHop
  <2>5. \A i \in DOMAIN got' : got'[i].dataID \in node'[N].transDataIDs
    BY <1>7, <2>2, <2>3, <2>4
  <2>6. \A i, j \in DOMAIN got' : got'[i].dataID = got'[j].dataID => i = j
    <3> SUFFICES ASSUME NEW i \in DOMAIN got', NEW j \in DOMAIN got', got'[i].dataID = got'[j].dataID
                 PROVE  i = j
      OBVIOUS
    <3>1. CASE i \in DOMAIN got /\ j \in DOMAIN got
      <4>1. got[i].dataID = got[j].dataID
        BY <2>4, <3>1
      <4> QED
        BY <3>1, <4>1 DEF LastHop
    <3>2. CASE i \notin DOMAIN got \/ j \notin DOMAIN got
      BY <1>7, <2>2, <2>3, <2>4, <3>2
    <3> QED
      BY <3>1, <3>2
  <2> QED
    BY <1>2, <1>4, <1>7, <2>2, <2>5, <2>6 DEF LastHop
<1>8. CASE n = N
  <2>1. node'[N] = w.s
    BY <1>2, <1>8
  <2> QED
    BY <1>3, <1>6, <1>7, <1>8, <2>1 DEF Handing
<1>9. CASE n # N
  <2>1. node'[N] = node[N]
    BY <1>2, <1>9, NodesHaveEnds
  <2> QED
    BY <1>3, <1>6, <1>9, <2>1 DEF LastHop
<1> QED
  BY <1>8, <1>9

LEMMA InitLastHop == Init => LastHop
<1> SUFFICES ASSUME Init PROVE LastHop
  OBVIOUS
<1>1. /\ DOMAIN node = Nodes
      /\ \A n \in Nodes : DOMAIN node[n] = NodeFields
      /\ node[N].csynStates = <<>>
  BY NodesHaveEnds DEF Init, NodeFields, NoTimers
<1>2. got \in Seq({}) /\ DOMAIN got = {}
  BY DEF Init
<1>3. DOMAIN <<>> = {}
  OBVIOUS
<1> QED
  BY <1>1, <1>2, <1>3 DEF LastHop

LEMMA NextKeepsLastHop == LastHop /\ [Next]_vars => LastHop'
<1> SUFFICES ASSUME LastHop, [Next]_vars PROVE LastHop'
  OBVIOUS
<1>0. ASSUME UNCHANGED <<node, got>> PROVE LastHop'
  BY <1>0 DEF LastHop
<1>1. CASE UNCHANGED vars
  BY <1>0, <1>1 DEF vars
<1>2. CASE SendInterest
  BY <1>2, NodesHaveEnds, InterestHandled, DoneKeeps DEF SendInterest
<1>3. CASE sendData
  <2>1. PICK w \in afterReceiveData(1, constructData(next)) : Done(w, 1, down, up)
    BY <1>3 DEF sendData
  <2>2. Handled(1, w)
    BY <2>1, NodesHaveEnds, AfterDataHandled
  <2> QED
    BY <2>1, <2>2, NodesHaveEnds, DoneKeeps
<1>4. ASSUME NEW n \in Nodes, ReceiveDown(n) PROVE LastHop'
  <2>1. PICK w \in Received(n + 1, Head(down[n])) :
          Done(w, n + 1, [down EXCEPT ![n] = Tail(@)], up)
    BY <1>4 DEF ReceiveDown
  <2>2. n + 1 \in Nodes
    BY <1>4, NodesHaveEnds DEF ReceiveDown, HasEntry, Nodes
  <2> QED
    BY <2>1, <2>2, ReceivedHandled, DoneKeeps
<1>5. ASSUME NEW n \in Nodes, ReceiveUp(n) PROVE LastHop'
  <2>1. PICK w \in Received(n - 1, Head(up[n])) :
          Done(w, n - 1, down, [up EXCEPT ![n] = Tail(@)])
    BY <1>5 DEF ReceiveUp
  <2>2. n - 1 \in Nodes
    BY <1>5, NodesHaveEnds DEF ReceiveUp, HasEntry, Nodes
  <2> QED
    BY <2>1, <2>2, ReceivedHandled, DoneKeeps
<1>6. ASSUME NEW n \in Nodes, Timer(n) PROVE LastHop'
  <2>1. CASE \E id \in DOMAIN node[n].csynStates : Done(waitingCACK(Work(n), n, id), n, down, up)
    BY <2>1, R2tTimerHandled, DoneKeeps
  <2>2. CASE \E uid \in DOMAIN node[n].retranStates : Done(waitingRD(Work(n), n, uid), n, down, up)
    BY <2>2, SdatpTimerHandled, DoneKeeps
  <2> QED
    BY <1>6, <2>1, <2>2 DEF Timer
<1>7. ASSUME NEW n \in Nodes, Lose(n) PROVE LastHop'
  BY <1>0, <1>7 DEF Lose
<1> QED
  BY <1>1, <1>2, <1>3, <1>4, <1>5, <1>6, <1>7 DEF Next

\* Whatever is lost or sent again, the consumer's application gets no packet
\* twice, for both strategies (transDataIDs at the consumer's node).
THEOREM NothingTwiceCorrect == Spec => []NothingTwice
<1>1. LastHop => NothingTwice
  BY DEF LastHop, NothingTwice
<1> QED
  BY <1>1, InitLastHop, NextKeepsLastHop, PTL DEF Spec

-----------------------------------------------------------------------------
(* The content stores of R2T: of each Data and each CACK there is one      *)
(* entry, and a store that has room for all of them evicts none.           *)

DataIds  == 0 .. LastId["r2t"]
R2tNames == {"Data", "CACK"} \X DataIds
CsEntries == [data : [name : R2tNames, fresh : {0}, noCache : {FALSE}],
              left : {0}, unsolicited : {FALSE}]

\* There is room for every Data and every CACK of R2T.
EnoughRoom == "r2t" \in Strategies => CsLimit >= 2 * (LastId["r2t"] + 1)

Complete(cs) ==
  /\ cs \in Seq(CsEntries)
  /\ \A i, j \in 1 .. Len(cs) : cs[i].data.name = cs[j].data.name => i = j

NamesIn(cs) == {cs[i].data.name : i \in 1 .. Len(cs)}

\* A sequence with the same entries in another order.
LEMMA Reordered ==
  ASSUME NEW cs, Complete(cs), NEW c \in Seq(CsEntries), Len(c) = Len(cs),
         NEW p \in [1 .. Len(cs) -> 1 .. Len(cs)], NEW q \in [1 .. Len(cs) -> 1 .. Len(cs)],
         \A i \in 1 .. Len(cs) : p[q[i]] = i /\ q[p[i]] = i /\ c[i] = cs[p[i]]
  PROVE  Complete(c) /\ NamesIn(c) = NamesIn(cs)
<1>1. \A i \in 1 .. Len(cs) : p[i] \in 1 .. Len(cs) /\ q[i] \in 1 .. Len(cs)
  OBVIOUS
<1>2. \A i, j \in 1 .. Len(c) : c[i].data.name = c[j].data.name => i = j
  <2> SUFFICES ASSUME NEW i \in 1 .. Len(c), NEW j \in 1 .. Len(c), c[i].data.name = c[j].data.name
               PROVE  i = j
    OBVIOUS
  <2>1. i \in 1 .. Len(cs) /\ j \in 1 .. Len(cs)
    OBVIOUS
  <2>2. cs[p[i]].data.name = cs[p[j]].data.name /\ p[i] \in 1 .. Len(cs) /\ p[j] \in 1 .. Len(cs)
    BY <1>1, <2>1
  <2>3. p[i] = p[j]
    BY <2>2 DEF Complete
  <2>4. q[p[i]] = i /\ q[p[j]] = j
    BY <2>1
  <2> QED BY <2>3, <2>4
<1>3. \A i \in 1 .. Len(cs) : c[q[i]] = cs[i] /\ c[i] = cs[p[i]]
  BY <1>1
<1>4. NamesIn(c) \subseteq NamesIn(cs)
  BY <1>1, <1>3 DEF NamesIn
<1>5. NamesIn(cs) \subseteq NamesIn(c)
  BY <1>1, <1>3 DEF NamesIn
<1> QED BY <1>2, <1>4, <1>5 DEF Complete

LEMMA MovedStores ==
  ASSUME NEW cs, Complete(cs), NEW i \in 1 .. Len(cs)
  PROVE  Complete(Moved(cs, i)) /\ NamesIn(Moved(cs, i)) = NamesIn(cs)
<1> DEFINE n == Len(cs)
           r == RemoveAt(cs, i)
           c == Append(r, cs[i])
           p == [j \in 1 .. n |-> IF j < i THEN j ELSE IF j < n THEN j + 1 ELSE i]
           q == [j \in 1 .. n |-> IF j < i THEN j ELSE IF j = i THEN n ELSE j - 1]
<1>1. cs \in Seq(CsEntries) /\ n \in Nat /\ \A j \in 1 .. n : cs[j] \in CsEntries
  BY DEF Complete
<1>2. /\ SubSeq(cs, 1, i - 1) \in Seq(CsEntries)
      /\ Len(SubSeq(cs, 1, i - 1)) = i - 1
      /\ \A j \in 1 .. i - 1 : SubSeq(cs, 1, i - 1)[j] = cs[j]
  <2>1. \A j \in 1 .. i - 1 : cs[j] \in CsEntries
    BY <1>1
  <2> QED BY <1>1, <2>1, SubSeqProperties
<1>3. /\ SubSeq(cs, i + 1, n) \in Seq(CsEntries)
      /\ Len(SubSeq(cs, i + 1, n)) = n - i
      /\ \A j \in 1 .. n - i : SubSeq(cs, i + 1, n)[j] = cs[i + j]
  <2>1. \A j \in i + 1 .. n : cs[j] \in CsEntries
    BY <1>1
  <2>2. /\ SubSeq(cs, i + 1, n) \in Seq(CsEntries)
        /\ Len(SubSeq(cs, i + 1, n)) = IF i + 1 <= n THEN n - (i + 1) + 1 ELSE 0
        /\ \A j \in 1 .. n - (i + 1) + 1 : SubSeq(cs, i + 1, n)[j] = cs[(i + 1) + j - 1]
    BY <1>1, <2>1, SubSeqProperties
  <2>3. \A j \in 1 .. n - i : (i + 1) + j - 1 = i + j
    BY <1>1
  <2> QED BY <1>1, <2>2, <2>3
<1>4. /\ r \in Seq(CsEntries)
      /\ Len(r) = n - 1
      /\ \A j \in 1 .. n - 1 : r[j] = IF j < i THEN cs[j] ELSE cs[j + 1]
  <2> DEFINE a == SubSeq(cs, 1, i - 1)
             b == SubSeq(cs, i + 1, n)
  <2>1. r = a \o b
    BY DEF RemoveAt
  <2> HIDE DEF a, b, r
  <2>2. /\ a \o b \in Seq(CsEntries)
        /\ Len(a \o b) = Len(a) + Len(b)
        /\ \A j \in 1 .. Len(a) + Len(b) : (a \o b)[j] = IF j <= Len(a) THEN a[j] ELSE b[j - Len(a)]
    BY <1>2, <1>3, ConcatProperties DEF a, b
  <2>3. Len(a) = i - 1 /\ Len(b) = n - i /\ Len(a) + Len(b) = n - 1
    <3>1. Len(a) = i - 1 /\ Len(b) = n - i
      BY <1>2, <1>3 DEF a, b
    <3> QED BY <1>1, <3>1
  <2>4. ASSUME NEW j \in 1 .. n - 1 PROVE r[j] = IF j < i THEN cs[j] ELSE cs[j + 1]
    <3>1. CASE j < i
      BY <1>1, <1>2, <2>1, <2>2, <2>3, <3>1 DEF a
    <3>2. CASE j >= i
      <4>1. j - (i - 1) \in 1 .. n - i /\ i + (j - (i - 1)) = j + 1 /\ ~(j <= i - 1)
        BY <1>1, <3>2
      <4>2. b[j - (i - 1)] = cs[j + 1]
        BY <1>3, <4>1 DEF b
      <4> QED BY <1>1, <2>1, <2>2, <2>3, <3>2, <4>1, <4>2
    <3> QED BY <1>1, <3>1, <3>2
  <2> QED BY <2>1, <2>2, <2>3, <2>4
<1> HIDE DEF r
<1>5. /\ c \in Seq(CsEntries)
      /\ Len(c) = n
      /\ \A j \in 1 .. n - 1 : c[j] = r[j]
      /\ c[n] = cs[i]
  <2>1. cs[i] \in CsEntries
    BY <1>1
  <2> QED BY <1>1, <1>4, <2>1, AppendProperties
<1> HIDE DEF c
<1>6. p \in [1 .. n -> 1 .. n] /\ q \in [1 .. n -> 1 .. n]
  BY <1>1
<1>7. \A j \in 1 .. n : p[q[j]] = j /\ q[p[j]] = j
  BY <1>1
<1>8. \A j \in 1 .. n : c[j] = cs[p[j]]
  BY <1>1, <1>4, <1>5
<1> HIDE DEF p, q
<1>9. Complete(c) /\ NamesIn(c) = NamesIn(cs)
  <2>1. \A j \in 1 .. n : p[q[j]] = j /\ q[p[j]] = j /\ c[j] = cs[p[j]]
    BY <1>7, <1>8
  <2> QED BY <1>5, <1>6, <2>1, Reordered
<1> QED BY <1>9 DEF Moved, c, r

LEMMA CompleteFits ==
  ASSUME NEW cs, Complete(cs), LastId["r2t"] \in Nat
  PROVE  Len(cs) <= 2 * (LastId["r2t"] + 1)
<1> DEFINE f == [i \in 1 .. Len(cs) |-> cs[i].data.name]
           L == LastId["r2t"]
<1>1. cs \in Seq(CsEntries) /\ Len(cs) \in Nat /\ \A i \in 1 .. Len(cs) : cs[i] \in CsEntries
  BY DEF Complete
<1>2. \A i \in 1 .. Len(cs) : cs[i].data.name \in R2tNames
  BY <1>1 DEF CsEntries
<1>3. f \in Injection(1 .. Len(cs), R2tNames)
  BY <1>2 DEF Injection, IsInjective, Complete
<1>4. IsFiniteSet(DataIds) /\ Cardinality(DataIds) = L + 1
  BY FS_Interval DEF DataIds
<1>5. IsFiniteSet({"Data", "CACK"}) /\ Cardinality({"Data", "CACK"}) = 2
  <2>1. IsFiniteSet({"Data"}) /\ Cardinality({"Data"}) = 1
    BY FS_Singleton
  <2>2. {"Data", "CACK"} = {"Data"} \cup {"CACK"} /\ "CACK" \notin {"Data"}
    OBVIOUS
  <2>3. /\ IsFiniteSet({"Data"} \cup {"CACK"})
        /\ Cardinality({"Data"} \cup {"CACK"}) = 1 + 1
    BY <2>1, <2>2, FS_AddElement
  <2> QED BY <2>2, <2>3
<1>6. IsFiniteSet(R2tNames) /\ Cardinality(R2tNames) = 2 * (L + 1)
  <2>1. /\ IsFiniteSet({"Data", "CACK"} \X DataIds)
        /\ Cardinality({"Data", "CACK"} \X DataIds)
             = Cardinality({"Data", "CACK"}) * Cardinality(DataIds)
    BY <1>4, <1>5, FS_Product, Zenon
  <2> QED BY <1>4, <1>5, <2>1 DEF R2tNames
<1>7. Cardinality(1 .. Len(cs)) <= Cardinality(R2tNames)
  BY <1>3, <1>6, FS_Injection
<1>8. Cardinality(1 .. Len(cs)) = Len(cs)
  <2>1. 1 \in Int /\ Len(cs) \in Int
    BY <1>1
  <2>2. Cardinality(1 .. Len(cs)) = IF 1 > Len(cs) THEN 0 ELSE Len(cs) - 1 + 1
    BY <2>1, FS_Interval
  <2> QED BY <1>1, <2>2
<1> QED BY <1>6, <1>7, <1>8, L \in Nat

LEMMA InsertStores ==
  ASSUME NEW cs, Complete(cs), LastId["r2t"] \in Nat, CsLimit >= 2 * (LastId["r2t"] + 1),
         NEW name \in R2tNames
  PROVE  LET c == insert(cs, [name |-> name, fresh |-> 0, noCache |-> FALSE], FALSE)
         IN Complete(c) /\ NamesIn(c) = NamesIn(cs) \cup {name}
<1> DEFINE d == [name |-> name, fresh |-> 0, noCache |-> FALSE]
           e == [data |-> d, left |-> 0, unsolicited |-> FALSE]
           old == {i \in DOMAIN cs : SamePacket(cs[i].data, d)}
           c == insert(cs, d, FALSE)
<1>1. /\ cs \in Seq(CsEntries) /\ Len(cs) \in Nat /\ DOMAIN cs = 1 .. Len(cs)
      /\ \A i \in 1 .. Len(cs) : cs[i] \in CsEntries
  BY DEF Complete
<1>2. CsLimit \in Nat /\ CsLimit # 0
  BY CsAssumption
<1>3. old = {i \in 1 .. Len(cs) : cs[i].data.name = name}
  BY <1>1 DEF SamePacket, CsEntries
<1>4. CASE old # {}
  <2> DEFINE i == CHOOSE i \in old : TRUE
             same == [cs EXCEPT ![i].left = cs[i].data.fresh,
                                ![i].unsolicited = cs[i].unsolicited /\ FALSE]
  <2>1. c = Moved(same, i)
    BY <1>2, <1>4 DEF insert
  <2> HIDE DEF c, same
  <2>2. i \in 1 .. Len(cs) /\ cs[i].data.name = name
    BY <1>3, <1>4
  <2> HIDE DEF i
  <2>3. same = cs
    <3> USE DEF same
    <3>1. cs[i] \in CsEntries /\ cs[i].data.fresh = 0
      BY <1>1, <2>2 DEF CsEntries
    <3>2. /\ [cs[i] EXCEPT !.left = 0] = cs[i]
          /\ [cs[i] EXCEPT !.unsolicited = FALSE] = cs[i]
      BY <3>1 DEF CsEntries
    <3>3. cs[i].unsolicited = FALSE
      BY <3>1 DEF CsEntries
    <3>4. [cs EXCEPT ![i].left = 0] = cs /\ [cs EXCEPT ![i].unsolicited = FALSE] = cs
      BY <1>1, <2>2, <3>2
    <3>5. (cs[i].unsolicited /\ FALSE) = FALSE
      OBVIOUS
    <3> QED BY <3>1, <3>4, <3>5
  <2>4. Complete(c) /\ NamesIn(c) = NamesIn(cs)
    BY <2>1, <2>2, <2>3, MovedStores
  <2>5. name \in NamesIn(cs)
    BY <2>2 DEF NamesIn
  <2> QED BY <2>4, <2>5 DEF c
<1>5. CASE old = {}
  <2> DEFINE a == Append(cs, e)
  <2>1. c = evictEntries(a)
    BY <1>2, <1>5 DEF insert
  <2> HIDE DEF c
  <2>2. e \in CsEntries
    BY DEF CsEntries
  <2>3. /\ a \in Seq(CsEntries)
        /\ Len(a) = Len(cs) + 1
        /\ \A i \in 1 .. Len(cs) : a[i] = cs[i]
        /\ a[Len(cs) + 1] = e
    BY <1>1, <2>2, AppendProperties
  <2>4. e.data.name = name
    OBVIOUS
  <2>5. \A i \in 1 .. Len(cs) : cs[i].data.name # name
    BY <1>3, <1>5
  <2> HIDE DEF a, e
  <2>6. \A i \in 1 .. Len(a) : i \in 1 .. Len(cs) \/ i = Len(cs) + 1
    BY <1>1, <2>3
  <2>7. Complete(a)
    <3> SUFFICES ASSUME NEW i \in 1 .. Len(a), NEW j \in 1 .. Len(a), a[i].data.name = a[j].data.name
                 PROVE  i = j
      BY <2>3 DEF Complete
    <3>1. CASE i \in 1 .. Len(cs) /\ j \in 1 .. Len(cs)
      BY <2>3, <3>1 DEF Complete
    <3>2. CASE i = Len(cs) + 1 \/ j = Len(cs) + 1
      BY <1>1, <2>3, <2>4, <2>5, <2>6, <3>2
    <3> QED BY <2>6, <3>1, <3>2
  <2>8. Len(a) <= CsLimit
    BY <1>1, <1>2, <2>3, <2>7, CompleteFits
  <2>9. c = a
    <3>1. ~(Len(a) > CsLimit)
      BY <1>1, <1>2, <2>3, <2>8
    <3> QED BY <2>1, <3>1, Zenon DEF evictEntries
  <2>10. NamesIn(a) = NamesIn(cs) \cup {name}
    <3>1. Len(cs) + 1 \in 1 .. Len(a) /\ \A i \in 1 .. Len(cs) : i \in 1 .. Len(a)
      BY <1>1, <2>3
    <3> QED BY <2>3, <2>4, <2>6, <3>1 DEF NamesIn
  <2> QED BY <2>7, <2>9, <2>10 DEF c
<1> QED BY <1>4, <1>5

LEMMA MinFacts ==
  ASSUME NEW b \in Nat, NEW T \in SUBSET (1 .. b), T # {}
  PROVE  Min(T) \in T
<1> DEFINE below(y) == 1 .. y - 1
           G == {below(y) : y \in T}
           R == StrictSubsetOrdering(Int)
<1>1. T \subseteq Int
  OBVIOUS
<1>2. G \subseteq FiniteSubsetsOf(Int) /\ G # {}
  <2>1. \A y \in T : below(y) \in SUBSET Int /\ IsFiniteSet(below(y))
    BY <1>1, FS_Interval
  <2> QED BY <2>1 DEF FiniteSubsetsOf
<1>3. IsWellFoundedOn(R, FiniteSubsetsOf(Int))
  BY FS_StrictSubsetOrderingWellFounded
<1> HIDE DEF G, R
<1>4. PICK g \in G : \A h \in G : ~ (<<h, g>> \in R)
  BY <1>2, <1>3, WFMin
<1>5. PICK x \in T : g = below(x)
  BY <1>4 DEF G
<1>6. ASSUME NEW y \in T, y < x PROVE FALSE
  <2>1. below(y) \in SUBSET Int /\ below(x) \in SUBSET Int /\ below(y) \in G
    BY <1>1 DEF G
  <2>2. below(y) \subseteq below(x)
    BY <1>1, <1>6
  <2>3. y \in below(x) /\ y \notin below(y)
    BY <1>1, <1>6
  <2> HIDE DEF below
  <2>4. <<below(y), below(x)>> \in R
    BY <2>1, <2>2, <2>3 DEF R, StrictSubsetOrdering
  <2> QED BY <1>4, <1>5, <2>1, <2>4
<1>7. \A y \in T : x <= y
  BY <1>1, <1>6
<1> QED BY <1>7 DEF Min

LEMMA LookupFinds ==
  ASSUME NEW cs, Complete(cs), NEW id
  PROVE  /\ lookupInCs(cs, id) = 0 => <<"Data", id>> \notin NamesIn(cs)
         /\ lookupInCs(cs, id) # 0 => lookupInCs(cs, id) \in 1 .. Len(cs)
<1> DEFINE named(entry) == entry.data.name = <<"Data", id>>
           I == {i \in 1 .. Len(cs) : cs[i].data.name = <<"Data", id>>}
<1>1. Len(cs) \in Nat
  BY DEF Complete
<1>2. lookupInCs(cs, id) = IF I # {} THEN Min(I) ELSE 0
  BY DEF lookupInCs, findName, SelectInSeq
<1>3. ASSUME I # {} PROVE Min(I) \in I
  BY <1>1, <1>3, MinFacts
<1> QED BY <1>1, <1>2, <1>3 DEF NamesIn
-----------------------------------------------------------------------------
(* What a handler of R2T leaves behind. *)

DataPackets == {constructData(id) : id \in DataIds}
UpPackets   == {Interest} \cup {constructCACK(id) : id \in DataIds}

Holds(s, x) == \E i \in 1 .. Len(s) : s[i] = x

\* Data that waits for its CACK has come, and is in the content store; there
\* are no requests of SDATP.
OwnState(s) ==
  /\ Complete(s.cs)
  /\ DOMAIN s.retranStates = {}
  /\ s.transDataIDs \subseteq DataIds
  /\ \A id \in DOMAIN s.csynStates : id \in s.transDataIDs /\ <<"Data", id>> \in NamesIn(s.cs)

\* A handler at node n that sees no new id and takes no CACK,
Idle(n, w) ==
  /\ w.s.transDataIDs = node[n].transDataIDs
  /\ DOMAIN w.s.csynStates = DOMAIN node[n].csynStates
  /\ w.up = <<>> \/ w.up = <<Interest>>

\* that sees id for the first time,
Sees(n, w, id) ==
  /\ id \notin node[n].transDataIDs
  /\ w.s.transDataIDs = node[n].transDataIDs \cup {id}
  /\ DOMAIN node[n].csynStates \subseteq DOMAIN w.s.csynStates
  /\ HasEntry(n, 1) => id \in DOMAIN w.s.csynStates
  /\ w.up = <<>> \/ w.up = <<constructCACK(id)>>

\* or that takes the CACK of id.
Acked(n, w, id) ==
  /\ w.s.transDataIDs = node[n].transDataIDs
  /\ DOMAIN w.s.csynStates = DOMAIN node[n].csynStates \ {id}
  /\ w.up = <<>>

\* What they have in common.
Sane(n, w) ==
  /\ Shape(w)
  /\ ~w.null
  /\ OwnState(w.s)
  /\ \/ w.down = <<>>
     \/ \E id \in DataIds : w.down = <<constructData(id)>> /\ id \in w.s.transDataIDs

R2tStore == LastId["r2t"] \in Nat /\ CsLimit >= 2 * (LastId["r2t"] + 1)

\* Every node of R2T keeps its own state.
OwnStates == /\ DOMAIN node = Nodes
             /\ \A n \in Nodes : DOMAIN node[n] = NodeFields /\ OwnState(node[n])

LEMMA WorkSane ==
  ASSUME OwnStates, NEW n \in Nodes
  PROVE  LET w == Work(n) IN
         /\ Sane(n, w) /\ Idle(n, w) /\ w.s = node[n] /\ w.down = <<>> /\ w.up = <<>>
  BY DEF OwnStates, Work, Sane, Shape, Idle

\* The forwarder caches a Data or a CACK.
LEMMA CachedSane ==
  ASSUME OwnStates, R2tStore, NEW n \in Nodes, NEW id \in DataIds,
         NEW p \in {constructData(id), constructCACK(id)}
  PROVE  LET w == Cached(Work(n), p) IN
         /\ Sane(n, w)
         /\ NamesIn(w.s.cs) = NamesIn(node[n].cs) \cup {<<p.op, id>>}
         /\ w.s.transDataIDs = node[n].transDataIDs
         /\ w.s.csynStates = node[n].csynStates
         /\ w.down = <<>> /\ w.up = <<>>
<1> DEFINE v == Work(n)
           name == <<p.op, p.number>>
           d == [name |-> name, fresh |-> 0, noCache |-> FALSE]
           c == insert(v.s.cs, d, FALSE)
           w == Cached(v, p)
<1>1. Sane(n, v) /\ v.s = node[n] /\ v.down = <<>> /\ v.up = <<>>
  BY WorkSane
<1>2. p.number = id /\ name \in R2tNames /\ name = <<p.op, id>>
  BY DEF constructData, constructCACK, Packet, R2tNames
<1> HIDE DEF v, name
<1>3. Complete(c) /\ NamesIn(c) = NamesIn(v.s.cs) \cup {name}
  BY <1>1, <1>2, InsertStores DEF Sane, OwnState, R2tStore
<1>4. w = [v EXCEPT !.s.cs = c]
  BY Zenon DEF Cached, name
<1> HIDE DEF c
<1>5. /\ Shape(w) /\ w.null = v.null /\ w.down = <<>> /\ w.up = <<>>
      /\ w.s.cs = c /\ w.s.transDataIDs = v.s.transDataIDs /\ w.s.csynStates = v.s.csynStates
      /\ w.s.retranStates = v.s.retranStates
  BY <1>1, <1>4 DEF Sane, Shape, NodeFields
<1> HIDE DEF w
<1>6. OwnState(w.s)
  BY <1>1, <1>3, <1>5 DEF Sane, OwnState
<1> QED
  BY <1>1, <1>2, <1>3, <1>5, <1>6 DEF Sane, w, v

LEMMA SentDown ==
  ASSUME NEW n, NEW w, Shape(w), w.down = <<>>, NEW p
  PROVE  LET v == SendDown(w, n, p) IN
         /\ Shape(v) /\ v.s = w.s /\ v.up = w.up /\ v.null = w.null
         /\ v.down = <<>> \/ v.down = <<p>>
  BY DEF SendDown, Shape, NodeFields

LEMMA SentUp ==
  ASSUME NEW n, NEW w, Shape(w), w.up = <<>>, NEW p
  PROVE  LET v == SendUp(w, n, p) IN
         /\ Shape(v) /\ v.s = w.s /\ v.down = w.down /\ v.null = w.null
         /\ v.up = <<>> \/ v.up = <<p>>
  BY DEF SendUp, Shape, NodeFields

LEMMA SetDomain == \A t, k, x : DOMAIN Set(t, k, x) = DOMAIN t \cup {k}
  BY DEF Set

\* From w to v, node n starts to wait for the CACK of id.
Waiting(w, v, n, id) ==
  /\ Shape(v) /\ v.down = w.down /\ v.up = w.up /\ v.null = w.null
  /\ v.s.cs = w.s.cs /\ v.s.transDataIDs = w.s.transDataIDs
  /\ v.s.retranStates = w.s.retranStates
  /\ HasEntry(n, 1) => DOMAIN v.s.csynStates = DOMAIN w.s.csynStates \cup {id}
  /\ ~HasEntry(n, 1) => v.s.csynStates = w.s.csynStates

LEMMA WaitsFor ==
  ASSUME NEW n, NEW w, Shape(w), NEW id
  PROVE  Waiting(w, Waits(w, n, id), n, id)
<1> DEFINE x == IF maxCSynTimes >= 1 THEN [times |-> 1, set |-> TRUE] ELSE [times |-> -1, set |-> FALSE]
           t == Set(w.s.csynStates, id, x)
<1>1. DOMAIN t = DOMAIN w.s.csynStates \cup {id}
  BY SetDomain
<1>2. Waits(w, n, id) = IF HasEntry(n, 1) THEN [w EXCEPT !.s.csynStates = t] ELSE w
  BY Zenon DEF Waits
<1> HIDE DEF t
<1> QED
  BY <1>1, <1>2 DEF Shape, NodeFields, Waiting

LEMMA MarkedId ==
  ASSUME NEW w, Shape(w), NEW id
  PROVE  LET v == Mark(w, id) IN
         /\ Shape(v) /\ v.down = w.down /\ v.up = w.up /\ v.null = w.null
         /\ v.s.cs = w.s.cs /\ v.s.transDataIDs = w.s.transDataIDs \cup {id}
         /\ v.s.csynStates = w.s.csynStates /\ v.s.retranStates = w.s.retranStates
  BY DEF Mark, Shape, NodeFields

LEMMA DataEffect ==
  ASSUME OwnStates, R2tStore, NEW n \in Nodes, NEW id \in DataIds
  PROVE  LET v == r2tData(Cached(Work(n), constructData(id)), n, id) IN
         Sane(n, v) /\ (Idle(n, v) \/ Sees(n, v, id))
<1> DEFINE p == constructData(id)
           w == Cached(Work(n), p)
           w1 == SendDown(w, n, p)
           w2 == Waits(w1, n, id)
           w3 == Mark(w2, id)
           w4 == SendUp(w3, n, constructCACK(id))
<1>1. r2tData(w, n, id) = IF Seen(w, id) THEN w ELSE w4
  BY Zenon DEF r2tData
<1>2. p.op = "Data"
  BY DEF constructData, Packet
<1>3. /\ Sane(n, w)
      /\ NamesIn(w.s.cs) = NamesIn(node[n].cs) \cup {<<"Data", id>>}
      /\ w.s.transDataIDs = node[n].transDataIDs
      /\ w.s.csynStates = node[n].csynStates
      /\ w.down = <<>> /\ w.up = <<>>
  BY <1>2, CachedSane
<1> HIDE DEF w
<1>4. CASE Seen(w, id)
  BY <1>1, <1>3, <1>4 DEF Idle, w
<1>5. CASE ~Seen(w, id)
  <2>1. Shape(w) /\ ~w.null /\ w.down = <<>> /\ w.up = <<>>
    BY <1>3 DEF Sane
  <2> HIDE DEF p
  <2>2. Shape(w1) /\ w1.s = w.s /\ w1.up = <<>> /\ w1.null = w.null /\ (w1.down = <<>> \/ w1.down = <<p>>)
    <3>1. Shape(w1) /\ w1.s = w.s /\ w1.up = w.up /\ w1.null = w.null /\ (w1.down = <<>> \/ w1.down = <<p>>)
      BY <2>1, SentDown
    <3> QED BY <2>1, <3>1
  <2> HIDE DEF w1
  <2>3. /\ Shape(w2) /\ w2.down = w1.down /\ w2.up = <<>> /\ w2.null = w.null
        /\ w2.s.cs = w.s.cs /\ w2.s.transDataIDs = w.s.transDataIDs
        /\ w2.s.retranStates = w.s.retranStates
        /\ DOMAIN w.s.csynStates \subseteq DOMAIN w2.s.csynStates
        /\ DOMAIN w2.s.csynStates \subseteq DOMAIN w.s.csynStates \cup {id}
        /\ HasEntry(n, 1) => id \in DOMAIN w2.s.csynStates
    <3>1. Waiting(w1, w2, n, id)
      BY <2>2, WaitsFor
    <3> QED BY <2>2, <3>1 DEF Waiting
  <2> HIDE DEF w2
  <2>4. /\ Shape(w3) /\ w3.down = w1.down /\ w3.up = <<>> /\ w3.null = w.null
        /\ w3.s.cs = w.s.cs /\ w3.s.transDataIDs = w.s.transDataIDs \cup {id}
        /\ w3.s.csynStates = w2.s.csynStates /\ w3.s.retranStates = w.s.retranStates
    BY <2>3, MarkedId
  <2> HIDE DEF w3
  <2>5. /\ Shape(w4) /\ w4.s = w3.s /\ w4.down = w1.down /\ w4.null = w.null
        /\ w4.up = <<>> \/ w4.up = <<constructCACK(id)>>
    BY <2>4, SentUp
  <2> HIDE DEF w4
  <2>6. OwnState(w4.s)
    BY <1>3, <2>3, <2>4, <2>5 DEF OwnState, Sane
  <2>7. id \in w4.s.transDataIDs
    BY <2>4, <2>5
  <2>8. w4.down = <<>> \/ \E k \in DataIds : w4.down = <<constructData(k)>> /\ k \in w4.s.transDataIDs
    BY <2>2, <2>5, <2>7 DEF p
  <2>9. Sane(n, w4)
    BY <2>1, <2>5, <2>6, <2>8 DEF Sane
  <2>10. id \notin node[n].transDataIDs
    BY <1>3, <1>5 DEF Seen
  <2>11. Sees(n, w4, id)
    BY <1>3, <2>3, <2>4, <2>5, <2>10 DEF Sees
  <2> QED
    BY <1>1, <1>5, <2>9, <2>11 DEF w, p
<1> QED BY <1>4, <1>5

LEMMA CackEffect ==
  ASSUME OwnStates, R2tStore, NEW n \in Nodes, NEW id \in DataIds, id \in DOMAIN node[n].csynStates
  PROVE  LET v == r2tCACK(Cached(Work(n), constructCACK(id)), id) IN
         Sane(n, v) /\ Acked(n, v, id)
<1> DEFINE p == constructCACK(id)
           w == Cached(Work(n), p)
           v == r2tCACK(w, id)
<1>1. /\ Sane(n, w)
      /\ w.s.transDataIDs = node[n].transDataIDs
      /\ w.s.csynStates = node[n].csynStates
      /\ w.down = <<>> /\ w.up = <<>>
  BY CachedSane
<1> HIDE DEF w
<1>2. /\ Shape(v) /\ v.null = (maxCSynTimes >= 1 /\ id \notin DOMAIN w.s.csynStates)
      /\ v.down = <<>> /\ v.up = <<>> /\ v.s.cs = w.s.cs
      /\ v.s.transDataIDs = w.s.transDataIDs
      /\ v.s.csynStates = Removed(w.s.csynStates, {id})
      /\ v.s.retranStates = w.s.retranStates
  BY <1>1 DEF r2tCACK, Sane, Shape, NodeFields
<1> HIDE DEF v
<1>3. ~v.null
  BY <1>1, <1>2
<1>4. DOMAIN v.s.csynStates = DOMAIN node[n].csynStates \ {id}
  BY <1>1, <1>2 DEF Removed, Restrict
<1>5. OwnState(v.s)
  BY <1>1, <1>2, <1>4 DEF OwnState, Sane
<1>6. Sane(n, v) /\ Acked(n, v, id)
  BY <1>1, <1>2, <1>3, <1>4, <1>5 DEF Sane, Acked
<1> QED BY <1>6 DEF v, w, p

LEMMA TimerEffect ==
  ASSUME OwnStates, R2tStore, NEW n \in Nodes, NEW id \in DOMAIN node[n].csynStates
  PROVE  LET v == waitingCACK(Work(n), n, id) IN Sane(n, v) /\ Idle(n, v)
<1> DEFINE w == Work(n)
           again == [times |-> w.s.csynStates[id].times + 1,
                     set |-> Again(w.s.csynStates[id].times + 1)]
           k == lookupInCs(w.s.cs, id)
           c == beforeUse(w.s.cs, k)
           u == Used(w, id)
           t == [u EXCEPT !.s.csynStates = Set(@, id, again)]
           v == SendDown(t, n, constructData(id))
<1>1. Sane(n, w) /\ w.s = node[n] /\ w.down = <<>> /\ w.up = <<>>
  BY WorkSane
<1>2. waitingCACK(w, n, id) = IF lookupInCs(w.s.cs, id) = 0 THEN [w EXCEPT !.null = TRUE] ELSE v
  BY Zenon DEF waitingCACK
<1>3. Complete(w.s.cs) /\ <<"Data", id>> \in NamesIn(w.s.cs)
  BY <1>1 DEF Sane, OwnState
<1>4. k # 0 /\ k \in 1 .. Len(w.s.cs)
  BY <1>3, LookupFinds
<1>5. id \in DataIds /\ id \in node[n].transDataIDs
  BY DEF OwnStates, OwnState
<1> HIDE DEF w, k
<1>6. Complete(c) /\ NamesIn(c) = NamesIn(w.s.cs)
  BY <1>3, <1>4, MovedStores DEF beforeUse
<1>7. u = [w EXCEPT !.s.cs = c]
  BY Zenon DEF Used, k
<1> HIDE DEF c, u, again
<1>8. /\ Shape(u) /\ u.null = w.null /\ u.down = <<>> /\ u.up = <<>>
      /\ u.s.cs = c /\ u.s.transDataIDs = w.s.transDataIDs /\ u.s.csynStates = w.s.csynStates
      /\ u.s.retranStates = w.s.retranStates
  BY <1>1, <1>7 DEF Sane, Shape, NodeFields
<1>9. /\ Shape(t) /\ t.null = w.null /\ t.down = <<>> /\ t.up = <<>>
      /\ t.s.cs = c /\ t.s.transDataIDs = w.s.transDataIDs
      /\ t.s.csynStates = Set(w.s.csynStates, id, again)
      /\ t.s.retranStates = w.s.retranStates
  BY <1>8 DEF Shape, NodeFields
<1> HIDE DEF t
<1>10. DOMAIN t.s.csynStates = DOMAIN node[n].csynStates
  <2>1. DOMAIN t.s.csynStates = DOMAIN node[n].csynStates \cup {id}
    <3>1. t.s.csynStates = Set(node[n].csynStates, id, again)
      BY <1>1, <1>9
    <3>2. DOMAIN Set(node[n].csynStates, id, again) = DOMAIN node[n].csynStates \cup {id}
      BY SetDomain
    <3> QED BY <3>1, <3>2
  <2> QED BY <2>1
<1>11. /\ Shape(v) /\ v.s = t.s /\ v.up = <<>> /\ v.null = w.null
       /\ v.down = <<>> \/ v.down = <<constructData(id)>>
  BY <1>9, SentDown
<1> HIDE DEF v
<1>12. OwnState(v.s)
  BY <1>1, <1>6, <1>9, <1>10, <1>11 DEF OwnState, Sane
<1>13. v.down = <<>> \/ \E j \in DataIds : v.down = <<constructData(j)>> /\ j \in v.s.transDataIDs
  BY <1>1, <1>5, <1>9, <1>11
<1>14. Sane(n, v) /\ Idle(n, v)
  BY <1>1, <1>9, <1>10, <1>11, <1>12, <1>13 DEF Sane, Idle
<1>15. waitingCACK(w, n, id) = v
  BY <1>2, <1>4 DEF k
<1> QED BY <1>14, <1>15 DEF w

LEMMA InterestEffect ==
  ASSUME OwnStates, NEW n \in Nodes
  PROVE  LET v == afterReceiveInterest(n) IN Sane(n, v) /\ Idle(n, v)
<1> DEFINE w == Work(n)
           t == [w EXCEPT !.s.pit = TRUE]
           v == SendUp(t, n, Interest)
<1>1. Sane(n, w) /\ Idle(n, w) /\ w.s = node[n] /\ w.down = <<>> /\ w.up = <<>>
  BY WorkSane
<1>2. afterReceiveInterest(n) = IF node[n].pit THEN w ELSE v
  BY Zenon DEF afterReceiveInterest
<1> HIDE DEF w
<1>3. /\ Shape(t) /\ t.null = w.null /\ t.down = <<>> /\ t.up = <<>>
      /\ t.s.cs = w.s.cs /\ t.s.transDataIDs = w.s.transDataIDs /\ t.s.csynStates = w.s.csynStates
      /\ t.s.retranStates = w.s.retranStates
  BY <1>1 DEF Sane, Shape, NodeFields
<1> HIDE DEF t
<1>4. /\ Shape(v) /\ v.s = t.s /\ v.down = <<>> /\ v.null = w.null
      /\ v.up = <<>> \/ v.up = <<Interest>>
  BY <1>3, SentUp
<1> HIDE DEF v
<1>5. Sane(n, v) /\ Idle(n, v)
  BY <1>1, <1>3, <1>4 DEF Sane, OwnState, Idle
<1> QED BY <1>1, <1>2, <1>5
-----------------------------------------------------------------------------
(* A hop between two nodes, a and b, with what is on its way down and up. *)

\* A CACK is there once.
Once(s) == \A i, j \in 1 .. Len(s) : s[i] = s[j] /\ s[i] # Interest => i = j

\* Sequence t without some elements of s.
Fewer(t, s) == (\A x : Holds(t, x) => Holds(s, x)) /\ (Once(s) => Once(t))

\* Data on its way has been seen by a.  What b has not seen, a waits for, and a
\* CACK on its way is of an id that b has seen and a still waits for.
Hop(a, b, d, u) ==
  /\ \A id \in DataIds : Holds(d, constructData(id)) => id \in a.transDataIDs
  /\ \A id \in a.transDataIDs : id \in b.transDataIDs \/ id \in DOMAIN a.csynStates
  /\ \A id \in DataIds : Holds(u, constructCACK(id)) =>
       id \in b.transDataIDs /\ id \in DOMAIN a.csynStates
  /\ Once(u)

LEMMA TailFewer ==
  ASSUME NEW S, NEW s \in Seq(S), s # <<>>
  PROVE  /\ Tail(s) \in Seq(S) /\ Fewer(Tail(s), s)
         /\ Head(s) \in S /\ Holds(s, Head(s))
         /\ Once(s) /\ Head(s) # Interest => ~Holds(Tail(s), Head(s))
<1> DEFINE t == Tail(s)
<1>1. /\ Len(s) \in Nat /\ Len(s) >= 1
      /\ Head(s) = s[1] /\ Head(s) \in S
      /\ t \in Seq(S) /\ Len(t) = Len(s) - 1
      /\ \A i \in 1 .. Len(t) : t[i] = s[i + 1]
  <2>1. Len(s) \in Nat /\ Len(s) # 0
    BY EmptySeq, LenProperties
  <2>2. Tail(s) \in Seq(S) /\ Len(Tail(s)) = Len(s) - 1
        /\ \A i \in 1 .. Len(Tail(s)) : Tail(s)[i] = s[i + 1]
    BY HeadTailProperties
  <2>3. Head(s) = s[1] /\ Head(s) \in S
    BY <2>1, HeadTailProperties
  <2> QED BY <2>1, <2>2, <2>3
<1> HIDE DEF t
<1>2. \A i \in 1 .. Len(t) : i + 1 \in 1 .. Len(s) /\ t[i] = s[i + 1]
  BY <1>1
<1>3. \A x : Holds(t, x) => Holds(s, x)
  BY <1>2 DEF Holds
<1>4. ASSUME Once(s) PROVE Once(t)
  <2> SUFFICES ASSUME NEW i \in 1 .. Len(t), NEW j \in 1 .. Len(t), t[i] = t[j], t[i] # Interest
               PROVE  i = j
    BY DEF Once
  <2>1. i + 1 = j + 1
    BY <1>2, <1>4 DEF Once
  <2> QED BY <1>1, <2>1
<1>5. ASSUME Once(s), Head(s) # Interest, Holds(t, Head(s)) PROVE FALSE
  <2>1. PICK i \in 1 .. Len(t) : t[i] = Head(s)
    BY <1>5 DEF Holds
  <2>2. 1 \in 1 .. Len(s) /\ s[1] = s[i + 1] /\ i + 1 \in 1 .. Len(s) /\ s[1] # Interest
    BY <1>1, <1>2, <1>5, <2>1
  <2>3. 1 = i + 1
    BY <1>5, <2>2 DEF Once
  <2> QED BY <1>1, <2>1, <2>3
<1>6. Holds(s, Head(s))
  <2>1. 1 \in 1 .. Len(s) /\ s[1] = Head(s)
    BY <1>1
  <2> QED BY <2>1 DEF Holds
<1> QED BY <1>1, <1>3, <1>4, <1>5, <1>6 DEF Fewer, t

LEMMA OneMore ==
  ASSUME NEW S, NEW s \in Seq(S), NEW x \in S
  PROVE  /\ s \o <<x>> \in Seq(S)
         /\ \A y : Holds(s \o <<x>>, y) => Holds(s, y) \/ y = x
         /\ Once(s) /\ (x = Interest \/ ~Holds(s, x)) => Once(s \o <<x>>)
<1> DEFINE t == s \o <<x>>
<1>1. /\ Len(s) \in Nat
      /\ t \in Seq(S) /\ Len(t) = Len(s) + 1
      /\ \A i \in 1 .. Len(s) : t[i] = s[i]
      /\ t[Len(s) + 1] = x
  <2>1. t = Append(s, x)
    BY AppendIsConcat
  <2> HIDE DEF t
  <2> QED BY <2>1, AppendProperties
<1> HIDE DEF t
<1>2. \A i \in 1 .. Len(t) : i \in 1 .. Len(s) \/ i = Len(s) + 1
  BY <1>1
<1>3. \A y : Holds(t, y) => Holds(s, y) \/ y = x
  BY <1>1, <1>2 DEF Holds
<1>4. ASSUME Once(s), x = Interest \/ ~Holds(s, x) PROVE Once(t)
  <2> SUFFICES ASSUME NEW i \in 1 .. Len(t), NEW j \in 1 .. Len(t), t[i] = t[j], t[i] # Interest
               PROVE  i = j
    BY DEF Once
  <2>1. CASE i \in 1 .. Len(s) /\ j \in 1 .. Len(s)
    BY <1>1, <1>4, <2>1 DEF Once
  <2>2. CASE i = Len(s) + 1 /\ j \in 1 .. Len(s)
    BY <1>1, <1>4, <2>2 DEF Holds
  <2>3. CASE i \in 1 .. Len(s) /\ j = Len(s) + 1
    BY <1>1, <1>4, <2>3 DEF Holds
  <2> QED BY <1>2, <2>1, <2>2, <2>3
<1> QED BY <1>1, <1>3, <1>4 DEF t

LEMMA IdOfPacket ==
  ASSUME NEW i, NEW j
  PROVE  /\ constructData(i) = constructData(j) => i = j
         /\ constructCACK(i) = constructCACK(j) => i = j
         /\ constructCACK(i) # Interest
         /\ constructData(i).op = "Data" /\ constructData(i).dataID = i
         /\ constructCACK(i).op = "CACK" /\ constructCACK(i).dataID = i
         /\ Interest.op = "Interest"
  BY DEF constructData, constructCACK, Interest, Packet

\* The nearer end of a hop is node n, which hands w.down on.
LEMMA NearEnd ==
  ASSUME NEW n \in Nodes, HasEntry(n, 1), NEW w, Sane(n, w), NEW b, NEW d, NEW u, NEW d2, NEW u2,
         d2 \in Seq(DataPackets), Fewer(d2, d), Fewer(u2, u), Hop(node[n], b, d, u),
         \/ Idle(n, w)
         \/ \E id \in DataIds : Sees(n, w, id)
         \/ \E id \in DataIds : Acked(n, w, id) /\ Holds(u, constructCACK(id)) /\ ~Holds(u2, constructCACK(id))
  PROVE  Hop(w.s, b, d2 \o w.down, u2) /\ d2 \o w.down \in Seq(DataPackets)
<1> DEFINE a == node[n]
<1>1. /\ \A id \in DataIds : Holds(d2, constructData(id)) => id \in a.transDataIDs
      /\ \A id \in a.transDataIDs : id \in b.transDataIDs \/ id \in DOMAIN a.csynStates
      /\ \A id \in DataIds : Holds(u2, constructCACK(id)) =>
           id \in b.transDataIDs /\ id \in DOMAIN a.csynStates
      /\ Once(u2)
  BY DEF Hop, Fewer
<1>2. a.transDataIDs \subseteq w.s.transDataIDs
  BY DEF Idle, Sees, Acked
<1>3. /\ d2 \o w.down \in Seq(DataPackets)
      /\ \A id \in DataIds : Holds(d2 \o w.down, constructData(id)) => id \in w.s.transDataIDs
  <2>1. CASE w.down = <<>>
    <3>1. d2 \o w.down = d2
      BY <2>1
    <3> QED BY <1>1, <1>2, <3>1
  <2>2. ASSUME NEW id \in DataIds, w.down = <<constructData(id)>>, id \in w.s.transDataIDs
        PROVE  /\ d2 \o w.down \in Seq(DataPackets)
               /\ \A k \in DataIds : Holds(d2 \o w.down, constructData(k)) => k \in w.s.transDataIDs
    <3> DEFINE x == constructData(id)
               t == d2 \o <<x>>
    <3>1. x \in DataPackets
      BY DEF DataPackets
    <3>2. \A k : constructData(k) = x => k = id
      BY IdOfPacket
    <3> HIDE DEF x
    <3>3. t \in Seq(DataPackets) /\ \A y : Holds(t, y) => Holds(d2, y) \/ y = x
      BY <3>1, OneMore
    <3> HIDE DEF t
    <3>4. \A k \in DataIds : Holds(t, constructData(k)) => k \in w.s.transDataIDs
      BY <1>1, <1>2, <2>2, <3>2, <3>3
    <3>5. d2 \o w.down = t
      BY <2>2 DEF t, x
    <3> QED BY <3>3, <3>4, <3>5
  <2> QED BY <2>1, <2>2 DEF Sane
<1>4. CASE Idle(n, w)
  BY <1>1, <1>3, <1>4 DEF Idle, Hop
<1>5. ASSUME NEW id \in DataIds, Sees(n, w, id) PROVE Hop(w.s, b, d2 \o w.down, u2)
  BY <1>1, <1>3, <1>5 DEF Sees, Hop
<1>6. ASSUME NEW id \in DataIds, Acked(n, w, id), Holds(u, constructCACK(id)), ~Holds(u2, constructCACK(id))
      PROVE  Hop(w.s, b, d2 \o w.down, u2)
  <2>1. id \in b.transDataIDs
    BY <1>6 DEF Hop
  <2> QED BY <1>1, <1>3, <1>6, <2>1 DEF Acked, Hop
<1> QED BY <1>3, <1>4, <1>5, <1>6

\* The farther end of a hop is node n, which sends w.up back.
LEMMA FarEnd ==
  ASSUME NEW n \in Nodes, NEW w, Sane(n, w), NEW a, NEW d, NEW u, NEW d2, NEW u2,
         u2 \in Seq(UpPackets), Fewer(d2, d), Fewer(u2, u), Hop(a, node[n], d, u),
         \/ Idle(n, w)
         \/ \E id \in DataIds : Sees(n, w, id) /\ id \in a.transDataIDs
         \/ \E id \in DataIds : Acked(n, w, id)
  PROVE  Hop(a, w.s, d2, u2 \o w.up) /\ u2 \o w.up \in Seq(UpPackets)
<1> DEFINE b == node[n]
<1>1. /\ \A id \in DataIds : Holds(d2, constructData(id)) => id \in a.transDataIDs
      /\ \A id \in a.transDataIDs : id \in b.transDataIDs \/ id \in DOMAIN a.csynStates
      /\ \A id \in DataIds : Holds(u2, constructCACK(id)) =>
           id \in b.transDataIDs /\ id \in DOMAIN a.csynStates
      /\ Once(u2)
  BY DEF Hop, Fewer
<1>2. b.transDataIDs \subseteq w.s.transDataIDs
  BY DEF Idle, Sees, Acked
<1>3. CASE w.up = <<>>
  <2>1. u2 \o w.up = u2
    BY <1>3
  <2> QED BY <1>1, <1>2, <2>1 DEF Hop
<1>4. ASSUME NEW x \in UpPackets, w.up = <<x>>,
             x = Interest \/ \E id \in DataIds : x = constructCACK(id) /\ Sees(n, w, id) /\ id \in a.transDataIDs
      PROVE  Hop(a, w.s, d2, u2 \o w.up) /\ u2 \o w.up \in Seq(UpPackets)
  <2> DEFINE t == u2 \o <<x>>
  <2>1. /\ t \in Seq(UpPackets) /\ \A y : Holds(t, y) => Holds(u2, y) \/ y = x
        /\ Once(u2) /\ (x = Interest \/ ~Holds(u2, x)) => Once(t)
    BY OneMore
  <2>2. u2 \o w.up = t
    BY <1>4
  <2> HIDE DEF t
  <2>3. CASE x = Interest
    <3>1. \A id : constructCACK(id) # x
      BY <2>3, IdOfPacket
    <3> QED BY <1>1, <1>2, <2>1, <2>2, <2>3, <3>1 DEF Hop
  <2>4. ASSUME NEW id \in DataIds, x = constructCACK(id), Sees(n, w, id), id \in a.transDataIDs
        PROVE  Hop(a, w.s, d2, u2 \o w.up)
    <3>1. \A k : constructCACK(k) = x => k = id
      BY <2>4, IdOfPacket
    <3>2. id \notin b.transDataIDs /\ id \in w.s.transDataIDs
      BY <2>4 DEF Sees
    <3>3. ~Holds(u2, x)
      BY <1>1, <2>4, <3>2
    <3>4. id \in DOMAIN a.csynStates
      BY <1>1, <2>4, <3>2
    <3>5. \A k \in DataIds : Holds(t, constructCACK(k)) => k \in w.s.transDataIDs /\ k \in DOMAIN a.csynStates
      BY <1>1, <1>2, <2>1, <3>1, <3>2, <3>4
    <3> QED BY <1>1, <1>2, <2>1, <2>2, <3>3, <3>5 DEF Hop
  <2> QED BY <1>4, <2>1, <2>2, <2>3, <2>4
<1>5. Interest \in UpPackets /\ \A id \in DataIds : constructCACK(id) \in UpPackets
  BY DEF UpPackets
<1>6. CASE Idle(n, w)
  BY <1>3, <1>4, <1>5, <1>6 DEF Idle
<1>7. ASSUME NEW id \in DataIds, Sees(n, w, id), id \in a.transDataIDs
      PROVE  Hop(a, w.s, d2, u2 \o w.up) /\ u2 \o w.up \in Seq(UpPackets)
  BY <1>3, <1>4, <1>5, <1>7 DEF Sees
<1>8. ASSUME NEW id \in DataIds, Acked(n, w, id)
      PROVE  Hop(a, w.s, d2, u2 \o w.up) /\ u2 \o w.up \in Seq(UpPackets)
  BY <1>3, <1>8 DEF Acked
<1> QED BY <1>6, <1>7, <1>8
-----------------------------------------------------------------------------
(* The steps of R2T. *)

Hops(nodes, d, u) == \A n \in Nodes : HasEntry(n, 1) => Hop(nodes[n], nodes[n + 1], d[n], u[n + 1])

R2tInv ==
  /\ OwnStates
  /\ down \in [Nodes -> Seq(DataPackets)]
  /\ up \in [Nodes -> Seq(UpPackets)]
  /\ Hops(node, down, up)
  /\ next \in Nat
  /\ ~crashed

\* What links hold after some packets were taken off.
Taken(downs, ups) ==
  /\ downs \in [Nodes -> Seq(DataPackets)]
  /\ ups \in [Nodes -> Seq(UpPackets)]
  /\ \A n \in Nodes : Fewer(downs[n], down[n]) /\ Fewer(ups[n], up[n])

\* A handler of node n that does what the packet it got allows.
Effect(n, w, ups) ==
  /\ Sane(n, w)
  /\ \/ Idle(n, w)
     \/ \E id \in DataIds : Sees(n, w, id) /\ (n > 1 => id \in node[n - 1].transDataIDs)
     \/ \E id \in DataIds :
          /\ Acked(n, w, id)
          /\ HasEntry(n, 1)
          /\ Holds(up[n + 1], constructCACK(id))
          /\ ~Holds(ups[n + 1], constructCACK(id))

LEMMA DoneR2t ==
  ASSUME R2tInv, NEW n \in Nodes, NEW w, NEW downs, NEW ups, Taken(downs, ups), Effect(n, w, ups),
         Done(w, n, downs, ups), next' \in Nat
  PROVE  R2tInv'
<1>1. /\ node' = [node EXCEPT ![n] = w.s]
      /\ down' = [downs EXCEPT ![n] = downs[n] \o w.down]
      /\ up' = [ups EXCEPT ![n] = ups[n] \o w.up]
      /\ crashed' = w.null
  BY DEF Done
<1>2. /\ DOMAIN node = Nodes /\ \A m \in Nodes : DOMAIN node[m] = NodeFields /\ OwnState(node[m])
      /\ Sane(n, w) /\ Hops(node, down, up)
  BY DEF R2tInv, OwnStates, Effect
<1>3. /\ downs \in [Nodes -> Seq(DataPackets)] /\ ups \in [Nodes -> Seq(UpPackets)]
      /\ \A m \in Nodes : Fewer(downs[m], down[m]) /\ Fewer(ups[m], up[m])
  BY DEF Taken
<1>4. /\ DOMAIN node' = Nodes /\ node'[n] = w.s
      /\ \A m \in Nodes : m # n => node'[m] = node[m]
  BY <1>1, <1>2
<1>5. /\ DOMAIN down' = Nodes /\ down'[n] = downs[n] \o w.down
      /\ \A m \in Nodes : m # n => down'[m] = downs[m]
  BY <1>1, <1>3
<1>6. /\ DOMAIN up' = Nodes /\ up'[n] = ups[n] \o w.up
      /\ \A m \in Nodes : m # n => up'[m] = ups[m]
  BY <1>1, <1>3
<1>7. \A m \in Nodes : DOMAIN node'[m] = NodeFields /\ OwnState(node'[m])
  BY <1>2, <1>4 DEF Sane, Shape
<1>8. downs[n] \o w.down \in Seq(DataPackets) /\ ups[n] \o w.up \in Seq(UpPackets)
  <2>1. ASSUME NEW T, NEW s \in Seq(T), NEW t \in Seq(T) PROVE s \o t \in Seq(T)
    BY <2>1, ConcatProperties
  <2>2. w.down \in Seq(DataPackets)
    <3>1. \A x \in DataPackets : <<x>> \in Seq(DataPackets)
      OBVIOUS
    <3>2. \A id \in DataIds : constructData(id) \in DataPackets
      BY DEF DataPackets
    <3>3. <<>> \in Seq(DataPackets)
      OBVIOUS
    <3> QED BY <1>2, <3>1, <3>2, <3>3 DEF Sane
  <2>3. w.up \in Seq(UpPackets)
    <3>1. \A x \in UpPackets : <<x>> \in Seq(UpPackets)
      OBVIOUS
    <3>2. Interest \in UpPackets /\ \A id \in DataIds : constructCACK(id) \in UpPackets
      BY DEF UpPackets
    <3>3. <<>> \in Seq(UpPackets)
      OBVIOUS
    <3> QED BY <3>1, <3>2, <3>3 DEF Effect, Idle, Sees, Acked
  <2>4. downs[n] \in Seq(DataPackets) /\ ups[n] \in Seq(UpPackets)
    BY <1>3
  <2> QED BY <2>1, <2>2, <2>3, <2>4
<1>9. down' \in [Nodes -> Seq(DataPackets)] /\ up' \in [Nodes -> Seq(UpPackets)]
  BY <1>1, <1>3, <1>8
<1>10. ASSUME NEW m \in Nodes, HasEntry(m, 1)
       PROVE  Hop(node'[m], node'[m + 1], down'[m], up'[m + 1])
  <2>1. /\ m \in Nat /\ N \in Nat /\ m < N /\ m >= 1 /\ m + 1 \in Nodes /\ m + 1 # m
        /\ (m + 1) - 1 = m /\ m + 1 > 1
    BY <1>10, StreamingAssumption DEF Nodes, HasEntry
  <2>2. Hop(node[m], node[m + 1], down[m], up[m + 1])
    BY <1>2, <1>10 DEF Hops
  <2>3. Fewer(downs[m], down[m]) /\ Fewer(ups[m + 1], up[m + 1])
        /\ downs[m] \in Seq(DataPackets) /\ ups[m + 1] \in Seq(UpPackets)
    BY <1>3, <2>1
  <2>4. CASE n = m
    <3>1. node'[m] = w.s /\ node'[m + 1] = node[m + 1]
          /\ down'[m] = downs[m] \o w.down /\ up'[m + 1] = ups[m + 1]
      BY <1>4, <1>5, <1>6, <2>1, <2>4
    <3>2. \/ Idle(n, w)
          \/ \E id \in DataIds : Sees(n, w, id)
          \/ \E id \in DataIds : /\ Acked(n, w, id)
                                 /\ Holds(up[m + 1], constructCACK(id))
                                 /\ ~Holds(ups[m + 1], constructCACK(id))
      BY <2>4 DEF Effect
    <3>3. Hop(w.s, node[m + 1], downs[m] \o w.down, ups[m + 1])
      BY <1>2, <1>10, <2>2, <2>3, <2>4, <3>2, NearEnd
    <3> QED BY <3>1, <3>3
  <2>5. CASE n = m + 1
    <3>1. node'[m + 1] = w.s /\ node'[m] = node[m]
          /\ down'[m] = downs[m] /\ up'[m + 1] = ups[m + 1] \o w.up
      BY <1>4, <1>5, <1>6, <2>1, <2>5
    <3>2. \/ Idle(n, w)
          \/ \E id \in DataIds : Sees(n, w, id) /\ id \in node[m].transDataIDs
          \/ \E id \in DataIds : Acked(n, w, id)
      BY <2>1, <2>5 DEF Effect
    <3>3. Hop(node[m], w.s, downs[m], ups[m + 1] \o w.up)
      BY <1>2, <2>2, <2>3, <2>5, <3>2, FarEnd
    <3> QED BY <3>1, <3>3
  <2>6. CASE n # m /\ n # m + 1
    <3>1. node'[m] = node[m] /\ node'[m + 1] = node[m + 1]
          /\ down'[m] = downs[m] /\ up'[m + 1] = ups[m + 1]
      BY <1>4, <1>5, <1>6, <2>1, <2>6
    <3> QED BY <2>2, <2>3, <3>1 DEF Hop, Fewer
  <2> QED BY <2>4, <2>5, <2>6
<1>11. ~crashed'
  BY <1>1, <1>2 DEF Sane
<1> QED
  BY <1>4, <1>7, <1>9, <1>10, <1>11 DEF R2tInv, OwnStates, Hops

\* Nothing is taken off the links.
LEMMA NoneTaken == ASSUME R2tInv PROVE Taken(down, up)
  BY DEF R2tInv, Taken, Fewer

LEMMA R2tDataReceived ==
  ASSUME R2tInv, R2tStore, strategy = "r2t", NEW n \in Nodes, NEW id \in DataIds,
         NEW w \in afterReceiveData(n, constructData(id)), n > 1 => id \in node[n - 1].transDataIDs, NEW ups
  PROVE  Effect(n, w, ups)
<1> DEFINE p == constructData(id)
           c == Cached(Work(n), p)
<1>1. p.op = "Data" /\ p.dataID = id
  BY IdOfPacket
<1>2. w = r2t(c, n, p)
  BY DEF afterReceiveData
<1>3. w = r2tData(c, n, id)
  <2> HIDE DEF p, c
  <2> QED BY <1>1, <1>2 DEF r2t
<1>4. OwnStates
  BY DEF R2tInv
<1>5. Sane(n, w) /\ (Idle(n, w) \/ Sees(n, w, id))
  BY <1>3, <1>4, DataEffect
<1> QED BY <1>5 DEF Effect

LEMMA R2tCackReceived ==
  ASSUME R2tInv, R2tStore, strategy = "r2t", NEW n \in Nodes, NEW id \in DataIds, HasEntry(n, 1),
         NEW w \in afterReceiveData(n, constructCACK(id)), NEW ups,
         Holds(up[n + 1], constructCACK(id)), ~Holds(ups[n + 1], constructCACK(id))
  PROVE  Effect(n, w, ups)
<1> DEFINE p == constructCACK(id)
           c == Cached(Work(n), p)
<1>1. p.op = "CACK" /\ p.dataID = id
  BY IdOfPacket
<1>2. w = r2t(c, n, p)
  BY DEF afterReceiveData
<1>3. w = r2tCACK(c, id)
  <2> HIDE DEF p, c
  <2> QED BY <1>1, <1>2 DEF r2t
<1>4. OwnStates /\ Hop(node[n], node[n + 1], down[n], up[n + 1])
  BY DEF R2tInv, Hops
<1>5. id \in DOMAIN node[n].csynStates
  BY <1>4 DEF Hop
<1>6. Sane(n, w) /\ Acked(n, w, id)
  BY <1>3, <1>4, <1>5, CackEffect
<1> QED BY <1>6 DEF Effect

LEMMA IdleEffect ==
  ASSUME NEW n, NEW w, Sane(n, w), Idle(n, w), NEW ups
  PROVE  Effect(n, w, ups)
  BY DEF Effect

LEMMA R2tStep ==
  ASSUME R2tInv, R2tStore, strategy = "r2t", Next
  PROVE  R2tInv'
<1>0. /\ OwnStates /\ next \in Nat /\ Taken(down, up)
      /\ down \in [Nodes -> Seq(DataPackets)] /\ up \in [Nodes -> Seq(UpPackets)]
      /\ \A n \in Nodes : Fewer(down[n], down[n]) /\ Fewer(up[n], up[n])
  BY NoneTaken DEF R2tInv, Taken
<1>1. CASE SendInterest
  <2>1. Effect(N, afterReceiveInterest(N), up)
    BY <1>0, NodesHaveEnds, InterestEffect, IdleEffect
  <2> QED BY <1>0, <1>1, <2>1, NodesHaveEnds, DoneR2t DEF SendInterest
<1>2. CASE sendData
  <2>1. next \in DataIds
    BY <1>0, <1>2 DEF sendData, DataIds, R2tStore
  <2>2. PICK w \in afterReceiveData(1, constructData(next)) : Done(w, 1, down, up)
    BY <1>2 DEF sendData
  <2>3. Effect(1, w, up)
    BY <2>1, <2>2, NodesHaveEnds, R2tDataReceived
  <2>4. next' \in Nat
    BY <1>0, <1>2 DEF sendData
  <2> QED BY <1>0, <2>2, <2>3, <2>4, NodesHaveEnds, DoneR2t
<1>3. ASSUME NEW n \in Nodes, ReceiveDown(n) PROVE R2tInv'
  <2> DEFINE p == Head(down[n])
             downs == [down EXCEPT ![n] = Tail(@)]
  <2>1. HasEntry(n, 1) /\ down[n] # <<>> /\ next' = next
    BY <1>3 DEF ReceiveDown
  <2>2. PICK w \in Received(n + 1, p) : Done(w, n + 1, downs, up)
    BY <1>3 DEF ReceiveDown
  <2>3. n + 1 \in Nodes /\ (n + 1) - 1 = n
    BY <2>1, NodesHaveEnds DEF HasEntry, Nodes
  <2>4. Tail(down[n]) \in Seq(DataPackets) /\ Fewer(Tail(down[n]), down[n])
        /\ p \in DataPackets /\ Holds(down[n], p)
    <3>1. down[n] \in Seq(DataPackets)
      BY <1>0
    <3> QED BY <2>1, <3>1, TailFewer
  <2> HIDE DEF p
  <2>5. Taken(downs, up)
    BY <1>0, <2>4 DEF Taken
  <2>6. PICK id \in DataIds : p = constructData(id)
    BY <2>4 DEF DataPackets
  <2>7. id \in node[n].transDataIDs
    BY <2>1, <2>4, <2>6 DEF R2tInv, Hops, Hop
  <2>8. p.op = "Data"
    BY <2>6, IdOfPacket
  <2>9. w = Work(n + 1) \/ w \in afterReceiveData(n + 1, p)
    BY <2>2, <2>8 DEF Received
  <2>10. Effect(n + 1, w, up)
    <3>1. CASE w = Work(n + 1)
      BY <1>0, <2>3, <3>1, WorkSane, IdleEffect
    <3>2. CASE w \in afterReceiveData(n + 1, p)
      BY <2>3, <2>6, <2>7, <3>2, R2tDataReceived
    <3> QED BY <2>9, <3>1, <3>2
  <2> HIDE DEF downs
  <2> QED BY <1>0, <2>1, <2>2, <2>3, <2>5, <2>10, DoneR2t
<1>4. ASSUME NEW n \in Nodes, ReceiveUp(n) PROVE R2tInv'
  <2> DEFINE p == Head(up[n])
             ups == [up EXCEPT ![n] = Tail(@)]
  <2>1. HasEntry(n, 0) /\ up[n] # <<>> /\ next' = next
    BY <1>4 DEF ReceiveUp
  <2>2. PICK w \in Received(n - 1, p) : Done(w, n - 1, down, ups)
    BY <1>4 DEF ReceiveUp
  <2>3. n - 1 \in Nodes /\ (n - 1) + 1 = n /\ HasEntry(n - 1, 1)
    BY <2>1, NodesHaveEnds DEF HasEntry, Nodes
  <2>4. Tail(up[n]) \in Seq(UpPackets) /\ Fewer(Tail(up[n]), up[n])
        /\ p \in UpPackets /\ Holds(up[n], p) /\ (Once(up[n]) /\ p # Interest => ~Holds(Tail(up[n]), p))
    <3>1. up[n] \in Seq(UpPackets)
      BY <1>0
    <3> QED BY <2>1, <3>1, TailFewer
  <2>5. Once(up[n])
    BY <2>3 DEF R2tInv, Hops, Hop
  <2>6. ups[n] = Tail(up[n])
    BY <1>0
  <2> HIDE DEF p
  <2>7. Taken(down, ups)
    BY <1>0, <2>4 DEF Taken
  <2> HIDE DEF ups
  <2>8. CASE p = Interest
    <3>1. w = afterReceiveInterest(n - 1)
      BY <2>2, <2>8 DEF Received, Interest, Packet
    <3>2. Effect(n - 1, w, ups)
      BY <1>0, <2>3, <3>1, InterestEffect, IdleEffect
    <3> QED BY <1>0, <2>1, <2>2, <2>3, <2>7, <3>2, DoneR2t
  <2>9. ASSUME NEW id \in DataIds, p = constructCACK(id) PROVE R2tInv'
    <3>1. p.op = "CACK" /\ p # Interest
      BY <2>9, IdOfPacket
    <3>2. w = Work(n - 1) \/ w \in afterReceiveData(n - 1, p)
      BY <2>2, <3>1 DEF Received
    <3>3. Holds(up[(n - 1) + 1], p) /\ ~Holds(ups[(n - 1) + 1], p)
      BY <2>3, <2>4, <2>5, <2>6, <3>1
    <3>4. Effect(n - 1, w, ups)
      <4>1. CASE w = Work(n - 1)
        BY <1>0, <2>3, <4>1, WorkSane, IdleEffect
      <4>2. CASE w \in afterReceiveData(n - 1, p)
        BY <2>3, <2>9, <3>3, <4>2, R2tCackReceived
      <4> QED BY <3>2, <4>1, <4>2
    <3> QED BY <1>0, <2>1, <2>2, <2>3, <2>7, <3>4, DoneR2t
  <2> QED BY <2>4, <2>8, <2>9 DEF UpPackets
<1>5. ASSUME NEW n \in Nodes, Timer(n) PROVE R2tInv'
  <2>1. next' = next
    BY <1>5 DEF Timer
  <2>2. CASE \E id \in DOMAIN node[n].csynStates : Done(waitingCACK(Work(n), n, id), n, down, up)
    <3>1. PICK id \in DOMAIN node[n].csynStates : Done(waitingCACK(Work(n), n, id), n, down, up)
      BY <2>2
    <3>2. Effect(n, waitingCACK(Work(n), n, id), up)
      BY <1>0, TimerEffect, IdleEffect
    <3> QED BY <1>0, <2>1, <3>1, <3>2, DoneR2t
  <2>3. DOMAIN node[n].retranStates = {}
    BY <1>0 DEF OwnStates, OwnState
  <2> QED BY <1>5, <2>2, <2>3 DEF Timer
<1>6. ASSUME NEW n \in Nodes, Lose(n) PROVE R2tInv'
  <2>1. UNCHANGED <<node, next, crashed>>
    BY <1>6 DEF Lose
  <2>2. Taken(down', up')
    <3>1. CASE /\ down[n] # <<>> /\ down' = [down EXCEPT ![n] = Tail(@)]
               /\ UNCHANGED up
      <4>1. down[n] \in Seq(DataPackets)
        BY <1>0
      <4>2. Tail(down[n]) \in Seq(DataPackets) /\ Fewer(Tail(down[n]), down[n])
        BY <3>1, <4>1, TailFewer
      <4> QED BY <1>0, <3>1, <4>2 DEF Taken
    <3>2. CASE /\ up[n] # <<>> /\ up' = [up EXCEPT ![n] = Tail(@)]
               /\ UNCHANGED down
      <4>1. up[n] \in Seq(UpPackets)
        BY <1>0
      <4>2. Tail(up[n]) \in Seq(UpPackets) /\ Fewer(Tail(up[n]), up[n])
        BY <3>2, <4>1, TailFewer
      <4> QED BY <1>0, <3>2, <4>2 DEF Taken
    <3> QED BY <1>6, <3>1, <3>2 DEF Lose
  <2>3. ASSUME NEW m \in Nodes, HasEntry(m, 1) PROVE Hop(node[m], node[m + 1], down'[m], up'[m + 1])
    <3>1. m + 1 \in Nodes
      BY <2>3, NodesHaveEnds DEF HasEntry, Nodes
    <3>2. Fewer(down'[m], down[m]) /\ Fewer(up'[m + 1], up[m + 1])
      BY <2>2, <3>1 DEF Taken
    <3>3. Hop(node[m], node[m + 1], down[m], up[m + 1])
      BY <2>3 DEF R2tInv, Hops
    <3> QED BY <3>2, <3>3 DEF Hop, Fewer
  <2> QED BY <2>1, <2>2, <2>3 DEF R2tInv, OwnStates, Hops, Taken
<1> QED
  BY <1>1, <1>2, <1>3, <1>4, <1>5, <1>6 DEF Next
-----------------------------------------------------------------------------
(* SDATP has no timers of R2T and reads no null pointer. *)

Still(v, w) == Shape(w) /\ w.s.csynStates = v.s.csynStates /\ w.null = v.null

SdatpInv ==
  /\ DOMAIN node = Nodes
  /\ \A n \in Nodes : DOMAIN node[n] = NodeFields /\ DOMAIN node[n].csynStates = {}
  /\ ~crashed

LEMMA StillSteps ==
  ASSUME NEW w, Shape(w), NEW n
  PROVE  /\ \A p : Still(w, SendDown(w, n, p))
         /\ \A p : Still(w, SendUp(w, n, p))
         /\ \A id : Still(w, Mark(w, id))
         /\ \A first, gap, id : Still(w, Requests(w, n, first, gap, id))
         /\ \A id : \A v \in EndRequests(w, id) : Still(w, v)
         /\ \A id : Still(w, Used(w, id))
         /\ \A p : Still(w, Cached(w, p))
<1>1. \A v : Quiet(w, v) => Still(w, v)
  BY DEF Quiet, Still
<1>2. \A p : Still(w, SendDown(w, n, p))
  BY DEF Still, SendDown, Shape, NodeFields
<1>3. \A id : Still(w, Mark(w, id))
  BY DEF Still, Mark, Shape, NodeFields
<1> QED
  BY <1>1, <1>2, <1>3, SendUpQuiet, RequestsQuiet, EndRequestsQuiet, UsedQuiet, CachedQuiet

LEMMA SdatpStill ==
  ASSUME NEW n, NEW w, Shape(w), NEW p, NEW v \in sdatp(w, n, p)
  PROVE  Still(w, v)
<1>1. Still(w, w)
  BY DEF Still
<1>2. ASSUME v \in sdatpData(w, n, p.dataID) PROVE Still(w, v)
  <2>1. CASE Seen(w, p.dataID)
    BY <1>1, <1>2, <2>1 DEF sdatpData
  <2>2. CASE ~Seen(w, p.dataID)
    <3> DEFINE sent(x) == Mark(SendDown(x, n, constructData(p.dataID)), p.dataID)
    <3>1. PICK x \in EndRequests(w, p.dataID) :
            v = IF HasEntry(n, 1) THEN noticeGap(sent(x), n, p.dataID) ELSE sent(x)
      BY <1>2, <2>2 DEF sdatpData
    <3>2. Still(w, x)
      BY <3>1, StillSteps
    <3>3. Still(x, SendDown(x, n, constructData(p.dataID)))
      BY <3>2, StillSteps DEF Still
    <3>4. Still(SendDown(x, n, constructData(p.dataID)), sent(x))
      BY <3>3, StillSteps DEF Still
    <3>5. v = sent(x) \/ \E first, gap : v = Requests(sent(x), n, first, gap, p.dataID)
      BY <3>1 DEF noticeGap
    <3> HIDE DEF sent
    <3>6. Still(w, sent(x))
      BY <3>2, <3>3, <3>4 DEF Still
    <3>7. v = sent(x) \/ Still(sent(x), v)
      BY <3>5, <3>6, StillSteps DEF Still
    <3> QED
      BY <3>6, <3>7 DEF Still
  <2> QED
    BY <2>1, <2>2
<1>3. ASSUME v = sdatpRD(w, n, p) PROVE Still(w, v)
  <2> DEFINE ended == [w EXCEPT !.s.retranStates = Removed(@, {p.number})]
             marked == Mark(ended, p.dataID)
  <2>1. Still(w, ended)
    BY DEF Still, Shape, NodeFields
  <2>2. v = ended \/ \E d : v = SendDown(marked, n, d)
    BY <1>3, Zenon DEF sdatpRD
  <2> HIDE DEF ended
  <2>3. Still(ended, marked)
    BY <2>1, StillSteps DEF Still
  <2> HIDE DEF marked
  <2>4. \A d : Still(marked, SendDown(marked, n, d))
    BY <2>3, StillSteps DEF Still
  <2> QED
    BY <2>1, <2>2, <2>3, <2>4 DEF Still
<1>4. ASSUME v = sdatpRR(w, n, p) PROVE Still(w, v)
  <2>1. v = w \/ v = Used(w, p.dataID) \/ \E d : v = SendDown(Used(w, p.dataID), n, d)
    BY <1>4, Zenon DEF sdatpRR
  <2>2. Still(w, Used(w, p.dataID))
    BY StillSteps
  <2>3. \A d : Still(Used(w, p.dataID), SendDown(Used(w, p.dataID), n, d))
    BY <2>2, StillSteps DEF Still
  <2> QED
    BY <1>1, <2>1, <2>2, <2>3 DEF Still
<1> QED
  BY <1>1, <1>2, <1>3, <1>4 DEF sdatp

LEMMA SdatpDone ==
  ASSUME SdatpInv, NEW n \in Nodes, NEW w, Still(Work(n), w), NEW downs, NEW ups, Done(w, n, downs, ups)
  PROVE  SdatpInv'
<1>1. node' = [node EXCEPT ![n] = w.s] /\ crashed' = w.null
  BY DEF Done
<1>2. DOMAIN w.s = NodeFields /\ w.s.csynStates = node[n].csynStates /\ w.null = FALSE
  BY DEF Still, Shape, Work
<1> QED
  BY <1>1, <1>2 DEF SdatpInv

LEMMA SdatpStep ==
  ASSUME SdatpInv, strategy # "r2t", Next
  PROVE  SdatpInv'
<1>1. \A n \in Nodes : Shape(Work(n)) /\ Still(Work(n), Work(n))
  BY DEF SdatpInv, Work, Shape, Still
<1>2. ASSUME NEW n \in Nodes, NEW p, NEW w \in afterReceiveData(n, p) PROVE Still(Work(n), w)
  <2>1. w \in sdatp(Cached(Work(n), p), n, p)
    BY <1>2 DEF afterReceiveData
  <2>2. Still(Work(n), Cached(Work(n), p))
    BY <1>1, StillSteps
  <2>3. Still(Cached(Work(n), p), w)
    BY <2>1, <2>2, SdatpStill DEF Still
  <2> QED BY <2>2, <2>3 DEF Still
<1>3. ASSUME NEW n \in Nodes PROVE Still(Work(n), afterReceiveInterest(n))
  <2> DEFINE w == Work(n)
             t == [w EXCEPT !.s.pit = TRUE]
  <2>1. afterReceiveInterest(n) = IF node[n].pit THEN w ELSE SendUp(t, n, Interest)
    BY Zenon DEF afterReceiveInterest
  <2> HIDE DEF w
  <2>2. Still(w, t)
    BY <1>1 DEF Still, Shape, NodeFields, w
  <2> HIDE DEF t
  <2>3. Still(t, SendUp(t, n, Interest))
    BY <2>2, StillSteps DEF Still
  <2>4. Still(w, w)
    BY <1>1 DEF w
  <2>5. Still(w, afterReceiveInterest(n))
    BY <2>1, <2>2, <2>3, <2>4 DEF Still
  <2> QED BY <2>5 DEF w
<1>4. ASSUME NEW n \in Nodes, NEW p, NEW w \in Received(n, p) PROVE Still(Work(n), w)
  <2>1. w = afterReceiveInterest(n) \/ w \in afterReceiveData(n, p) \/ w = Work(n)
    BY <1>4 DEF Received
  <2> QED BY <1>1, <1>2, <1>3, <2>1
<1>5. CASE SendInterest
  BY <1>3, <1>5, NodesHaveEnds, SdatpDone DEF SendInterest
<1>6. CASE sendData
  BY <1>2, <1>6, NodesHaveEnds, SdatpDone DEF sendData
<1>7. ASSUME NEW n \in Nodes, ReceiveDown(n) PROVE SdatpInv'
  <2>1. PICK w \in Received(n + 1, Head(down[n])) :
          Done(w, n + 1, [down EXCEPT ![n] = Tail(@)], up)
    BY <1>7 DEF ReceiveDown
  <2>2. n + 1 \in Nodes
    BY <1>7, NodesHaveEnds DEF ReceiveDown, HasEntry, Nodes
  <2> QED BY <1>4, <2>1, <2>2, SdatpDone
<1>8. ASSUME NEW n \in Nodes, ReceiveUp(n) PROVE SdatpInv'
  <2>1. PICK w \in Received(n - 1, Head(up[n])) :
          Done(w, n - 1, down, [up EXCEPT ![n] = Tail(@)])
    BY <1>8 DEF ReceiveUp
  <2>2. n - 1 \in Nodes
    BY <1>8, NodesHaveEnds DEF ReceiveUp, HasEntry, Nodes
  <2> QED BY <1>4, <2>1, <2>2, SdatpDone
<1>9. ASSUME NEW n \in Nodes, Timer(n) PROVE SdatpInv'
  <2>1. PICK uid : Done(waitingRD(Work(n), n, uid), n, down, up)
    BY <1>9 DEF Timer, SdatpInv
  <2> DEFINE w == Work(n)
             state == w.s.retranStates[uid]
             again == [state EXCEPT !.times = state.times + 1, !.set = state.times + 1 < maxCSynTimes]
             t == [w EXCEPT !.s.retranStates = Set(@, uid, again)]
  <2>2. waitingRD(w, n, uid) = SendUp(t, n, constructRR(uid, state.asks))
    BY Zenon DEF waitingRD
  <2> HIDE DEF state, again, w
  <2>3. Still(w, t)
    BY <1>1 DEF Still, Shape, NodeFields, w
  <2> HIDE DEF t
  <2>4. Still(t, waitingRD(w, n, uid))
    BY <2>2, <2>3, StillSteps DEF Still
  <2>5. Still(w, waitingRD(w, n, uid))
    BY <2>3, <2>4 DEF Still
  <2> QED BY <2>1, <2>5, SdatpDone DEF w
<1>10. ASSUME NEW n \in Nodes, Lose(n) PROVE SdatpInv'
  BY <1>10 DEF Lose, SdatpInv
<1> QED
  BY <1>5, <1>6, <1>7, <1>8, <1>9, <1>10 DEF Next

-----------------------------------------------------------------------------
(* Both strategies. *)

NullInv ==
  /\ strategy \in Strategies
  /\ strategy = "r2t" => R2tInv
  /\ strategy # "r2t" => SdatpInv

LEMMA InitNullInv == Init => NullInv
<1> SUFFICES ASSUME Init PROVE NullInv
  OBVIOUS
<1>1. /\ DOMAIN node = Nodes
      /\ \A n \in Nodes : DOMAIN node[n] = NodeFields
      /\ \A n \in Nodes : node[n].cs = <<>> /\ node[n].transDataIDs = {}
                          /\ node[n].csynStates = <<>> /\ node[n].retranStates = <<>>
  BY DEF Init, NodeFields, NoTimers
<1>2. DOMAIN <<>> = {} /\ Len(<<>>) = 0 /\ 1 .. 0 = {} /\ \A S : <<>> \in Seq(S)
  OBVIOUS
<1>3. Complete(<<>>) /\ \A x : ~Holds(<<>>, x)
  BY <1>2 DEF Complete, Holds
<1>4. \A n \in Nodes : OwnState(node[n]) /\ DOMAIN node[n].csynStates = {}
  BY <1>1, <1>2, <1>3 DEF OwnState
<1>5. down = [n \in Nodes |-> <<>>] /\ up = [n \in Nodes |-> <<>>] /\ next = 0 /\ ~crashed
  BY DEF Init
<1>6. down \in [Nodes -> Seq(DataPackets)] /\ up \in [Nodes -> Seq(UpPackets)]
  BY <1>2, <1>5
<1>7. ASSUME NEW n \in Nodes, HasEntry(n, 1) PROVE Hop(node[n], node[n + 1], down[n], up[n + 1])
  <2>1. n + 1 \in Nodes
    BY <1>7, NodesHaveEnds DEF HasEntry, Nodes
  <2>2. down[n] = <<>> /\ up[n + 1] = <<>>
    BY <1>5, <2>1
  <2>3. Once(<<>>)
    BY <1>2 DEF Once
  <2> QED BY <1>1, <1>3, <2>1, <2>2, <2>3 DEF Hop
<1>8. R2tInv
  <2>1. next \in Nat
    BY <1>5
  <2> QED BY <1>1, <1>4, <1>5, <1>6, <1>7, <2>1 DEF R2tInv, OwnStates, Hops
<1>9. SdatpInv
  BY <1>1, <1>4, <1>5 DEF SdatpInv
<1> QED
  BY <1>8, <1>9 DEF Init, NullInv

LEMMA NextKeepsNullInv == EnoughRoom /\ NullInv /\ [Next]_vars => NullInv'
<1> SUFFICES ASSUME EnoughRoom, NullInv, [Next]_vars PROVE NullInv'
  OBVIOUS
<1>1. strategy' = strategy
  BY DEF Next, vars, SendInterest, sendData, ReceiveDown, ReceiveUp, Timer, Lose
<1>2. CASE UNCHANGED vars
  <2>1. /\ strategy' = strategy /\ node' = node /\ down' = down /\ up' = up
        /\ next' = next /\ crashed' = crashed
    BY <1>2 DEF vars
  <2> QED
    BY <2>1 DEF NullInv, R2tInv, SdatpInv, OwnStates, Hops
<1>3. CASE Next /\ strategy = "r2t"
  <2>1. R2tStore
    BY <1>3, StreamingAssumption DEF EnoughRoom, NullInv, R2tStore
  <2> QED BY <1>1, <1>3, <2>1, R2tStep DEF NullInv
<1>4. CASE Next /\ strategy # "r2t"
  BY <1>1, <1>4, SdatpStep DEF NullInv
<1> QED BY <1>2, <1>3, <1>4

\* With room in the content stores for every Data and every CACK of R2T, no
\* null pointer is read, on chains of any length: not by a CACK, whose id
\* always has an entry, and not by a timer, whose Data is always stored.
THEOREM NoNullReadCorrect == EnoughRoom => (Spec => []NoNullRead)
<1> SUFFICES ASSUME EnoughRoom PROVE Spec => []NoNullRead
  OBVIOUS
<1>1. NullInv => NoNullRead
  BY DEF NullInv, NoNullRead, R2tInv, SdatpInv
<1>2. NullInv /\ [Next]_vars => NullInv'
  BY NextKeepsNullInv
<1> QED
  BY <1>1, <1>2, InitNullInv, PTL DEF Spec
=============================================================================
