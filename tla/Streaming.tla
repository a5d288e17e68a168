------------------------------ MODULE Streaming ------------------------------
(***************************************************************************)
(* The streaming strategies R2T and SDATP on a chain of forwarders, from   *)
(* node 1 with the producer's application to node N with the consumer's,   *)
(* over links that lose packets.  The one Interest of the flow leaves a    *)
(* PIT entry at every node, which every packet of the flow renews, and     *)
(* starts the producer.                                                    *)
(*                                                                         *)
(* R2T acknowledges each Data hop by hop, and sends it again until the     *)
(* CACK comes.  SDATP asks upstream for ids it has not seen (RR), and      *)
(* rebuilds their Data from the answer (RD).  Timers may fire at any time. *)
(***************************************************************************)
EXTENDS ContentStore, FiniteSets

CONSTANTS
  N,             \* the number of nodes
  LastId,        \* bound: with each strategy the producer sends Data 0 .. LastId[strategy]
  Strategies,    \* a subset of {"r2t", "sdatp"}
  maxCSynTimes,  \* the bound on retransmissions of both
  MaxLosses      \* bound: how many packets the links lose

ASSUME StreamingAssumption ==
  /\ {N, maxCSynTimes, MaxLosses} \subseteq Nat
  /\ N > 0
  /\ Strategies \subseteq {"r2t", "sdatp"}
  /\ LastId \in [Strategies -> Nat]

Nodes == 1 .. N

VARIABLES
  strategy,   \* the strategy of all nodes; never changes
  node,       \* the state of each node
  down, up,   \* the packets on the way from node n to n + 1, and to n - 1
  next,       \* the id the producer sends next
  got,        \* history: the ids the consumer's application got, in order
  lost,       \* history: what was lost, with the node it was lost on the way to
  crashed     \* whether a pointer was read that is null

vars == <<strategy, node, down, up, next, got, lost, crashed>>

NoTimers == <<>>

Init ==
  /\ strategy \in Strategies
  /\ node = [n \in Nodes |-> [pit |-> FALSE, cs |-> <<>>, transDataIDs |-> {}, csynStates |-> NoTimers,
                              retranStates |-> NoTimers, recentDataID |-> -1, uids |-> 0]]
  /\ down = [n \in Nodes |-> <<>>]
  /\ up = [n \in Nodes |-> <<>>]
  /\ next = 0
  /\ got = <<>>
  /\ lost = {}
  /\ crashed = FALSE

\* A packet: a Data and a CACK have the id in their names, an RR and an RD their
\* own uid, and the id they are about in the payload.
Packet(op, number, dataID) == [op |-> op, number |-> number, dataID |-> dataID]

Interest == Packet("Interest", 0, 0)
constructData(dataID) == Packet("Data", dataID, dataID)
constructCACK(dataID) == Packet("CACK", dataID, dataID)
constructRR(uid, dataID) == Packet("RR", uid, dataID)
constructRD(uid, dataID) == Packet("RD", uid, dataID)

\* The uids are random; those drawn are taken to be different.
Uid(n, i) == N * i + n

\* Direction 1 leads to the consumer, 0 to the producer; the ends have no entry.
HasEntry(n, direction) == IF direction = 1 THEN n < N ELSE n > 1

\* The work of a handler: the state of its node, and what it sends where.
Work(n) == [s |-> node[n], down |-> <<>>, up |-> <<>>, app |-> <<>>, null |-> FALSE]

SendDown(w, n, p) == IF HasEntry(n, 1) THEN [w EXCEPT !.down = Append(@, p)]
                                       ELSE [w EXCEPT !.app = Append(@, p)]
SendUp(w, n, p) == IF HasEntry(n, 0) THEN [w EXCEPT !.up = Append(@, p)] ELSE w

\* The forwarder caches every packet of the flow, Data or not, before its
\* strategy sees it.
Cached(w, p) ==
  LET data == [name |-> <<p.op, p.number>>, fresh |-> 0, noCache |-> FALSE]
  IN [w EXCEPT !.s.cs = insert(@, data, FALSE)]

lookupInCs(cs, dataID) == findName(cs, <<"Data", dataID>>)

Used(w, dataID) == [w EXCEPT !.s.cs = beforeUse(@, lookupInCs(@, dataID))]

Set(timers, key, value) ==
  [k \in DOMAIN timers \cup {key} |-> IF k = key THEN value ELSE timers[k]]
Removed(timers, keys) == Restrict(timers, DOMAIN timers \ keys)

Seen(w, dataID) == dataID \in w.s.transDataIDs
Mark(w, dataID) == [w EXCEPT !.s.transDataIDs = @ \cup {dataID}]

-----------------------------------------------------------------------------
(* R2T. *)

Waits(w, n, dataID) ==
  IF HasEntry(n, 1)
  THEN [w EXCEPT !.s.csynStates =
          Set(@, dataID, IF maxCSynTimes >= 1 THEN [times |-> 1, set |-> TRUE]
                                              ELSE [times |-> -1, set |-> FALSE])]
  ELSE w

\* Data that came before is acknowledged again.
FaultyReAck(w, n, dataID) ==
  LET sent == Waits(SendDown(w, n, constructData(dataID)), n, dataID)
  IN SendUp(IF Seen(w, dataID) THEN w ELSE Mark(sent, dataID), n, constructCACK(dataID))

\* Data that came before is taken for new.
FaultyUnseen(w, n, dataID) ==
  LET sent == Waits(SendDown(w, n, constructData(dataID)), n, dataID)
  IN SendUp(Mark(sent, dataID), n, constructCACK(dataID))

\* Data that came before is dropped, and not acknowledged again.
r2tData(w, n, dataID) ==
  LET sent == Waits(SendDown(w, n, constructData(dataID)), n, dataID)
  IN IF Seen(w, dataID) THEN w
     ELSE SendUp(Mark(sent, dataID), n, constructCACK(dataID))

\* A CACK for an id without an entry creates one that is null, and reads it.
r2tCACK(w, dataID) ==
  [w EXCEPT !.null = maxCSynTimes >= 1 /\ dataID \notin DOMAIN w.s.csynStates,
            !.s.csynStates = Removed(@, {dataID})]

r2t(w, n, p) == CASE p.op = "Data" -> r2tData(w, n, p.dataID)
                  [] p.op = "CACK" -> r2tCACK(w, p.dataID)
                  [] OTHER -> w

\* The timer of an id: its Data is sent again from the content store.
Again(times) == times <= maxCSynTimes

waitingCACK(w, n, dataID) ==
  LET times == w.s.csynStates[dataID].times + 1
      again == [times |-> times, set |-> Again(times)]
  IN IF lookupInCs(w.s.cs, dataID) = 0 THEN [w EXCEPT !.null = TRUE]
     ELSE SendDown([Used(w, dataID) EXCEPT !.s.csynStates = Set(@, dataID, again)],
                   n, constructData(dataID))

-----------------------------------------------------------------------------
(* SDATP. *)

\* The first request for an id, in any order, ends when its Data comes.
EndRequests(w, dataID) ==
  LET about == {u \in DOMAIN w.s.retranStates : w.s.retranStates[u].dataID = dataID}
  IN IF about = {} THEN {w}
     ELSE {[w EXCEPT !.s.retranStates = Removed(@, {u})] : u \in about}

\* Requests for gap ids from first on, and a timer for the id after dataID, none of
\* whose timers asks for the id that is missing: they ask for dataID.
Requests(w, n, first, gap, dataID) ==
  LET number(i) == Uid(n, w.s.uids + i)
      state(i) == [dataID |-> IF i < gap THEN first + i ELSE dataID + 1,
                   asks |-> dataID, times |-> 1, set |-> TRUE]
      states == [u \in {number(i) : i \in 0 .. gap} |->
                   state(CHOOSE i \in 0 .. gap : number(i) = u)]
      rrs == [i \in 1 .. gap |-> constructRR(number(i - 1), first + i - 1)]
  IN [w EXCEPT !.s.retranStates = states @@ @,
               !.s.uids = @ + gap + 1,
               !.s.recentDataID = dataID,
               !.up = IF HasEntry(n, 0) THEN @ \o rrs ELSE @]

\* No gap is asked for.
FaultyGap(w, n, dataID) == Requests(w, n, dataID, 0, dataID)

\* Every id between the last and this one is asked for; the node of the consumer
\* does not do this.
noticeGap(w, n, dataID) ==
  LET first == w.s.recentDataID + 1
  IN Requests(w, n, first, IF dataID > first THEN dataID - first ELSE 0, dataID)

sdatpData(w, n, dataID) ==
  IF Seen(w, dataID) THEN {w}
  ELSE {LET sent == Mark(SendDown(v, n, constructData(dataID)), dataID)
        IN IF HasEntry(n, 1) THEN noticeGap(sent, n, dataID) ELSE sent
          : v \in EndRequests(w, dataID)}

\* The answer to a request: the Data is built anew, but not cached.  The node of
\* the consumer hands the RD itself to the application.
sdatpRD(w, n, p) ==
  LET ended == [w EXCEPT !.s.retranStates = Removed(@, {p.number})]
      rebuilt == IF HasEntry(n, 1) THEN constructData(p.dataID) ELSE p
  IN IF Seen(w, p.dataID) THEN ended ELSE SendDown(Mark(ended, p.dataID), n, rebuilt)

sdatpRR(w, n, p) ==
  IF lookupInCs(w.s.cs, p.dataID) = 0 THEN w
  ELSE IF HasEntry(n, 1) THEN SendDown(Used(w, p.dataID), n, constructRD(p.number, p.dataID))
  ELSE Used(w, p.dataID)

sdatp(w, n, p) == CASE p.op = "Data" -> sdatpData(w, n, p.dataID)
                    [] p.op = "RD" -> {sdatpRD(w, n, p)}
                    [] p.op = "RR" -> {sdatpRR(w, n, p)}
                    [] OTHER -> {w}

\* The timer of a request.
waitingRD(w, n, uid) ==
  LET state == w.s.retranStates[uid]
      times == state.times + 1
      again == [state EXCEPT !.times = times, !.set = times < maxCSynTimes]
  IN SendUp([w EXCEPT !.s.retranStates = Set(@, uid, again)], n, constructRR(uid, state.asks))

-----------------------------------------------------------------------------
(* The events. *)

afterReceiveData(n, p) ==
  LET w == Cached(Work(n), p) IN IF strategy = "r2t" THEN {r2t(w, n, p)} ELSE sdatp(w, n, p)

\* The Interest goes on upstream, at the producer's node to its application.
afterReceiveInterest(n) ==
  IF node[n].pit THEN Work(n) ELSE SendUp([Work(n) EXCEPT !.s.pit = TRUE], n, Interest)

\* Without a PIT entry a packet is dropped.
Received(n, p) == CASE p.op = "Interest" -> {afterReceiveInterest(n)}
                    [] p.op # "Interest" /\ node[n].pit -> afterReceiveData(n, p)
                    [] OTHER -> {Work(n)}

\* The consumer's application.
OnData(packets) == got' = got \o packets

\* What a handler leaves behind, after the packets taken off the links.
Done(w, n, downs, ups) ==
  /\ node' = [node EXCEPT ![n] = w.s]
  /\ down' = [downs EXCEPT ![n] = @ \o w.down]
  /\ up' = [ups EXCEPT ![n] = @ \o w.up]
  /\ OnData(w.app)
  /\ crashed' = w.null

\* The application at the consumer, once.
SendInterest ==
  /\ ~node[N].pit
  /\ Done(afterReceiveInterest(N), N, down, up)
  /\ UNCHANGED <<strategy, next, lost>>

\* The application at the producer, periodically after the Interest has come.
sendData ==
  /\ node[1].pit
  /\ next <= LastId[strategy]
  /\ next' = next + 1
  /\ \E w \in afterReceiveData(1, constructData(next)) : Done(w, 1, down, up)
  /\ UNCHANGED <<strategy, lost>>

ReceiveDown(n) ==
  /\ HasEntry(n, 1)
  /\ down[n] # <<>>
  /\ \E w \in Received(n + 1, Head(down[n])) : Done(w, n + 1, [down EXCEPT ![n] = Tail(@)], up)
  /\ UNCHANGED <<strategy, next, lost>>

ReceiveUp(n) ==
  /\ HasEntry(n, 0)
  /\ up[n] # <<>>
  /\ \E w \in Received(n - 1, Head(up[n])) : Done(w, n - 1, down, [up EXCEPT ![n] = Tail(@)])
  /\ UNCHANGED <<strategy, next, lost>>

\* A timer that is due and its handler; the last has no timer to set.
Timer(n) ==
  /\ \/ \E dataID \in DOMAIN node[n].csynStates :
          /\ node[n].csynStates[dataID].set
          /\ Done(waitingCACK(Work(n), n, dataID), n, down, up)
     \/ \E uid \in DOMAIN node[n].retranStates :
          /\ node[n].retranStates[uid].set
          /\ Done(waitingRD(Work(n), n, uid), n, down, up)
  /\ UNCHANGED <<strategy, next, lost>>

Lose(n) ==
  /\ Cardinality(lost) < MaxLosses
  /\ \/ /\ down[n] # <<>>
        /\ down' = [down EXCEPT ![n] = Tail(@)]
        /\ lost' = lost \cup {<<n + 1, Head(down[n]), Cardinality(lost)>>}
        /\ UNCHANGED up
     \/ /\ up[n] # <<>>
        /\ up' = [up EXCEPT ![n] = Tail(@)]
        /\ lost' = lost \cup {<<n - 1, Head(up[n]), Cardinality(lost)>>}
        /\ UNCHANGED down
  /\ UNCHANGED <<strategy, node, next, got, crashed>>

Next ==
  /\ ~crashed
  /\ \/ SendInterest
     \/ sendData
     \/ \E n \in Nodes : ReceiveDown(n) \/ ReceiveUp(n) \/ Timer(n) \/ Lose(n)

\* Packets that are not lost arrive, timers fire, the producer keeps sending.
Fairness ==
  /\ WF_vars(~crashed /\ sendData)
  /\ \A n \in Nodes : /\ WF_vars(~crashed /\ ReceiveDown(n))
                      /\ WF_vars(~crashed /\ ReceiveUp(n))
                      /\ WF_vars(~crashed /\ Timer(n))

Spec == Init /\ [][Next]_vars /\ Fairness

-----------------------------------------------------------------------------
(* Properties. *)

\* No null pointer is read: the CACK of an id comes once, after the id was
\* entered, and Data to be sent again is still in a content store that is large
\* enough for the packets of the flow.
NoNullRead == ~crashed

\* The application gets every Data at most once, whatever is sent again.
NothingTwice == \A i, j \in DOMAIN got : got[i] = got[j] => i = j

\* The losses each strategy makes up for.  R2T: fewer than it sends copies of
\* any packet.  SDATP: one Data, which another follows, before the last hop.
Recoverable ==
  IF strategy = "r2t" THEN Cardinality(lost) <= maxCSynTimes
  ELSE /\ Cardinality(lost) <= 1
       /\ \A l \in lost : l[2].op = "Data" /\ l[2].dataID < LastId[strategy] /\ l[1] < N

\* What the producer sends the consumer gets, if the losses are not too many.
EventuallyDelivered ==
  \A dataID \in UNION {0 .. LastId[s] : s \in Strategies} :
    next > dataID ~> \/ constructData(dataID) \in ToSet(got)
                     \/ ~Recoverable
=============================================================================
