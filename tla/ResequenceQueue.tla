--------------------------- MODULE ResequenceQueue ---------------------------
(***************************************************************************)
(* The queue in which LltcPDCApp puts the Capsules of a producer back in   *)
(* order.  A Capsule that is next is handed on at once.  Any other waits   *)
(* until the ones before it have come, or until it has waited MaxWait, or  *)
(* until the queue is full, and then the missing ones are given up.        *)
(*                                                                         *)
(* There are two queues: q_seq in the order of the ids and q_time in the   *)
(* order of arrival.  Only q_seq loses a Capsule when it is handed on;     *)
(* q_time keeps it until its time is over.  A timer is set whenever a      *)
(* Capsule was queued, and never cancelled, as the event it should replace *)
(* is never remembered.  A Capsule that comes when it is next leaves those *)
(* behind it in the queue, and a timer sets no other one.                  *)
(*                                                                         *)
(* Between the producer and the queue Capsules overtake each other when    *)
(* routers switch paths, and are lost on failed links.  None is            *)
(* duplicated: the strategy sends a Capsule on over one face.              *)
(*                                                                         *)
(* An operator named Faulty... is a version of the operator after it with  *)
(* a mistake one could make in this code; no behaviour of Spec uses it.    *)
(***************************************************************************)
EXTENDS Integers, Sequences, FiniteSets, FiniteSetsExt

CONSTANTS
  Size,      \* the size limit of the queue
  MaxWait,   \* maxWaitTime, in ticks
  MaxId,     \* bound: Capsules 0 .. MaxId are sent
  MaxTime    \* bound: the clock stops there

ASSUME QueueAssumption ==
  /\ Size \in Nat \ {0}
  /\ MaxWait \in Nat \ {0}
  /\ MaxId \in Nat
  /\ MaxTime \in Nat

Ids   == 0 .. MaxId
Times == 0 .. MaxTime

VARIABLES
  now,         \* environment: the clock
  sent,        \* environment: how many Capsules the producer has sent
  wire,        \* environment: the Capsules under way, records [id, at]
  q_seq,       \* the ids in the queue, in their order
  q_time,      \* the Capsules queued so far, in order of arrival: [id, at]
  timers,      \* when the events set for autoDequeueTask are due
  lastDataId,  \* the id handed on last, -1 at first
  delivered,   \* history: the ids handed to the application
  punctual     \* history: no Capsule was late, and none given up for space

envVars   == <<now, sent, wire>>
queueVars == <<q_seq, q_time, timers, lastDataId, delivered, punctual>>
vars      == <<envVars, queueVars>>

Init ==
  /\ now = 0
  /\ sent = 0
  /\ wire = {}
  /\ q_seq = <<>>
  /\ q_time = <<>>
  /\ timers = {}
  /\ lastDataId = -1
  /\ delivered = <<>>
  /\ punctual = TRUE

-----------------------------------------------------------------------------
Prefix(s, n) == SubSeq(s, 1, n)
Beyond(s, n) == SubSeq(s, n + 1, Len(s))
Occurs(s, x) == \E i \in 1 .. Len(s) : s[i] = x

\* How many of n places, from the first on, are all in B.
leading(n, B) == Max({k \in 0 .. n : 1 .. k \subseteq B})

FaultyAtEnd(s, id) == Append(s, id)

\* q_seq.push: the ids not above id come first.
inserted(s, id) ==
  LET k == leading(Len(s), {i \in 1 .. Len(s) : s[i] <= id}) IN
  Prefix(s, k) \o <<id>> \o Beyond(s, k)

\* How many Capsules at the top of s follow last without a gap.
followers(s, last) == leading(Len(s), {i \in 1 .. Len(s) : s[i] = last + i})

\* How many Capsules at the front of tq have waited MaxWait at time t.
FaultyNever(tq, t) == 0

FaultyTooEarly(tq, t) == leading(Len(tq), {i \in 1 .. Len(tq) : tq[i].at < t})

expired(tq, t) == leading(Len(tq), {i \in 1 .. Len(tq) : tq[i].at <= t - MaxWait})

\* What is left of the queues, what is handed on, and the last id after that.
\* If the followers of last empty q_seq, q_time is left as it is.
releaseQueue(s, tq, last, t) ==
  LET k     == followers(s, last)
      s1    == Beyond(s, k)
      last1 == last + k
      e     == expired(tq, t)
      dataId_max == Max({-1} \cup {tq[i].id : i \in 1 .. e})
      m     == leading(Len(s1), {i \in 1 .. Len(s1) : s1[i] <= dataId_max})
  IN IF s1 = <<>>
     THEN [seq |-> s1, time |-> tq, out |-> Prefix(s, k), last |-> last1]
     ELSE [seq |-> Beyond(s1, m), time |-> Beyond(tq, e), out |-> Prefix(s, k + m),
           last |-> IF m = 0 THEN last1 ELSE s1[m]]

\* The first Capsule of all and one that is next are handed on, nothing else.
pass(id) ==
  /\ lastDataId = -1 \/ id = lastDataId + 1
  /\ lastDataId' = id
  /\ delivered' = Append(delivered, id)
  /\ UNCHANGED <<q_seq, q_time, timers>>

\* The timer set after a Capsule was queued, if the queue is not empty then.
\* Two due at the same time are one here: the second finds nothing to release.
timersAfter(r) == IF r.seq = <<>> THEN timers ELSE timers \cup {r.time[1].at + MaxWait}

\* Does a full queue hand on its first Capsule, and what does it keep?
full == Len(q_seq) = Size

FaultyKeep == q_seq

kept == IF full THEN Tail(q_seq) ELSE q_seq

\* Any other one is queued.
queue(id) ==
  LET given == IF full THEN <<Head(q_seq)>> ELSE <<>>
      last  == IF full THEN Head(q_seq) ELSE lastDataId
      r == releaseQueue(inserted(kept, id), Append(q_time, [id |-> id, at |-> now]), last, now)
  IN
  /\ lastDataId # -1 /\ id # lastDataId + 1
  /\ q_seq' = r.seq
  /\ q_time' = r.time
  /\ lastDataId' = r.last
  /\ delivered' = delivered \o given \o r.out
  /\ timers' = timersAfter(r)

\* A Capsule is late if it has been under way for MaxWait or more, or if one
\* sent after it was the first to arrive.
late(c) == now - c.at >= MaxWait \/ (delivered # <<>> /\ c.id < delivered[1])

receiveData(c) ==
  /\ c \in wire
  /\ wire' = wire \ {c}
  /\ \/ pass(c.id) /\ punctual' = (punctual /\ ~late(c))
     \/ queue(c.id) /\ punctual' = (punctual /\ ~late(c) /\ ~full)
  /\ UNCHANGED <<now, sent>>

autoDequeueTask ==
  LET r == releaseQueue(q_seq, q_time, lastDataId, now) IN
  /\ now \in timers
  /\ timers' = timers \ {now}
  /\ q_seq' = r.seq
  /\ q_time' = r.time
  /\ lastDataId' = r.last
  /\ delivered' = delivered \o r.out
  /\ UNCHANGED <<envVars, punctual>>

-----------------------------------------------------------------------------
\* The producer sends the next Capsule.
sendData ==
  /\ sent <= MaxId
  /\ sent' = sent + 1
  /\ wire' = wire \cup {[id |-> sent, at |-> now]}
  /\ UNCHANGED <<now, queueVars>>

LoseCapsule(c) ==
  /\ c \in wire
  /\ wire' = wire \ {c}
  /\ UNCHANGED <<now, sent, queueVars>>

\* Time does not pass an event that is due.
Tick ==
  /\ now < MaxTime
  /\ now \notin timers
  /\ now' = now + 1
  /\ UNCHANGED <<sent, wire, queueVars>>

Next ==
  \/ sendData
  \/ \E c \in wire : receiveData(c) \/ LoseCapsule(c)
  \/ autoDequeueTask
  \/ Tick

Spec == Init /\ [][Next]_vars

-----------------------------------------------------------------------------
(* Properties. *)

\* receiveData reads the front of q_time if q_seq is not empty: although the
\* queues lose their Capsules at different times, q_time has every Capsule of
\* q_seq, and q_seq is sorted and has none twice.
QueuesAgree ==
  /\ \A i \in 1 .. Len(q_seq) : \E j \in 1 .. Len(q_time) : q_time[j].id = q_seq[i]
  /\ \A i, j \in 1 .. Len(q_seq) : i < j => q_seq[i] < q_seq[j]
  /\ Len(q_seq) <= Size

\* What arrived is in the queue or was handed on, and that once.
NothingTwiceOrLost ==
  LET got == {q_time[j].id : j \in 1 .. Len(q_time)} IN
  /\ \A i, j \in 1 .. Len(delivered) : delivered[i] = delivered[j] => i = j
  /\ \A i \in 1 .. Len(delivered) : ~Occurs(q_seq, delivered[i])
  /\ \A id \in got : Occurs(q_seq, id) \/ Occurs(delivered, id)

\* As long as every Capsule comes within MaxWait and the queue is not full, the
\* application gets the Capsules in their order, with any number of them lost:
\* no Capsule is given up that is still under way.
InOrder ==
  punctual => \A i, j \in 1 .. Len(delivered) : i < j => delivered[i] < delivered[j]

\* When a Capsule has been queued, none stays that has waited MaxWait.
NoneOverdue ==
  [][q_time' # q_time /\ q_seq' # <<>> =>
       \A j \in 1 .. Len(q_time') : q_time'[j].at > now - MaxWait]_vars

=============================================================================
