-------------------------- MODULE LinkMeasurement --------------------------
(***************************************************************************)
(* Link measurement of one TA-FRR router: the part of LltcStrategy that    *)
(* probes the links to the neighbours of the router and decides which of   *)
(* them have failed.                                                       *)
(*                                                                         *)
(* A link test sends Times rounds of Echo messages, one per tested face in *)
(* every round, an interval apart; a neighbour answers an Echo with a Back *)
(* that carries the same echo id.  One interval after the last round the   *)
(* test concludes: a tested face is NORMAL if any of its echoes was        *)
(* answered and FAILURE otherwise, and if the statuses differ from those   *)
(* last advertised the router floods a new LSA.  Tests are started by a    *)
(* periodic timer (all faces) and by a timer that expires when Capsules    *)
(* stop arriving on a face (that face alone).  Nothing prevents tests from *)
(* overlapping, and all of them write the same statuses.                   *)
(*                                                                         *)
(* Times are abstracted to orders of events.  Echo ids are random 32-bit   *)
(* numbers in the code; here an id is any one not in use, so the collision *)
(* of two ids in use is not modelled.                                      *)
(*                                                                         *)
(* An operator named Faulty... is a version of the operator after it with  *)
(* a mistake one could make in this code; no behaviour of Spec uses it.    *)
(***************************************************************************)
EXTENDS Integers, FiniteSets

CONSTANTS
  Faces,        \* the faceEntries of the router
  Monitored,    \* those with remoteLltcNodeId # -1
  CapsuleFaces, \* the faces on which Capsules arrive
  EchoIds,      \* the echo ids; bounds the ids in use at a time
  MaxTests,     \* link_test_id is an integer modulo MaxTests (2^32)
  Times,        \* timesForCheckPathConnectivity
  Reliable,     \* a message on a working link arrives within the interval
  NoFace, NoLsa

ASSUME MeasurementAssumption ==
  /\ Monitored \subseteq Faces
  /\ CapsuleFaces \subseteq Faces
  /\ MaxTests \in Nat \ {0}
  /\ Times \in Nat \ {0}
  /\ Reliable \in BOOLEAN
  /\ NoFace \notin Faces
  /\ NoLsa \notin [Monitored -> {"NORMAL", "FAILURE"}]

LinkTestIds == 0 .. MaxTests - 1
FaceStatus  == {"NORMAL", "FAILURE"}
MsgKinds    == {"Echo", "Back"}

\* operator[] of echoMsgStateMap on an absent id value-initialises the entry,
\* so an absent entry and this one are the same to every reader but find().
Absent    == [fe |-> NoFace, status |-> "NORMAL"]
EchoState == {Absent} \cup [fe : Faces, status : {"WAITING", "NORMAL"}]

VARIABLES
  nextLinkTestID,
  running,            \* tests with a runLinkTestsAndDoUpdate event scheduled
  roundsLeft,         \* that event's first argument
  scope,              \* the faces the test sends echoes on (isFull, faceID)
  EchoIDsInLinkTest,
  echoMsgStateMap,
  status,             \* LltcFaceEntry::status
  prevLsa,
  waitCapTimer,       \* faces whose active-check timer is scheduled
  announced,          \* the statuses the LSAs sent so far add up to
  linkUp,             \* environment: the physical links
  wire,               \* environment: messages in flight on each link
  upDuring,           \* history: faces whose link was up at some time
  downDuring          \*   (was down at some time) since the test began

testVars == <<nextLinkTestID, running, roundsLeft, scope, EchoIDsInLinkTest>>
lsaVars  == <<prevLsa, announced>>
vars == <<testVars, echoMsgStateMap, status, lsaVars, waitCapTimer,
          linkUp, wire, upDuring, downDuring>>

Init ==
  /\ nextLinkTestID = 0
  /\ running = {}
  /\ roundsLeft = [t \in LinkTestIds |-> 0]
  /\ scope = [t \in LinkTestIds |-> {}]
  /\ EchoIDsInLinkTest = [t \in LinkTestIds |-> {}]
  /\ echoMsgStateMap = [i \in EchoIds |-> Absent]
  /\ status = [f \in Faces |-> "NORMAL"]
  /\ prevLsa = NoLsa
  /\ waitCapTimer = {}
  /\ announced = [f \in Monitored |-> "NORMAL"]
  /\ linkUp = [f \in Monitored |-> TRUE]
  /\ wire = [f \in Monitored |-> {}]
  /\ upDuring = [t \in LinkTestIds |-> {}]
  /\ downDuring = [t \in LinkTestIds |-> {}]

-----------------------------------------------------------------------------
(* Sending echoes. *)

InUse == {i \in EchoIds : \/ echoMsgStateMap[i] # Absent
                          \/ \E f \in Monitored, k \in MsgKinds : <<k, i>> \in wire[f]}

\* The ids drawn for one round on the faces of F: one per face, none in use.
EchoIdChoices(F) ==
  {ids \in [F -> EchoIds \ InUse] :
     \A f, g \in F : ids[f] = ids[g] => f = g}

FaultyPresetEntry(f) == [fe |-> f, status |-> "NORMAL"]

newEntry(f) == [fe |-> f, status |-> "WAITING"]

\* A round of test t on the faces of F.
broadcastEchos(t, F) ==
  \E ids \in EchoIdChoices(F) :
    /\ EchoIDsInLinkTest' =
         [EchoIDsInLinkTest EXCEPT ![t] = @ \cup {ids[f] : f \in F}]
    /\ echoMsgStateMap' =
         [i \in EchoIds |->
            IF \E f \in F : ids[f] = i
            THEN newEntry(CHOOSE f \in F : ids[f] = i)
            ELSE echoMsgStateMap[i]]
    /\ wire' = [f \in Monitored |-> IF f \in F THEN wire[f] \cup {<<"Echo", ids[f]>>}
                                               ELSE wire[f]]

\* A new test: its id, and its first round, which is sent at once.
startLinkTest(F) ==
  LET t == nextLinkTestID IN
  /\ t \notin running
  /\ nextLinkTestID' = (t + 1) % MaxTests
  /\ running' = running \cup {t}
  /\ roundsLeft' = [roundsLeft EXCEPT ![t] = Times - 1]
  /\ scope' = [scope EXCEPT ![t] = F]
  /\ broadcastEchos(t, F)
  /\ upDuring' = [upDuring EXCEPT ![t] = {f \in Monitored : linkUp[f]}]
  /\ downDuring' = [downDuring EXCEPT ![t] = {f \in Monitored : ~linkUp[f]}]
  /\ UNCHANGED <<status, lsaVars, linkUp>>

checkLinkConnectivityInPeriodic ==
  /\ startLinkTest(Monitored)
  /\ UNCHANGED waitCapTimer

checkLinkConnectivityInActiveManner(f) ==
  /\ f \in waitCapTimer
  /\ waitCapTimer' = waitCapTimer \ {f}
  /\ startLinkTest(Monitored \cap {f})

\* A Capsule arrives on f.  Once enough seconds have been counted it puts off
\* the expiry of the timer of f, which is scheduled from then on.
doActiveLinkConnectivityCheck(f) ==
  /\ f \in CapsuleFaces
  /\ f \in Monitored => linkUp[f]
  /\ waitCapTimer' = waitCapTimer \cup {f}
  /\ UNCHANGED <<testVars, echoMsgStateMap, status, lsaVars, linkUp, wire,
                 upDuring, downDuring>>

-----------------------------------------------------------------------------
(* The next event of a running test, an interval after the one before. *)

\* Under Reliable the interval outlasts the exchange of every echo of t.
Settled(t) ==
  \A f \in Monitored, k \in MsgKinds, i \in EchoIDsInLinkTest[t] :
    <<k, i>> \notin wire[f]

runLinkTestsRound(t) ==
  /\ t \in running
  /\ roundsLeft[t] > 0
  /\ Reliable => Settled(t)
  /\ roundsLeft' = [roundsLeft EXCEPT ![t] = @ - 1]
  /\ broadcastEchos(t, scope[t])
  /\ UNCHANGED <<nextLinkTestID, running, scope, status, lsaVars, waitCapTimer,
                 linkUp, upDuring, downDuring>>

\* The faces for which faceStatusMap gets an entry, and those with an answer.
FaultyTestAll(t)  == Monitored
FaultyAnyEcho(t)  == {echoMsgStateMap[i].fe : i \in {j \in EchoIds : echoMsgStateMap[j].status = "NORMAL"}}

testedFaces(t)   == {echoMsgStateMap[i].fe : i \in EchoIDsInLinkTest[t]} \cap Monitored
answeredFaces(t) ==
  {echoMsgStateMap[i].fe : i \in {j \in EchoIDsInLinkTest[t] :
                                    echoMsgStateMap[j].status = "NORMAL"}}

FaultyCopyStatus(t) ==
  [f \in Faces |-> IF f \notin testedFaces(t) THEN status[f]
                   ELSE IF f \in answeredFaces(t) THEN "NORMAL" ELSE "WAITING"]
FaultyLatched(t) ==
  [f \in Faces |-> IF f \in testedFaces(t) \ answeredFaces(t) THEN "FAILURE" ELSE status[f]]

updateFaceStats(t) ==
  [f \in Faces |-> IF f \notin testedFaces(t) THEN status[f]
                   ELSE IF f \in answeredFaces(t) THEN "NORMAL" ELSE "FAILURE"]

FaultyKeepAnswered(t) ==
  [i \in EchoIds |-> IF i \in EchoIDsInLinkTest[t] /\ echoMsgStateMap[i].status = "WAITING"
                     THEN Absent ELSE echoMsgStateMap[i]]

eraseEchoes(t) ==
  [i \in EchoIds |-> IF i \in EchoIDsInLinkTest[t] THEN Absent ELSE echoMsgStateMap[i]]

FaultyOnlyFailures(st) ==
  \E f \in Monitored : st[f] = "FAILURE" /\ (prevLsa = NoLsa \/ prevLsa[f] # "FAILURE")

\* Do the statuses st differ from those of the last LSA?  Before the first LSA
\* only a failure counts as a difference.
LsaDiffers(st) ==
  IF prevLsa = NoLsa THEN \E f \in Monitored : st[f] = "FAILURE"
                     ELSE \E f \in Monitored : prevLsa[f] # st[f]

broadcastingLsaTask(st) ==
  LET lsList == [f \in Monitored |-> st[f]] IN
  IF LsaDiffers(st)
  THEN prevLsa' = lsList /\ announced' = lsList
  ELSE UNCHANGED lsaVars

\* The test concludes: statuses, bookkeeping and LSA in one event.
runLinkTestsConclude(t) ==
  /\ t \in running
  /\ roundsLeft[t] = 0
  /\ Reliable => Settled(t)
  /\ status' = updateFaceStats(t)
  /\ echoMsgStateMap' = eraseEchoes(t)
  /\ EchoIDsInLinkTest' = [EchoIDsInLinkTest EXCEPT ![t] = {}]
  /\ running' = running \ {t}
  /\ scope' = [scope EXCEPT ![t] = {}]
  /\ broadcastingLsaTask(updateFaceStats(t))
  /\ upDuring' = [upDuring EXCEPT ![t] = {}]
  /\ downDuring' = [downDuring EXCEPT ![t] = {}]
  /\ UNCHANGED <<nextLinkTestID, roundsLeft, waitCapTimer, linkUp, wire>>

-----------------------------------------------------------------------------
(* Messages and links. *)

\* The neighbour on f receives an Echo and answers it on the same link.
onReceiveEcho(f, i) ==
  /\ <<"Echo", i>> \in wire[f]
  /\ linkUp[f]
  /\ wire' = [wire EXCEPT ![f] = (@ \ {<<"Echo", i>>}) \cup {<<"Back", i>>}]
  /\ UNCHANGED <<testVars, echoMsgStateMap, status, lsaVars, waitCapTimer, linkUp,
                 upDuring, downDuring>>

FaultyKeepWaiting(e) == e

answered(e) == [e EXCEPT !.status = "NORMAL"]

\* A Back counts only while its echo is in the map: a late one is ignored.
onReceiveBack(f, i) ==
  /\ <<"Back", i>> \in wire[f]
  /\ linkUp[f]
  /\ wire' = [wire EXCEPT ![f] = @ \ {<<"Back", i>>}]
  /\ echoMsgStateMap' =
       IF echoMsgStateMap[i] = Absent THEN echoMsgStateMap
       ELSE [echoMsgStateMap EXCEPT ![i] = answered(@)]
  /\ UNCHANGED <<testVars, status, lsaVars, waitCapTimer, linkUp, upDuring, downDuring>>

\* A message is lost on a failed link (the receiver's error model), and if
\* links are not Reliable on a working one too.
LoseMessage(f, m) ==
  /\ m \in wire[f]
  /\ Reliable => ~linkUp[f]
  /\ wire' = [wire EXCEPT ![f] = @ \ {m}]
  /\ UNCHANGED <<testVars, echoMsgStateMap, status, lsaVars, waitCapTimer, linkUp,
                 upDuring, downDuring>>

LinkFails(f) ==
  /\ linkUp[f]
  /\ linkUp' = [linkUp EXCEPT ![f] = FALSE]
  /\ downDuring' = [t \in LinkTestIds |-> IF t \in running THEN downDuring[t] \cup {f}
                                                           ELSE downDuring[t]]
  /\ UNCHANGED <<testVars, echoMsgStateMap, status, lsaVars, waitCapTimer, wire, upDuring>>

LinkRecovers(f) ==
  /\ ~linkUp[f]
  /\ linkUp' = [linkUp EXCEPT ![f] = TRUE]
  /\ upDuring' = [t \in LinkTestIds |-> IF t \in running THEN upDuring[t] \cup {f}
                                                         ELSE upDuring[t]]
  /\ UNCHANGED <<testVars, echoMsgStateMap, status, lsaVars, waitCapTimer, wire, downDuring>>

-----------------------------------------------------------------------------
Next ==
  \/ checkLinkConnectivityInPeriodic
  \/ \E f \in Faces : \/ checkLinkConnectivityInActiveManner(f)
                      \/ doActiveLinkConnectivityCheck(f)
  \/ \E t \in LinkTestIds : runLinkTestsRound(t) \/ runLinkTestsConclude(t)
  \/ \E f \in Monitored, i \in EchoIds : onReceiveEcho(f, i) \/ onReceiveBack(f, i)
  \/ \E f \in Monitored : \E m \in wire[f] : LoseMessage(f, m)
  \/ \E f \in Monitored : LinkFails(f) \/ LinkRecovers(f)

Spec == Init /\ [][Next]_vars

\* What the scheduler and the links guarantee.  The periodic timer is strongly
\* fair because only the reuse of test ids can disable it: the simulator runs
\* every event it holds.  A message is delivered or lost, whichever the state of
\* the link allows.
MessageResolved(f, i) ==
  \/ onReceiveEcho(f, i)
  \/ onReceiveBack(f, i)
  \/ \E k \in MsgKinds : LoseMessage(f, <<k, i>>)

Fairness ==
  /\ SF_vars(checkLinkConnectivityInPeriodic)
  /\ \A t \in LinkTestIds : WF_vars(runLinkTestsRound(t) \/ runLinkTestsConclude(t))
  /\ \A f \in Monitored, i \in EchoIds : WF_vars(MessageResolved(f, i))

FairSpec == Spec /\ Fairness

-----------------------------------------------------------------------------
(* Properties. *)

TypeOK ==
  /\ nextLinkTestID \in LinkTestIds
  /\ running \subseteq LinkTestIds
  /\ roundsLeft \in [LinkTestIds -> 0 .. Times - 1]
  /\ scope \in [LinkTestIds -> SUBSET Monitored]
  /\ EchoIDsInLinkTest \in [LinkTestIds -> SUBSET EchoIds]
  /\ echoMsgStateMap \in [EchoIds -> EchoState]
  /\ status \in [Faces -> FaceStatus]
  /\ prevLsa \in [Monitored -> FaceStatus] \cup {NoLsa}
  /\ waitCapTimer \subseteq Faces
  /\ announced \in [Monitored -> FaceStatus]
  /\ linkUp \in [Monitored -> BOOLEAN]
  /\ wire \in [Monitored -> SUBSET (MsgKinds \X EchoIds)]
  /\ upDuring \in [LinkTestIds -> SUBSET Monitored]
  /\ downDuring \in [LinkTestIds -> SUBSET Monitored]

\* Overlapping tests do not mix up their echoes: an id of the map belongs to
\* exactly one running test, whose scope has the face the id was sent on, and
\* a concluded test leaves nothing behind in either map.
EchoOwnership ==
  /\ \A t \in LinkTestIds : \A i \in EchoIDsInLinkTest[t] :
       /\ t \in running
       /\ echoMsgStateMap[i].fe \in scope[t]
       /\ \A u \in LinkTestIds : i \in EchoIDsInLinkTest[u] => u = t
  /\ \A i \in EchoIds : echoMsgStateMap[i] # Absent =>
       \E t \in running : i \in EchoIDsInLinkTest[t]

\* A link that was never up while a test ran has no answered echo in that
\* test, whatever late Backs of earlier tests still arrive.
AnswerNeedsLink ==
  \A t \in running : \A i \in EchoIDsInLinkTest[t] :
    LET f == echoMsgStateMap[i].fe IN
    echoMsgStateMap[i].status = "NORMAL" \/ <<"Back", i>> \in wire[f] => f \in upDuring[t]

\* If links are Reliable, an echo of a link that was up all through its test is
\* answered or its exchange is still under way: nothing is dropped silently.
NoSilentEcho ==
  Reliable => \A t \in running : \A i \in EchoIDsInLinkTest[t] :
    LET f == echoMsgStateMap[i].fe IN
    f \notin downDuring[t] =>
      echoMsgStateMap[i].status = "NORMAL" \/ \E k \in MsgKinds : <<k, i>> \in wire[f]

\* The diff that suppresses LSAs never hides a change: the LSAs sent so far add
\* up to the current statuses, though each status is written by any of several
\* overlapping tests and the first LSA waits for a failure.
AnnouncedIsCurrent == \A f \in Monitored : announced[f] = status[f]

\* A FAILURE face becomes NORMAL only by the conclusion of a test during which
\* its link was up at some time.
RecoveryJustified ==
  [][\A f \in Monitored : status[f] = "FAILURE" /\ status'[f] = "NORMAL" =>
       \E t \in running \ running' : f \in upDuring[t]]_vars

\* If links are Reliable, a NORMAL face becomes FAILURE only by the conclusion
\* of a test during which its link was down at some time: a working link is
\* not reported as failed because a test of another face, or of an earlier
\* time, concludes.
FailureJustified ==
  [][\A f \in Monitored : Reliable /\ status[f] = "NORMAL" /\ status'[f] = "FAILURE" =>
       \E t \in running \ running' : f \in downDuring[t]]_vars

\* A link that stays down is in the end known, and announced, as failed, and a
\* link that stays up as working, whatever the other links do.
EventuallyAccurate ==
  \A f \in Monitored :
    /\ <>[]~linkUp[f] => <>[](status[f] = "FAILURE" /\ announced[f] = "FAILURE")
    /\ Reliable /\ <>[]linkUp[f] => <>[](status[f] = "NORMAL" /\ announced[f] = "NORMAL")
=============================================================================
