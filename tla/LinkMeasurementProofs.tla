----------------------- MODULE LinkMeasurementProofs -----------------------
(***************************************************************************)
(* Proofs about LinkMeasurement, for every number of faces, tests in       *)
(* progress, rounds and echo ids.                                          *)
(*                                                                         *)
(* The layers: the types; the ownership of echoes by tests (with the       *)
(* strengthening EchoTracking: a message in flight is on the link its      *)
(* entry names); what answers and silence say about links (with UpNow and  *)
(* DownNow, which tie the history to the current state of the links); what *)
(* LSAs have announced.  The action properties follow from these.          *)
(***************************************************************************)
EXTENDS LinkMeasurement, TLAPS

\* A round of test t on F, seen from one id: the ids of D are drawn, each for a
\* face of F on which its Echo starts, and the round does not touch the others.
RoundDraws(t, F, D) ==
  /\ D \cap InUse = {}
  /\ EchoIDsInLinkTest' = [EchoIDsInLinkTest EXCEPT ![t] = @ \cup D]
  /\ \A i \in EchoIds \ D : echoMsgStateMap'[i] = echoMsgStateMap[i]
  /\ \A i \in D : \E f \in F :
       /\ echoMsgStateMap'[i] = [fe |-> f, status |-> "WAITING"]
       /\ <<"Echo", i>> \in wire'[f]
       /\ \A g \in Monitored, k \in MsgKinds : <<k, i>> \in wire'[g] => g = f /\ k = "Echo"
  /\ \A g \in Monitored, k \in MsgKinds, i \in EchoIds \ D :
       <<k, i>> \in wire'[g] <=> <<k, i>> \in wire[g]
  /\ wire' \in [Monitored -> SUBSET (MsgKinds \X EchoIds)]
  /\ echoMsgStateMap' \in [EchoIds -> EchoState]

LEMMA RoundFacts ==
  ASSUME NEW t \in LinkTestIds, NEW F \in SUBSET Monitored,
         TypeOK, broadcastEchos(t, F)
  PROVE  \E D \in SUBSET EchoIds : RoundDraws(t, F, D)
<1> USE MeasurementAssumption
<1>1. PICK ids \in EchoIdChoices(F) :
        /\ EchoIDsInLinkTest' =
             [EchoIDsInLinkTest EXCEPT ![t] = @ \cup {ids[f] : f \in F}]
        /\ echoMsgStateMap' =
             [i \in EchoIds |->
                IF \E f \in F : ids[f] = i
                THEN newEntry(CHOOSE f \in F : ids[f] = i)
                ELSE echoMsgStateMap[i]]
        /\ wire' = [f \in Monitored |-> IF f \in F THEN wire[f] \cup {<<"Echo", ids[f]>>}
                                                   ELSE wire[f]]
  BY DEF broadcastEchos
<1> DEFINE D == {ids[f] : f \in F}
<1>2. /\ ids \in [F -> EchoIds \ InUse]
      /\ \A f, g \in F : ids[f] = ids[g] => f = g
  BY DEF EchoIdChoices
<1>3. D \in SUBSET EchoIds /\ D \cap InUse = {}
  BY <1>2
<1>4. ASSUME NEW i \in D
      PROVE  \E f \in F :
                /\ echoMsgStateMap'[i] = [fe |-> f, status |-> "WAITING"]
                /\ <<"Echo", i>> \in wire'[f]
                /\ \A g \in Monitored, k \in MsgKinds :
                     <<k, i>> \in wire'[g] => g = f /\ k = "Echo"
  <2>1. PICK f \in F : ids[f] = i
    OBVIOUS
  <2>2. (CHOOSE h \in F : ids[h] = i) = f
    BY <2>1, <1>2
  <2>3. echoMsgStateMap'[i] = [fe |-> f, status |-> "WAITING"]
    BY <1>1, <1>3, <2>1, <2>2 DEF newEntry
  <2>4. <<"Echo", i>> \in wire'[f]
    BY <1>1, <2>1
  <2>5. ASSUME NEW g \in Monitored, NEW k \in MsgKinds, <<k, i>> \in wire'[g]
        PROVE  g = f /\ k = "Echo"
    <3>1. <<k, i>> \notin wire[g]
      BY <1>3 DEF InUse
    <3>2. g \in F /\ <<k, i>> = <<"Echo", ids[g]>>
      BY <1>1, <2>5, <3>1
    <3> QED
      BY <1>2, <2>1, <3>2
  <2> QED
    BY <2>3, <2>4, <2>5
<1>5. ASSUME NEW g \in Monitored, NEW k \in MsgKinds, NEW i \in EchoIds \ D
      PROVE  <<k, i>> \in wire'[g] <=> <<k, i>> \in wire[g]
  BY <1>1
<1>6. \A i \in EchoIds \ D : echoMsgStateMap'[i] = echoMsgStateMap[i]
  BY <1>1
<1>7. wire' \in [Monitored -> SUBSET (MsgKinds \X EchoIds)]
  BY <1>1, <1>2 DEF TypeOK, MsgKinds
<1>8. echoMsgStateMap' \in [EchoIds -> EchoState]
  <2>1. ASSUME NEW i \in EchoIds PROVE echoMsgStateMap'[i] \in EchoState
    <3>1. CASE i \in D
      <4>1. PICK f \in F : echoMsgStateMap'[i] = [fe |-> f, status |-> "WAITING"]
        BY <1>4, <3>1
      <4>2. f \in Faces
        OBVIOUS
      <4> QED
        BY <4>1, <4>2 DEF EchoState
    <3>2. CASE i \notin D
      BY <1>6, <3>2 DEF TypeOK
    <3> QED
      BY <3>1, <3>2
  <2> QED
    BY <1>1, <2>1
<1>9. EchoIDsInLinkTest' = [EchoIDsInLinkTest EXCEPT ![t] = @ \cup D]
  BY <1>1
<1> HIDE DEF D
<1> QED
  BY <1>3, <1>4, <1>5, <1>6, <1>7, <1>8, <1>9 DEF RoundDraws

\* A new test takes a free id and the next id stays in range.
LEMMA StartFacts ==
  ASSUME NEW F \in SUBSET Monitored, TypeOK, startLinkTest(F)
  PROVE  /\ nextLinkTestID' \in LinkTestIds
         /\ roundsLeft' \in [LinkTestIds -> 0 .. Times - 1]
         /\ broadcastEchos(nextLinkTestID, F)
         /\ nextLinkTestID \in LinkTestIds \ running
BY MeasurementAssumption DEF startLinkTest, TypeOK, LinkTestIds

LEMMA TypeInit == Init => TypeOK
BY MeasurementAssumption
   DEF Init, TypeOK, LinkTestIds, FaceStatus, EchoState, Absent, MsgKinds

LEMMA StartType ==
  ASSUME NEW F \in SUBSET Monitored, TypeOK, startLinkTest(F),
         waitCapTimer' \subseteq Faces
  PROVE  TypeOK'
<1>1. nextLinkTestID' \in LinkTestIds /\ roundsLeft' \in [LinkTestIds -> 0 .. Times - 1]
  BY StartFacts
<1>2. nextLinkTestID \in LinkTestIds /\ broadcastEchos(nextLinkTestID, F)
  BY StartFacts
<1>3. /\ EchoIDsInLinkTest' \in [LinkTestIds -> SUBSET EchoIds]
      /\ wire' \in [Monitored -> SUBSET (MsgKinds \X EchoIds)]
      /\ echoMsgStateMap' \in [EchoIds -> EchoState]
  BY <1>2, RoundFacts DEF RoundDraws, TypeOK
<1>4. /\ running' \subseteq LinkTestIds
      /\ scope' \in [LinkTestIds -> SUBSET Monitored]
      /\ upDuring' \in [LinkTestIds -> SUBSET Monitored]
      /\ downDuring' \in [LinkTestIds -> SUBSET Monitored]
  BY <1>2 DEF startLinkTest, TypeOK
<1> QED
  BY <1>1, <1>3, <1>4 DEF startLinkTest, TypeOK, lsaVars

LEMMA ConcludeType ==
  ASSUME NEW t \in LinkTestIds, TypeOK, runLinkTestsConclude(t)
  PROVE  TypeOK'
<1>1. updateFaceStats(t) \in [Faces -> FaceStatus]
  BY DEF updateFaceStats, TypeOK, FaceStatus
<1>2. [f \in Monitored |-> updateFaceStats(t)[f]] \in [Monitored -> FaceStatus]
  BY <1>1, MeasurementAssumption
<1>3. /\ prevLsa' \in [Monitored -> FaceStatus] \cup {NoLsa}
      /\ announced' \in [Monitored -> FaceStatus]
  BY <1>2 DEF runLinkTestsConclude, broadcastingLsaTask, lsaVars, TypeOK
<1>4. echoMsgStateMap' \in [EchoIds -> EchoState]
  BY DEF runLinkTestsConclude, eraseEchoes, TypeOK, EchoState
<1> QED
  BY <1>1, <1>3, <1>4 DEF runLinkTestsConclude, TypeOK

LEMMA TypeNext == TypeOK /\ [Next]_vars => TypeOK'
<1> SUFFICES ASSUME TypeOK, [Next]_vars PROVE TypeOK'
  OBVIOUS
<1> USE MeasurementAssumption
<1>1. CASE checkLinkConnectivityInPeriodic
  BY <1>1, StartType DEF checkLinkConnectivityInPeriodic, TypeOK
<1>2. ASSUME NEW f \in Faces, checkLinkConnectivityInActiveManner(f) PROVE TypeOK'
  <2>1. Monitored \cap {f} \in SUBSET Monitored /\ waitCapTimer' \subseteq Faces
    BY <1>2 DEF checkLinkConnectivityInActiveManner, TypeOK
  <2> QED
    BY <1>2, <2>1, StartType DEF checkLinkConnectivityInActiveManner
<1>3. ASSUME NEW f \in Faces, doActiveLinkConnectivityCheck(f) PROVE TypeOK'
  BY <1>3 DEF doActiveLinkConnectivityCheck, TypeOK, testVars, lsaVars
<1>4. ASSUME NEW t \in LinkTestIds, runLinkTestsRound(t) PROVE TypeOK'
  <2>1. broadcastEchos(t, scope[t]) /\ scope[t] \in SUBSET Monitored
    BY <1>4 DEF runLinkTestsRound, TypeOK
  <2>2. /\ EchoIDsInLinkTest' \in [LinkTestIds -> SUBSET EchoIds]
        /\ wire' \in [Monitored -> SUBSET (MsgKinds \X EchoIds)]
        /\ echoMsgStateMap' \in [EchoIds -> EchoState]
    BY <2>1, RoundFacts DEF RoundDraws, TypeOK
  <2>3. roundsLeft' \in [LinkTestIds -> 0 .. Times - 1]
    BY <1>4 DEF runLinkTestsRound, TypeOK
  <2> QED
    BY <1>4, <2>2, <2>3 DEF runLinkTestsRound, TypeOK, lsaVars
<1>5. ASSUME NEW t \in LinkTestIds, runLinkTestsConclude(t) PROVE TypeOK'
  BY <1>5, ConcludeType
<1>6. ASSUME NEW f \in Monitored, NEW i \in EchoIds, onReceiveEcho(f, i) PROVE TypeOK'
  <2>1. wire' \in [Monitored -> SUBSET (MsgKinds \X EchoIds)]
    BY <1>6 DEF onReceiveEcho, TypeOK, MsgKinds
  <2> QED
    BY <1>6, <2>1 DEF onReceiveEcho, TypeOK, testVars, lsaVars
<1>7. ASSUME NEW f \in Monitored, NEW i \in EchoIds, onReceiveBack(f, i) PROVE TypeOK'
  <2>1. wire' \in [Monitored -> SUBSET (MsgKinds \X EchoIds)]
    BY <1>7 DEF onReceiveBack, TypeOK
  <2>2. echoMsgStateMap' \in [EchoIds -> EchoState]
    BY <1>7 DEF onReceiveBack, answered, TypeOK, EchoState, Absent
  <2> QED
    BY <1>7, <2>1, <2>2 DEF onReceiveBack, TypeOK, testVars, lsaVars
<1>8. ASSUME NEW f \in Monitored, NEW m \in wire[f], LoseMessage(f, m) PROVE TypeOK'
  <2>1. wire' \in [Monitored -> SUBSET (MsgKinds \X EchoIds)]
    BY <1>8 DEF LoseMessage, TypeOK
  <2> QED
    BY <1>8, <2>1 DEF LoseMessage, TypeOK, testVars, lsaVars
<1>9. ASSUME NEW f \in Monitored, LinkFails(f) \/ LinkRecovers(f) PROVE TypeOK'
  <2>1. /\ linkUp' \in [Monitored -> BOOLEAN]
        /\ upDuring' \in [LinkTestIds -> SUBSET Monitored]
        /\ downDuring' \in [LinkTestIds -> SUBSET Monitored]
    <3>1. CASE LinkFails(f)
      BY <3>1 DEF LinkFails, TypeOK
    <3>2. CASE LinkRecovers(f)
      BY <3>2 DEF LinkRecovers, TypeOK
    <3> QED
      BY <1>9, <3>1, <3>2
  <2>2. UNCHANGED <<testVars, echoMsgStateMap, status, lsaVars, waitCapTimer, wire>>
    BY <1>9 DEF LinkFails, LinkRecovers
  <2> QED
    BY <2>1, <2>2 DEF TypeOK, testVars, lsaVars
<1>10. CASE UNCHANGED vars
  BY <1>10 DEF vars, testVars, lsaVars, TypeOK
<1> QED
  BY <1>1, <1>2, <1>3, <1>4, <1>5, <1>6, <1>7, <1>8, <1>9, <1>10 DEF Next

\* Every variable of the measurement keeps its type.
THEOREM TypeCorrect == Spec => []TypeOK
BY TypeInit, TypeNext, PTL DEF Spec

-----------------------------------------------------------------------------
(* Ownership. *)

\* A message in flight whose id has an entry is on the link the entry names.
EchoTracking ==
  \A f \in Monitored, k \in MsgKinds, i \in EchoIds :
    <<k, i>> \in wire[f] /\ echoMsgStateMap[i] # Absent => echoMsgStateMap[i].fe = f

\* An entry present in the map names a monitored face.
EntriesNameFaces ==
  \A i \in EchoIds : echoMsgStateMap[i] # Absent => echoMsgStateMap[i].fe \in Monitored

Ownership == EchoOwnership /\ EchoTracking /\ EntriesNameFaces

\* A round of test t keeps the ownership, t being made a running test.
LEMMA RoundOwnership ==
  ASSUME NEW t \in LinkTestIds, NEW F \in SUBSET Monitored,
         TypeOK, Ownership, broadcastEchos(t, F), scope'[t] = F,
         running' = running \cup {t},
         \A u \in running : scope'[u] = scope[u]
  PROVE  Ownership'
<1> USE MeasurementAssumption
<1>1. PICK D \in SUBSET EchoIds : RoundDraws(t, F, D)
  BY RoundFacts
<1>2. ASSUME NEW i \in D
      PROVE  echoMsgStateMap[i] = Absent /\ \A u \in LinkTestIds : i \notin EchoIDsInLinkTest[u]
  <2>1. echoMsgStateMap[i] = Absent
    BY <1>1 DEF RoundDraws, InUse
  <2> QED
    BY <2>1 DEF Ownership, EchoOwnership, TypeOK, Absent
<1>3. /\ EchoIDsInLinkTest' = [EchoIDsInLinkTest EXCEPT ![t] = @ \cup D]
      /\ \A i \in EchoIds \ D : echoMsgStateMap'[i] = echoMsgStateMap[i]
      /\ \A g \in Monitored, k \in MsgKinds, i \in EchoIds \ D :
             <<k, i>> \in wire'[g] <=> <<k, i>> \in wire[g]
  BY <1>1 DEF RoundDraws
<1>4. ASSUME NEW i \in D
      PROVE  \E f \in F :
               /\ echoMsgStateMap'[i] = [fe |-> f, status |-> "WAITING"]
               /\ \A g \in Monitored, k \in MsgKinds : <<k, i>> \in wire'[g] => g = f
  <2>1. \E f \in F :
          /\ echoMsgStateMap'[i] = [fe |-> f, status |-> "WAITING"]
          /\ <<"Echo", i>> \in wire'[f]
          /\ \A g \in Monitored, k \in MsgKinds : <<k, i>> \in wire'[g] => g = f /\ k = "Echo"
    BY <1>1 DEF RoundDraws
  <2> QED
    BY <2>1
<1>5. ASSUME NEW i \in D
      PROVE  echoMsgStateMap'[i].fe \in F /\ echoMsgStateMap'[i] # Absent
  <2>1. PICK f \in F : echoMsgStateMap'[i] = [fe |-> f, status |-> "WAITING"]
    BY <1>4
  <2> QED
    BY <2>1 DEF Absent
<1>6. ASSUME NEW u \in LinkTestIds, NEW i \in EchoIDsInLinkTest'[u]
      PROVE  /\ u \in running'
             /\ echoMsgStateMap'[i].fe \in scope'[u]
             /\ \A v \in LinkTestIds : i \in EchoIDsInLinkTest'[v] => v = u
  <2>1. CASE i \in D
    <3>1. \A v \in LinkTestIds : i \in EchoIDsInLinkTest'[v] => v = t
      BY <1>2, <1>3, <2>1 DEF TypeOK
    <3> QED
      BY <1>5, <1>6, <2>1, <3>1
  <2>2. CASE i \notin D
    <3>1. \A v \in LinkTestIds : i \in EchoIDsInLinkTest'[v] => i \in EchoIDsInLinkTest[v]
      BY <1>3, <2>2 DEF TypeOK
    <3>2. i \in EchoIDsInLinkTest[u] /\ i \in EchoIds
      BY <1>6, <3>1 DEF TypeOK
    <3>3. echoMsgStateMap'[i] = echoMsgStateMap[i] /\ u \in running
      BY <1>3, <2>2, <3>2 DEF Ownership, EchoOwnership
    <3> QED
      BY <3>1, <3>2, <3>3 DEF Ownership, EchoOwnership
  <2> QED
    BY <2>1, <2>2
<1>7. ASSUME NEW i \in EchoIds, echoMsgStateMap'[i] # Absent
      PROVE  /\ \E u \in running' : i \in EchoIDsInLinkTest'[u]
             /\ echoMsgStateMap'[i].fe \in Monitored
  <2>1. CASE i \in D
    BY <1>3, <1>5, <2>1 DEF TypeOK
  <2>2. CASE i \notin D
    <3>1. echoMsgStateMap[i] # Absent /\ echoMsgStateMap'[i] = echoMsgStateMap[i]
      BY <1>3, <1>7, <2>2
    <3>2. PICK u \in running : i \in EchoIDsInLinkTest[u]
      BY <3>1 DEF Ownership, EchoOwnership
    <3> QED
      BY <1>3, <3>1, <3>2 DEF Ownership, EntriesNameFaces, TypeOK
  <2> QED
    BY <2>1, <2>2
<1>8. EchoTracking'
  <2> SUFFICES ASSUME NEW g \in Monitored, NEW k \in MsgKinds, NEW i \in EchoIds,
                      <<k, i>> \in wire'[g], echoMsgStateMap'[i] # Absent
               PROVE  echoMsgStateMap'[i].fe = g
    BY DEF EchoTracking
  <2>1. CASE i \in D
    <3>1. PICK f \in F :
            /\ echoMsgStateMap'[i] = [fe |-> f, status |-> "WAITING"]
            /\ \A h \in Monitored, j \in MsgKinds : <<j, i>> \in wire'[h] => h = f
      BY <1>4, <2>1
    <3> QED
      BY <3>1
  <2>2. CASE i \notin D
    BY <1>3, <2>2 DEF Ownership, EchoTracking
  <2> QED
    BY <2>1, <2>2
<1>9. EchoOwnership' /\ EntriesNameFaces'
  BY <1>6, <1>7 DEF EchoOwnership, EntriesNameFaces, Absent
<1> QED
  BY <1>8, <1>9 DEF Ownership

LEMMA StartOwnership ==
  ASSUME NEW F \in SUBSET Monitored, TypeOK, Ownership, startLinkTest(F)
  PROVE  Ownership'
<1> DEFINE t == nextLinkTestID
<1>1. t \in LinkTestIds \ running /\ broadcastEchos(t, F)
  BY StartFacts
<1>2. scope'[t] = F /\ running' = running \cup {t} /\ \A u \in running : scope'[u] = scope[u]
  BY <1>1 DEF startLinkTest, TypeOK
<1> HIDE DEF t
<1> QED
  BY <1>1, <1>2, RoundOwnership

LEMMA ConcludeOwnership ==
  ASSUME NEW t \in LinkTestIds, TypeOK, Ownership, runLinkTestsConclude(t)
  PROVE  Ownership'
<1> DEFINE E == EchoIDsInLinkTest[t]
<1>1. /\ echoMsgStateMap' = [i \in EchoIds |-> IF i \in E THEN Absent ELSE echoMsgStateMap[i]]
      /\ EchoIDsInLinkTest' = [EchoIDsInLinkTest EXCEPT ![t] = {}]
      /\ scope' = [scope EXCEPT ![t] = {}]
      /\ running' = running \ {t}
      /\ wire' = wire
  BY DEF runLinkTestsConclude, eraseEchoes
<1>2. ASSUME NEW u \in LinkTestIds, NEW i \in EchoIDsInLinkTest'[u]
      PROVE  /\ u \in running'
             /\ echoMsgStateMap'[i].fe \in scope'[u]
             /\ \A v \in LinkTestIds : i \in EchoIDsInLinkTest'[v] => v = u
  <2>1. u # t /\ i \in EchoIDsInLinkTest[u]
    BY <1>1, <1>2 DEF TypeOK
  <2>2. i \notin E /\ i \in EchoIds /\ u \in running
    BY <2>1 DEF Ownership, EchoOwnership, TypeOK
  <2>3. echoMsgStateMap'[i] = echoMsgStateMap[i] /\ scope'[u] = scope[u]
    BY <1>1, <2>1, <2>2 DEF TypeOK
  <2> QED
    BY <1>1, <2>1, <2>2, <2>3 DEF Ownership, EchoOwnership, TypeOK
<1>3. ASSUME NEW i \in EchoIds, echoMsgStateMap'[i] # Absent
      PROVE  /\ \E u \in running' : i \in EchoIDsInLinkTest'[u]
             /\ echoMsgStateMap'[i].fe \in Monitored
  <2>1. i \notin E /\ echoMsgStateMap'[i] = echoMsgStateMap[i]
    BY <1>1, <1>3
  <2>2. PICK u \in running : i \in EchoIDsInLinkTest[u]
    BY <1>3, <2>1 DEF Ownership, EchoOwnership
  <2>3. u # t /\ u \in running' /\ i \in EchoIDsInLinkTest'[u]
    BY <1>1, <2>1, <2>2 DEF TypeOK
  <2> QED
    BY <1>3, <2>1, <2>3 DEF Ownership, EntriesNameFaces
<1>4. EchoTracking'
  BY <1>1 DEF Ownership, EchoTracking
<1> QED
  BY <1>2, <1>3, <1>4 DEF Ownership, EchoOwnership, EntriesNameFaces

\* An action that adds nothing to the wire but an answer to what is on it, and
\* changes of an entry at most the status, keeps the ownership.
LEMMA QuietOwnership ==
  ASSUME TypeOK, Ownership, running' = running, scope' = scope,
         EchoIDsInLinkTest' = EchoIDsInLinkTest,
         \A i \in EchoIds : /\ echoMsgStateMap'[i].fe = echoMsgStateMap[i].fe
                            /\ echoMsgStateMap'[i] = Absent <=> echoMsgStateMap[i] = Absent,
         \A g \in Monitored, k \in MsgKinds, i \in EchoIds :
           <<k, i>> \in wire'[g] => \E j \in MsgKinds : <<j, i>> \in wire[g]
  PROVE  Ownership'
<1>1. EchoOwnership'
  BY DEF Ownership, EchoOwnership, TypeOK
<1>2. EchoTracking'
  BY DEF Ownership, EchoTracking
<1>3. EntriesNameFaces'
  BY DEF Ownership, EntriesNameFaces
<1> QED
  BY <1>1, <1>2, <1>3 DEF Ownership

LEMMA OwnershipInit == Init => Ownership
BY DEF Init, Ownership, EchoOwnership, EchoTracking, EntriesNameFaces

LEMMA OwnershipNext == TypeOK /\ Ownership /\ [Next]_vars => Ownership'
<1> SUFFICES ASSUME TypeOK, Ownership, [Next]_vars PROVE Ownership'
  OBVIOUS
<1>1. CASE checkLinkConnectivityInPeriodic
  BY <1>1, StartOwnership DEF checkLinkConnectivityInPeriodic
<1>2. ASSUME NEW f \in Faces, checkLinkConnectivityInActiveManner(f) PROVE Ownership'
  <2>1. Monitored \cap {f} \in SUBSET Monitored
    OBVIOUS
  <2> QED
    BY <1>2, <2>1, StartOwnership DEF checkLinkConnectivityInActiveManner
<1>3. ASSUME NEW f \in Faces, doActiveLinkConnectivityCheck(f) PROVE Ownership'
  BY <1>3, QuietOwnership DEF doActiveLinkConnectivityCheck, testVars
<1>4. ASSUME NEW t \in LinkTestIds, runLinkTestsRound(t) PROVE Ownership'
  <2>1. /\ broadcastEchos(t, scope[t]) /\ scope[t] \in SUBSET Monitored
        /\ scope' = scope /\ running' = running \cup {t}
    BY <1>4 DEF runLinkTestsRound, TypeOK
  <2>2. scope'[t] = scope[t] /\ \A u \in running : scope'[u] = scope[u]
    BY <2>1
  <2> QED
    BY <2>1, <2>2, RoundOwnership
<1>5. ASSUME NEW t \in LinkTestIds, runLinkTestsConclude(t) PROVE Ownership'
  BY <1>5, ConcludeOwnership
<1>6. ASSUME NEW f \in Monitored, NEW i \in EchoIds, onReceiveEcho(f, i) PROVE Ownership'
  <2>1. ASSUME NEW g \in Monitored, NEW k \in MsgKinds, NEW e \in EchoIds,
               <<k, e>> \in wire'[g]
        PROVE  \E j \in MsgKinds : <<j, e>> \in wire[g]
    BY <1>6, <2>1 DEF onReceiveEcho, TypeOK, MsgKinds
  <2> QED
    BY <1>6, <2>1, QuietOwnership DEF onReceiveEcho, testVars
<1>7. ASSUME NEW f \in Monitored, NEW i \in EchoIds, onReceiveBack(f, i) PROVE Ownership'
  <2>1. ASSUME NEW g \in Monitored, NEW k \in MsgKinds, NEW e \in EchoIds,
               <<k, e>> \in wire'[g]
        PROVE  \E j \in MsgKinds : <<j, e>> \in wire[g]
    BY <1>7, <2>1 DEF onReceiveBack, TypeOK
  <2>2. ASSUME NEW e \in EchoIds
        PROVE  /\ echoMsgStateMap'[e].fe = echoMsgStateMap[e].fe
               /\ echoMsgStateMap'[e] = Absent <=> echoMsgStateMap[e] = Absent
    BY <1>7, MeasurementAssumption DEF onReceiveBack, answered, TypeOK, EchoState, Absent
  <2> QED
    BY <1>7, <2>1, <2>2, QuietOwnership DEF onReceiveBack, testVars
<1>8. ASSUME NEW f \in Monitored, NEW m \in wire[f], LoseMessage(f, m) PROVE Ownership'
  <2>1. ASSUME NEW g \in Monitored, NEW k \in MsgKinds, NEW e \in EchoIds,
               <<k, e>> \in wire'[g]
        PROVE  \E j \in MsgKinds : <<j, e>> \in wire[g]
    BY <1>8, <2>1 DEF LoseMessage, TypeOK
  <2> QED
    BY <1>8, <2>1, QuietOwnership DEF LoseMessage, testVars
<1>9. ASSUME NEW f \in Monitored, LinkFails(f) \/ LinkRecovers(f) PROVE Ownership'
  <2>1. UNCHANGED <<testVars, echoMsgStateMap, wire>>
    BY <1>9 DEF LinkFails, LinkRecovers
  <2> QED
    BY <2>1, QuietOwnership DEF testVars
<1>10. CASE UNCHANGED vars
  BY <1>10, QuietOwnership DEF vars, testVars
<1> QED
  BY <1>1, <1>2, <1>3, <1>4, <1>5, <1>6, <1>7, <1>8, <1>9, <1>10 DEF Next

\* Overlapping tests never share, lose or leave behind an echo.
THEOREM EchoOwnershipCorrect == Spec => []EchoOwnership
<1>1. TypeOK /\ Ownership /\ [Next]_vars => (TypeOK /\ Ownership)'
  BY TypeNext, OwnershipNext
<1>2. Init => TypeOK /\ Ownership
  BY TypeInit, OwnershipInit
<1>3. Ownership => EchoOwnership
  BY DEF Ownership
<1> QED
  BY <1>1, <1>2, <1>3, PTL DEF Spec

-----------------------------------------------------------------------------
(* What answers and silence say about links. *)

\* The history agrees with the present: a running test has seen up every link
\* that is up, and down every link that is down.
UpNow   == \A t \in running, f \in Monitored : linkUp[f] => f \in upDuring[t]
DownNow == \A t \in running, f \in Monitored : ~linkUp[f] => f \in downDuring[t]

Answers == UpNow /\ DownNow /\ AnswerNeedsLink /\ NoSilentEcho

\* What Answers says of one echo i of a running test u.
AnswerFits(u, i) ==
  LET f == echoMsgStateMap[i].fe IN
  /\ echoMsgStateMap[i].status = "NORMAL" \/ <<"Back", i>> \in wire[f] => f \in upDuring[u]
  /\ Reliable /\ f \notin downDuring[u] =>
       echoMsgStateMap[i].status = "NORMAL" \/ \E k \in MsgKinds : <<k, i>> \in wire[f]

LEMMA AnswersByEcho ==
  /\ Answers => \A u \in running : \A i \in EchoIDsInLinkTest[u] : AnswerFits(u, i)
  /\ UpNow /\ DownNow /\ (\A u \in running : \A i \in EchoIDsInLinkTest[u] : AnswerFits(u, i))
       => Answers
<1>1. Answers => \A u \in running : \A i \in EchoIDsInLinkTest[u] : AnswerFits(u, i)
  BY DEF Answers, AnswerNeedsLink, NoSilentEcho, AnswerFits
<1>2. UpNow /\ DownNow /\ (\A u \in running : \A i \in EchoIDsInLinkTest[u] : AnswerFits(u, i))
        => Answers
  BY DEF Answers, AnswerNeedsLink, NoSilentEcho, AnswerFits
<1> QED
  BY <1>1, <1>2

\* An echo of a test has an entry, and any message with its id is on its link.
LEMMA EchoEntry ==
  ASSUME TypeOK, Ownership, NEW u \in LinkTestIds, NEW i \in EchoIDsInLinkTest[u]
  PROVE  /\ i \in EchoIds
         /\ u \in running
         /\ echoMsgStateMap[i].fe \in Monitored
         /\ echoMsgStateMap[i] # Absent
         /\ \A g \in Monitored, k \in MsgKinds :
              <<k, i>> \in wire[g] => echoMsgStateMap[i].fe = g
<1>1. /\ i \in EchoIds
      /\ u \in running
      /\ echoMsgStateMap[i].fe \in Monitored
  BY DEF TypeOK, Ownership, EchoOwnership
<1>2. echoMsgStateMap[i] # Absent
  BY <1>1, MeasurementAssumption DEF Absent
<1> QED
  BY <1>1, <1>2 DEF Ownership, EchoTracking

\* A round of t, running already or new, leaves the other tests as they are.
LEMMA RoundAnswers ==
  ASSUME NEW t \in LinkTestIds, NEW F \in SUBSET Monitored,
         TypeOK, Ownership, Answers, broadcastEchos(t, F), running' = running \cup {t},
         \A u \in running : upDuring'[u] = upDuring[u] /\ downDuring'[u] = downDuring[u],
         UpNow', DownNow'
  PROVE  Answers'
<1>1. PICK D \in SUBSET EchoIds : RoundDraws(t, F, D)
  BY RoundFacts
<1>2. ASSUME NEW u \in running', NEW i \in EchoIDsInLinkTest'[u]
      PROVE  AnswerFits(u, i)'
  <2>0. u \in LinkTestIds
    BY DEF TypeOK
  <2>1. CASE i \in D
    <3>1. \E f \in F :
            /\ echoMsgStateMap'[i] = [fe |-> f, status |-> "WAITING"]
            /\ <<"Echo", i>> \in wire'[f]
            /\ \A g \in Monitored, k \in MsgKinds :
                 <<k, i>> \in wire'[g] => g = f /\ k = "Echo"
      BY <1>1, <2>1 DEF RoundDraws
    <3> QED
      BY <3>1 DEF AnswerFits, MsgKinds
  <2>2. CASE i \notin D
    <3>1. EchoIDsInLinkTest' = [EchoIDsInLinkTest EXCEPT ![t] = @ \cup D]
      BY <1>1 DEF RoundDraws
    <3>2. i \in EchoIDsInLinkTest[u]
      BY <1>2, <2>0, <2>2, <3>1 DEF TypeOK
    <3>3. i \in EchoIds /\ u \in running /\ echoMsgStateMap[i].fe \in Monitored
      BY <2>0, <3>2, EchoEntry
    <3>4. /\ echoMsgStateMap'[i] = echoMsgStateMap[i]
          /\ \A g \in Monitored, k \in MsgKinds : <<k, i>> \in wire'[g] <=> <<k, i>> \in wire[g]
      BY <1>1, <2>2, <3>3 DEF RoundDraws
    <3>5. AnswerFits(u, i)
      BY <3>2, <3>3, AnswersByEcho
    <3> QED
      BY <3>3, <3>4, <3>5 DEF AnswerFits, MsgKinds
  <2> QED
    BY <2>1, <2>2
<1> QED
  BY <1>2 DEF Answers, AnswerNeedsLink, NoSilentEcho, AnswerFits

LEMMA StartAnswers ==
  ASSUME NEW F \in SUBSET Monitored, TypeOK, Ownership, Answers, startLinkTest(F)
  PROVE  Answers'
<1> DEFINE t == nextLinkTestID
<1>1. t \in LinkTestIds \ running /\ broadcastEchos(t, F)
  BY StartFacts
<1>2. /\ running' = running \cup {t} /\ linkUp' = linkUp
      /\ upDuring'[t] = {f \in Monitored : linkUp[f]}
      /\ downDuring'[t] = {f \in Monitored : ~linkUp[f]}
      /\ \A u \in running : upDuring'[u] = upDuring[u] /\ downDuring'[u] = downDuring[u]
  BY <1>1 DEF startLinkTest, TypeOK
<1> HIDE DEF t
<1>3. UpNow' /\ DownNow'
  BY <1>2 DEF Answers, UpNow, DownNow
<1> QED
  BY <1>1, <1>2, <1>3, RoundAnswers

LEMMA ConcludeAnswers ==
  ASSUME NEW t \in LinkTestIds, TypeOK, Ownership, Answers, runLinkTestsConclude(t)
  PROVE  Answers'
<1>1. /\ echoMsgStateMap' = [i \in EchoIds |-> IF i \in EchoIDsInLinkTest[t] THEN Absent
                                               ELSE echoMsgStateMap[i]]
      /\ EchoIDsInLinkTest' = [EchoIDsInLinkTest EXCEPT ![t] = {}]
      /\ upDuring' = [upDuring EXCEPT ![t] = {}]
      /\ downDuring' = [downDuring EXCEPT ![t] = {}]
      /\ running' = running \ {t}
      /\ wire' = wire /\ linkUp' = linkUp
  BY DEF runLinkTestsConclude, eraseEchoes
<1>2. UpNow' /\ DownNow'
  BY <1>1 DEF Answers, UpNow, DownNow, TypeOK
<1>3. ASSUME NEW u \in running', NEW i \in EchoIDsInLinkTest'[u]
      PROVE  AnswerFits(u, i)'
  <2>1. u # t /\ u \in LinkTestIds /\ u \in running /\ i \in EchoIDsInLinkTest[u]
    BY <1>1 DEF TypeOK
  <2>2. i \in EchoIds /\ i \notin EchoIDsInLinkTest[t]
    BY <2>1 DEF Ownership, EchoOwnership, TypeOK
  <2>3. AnswerFits(u, i)
    BY <2>1, AnswersByEcho
  <2>4. /\ echoMsgStateMap'[i] = echoMsgStateMap[i]
        /\ upDuring'[u] = upDuring[u] /\ downDuring'[u] = downDuring[u]
    BY <1>1, <2>1, <2>2 DEF TypeOK
  <2> QED
    BY <1>1, <2>3, <2>4 DEF AnswerFits
<1> QED
  BY <1>2, <1>3 DEF Answers, AnswerNeedsLink, NoSilentEcho, AnswerFits

\* An action on messages or links: no test starts, sends or concludes.
LEMMA MessageAnswers ==
  ASSUME TypeOK, UNCHANGED testVars, UpNow', DownNow',
         \A u \in running : \A i \in EchoIDsInLinkTest[u] : AnswerFits(u, i)'
  PROVE  Answers'
BY DEF testVars, Answers, AnswerNeedsLink, NoSilentEcho, AnswerFits

LEMMA EchoAnswers ==
  ASSUME NEW f \in Monitored, NEW e \in EchoIds, TypeOK, Ownership, Answers,
         onReceiveEcho(f, e)
  PROVE  Answers'
<1>1. /\ linkUp[f] /\ <<"Echo", e>> \in wire[f]
      /\ wire' = [wire EXCEPT ![f] = (@ \ {<<"Echo", e>>}) \cup {<<"Back", e>>}]
      /\ UNCHANGED <<testVars, echoMsgStateMap, linkUp, upDuring, downDuring>>
  BY DEF onReceiveEcho
<1>2. UpNow' /\ DownNow'
  BY <1>1 DEF Answers, UpNow, DownNow, testVars
<1>3. ASSUME NEW u \in running, NEW i \in EchoIDsInLinkTest[u]
      PROVE  AnswerFits(u, i)'
  <2> DEFINE g == echoMsgStateMap[i].fe
  <2>0. u \in LinkTestIds
    BY DEF TypeOK
  <2>1. g \in Monitored /\ i \in EchoIds /\ (<<"Echo", i>> \in wire[f] => g = f)
    BY <2>0, EchoEntry DEF MsgKinds
  <2>2. AnswerFits(u, i)
    BY AnswersByEcho
  <2>3. CASE i = e
    <3>1. g = f /\ f \in upDuring[u] /\ <<"Back", i>> \in wire'[g]
      BY <1>1, <2>1, <2>3 DEF Answers, UpNow, TypeOK
    <3> QED
      BY <1>1, <3>1 DEF AnswerFits, MsgKinds
  <2>4. CASE i # e
    <3>1. \A k \in MsgKinds : <<k, i>> \in wire'[g] <=> <<k, i>> \in wire[g]
      BY <1>1, <2>1, <2>4 DEF TypeOK
    <3> QED
      BY <1>1, <2>2, <3>1 DEF AnswerFits, MsgKinds
  <2> QED
    BY <2>3, <2>4
<1> QED
  BY <1>1, <1>2, <1>3, MessageAnswers

LEMMA BackAnswers ==
  ASSUME NEW f \in Monitored, NEW e \in EchoIds, TypeOK, Ownership, Answers,
         onReceiveBack(f, e)
  PROVE  Answers'
<1>1. /\ linkUp[f] /\ <<"Back", e>> \in wire[f]
      /\ wire' = [wire EXCEPT ![f] = @ \ {<<"Back", e>>}]
      /\ echoMsgStateMap' = IF echoMsgStateMap[e] = Absent THEN echoMsgStateMap
                            ELSE [echoMsgStateMap EXCEPT ![e] = answered(@)]
      /\ UNCHANGED <<testVars, linkUp, upDuring, downDuring>>
  BY DEF onReceiveBack
<1>2. UpNow' /\ DownNow'
  BY <1>1 DEF Answers, UpNow, DownNow, testVars
<1>3. ASSUME NEW u \in running, NEW i \in EchoIDsInLinkTest[u]
      PROVE  AnswerFits(u, i)'
  <2> DEFINE g == echoMsgStateMap[i].fe
  <2>0. u \in LinkTestIds
    BY DEF TypeOK
  <2>1. /\ g \in Monitored /\ i \in EchoIds /\ echoMsgStateMap[i] # Absent
        /\ <<"Back", i>> \in wire[f] => g = f
    BY <2>0, EchoEntry DEF MsgKinds
  <2>2. AnswerFits(u, i)
    BY AnswersByEcho
  <2>3. CASE i = e
    <3>1. g = f /\ f \in upDuring[u]
      BY <1>1, <2>1, <2>2, <2>3 DEF AnswerFits
    <3>2. echoMsgStateMap'[i].fe = g /\ echoMsgStateMap'[i].status = "NORMAL"
      BY <1>1, <2>1, <2>3 DEF TypeOK, EchoState, answered
    <3> QED
      BY <1>1, <3>1, <3>2 DEF AnswerFits
  <2>4. CASE i # e
    <3>1. /\ \A k \in MsgKinds : <<k, i>> \in wire'[g] <=> <<k, i>> \in wire[g]
          /\ echoMsgStateMap'[i] = echoMsgStateMap[i]
      BY <1>1, <2>1, <2>4 DEF TypeOK
    <3> QED
      BY <1>1, <2>2, <3>1 DEF AnswerFits, MsgKinds
  <2> QED
    BY <2>3, <2>4
<1> QED
  BY <1>1, <1>2, <1>3, MessageAnswers

LEMMA LossAnswers ==
  ASSUME NEW f \in Monitored, NEW m \in wire[f], TypeOK, Ownership, Answers,
         LoseMessage(f, m)
  PROVE  Answers'
<1>1. /\ Reliable => ~linkUp[f]
      /\ wire' = [wire EXCEPT ![f] = @ \ {m}]
      /\ UNCHANGED <<testVars, echoMsgStateMap, linkUp, upDuring, downDuring>>
  BY DEF LoseMessage
<1>2. UpNow' /\ DownNow'
  BY <1>1 DEF Answers, UpNow, DownNow, testVars
<1>3. ASSUME NEW u \in running, NEW i \in EchoIDsInLinkTest[u]
      PROVE  AnswerFits(u, i)'
  <2> DEFINE g == echoMsgStateMap[i].fe
  <2>1. g \in Monitored
    BY EchoEntry DEF TypeOK
  <2>2. AnswerFits(u, i)
    BY AnswersByEcho
  <2>3. \A k \in MsgKinds : <<k, i>> \in wire'[g] => <<k, i>> \in wire[g]
    BY <1>1, <2>1 DEF TypeOK
  <2>4. ASSUME Reliable, g \notin downDuring[u]
        PROVE  wire'[g] = wire[g]
    <3>1. g # f
      BY <1>1, <2>4 DEF Answers, DownNow
    <3> QED
      BY <1>1, <2>1, <3>1 DEF TypeOK
  <2> QED
    BY <1>1, <2>2, <2>3, <2>4 DEF AnswerFits, MsgKinds
<1> QED
  BY <1>1, <1>2, <1>3, MessageAnswers

LEMMA LinkAnswers ==
  ASSUME NEW f \in Monitored, TypeOK, Ownership, Answers, LinkFails(f) \/ LinkRecovers(f)
  PROVE  Answers'
<1>1. UNCHANGED <<testVars, echoMsgStateMap, wire>>
  BY DEF LinkFails, LinkRecovers
<1>2. /\ \A u \in running : upDuring[u] \subseteq upDuring'[u]
      /\ \A u \in running : downDuring[u] \subseteq downDuring'[u]
      /\ UpNow' /\ DownNow'
  <2>1. CASE LinkFails(f)
    BY <2>1 DEF LinkFails, TypeOK, Answers, UpNow, DownNow, testVars
  <2>2. CASE LinkRecovers(f)
    BY <2>2 DEF LinkRecovers, TypeOK, Answers, UpNow, DownNow, testVars
  <2> QED
    BY <2>1, <2>2
<1>3. ASSUME NEW u \in running, NEW i \in EchoIDsInLinkTest[u]
      PROVE  AnswerFits(u, i)'
  <2>1. AnswerFits(u, i)
    BY AnswersByEcho
  <2> QED
    BY <1>1, <1>2, <2>1 DEF AnswerFits
<1> QED
  BY <1>1, <1>2, <1>3, MessageAnswers

LEMMA AnswersInit == Init => Answers
BY DEF Init, Answers, UpNow, DownNow, AnswerNeedsLink, NoSilentEcho

LEMMA AnswersNext == TypeOK /\ Ownership /\ Answers /\ [Next]_vars => Answers'
<1> SUFFICES ASSUME TypeOK, Ownership, Answers, [Next]_vars PROVE Answers'
  OBVIOUS
<1>1. CASE checkLinkConnectivityInPeriodic
  BY <1>1, StartAnswers DEF checkLinkConnectivityInPeriodic
<1>2. ASSUME NEW f \in Faces, checkLinkConnectivityInActiveManner(f) PROVE Answers'
  <2>1. Monitored \cap {f} \in SUBSET Monitored
    OBVIOUS
  <2> QED
    BY <1>2, <2>1, StartAnswers DEF checkLinkConnectivityInActiveManner
<1>3. ASSUME NEW f \in Faces, doActiveLinkConnectivityCheck(f) PROVE Answers'
  BY <1>3 DEF doActiveLinkConnectivityCheck, testVars, Answers, UpNow, DownNow,
              AnswerNeedsLink, NoSilentEcho
<1>4. ASSUME NEW t \in LinkTestIds, runLinkTestsRound(t) PROVE Answers'
  <2>1. /\ broadcastEchos(t, scope[t]) /\ scope[t] \in SUBSET Monitored
        /\ running' = running \cup {t}
        /\ UNCHANGED <<upDuring, downDuring, linkUp, running>>
    BY <1>4 DEF runLinkTestsRound, TypeOK
  <2>2. UpNow' /\ DownNow'
    BY <2>1 DEF Answers, UpNow, DownNow
  <2>3. \A u \in running : upDuring'[u] = upDuring[u] /\ downDuring'[u] = downDuring[u]
    BY <2>1
  <2> QED
    BY <2>1, <2>2, <2>3, RoundAnswers
<1>5. ASSUME NEW t \in LinkTestIds, runLinkTestsConclude(t) PROVE Answers'
  BY <1>5, ConcludeAnswers
<1>6. ASSUME NEW f \in Monitored, NEW i \in EchoIds, onReceiveEcho(f, i) PROVE Answers'
  BY <1>6, EchoAnswers
<1>7. ASSUME NEW f \in Monitored, NEW i \in EchoIds, onReceiveBack(f, i) PROVE Answers'
  BY <1>7, BackAnswers
<1>8. ASSUME NEW f \in Monitored, NEW m \in wire[f], LoseMessage(f, m) PROVE Answers'
  BY <1>8, LossAnswers
<1>9. ASSUME NEW f \in Monitored, LinkFails(f) \/ LinkRecovers(f) PROVE Answers'
  BY <1>9, LinkAnswers
<1>10. CASE UNCHANGED vars
  BY <1>10 DEF vars, testVars, Answers, UpNow, DownNow, AnswerNeedsLink, NoSilentEcho
<1> QED
  BY <1>1, <1>2, <1>3, <1>4, <1>5, <1>6, <1>7, <1>8, <1>9, <1>10 DEF Next

-----------------------------------------------------------------------------
(* What the LSAs have announced. *)

\* The diff base is what the LSAs add up to; before the first LSA nothing but
\* working links has been concluded.
LsaCurrent ==
  \A f \in Monitored :
    /\ announced[f] = status[f]
    /\ status[f] = IF prevLsa = NoLsa THEN "NORMAL" ELSE prevLsa[f]

LEMMA LsaInit == Init => LsaCurrent
BY MeasurementAssumption DEF Init, LsaCurrent

LEMMA LsaNext == TypeOK /\ LsaCurrent /\ [Next]_vars => LsaCurrent'
<1> SUFFICES ASSUME TypeOK, LsaCurrent, [Next]_vars PROVE LsaCurrent'
  OBVIOUS
<1> USE MeasurementAssumption
<1>1. ASSUME NEW t \in LinkTestIds, runLinkTestsConclude(t) PROVE LsaCurrent'
  <2> DEFINE st == updateFaceStats(t)
             lsList == [f \in Monitored |-> st[f]]
  <2>1. st \in [Faces -> FaceStatus]
    BY DEF updateFaceStats, TypeOK, FaceStatus
  <2>2. lsList \in [Monitored -> FaceStatus] /\ lsList # NoLsa
    <3> HIDE DEF st
    <3>1. lsList \in [Monitored -> FaceStatus]
      BY <2>1
    <3> QED
      BY <3>1 DEF FaceStatus
  <2>3. status' = st /\ (IF LsaDiffers(st) THEN prevLsa' = lsList /\ announced' = lsList
                                           ELSE UNCHANGED lsaVars)
    BY <1>1 DEF runLinkTestsConclude, broadcastingLsaTask
  <2> HIDE DEF st
  <2>4. CASE LsaDiffers(st)
    BY <2>2, <2>3, <2>4 DEF LsaCurrent
  <2>5. CASE ~LsaDiffers(st)
    <3>1. \A f \in Monitored : st[f] = IF prevLsa = NoLsa THEN "NORMAL" ELSE prevLsa[f]
      BY <2>1, <2>5 DEF LsaDiffers, FaceStatus
    <3>2. prevLsa' = prevLsa /\ announced' = announced
      BY <2>3, <2>5 DEF lsaVars
    <3> QED
      BY <2>3, <3>1, <3>2 DEF LsaCurrent
  <2> QED
    BY <2>4, <2>5
<1>2. ASSUME UNCHANGED <<status, lsaVars>> PROVE LsaCurrent'
  BY <1>2 DEF lsaVars, LsaCurrent
<1>3. \/ \E t \in LinkTestIds : runLinkTestsConclude(t)
      \/ UNCHANGED <<status, lsaVars>>
  BY DEF Next, vars, checkLinkConnectivityInPeriodic, checkLinkConnectivityInActiveManner,
         startLinkTest, doActiveLinkConnectivityCheck, runLinkTestsRound, onReceiveEcho,
         onReceiveBack, LoseMessage, LinkFails, LinkRecovers
<1> QED
  BY <1>1, <1>2, <1>3

-----------------------------------------------------------------------------
(* The results. *)

IInv == TypeOK /\ Ownership /\ Answers /\ LsaCurrent

LEMMA Inductive == Spec => []IInv
<1>1. Init => IInv
  BY TypeInit, OwnershipInit, AnswersInit, LsaInit DEF IInv
<1>2. IInv /\ [Next]_vars => IInv'
  BY TypeNext, OwnershipNext, AnswersNext, LsaNext DEF IInv
<1> QED
  BY <1>1, <1>2, PTL DEF Spec

\* An answered echo proves that its link was up during its own test.
THEOREM AnswerNeedsLinkCorrect == Spec => []AnswerNeedsLink
<1>1. IInv => AnswerNeedsLink
  BY DEF IInv, Answers
<1> QED
  BY <1>1, Inductive, PTL

\* A silent echo proves that its link was down during its own test.
THEOREM NoSilentEchoCorrect == Spec => []NoSilentEcho
<1>1. IInv => NoSilentEcho
  BY DEF IInv, Answers
<1> QED
  BY <1>1, Inductive, PTL

\* The router never withholds a status change from the network.
THEOREM AnnouncedIsCurrentCorrect == Spec => []AnnouncedIsCurrent
<1>1. IInv => AnnouncedIsCurrent
  BY DEF IInv, LsaCurrent, AnnouncedIsCurrent
<1> QED
  BY <1>1, Inductive, PTL

\* Only the conclusion of a test writes a status, and then by its own echoes.
LEMMA StatusWritten ==
  ASSUME TypeOK, [Next]_vars, NEW f \in Monitored, status'[f] # status[f]
  PROVE  \E t \in running \ running' :
           /\ t \in LinkTestIds
           /\ Reliable => Settled(t)
           /\ f \in testedFaces(t)
           /\ status'[f] = IF f \in answeredFaces(t) THEN "NORMAL" ELSE "FAILURE"
<1>1. \/ \E t \in LinkTestIds : runLinkTestsConclude(t)
      \/ UNCHANGED status
  BY DEF Next, vars, checkLinkConnectivityInPeriodic, checkLinkConnectivityInActiveManner,
         startLinkTest, doActiveLinkConnectivityCheck, runLinkTestsRound, onReceiveEcho,
         onReceiveBack, LoseMessage, LinkFails, LinkRecovers
<1>2. PICK t \in LinkTestIds : runLinkTestsConclude(t)
  BY <1>1
<1>3. /\ t \in running \ running'
      /\ Reliable => Settled(t)
      /\ status' = updateFaceStats(t)
  BY <1>2 DEF runLinkTestsConclude
<1>4. /\ f \in testedFaces(t)
      /\ status'[f] = IF f \in answeredFaces(t) THEN "NORMAL" ELSE "FAILURE"
  BY <1>3, MeasurementAssumption DEF updateFaceStats
<1> QED
  BY <1>3, <1>4

\* A face is taken for recovered only if its link was up during the test.
THEOREM RecoveryJustifiedCorrect == Spec => RecoveryJustified
<1>1. ASSUME IInv, [Next]_vars, NEW f \in Monitored,
             status[f] = "FAILURE", status'[f] = "NORMAL"
      PROVE  \E t \in running \ running' : f \in upDuring[t]
  <2>1. PICK t \in running \ running' :
          status'[f] = IF f \in answeredFaces(t) THEN "NORMAL" ELSE "FAILURE"
    BY <1>1, StatusWritten DEF IInv
  <2>2. f \in answeredFaces(t)
    BY <1>1, <2>1
  <2>3. PICK i \in EchoIDsInLinkTest[t] :
          echoMsgStateMap[i].status = "NORMAL" /\ echoMsgStateMap[i].fe = f
    BY <2>2 DEF answeredFaces
  <2> QED
    BY <1>1, <2>3 DEF IInv, Answers, AnswerNeedsLink
<1>2. IInv /\ [Next]_vars =>
        [\A f \in Monitored : status[f] = "FAILURE" /\ status'[f] = "NORMAL" =>
           \E t \in running \ running' : f \in upDuring[t]]_vars
  BY <1>1
<1> QED
  BY <1>2, Inductive, PTL DEF Spec, RecoveryJustified

\* A working link is never reported as failed, if links are Reliable.
THEOREM FailureJustifiedCorrect == Spec => FailureJustified
<1>1. ASSUME IInv, [Next]_vars, NEW f \in Monitored,
             Reliable, status[f] = "NORMAL", status'[f] = "FAILURE"
      PROVE  \E t \in running \ running' : f \in downDuring[t]
  <2>1. PICK t \in running \ running' :
          /\ t \in LinkTestIds
          /\ Settled(t)
          /\ f \in testedFaces(t)
          /\ status'[f] = IF f \in answeredFaces(t) THEN "NORMAL" ELSE "FAILURE"
    BY <1>1, StatusWritten DEF IInv
  <2>2. PICK i \in EchoIDsInLinkTest[t] : echoMsgStateMap[i].fe = f
    BY <2>1 DEF testedFaces
  <2>3. echoMsgStateMap[i].status # "NORMAL"
    BY <1>1, <2>1, <2>2 DEF answeredFaces
  <2>4. \A k \in MsgKinds : <<k, i>> \notin wire[f]
    BY <2>1 DEF Settled
  <2> QED
    BY <1>1, <2>2, <2>3, <2>4 DEF IInv, Answers, NoSilentEcho
<1>2. IInv /\ [Next]_vars =>
        [\A f \in Monitored : Reliable /\ status[f] = "NORMAL" /\ status'[f] = "FAILURE" =>
           \E t \in running \ running' : f \in downDuring[t]]_vars
  BY <1>1
<1> QED
  BY <1>2, Inductive, PTL DEF Spec, FailureJustified
=============================================================================
