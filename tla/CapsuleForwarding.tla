-------------------------- MODULE CapsuleForwarding --------------------------
(***************************************************************************)
(* The way of one Capsule through the routers of module Failover, while    *)
(* links change and the routers switch their paths under it.               *)
(*                                                                         *)
(* The Interest of the consumer has left a PIT entry at every router on    *)
(* the PP, and these entries outlive the flow.  There a Capsule follows    *)
(* the preferred path: along the PP, or, as a CapsuleOnRSP, on an RSP.     *)
(* A CapsuleOnRSP follows the RSP of its path id tag, hop by hop.          *)
(***************************************************************************)
EXTENDS Failover

CONSTANT NoCapsule

VARIABLES
  capsule,   \* the Capsule in flight: the link it is on, its path id tag, and
             \*   whether it is a CapsuleOnRSP
  fate       \* history: what became of it

vars == <<controlVars, capsule, fate>>

InFlight(from, to, tag, onRsp) == [from |-> from, to |-> to, pathId |-> tag, onRsp |-> onRsp]

\* A Capsule goes out with the path id as its tag, and on an RSP as a CapsuleOnRSP.
sendLltcData(n, next, pathId) == InFlight(n, next, pathId, FALSE)
sendLltcNonPitData(n, next, pathId) == InFlight(n, next, pathId, TRUE)

Sent(n, next, pathId) ==
  IF isDownPathInRspState[n] THEN sendLltcNonPitData(n, next, pathId)
                             ELSE sendLltcData(n, next, pathId)

CapsuleInit == Init /\ capsule = NoCapsule /\ fate = "none"

\* Router n has a Capsule for the consumer.  Without an entry for the path it
\* goes to the face of the Interest: at the consumer this is the application.
FaultyPrimaryOnly(n) ==
  LET next == lookupForwardingEntry(n, preferredDownPathId[n])
  IN IF next = NoPath
     THEN capsule' = NoCapsule /\ fate' = "delivered"
     ELSE capsule' = Sent(n, next, RSG.primID) /\ UNCHANGED fate

deliverCapsule(n) ==
  LET id   == preferredDownPathId[n]
      next == lookupForwardingEntry(n, id)
  IN IF next = NoPath /\ ~isDownPathInRspState[n]
     THEN capsule' = NoCapsule /\ fate' = "delivered"
     ELSE capsule' = Sent(n, next, id) /\ UNCHANGED fate

\* The application at the producer hands over a Capsule.
send ==
  /\ capsule = NoCapsule
  /\ fate = "none"
  /\ deliverCapsule(Producer)
  /\ UNCHANGED controlVars

Arrived(onRsp) ==
  /\ capsule # NoCapsule
  /\ capsule.onRsp = onRsp
  /\ linkUp[rsgGetLinkID(capsule.from, capsule.to)]

onReceiveCapsule ==
  /\ Arrived(FALSE)
  /\ deliverCapsule(capsule.to)
  /\ UNCHANGED controlVars

\* A CapsuleOnRSP arrives: with or without a PIT entry the router looks for an
\* entry for the path of its tag, and does nothing if there is none.
receiveCapsuleOnRsp ==
  LET next == lookupForwardingEntry(capsule.to, capsule.pathId)
  IN /\ Arrived(TRUE)
     /\ IF next = NoPath
        THEN capsule' = NoCapsule /\ fate' = "discarded"
        ELSE capsule' = sendLltcNonPitData(capsule.to, next, capsule.pathId) /\ UNCHANGED fate
     /\ UNCHANGED controlVars

\* The receiver on a failed link drops everything.
lose ==
  /\ capsule # NoCapsule
  /\ ~linkUp[rsgGetLinkID(capsule.from, capsule.to)]
  /\ capsule' = NoCapsule
  /\ fate' = "lost"
  /\ UNCHANGED controlVars

CapsuleNext ==
  \/ Next /\ UNCHANGED <<capsule, fate>>
  \/ send
  \/ onReceiveCapsule
  \/ receiveCapsuleOnRsp
  \/ lose

CapsuleSpec == CapsuleInit /\ [][CapsuleNext]_vars

FairCapsuleSpec == CapsuleSpec /\ Fairness

-----------------------------------------------------------------------------
(* Properties. *)

\* Routers that disagree, or switch while the Capsule is on its way, do not
\* send it astray: a Capsule is always on a link of the path of its tag, in the
\* direction of the consumer, and one that is not on an RSP is on the PP.
OnItsPath ==
  capsule # NoCapsule =>
    /\ capsule.to # NoPath
    /\ lookupForwardingEntry(capsule.from, capsule.pathId) = capsule.to
    /\ capsule.onRsp <=> capsule.pathId # RSG.primID

\* A Capsule never loops: every router that handles it moves it on, along the
\* PP or along an RSP from its upstream end, whatever the others prefer.
Progress(c) ==
  LET rsp == CHOOSE p \in Rsps(RSG) : p.id = c.pathId
      end == Len(rsp.nodes)
  IN IF ~c.onRsp THEN PpIndex(RSG, c.from) * Cardinality(Nodes)
     ELSE PpIndex(RSG, rsp.nodes[end]) * Cardinality(Nodes)
            + end - CHOOSE i \in 1 .. end : rsp.nodes[i] = c.from

NeverBack ==
  [][capsule # NoCapsule /\ capsule' # NoCapsule =>
       capsule' = capsule \/ Progress(capsule') > Progress(capsule)]_vars

\* A Capsule is discarded nowhere: what the links do not lose arrives.
NothingDiscarded == fate # "discarded"
=============================================================================
