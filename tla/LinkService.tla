----------------------------- MODULE LinkService -----------------------------
(***************************************************************************)
(* What the link service of a face makes of packets: the header fields it  *)
(* adds to those it sends, and which of those that come it hands to the    *)
(* forwarder, with which tags.                                             *)
(*                                                                         *)
(* A frame is an encoded network packet with header fields; the values of  *)
(* the fields stay with the packet, in the record fields of their names.   *)
(* Fragments are put together before decodeNetPacket, and the reliability  *)
(* and self-learning options are off in the whole repository.              *)
(***************************************************************************)
EXTENDS ContentStore

CONSTANT LocalFields     \* the faces with the option allowLocalFields

\* What a packet looks like: kind is "Interest", "Data" or "Nack"; a nextHop of
\* NoFace, a transient and a rsgId of 0 stand for tags that are not there.
CONSTANT NoFace

Frame(packet, fields) == [packet |-> packet, fields |-> fields]

\* The tags of TA-FRR are written in every frame, as 0 if the packet has none.
encodeLpFields(face, packet) ==
  {"Fragment", "HopCount", "LltcPathId", "LltcTransient", "LltcRsgId"}
    \cup (IF face \in LocalFields THEN {"IncomingFaceId"} ELSE {})

sendNetPacket(face, packet) ==
  Frame(packet, encodeLpFields(face, packet)
                  \cup (IF packet.kind = "Nack" THEN {"Nack"} ELSE {}))

FaultyDecodeInterest(face, fields) == fields \cap {"CachePolicy", "PrefixAnnouncement"} = {}

\* Which frames of a network packet that is an Interest, a Data or a Nack are
\* dropped: fields that do not belong to the packet, and those of privileged
\* applications on faces for others.
decodeInterest(face, fields) ==
  /\ "NextHopFaceId" \in fields => face \in LocalFields
  /\ fields \cap {"CachePolicy", "PrefixAnnouncement"} = {}

decodeData(face, fields) == fields \cap {"Nack", "NextHopFaceId", "NonDiscovery"} = {}

decodeNack(face, fields) ==
  fields \cap {"NextHopFaceId", "CachePolicy", "NonDiscovery", "PrefixAnnouncement"} = {}

\* An idle packet, which carries no fragment, is dropped first.
doReceivePacket(face, frame) ==
  /\ "Fragment" \in frame.fields
  /\ CASE frame.packet.kind = "Interest" -> decodeInterest(face, frame.fields)
       [] frame.packet.kind = "Data" -> decodeData(face, frame.fields)
       [] frame.packet.kind = "Nack" -> decodeNack(face, frame.fields)

\* The tags of the packet that is handed over: an Interest gets no PathId and
\* no Transient tag, and without a CachePolicy field Data may be cached.
Tagged(frame) ==
  CASE frame.packet.kind = "Interest" ->
         IF "NextHopFaceId" \in frame.fields THEN frame.packet
         ELSE [frame.packet EXCEPT !.nextHop = NoFace]
    [] frame.packet.kind = "Data" ->
         [frame.packet EXCEPT !.noCache = @ /\ "CachePolicy" \in frame.fields,
                              !.transient = IF "LltcTransient" \in frame.fields THEN @ ELSE 0]
    [] OTHER -> frame.packet
=============================================================================
