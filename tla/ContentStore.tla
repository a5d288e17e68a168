---------------------------- MODULE ContentStore ----------------------------
(***************************************************************************)
(* The content store of NFD, with the lookup by exact name the streaming   *)
(* strategies use.  The table and the queues of the replacement policy are *)
(* one sequence of entries, the one to be evicted first in front.          *)
(***************************************************************************)
EXTENDS SequencesExt, Integers

CONSTANTS
  CsLimit,    \* the limit of the policy, in packets
  CsPolicy,   \* the policy: "lru" of the helper, or "priority_fifo" of LltcStrategy
  NameOrder   \* the names, in canonical order, each a sequence of components

ASSUME CsAssumption == CsLimit \in Nat /\ CsPolicy \in {"lru", "priority_fifo"}

Names == ToSet(NameOrder)

Pos(name) == CHOOSE i \in DOMAIN NameOrder : NameOrder[i] = name

\* Time left is counted from now, and stops at -1 when it is over.
Elapse(left) == IF left < 0 THEN -1 ELSE left - 1

\* Two packets are one entry if they have one full name: tags are no part of it.
SamePacket(d, e) == d.name = e.name /\ d.fresh = e.fresh

isFresh(entry) == entry.left >= 0

matchesData(interest, d) ==
  d.name = interest.name \/ (interest.canBePrefix /\ IsPrefix(interest.name, d.name))

canSatisfy(entry, interest) ==
  matchesData(interest, entry.data) /\ (interest.mustBeFresh => isFresh(entry))

-----------------------------------------------------------------------------
(* The policies (part of NFD, not of the repository). *)

Moved(cs, i) == Append(RemoveAt(cs, i), cs[i])

\* What LRU keeps in order of use, priority_fifo keeps in order of insertion.
beforeUse(cs, i) == IF CsPolicy = "lru" THEN Moved(cs, i) ELSE cs

\* priority_fifo evicts unsolicited entries first, then stale ones.
Victim(cs) ==
  LET unsolicited(e) == e.unsolicited
      stale(e) == e.left < 0
      inTurn == <<SelectInSeq(cs, unsolicited), SelectInSeq(cs, stale), 1>>
      found(i) == i # 0
  IN IF CsPolicy = "lru" THEN 1 ELSE inTurn[SelectInSeq(inTurn, found)]

evictEntries(cs) == IF Len(cs) > CsLimit THEN RemoveAt(cs, Victim(cs)) ELSE cs

-----------------------------------------------------------------------------
(* An existing entry keeps its packet, with the tags it came with first. *)
insert(cs, d, isUnsolicited) ==
  LET old == {i \in DOMAIN cs : SamePacket(cs[i].data, d)}
      refreshed(i) == [cs EXCEPT ![i].left = cs[i].data.fresh,
                                 ![i].unsolicited = cs[i].unsolicited /\ isUnsolicited]
  IN IF CsLimit = 0 \/ d.noCache THEN cs
     ELSE IF old # {} THEN LET i == CHOOSE i \in old : TRUE IN Moved(refreshed(i), i)
     ELSE evictEntries(Append(cs, [data |-> d, left |-> d.fresh, unsolicited |-> isUnsolicited]))

\* The first match in canonical order; 0 for the end of the table.
FirstOf(cs, matching) ==
  IF matching = {} THEN 0
  ELSE CHOOSE i \in matching : \A j \in matching : Pos(cs[i].data.name) <= Pos(cs[j].data.name)

findInterest(cs, interest) ==
  FirstOf(cs, {i \in DOMAIN cs : canSatisfy(cs[i], interest)})

\* By exact name, fresh or not.
findName(cs, name) ==
  LET named(entry) == entry.data.name = name IN SelectInSeq(cs, named)

Aged(cs) == [i \in DOMAIN cs |-> [cs[i] EXCEPT !.left = Elapse(@)]]
=============================================================================
