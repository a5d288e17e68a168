---- MODULE MCForwarder ----
(* A router between a local application and two neighbours, one of them
   behind a point-to-point link and one on a shared medium. *)
EXTENDS Forwarder

A == <<"a">>
AB == <<"a", "b">>
Host == <<"localhost", "x">>
Flow == <<"lltc", "f">>
Capsule == <<"lltc", "f", "Capsule", "1">>
MCLltcPrefix == <<"lltc">>
MCNameOrder == <<A, AB, Flow, Capsule, Host>>

MCFib == (A :> <<"net", "lan">>) @@ (AB :> <<"net", "lan">>) @@ (Host :> <<"net", "app">>)
         @@ (Flow :> <<>>) @@ (Capsule :> <<>>)

Interest(name, prefix, fresh, nonce, lifetime, hop) ==
  [kind |-> "Interest", name |-> name, canBePrefix |-> prefix, mustBeFresh |-> fresh,
   nonce |-> nonce, lifetime |-> lifetime, nextHop |-> hop]

Data(name, fresh, transient) ==
  [kind |-> "Data", name |-> name, fresh |-> fresh, noCache |-> FALSE, transient |-> transient]

From(f, packet) == <<f, sendNetPacket("peer", packet)>>

Chosen(f, packet) == <<f, Frame(packet, {"Fragment", "NextHopFaceId"})>>

MCArrivals ==
  {From("app", Interest(A, TRUE, FALSE, 1, 2, "none")),
   From("lan", Interest(A, TRUE, FALSE, 1, 2, "none")),
   From("lan", Interest(A, TRUE, FALSE, 2, 1, "none")),
   From("app", Interest(AB, FALSE, TRUE, 2, 2, "none")),
   From("net", Interest(AB, FALSE, TRUE, 2, 1, "none")),
   From("net", Data(AB, 0, 0)),
   From("lan", Data(AB, 1, 0)),
   From("net", [Interest(A, TRUE, FALSE, 1, 2, "none") EXCEPT !.kind = "Nack"]),
   From("app", Interest(Host, FALSE, FALSE, 3, 1, "none")),
   Chosen("app", Interest(Host, FALSE, FALSE, 3, 1, "net")),
   Chosen("net", Interest(AB, FALSE, TRUE, 1, 1, "app")),
   From("net", Data(Host, 0, 0)),
   From("lan", Interest(Flow, TRUE, FALSE, 1, 1, "none")),
   From("net", [Interest(Flow, TRUE, FALSE, 1, 1, "none") EXCEPT !.kind = "Nack"]),
   From("net", Data(Capsule, 1, 0)),
   From("net", Data(Capsule, 1, 1))}
====
