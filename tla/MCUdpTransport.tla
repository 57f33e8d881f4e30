--------------------------- MODULE MCUdpTransport ---------------------------
(***************************************************************************)
(* UdpTransport with one address that sends past the wrap-around of its    *)
(* sequence numbers and a second one that competes for ids and publish     *)
(* slots.                                                                  *)
(***************************************************************************)
EXTENDS UdpTransport

CONSTANTS a1, a2

SentBounds == [a \in Addrs |-> IF a = a1 THEN 8 ELSE 1]

\* Outgoing headers are stamped at most once: no property reads their numbers.
FewStamps == \A a \in Addrs : Known(a) => clients[a].local <= 1
=============================================================================
