----------------------------- MODULE MCDelivery -----------------------------
(***************************************************************************)
(* Delivery for TLC: one receiving device and two connection tasks of      *)
(* senders that may push out of the order of their transactions.           *)
(***************************************************************************)
EXTENDS Delivery

CONSTANTS d, s1, s2, e1, e2, e3, q1, q2

MCDevice == {d}
MCTask == {s1, s2}
TwoRequests == {q1, q2}
TwoEnvelopes == {e1, e2}
ThreeEnvelopes == {e1, e2, e3}
MCOffer == {{[id |-> e, to |-> d]} : e \in EnvelopeId}

CleanupOnly == {"cleanup"}
NoFault == {}
=============================================================================
