------------------------------ MODULE MCPairing ------------------------------
(***************************************************************************)
(* Pairing for TLC.                                                        *)
(***************************************************************************)
EXTENDS Pairing

CONSTANTS a1, a2, p1, p2

OneOld == {a1}
TwoOld == {a1, a2}
OneNew == {p1}
TwoNew == {p1, p2}

AllFaults == AnyFault
LostConnection == {"cut"}
=============================================================================
