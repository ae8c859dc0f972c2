------------------------------ MODULE MCOutbox ------------------------------
(***************************************************************************)
(* The outbox for TLC.                                                     *)
(***************************************************************************)
EXTENDS Outbox

CONSTANTS t1, t2, x1, x2

OneText == {t1}
TwoTexts == {t1, t2}
NoDeletion == {}
OneDeletion == {x1}
TwoDeletions == {x1, x2}

NoFault == {}
AllFaults == AnyFault
LostConnection == {"drop"}
=============================================================================
