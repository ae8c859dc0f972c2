------------------------------ MODULE Outgoing ------------------------------
(***************************************************************************)
(* What the sender is promised: a message shown as sent has been taken by  *)
(* the server, one shown as delivered has reached the peer, what is shown  *)
(* never goes back, and the server takes only what was written.            *)
(***************************************************************************)
CONSTANTS Text

VARIABLES
    shown,      \* what the sender sees of each message
    taken,      \* messages the server has stored
    reached     \* messages the peer has acknowledged

Init == shown = [m \in Text |-> "none"] /\ taken = {} /\ reached = {}

Show(m, from, to) == shown[m] \in from /\ shown' = [shown EXCEPT ![m] = to]

Write(m) == Show(m, {"none"}, "sending") /\ UNCHANGED <<taken, reached>>
Take(S) ==
    /\ \A m \in S : shown[m] # "none"
    /\ taken' = taken \cup S /\ UNCHANGED <<shown, reached>>
Reach(m) == m \in taken /\ reached' = reached \cup {m} /\ UNCHANGED <<shown, taken>>
Sent(m) == m \in taken /\ Show(m, {"sending"}, "sent") /\ UNCHANGED <<taken, reached>>
\* Several messages when the news comes with a sync.
Delivered(S) ==
    /\ S \subseteq reached
    /\ shown' = [m \in Text |-> IF m \in S /\ shown[m] \in {"sending", "sent"}
                                THEN "delivered" ELSE shown[m]]
    /\ UNCHANGED <<taken, reached>>
Erase ==
    /\ shown' = [m \in Text |-> IF shown[m] = "none" THEN "none" ELSE "erased"]
    /\ UNCHANGED <<taken, reached>>

Next ==
    \/ \E m \in Text : Write(m) \/ Reach(m) \/ Sent(m)
    \/ \E S \in SUBSET Text : Take(S) \/ Delivered(S)
    \/ Erase

Promise == Init /\ [][Next]_<<shown, taken, reached>>
=============================================================================
