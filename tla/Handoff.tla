------------------------------ MODULE Handoff ------------------------------
(***************************************************************************)
(* The promise of delivery: the server holds an envelope until the device  *)
(* it is for has received it, and the device receives it once.             *)
(***************************************************************************)
CONSTANTS Device, EnvelopeId

VARIABLES
    held,       \* envelopes the server keeps
    received    \* per device: ids it has taken over

Init == held = {} /\ received = [d \in Device |-> {}]

Hold ==
    /\ held' \in SUBSET [id : EnvelopeId, to : Device]
    /\ held \subseteq held'
    /\ UNCHANGED received

Receive(e) ==
    /\ e.id \notin received[e.to]
    /\ received' = [received EXCEPT ![e.to] = @ \cup {e.id}]
    /\ UNCHANGED held

Release ==
    /\ held' \subseteq held
    /\ \A e \in held \ held' : e.id \in received[e.to]
    /\ UNCHANGED received

Next == Hold \/ (\E e \in held : Receive(e)) \/ Release

Handoff == Init /\ [][Next]_<<held, received>>
=============================================================================
