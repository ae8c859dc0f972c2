----------------------------- MODULE Mailboxes -----------------------------
(***************************************************************************)
(* What the rest of the system relies on of the server's envelope table:   *)
(* an accepted envelope becomes one row under a cursor above every cursor  *)
(* issued before, a row only ever changes by being confirmed, and rows go  *)
(* away without their cursors coming back.  Relay implements this service  *)
(* (Relay!MailboxService); Delivery is built on it.                        *)
(***************************************************************************)
EXTENDS Integers, FiniteSets, Functions

CONSTANTS
    Device, EnvelopeId,
    Offer           \* the sets of envelopes a request may add together

ASSUME OfferAssumption ==
    \A o \in Offer : IsFiniteSet(o) /\ o \subseteq [id : EnvelopeId, to : Device]

VARIABLES
    rows,   \* the envelopes table, without what only the store looks at
    last    \* the AUTOINCREMENT counter

mailboxes == <<rows, last>>

Envelope == [cursor : Nat, id : EnvelopeId, to : Device, delivered : BOOLEAN]
Stored(id) == \E r \in rows : r.id = id
Mailbox(d) == {r \in rows : r.to = d}
Fresh(entry, c) == [cursor |-> c, id |-> entry.id, to |-> entry.to, delivered |-> FALSE]

Empty == rows = {} /\ last = 0

\* The entries of an accepted request that are not stored yet.
Accept(new) ==
    /\ \A e \in new : ~Stored(e.id)
    /\ \A e, f \in new : e.id = f.id => e = f
    /\ last' = last + Cardinality(new)
    /\ \E place \in Injection(new, (last + 1)..last') :
          rows' = rows \cup {Fresh(e, place[e]) : e \in new}

Confirm(d, id) ==
    \E r \in Mailbox(d) :
        /\ r.id = id
        /\ rows' = (rows \ {r}) \cup {[r EXCEPT !.delivered = TRUE]}
        /\ UNCHANGED last

Discard(gone) == rows' = rows \ gone /\ UNCHANGED last

Change ==
    \/ \E new \in Offer : Accept(new)
    \/ \E d \in Device, id \in EnvelopeId : Confirm(d, id)
    \/ Discard(rows \ rows')

Service == Empty /\ [][Change]_mailboxes
=============================================================================
