-------------------------- MODULE RelayRefinement --------------------------
(***************************************************************************)
(* The relay's store implements the mailbox service: every transaction of  *)
(* the server and of the administrator is a step of it or changes nothing  *)
(* the service shows.                                                      *)
(***************************************************************************)
EXTENDS RelayProofs

\* What the service sees a request add.
ViewedEntries(b) == {Route(e) : e \in NewEntries(b)}

\* Entries that are new have distinct ids, so their routes number as many.
LEMMA RoutesCount ==
    ASSUME NEW b \in Batch, ~RowConflict(b)
    PROVE  /\ \A e, f \in NewEntries(b) : e.id = f.id => e = f
           /\ Cardinality(ViewedEntries(b)) = Cardinality(NewEntries(b))
<1> DEFINE new == NewEntries(b)
           f == [e \in new |-> Route(e)]
<1>1. \A e, g \in new : e.id = g.id => e = g BY DEF RowConflict, NewEntries
<1>2. \A e \in new : Route(e).id = e.id BY DEF Route
<1>3. f \in Bijection(new, ViewedEntries(b))
    <2>1. f \in [new -> ViewedEntries(b)] BY DEF ViewedEntries
    <2>2. f \in Injection(new, ViewedEntries(b))
        BY <1>1, <1>2, <2>1 DEF Injection, IsInjective
    <2>3. f \in Surjection(new, ViewedEntries(b)) BY <2>1 DEF Surjection, ViewedEntries
    <2> QED BY <2>2, <2>3 DEF Bijection
<1>4. ExistsBijection(new, ViewedEntries(b)) BY <1>3 DEF ExistsBijection
<1>5. Cardinality(ViewedEntries(b)) = Cardinality(new)
    <2> HIDE DEF new
    <2> QED BY <1>4, NewEntriesType, FS_Bijection DEF new
<1> QED BY <1>1, <1>5

\* Storing a request is accepting the routes of its new entries.
LEMMA StoreAccepts ==
    ASSUME TypeOK, NEW b \in Batch, StoreEnvelopes(b)
    PROVE  M!Accept(ViewedEntries(b)) /\ ViewedEntries(b) \in Offers
<1> DEFINE new == NewEntries(b)
           viewed == ViewedEntries(b)
           next == lastCursor + Cardinality(new)
<1>1. PICK place \in Injection(new, (lastCursor + 1)..next) :
          envelopes' = envelopes \cup Added(b, place) /\ lastCursor' = next
    BY AddedFresh
<1>2. ~RowConflict(b) BY DEF StoreEnvelopes, StoreVerdict
<1>3. /\ \A e, f \in new : e.id = f.id => e = f
      /\ Cardinality(viewed) = Cardinality(new)
    BY <1>2, RoutesCount
<1> DEFINE source == [r \in viewed |-> CHOOSE e \in new : Route(e) = r]
           spot == [r \in viewed |-> place[source[r]]]
<1>4. \A r \in viewed : source[r] \in new /\ Route(source[r]) = r BY DEF ViewedEntries
<1>5. \A e \in new : Route(e).id = e.id /\ Route(e).to = e.to BY DEF Route
<1>6. \A e \in new : Route(e) \in viewed /\ source[Route(e)] = e
    <2>1. \A e \in new : Route(e) \in viewed BY DEF ViewedEntries
    <2> HIDE DEF new, viewed, source
    <2> QED BY <1>3, <1>4, <1>5, <2>1
<1>7. spot \in Injection(viewed, (lastCursor + 1)..next)
    <2>1. place \in [new -> (lastCursor + 1)..next] BY <1>1 DEF Injection
    <2>2. \A e, f \in new : place[e] = place[f] => e = f BY <1>1 DEF Injection, IsInjective
    <2> HIDE DEF new, viewed, source, next
    <2>3. spot \in [viewed -> (lastCursor + 1)..next] BY <1>4, <2>1
    <2>4. \A r, q \in viewed : spot[r] = spot[q] => r = q BY <1>4, <2>2
    <2>5. IsInjective(spot) BY <2>3, <2>4 DEF IsInjective
    <2> QED BY <2>3, <2>5 DEF Injection
<1>8. \A r \in viewed : M!Fresh(r, spot[r]) = Projection(Row(b, source[r], place[source[r]]))
    <2> HIDE DEF new, viewed, source, spot
    <2>1. \A r \in viewed : r.id = source[r].id /\ r.to = source[r].to BY <1>4, <1>5
    <2>2. \A r \in viewed : spot[r] = place[source[r]] BY DEF spot
    <2> QED BY <2>1, <2>2 DEF M!Fresh, Projection, Row
<1>9. {Projection(e) : e \in Added(b, place)} = {M!Fresh(r, spot[r]) : r \in viewed}
    <2>1. \A e \in new : M!Fresh(Route(e), spot[Route(e)]) = Projection(Row(b, e, place[e]))
        <3> HIDE DEF new, viewed, source, spot
        <3> QED BY <1>6, <1>8
    <2>2. Added(b, place) = {Row(b, e, place[e]) : e \in new} BY DEF Added
    <2> HIDE DEF new, viewed, source, spot
    <2> QED BY <1>4, <1>6, <1>8, <2>1, <2>2
<1>10. {Projection(e) : e \in envelopes'}
          = {Projection(e) : e \in envelopes} \cup {M!Fresh(r, spot[r]) : r \in viewed}
    <2>1. {Projection(e) : e \in envelopes'}
            = {Projection(e) : e \in envelopes} \cup {Projection(e) : e \in Added(b, place)}
        BY <1>1
    <2> QED BY <1>9, <2>1, Zenon
<1>11. \A e \in viewed : ~M!Stored(e.id)
    BY <1>4, <1>5 DEF M!Stored, NewEntries, Projection
<1>12. \A e, f \in viewed : e.id = f.id => e = f
    <2> HIDE DEF new, viewed, source
    <2> QED BY <1>3, <1>4, <1>5
<1>13. viewed \in Offers BY DEF ViewedEntries, Offers, NewEntries, Deliverable
<1>14. lastCursor' = lastCursor + Cardinality(viewed) BY <1>1, <1>3
<1>15. spot \in Injection(viewed, (lastCursor + 1)..lastCursor') BY <1>1, <1>7
<1> HIDE DEF new, viewed, source, spot
<1>16. M!Accept(viewed)
    <2>1. \E p \in Injection(viewed, (lastCursor + 1)..lastCursor') :
              {Projection(e) : e \in envelopes'}
                = {Projection(e) : e \in envelopes} \cup {M!Fresh(r, p[r]) : r \in viewed}
        BY <1>10, <1>15, Zenon
    <2>2. M!Cardinality(viewed) = Cardinality(viewed) BY DEF M!Cardinality, Cardinality
    <2>3. \A T : M!Injection(viewed, T) = Injection(viewed, T)
        BY DEF M!Injection, Injection, M!IsInjective, IsInjective
    <2> QED BY <1>11, <1>12, <1>14, <2>1, <2>2, <2>3, Zenon DEF M!Accept
<1> QED BY <1>13, <1>16 DEF viewed

\* An acknowledgement is a confirmation: ids are unique, so the row it replaces
\* is the only one projected to what the service sees replaced.
LEMMA AckConfirms ==
    ASSUME TypeOK, UniqueRows, NEW d \in Device, NEW id \in EnvelopeId, Ack(d, id)
    PROVE  M!Confirm(d, id)
<1>1. PICK e \in envelopes :
          /\ e.to = d /\ e.id = id
          /\ envelopes' = (envelopes \ {e}) \cup {[e EXCEPT !.delivered = TRUE]}
          /\ UNCHANGED lastCursor
    BY DEF Ack, Mailbox
<1> DEFINE f == [e EXCEPT !.delivered = TRUE]
           r == Projection(e)
           q == [r EXCEPT !.delivered = TRUE]
<1>2. e \in Envelope BY DEF TypeOK
<1>3. f.cursor = e.cursor /\ f.id = e.id /\ f.to = e.to /\ f.delivered = TRUE
    BY <1>2 DEF Envelope
<1>4. Projection(f) = q
    <2> DEFINE Shown == [cursor : Nat, id : EnvelopeId, to : Device, delivered : BOOLEAN]
    <2>1. r \in Shown BY <1>2 DEF Projection, Envelope
    <2>2. r.cursor = e.cursor /\ r.id = e.id /\ r.to = e.to BY DEF Projection
    <2> HIDE DEF r
    <2>3. q \in Shown BY <2>1
    <2>4. q.cursor = r.cursor /\ q.id = r.id /\ q.to = r.to /\ q.delivered = TRUE BY <2>1
    <2>5. Projection(f) = [cursor |-> e.cursor, id |-> e.id, to |-> e.to, delivered |-> TRUE]
        BY <1>3 DEF Projection
    <2> HIDE DEF f, q
    <2> QED BY <2>2, <2>3, <2>4, <2>5
<1>5. \A g \in envelopes : Projection(g) = r => g = e
    BY <1>1 DEF Projection, UniqueRows
<1>6. {Projection(g) : g \in envelopes'} = ({Projection(g) : g \in envelopes} \ {r}) \cup {q}
    <2>1. envelopes' = (envelopes \ {e}) \cup {f} BY <1>1
    <2> HIDE DEF f, q
    <2>2. Projection(e) = r OBVIOUS
    <2> HIDE DEF r
    <2> QED BY <1>1, <1>4, <1>5, <2>1, <2>2
<1>7. r \in M!Mailbox(d) /\ r.id = id BY <1>1 DEF M!Mailbox, Projection
<1> HIDE DEF f, r
<1> QED BY <1>1, <1>6, <1>7 DEF M!Confirm

\* Every removal, and every step that leaves the envelopes alone, discards rows.
LEMMA ShrinksDiscards ==
    ASSUME Shrinks
    PROVE  M!Discard({Projection(e) : e \in envelopes} \ {Projection(e) : e \in envelopes'})
BY DEF Shrinks, M!Discard

\* The store of the server implements the mailbox service.
THEOREM RelayImplementsMailboxes == Spec => MailboxService
<1>1. Init => M!Empty BY DEF Init, M!Empty
<1>2. TypeOK /\ UniqueRows /\ [Next]_vars => [M!Change]_M!mailboxes
    <2> SUFFICES ASSUME TypeOK, UniqueRows, [Next]_vars PROVE M!Change
        OBVIOUS
    <2>1. ASSUME NEW b \in Batch, StoreEnvelopes(b) PROVE M!Change
        BY <2>1, StoreAccepts DEF M!Change
    <2>2. ASSUME NEW d \in Device, NEW id \in EnvelopeId, Ack(d, id) PROVE M!Change
        BY <2>2, AckConfirms DEF M!Change
    <2>3. CASE Shrinks BY <2>3, ShrinksDiscards DEF M!Change
    <2> QED BY <2>1, <2>2, <2>3, StepShape
<1> QED BY <1>1, <1>2, TypeCorrect, RowsUnique, PTL DEF Spec, MailboxService, M!Service
=============================================================================
