--------------------------- MODULE DeliveryProofs ---------------------------
(***************************************************************************)
(* Delivery for every set of devices, envelopes and sender tasks, every    *)
(* page size and all faults.                                               *)
(***************************************************************************)
EXTENDS Delivery, FiniteSetTheorems, WellFoundedInduction, TLAPS

(***************************************************************************)
(* Queues and least elements                                               *)
(***************************************************************************)

LEMMA RangeOfAppend ==
    ASSUME NEW S, NEW s \in Seq(S), NEW e \in S
    PROVE  /\ Append(s, e) \in Seq(S)
           /\ \A x : x \in Range(Append(s, e)) => x \in Range(s) \/ x = e
           /\ \A x \in Range(s) : x \in Range(Append(s, e))
           /\ e \in Range(Append(s, e))
<1>1. Len(Append(s, e)) = Len(s) + 1 /\ Append(s, e)[Len(s) + 1] = e OBVIOUS
<1>2. \A i \in 1 .. Len(s) : Append(s, e)[i] = s[i] OBVIOUS
<1>3. DOMAIN s = 1 .. Len(s) /\ DOMAIN Append(s, e) = 1 .. Len(s) + 1 /\ Len(s) \in Nat
    OBVIOUS
<1> QED BY <1>1, <1>2, <1>3 DEF Range

LEMMA RangeOfTail ==
    ASSUME NEW S, NEW s \in Seq(S), s # <<>>
    PROVE  /\ Tail(s) \in Seq(S) /\ Head(s) \in S /\ Head(s) \in Range(s)
           /\ \A x \in Range(Tail(s)) : x \in Range(s)
           /\ \A x \in Range(s) : x = Head(s) \/ x \in Range(Tail(s))
<1>1. Len(s) \in Nat /\ Len(s) > 0 /\ DOMAIN s = 1 .. Len(s) OBVIOUS
<1>2. Tail(s) \in Seq(S) /\ Len(Tail(s)) = Len(s) - 1 BY <1>1
<1>3. \A i \in 1 .. Len(s) - 1 : Tail(s)[i] = s[i + 1] BY <1>1
<1>4. Head(s) = s[1] /\ s[1] \in S BY <1>1
<1>5. DOMAIN Tail(s) = 1 .. Len(s) - 1 BY <1>2
<1>6. \A x \in Range(Tail(s)) : x \in Range(s)
  <2> SUFFICES ASSUME NEW i \in 1 .. Len(s) - 1 PROVE Tail(s)[i] \in Range(s)
      BY <1>5 DEF Range
  <2>1. i + 1 \in 1 .. Len(s) BY <1>1
  <2> QED BY <1>1, <1>3, <2>1 DEF Range
<1>7. \A x \in Range(s) : x = Head(s) \/ x \in Range(Tail(s))
  <2> SUFFICES ASSUME NEW i \in 1 .. Len(s), i # 1 PROVE s[i] \in Range(Tail(s))
      BY <1>1, <1>4 DEF Range
  <2>1. i - 1 \in 1 .. Len(s) - 1 /\ (i - 1) + 1 = i BY <1>1
  <2>2. Tail(s)[i - 1] = s[i] BY <1>3, <2>1
  <2> QED BY <1>5, <2>1, <2>2 DEF Range
<1>8. Head(s) \in Range(s) BY <1>1, <1>4 DEF Range
<1> QED BY <1>2, <1>4, <1>6, <1>7, <1>8

LEMMA RangeOfConcat ==
    ASSUME NEW S, NEW s \in Seq(S), NEW u \in Seq(S)
    PROVE  /\ s \o u \in Seq(S)
           /\ \A x : x \in Range(s \o u) <=> x \in Range(s) \/ x \in Range(u)
<1>1. /\ Len(s) \in Nat /\ Len(u) \in Nat /\ Len(s \o u) = Len(s) + Len(u)
      /\ DOMAIN s = 1 .. Len(s) /\ DOMAIN u = 1 .. Len(u) /\ DOMAIN (s \o u) = 1 .. Len(s) + Len(u)
    OBVIOUS
<1>2. \A i \in 1 .. Len(s) : (s \o u)[i] = s[i] OBVIOUS
<1>3. \A i \in 1 .. Len(u) : (s \o u)[Len(s) + i] = u[i] OBVIOUS
<1>4. \A x : x \in Range(s \o u) => x \in Range(s) \/ x \in Range(u)
  <2> SUFFICES ASSUME NEW i \in 1 .. Len(s) + Len(u)
               PROVE  (s \o u)[i] \in Range(s) \/ (s \o u)[i] \in Range(u)
      BY <1>1 DEF Range
  <2>1. CASE i \in 1 .. Len(s) BY <1>1, <1>2, <2>1 DEF Range
  <2>2. CASE i \notin 1 .. Len(s)
    <3>1. i - Len(s) \in 1 .. Len(u) /\ Len(s) + (i - Len(s)) = i BY <1>1, <2>2
    <3>2. (s \o u)[i] = u[i - Len(s)] BY <1>3, <3>1
    <3> QED BY <1>1, <3>1, <3>2 DEF Range
  <2> QED BY <2>1, <2>2
<1>5. \A x \in Range(s) : x \in Range(s \o u)
  <2> SUFFICES ASSUME NEW i \in 1 .. Len(s) PROVE s[i] \in Range(s \o u) BY <1>1 DEF Range
  <2>1. i \in 1 .. Len(s) + Len(u) BY <1>1
  <2> QED BY <1>1, <1>2, <2>1 DEF Range
<1>6. \A x \in Range(u) : x \in Range(s \o u)
  <2> SUFFICES ASSUME NEW i \in 1 .. Len(u) PROVE u[i] \in Range(s \o u) BY <1>1 DEF Range
  <2>1. Len(s) + i \in 1 .. Len(s) + Len(u) BY <1>1
  <2> QED BY <1>1, <1>3, <2>1 DEF Range
<1> QED BY <1>4, <1>5, <1>6

LEMMA RangeOfPrefix ==
    ASSUME NEW S, NEW s \in Seq(S), NEW n \in 0 .. Len(s)
    PROVE  SubSeq(s, 1, n) \in Seq(S) /\ \A x \in Range(SubSeq(s, 1, n)) : x \in Range(s)
<1>1. Len(s) \in Nat /\ DOMAIN s = 1 .. Len(s) OBVIOUS
<1>2. SubSeq(s, 1, n) \in Seq(S) /\ Len(SubSeq(s, 1, n)) = n BY <1>1
<1>3. \A i \in 1 .. n : SubSeq(s, 1, n)[i] = s[i] BY <1>1
<1>4. DOMAIN SubSeq(s, 1, n) = 1 .. n BY <1>2
<1>5. \A i \in 1 .. n : s[i] \in Range(s) BY <1>1 DEF Range
<1> QED BY <1>2, <1>3, <1>4, <1>5 DEF Range

\* The natural numbers are well-founded.
LEMMA LeastNumber ==
    ASSUME NEW T, T \subseteq Nat, T # {}
    PROVE  \E x \in T : \A y \in T : x <= y
<1>1. PICK R : R = OpToRel(<, Nat) OBVIOUS
<1>2. IsWellFoundedOn(R, Nat) BY <1>1, NatLessThanWellFounded
<1>3. PICK x \in T : \A y \in T : ~ (<<y, x>> \in R) BY <1>2, WFMin
<1>4. \A y, z \in Nat : y < z => <<y, z>> \in R BY <1>1 DEF OpToRel
<1>5. \A y \in T : x <= y
  <2> TAKE y \in T
  <2>1. x \in Nat /\ y \in Nat OBVIOUS
  <2>2. ~ (y < x) BY <1>3, <1>4, <2>1
  <2> QED BY <2>1, <2>2
<1> QED BY <1>5

(***************************************************************************)
(* The mailboxes                                                           *)
(***************************************************************************)

\* Cursors are those issued so far, and name a row as its id does.
MailTypes ==
    /\ rows \subseteq Envelope /\ IsFiniteSet(rows) /\ last \in 0 .. MaxCursor
    /\ \A r \in rows : r.cursor \in 1 .. last
    /\ \A q, r \in rows : q.cursor = r.cursor \/ q.id = r.id => q = r

SameRow(q, r) == q.cursor = r.cursor /\ q.id = r.id /\ q.to = r.to

\* What a step does to the rows: new ones come beyond the last cursor, one is confirmed
\* that the device has, and confirmed ones go away.
MailStep ==
    /\ last <= last'
    /\ \A r \in rows' :
        \/ r.cursor > last /\ ~r.delivered
        \/ \E q \in rows : SameRow(q, r) /\ (r.delivered => q.delivered \/ r.id \in imported[r.to])
    /\ \A q \in rows : q.delivered \/ \E r \in rows' : SameRow(q, r)

LEMMA AcceptSteps ==
    ASSUME MailTypes, NEW o \in Offer, NEW new \in SUBSET o,
           last + Cardinality(new) <= MaxCursor, Accept(new)
    PROVE  MailTypes' /\ MailStep
<1>1. o \subseteq [id : EnvelopeId, to : Device] /\ IsFiniteSet(o) BY OfferAssumption
<1>2. IsFiniteSet(new) BY <1>1, FS_Subset
<1>3. Cardinality(new) \in Nat BY <1>2, FS_CardinalityType
<1>4. last' = last + Cardinality(new) /\ last \in Nat /\ MaxCursor \in Nat
    BY BoundAssumption DEF Accept, MailTypes
<1>5. last' \in 0 .. MaxCursor /\ last <= last' BY <1>3, <1>4
<1>6. PICK place \in Injection(new, (last + 1) .. last') :
            rows' = rows \cup {Fresh(e, place[e]) : e \in new}
    BY DEF Accept
<1>7. place \in [new -> (last + 1) .. last'] /\ \A e, f \in new : place[e] = place[f] => e = f
    BY <1>6 DEF Injection, IsInjective
<1>8. \A e \in new : /\ place[e] \in (last + 1) .. last'
                     /\ e \in [id : EnvelopeId, to : Device]
    BY <1>1, <1>7
<1>9. \A e \in new : /\ Fresh(e, place[e]) \in Envelope
                     /\ Fresh(e, place[e]).cursor = place[e] /\ Fresh(e, place[e]).id = e.id
                     /\ Fresh(e, place[e]).delivered = FALSE
  <2> TAKE e \in new
  <2>1. place[e] \in Nat BY <1>4, <1>5, <1>8
  <2>2. FALSE \in BOOLEAN OBVIOUS
  <2> QED BY <1>8, <2>1, <2>2 DEF Fresh, Envelope
<1>10. IsFiniteSet(rows')
  <2> DEFINE g == [e \in new |-> Fresh(e, place[e])]
             R == {Fresh(e, place[e]) : e \in new}
  <2>1. g \in Surjection(new, R) BY DEF Surjection
  <2> HIDE DEF g
  <2>2. IsFiniteSet(R) BY <1>2, <2>1, FS_Surjection
  <2>3. IsFiniteSet(rows) BY DEF MailTypes
  <2> HIDE DEF R
  <2>4. IsFiniteSet(rows \cup R) BY <2>2, <2>3, FS_Union
  <2> QED BY <1>6, <2>4 DEF R
<1>11. rows' \subseteq Envelope BY <1>6, <1>9 DEF MailTypes
<1>12. \A r \in rows' : r.cursor \in 1 .. last'
  <2> SUFFICES ASSUME NEW r \in rows' PROVE r.cursor \in 1 .. last' OBVIOUS
  <2>1. CASE r \in rows BY <1>4, <1>5, <2>1 DEF MailTypes
  <2>2. CASE r \notin rows
    <3>1. PICK e \in new : r = Fresh(e, place[e]) BY <1>6, <2>2
    <3> QED BY <1>4, <1>5, <1>8, <1>9, <3>1
  <2> QED BY <2>1, <2>2
<1>13. \A e \in new : \A r \in rows : r.cursor # place[e] /\ r.id # e.id
  <2> SUFFICES ASSUME NEW e \in new, NEW r \in rows PROVE r.cursor # place[e] /\ r.id # e.id
      OBVIOUS
  <2>1. r.cursor \in 1 .. last /\ place[e] \in (last + 1) .. last' BY <1>8 DEF MailTypes
  <2>2. r.id # e.id BY DEF Accept, Stored
  <2> QED BY <1>4, <1>5, <2>1, <2>2
<1>14. \A q, r \in rows' : q.cursor = r.cursor \/ q.id = r.id => q = r
  <2> SUFFICES ASSUME NEW q \in rows', NEW r \in rows', q.cursor = r.cursor \/ q.id = r.id
               PROVE  q = r
      OBVIOUS
  <2>1. CASE q \in rows /\ r \in rows BY <2>1 DEF MailTypes
  <2>2. CASE q \notin rows /\ r \in rows
    <3>1. PICK e \in new : q = Fresh(e, place[e]) BY <1>6, <2>2
    <3> QED BY <1>9, <1>13, <2>2, <3>1
  <2>3. CASE q \in rows /\ r \notin rows
    <3>1. PICK e \in new : r = Fresh(e, place[e]) BY <1>6, <2>3
    <3> QED BY <1>9, <1>13, <2>3, <3>1
  <2>4. CASE q \notin rows /\ r \notin rows
    <3>1. PICK e \in new : q = Fresh(e, place[e]) BY <1>6, <2>4
    <3>2. PICK f \in new : r = Fresh(f, place[f]) BY <1>6, <2>4
    <3>3. e.id = f.id => e = f BY DEF Accept
    <3>4. place[e] = place[f] => e = f BY <1>7
    <3> QED BY <1>9, <3>1, <3>2, <3>3, <3>4
  <2> QED BY <2>1, <2>2, <2>3, <2>4
<1>15. MailStep
  <2>1. \A r \in rows' : r \in rows \/ (r.cursor > last /\ ~r.delivered)
    <3> SUFFICES ASSUME NEW r \in rows', r \notin rows PROVE r.cursor > last /\ ~r.delivered
        OBVIOUS
    <3>1. PICK e \in new : r = Fresh(e, place[e]) BY <1>6
    <3>2. place[e] > last BY <1>4, <1>5, <1>8
    <3> QED BY <1>9, <3>1, <3>2
  <2>2. \A r \in rows : r \in rows' BY <1>6
  <2> QED BY <1>5, <2>1, <2>2 DEF MailStep, SameRow
<1> QED BY <1>5, <1>10, <1>11, <1>12, <1>14, <1>15 DEF MailTypes

LEMMA ConfirmSteps ==
    ASSUME MailTypes, NEW d \in Device, NEW id, Confirm(d, id), id \in imported[d]
    PROVE  MailTypes' /\ MailStep
<1>1. PICK p \in Mailbox(d) :
            /\ p.id = id
            /\ rows' = (rows \ {p}) \cup {[p EXCEPT !.delivered = TRUE]} /\ last' = last
    BY DEF Confirm
<1>2. PICK q : q = [p EXCEPT !.delivered = TRUE] OBVIOUS
<1>3. p \in rows /\ p.to = d /\ p \in Envelope BY <1>1 DEF Mailbox, MailTypes
<1>4. TRUE \in BOOLEAN OBVIOUS
<1>5. q \in Envelope /\ q.cursor = p.cursor /\ q.id = p.id /\ q.to = p.to
    BY <1>2, <1>3, <1>4 DEF Envelope
<1>6. rows' = (rows \ {p}) \cup {q} BY <1>1, <1>2
<1>7. IsFiniteSet(rows')
  <2>1. IsFiniteSet(rows \ {p}) BY FS_Subset DEF MailTypes
  <2> QED BY <1>6, <2>1, FS_AddElement
<1>8. last \in Nat BY BoundAssumption DEF MailTypes
<1>9. MailTypes' BY <1>1, <1>3, <1>5, <1>6, <1>7 DEF MailTypes
<1>10. MailStep BY <1>1, <1>3, <1>5, <1>6, <1>8 DEF MailStep, SameRow
<1> QED BY <1>9, <1>10

LEMMA DiscardSteps ==
    ASSUME MailTypes, NEW r \in rows, r.delivered, Discard({r})
    PROVE  MailTypes' /\ MailStep
<1>1. rows' = rows \ {r} /\ last' = last BY DEF Discard
<1>2. IsFiniteSet(rows') BY <1>1, FS_Subset DEF MailTypes
<1>3. last \in Nat BY BoundAssumption DEF MailTypes
<1> QED BY <1>1, <1>2, <1>3 DEF MailTypes, MailStep, SameRow

LEMMA NothingStored ==
    ASSUME MailTypes, UNCHANGED mailboxes
    PROVE  MailTypes' /\ MailStep
<1>1. last \in Nat /\ rows' = rows /\ last' = last
    BY BoundAssumption DEF MailTypes, mailboxes
<1> QED BY <1>1 DEF MailTypes, MailStep, SameRow

(***************************************************************************)
(* Connections and the client                                              *)
(***************************************************************************)

ServerTypes ==
    /\ pushing \in [Task -> SUBSET EnvelopeId]
    /\ link \in [Device -> {"off", "joining", "on", "lost"}]
    /\ up \in [Device -> Seq(Frames)] /\ reply \in [Device -> Seq(Batches)]
    /\ down \in [Device -> Seq(Batches)]

ClientTypes ==
    /\ cursor \in [Device -> 0 .. MaxCursor]
    /\ imported \in [Device -> SUBSET EnvelopeId]
    /\ batch \in [Device -> Batches]
    /\ owed \in [Device -> SUBSET EnvelopeId]
    /\ \A d \in Device : Singly(owed[d]) /\ owed[d] \subseteq imported[d]
    /\ asked \in [Device -> SUBSET Request] /\ \A d \in Device : Singly(asked[d])
    /\ syncing = [d \in Device |-> asked[d] # {}] /\ whole \in [Device -> BOOLEAN]
    /\ budget \in 0 .. Budget

\* The store moves on, and what a device has saved stays saved.
ClientStep ==
    \A d \in Device : cursor[d] <= cursor'[d] /\ imported[d] \subseteq imported'[d]

LEMMA Batching ==
    ASSUME MailTypes, NEW S \in SUBSET rows, NEW A \in SUBSET Request
    PROVE  Batch(A, S) \in Batches /\ Batch(A, S).rows = {Item(r) : r \in S}
           /\ Batch(A, S).answers = A
<1>1. last \in Nat /\ MaxCursor \in Nat /\ last <= MaxCursor
    BY BoundAssumption DEF MailTypes
<1>2. \A r \in S : Item(r) \in [cursor : 1 .. MaxCursor, id : EnvelopeId]
    BY <1>1 DEF MailTypes, Envelope, Item
<1> QED BY <1>2 DEF Batch, Batches

LEMMA Firsts ==
    ASSUME ClientTypes, NEW d \in Device, batch[d].rows # {}
    PROVE  /\ Least(d) \in batch[d].rows /\ \A q \in batch[d].rows : Least(d).cursor <= q.cursor
           /\ Least(d).cursor \in 1 .. MaxCursor /\ Least(d).id \in EnvelopeId
<1>1. batch[d].rows \subseteq [cursor : 1 .. MaxCursor, id : EnvelopeId]
    BY DEF ClientTypes, Batches
<1>2. PICK T : T = {q.cursor : q \in batch[d].rows} OBVIOUS
<1>3. MaxCursor \in Nat BY BoundAssumption
<1>4. T \subseteq Nat /\ T # {} BY <1>1, <1>2, <1>3
<1>5. PICK c \in T : \A e \in T : c <= e BY <1>4, LeastNumber
<1>6. PICK r \in batch[d].rows : r.cursor = c BY <1>2, <1>5
<1>7. \A q \in batch[d].rows : r.cursor <= q.cursor BY <1>2, <1>5, <1>6
<1>8. Least(d) \in batch[d].rows /\ \A q \in batch[d].rows : Least(d).cursor <= q.cursor
    BY <1>6, <1>7 DEF Least
<1> QED BY <1>1, <1>8

\* A batch that is worked through, and one that is given up.
LEMMA Shorter ==
    ASSUME ClientTypes, NEW d \in Device
    PROVE  /\ Rest(d) \in [Device -> Batches] /\ Abandon(d) \in [Device -> Batches]
           /\ Rest(d)[d].rows = batch[d].rows \ {Least(d)} /\ Rest(d)[d].answers = batch[d].answers
           /\ Abandon(d)[d].rows = {} /\ Abandon(d)[d].answers = batch[d].answers
           /\ \A e \in Device \ {d} : Rest(d)[e] = batch[e] /\ Abandon(d)[e] = batch[e]
<1>1. batch \in [Device -> Batches] BY DEF ClientTypes
<1>2. batch[d] \in Batches BY <1>1
<1>3. PICK b : b = [batch[d] EXCEPT !.rows = @ \ {Least(d)}] OBVIOUS
<1>4. b \in Batches /\ b.rows = batch[d].rows \ {Least(d)} /\ b.answers = batch[d].answers
    BY <1>2, <1>3 DEF Batches
<1>5. PICK a : a = [batch[d] EXCEPT !.rows = {}] OBVIOUS
<1>6. a \in Batches /\ a.rows = {} /\ a.answers = batch[d].answers BY <1>2, <1>5 DEF Batches
<1>7. Rest(d) = [batch EXCEPT ![d] = b] BY <1>3 DEF Rest
<1>8. Abandon(d) = [batch EXCEPT ![d] = a] BY <1>5 DEF Abandon
<1> QED BY <1>1, <1>4, <1>6, <1>7, <1>8

LEMMA SpendsLess == ASSUME ClientTypes, NEW f, Spend(f) PROVE budget' \in 0 .. Budget
BY BoundAssumption DEF ClientTypes, Spend

LEMMA FramesTyped ==
    ASSUME ClientTypes, NEW d \in Device
    PROVE  /\ \A q \in Request : Sync(q, cursor[d]) \in Frames
           /\ \A id \in owed[d] : AckOf(id) \in Frames
BY DEF ClientTypes, Sync, AckOf, Frames

\* What App::sync does: one request is open then, and its frame is on its way or lost.
LEMMA Asking ==
    ASSUME ServerTypes, ClientTypes, NEW d \in Device, AskSync(d)
    PROVE  /\ \E q \in Request :
                 /\ up' = up \/ up' = [up EXCEPT ![d] = Append(@, Sync(q, cursor[d]))]
                 /\ asked' = [asked EXCEPT ![d] = {q}]
           /\ up' \in [Device -> Seq(Frames)]
           /\ asked' \in [Device -> SUBSET Request] /\ \A e \in Device : Singly(asked'[e])
           /\ syncing' = [e \in Device |-> asked'[e] # {}]
<1>1. PICK q : q = NewRequest(d) OBVIOUS
<1>2. q \in Request BY <1>1 DEF AskSync, NewRequest
<1>3. asked[d] = {} BY DEF AskSync, ClientTypes
<1>4. asked' = [asked EXCEPT ![d] = {q}] BY <1>1, <1>3 DEF AskSync
<1>5. up' = up \/ up' = [up EXCEPT ![d] = Append(@, Sync(q, cursor[d]))]
  BY <1>1 DEF AskSync
<1>6. Append(up[d], Sync(q, cursor[d])) \in Seq(Frames) BY <1>2, FramesTyped DEF ServerTypes
<1>7. up' \in [Device -> Seq(Frames)] BY <1>5, <1>6 DEF ServerTypes
<1>8. asked' \in [Device -> SUBSET Request] /\ \A e \in Device : Singly(asked'[e])
  BY <1>2, <1>4 DEF ClientTypes, Singly
<1>9. syncing' = [e \in Device |-> asked'[e] # {}]
  <2>1. syncing' = [syncing EXCEPT ![d] = TRUE] BY DEF AskSync
  <2> QED BY <1>4, <2>1 DEF ClientTypes
<1> QED BY <1>2, <1>4, <1>5, <1>7, <1>8, <1>9

LEMMA ServerTypesStep ==
    ASSUME MailTypes, ServerTypes, ClientTypes, [Next]_vars
    PROVE  ServerTypes'
<1> USE DEF ServerTypes
<1>0. \A S : <<>> \in Seq(S) OBVIOUS
<1>1. ASSUME NEW t \in Task, NEW o \in Offer, Send(t, o) PROVE ServerTypes'
  <2>1. {e.id : e \in o} \subseteq EnvelopeId BY OfferAssumption
  <2> QED BY <1>1, <2>1 DEF Send
<1>2. ASSUME NEW t \in Task, NEW id \in EnvelopeId, Push(t, id) PROVE ServerTypes'
  <2>1. PICK found : found = {r \in rows : r.id = id} OBVIOUS
  <2>2. Batch({}, found) \in Batches BY <2>1, Batching
  <2>3. \A d \in Device : Append(down[d], Batch({}, found)) \in Seq(Batches) BY <2>2
  <2>4. pushing' \in [Task -> SUBSET EnvelopeId] BY <1>2 DEF Push
  <2>5. down' \in [Device -> Seq(Batches)] BY <1>2, <2>1, <2>3 DEF Push
  <2> QED BY <1>2, <2>4, <2>5 DEF Push
<1>3. ASSUME NEW d \in Device, ServeSync(d) PROVE ServerTypes'
  <2>1. PICK later : later = Later(d, Head(up[d]).after) OBVIOUS
  <2>2. FirstPage(later) \subseteq rows BY <2>1 DEF Later, Mailbox, FirstPage
  <2>3. Head(up[d]) \in Frames /\ Tail(up[d]) \in Seq(Frames) /\ Head(up[d]).kind = "sync"
    BY <1>3, RangeOfTail DEF ServeSync, Serves
  <2>4. PICK q : q = Head(up[d]).request OBVIOUS
  <2>5. q \in Request BY <2>3, <2>4 DEF Frames
  <2>6. Batch({q}, FirstPage(later)) \in Batches BY <2>2, <2>5, Batching
  <2>7. <<Batch({q}, FirstPage(later))>> \in Seq(Batches) BY <2>6
  <2> QED BY <1>3, <2>1, <2>3, <2>4, <2>7 DEF ServeSync, Serves
<1>4. ASSUME NEW d \in Device, QueueReply(d) PROVE ServerTypes'
  <2>1. down[d] \o reply[d] \in Seq(Batches) OBVIOUS
  <2> QED BY <1>0, <1>4, <2>1 DEF QueueReply
<1>5. ASSUME NEW d \in Device, ServeAck(d) PROVE ServerTypes'
  <2>1. Tail(up[d]) \in Seq(Frames) BY <1>5, RangeOfTail DEF ServeAck, Serves
  <2> QED BY <1>5, <2>1 DEF ServeAck, Serves
<1>6. ASSUME NEW d \in Device, TakeBatch(d) PROVE ServerTypes'
  <2>1. Tail(down[d]) \in Seq(Batches) BY <1>6, RangeOfTail DEF TakeBatch
  <2> QED BY <1>6, <2>1 DEF TakeBatch, server
<1>7. ASSUME NEW d \in Device, Acknowledge(d) PROVE ServerTypes'
  <2>1. \A id \in owed[d] : Append(up[d], AckOf(id)) \in Seq(Frames) BY FramesTyped
  <2>2. up' \in [Device -> Seq(Frames)] BY <1>7, <2>1 DEF Acknowledge
  <2> QED BY <1>7, <2>2 DEF Acknowledge
<1>8. ASSUME NEW d \in Device, RequestSync(d) PROVE ServerTypes'
  BY <1>8, Asking DEF RequestSync
<1>9. ASSUME NEW d \in Device, Register(d) PROVE ServerTypes'
  BY <1>9 DEF Register
<1>10. ASSUME NEW d \in Device, Authenticated(d) PROVE ServerTypes'
  BY <1>10, Asking DEF Authenticated
<1>11. ASSUME NEW S \in SUBSET Device, Hangup(S) PROVE
            /\ Broken(S) => link' \in [Device -> {"off", "joining", "on", "lost"}]
            /\ up' \in [Device -> Seq(Frames)] /\ reply' \in [Device -> Seq(Batches)]
  BY <1>0, <1>11 DEF Hangup, Broken
<1>12. ASSUME NEW d \in Device, Disconnect(d) PROVE ServerTypes'
  <2>1. PICK n \in 0 .. Len(down[d]) : Received(d, n) BY <1>12 DEF Disconnect
  <2>2. SubSeq(down[d], 1, n) \in Seq(Batches) BY <2>1, RangeOfPrefix
  <2>3. down' \in [Device -> Seq(Batches)] BY <2>1, <2>2 DEF Received
  <2>4. {d} \in SUBSET Device /\ Hangup({d}) BY <1>12 DEF Disconnect
  <2> QED BY <1>11, <1>12, <2>3, <2>4 DEF Disconnect
<1>13. ASSUME NEW d \in Device, ClientCrash(d) \/ Refused(d) PROVE ServerTypes'
  <2>1. Received(d, 0) BY <1>13 DEF ClientCrash, Refused
  <2>2. 0 \in 0 .. Len(down[d]) OBVIOUS
  <2>3. SubSeq(down[d], 1, 0) \in Seq(Batches) BY <2>2, RangeOfPrefix
  <2>4. down' \in [Device -> Seq(Batches)] BY <2>1, <2>3 DEF Received
  <2>5. {d} \in SUBSET Device /\ Hangup({d}) BY <1>13 DEF ClientCrash, Refused
  <2> QED BY <1>11, <1>13, <2>4, <2>5 DEF ClientCrash, Refused
<1>14. CASE ServerRestart
  <2>1. Device \in SUBSET Device /\ Hangup(Device) BY <1>14 DEF ServerRestart
  <2> QED BY <1>11, <1>14, <2>1 DEF ServerRestart
<1>15. ASSUME NEW d \in Device, SkipOld(d) \/ Import(d) \/ RejectReplay(d) \/ SyncExpires(d)
                                \/ LookupFails(d) \/ Closed(d)
       PROVE  ServerTypes'
  BY <1>15 DEF SkipOld, Import, RejectReplay, SyncExpires, LookupFails, Closed, server
<1>16. ASSUME NEW r \in rows, Cleanup(r) PROVE ServerTypes'
  BY <1>16 DEF Cleanup, server
<1>17. CASE UNCHANGED vars BY <1>17 DEF vars, server
<1> QED BY <1>1, <1>2, <1>3, <1>4, <1>5, <1>6, <1>7, <1>8, <1>9, <1>10, <1>12, <1>13, <1>14,
           <1>15, <1>16, <1>17 DEF Next, Deliver

LEMMA ClientTypesStep ==
    ASSUME MailTypes, ServerTypes, ClientTypes, [Next]_vars
    PROVE  ClientTypes' /\ ClientStep
<1> USE DEF ClientTypes
<1>0. /\ \A d \in Device : cursor[d] \in Nat /\ cursor[d] <= cursor[d]
      /\ \A S : IsFiniteSet(S) => Cardinality(S) \in Nat
      /\ {} \in SUBSET EnvelopeId
  BY BoundAssumption, FS_CardinalityType
<1>1. ASSUME NEW t \in Task, NEW o \in Offer, Send(t, o) PROVE ClientTypes' /\ ClientStep
  <2>1. budget' \in 0 .. Budget BY <1>1, SpendsLess DEF Send
  <2> QED BY <1>0, <1>1, <2>1 DEF Send, client, requests, ClientStep
<1>2. ASSUME NEW t \in Task, NEW id \in EnvelopeId, Push(t, id) PROVE ClientTypes' /\ ClientStep
  BY <1>0, <1>2 DEF Push, client, requests, ClientStep
<1>3. ASSUME NEW d \in Device, ServeSync(d) PROVE ClientTypes' /\ ClientStep
  <2>1. whole' \in [Device -> BOOLEAN]
    <3>1. PICK b : b = (whole[d] \/ FirstPage(Later(d, Head(up[d]).after))
                                      = Later(d, Head(up[d]).after)) OBVIOUS
    <3>2. b \in BOOLEAN BY <3>1
    <3>3. whole' = [whole EXCEPT ![d] = b] BY <1>3, <3>1 DEF ServeSync
    <3> QED BY <3>2, <3>3
  <2> QED BY <1>0, <1>3, <2>1 DEF ServeSync, client, requests, ClientStep
<1>4. ASSUME NEW d \in Device, QueueReply(d) \/ ServeAck(d) \/ Register(d)
      PROVE  ClientTypes' /\ ClientStep
  BY <1>0, <1>4 DEF QueueReply, ServeAck, Register, client, requests, ClientStep
<1>5. ASSUME NEW d \in Device, TakeBatch(d) PROVE ClientTypes' /\ ClientStep
  <2>1. Head(down[d]) \in Batches BY <1>5, RangeOfTail DEF TakeBatch, ServerTypes
  <2>2. PICK left : left = asked[d] \ Head(down[d]).answers OBVIOUS
  <2>3. asked' = [asked EXCEPT ![d] = left] BY <1>5, <2>2 DEF TakeBatch
  <2>4. syncing' = [syncing EXCEPT ![d] = @ /\ left = asked[d] /\ left # {}]
    BY <1>5, <2>2 DEF TakeBatch
  <2>5. left \subseteq asked[d] /\ Singly(left) BY <2>2 DEF Singly
  <2>6. left # {} => left = asked[d] BY <2>5 DEF Singly
  <2>7. asked' \in [Device -> SUBSET Request] /\ \A e \in Device : Singly(asked'[e])
    BY <2>3, <2>5
  <2>8. syncing' = [e \in Device |-> asked'[e] # {}]
    <3>1. (syncing[d] /\ left = asked[d] /\ left # {}) = (left # {}) BY <2>5, <2>6
    <3>2. PICK b : b = (left # {}) OBVIOUS
    <3>3. syncing' = [syncing EXCEPT ![d] = b] BY <2>4, <3>1, <3>2
    <3>4. \A e \in Device : asked'[e] = IF e = d THEN left ELSE asked[e] BY <2>3
    <3> QED BY <3>2, <3>3, <3>4
  <2> QED BY <1>0, <1>5, <2>1, <2>7, <2>8 DEF TakeBatch, ClientStep
<1>6. ASSUME NEW d \in Device, SkipOld(d) PROVE ClientTypes' /\ ClientStep
  BY <1>0, <1>6, Shorter DEF SkipOld, requests, ClientStep
<1>7. ASSUME NEW d \in Device, Import(d) PROVE ClientTypes' /\ ClientStep
  <2>1. Least(d).cursor \in 1 .. MaxCursor /\ Least(d).id \in EnvelopeId
    BY <1>7, Firsts DEF Import, At
  <2>2. PICK c, id : c = Least(d).cursor /\ id = Least(d).id OBVIOUS
  <2>3. /\ cursor' = [cursor EXCEPT ![d] = c] /\ imported' = [imported EXCEPT ![d] = @ \cup {id}]
        /\ owed' = [owed EXCEPT ![d] = {id}] /\ c > cursor[d]
    BY <1>7, <2>2 DEF Import
  <2>4. cursor' \in [Device -> 0 .. MaxCursor] BY BoundAssumption, <2>1, <2>2, <2>3
  <2>5. imported' \in [Device -> SUBSET EnvelopeId] /\ owed' \in [Device -> SUBSET EnvelopeId]
    BY <2>1, <2>2, <2>3
  <2>6. \A e \in Device : Singly(owed'[e]) /\ owed'[e] \subseteq imported'[e]
    BY <2>3 DEF Singly
  <2>7. ClientStep
    <3>1. c \in Nat BY <2>1, <2>2
    <3>2. \A e \in Device : cursor[e] <= cursor'[e] BY <1>0, <2>3, <3>1
    <3>3. \A e \in Device : imported[e] \subseteq imported'[e] BY <2>3
    <3> QED BY <3>2, <3>3 DEF ClientStep
  <2> QED BY <1>7, <2>4, <2>5, <2>6, <2>7, Shorter DEF Import, requests
<1>8. ASSUME NEW d \in Device, Acknowledge(d) PROVE ClientTypes' /\ ClientStep
  <2>1. batch' \in [Device -> Batches] BY <1>8, Shorter DEF Acknowledge
  <2>2. /\ owed' \in [Device -> SUBSET EnvelopeId]
        /\ \A e \in Device : Singly(owed'[e]) /\ owed'[e] \subseteq imported[e]
    BY <1>8 DEF Acknowledge, Singly
  <2> QED BY <1>0, <1>8, <2>1, <2>2 DEF Acknowledge, requests, ClientStep
<1>9. ASSUME NEW d \in Device, RejectReplay(d) \/ LookupFails(d)
      PROVE  ClientTypes' /\ ClientStep
  <2>1. batch' \in [Device -> Batches] BY <1>9, Shorter DEF RejectReplay, LookupFails
  <2>2. budget' \in 0 .. Budget BY <1>9, SpendsLess DEF RejectReplay, LookupFails
  <2>3. UNCHANGED <<cursor, imported, owed, asked, syncing>>
    BY <1>9 DEF RejectReplay, LookupFails, requests
  <2>4. whole' \in [Device -> BOOLEAN] BY <1>9 DEF RejectReplay, LookupFails
  <2> QED BY <1>0, <2>1, <2>2, <2>3, <2>4 DEF ClientStep
<1>10. ASSUME NEW d \in Device, asked' = [asked EXCEPT ![d] = {}],
              syncing' = [syncing EXCEPT ![d] = FALSE]
       PROVE  /\ asked' \in [Device -> SUBSET Request] /\ \A e \in Device : Singly(asked'[e])
              /\ syncing' = [e \in Device |-> asked'[e] # {}]
  <2>1. asked' \in [Device -> SUBSET Request] /\ \A e \in Device : Singly(asked'[e])
    BY <1>0, <1>10 DEF Singly
  <2>2. \A e \in Device : syncing'[e] = (asked'[e] # {}) BY <1>0, <1>10
  <2>3. syncing' \in [Device -> BOOLEAN] BY <1>0, <1>10
  <2> QED BY <2>1, <2>2, <2>3
<1>11. ASSUME NEW d \in Device, RequestSync(d) \/ Authenticated(d)
       PROVE  ClientTypes' /\ ClientStep
  <2>1. CASE AskSync(d)
    BY <1>0, <1>11, <2>1, Asking DEF RequestSync, Authenticated, ClientStep
  <2>2. CASE UNCHANGED requests
    BY <1>0, <1>11, <2>2 DEF RequestSync, AskSync, Authenticated, requests, ClientStep
  <2> QED BY <1>11, <2>1, <2>2 DEF RequestSync, Authenticated
<1>17. ASSUME NEW d \in Device, SyncExpires(d) \/ Closed(d) PROVE ClientTypes' /\ ClientStep
  BY <1>0, <1>10, <1>17 DEF SyncExpires, Closed, ClientStep
<1>12. ASSUME NEW d \in Device, Disconnect(d) \/ Refused(d) PROVE ClientTypes' /\ ClientStep
  <2>1. budget' \in 0 .. Budget BY <1>12, SpendsLess DEF Disconnect, Refused
  <2> QED BY <1>0, <1>12, <2>1 DEF Disconnect, Refused, client, requests, ClientStep
<1>13. ASSUME NEW d \in Device, ClientCrash(d) PROVE ClientTypes' /\ ClientStep
  <2>1. budget' \in 0 .. Budget BY <1>13, SpendsLess DEF ClientCrash
  <2>2. batch' \in [Device -> Batches] BY <1>13, Shorter DEF ClientCrash
  <2>3. /\ owed' \in [Device -> SUBSET EnvelopeId]
        /\ \A e \in Device : Singly(owed'[e]) /\ owed'[e] \subseteq imported[e]
    BY <1>13 DEF ClientCrash, Singly
  <2> QED BY <1>0, <1>10, <1>13, <2>1, <2>2, <2>3 DEF ClientCrash, ClientStep
<1>14. CASE ServerRestart
  <2>1. budget' \in 0 .. Budget BY <1>14, SpendsLess DEF ServerRestart
  <2> QED BY <1>0, <1>14, <2>1 DEF ServerRestart, client, requests, ClientStep
<1>15. ASSUME NEW r \in rows, Cleanup(r) PROVE ClientTypes' /\ ClientStep
  <2>1. budget' \in 0 .. Budget BY <1>15, SpendsLess DEF Cleanup
  <2> QED BY <1>0, <1>15, <2>1 DEF Cleanup, client, requests, ClientStep
<1>16. CASE UNCHANGED vars BY <1>0, <1>16 DEF vars, client, requests, ClientStep
<1> QED BY <1>1, <1>2, <1>3, <1>4, <1>5, <1>6, <1>7, <1>8, <1>9, <1>11, <1>12, <1>13, <1>14,
           <1>15, <1>16, <1>17 DEF Next, Deliver

(***************************************************************************)
(* What the frames of a device say                                         *)
(***************************************************************************)

\* A sync asks for what follows a cursor the device has reached, and what is acknowledged
\* has been saved.
FramesKnown ==
    \A d \in Device : \A f \in Range(up[d]) :
        /\ f.kind = "sync" => f.after <= cursor[d]
        /\ f.kind = "ack" => f.id \in imported[d]

LEMMA FramesKnownStep ==
    ASSUME MailTypes, ServerTypes, ClientTypes, FramesKnown, [Next]_vars
    PROVE  FramesKnown'
<1> DEFINE Known(f, d) == /\ f.kind = "sync" => f.after <= cursor[d]
                          /\ f.kind = "ack" => f.id \in imported[d]
<1>1. ClientStep BY ClientTypesStep
<1>2. \A d \in Device : \A f \in Frames :
        Known(f, d) => /\ f.kind = "sync" => f.after <= cursor'[d]
                       /\ f.kind = "ack" => f.id \in imported'[d]
  <2> SUFFICES ASSUME NEW d \in Device, NEW f \in Frames, Known(f, d)
               PROVE  /\ f.kind = "sync" => f.after <= cursor'[d]
                      /\ f.kind = "ack" => f.id \in imported'[d]
      OBVIOUS
  <2>1. cursor[d] \in Nat /\ cursor'[d] \in Nat /\ cursor[d] <= cursor'[d]
        /\ imported[d] \subseteq imported'[d]
    BY <1>1, ClientTypesStep, BoundAssumption DEF ClientStep, ClientTypes
  <2>2. f.kind = "sync" => f.after \in Nat BY BoundAssumption DEF Frames
  <2> QED BY <2>1, <2>2
<1>3. \A d \in Device : \A f \in Range(up[d]) : f \in Frames /\ Known(f, d)
  <2> TAKE d \in Device
  <2>1. up[d] \in Seq(Frames) BY DEF ServerTypes
  <2>2. \A i \in DOMAIN up[d] : up[d][i] \in Frames BY <2>1
  <2>3. \A f \in Range(up[d]) : f \in Frames BY <2>2 DEF Range
  <2>4. \A f \in Range(up[d]) : Known(f, d) BY DEF FramesKnown
  <2> QED BY <2>3, <2>4
<1>4. ASSUME \A d \in Device : \A f \in Range(up'[d]) : f \in Frames /\ Known(f, d)
      PROVE  FramesKnown'
    BY <1>2, <1>4 DEF FramesKnown
<1> HIDE DEF Known
<1>5. ASSUME NEW d \in Device, NEW f \in Frames, up' = [up EXCEPT ![d] = Append(@, f)], Known(f, d)
      PROVE  FramesKnown'
  <2>1. \A x \in Range(Append(up[d], f)) : x \in Range(up[d]) \/ x = f
    BY RangeOfAppend DEF ServerTypes
  <2> QED BY <1>3, <1>4, <1>5, <2>1 DEF ServerTypes
<1>6. ASSUME NEW d \in Device, up[d] # <<>>, up' = [up EXCEPT ![d] = Tail(@)] PROVE FramesKnown'
  <2>1. \A x \in Range(Tail(up[d])) : x \in Range(up[d]) BY <1>6, RangeOfTail DEF ServerTypes
  <2> QED BY <1>3, <1>4, <1>6, <2>1 DEF ServerTypes
<1>7. ASSUME up' = up PROVE FramesKnown' BY <1>3, <1>4, <1>7
<1>8. \A x : x \notin Range(<<>>) BY DEF Range
<1>9. ASSUME NEW S \in SUBSET Device, Hangup(S) PROVE FramesKnown'
  <2>1. \A d \in Device : up'[d] = up[d] \/ up'[d] = <<>> BY <1>9 DEF Hangup
  <2> QED BY <1>3, <1>4, <1>8, <2>1
<1>10. ASSUME NEW d \in Device, ServeSync(d) \/ ServeAck(d) PROVE FramesKnown'
  BY <1>6, <1>10 DEF ServeSync, ServeAck, Serves
<1>11. ASSUME NEW d \in Device, Acknowledge(d) PROVE FramesKnown'
  <2>1. CASE up' = up BY <1>7, <2>1
  <2>2. ASSUME NEW id \in owed[d], up' = [up EXCEPT ![d] = Append(@, AckOf(id))]
        PROVE  FramesKnown'
    <3>1. AckOf(id) \in Frames BY FramesTyped
    <3>2. Known(AckOf(id), d) BY DEF Known, AckOf, ClientTypes
    <3> QED BY <1>5, <2>2, <3>1, <3>2
  <2> QED BY <1>11, <2>1, <2>2 DEF Acknowledge
<1>12. \A d \in Device, q \in Request :
          Sync(q, cursor[d]) \in Frames /\ Known(Sync(q, cursor[d]), d)
  <2> TAKE d \in Device, q \in Request
  <2>1. cursor[d] <= cursor[d] BY BoundAssumption DEF ClientTypes
  <2> QED BY <2>1, FramesTyped DEF Known, Sync
<1>13. ASSUME NEW d \in Device, AskSync(d) PROVE FramesKnown'
  BY <1>5, <1>7, <1>12, <1>13, Asking
<1>14. ASSUME NEW d \in Device, RequestSync(d) \/ Authenticated(d) PROVE FramesKnown'
  BY <1>7, <1>13, <1>14 DEF RequestSync, Authenticated
<1>15. ASSUME NEW d \in Device, Disconnect(d) \/ Refused(d) \/ ClientCrash(d)
       PROVE  FramesKnown'
  <2>1. {d} \in SUBSET Device OBVIOUS
  <2> QED BY <1>9, <1>15, <2>1 DEF Disconnect, Refused, ClientCrash
<1>16. CASE ServerRestart
  <2>1. Device \in SUBSET Device OBVIOUS
  <2> QED BY <1>9, <1>16, <2>1 DEF ServerRestart
<1>17. ASSUME NEW d \in Device, QueueReply(d) \/ TakeBatch(d) \/ SkipOld(d) \/ Import(d)
                                \/ RejectReplay(d) \/ Register(d) \/ SyncExpires(d)
                                \/ LookupFails(d) \/ Closed(d)
       PROVE  FramesKnown'
  BY <1>7, <1>17 DEF QueueReply, TakeBatch, SkipOld, Import, RejectReplay, Register, SyncExpires,
                     LookupFails, Closed, server
<1>18. ASSUME NEW t \in Task, NEW o \in Offer, Send(t, o) PROVE FramesKnown'
  BY <1>7, <1>18 DEF Send
<1>19. ASSUME NEW t \in Task, NEW id \in EnvelopeId, Push(t, id) PROVE FramesKnown'
  BY <1>7, <1>19 DEF Push
<1>20. ASSUME NEW r \in rows, Cleanup(r) PROVE FramesKnown' BY <1>7, <1>20 DEF Cleanup, server
<1>21. CASE UNCHANGED vars BY <1>7, <1>21 DEF vars, server
<1> QED BY <1>10, <1>11, <1>14, <1>15, <1>16, <1>17, <1>18, <1>19, <1>20, <1>21
        DEF Next, Deliver

LEMMA MailTypesStep ==
    ASSUME MailTypes, ServerTypes, ClientTypes, FramesKnown, [Next]_vars
    PROVE  MailTypes' /\ MailStep
<1>1. ASSUME NEW t \in Task, NEW o \in Offer, Send(t, o) PROVE MailTypes' /\ MailStep
  <2>1. PICK new \in SUBSET o : last + Cardinality(new) <= MaxCursor /\ Accept(new)
    BY <1>1 DEF Send
  <2> QED BY <2>1, AcceptSteps
<1>2. ASSUME NEW d \in Device, ServeAck(d) PROVE MailTypes' /\ MailStep
  <2>1. Head(up[d]) \in Range(up[d]) /\ Head(up[d]).kind = "ack"
    BY <1>2, RangeOfTail DEF ServeAck, Serves, ServerTypes
  <2>2. Head(up[d]).id \in imported[d] BY <2>1 DEF FramesKnown
  <2>3. Confirm(d, Head(up[d]).id) \/ UNCHANGED mailboxes BY <1>2 DEF ServeAck
  <2> QED BY <2>2, <2>3, ConfirmSteps, NothingStored
<1>3. ASSUME NEW r \in rows, Cleanup(r) PROVE MailTypes' /\ MailStep
  BY <1>3, DiscardSteps DEF Cleanup
<1>4. ASSUME UNCHANGED mailboxes PROVE MailTypes' /\ MailStep BY <1>4, NothingStored
<1>5. ASSUME NEW t \in Task, NEW id \in EnvelopeId, Push(t, id) PROVE UNCHANGED mailboxes
  BY <1>5 DEF Push
<1>6. ASSUME NEW d \in Device,
             \/ ServeSync(d) \/ QueueReply(d) \/ TakeBatch(d) \/ SkipOld(d) \/ Import(d)
             \/ Acknowledge(d) \/ RejectReplay(d) \/ Register(d) \/ Authenticated(d)
             \/ RequestSync(d) \/ SyncExpires(d) \/ LookupFails(d) \/ Disconnect(d)
             \/ ClientCrash(d) \/ Refused(d) \/ Closed(d)
      PROVE  UNCHANGED mailboxes
  BY <1>6 DEF ServeSync, QueueReply, TakeBatch, SkipOld, Import, Acknowledge, RejectReplay,
              Register, Authenticated, RequestSync, SyncExpires, LookupFails, Disconnect,
              ClientCrash, Refused, Closed
<1>7. ServerRestart \/ UNCHANGED vars => UNCHANGED mailboxes BY DEF ServerRestart, vars
<1> QED BY <1>1, <1>2, <1>3, <1>4, <1>5, <1>6, <1>7 DEF Next, Deliver

Typed == MailTypes /\ ServerTypes /\ ClientTypes /\ FramesKnown

LEMMA TypedInit == Init => Typed
<1> SUFFICES ASSUME Init PROVE Typed OBVIOUS
<1>1. IsFiniteSet({}) BY FS_EmptySet
<1>2. MailTypes BY <1>1, BoundAssumption DEF Init, Empty, MailTypes
<1>3. Batch({}, {}) \in Batches BY <1>2, Batching
<1>4. \A S : <<>> \in Seq(S) OBVIOUS
<1>5. ServerTypes BY <1>4 DEF Init, ServerTypes
<1>6. ClientTypes
  <2> SUFFICES ASSUME Init PROVE ClientTypes OBVIOUS
  <2>1. asked = [d \in Device |-> {}] /\ syncing = [d \in Device |-> FALSE] BY DEF Init
  <2>2. syncing = [d \in Device |-> asked[d] # {}] BY <2>1
  <2>3. asked \in [Device -> SUBSET Request] /\ \A d \in Device : Singly(asked[d])
    BY <2>1 DEF Singly
  <2>4. /\ cursor \in [Device -> 0 .. MaxCursor] /\ imported \in [Device -> SUBSET EnvelopeId]
        /\ batch \in [Device -> Batches] /\ owed \in [Device -> SUBSET EnvelopeId]
        /\ whole \in [Device -> BOOLEAN] /\ budget \in 0 .. Budget
    BY <1>3, BoundAssumption DEF Init
  <2>5. \A d \in Device : Singly(owed[d]) /\ owed[d] \subseteq imported[d] BY DEF Init, Singly
  <2> QED BY <2>2, <2>3, <2>4, <2>5 DEF ClientTypes
<1>7. FramesKnown BY DEF Init, FramesKnown, Range
<1> QED BY <1>2, <1>5, <1>6, <1>7 DEF Typed

LEMMA TypedStep == Typed /\ [Next]_vars => Typed' /\ MailStep /\ ClientStep
BY MailTypesStep, ServerTypesStep, ClientTypesStep, FramesKnownStep DEF Typed

LEMMA AlwaysTyped == Spec => []Typed
BY TypedInit, TypedStep, PTL DEF Spec

\* Rows, frames, cursors and the client's place in a batch have the types the code gives
\* them; an envelope that is still to be acknowledged is one the client has saved, and
\* there is at most one (handle_sync_batch commits and acknowledges one at a time).
THEOREM DeliveryTypeCorrect == Spec => []DeliveryTypeOK
<1>1. Typed => DeliveryTypeOK
  <2> SUFFICES ASSUME Typed PROVE DeliveryTypeOK OBVIOUS
  <2>1. Queue(up, Frames) /\ Queue(reply, Batches) /\ Queue(down, Batches)
    BY DEF Typed, ServerTypes, Queue
  <2> QED BY <2>1 DEF Typed, MailTypes, ServerTypes, ClientTypes, DeliveryTypeOK
<1> QED BY <1>1, AlwaysTyped, PTL

\* The server takes an envelope for delivered only when the device has saved it: the
\* acknowledgement follows commit_inbound (app.rs), whatever is lost or crashes.
THEOREM DeliveredIsImported == Spec => []DeliveredImported
<1>1. Init => DeliveredImported BY DEF Init, Empty, DeliveredImported
<1>2. Typed /\ DeliveredImported /\ [Next]_vars => DeliveredImported'
  <2> SUFFICES ASSUME Typed, DeliveredImported, [Next]_vars, NEW r \in rows', r.delivered
               PROVE  r.id \in imported'[r.to]
      BY DEF DeliveredImported
  <2>1. Typed' /\ MailStep /\ ClientStep BY TypedStep
  <2>2. PICK q \in rows : SameRow(q, r) /\ (q.delivered \/ r.id \in imported[r.to])
    BY <2>1 DEF MailStep
  <2>3. q.to \in Device BY DEF Typed, MailTypes, Envelope
  <2>4. r.id \in imported[r.to] BY <2>2 DEF DeliveredImported, SameRow
  <2> QED BY <2>1, <2>2, <2>3, <2>4 DEF ClientStep, SameRow
<1> QED BY <1>1, <1>2, AlwaysTyped, PTL DEF Spec

(***************************************************************************)
(* The batches on their way to a device                                    *)
(***************************************************************************)

Flying(d) == {batch[d]} \cup Range(down[d]) \cup Range(reply[d])

\* What is new on the way to d in a step: nothing, a push of rows of d, the page of a
\* sync, or the batch at hand without the row that was worked through.
Follows(d, b) ==
    \/ b \in Flying(d) \/ b.rows = {}
    \/ \E S \in SUBSET Mailbox(d) : b = Batch({}, S)
    \/ \E q \in Request, after \in 0 .. cursor[d] : b = Batch({q}, FirstPage(Later(d, after)))
    \/ /\ b.rows = batch[d].rows \ {Least(d)} /\ b.answers = batch[d].answers
       /\ batch[d].rows # {} /\ Least(d).cursor <= cursor'[d]

LEMMA FlyingStep ==
    ASSUME Typed, [Next]_vars, NEW d \in Device, NEW b,
           b = batch'[d] \/ b \in Range(down'[d]) \/ b \in Range(reply'[d])
    PROVE  Follows(d, b)
<1>0. MailTypes /\ ServerTypes /\ ClientTypes /\ FramesKnown BY DEF Typed
<1>1. ASSUME batch'[d] = batch[d], down'[d] = down[d], reply'[d] = reply[d] PROVE Follows(d, b)
  BY <1>1 DEF Follows, Flying
<1>2. ASSUME NEW t \in Task, NEW o \in Offer, Send(t, o) PROVE Follows(d, b)
  BY <1>1, <1>2 DEF Send, client
<1>3. ASSUME NEW t \in Task, NEW id \in EnvelopeId, Push(t, id) PROVE Follows(d, b)
  <2>1. PICK found : found = {r \in rows : r.id = id} OBVIOUS
  <2>2. batch'[d] = batch[d] /\ reply'[d] = reply[d] BY <1>3 DEF Push, client
  <2>3. CASE ~ \E r \in found : r.to = d
    <3>1. down'[d] = down[d] BY <1>3, <2>1, <2>3 DEF Push
    <3> QED BY <1>1, <2>2, <3>1
  <2>4. CASE \E r \in found : r.to = d
    <3>1. found \in SUBSET Mailbox(d) BY <1>0, <2>1, <2>4 DEF MailTypes, Mailbox
    <3>2. found \in SUBSET rows BY <2>1
    <3>3. Batch({}, found) \in Batches BY <1>0, <3>2, Batching
    <3>4. down'[d] = down[d] \/ down'[d] = Append(down[d], Batch({}, found))
      BY <1>3, <2>1 DEF Push
    <3>5. \A x \in Range(Append(down[d], Batch({}, found))) :
              x \in Range(down[d]) \/ x = Batch({}, found)
      BY <1>0, <3>3, RangeOfAppend DEF ServerTypes
    <3>6. b \in Flying(d) \/ b = Batch({}, found) BY <2>2, <3>4, <3>5 DEF Flying
    <3> QED BY <3>1, <3>6 DEF Follows
  <2> QED BY <2>3, <2>4
<1>4. ASSUME NEW e \in Device, ServeSync(e) PROVE Follows(d, b)
  <2>1. batch'[d] = batch[d] /\ down'[d] = down[d] BY <1>4 DEF ServeSync, client
  <2>2. CASE e # d
    <3>1. reply'[d] = reply[d] BY <1>0, <1>4, <2>2 DEF ServeSync, ServerTypes
    <3> QED BY <1>1, <2>1, <3>1
  <2>3. CASE e = d
    <3>1. PICK after : after = Head(up[d]).after OBVIOUS
    <3>2. PICK q : q = Head(up[d]).request OBVIOUS
    <3>8. reply'[d] = <<Batch({q}, FirstPage(Later(d, after)))>>
      BY <1>0, <1>4, <2>3, <3>1, <3>2 DEF ServeSync, ServerTypes
    <3>3. Head(up[d]) \in Range(up[d]) /\ Head(up[d]) \in Frames /\ Head(up[d]).kind = "sync"
      BY <1>0, <1>4, <2>3, RangeOfTail DEF ServeSync, Serves, ServerTypes
    <3>4. after \in Nat /\ q \in Request BY <3>1, <3>2, <3>3, BoundAssumption DEF Frames
    <3>5. cursor[d] \in Nat BY <1>0, BoundAssumption DEF ClientTypes
    <3>6. after \in 0 .. cursor[d] BY <1>0, <3>1, <3>3, <3>4, <3>5 DEF FramesKnown
    <3>7. \A x \in Range(reply'[d]) : x = Batch({q}, FirstPage(Later(d, after)))
      BY <3>8 DEF Range
    <3> QED BY <2>1, <3>4, <3>6, <3>7 DEF Follows, Flying
  <2> QED BY <2>2, <2>3
<1>5. ASSUME NEW e \in Device, QueueReply(e) PROVE Follows(d, b)
  <2>1. batch'[d] = batch[d] BY <1>5 DEF QueueReply, client
  <2>2. CASE e # d
    BY <1>0, <1>1, <1>5, <2>1, <2>2 DEF QueueReply, ServerTypes
  <2>3. CASE e = d
    <3>1. down'[d] = down[d] \o reply[d] /\ reply'[d] = <<>>
      BY <1>0, <1>5, <2>3 DEF QueueReply, ServerTypes
    <3>2. \A x \in Range(down[d] \o reply[d]) : x \in Range(down[d]) \/ x \in Range(reply[d])
      BY <1>0, RangeOfConcat DEF ServerTypes
    <3>3. \A x : x \notin Range(<<>>) BY DEF Range
    <3> QED BY <2>1, <3>1, <3>2, <3>3 DEF Follows, Flying
  <2> QED BY <2>2, <2>3
<1>6. ASSUME NEW e \in Device, TakeBatch(e) PROVE Follows(d, b)
  <2>1. reply'[d] = reply[d] BY <1>6 DEF TakeBatch, server
  <2>2. CASE e # d
    BY <1>0, <1>1, <1>6, <2>1, <2>2 DEF TakeBatch, ServerTypes, ClientTypes
  <2>3. CASE e = d
    <3>1. batch'[d] = Head(down[d]) /\ down'[d] = Tail(down[d]) /\ down[d] # <<>>
      BY <1>0, <1>6, <2>3 DEF TakeBatch, ServerTypes, ClientTypes
    <3>2. Head(down[d]) \in Range(down[d])
          /\ \A x \in Range(Tail(down[d])) : x \in Range(down[d])
      BY <1>0, <3>1, RangeOfTail DEF ServerTypes
    <3> QED BY <2>1, <3>1, <3>2 DEF Follows, Flying
  <2> QED BY <2>2, <2>3
<1>7. ASSUME NEW e \in Device, down' = down, reply' = reply,
             batch' = Rest(e) \/ batch' = Abandon(e) \/ batch' = batch,
             batch' = Rest(e) => batch[e].rows # {} /\ Least(e).cursor <= cursor'[e]
      PROVE  Follows(d, b)
  <2>1. CASE batch'[d] = batch[d] BY <1>1, <1>7, <2>1
  <2>2. CASE batch'[d] # batch[d]
    <3>1. e = d BY <1>0, <1>7, <2>2, Shorter
    <3>2. CASE batch' = Rest(d)
      <4>1. b \in Flying(d) \/ b = Rest(d)[d] BY <1>7, <3>2 DEF Flying
      <4> QED BY <1>0, <1>7, <3>1, <3>2, <4>1, Shorter DEF Follows
    <3>3. CASE batch' = Abandon(d)
      <4>1. b \in Flying(d) \/ b = Abandon(d)[d] BY <1>7, <3>3 DEF Flying
      <4> QED BY <1>0, <4>1, Shorter DEF Follows
    <3> QED BY <1>7, <2>2, <3>1, <3>2, <3>3
  <2> QED BY <2>1, <2>2
<1>8. ASSUME NEW e \in Device, SkipOld(e) PROVE Follows(d, b)
  <2>1. batch' = Rest(e) /\ down' = down /\ reply' = reply /\ cursor' = cursor
    BY <1>8 DEF SkipOld, server
  <2> QED BY <1>7, <1>8, <2>1 DEF SkipOld, At
<1>9. ASSUME NEW e \in Device, Import(e) PROVE Follows(d, b)
  <2>1. batch' = Rest(e) /\ down' = down /\ reply' = reply BY <1>9 DEF Import, server
  <2>2. batch[e].rows # {} BY <1>9 DEF Import, At
  <2>3. Least(e).cursor \in Nat BY <1>0, <2>2, Firsts, BoundAssumption
  <2>4. cursor'[e] = Least(e).cursor BY <1>0, <1>9 DEF Import, ClientTypes
  <2>5. Least(e).cursor <= cursor'[e] BY <2>3, <2>4
  <2> QED BY <1>7, <2>1, <2>2, <2>5
<1>10. ASSUME NEW e \in Device, Acknowledge(e) PROVE Follows(d, b)
  <2>1. down' = down /\ reply' = reply /\ (batch' = batch \/ batch' = Abandon(e))
    BY <1>10 DEF Acknowledge
  <2>2. CASE batch' = batch BY <1>1, <2>1, <2>2
  <2>3. CASE batch' = Abandon(e) /\ batch' # batch
    <3>1. CASE batch'[d] = batch[d] BY <1>1, <2>1, <3>1
    <3>2. CASE batch'[d] # batch[d]
      <4>1. b \in Flying(d) \/ b = Abandon(e)[d] BY <2>1, <2>3 DEF Flying
      <4>2. e = d BY <1>0, <2>3, <3>2, Shorter
      <4> QED BY <1>0, <4>1, <4>2, Shorter DEF Follows
    <3> QED BY <3>1, <3>2
  <2> QED BY <2>1, <2>2, <2>3
<1>11. ASSUME NEW e \in Device, batch' = Abandon(e), down' = down, reply' = reply
       PROVE  Follows(d, b)
  <2>1. CASE e # d BY <1>0, <1>1, <1>11, <2>1, Shorter
  <2>2. CASE e = d
    <3>1. b \in Flying(d) \/ b = Abandon(d)[d] BY <1>11, <2>2 DEF Flying
    <3> QED BY <1>0, <3>1, Shorter DEF Follows
  <2> QED BY <2>1, <2>2
<1>12. ASSUME NEW e \in Device, RejectReplay(e) \/ LookupFails(e) PROVE Follows(d, b)
  BY <1>11, <1>12 DEF RejectReplay, LookupFails, server
<1>13. ASSUME NEW e \in Device, ServeAck(e) \/ Register(e) \/ Authenticated(e) \/ RequestSync(e)
                                \/ SyncExpires(e) \/ Closed(e)
       PROVE  Follows(d, b)
  BY <1>1, <1>13 DEF ServeAck, Register, Authenticated, RequestSync, SyncExpires, Closed, server,
                     client
<1>14. ASSUME NEW S \in SUBSET Device, Hangup(S) PROVE reply'[d] = reply[d] \/ reply'[d] = <<>>
  BY <1>14 DEF Hangup
<1>15. \A x : x \notin Range(<<>>) BY DEF Range
<1>16. ASSUME NEW e \in Device, NEW n \in 0 .. Len(down[e]), Received(e, n)
       PROVE  \A x \in Range(down'[d]) : x \in Range(down[d])
  <2>1. CASE e # d BY <1>0, <1>16, <2>1 DEF Received, ServerTypes
  <2>2. CASE e = d
    <3>1. down'[d] = SubSeq(down[d], 1, n) BY <1>0, <1>16, <2>2 DEF Received, ServerTypes
    <3>2. down[d] \in Seq(Batches) BY <1>0 DEF ServerTypes
    <3> QED BY <1>16, <2>2, <3>1, <3>2, RangeOfPrefix
  <2> QED BY <2>1, <2>2
<1>22. \A e \in Device : 0 \in 0 .. Len(down[e])
  <2> TAKE e \in Device
  <2>1. down[e] \in Seq(Batches) BY <1>0 DEF ServerTypes
  <2> QED BY <2>1
<1>17. ASSUME NEW e \in Device, Disconnect(e) \/ Refused(e) PROVE Follows(d, b)
  <2>1. PICK n \in 0 .. Len(down[e]) : Received(e, n) BY <1>17, <1>22 DEF Disconnect, Refused
  <2>2. {e} \in SUBSET Device /\ Hangup({e}) /\ batch' = batch
    BY <1>17 DEF Disconnect, Refused, client
  <2>3. \A x \in Range(down'[d]) : x \in Range(down[d]) BY <1>16, <2>1
  <2>4. reply'[d] = reply[d] \/ reply'[d] = <<>> BY <1>14, <2>2
  <2> QED BY <1>15, <2>2, <2>3, <2>4 DEF Follows, Flying
<1>18. ASSUME NEW e \in Device, ClientCrash(e) PROVE Follows(d, b)
  <2>1. Received(e, 0) BY <1>18 DEF ClientCrash
  <2>2. {e} \in SUBSET Device /\ Hangup({e}) /\ batch' = Abandon(e) BY <1>18 DEF ClientCrash
  <2>3. \A x \in Range(down'[d]) : x \in Range(down[d]) BY <1>16, <1>22, <2>1
  <2>4. reply'[d] = reply[d] \/ reply'[d] = <<>> BY <1>14, <2>2
  <2>5. batch'[d] = batch[d] \/ batch'[d].rows = {} BY <1>0, <2>2, Shorter
  <2> QED BY <1>15, <2>3, <2>4, <2>5 DEF Follows, Flying
<1>19. CASE ServerRestart
  <2>1. Device \in SUBSET Device /\ Hangup(Device) /\ batch' = batch /\ down' = down
    BY <1>19 DEF ServerRestart, client
  <2>2. reply'[d] = reply[d] \/ reply'[d] = <<>> BY <1>14, <2>1
  <2> QED BY <1>15, <2>1, <2>2 DEF Follows, Flying
<1>20. ASSUME NEW r \in rows, Cleanup(r) PROVE Follows(d, b)
  BY <1>1, <1>20 DEF Cleanup, server, client
<1>21. CASE UNCHANGED vars BY <1>1, <1>21 DEF vars, server, client
<1> QED BY <1>2, <1>3, <1>4, <1>5, <1>6, <1>8, <1>9, <1>10, <1>12, <1>13, <1>17, <1>18, <1>19,
           <1>20, <1>21 DEF Next, Deliver

\* What is true of a batch b on its way to d, with the rows R and the last cursor l of the
\* server and the cursor c and the envelopes S of the device: its items are rows there
\* are or were, and a page of a sync leaves none of them out.
Sound(b, d, R, l, c, S) ==
    /\ \A x, y \in b.rows : x.cursor = y.cursor => x = y
    /\ \A x \in b.rows : x.cursor <= l
    /\ \A x \in b.rows, r \in R : r.cursor = x.cursor => Item(r) = x
    /\ \A x \in b.rows : x.id \in S \/ \E r \in R : r.id = x.id /\ r.to = d
    /\ b.answers # {} =>
         \A r \in R, x \in b.rows :
            r.to = d /\ c < r.cursor /\ r.cursor <= x.cursor => Item(r) \in b.rows

SoundBatches ==
    \A d \in Device : \A b \in Flying(d) : Sound(b, d, rows, last, cursor[d], imported[d])

\* A batch stays sound while the store and the client move on.
LEMMA SoundAfter ==
    ASSUME Typed, Typed', DeliveredImported, MailStep, ClientStep,
           NEW d \in Device, NEW b \in Batches, Sound(b, d, rows, last, cursor[d], imported[d])
    PROVE  Sound(b, d, rows', last', cursor'[d], imported'[d])
<1>1. /\ last \in Nat /\ last' \in Nat /\ last <= last'
      /\ \A x \in b.rows : x.cursor \in Nat
      /\ cursor[d] \in Nat /\ cursor'[d] \in Nat /\ cursor[d] <= cursor'[d]
      /\ imported[d] \subseteq imported'[d]
  BY BoundAssumption DEF Typed, MailTypes, ClientTypes, MailStep, ClientStep, Batches
<1>2. \A r \in rows' : r.cursor \in Nat BY BoundAssumption DEF Typed, MailTypes
<1>3. \A r \in rows' : r.cursor > last \/ \E q \in rows : SameRow(q, r) BY DEF MailStep
<1>4. \A q, r : SameRow(q, r) => Item(q) = Item(r) /\ q.cursor = r.cursor /\ q.to = r.to
                                                   /\ q.id = r.id
  BY DEF SameRow, Item
<1>5. \A x \in b.rows : x.cursor <= last /\ x.cursor <= last'
  BY <1>1 DEF Sound
<1>6. \A x \in b.rows, r \in rows' : r.cursor = x.cursor => Item(r) = x
  <2> SUFFICES ASSUME NEW x \in b.rows, NEW r \in rows', r.cursor = x.cursor PROVE Item(r) = x
      OBVIOUS
  <2>1. PICK q \in rows : SameRow(q, r) BY <1>1, <1>2, <1>3, <1>5
  <2> QED BY <1>4, <2>1 DEF Sound
<1>7. \A x \in b.rows : x.id \in imported'[d] \/ \E r \in rows' : r.id = x.id /\ r.to = d
  <2> SUFFICES ASSUME NEW x \in b.rows, x.id \notin imported'[d]
               PROVE  \E r \in rows' : r.id = x.id /\ r.to = d
      OBVIOUS
  <2>1. PICK q \in rows : q.id = x.id /\ q.to = d BY <1>1 DEF Sound
  <2>2. ~q.delivered BY <1>1, <2>1 DEF DeliveredImported
  <2>3. PICK r \in rows' : SameRow(q, r) BY <2>2 DEF MailStep
  <2> QED BY <2>1, <2>3 DEF SameRow
<1>8. b.answers # {} =>
         \A r \in rows', x \in b.rows :
            r.to = d /\ cursor'[d] < r.cursor /\ r.cursor <= x.cursor => Item(r) \in b.rows
  <2> SUFFICES ASSUME b.answers # {}, NEW r \in rows', NEW x \in b.rows,
                      r.to = d, cursor'[d] < r.cursor, r.cursor <= x.cursor
               PROVE  Item(r) \in b.rows
      OBVIOUS
  <2>1. PICK q \in rows : SameRow(q, r) BY <1>1, <1>2, <1>3, <1>5
  <2>2. cursor[d] < q.cursor /\ q.cursor <= x.cursor /\ q.to = d BY <1>1, <1>2, <1>4, <2>1
  <2> QED BY <1>4, <2>1, <2>2 DEF Sound
<1>9. \A x, y \in b.rows : x.cursor = y.cursor => x = y BY DEF Sound
<1> QED BY <1>5, <1>6, <1>7, <1>8, <1>9 DEF Sound

\* Rows of d that are in the mailbox now.
LEMMA SoundRows ==
    ASSUME Typed, NEW d \in Device, NEW S \in SUBSET Mailbox(d), NEW b, b = Batch({}, S)
    PROVE  b \in Batches /\ Sound(b, d, rows, last, cursor[d], imported[d])
<1>1. S \subseteq rows /\ \A r \in S : r.to = d BY DEF Mailbox
<1>2. b \in Batches /\ b.rows = {Item(r) : r \in S} /\ b.answers = {}
  BY <1>1, Batching DEF Typed
<1>3. \A r : Item(r).cursor = r.cursor /\ Item(r).id = r.id BY DEF Item
<1>4. \A q, r \in rows : q.cursor = r.cursor => q = r BY DEF Typed, MailTypes
<1>5. \A r \in rows : r.cursor <= last BY BoundAssumption DEF Typed, MailTypes
<1> QED BY <1>1, <1>2, <1>3, <1>4, <1>5 DEF Sound

\* A page: what is left out of it comes behind everything in it.
LEMMA SoundPage ==
    ASSUME Typed, NEW d \in Device, NEW q \in Request, NEW after \in 0 .. cursor[d],
           NEW b, b = Batch({q}, FirstPage(Later(d, after)))
    PROVE  b \in Batches /\ Sound(b, d, rows, last, cursor[d], imported[d])
<1>1. PICK L : L = Later(d, after) OBVIOUS
<1>2. PICK P : P = FirstPage(L) OBVIOUS
<1>3. L \subseteq rows /\ (\A r \in L : r.to = d) /\ P \subseteq L
  BY <1>1, <1>2 DEF Later, Mailbox, FirstPage
<1>4. b \in Batches /\ b.rows = {Item(r) : r \in P}
  BY <1>1, <1>2, <1>3, Batching DEF Typed
<1>5. \A r : Item(r).cursor = r.cursor /\ Item(r).id = r.id BY DEF Item
<1>6. \A p, r \in rows : p.cursor = r.cursor => p = r BY DEF Typed, MailTypes
<1>7. \A r \in rows : r.cursor \in Nat /\ r.cursor <= last
  BY BoundAssumption DEF Typed, MailTypes
<1>8. IsFiniteSet(L) BY <1>3, FS_Subset DEF Typed, MailTypes
<1>9. \A r, p \in L : p \in P /\ r.cursor <= p.cursor => r \in P
  <2> SUFFICES ASSUME NEW r \in L, NEW p \in P, r.cursor <= p.cursor PROVE r \in P
      BY <1>3
  <2>1. PICK A : A = {e \in L : e.cursor < r.cursor} OBVIOUS
  <2>2. PICK B : B = {e \in L : e.cursor < p.cursor} OBVIOUS
  <2>3. A \subseteq B BY <1>3, <1>7, <2>1, <2>2
  <2>4. IsFiniteSet(B) BY <1>8, <2>2, FS_Subset
  <2>5. IsFiniteSet(A) /\ Cardinality(A) <= Cardinality(B) BY <2>3, <2>4, FS_Subset
  <2>6. Cardinality(B) < PageSize BY <1>2, <2>2 DEF FirstPage
  <2>7. Cardinality(A) \in Nat /\ Cardinality(B) \in Nat /\ PageSize \in Nat
    BY <2>4, <2>5, FS_CardinalityType, BoundAssumption
  <2>8. Cardinality(A) < PageSize BY <2>5, <2>6, <2>7
  <2> QED BY <1>2, <2>1, <2>8 DEF FirstPage
<1>10. \A r \in rows, x \in b.rows :
          r.to = d /\ cursor[d] < r.cursor /\ r.cursor <= x.cursor => Item(r) \in b.rows
  <2> SUFFICES ASSUME NEW r \in rows, NEW p \in P,
                      r.to = d, cursor[d] < r.cursor, r.cursor <= p.cursor
               PROVE  r \in P
      BY <1>4, <1>5
  <2>1. r.cursor \in Nat /\ cursor[d] \in Nat
    BY <1>7, BoundAssumption DEF Typed, ClientTypes
  <2>2. r.cursor > after BY <2>1
  <2>3. r \in L BY <1>1, <2>2 DEF Later, Mailbox
  <2> QED BY <1>3, <1>9, <2>3
<1>11. b.rows = {Item(r) : r \in P} /\ \A r \in P : r \in rows /\ r.to = d BY <1>3, <1>4
<1>16. \A x \in b.rows : \E r \in P : r \in rows /\ r.to = d /\ x = Item(r) BY <1>11
<1>12. \A x, y \in b.rows : x.cursor = y.cursor => x = y
  <2> SUFFICES ASSUME NEW x \in b.rows, NEW y \in b.rows, x.cursor = y.cursor PROVE x = y
      OBVIOUS
  <2>1. PICK p \in rows : x = Item(p) BY <1>16
  <2>2. PICK r \in rows : y = Item(r) BY <1>16
  <2>3. p.cursor = r.cursor BY <1>5, <2>1, <2>2
  <2>4. p = r BY <1>6, <2>3
  <2> QED BY <2>1, <2>2, <2>4
<1>13. \A x \in b.rows : x.cursor <= last BY <1>5, <1>7, <1>16
<1>14. \A x \in b.rows, r \in rows : r.cursor = x.cursor => Item(r) = x
  <2> SUFFICES ASSUME NEW x \in b.rows, NEW r \in rows, r.cursor = x.cursor PROVE Item(r) = x
      OBVIOUS
  <2>1. PICK p \in rows : x = Item(p) BY <1>16
  <2>2. p.cursor = r.cursor BY <1>5, <2>1
  <2> QED BY <1>6, <2>1, <2>2
<1>15. \A x \in b.rows : x.id \in imported[d] \/ \E r \in rows : r.id = x.id /\ r.to = d
  <2> SUFFICES ASSUME NEW x \in b.rows PROVE \E r \in rows : r.id = x.id /\ r.to = d
      OBVIOUS
  <2>1. PICK r \in rows : r.to = d /\ x = Item(r) BY <1>16
  <2>2. x.id = r.id BY <2>1 DEF Item
  <2> QED BY <2>1, <2>2
<1> QED BY <1>4, <1>10, <1>12, <1>13, <1>14, <1>15 DEF Sound

LEMMA SoundStep ==
    ASSUME Typed, SoundBatches, DeliveredImported, [Next]_vars
    PROVE  SoundBatches'
<1> SUFFICES ASSUME NEW d \in Device, NEW b,
                    b = batch'[d] \/ b \in Range(down'[d]) \/ b \in Range(reply'[d])
             PROVE  Sound(b, d, rows', last', cursor'[d], imported'[d])
    BY DEF SoundBatches, Flying
<1>1. Typed' /\ MailStep /\ ClientStep BY TypedStep
<1>2. \A a \in Batches : Sound(a, d, rows, last, cursor[d], imported[d])
                            => Sound(a, d, rows', last', cursor'[d], imported'[d])
  BY <1>1, SoundAfter
<1>3. Flying(d) \subseteq Batches
  <2>1. batch[d] \in Batches /\ down[d] \in Seq(Batches) /\ reply[d] \in Seq(Batches)
    BY DEF Typed, ServerTypes, ClientTypes
  <2>2. \A s \in Seq(Batches) : Range(s) \subseteq Batches BY DEF Range
  <2> QED BY <2>1, <2>2 DEF Flying
<1>4. Follows(d, b) BY FlyingStep
<1>5. CASE b \in Flying(d) BY <1>2, <1>3, <1>5 DEF SoundBatches
<1>6. CASE b.rows = {} BY <1>6 DEF Sound
<1>7. CASE \E S \in SUBSET Mailbox(d) : b = Batch({}, S) BY <1>2, <1>7, SoundRows
<1>8. CASE \E q \in Request, after \in 0 .. cursor[d] :
             b = Batch({q}, FirstPage(Later(d, after)))
  BY <1>2, <1>8, SoundPage
<1>9. CASE /\ b.rows = batch[d].rows \ {Least(d)} /\ b.answers = batch[d].answers
           /\ batch[d].rows # {} /\ Least(d).cursor <= cursor'[d]
  <2>1. PICK a : a = batch[d] OBVIOUS
  <2>2. Sound(a, d, rows', last', cursor'[d], imported'[d])
    BY <1>2, <1>3, <2>1 DEF SoundBatches, Flying
  <2>3. PICK x : x = Least(d) OBVIOUS
  <2>4. b.rows = a.rows \ {x} /\ b.answers = a.answers /\ x.cursor <= cursor'[d]
    BY <1>9, <2>1, <2>3
  <2>5. x.cursor \in Nat BY <1>9, <2>3, Firsts, BoundAssumption DEF Typed
  <2>6. \A r \in rows' : cursor'[d] < r.cursor => Item(r) # x
    BY <1>1, <2>4, <2>5, BoundAssumption DEF Typed, MailTypes, ClientTypes, Item
  <2> QED BY <2>2, <2>4, <2>6 DEF Sound
<1> QED BY <1>4, <1>5, <1>6, <1>7, <1>8, <1>9 DEF Follows

LEMMA AlwaysSound == Spec => [](DeliveredImported /\ SoundBatches)
<1>1. Init => SoundBatches
  <2> SUFFICES ASSUME Init, NEW d \in Device, NEW b \in Flying(d)
               PROVE  Sound(b, d, rows, last, cursor[d], imported[d])
      BY DEF SoundBatches
  <2>1. b.rows = {} BY DEF Init, Flying, Range, Batch
  <2> QED BY <2>1 DEF Sound
<1>2. Typed /\ DeliveredImported /\ SoundBatches /\ [Next]_vars => SoundBatches'
  BY SoundStep
<1> QED BY <1>1, <1>2, AlwaysTyped, DeliveredIsImported, PTL DEF Spec

\* Working through the reply of a sync leaves no row of the mailbox behind: the cursor
\* passes exactly the envelope that is imported with it (handle_sync_batch, and the
\* ORDER BY and LIMIT of Db::sync).
THEOREM SyncsSkipNothing == Spec => SyncSkipsNothing
<1>1. Typed /\ DeliveredImported /\ SoundBatches /\ [Next]_vars =>
        \A d \in Device : batch[d].answers # {} => \A r \in Passed(d) : r.id \in imported'[d]
  <2> SUFFICES ASSUME Typed, SoundBatches, [Next]_vars,
                      NEW d \in Device, batch[d].answers # {}, NEW r \in Passed(d)
               PROVE  r.id \in imported'[d]
      OBVIOUS
  <2>1. r \in rows /\ r.to = d /\ r.cursor \in (cursor[d] + 1) .. cursor'[d]
    BY DEF Passed, Mailbox
  <2>2. cursor[d] \in Nat /\ cursor'[d] \in Nat /\ r.cursor \in Nat
    <3>1. cursor[d] \in Nat /\ r.cursor \in Nat
      BY <2>1, BoundAssumption DEF Typed, ClientTypes, MailTypes, Envelope
    <3>2. Typed' BY TypedStep
    <3>3. cursor'[d] \in Nat BY <3>2, BoundAssumption DEF Typed, ClientTypes
    <3> QED BY <3>1, <3>3
  <2>3. cursor'[d] # cursor[d] BY <2>1, <2>2
  <2>4. Import(d)
    <3>1. ASSUME NEW e \in Device, Import(e) PROVE e = d
      BY <2>3, <3>1 DEF Import, Typed, ClientTypes
    <3>2. ASSUME cursor' = cursor PROVE FALSE BY <2>3, <3>2
    <3>3. ASSUME NEW e \in Device,
                 \/ ServeSync(e) \/ QueueReply(e) \/ ServeAck(e) \/ TakeBatch(e) \/ SkipOld(e)
                 \/ Acknowledge(e) \/ RejectReplay(e) \/ Register(e) \/ Authenticated(e)
                 \/ RequestSync(e) \/ SyncExpires(e) \/ LookupFails(e) \/ Disconnect(e)
                 \/ ClientCrash(e) \/ Refused(e) \/ Closed(e)
          PROVE  cursor' = cursor
      BY <3>3 DEF ServeSync, QueueReply, ServeAck, TakeBatch, SkipOld, Acknowledge, RejectReplay,
                  Register, Authenticated, RequestSync, SyncExpires, LookupFails, Disconnect,
                  ClientCrash, Refused, Closed, client
    <3>4. ASSUME NEW t \in Task, NEW o \in Offer, Send(t, o) PROVE cursor' = cursor
      BY <3>4 DEF Send, client
    <3>5. ASSUME NEW t \in Task, NEW id \in EnvelopeId, Push(t, id) PROVE cursor' = cursor
      BY <3>5 DEF Push, client
    <3>6. ASSUME NEW q \in rows, Cleanup(q) PROVE cursor' = cursor BY <3>6 DEF Cleanup, client
    <3>7. ServerRestart \/ UNCHANGED vars => cursor' = cursor BY DEF ServerRestart, vars, client
    <3> QED BY <3>1, <3>2, <3>3, <3>4, <3>5, <3>6, <3>7 DEF Next, Deliver
  <2>5. PICK x : x = Least(d) OBVIOUS
  <2>6. /\ x \in batch[d].rows /\ \A q \in batch[d].rows : x.cursor <= q.cursor
        /\ x.cursor \in Nat
    BY <2>4, <2>5, Firsts, BoundAssumption DEF Import, At, Typed
  <2>7. cursor'[d] = x.cursor /\ imported'[d] = imported[d] \cup {x.id}
    BY <2>4, <2>5 DEF Import, Typed, ClientTypes
  <2>8. Sound(batch[d], d, rows, last, cursor[d], imported[d]) BY DEF SoundBatches, Flying
  <2>9. cursor[d] < r.cursor /\ r.cursor <= x.cursor BY <2>1, <2>2, <2>6, <2>7
  <2>10. Item(r) \in batch[d].rows BY <2>1, <2>6, <2>8, <2>9 DEF Sound
  <2>11. x.cursor <= Item(r).cursor /\ Item(r).cursor = r.cursor BY <2>6, <2>10 DEF Item
  <2>12. r.cursor = x.cursor BY <2>2, <2>6, <2>9, <2>11
  <2>13. Item(r) = x BY <2>1, <2>6, <2>8, <2>12 DEF Sound
  <2> QED BY <2>7, <2>13 DEF Item
<1> QED BY <1>1, AlwaysTyped, AlwaysSound, PTL DEF Spec, SyncSkipsNothing

\* The server keeps an envelope until the device it is for has saved it, and the device
\* takes each envelope once, over lost connections, repeated pushes, crashes and cleanups
\* (SendEnvelopes, AckEnvelope, cleanup_delivered_envelopes, commit_inbound).
THEOREM DeliveryHandsOff == Spec => HandsOff
<1>1. Init => H!Init BY DEF Init, Empty, Held, H!Init
<1>2. Typed /\ DeliveredImported /\ SoundBatches /\ [Next]_vars => [H!Next]_<<Held, imported>>
  <2> SUFFICES ASSUME Typed, DeliveredImported, SoundBatches, [Next]_vars
               PROVE  [H!Next]_<<Held, imported>>
      OBVIOUS
  <2>1. Typed' /\ MailStep BY TypedStep
  <2>2. ASSUME NEW S, S = Held' PROVE S \in SUBSET [id : EnvelopeId, to : Device]
    BY <2>1, <2>2 DEF Held, Typed, MailTypes, Envelope
  <2>3. \A q, r : SameRow(q, r) => [id |-> q.id, to |-> q.to] = [id |-> r.id, to |-> r.to]
    BY DEF SameRow
  <2>4. ASSUME imported' = imported, rows \subseteq rows' PROVE [H!Next]_<<Held, imported>>
    <3>1. Held \subseteq Held' BY <2>4 DEF Held
    <3> QED BY <2>2, <2>4, <3>1 DEF H!Next, H!Hold
  <2>5. ASSUME imported' = imported, \A r \in rows' : \E q \in rows : SameRow(q, r)
        PROVE  [H!Next]_<<Held, imported>>
    <3>1. Held' \subseteq Held
      <4> SUFFICES ASSUME NEW r \in rows' PROVE [id |-> r.id, to |-> r.to] \in Held BY DEF Held
      <4>1. PICK q \in rows : SameRow(q, r) BY <2>5
      <4>2. [id |-> q.id, to |-> q.to] = [id |-> r.id, to |-> r.to] BY <2>3, <4>1
      <4> QED BY <4>1, <4>2 DEF Held
    <3>2. \A e \in Held \ Held' : e.id \in imported[e.to]
      <4> SUFFICES ASSUME NEW e \in Held, e \notin Held' PROVE e.id \in imported[e.to]
          OBVIOUS
      <4>1. PICK q \in rows : e = [id |-> q.id, to |-> q.to] BY DEF Held
      <4>2. \A r \in rows' : ~SameRow(q, r) BY <2>3, <4>1 DEF Held
      <4>3. q.delivered BY <2>1, <4>2 DEF MailStep
      <4> QED BY <4>1, <4>3 DEF DeliveredImported
    <3> QED BY <2>5, <3>1, <3>2 DEF H!Next, H!Release
  <2>6. ASSUME imported' = imported, rows' = rows PROVE [H!Next]_<<Held, imported>>
    BY <2>6, <2>4
  <2>7. ASSUME NEW t \in Task, NEW o \in Offer, Send(t, o) PROVE [H!Next]_<<Held, imported>>
    <3>1. rows \subseteq rows' /\ imported' = imported BY <2>7 DEF Send, Accept, client
    <3> QED BY <2>4, <3>1
  <2>8. ASSUME NEW d \in Device, Import(d) PROVE [H!Next]_<<Held, imported>>
    <3>1. PICK x : x = Least(d) OBVIOUS
    <3>2. x \in batch[d].rows BY <2>8, <3>1, Firsts DEF Import, At, Typed
    <3>3. Sound(batch[d], d, rows, last, cursor[d], imported[d]) BY DEF SoundBatches, Flying
    <3>4. x.id \notin imported[d] BY <2>8, <3>1 DEF Import
    <3>5. PICK r \in rows : r.id = x.id /\ r.to = d BY <3>2, <3>3, <3>4 DEF Sound
    <3>6. PICK e : e = [id |-> r.id, to |-> r.to] OBVIOUS
    <3>7. e \in Held /\ e.id = x.id /\ e.to = d BY <3>5, <3>6 DEF Held
    <3>8. Held' = Held BY <2>8 DEF Import, mailboxes, Held
    <3>9. imported' = [imported EXCEPT ![d] = @ \cup {x.id}] BY <2>8, <3>1 DEF Import
    <3> QED BY <3>4, <3>7, <3>8, <3>9 DEF H!Next, H!Receive
  <2>9. ASSUME NEW d \in Device, ServeAck(d) PROVE [H!Next]_<<Held, imported>>
    <3>1. imported' = imported BY <2>9 DEF ServeAck, client
    <3>2. CASE UNCHANGED mailboxes BY <2>6, <3>1, <3>2 DEF mailboxes
    <3>3. CASE Confirm(d, Head(up[d]).id)
      <4>1. PICK p \in rows : rows' = (rows \ {p}) \cup {[p EXCEPT !.delivered = TRUE]}
        BY <3>3 DEF Confirm, Mailbox
      <4>2. SameRow(p, [p EXCEPT !.delivered = TRUE])
        BY DEF Typed, MailTypes, Envelope, SameRow
      <4>3. \A r \in rows' : \E q \in rows : SameRow(q, r) BY <4>1, <4>2 DEF SameRow
      <4> QED BY <2>5, <3>1, <4>3
    <3> QED BY <2>9, <3>2, <3>3 DEF ServeAck
  <2>10. ASSUME NEW r \in rows, Cleanup(r) PROVE [H!Next]_<<Held, imported>>
    BY <2>5, <2>10 DEF Cleanup, Discard, client, SameRow
  <2>11. ASSUME NEW d \in Device,
                \/ ServeSync(d) \/ QueueReply(d) \/ TakeBatch(d) \/ SkipOld(d) \/ Acknowledge(d)
                \/ RejectReplay(d) \/ Register(d) \/ Authenticated(d) \/ RequestSync(d)
                \/ SyncExpires(d) \/ LookupFails(d) \/ Disconnect(d) \/ ClientCrash(d)
                \/ Refused(d) \/ Closed(d)
         PROVE  [H!Next]_<<Held, imported>>
    BY <2>6, <2>11 DEF ServeSync, QueueReply, TakeBatch, SkipOld, Acknowledge, RejectReplay,
                       Register, Authenticated, RequestSync, SyncExpires, LookupFails,
                       Disconnect, ClientCrash, Refused, Closed, client, mailboxes
  <2>12. ASSUME NEW t \in Task, NEW id \in EnvelopeId, Push(t, id)
         PROVE  [H!Next]_<<Held, imported>>
    BY <2>6, <2>12 DEF Push, client, mailboxes
  <2>13. ServerRestart \/ UNCHANGED vars => [H!Next]_<<Held, imported>>
    BY <2>6 DEF ServerRestart, vars, client, mailboxes
  <2> QED BY <2>7, <2>8, <2>9, <2>10, <2>11, <2>12, <2>13 DEF Next, Deliver
<1> QED BY <1>1, <1>2, AlwaysTyped, AlwaysSound, PTL DEF Spec, HandsOff, H!Handoff

(***************************************************************************)
(* Pushes close every gap                                                  *)
(***************************************************************************)

\* A row is behind the cursor c, in one of the batches F, or about to be pushed.
Covered(r, c, F, P) ==
    \/ r.cursor <= c
    \/ \E b \in F : Item(r) \in b.rows
    \/ \E t \in Task : r.id \in P[t]

\* NoGap, by cursor and id: the id alone may also be that of an earlier row.
GapFree ==
    \A d \in Device : link[d] = "on" /\ whole[d] =>
        \A r \in Mailbox(d) : Covered(r, cursor[d], Flying(d), pushing)

FlyingNext(d) == {batch'[d]} \cup Range(down'[d]) \cup Range(reply'[d])

\* What is on its way to d stays there or is worked through, and what is to be pushed
\* will be, or is on its way now.
Carried(d) ==
    /\ \A b \in Flying(d) : \A x \in b.rows :
          x.cursor <= cursor'[d] \/ \E a \in FlyingNext(d) : x \in a.rows
    /\ \A t \in Task : \A id \in pushing[t] :
          \/ \E u \in Task : id \in pushing'[u]
          \/ \A r \in Mailbox(d) : r.id = id => \E a \in FlyingNext(d) : Item(r) \in a.rows

LEMMA CarriedOn ==
    ASSUME Typed, Typed', ClientStep, GapFree, NEW d \in Device, link[d] = "on", whole[d],
           Carried(d), NEW r \in rows', r.to = d, \E q \in rows : SameRow(q, r)
    PROVE  Covered(r, cursor'[d], FlyingNext(d), pushing')
<1>1. PICK q \in rows : SameRow(q, r) OBVIOUS
<1>2. q \in Mailbox(d) /\ Item(q) = Item(r) /\ q.id = r.id /\ q.cursor = r.cursor
  BY <1>1 DEF SameRow, Item, Mailbox
<1>3. Covered(q, cursor[d], Flying(d), pushing) BY <1>2 DEF GapFree
<1>4. CASE q.cursor <= cursor[d]
  <2>1. cursor[d] \in Nat /\ q.cursor \in Nat BY BoundAssumption DEF Typed, ClientTypes, MailTypes
  <2>2. cursor'[d] \in Nat BY BoundAssumption DEF Typed, ClientTypes
  <2>3. cursor[d] <= cursor'[d] BY DEF ClientStep
  <2> QED BY <1>2, <1>4, <2>1, <2>2, <2>3 DEF Covered
<1>5. ASSUME NEW b \in Flying(d), Item(q) \in b.rows
      PROVE  Covered(r, cursor'[d], FlyingNext(d), pushing')
  <2>1. Item(q).cursor = r.cursor BY <1>2 DEF Item
  <2> QED BY <1>2, <1>5, <2>1 DEF Carried, Covered
<1>6. ASSUME NEW t \in Task, q.id \in pushing[t]
      PROVE  Covered(r, cursor'[d], FlyingNext(d), pushing')
  BY <1>2, <1>6 DEF Carried, Covered
<1> QED BY <1>3, <1>4, <1>5, <1>6 DEF Covered

\* What a step means for a device whose connection stays up and whose sync is answered.
LEMMA CarriedStep ==
    ASSUME Typed, [Next]_vars, NEW d \in Device, link'[d] = "on", whole'[d], whole[d]
    PROVE  link[d] = "on" /\ Carried(d)
<1>0. MailTypes /\ ServerTypes /\ ClientTypes BY DEF Typed
<1>1. ASSUME batch'[d] = batch[d], down'[d] = down[d], reply'[d] = reply[d],
             \A t \in Task : pushing[t] \subseteq pushing'[t]
      PROVE  Carried(d)
  BY <1>1 DEF Carried, Flying, FlyingNext
<1>2. ASSUME NEW t \in Task, NEW o \in Offer, Send(t, o) PROVE link[d] = "on" /\ Carried(d)
  <2>1. \A u \in Task : pushing[u] \subseteq pushing'[u]
    BY <1>0, <1>2 DEF Send, ServerTypes
  <2> QED BY <1>1, <1>2, <2>1 DEF Send, client
<1>3. ASSUME NEW t \in Task, NEW id \in EnvelopeId, Push(t, id)
      PROVE  link[d] = "on" /\ Carried(d)
  <2>1. PICK found : found = {r \in rows : r.id = id} OBVIOUS
  <2>2. batch'[d] = batch[d] /\ reply'[d] = reply[d] /\ link[d] = "on"
    BY <1>3 DEF Push, client
  <2>3. found \in SUBSET rows BY <2>1
  <2>4. Batch({}, found) \in Batches /\ Batch({}, found).rows = {Item(r) : r \in found}
    BY <1>0, <2>3, Batching
  <2>5. \A u \in Task : \A i \in pushing[u] : i \in pushing'[u] \/ i = id
    BY <1>0, <1>3 DEF Push, ServerTypes
  <2>6. down'[d] = IF \E r \in found : r.to = d
                   THEN Append(down[d], Batch({}, found)) ELSE down[d]
    BY <1>3, <2>1, <2>2 DEF Push
  <2>7. /\ \A x \in Range(down[d]) : x \in Range(Append(down[d], Batch({}, found)))
        /\ Batch({}, found) \in Range(Append(down[d], Batch({}, found)))
    BY <1>0, <2>4, RangeOfAppend DEF ServerTypes
  <2>8. \A b \in Flying(d) : b \in FlyingNext(d) BY <2>2, <2>6, <2>7 DEF Flying, FlyingNext
  <2>9. \A r \in Mailbox(d) : r.id = id => \E a \in FlyingNext(d) : Item(r) \in a.rows
    <3> SUFFICES ASSUME NEW r \in Mailbox(d), r.id = id
                 PROVE  \E a \in FlyingNext(d) : Item(r) \in a.rows
        OBVIOUS
    <3>1. r \in found /\ r.to = d BY <2>1 DEF Mailbox
    <3>2. Batch({}, found) \in FlyingNext(d) BY <2>6, <2>7, <3>1 DEF FlyingNext
    <3> QED BY <2>4, <3>1, <3>2
  <2> QED BY <2>2, <2>5, <2>8, <2>9 DEF Carried
<1>4. ASSUME NEW e \in Device, ServeSync(e) PROVE link[d] = "on" /\ Carried(d)
  <2>1. /\ batch'[d] = batch[d] /\ down'[d] = down[d] /\ link[d] = "on" /\ pushing' = pushing
        /\ (e = d => reply[d] = <<>>) /\ (e # d => reply'[d] = reply[d])
    BY <1>0, <1>4 DEF ServeSync, Serves, client, ServerTypes
  <2>2. \A x : x \notin Range(<<>>) BY DEF Range
  <2>3. \A b \in Flying(d) : b \in FlyingNext(d) BY <2>1, <2>2 DEF Flying, FlyingNext
  <2> QED BY <2>1, <2>3 DEF Carried
<1>5. ASSUME NEW e \in Device, QueueReply(e) PROVE link[d] = "on" /\ Carried(d)
  <2>1. batch'[d] = batch[d] /\ link[d] = "on" /\ pushing' = pushing
    BY <1>5 DEF QueueReply, client
  <2>2. CASE e # d BY <1>0, <1>1, <1>5, <2>1, <2>2 DEF QueueReply, ServerTypes
  <2>3. CASE e = d
    <3>1. down'[d] = down[d] \o reply[d] BY <1>0, <1>5, <2>3 DEF QueueReply, ServerTypes
    <3>2. \A x : x \in Range(down[d] \o reply[d]) <=> x \in Range(down[d]) \/ x \in Range(reply[d])
      BY <1>0, RangeOfConcat DEF ServerTypes
    <3>3. \A b \in Flying(d) : b \in FlyingNext(d) BY <2>1, <3>1, <3>2 DEF Flying, FlyingNext
    <3> QED BY <2>1, <3>3 DEF Carried
  <2> QED BY <2>2, <2>3
<1>6. ASSUME NEW e \in Device, TakeBatch(e) PROVE link[d] = "on" /\ Carried(d)
  <2>1. reply'[d] = reply[d] /\ link[d] = "on" /\ pushing' = pushing
    BY <1>6 DEF TakeBatch, server
  <2>2. CASE e # d BY <1>0, <1>1, <1>6, <2>1, <2>2 DEF TakeBatch, ServerTypes, ClientTypes
  <2>3. CASE e = d
    <3>1. /\ batch'[d] = Head(down[d]) /\ down'[d] = Tail(down[d]) /\ down[d] # <<>>
          /\ batch[d].rows = {}
      BY <1>0, <1>6, <2>3 DEF TakeBatch, ServerTypes, ClientTypes, Idle
    <3>2. \A x \in Range(down[d]) : x = Head(down[d]) \/ x \in Range(Tail(down[d]))
      BY <1>0, <3>1, RangeOfTail DEF ServerTypes
    <3>3. \A b \in Flying(d) : b.rows = {} \/ b \in FlyingNext(d)
      BY <2>1, <3>1, <3>2 DEF Flying, FlyingNext
    <3> QED BY <2>1, <3>3 DEF Carried
  <2> QED BY <2>2, <2>3
<1>7. ASSUME NEW e \in Device, SkipOld(e) \/ Import(e) PROVE link[d] = "on" /\ Carried(d)
  <2>1. /\ batch' = Rest(e) /\ down' = down /\ reply' = reply /\ link' = link
        /\ pushing' = pushing
    BY <1>7 DEF SkipOld, Import, server
  <2>2. CASE e # d BY <1>0, <1>1, <2>1, <2>2, Shorter
  <2>3. CASE e = d
    <3>1. batch[d].rows # {} BY <1>7, <2>3 DEF SkipOld, Import, At
    <3>2. Least(d).cursor \in Nat BY <1>0, <3>1, Firsts, BoundAssumption
    <3>3. Least(d).cursor <= cursor'[d]
      <4>1. CASE SkipOld(d) BY <4>1 DEF SkipOld
      <4>2. CASE Import(d)
        <5>1. cursor'[d] = Least(d).cursor BY <1>0, <4>2 DEF Import, ClientTypes
        <5> QED BY <3>2, <5>1
      <4> QED BY <1>7, <2>3, <4>1, <4>2
    <3>4. batch'[d].rows = batch[d].rows \ {Least(d)} BY <1>0, <2>1, <2>3, Shorter
    <3>5. \A b \in Flying(d) : b = batch[d] \/ b \in FlyingNext(d)
      BY <2>1 DEF Flying, FlyingNext
    <3>6. batch'[d] \in FlyingNext(d) BY DEF FlyingNext
    <3>7. \A b \in Flying(d) : \A x \in b.rows :
             x.cursor <= cursor'[d] \/ \E a \in FlyingNext(d) : x \in a.rows
      BY <3>3, <3>4, <3>5, <3>6
    <3> QED BY <2>1, <3>7 DEF Carried
  <2> QED BY <2>2, <2>3
<1>8. ASSUME NEW e \in Device, Acknowledge(e) PROVE link[d] = "on" /\ Carried(d)
  <2>1. down' = down /\ reply' = reply /\ link' = link /\ pushing' = pushing
        /\ (link[e] = "on" => batch' = batch) /\ (batch' = batch \/ batch' = Abandon(e))
    BY <1>8 DEF Acknowledge
  <2>2. batch'[d] = batch[d] BY <1>0, <2>1, Shorter
  <2> QED BY <1>1, <2>1, <2>2
<1>9. ASSUME NEW e \in Device, RejectReplay(e) \/ LookupFails(e)
      PROVE  link[d] = "on" /\ Carried(d)
  <2>1. /\ down' = down /\ reply' = reply /\ link' = link /\ pushing' = pushing
        /\ batch' = Abandon(e) /\ whole' = [whole EXCEPT ![e] = FALSE]
    BY <1>9 DEF RejectReplay, LookupFails, server
  <2>2. e # d BY <1>0, <2>1 DEF ClientTypes
  <2> QED BY <1>0, <1>1, <2>1, <2>2, Shorter
<1>18. ASSUME NEW e \in Device, Closed(e) PROVE link[d] = "on" /\ Carried(d)
  <2>1. e # d BY <1>0, <1>18 DEF Closed, ServerTypes
  <2> QED BY <1>0, <1>1, <1>18, <2>1 DEF Closed, ServerTypes
<1>10. ASSUME NEW e \in Device, ServeAck(e) \/ RequestSync(e) \/ SyncExpires(e)
       PROVE  link[d] = "on" /\ Carried(d)
  BY <1>1, <1>10 DEF ServeAck, RequestSync, SyncExpires, server, client
<1>11. ASSUME NEW e \in Device, Register(e) PROVE link[d] = "on" /\ Carried(d)
  <2>1. e # d BY <1>0, <1>11 DEF Register, ServerTypes
  <2> QED BY <1>0, <1>1, <1>11, <2>1 DEF Register, client, ServerTypes
<1>12. ASSUME NEW e \in Device, Authenticated(e) PROVE link[d] = "on" /\ Carried(d)
  <2>1. e # d BY <1>0, <1>12 DEF Authenticated, ClientTypes
  <2> QED BY <1>0, <1>1, <1>12, <2>1 DEF Authenticated, ServerTypes
<1>13. ASSUME NEW e \in Device, Hangup({e}), NEW n \in 0 .. Len(down[e]), Received(e, n),
              batch' = batch \/ batch' = Abandon(e), pushing' = pushing, e # d, link'[d] = link[d]
       PROVE  link[d] = "on" /\ Carried(d)
  <2>1. reply'[d] = reply[d] BY <1>13 DEF Hangup
  <2>2. down'[d] = down[d] BY <1>0, <1>13 DEF Received, ServerTypes
  <2>3. batch'[d] = batch[d] BY <1>0, <1>13, Shorter
  <2> QED BY <1>1, <1>13, <2>1, <2>2, <2>3
<1>14. ASSUME NEW e \in Device, Disconnect(e) \/ Refused(e) \/ ClientCrash(e)
       PROVE  link[d] = "on" /\ Carried(d)
  <2>1. down[e] \in Seq(Batches) BY <1>0 DEF ServerTypes
  <2>2. PICK n \in 0 .. Len(down[e]) : Received(e, n)
    BY <1>14, <2>1 DEF Disconnect, Refused, ClientCrash
  <2>3. Hangup({e}) /\ pushing' = pushing /\ (batch' = batch \/ batch' = Abandon(e))
    BY <1>14 DEF Disconnect, Refused, ClientCrash, client
  <2>4. link'[e] # "on" /\ (e # d => link'[d] = link[d])
    BY <1>0, <1>14 DEF Disconnect, Refused, ClientCrash, Broken, ServerTypes
  <2> QED BY <1>13, <2>2, <2>3, <2>4
<1>15. ServerRestart => FALSE BY DEF ServerRestart, Broken
<1>16. ASSUME NEW r \in rows, Cleanup(r) PROVE link[d] = "on" /\ Carried(d)
  BY <1>1, <1>16 DEF Cleanup, server, client
<1>17. CASE UNCHANGED vars BY <1>1, <1>17 DEF vars, server, client
<1> QED BY <1>2, <1>3, <1>4, <1>5, <1>6, <1>7, <1>8, <1>9, <1>10, <1>11, <1>12, <1>14, <1>15,
           <1>16, <1>17, <1>18 DEF Next, Deliver

\* Only an accepted request adds rows, and its task is to push them next.
LEMMA NewIsPushed ==
    ASSUME Typed, [Next]_vars, NEW r \in rows', ~ \E q \in rows : SameRow(q, r)
    PROVE  \E t \in Task : r.id \in pushing'[t]
<1>1. ASSUME NEW t \in Task, NEW o \in Offer, Send(t, o)
      PROVE  \E u \in Task : r.id \in pushing'[u]
  <2>1. PICK new \in SUBSET o : Accept(new) BY <1>1 DEF Send
  <2>2. PICK place : rows' = rows \cup {Fresh(e, place[e]) : e \in new} BY <2>1 DEF Accept
  <2>3. r \notin rows BY DEF SameRow
  <2>4. PICK e \in new : r = Fresh(e, place[e]) BY <2>2, <2>3
  <2>5. r.id = e.id /\ e \in o BY <2>4 DEF Fresh
  <2>6. pushing'[t] = {x.id : x \in o} BY <1>1 DEF Send, Typed, ServerTypes
  <2> QED BY <2>5, <2>6
<1>2. ASSUME rows' \subseteq rows PROVE FALSE BY <1>2 DEF SameRow
<1>3. ASSUME NEW d \in Device, ServeAck(d) PROVE FALSE
  <2>1. CASE UNCHANGED mailboxes BY <1>2, <2>1 DEF mailboxes
  <2>2. CASE Confirm(d, Head(up[d]).id)
    <3>1. PICK p \in rows : rows' = (rows \ {p}) \cup {[p EXCEPT !.delivered = TRUE]}
      BY <2>2 DEF Confirm, Mailbox
    <3>2. SameRow(p, [p EXCEPT !.delivered = TRUE])
      BY DEF Typed, MailTypes, Envelope, SameRow
    <3> QED BY <3>1, <3>2 DEF SameRow
  <2> QED BY <1>3, <2>1, <2>2 DEF ServeAck
<1>4. ASSUME NEW q \in rows, Cleanup(q) PROVE FALSE BY <1>2, <1>4 DEF Cleanup, Discard
<1>5. ASSUME NEW t \in Task, NEW id \in EnvelopeId, Push(t, id) PROVE FALSE
  BY <1>2, <1>5 DEF Push, mailboxes
<1>6. ASSUME NEW d \in Device,
             \/ ServeSync(d) \/ QueueReply(d) \/ TakeBatch(d) \/ SkipOld(d) \/ Import(d)
             \/ Acknowledge(d) \/ RejectReplay(d) \/ Register(d) \/ Authenticated(d)
             \/ RequestSync(d) \/ SyncExpires(d) \/ LookupFails(d) \/ Disconnect(d)
             \/ ClientCrash(d) \/ Refused(d) \/ Closed(d)
      PROVE  FALSE
  BY <1>2, <1>6 DEF ServeSync, QueueReply, TakeBatch, SkipOld, Import, Acknowledge, RejectReplay,
                    Register, Authenticated, RequestSync, SyncExpires, LookupFails, Disconnect,
                    ClientCrash, Refused, Closed, mailboxes
<1>7. ServerRestart \/ UNCHANGED vars => FALSE BY <1>2 DEF ServerRestart, vars, mailboxes
<1> QED BY <1>1, <1>3, <1>4, <1>5, <1>6, <1>7 DEF Next, Deliver

\* A sync that leaves nothing out: its reply holds all that is beyond the cursor.
LEMMA SyncedStep ==
    ASSUME Typed, [Next]_vars, NEW d \in Device, whole'[d], ~whole[d], NEW r \in rows', r.to = d
    PROVE  Covered(r, cursor'[d], FlyingNext(d), pushing')
<1>0. MailTypes /\ ServerTypes /\ ClientTypes /\ FramesKnown BY DEF Typed
<1>1. ASSUME NEW e \in Device, ServeSync(e) PROVE e = d BY <1>0, <1>1 DEF ServeSync, ClientTypes
<1>2. whole' = whole => FALSE OBVIOUS
<1>3. \A e \in Device : whole' = [whole EXCEPT ![e] = FALSE] => FALSE BY <1>0 DEF ClientTypes
<1>4. ServeSync(d)
  <2>1. ASSUME NEW t \in Task, NEW o \in Offer, Send(t, o) PROVE FALSE BY <1>2, <2>1 DEF Send
  <2>2. ASSUME NEW t \in Task, NEW id \in EnvelopeId, Push(t, id) PROVE FALSE
    BY <1>2, <2>2 DEF Push
  <2>3. ASSUME NEW e \in Device,
               \/ QueueReply(e) \/ ServeAck(e) \/ TakeBatch(e) \/ SkipOld(e) \/ Import(e)
               \/ Acknowledge(e) \/ RejectReplay(e) \/ Register(e) \/ Authenticated(e)
               \/ RequestSync(e) \/ SyncExpires(e) \/ LookupFails(e) \/ Disconnect(e)
               \/ ClientCrash(e) \/ Refused(e) \/ Closed(e)
        PROVE  FALSE
    BY <1>2, <1>3, <2>3 DEF QueueReply, ServeAck, TakeBatch, SkipOld, Import, Acknowledge,
                            RejectReplay, Register, Authenticated, RequestSync, SyncExpires,
                            LookupFails, Disconnect, ClientCrash, Refused, Closed
  <2>4. ASSUME NEW q \in rows, Cleanup(q) PROVE FALSE BY <1>2, <2>4 DEF Cleanup
  <2>5. ServerRestart \/ UNCHANGED vars => FALSE BY <1>2 DEF ServerRestart, vars
  <2> QED BY <1>1, <2>1, <2>2, <2>3, <2>4, <2>5 DEF Next, Deliver
<1>5. PICK after : after = Head(up[d]).after OBVIOUS
<1>6. PICK L : L = Later(d, after) OBVIOUS
<1>7. FirstPage(L) = L BY <1>0, <1>4, <1>5, <1>6 DEF ServeSync, ClientTypes
<1>8. Head(up[d]) \in Range(up[d]) /\ Head(up[d]) \in Frames /\ Head(up[d]).kind = "sync"
  BY <1>0, <1>4, RangeOfTail DEF ServeSync, Serves, ServerTypes
<1>9. after \in Nat /\ after <= cursor[d]
  BY <1>0, <1>5, <1>8, BoundAssumption DEF Frames, FramesKnown
<1>10. rows' = rows /\ cursor' = cursor BY <1>4 DEF ServeSync, mailboxes, client
<1>11. cursor[d] \in Nat /\ r.cursor \in Nat
  BY <1>0, <1>10, BoundAssumption DEF ClientTypes, MailTypes
<1>12. CASE r.cursor <= after BY <1>9, <1>10, <1>11, <1>12 DEF Covered
<1>13. CASE r.cursor > after
  <2>1. r \in L BY <1>6, <1>10, <1>13 DEF Later, Mailbox
  <2>2. L \in SUBSET rows BY <1>6 DEF Later, Mailbox
  <2>3. PICK q : q = Head(up[d]).request OBVIOUS
  <2>4. q \in Request BY <1>8, <2>3 DEF Frames
  <2>6. Item(r) \in Batch({q}, L).rows BY <2>1 DEF Batch
  <2>7. reply'[d] = <<Batch({q}, L)>>
    BY <1>0, <1>4, <1>5, <1>6, <1>7, <2>3 DEF ServeSync, ServerTypes
  <2>5. Batch({q}, L) \in Range(reply'[d]) BY <2>7 DEF Range
  <2> QED BY <2>5, <2>6 DEF Covered, FlyingNext
<1> QED BY <1>9, <1>11, <1>12, <1>13

LEMMA GapFreeStep ==
    ASSUME Typed, GapFree, [Next]_vars
    PROVE  GapFree'
<1>1. Typed' /\ ClientStep BY TypedStep
<1>2. ASSUME NEW d \in Device, link'[d] = "on", whole'[d], NEW r \in rows', r.to = d
      PROVE  Covered(r, cursor'[d], FlyingNext(d), pushing')
  <2>1. CASE ~ \E q \in rows : SameRow(q, r) BY <2>1, NewIsPushed DEF Covered
  <2>2. CASE ~whole[d] BY <1>2, <2>2, SyncedStep
  <2>3. CASE whole[d] /\ \E q \in rows : SameRow(q, r)
    <3>1. link[d] = "on" /\ Carried(d) BY <1>2, <2>3, CarriedStep
    <3> QED BY <1>1, <1>2, <2>3, <3>1, CarriedOn
  <2> QED BY <2>1, <2>2, <2>3
<1> QED BY <1>2 DEF GapFree, Flying, FlyingNext, Mailbox

\* Once a complete sync of a connection was answered, the pushes of the senders' tasks
\* close every gap: whatever is in the mailbox beyond the cursor of the device is on its
\* way (SendEnvelopes pushes after its transaction, SyncRequest reads what it missed).
THEOREM NothingFallsBetween == Spec => []NoGap
<1>1. Init => GapFree BY DEF Init, GapFree
<1>2. Typed /\ GapFree => NoGap
  <2> SUFFICES ASSUME Typed, GapFree, NEW d \in Device, link[d] = "on", whole[d],
                      NEW r \in Mailbox(d), ~(r.cursor <= cursor[d])
               PROVE  r.id \in Coming(d)
      BY DEF NoGap
  <2>1. Covered(r, cursor[d], Flying(d), pushing) BY DEF GapFree
  <2>2. ASSUME NEW b \in Flying(d), Item(r) \in b.rows PROVE r.id \in Coming(d)
    <3>1. Item(r).id = r.id BY DEF Item
    <3> QED BY <2>2, <3>1 DEF Coming, Flying
  <2>3. ASSUME NEW t \in Task, r.id \in pushing[t] PROVE r.id \in Coming(d)
    <3>1. pushing[t] \in Range(pushing) BY <2>3 DEF Typed, ServerTypes, Range
    <3> QED BY <2>3, <3>1 DEF Coming
  <2> QED BY <2>1, <2>2, <2>3 DEF Covered
<1> QED BY <1>1, <1>2, GapFreeStep, AlwaysTyped, PTL DEF Spec

=============================================================================
