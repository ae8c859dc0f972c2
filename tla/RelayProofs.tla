---------------------------- MODULE RelayProofs ----------------------------
(***************************************************************************)
(* Safety of the relay's store for every set of accounts, devices and      *)
(* requests and every quota.                                               *)
(***************************************************************************)
EXTENDS Relay, FiniteSetTheorems, TLAPS

(***************************************************************************)
(* Counting octets                                                         *)
(***************************************************************************)

Sized(S) == \A e \in S : Size[e.text] \in Nat

\* The image of a finite set under a function is finite.
LEMMA ImageFinite ==
    ASSUME NEW S, IsFiniteSet(S), NEW f, DOMAIN f = S
    PROVE  IsFiniteSet({f[x] : x \in S})
<1> DEFINE T == {f[x] : x \in S}
           g == [x \in S |-> f[x]]
<1>1. g \in Surjection(S, T)
    BY DEF Surjection
<1> QED BY <1>1, FS_Surjection

\* An initial segment of the naturals has as many elements as its bound says.
LEMMA Segment ==
    ASSUME NEW n \in Nat
    PROVE  IsFiniteSet(1..n) /\ Cardinality(1..n) = n
BY FS_Interval

\* The octets of finitely many ciphertexts are finitely many.
LEMMA OctetsFinite ==
    ASSUME NEW S, IsFiniteSet(S), Sized(S)
    PROVE  IsFiniteSet(Octets(S)) /\ Bytes(S) \in Nat
<1> DEFINE f == [e \in S |-> {e.id} \X (1..Size[e.text])]
           T == {f[e] : e \in S}
<1>1. IsFiniteSet(T)
    <2> HIDE DEF f
    <2>1. DOMAIN f = S BY DEF f
    <2> QED BY <2>1, ImageFinite
<1>2. \A t \in T : IsFiniteSet(t)
    <2> SUFFICES ASSUME NEW e \in S PROVE IsFiniteSet({e.id} \X (1..Size[e.text]))
        OBVIOUS
    <2>1. Size[e.text] \in Nat BY DEF Sized
    <2>2. IsFiniteSet(1..Size[e.text]) BY <2>1, Segment
    <2>3. IsFiniteSet({e.id}) BY FS_Singleton
    <2> QED BY <2>2, <2>3, FS_Product
<1>3. IsFiniteSet(UNION T) BY <1>1, <1>2, FS_UNION
<1>4. Octets(S) = UNION T BY DEF Octets
<1> QED BY <1>3, <1>4, FS_CardinalityType DEF Bytes

\* Bytes of sets of rows that share no envelope id add up.
LEMMA BytesAdd ==
    ASSUME NEW A, NEW B, IsFiniteSet(A), IsFiniteSet(B), Sized(A), Sized(B),
           \A x \in A, y \in B : x.id # y.id
    PROVE  Bytes(A \cup B) = Bytes(A) + Bytes(B)
<1>1. Octets(A \cup B) = Octets(A) \cup Octets(B) BY DEF Octets
<1>2. Octets(A) \cap Octets(B) = {} BY DEF Octets
<1>3. Cardinality(Octets(A) \cap Octets(B)) = 0 BY <1>2, FS_EmptySet
<1>4. IsFiniteSet(Octets(A)) /\ IsFiniteSet(Octets(B)) BY OctetsFinite
<1>5. Bytes(A) \in Nat /\ Bytes(B) \in Nat BY OctetsFinite
<1>6. Cardinality(Octets(A) \cup Octets(B))
        = Cardinality(Octets(A)) + Cardinality(Octets(B)) - Cardinality(Octets(A) \cap Octets(B))
    BY <1>4, FS_Union
<1>7. Bytes(A \cup B) = Cardinality(Octets(A) \cup Octets(B)) BY <1>1, Zenon DEF Bytes
<1>8. Bytes(A) = Cardinality(Octets(A)) /\ Bytes(B) = Cardinality(Octets(B)) BY DEF Bytes
<1> QED BY <1>3, <1>5, <1>6, <1>7, <1>8

\* A set with at most one element has its elements equal.
LEMMA AtMostOne ==
    ASSUME NEW S, IsFiniteSet(S), Cardinality(S) <= 1, NEW p \in S, NEW q \in S
    PROVE  p = q
<1> SUFFICES ASSUME p # q PROVE FALSE OBVIOUS
<1>1. IsFiniteSet({p}) /\ Cardinality({p}) = 1 BY FS_Singleton
<1>2. Cardinality({p} \cup {q}) = 2 /\ IsFiniteSet({p} \cup {q}) BY <1>1, FS_AddElement
<1>3. Cardinality({p} \cup {q}) <= Cardinality(S) BY FS_Subset
<1>4. Cardinality(S) \in Nat BY FS_CardinalityType
<1> QED BY <1>2, <1>3, <1>4

(***************************************************************************)
(* Type correctness                                                        *)
(***************************************************************************)

\* Rows of the envelopes table and entries of a request have a known size.
LEMMA SizedRows ==
    /\ \A S \in SUBSET Envelope : Sized(S)
    /\ \A S \in SUBSET Entry : Sized(S)
BY SizeAssumption DEF Sized, Envelope, Entry

\* What a request would newly store is a finite set of entries for active devices.
LEMMA NewEntriesType ==
    ASSUME NEW b \in Batch
    PROVE  /\ NewEntries(b) \subseteq Entry
           /\ IsFiniteSet(NewEntries(b))
           /\ Bytes(NewEntries(b)) \in Nat
           /\ Cardinality(NewEntries(b)) \in Nat
<1>1. NewEntries(b) \in SUBSET b.entries BY DEF NewEntries, Deliverable
<1>2. IsFiniteSet(b.entries) /\ b.entries \subseteq Entry BY BatchAssumption
<1>3. IsFiniteSet(NewEntries(b)) BY <1>1, <1>2, FS_Subset
<1>4. NewEntries(b) \in SUBSET Entry BY <1>1, <1>2
<1> QED BY <1>3, <1>4, SizedRows, OctetsFinite, FS_CardinalityType

\* A request's peer is an account of the system.
LEMMA PeerType ==
    ASSUME NEW b \in Batch
    PROVE  /\ Owner[b.from] \in Account /\ Peer(b) \in Account
           /\ Peers(b) # {} => Peer(b) \in Peers(b)
<1>1. Owner[b.from] \in Account BY BatchAssumption, OwnerAssumption
<1>2. \A e \in b.entries : Owner[e.to] \in Account
    BY BatchAssumption, OwnerAssumption DEF Entry
<1>3. Peers(b) \subseteq Account BY <1>2 DEF Peers
<1> QED BY <1>1, <1>3 DEF Peer

\* The rows an accepted request adds: one per new entry, each with a cursor of
\* its own above the counter.
Added(b, place) == {Row(b, e, place[e]) : e \in NewEntries(b)}

\* They are finitely many rows of the envelopes table.
LEMMA AddedType ==
    ASSUME TypeOK, NEW b \in Batch,
           NEW place \in Injection(NewEntries(b),
                        (lastCursor + 1)..(lastCursor + Cardinality(NewEntries(b))))
    PROVE  /\ Added(b, place) \subseteq Envelope
           /\ IsFiniteSet(Added(b, place))
<1> DEFINE new == NewEntries(b)
           last == lastCursor + Cardinality(new)
           f == [e \in new |-> Row(b, e, place[e])]
<1>1. place \in [new -> (lastCursor + 1)..last] BY DEF Injection
<1>2. lastCursor \in Nat /\ Cardinality(new) \in Nat BY NewEntriesType DEF TypeOK
<1>3. \A e \in new : place[e] \in Nat
    <2> HIDE DEF new
    <2>1. \A e \in new : place[e] \in (lastCursor + 1)..last BY <1>1
    <2> QED BY <2>1, <1>2
<1>4. \A e \in new : e \in Entry BY NewEntriesType
<1>5. \A e \in new : Row(b, e, place[e]) \in Envelope
    BY <1>3, <1>4, BatchAssumption DEF Row, Envelope, Entry
<1>6. Added(b, place) = {f[e] : e \in new} BY DEF Added
<1>7. IsFiniteSet({f[e] : e \in new})
    <2>1. IsFiniteSet(new) /\ DOMAIN f = new BY NewEntriesType
    <2> HIDE DEF f, new
    <2> QED BY <2>1, ImageFinite
<1> QED BY <1>5, <1>6, <1>7 DEF Added

\* Whatever is deleted, the usage counter stays a natural number.
LEMMA AfterDeleteType ==
    ASSUME TypeOK, NEW a \in Account, NEW gone \in SUBSET envelopes
    PROVE  AfterDelete(a, gone) \in Nat
<1>1. SentBy(gone, a) \in SUBSET envelopes BY DEF SentBy
<1>2. IsFiniteSet(SentBy(gone, a)) BY <1>1, FS_Subset DEF TypeOK
<1>3. SentBy(gone, a) \in SUBSET Envelope BY <1>1 DEF TypeOK
<1>4. Bytes(SentBy(gone, a)) \in Nat BY <1>2, <1>3, SizedRows, OctetsFinite
<1>5. usage[a] \in Nat BY DEF TypeOK
<1> QED BY <1>4, <1>5 DEF AfterDelete

\* Keeping a subset of the envelopes keeps the store well typed.
LEMMA KeepOnlyType ==
    ASSUME TypeOK, NEW kept \in SUBSET envelopes, KeepOnly(kept)
    PROVE  /\ envelopes' \subseteq Envelope /\ IsFiniteSet(envelopes')
           /\ usage' \in [Account -> Nat]
           /\ lastCursor' \in Nat /\ lastUpdate' \in Nat
<1>1. envelopes' \subseteq Envelope /\ IsFiniteSet(envelopes')
    BY FS_Subset DEF KeepOnly, TypeOK
<1>2. \A a \in Account : AfterDelete(a, envelopes \ kept) \in Nat BY AfterDeleteType
<1> QED BY <1>1, <1>2 DEF KeepOnly, TypeOK

\* An accepted request leaves every table well typed.
LEMMA StoreEnvelopesType ==
    ASSUME TypeOK, NEW b \in Batch, StoreEnvelopes(b)
    PROVE  TypeOK'
<1> DEFINE new == NewEntries(b)
           last == lastCursor + Cardinality(new)
<1>1. PICK place \in Injection(new, (lastCursor + 1)..last) :
          envelopes' = envelopes \cup Added(b, place)
    BY DEF StoreEnvelopes, InsertEnvelopes, Added
<1>2. Added(b, place) \subseteq Envelope /\ IsFiniteSet(Added(b, place)) BY AddedType
<1>3. envelopes' \subseteq Envelope /\ IsFiniteSet(envelopes')
    BY <1>1, <1>2, FS_Union DEF TypeOK
<1>4. messages' \subseteq Message
    <2>1. b.logical \in MessageId /\ b.from \in Device /\ Peer(b) \in Account
        BY BatchAssumption, PeerType
    <2>2. [id |-> b.logical, from |-> b.from, peer |-> Peer(b), delivered |-> FALSE] \in Message
        BY <2>1 DEF Message
    <2> QED BY <2>2 DEF StoreEnvelopes, InsertMessage, TypeOK
<1>5. usage' \in [Account -> Nat]
    <2>1. usage' = [usage EXCEPT ![Owner[b.from]] = @ + Bytes(new)]
        BY DEF StoreEnvelopes, InsertEnvelopes
    <2>2. Bytes(new) \in Nat /\ Owner[b.from] \in Account BY NewEntriesType, PeerType
    <2> QED BY <2>1, <2>2 DEF TypeOK
<1>6. lastCursor' \in Nat
    BY NewEntriesType DEF StoreEnvelopes, InsertEnvelopes, TypeOK
<1> QED BY <1>3, <1>4, <1>5, <1>6 DEF StoreEnvelopes, TypeOK, roster

\* So does an acknowledgement.
LEMMA AckType ==
    ASSUME TypeOK, NEW d \in Device, NEW id \in EnvelopeId, Ack(d, id)
    PROVE  TypeOK'
<1>1. PICK e \in Mailbox(d) :
        /\ envelopes' = (envelopes \ {e}) \cup {[e EXCEPT !.delivered = TRUE]}
        /\ messages' = {IF m.id = e.message THEN [m EXCEPT !.delivered = TRUE] ELSE m :
                        m \in messages}
        /\ RecordDelivery(Owner[e.from], e.message)
    BY DEF Ack
<1>2. e \in Envelope BY DEF Mailbox, TypeOK
<1>3. [e EXCEPT !.delivered = TRUE] \in Envelope BY <1>2 DEF Envelope
<1>4. envelopes' \subseteq Envelope BY <1>1, <1>3 DEF TypeOK
<1>5. IsFiniteSet(envelopes')
    BY <1>1, FS_RemoveElement, FS_AddElement DEF TypeOK
<1>6. messages' \subseteq Message BY <1>1 DEF TypeOK, Message
<1>7. updates' \subseteq Update /\ lastUpdate' \in Nat
    <2>1. e.message \in MessageId /\ Owner[e.from] \in Account
        BY <1>2, OwnerAssumption DEF Envelope
    <2> QED BY <1>1, <2>1 DEF RecordDelivery, TypeOK, Update
<1> QED BY <1>4, <1>5, <1>6, <1>7 DEF Ack, TypeOK, roster

\* So does deleting an account, its usage row included.
LEMMA DeleteUserType ==
    ASSUME TypeOK, NEW a \in Account, DeleteUser(a)
    PROVE  TypeOK'
<1>1. envelopes' \subseteq envelopes BY DEF DeleteUser
<1>2. envelopes' \subseteq Envelope /\ IsFiniteSet(envelopes')
    BY <1>1, FS_Subset DEF TypeOK
<1>3. \A x \in Account : AfterDelete(x, envelopes \ envelopes') \in Nat
    BY AfterDeleteType
<1>4. usage' = [x \in Account |-> IF x = a THEN 0
                                 ELSE AfterDelete(x, envelopes \ envelopes')]
    BY DEF DeleteUser
<1>5. usage' \in [Account -> Nat] BY <1>3, <1>4
<1>6. /\ messages' \subseteq Message /\ updates' \subseteq Update
      /\ lastCursor' \in Nat /\ lastUpdate' \in Nat /\ crashes' \in Nat
    BY DEF DeleteUser, TypeOK
<1>7. /\ accountState' \in [Account -> {"active", "disabled", "deleted"}]
      /\ deviceState' \in [Device -> {"pending", "active", "revoked", "gone"}]
      /\ cleaning' \subseteq Device
    BY DEF DeleteUser, TypeOK
<1> QED BY <1>2, <1>5, <1>6, <1>7 DEF TypeOK

\* Every table of the server always holds rows of its declared type.
THEOREM TypeCorrect == Spec => []TypeOK
<1>1. Init => TypeOK
    BY FS_EmptySet DEF Init, TypeOK
<1>2. TypeOK /\ [Next]_vars => TypeOK'
    <2> SUFFICES ASSUME TypeOK, [Next]_vars PROVE TypeOK' OBVIOUS
    <2>1. ASSUME NEW b \in Batch, StoreEnvelopes(b) PROVE TypeOK'
        BY <2>1, StoreEnvelopesType
    <2>2. ASSUME NEW d \in Device, NEW id \in EnvelopeId, Ack(d, id) PROVE TypeOK'
        BY <2>2, AckType
    <2>3. ASSUME NEW old \in SUBSET envelopes, CleanupDelivered(old) PROVE TypeOK'
        <3>1. KeepOnly(envelopes \ old) BY <2>3 DEF CleanupDelivered
        <3>2. messages' \subseteq Message /\ updates' \subseteq Update
            BY <2>3 DEF CleanupDelivered, DropOrphans, TypeOK
        <3> QED BY <2>3, <3>1, <3>2, KeepOnlyType DEF CleanupDelivered, TypeOK, roster
    <2>4. ASSUME NEW d \in Device, CleanupRevoked(d) PROVE TypeOK'
        <3>1. KeepOnly(envelopes \ Mailbox(d)) BY <2>4 DEF CleanupRevoked
        <3>2. messages' \subseteq Message /\ updates' \subseteq Update
            BY <2>4 DEF CleanupRevoked, DropOrphans, TypeOK
        <3> QED BY <2>4, <3>1, <3>2, KeepOnlyType DEF CleanupRevoked, TypeOK
    <2>5. ASSUME NEW c, NEW old, NEW deliveredOnly, PruneConversation(c, old, deliveredOnly)
          PROVE  TypeOK'
        <3>1. PICK kept \in SUBSET envelopes : KeepOnly(kept)
            BY <2>5 DEF PruneConversation
        <3>2. messages' \subseteq Message /\ updates' \subseteq Update
            BY <2>5 DEF PruneConversation, TypeOK
        <3>3. UNCHANGED <<roster, crashes>> BY <2>5 DEF PruneConversation
        <3> QED BY <3>1, <3>2, <3>3, KeepOnlyType DEF TypeOK, roster
    <2>6. ASSUME NEW a \in Account, DeleteUser(a) PROVE TypeOK'
        BY <2>6, DeleteUserType
    <2>7. ASSUME NEW d \in Device,
                 ActivateDevice(d) \/ RevokeOwnDevice(d) \/ AdminRevokeDevice(d)
          PROVE  TypeOK'
        BY <2>7 DEF ActivateDevice, RevokeOwnDevice, AdminRevokeDevice, TypeOK, store
    <2>8. ASSUME NEW a \in Account, ResetDevices(a) PROVE TypeOK'
        BY <2>8 DEF ResetDevices, TypeOK, store
    <2>9. ASSUME NEW a \in Account, NEW state \in {"active", "disabled"},
                 SetUserState(a, state)
          PROVE  TypeOK'
        BY <2>9 DEF SetUserState, TypeOK, store
    <2>10. ASSUME NEW lost \in SUBSET cleaning, Crash(lost) PROVE TypeOK'
        BY <2>10 DEF Crash, TypeOK, store
    <2>11. CASE UNCHANGED vars
        BY <2>11 DEF TypeOK, vars, roster, store
    <2> QED BY <2>1, <2>2, <2>3, <2>4, <2>5, <2>6, <2>7, <2>8, <2>9, <2>10, <2>11 DEF Next
<1> QED BY <1>1, <1>2, PTL DEF Spec

(***************************************************************************)
(* Unique rows                                                             *)
(***************************************************************************)

\* Apart from storing and acknowledging, no transaction adds or rewrites a row.
Shrinks == /\ envelopes' \subseteq envelopes
           /\ messages' \subseteq messages
           /\ updates' \subseteq updates
           /\ UNCHANGED <<lastCursor, lastUpdate>>
           /\ \/ UNCHANGED <<envelopes, usage>>
              \/ usage' = [x \in Account |-> AfterDelete(x, envelopes \ envelopes')]
              \/ \E a \in Account :
                    /\ \A e \in envelopes' : Owner[e.from] # a
                    /\ usage' = [x \in Account |->
                                    IF x = a THEN 0 ELSE AfterDelete(x, envelopes \ envelopes')]

\* The seven kinds of step the store sees; roster changes and crashes leave it alone.
LEMMA Steps ==
    ASSUME [Next]_vars
    PROVE  \/ \E b \in Batch : StoreEnvelopes(b)
           \/ \E d \in Device, id \in EnvelopeId : Ack(d, id)
           \/ \E old \in SUBSET envelopes : CleanupDelivered(old)
           \/ \E d \in Device : CleanupRevoked(d)
           \/ \E c \in Conversations, old \in SUBSET messages, deliveredOnly \in BOOLEAN :
                 (deliveredOnly \/ ForcePrune) /\ PruneConversation(c, old, deliveredOnly)
           \/ \E a \in Account : DeleteUser(a)
           \/ UNCHANGED store
<1>1. ASSUME NEW d \in Device,
             ActivateDevice(d) \/ RevokeOwnDevice(d) \/ AdminRevokeDevice(d)
      PROVE  UNCHANGED store
    BY <1>1 DEF ActivateDevice, RevokeOwnDevice, AdminRevokeDevice
<1>2. ASSUME NEW a \in Account, NEW state, ResetDevices(a) \/ SetUserState(a, state)
      PROVE  UNCHANGED store
    BY <1>2 DEF ResetDevices, SetUserState
<1>3. ASSUME NEW lost, Crash(lost) PROVE UNCHANGED store
    BY <1>3 DEF Crash
<1>4. ASSUME UNCHANGED vars PROVE UNCHANGED store
    BY <1>4 DEF vars
<1> QED BY <1>1, <1>2, <1>3, <1>4 DEF Next

\* Every step stores, acknowledges or shrinks.
LEMMA StepShape ==
    ASSUME [Next]_vars
    PROVE  \/ \E b \in Batch : StoreEnvelopes(b)
           \/ \E d \in Device, id \in EnvelopeId : Ack(d, id)
           \/ Shrinks
<1> USE DEF Shrinks
<1>1. ASSUME NEW old \in SUBSET envelopes, CleanupDelivered(old) PROVE Shrinks
    BY <1>1 DEF CleanupDelivered, KeepOnly, DropOrphans
<1>2. ASSUME NEW d \in Device, CleanupRevoked(d) PROVE Shrinks
    BY <1>2 DEF CleanupRevoked, KeepOnly, DropOrphans
<1>3. ASSUME NEW c, NEW old, NEW deliveredOnly, PruneConversation(c, old, deliveredOnly)
      PROVE  Shrinks
    BY <1>3 DEF PruneConversation, KeepOnly
<1>4. ASSUME NEW a \in Account, DeleteUser(a) PROVE Shrinks
    BY <1>4 DEF DeleteUser
<1>5. ASSUME UNCHANGED store PROVE Shrinks
    BY <1>5 DEF store
<1> QED BY <1>1, <1>2, <1>3, <1>4, <1>5, Steps

\* An accepted request's rows: fresh ids, fresh and distinct cursors.
LEMMA AddedFresh ==
    ASSUME TypeOK, NEW b \in Batch, StoreEnvelopes(b)
    PROVE  \E place \in Injection(NewEntries(b),
                    (lastCursor + 1)..(lastCursor + Cardinality(NewEntries(b)))) :
              /\ envelopes' = envelopes \cup Added(b, place)
              /\ lastCursor' = lastCursor + Cardinality(NewEntries(b))
              /\ lastCursor' >= lastCursor
              /\ \A r \in Added(b, place) :
                    /\ \A v \in envelopes : v.id # r.id
                    /\ r.cursor > lastCursor /\ r.cursor <= lastCursor'
              /\ \A r, q \in Added(b, place) : r.id = q.id \/ r.cursor = q.cursor => r = q
<1> DEFINE new == NewEntries(b)
           last == lastCursor + Cardinality(new)
<1>1. PICK place \in Injection(new, (lastCursor + 1)..last) :
          envelopes' = envelopes \cup Added(b, place)
    BY DEF StoreEnvelopes, InsertEnvelopes, Added
<1>2. lastCursor' = last /\ lastCursor \in Nat /\ Cardinality(new) \in Nat
    BY NewEntriesType DEF StoreEnvelopes, InsertEnvelopes, TypeOK
<1>3. \A e \in new : place[e] > lastCursor /\ place[e] <= last
    <2> HIDE DEF new
    <2>1. \A e \in new : place[e] \in (lastCursor + 1)..last BY <1>1 DEF Injection
    <2> QED BY <2>1, <1>2
<1>4. \A e, f \in new : place[e] = place[f] => e = f
    BY <1>1 DEF Injection, IsInjective
<1>5. ~RowConflict(b) BY DEF StoreEnvelopes, StoreVerdict
<1>6. \A e, f \in new : e.id = f.id => e = f BY <1>5 DEF RowConflict, NewEntries
<1>7. \A r \in Added(b, place) : \E e \in new :
          r = Row(b, e, place[e]) /\ r.id = e.id /\ r.cursor = place[e]
    BY DEF Added, Row
<1>8. \A e \in new, v \in envelopes : v.id # e.id BY DEF NewEntries
<1>9. \A r \in Added(b, place) :
          /\ \A v \in envelopes : v.id # r.id
          /\ r.cursor > lastCursor /\ r.cursor <= last
    <2> HIDE DEF new, last
    <2> QED BY <1>3, <1>7, <1>8
<1>10. \A r, q \in Added(b, place) : r.id = q.id \/ r.cursor = q.cursor => r = q
    <2> HIDE DEF new, last
    <2> QED BY <1>4, <1>6, <1>7
<1>11. lastCursor' >= lastCursor
    <2> HIDE DEF new
    <2> QED BY <1>2
<1> QED BY <1>1, <1>2, <1>9, <1>10, <1>11

\* Acknowledging replaces one envelope row by itself marked delivered.
LEMMA AckRows ==
    ASSUME TypeOK, NEW d \in Device, NEW id \in EnvelopeId, Ack(d, id)
    PROVE  \E e \in envelopes :
              LET f == [e EXCEPT !.delivered = TRUE] IN
              /\ envelopes' = (envelopes \ {e}) \cup {f}
              /\ f.id = e.id /\ f.cursor = e.cursor /\ f.from = e.from
              /\ f.to = e.to /\ f.text = e.text /\ f.message = e.message
              /\ f.delivered
              /\ messages' = {IF m.id = e.message THEN [m EXCEPT !.delivered = TRUE] ELSE m :
                                m \in messages}
              /\ RecordDelivery(Owner[e.from], e.message)
              /\ UNCHANGED <<usage, lastCursor>>
BY DEF Ack, Mailbox, TypeOK, Envelope

\* No step stores a second row under an id or cursor in use.
LEMMA UniqueRowsStep ==
    ASSUME TypeOK, UniqueRows, [Next]_vars
    PROVE  UniqueRows'
<1>1. ASSUME NEW b \in Batch, StoreEnvelopes(b) PROVE UniqueRows'
    <2>1. PICK place \in Injection(NewEntries(b),
                    (lastCursor + 1)..(lastCursor + Cardinality(NewEntries(b)))) :
              /\ envelopes' = envelopes \cup Added(b, place)
              /\ lastCursor' >= lastCursor
              /\ \A r \in Added(b, place) :
                    /\ \A v \in envelopes : v.id # r.id
                    /\ r.cursor > lastCursor /\ r.cursor <= lastCursor'
              /\ \A r, q \in Added(b, place) : r.id = q.id \/ r.cursor = q.cursor => r = q
        BY <1>1, AddedFresh
    <2>2. \A v \in envelopes : v.cursor \in Nat /\ v.cursor <= lastCursor
        BY DEF UniqueRows, TypeOK, Envelope
    <2>3. Added(b, place) \subseteq Envelope BY AddedType
    <2>4. \A r \in Added(b, place) : r.cursor \in Nat BY <2>3 DEF Envelope
    <2>5. lastCursor \in Nat /\ lastCursor' \in Nat BY <1>1, StoreEnvelopesType DEF TypeOK
    <2>6. \A e, f \in envelopes' : (e.id = f.id \/ e.cursor = f.cursor) => e = f
        BY <2>1, <2>2, <2>4, <2>5 DEF UniqueRows
    <2>7. \A e \in envelopes' : e.cursor <= lastCursor'
        BY <2>1, <2>2, <2>5
    <2>8. \A m, n \in messages' : m.id = n.id => m = n
        <3>1. \/ messages' = messages
              \/ /\ \A m \in messages : m.id # b.logical
                 /\ \E r : r.id = b.logical /\ messages' = messages \cup {r}
            <4> DEFINE r == [id |-> b.logical, from |-> b.from, peer |-> Peer(b),
                             delivered |-> FALSE]
            <4>1. r.id = b.logical OBVIOUS
            <4>2. messages' = messages \/ ((\A m \in messages : m.id # b.logical)
                                           /\ messages' = messages \cup {r})
                BY <1>1 DEF StoreEnvelopes, InsertMessage
            <4> QED BY <4>1, <4>2
        <3> QED BY <3>1 DEF UniqueRows
    <2> QED BY <2>6, <2>7, <2>8 DEF UniqueRows
<1>2. ASSUME NEW d \in Device, NEW id \in EnvelopeId, Ack(d, id) PROVE UniqueRows'
    <2>1. PICK e \in envelopes : LET f == [e EXCEPT !.delivered = TRUE] IN
              /\ envelopes' = (envelopes \ {e}) \cup {f}
              /\ f.id = e.id /\ f.cursor = e.cursor
              /\ messages' = {IF m.id = e.message THEN [m EXCEPT !.delivered = TRUE] ELSE m :
                                m \in messages}
              /\ UNCHANGED lastCursor
        BY <1>2, AckRows
    <2>2. \A m \in messages : [m EXCEPT !.delivered = TRUE].id = m.id BY DEF TypeOK, Message
    <2> DEFINE g(m) == IF m.id = e.message THEN [m EXCEPT !.delivered = TRUE] ELSE m
    <2>3. \A n \in messages' : \E m \in messages : n.id = m.id /\ n = g(m)
        BY <2>1, <2>2
    <2>4. \A m, n \in messages' : m.id = n.id => m = n
        <3> HIDE DEF g
        <3> QED BY <2>3 DEF UniqueRows
    <2> DEFINE f == [e EXCEPT !.delivered = TRUE]
    <2>5. envelopes' = (envelopes \ {e}) \cup {f} /\ f.id = e.id /\ f.cursor = e.cursor
        BY <2>1
    <2>6. \A x, y \in envelopes' : (x.id = y.id \/ x.cursor = y.cursor) => x = y
        <3> HIDE DEF f
        <3> QED BY <2>5 DEF UniqueRows
    <2>7. \A x \in envelopes' : x.cursor <= lastCursor'
        <3> HIDE DEF f
        <3> QED BY <2>1, <2>5 DEF UniqueRows
    <2> QED BY <2>4, <2>6, <2>7 DEF UniqueRows
<1>3. CASE Shrinks BY <1>3 DEF Shrinks, UniqueRows
<1> QED BY <1>1, <1>2, <1>3, StepShape

\* Envelope ids, logical ids and cursors are unique and below the counter: a
\* resend never makes a second row, whatever is removed in between.
THEOREM RowsUnique == Spec => []UniqueRows
<1>1. Init => UniqueRows BY DEF Init, UniqueRows
<1>2. TypeOK /\ UniqueRows /\ [Next]_vars => UniqueRows' BY UniqueRowsStep
<1> QED BY <1>1, <1>2, TypeCorrect, PTL DEF Spec

(***************************************************************************)
(* Storage accounting                                                      *)
(***************************************************************************)

\* The clamp in the delete trigger never hides a drift: what is left on the
\* counter is exactly what is left in the table.
LEMMA AfterDeleteExact ==
    ASSUME TypeOK, UniqueRows, UsageExact, NEW a \in Account, NEW kept \in SUBSET envelopes
    PROVE  AfterDelete(a, envelopes \ kept) = Bytes(SentBy(kept, a))
<1> DEFINE gone == SentBy(envelopes \ kept, a)
           rest == SentBy(kept, a)
<1>1. SentBy(envelopes, a) = rest \cup gone BY DEF SentBy
<1>2. \A x \in rest, y \in gone : x.id # y.id BY DEF SentBy, UniqueRows
<1>3. rest \in SUBSET envelopes /\ gone \in SUBSET envelopes BY DEF SentBy
<1>4. IsFiniteSet(rest) /\ IsFiniteSet(gone) BY <1>3, FS_Subset DEF TypeOK
<1>5. Sized(rest) /\ Sized(gone) BY <1>3, SizedRows DEF TypeOK
<1>6. Bytes(rest) \in Nat /\ Bytes(gone) \in Nat BY <1>4, <1>5, OctetsFinite
<1>7. Bytes(rest \cup gone) = Bytes(rest) + Bytes(gone)
    <2> HIDE DEF rest, gone
    <2> QED BY <1>2, <1>4, <1>5, BytesAdd
<1>8. usage[a] = Bytes(rest \cup gone)
    BY <1>1 DEF UsageExact
<1>9. AfterDelete(a, envelopes \ kept)
        = IF usage[a] - Bytes(gone) < 0 THEN 0 ELSE usage[a] - Bytes(gone)
    BY DEF AfterDelete
<1> HIDE DEF rest, gone
<1> QED BY <1>6, <1>7, <1>8, <1>9 DEF rest

\* An accepted request's rows count as many bytes as its new entries.
LEMMA AddedBytes ==
    ASSUME NEW b \in Batch, NEW place
    PROVE  Octets(Added(b, place)) = Octets(NewEntries(b))
<1>1. \A e \in NewEntries(b) :
        Row(b, e, place[e]).id = e.id /\ Row(b, e, place[e]).text = e.text
    BY DEF Row
<1> QED BY <1>1 DEF Octets, Added

\* Insertions charge and deletions refund exactly the bytes of the rows they touch.
LEMMA UsageExactStep ==
    ASSUME TypeOK, UniqueRows, UsageExact, [Next]_vars
    PROVE  UsageExact'
<1>1. ASSUME NEW b \in Batch, StoreEnvelopes(b) PROVE UsageExact'
    <2> DEFINE s == Owner[b.from]
    <2>1. PICK place \in Injection(NewEntries(b),
                    (lastCursor + 1)..(lastCursor + Cardinality(NewEntries(b)))) :
              /\ envelopes' = envelopes \cup Added(b, place)
              /\ \A r \in Added(b, place) : \A v \in envelopes : v.id # r.id
        BY <1>1, AddedFresh
    <2>2. /\ usage' = [usage EXCEPT ![s] = @ + Bytes(NewEntries(b))]
          /\ usage \in [Account -> Nat] /\ s \in Account
        BY <1>1, PeerType DEF StoreEnvelopes, InsertEnvelopes, TypeOK
    <2>3. \A r \in Added(b, place) : Owner[r.from] = s BY DEF Added, Row
    <2> SUFFICES ASSUME NEW a \in Account
                 PROVE  usage'[a] = Bytes(SentBy(envelopes', a))
        BY DEF UsageExact, SentBy, Bytes, Octets
    <2>4. usage[a] = Bytes(SentBy(envelopes, a)) BY DEF UsageExact
    <2>5. CASE a # s
        <3>1. SentBy(envelopes', a) = SentBy(envelopes, a) BY <2>1, <2>3, <2>5 DEF SentBy
        <3> QED BY <3>1, <2>2, <2>4, <2>5
    <2>6. CASE a = s
        <3> DEFINE old == SentBy(envelopes, a)
                   add == Added(b, place)
        <3>1. SentBy(envelopes', a) = old \cup add BY <2>1, <2>3, <2>6 DEF SentBy
        <3>2. old \in SUBSET envelopes BY DEF SentBy
        <3>3. IsFiniteSet(old) /\ Sized(old) BY <3>2, SizedRows, FS_Subset DEF TypeOK
        <3>4. IsFiniteSet(add) /\ Sized(add) BY AddedType, SizedRows
        <3>5. \A x \in old, y \in add : x.id # y.id BY <2>1, <3>2
        <3>6. Bytes(old \cup add) = Bytes(old) + Bytes(add)
            <4> HIDE DEF old, add
            <4> QED BY <3>3, <3>4, <3>5, BytesAdd
        <3>7. Bytes(add) = Bytes(NewEntries(b)) BY AddedBytes, Zenon DEF Bytes
        <3> QED BY <3>1, <3>6, <3>7, <2>2, <2>4, <2>6
    <2> QED BY <2>5, <2>6
<1>2. ASSUME NEW d \in Device, NEW id \in EnvelopeId, Ack(d, id) PROVE UsageExact'
    <2>1. PICK e \in envelopes : LET f == [e EXCEPT !.delivered = TRUE] IN
              /\ envelopes' = (envelopes \ {e}) \cup {f}
              /\ f.id = e.id /\ f.from = e.from /\ f.text = e.text
              /\ UNCHANGED usage
        BY <1>2, AckRows
    <2> DEFINE f == [e EXCEPT !.delivered = TRUE]
    <2>2. /\ envelopes' = (envelopes \ {e}) \cup {f}
          /\ f.id = e.id /\ f.from = e.from /\ f.text = e.text
        BY <2>1
    <2> HIDE DEF f
    <2>3. \A a : Octets(SentBy(envelopes', a)) = Octets(SentBy(envelopes, a))
        BY <2>2 DEF Octets, SentBy
    <2>4. \A a \in Account : Bytes(SentBy(envelopes', a)) = Bytes(SentBy(envelopes, a))
        BY <2>3, Zenon DEF Bytes
    <2> QED BY <2>1, <2>4 DEF UsageExact, SentBy, Bytes, Octets
<1>3. CASE Shrinks
    <2>1. \A a \in Account : usage'[a] = Bytes(SentBy(envelopes', a))
        <3>1. CASE UNCHANGED <<envelopes, usage>> BY <3>1 DEF UsageExact
        <3>2. CASE usage' = [x \in Account |-> AfterDelete(x, envelopes \ envelopes')]
            BY <1>3, <3>2, AfterDeleteExact DEF Shrinks
        <3>3. ASSUME NEW a \in Account,
                     \A e \in envelopes' : Owner[e.from] # a,
                     usage' = [x \in Account |->
                                  IF x = a THEN 0 ELSE AfterDelete(x, envelopes \ envelopes')]
              PROVE  \A x \in Account : usage'[x] = Bytes(SentBy(envelopes', x))
            <4>1. SentBy(envelopes', a) = {} BY <3>3 DEF SentBy
            <4>2. Octets({}) = {} BY DEF Octets
            <4>3. Bytes({}) = 0 BY <4>2, FS_EmptySet DEF Bytes
            <4> QED BY <1>3, <3>3, <4>1, <4>3, AfterDeleteExact DEF Shrinks
        <3> QED BY <1>3, <3>1, <3>2, <3>3 DEF Shrinks
    <2> QED BY <2>1 DEF UsageExact, SentBy, Bytes, Octets
<1> QED BY <1>1, <1>2, <1>3, StepShape

\* The counter the triggers maintain never drifts from the ciphertext stored.
THEOREM UsageIsExact == Spec => []UsageExact
<1>1. Init => UsageExact
    <2>2. Octets({}) = {} BY DEF Octets
    <2>3. Bytes({}) = 0 BY <2>2, FS_EmptySet DEF Bytes
    <2>4. \A a : SentBy({}, a) = {} BY DEF SentBy
    <2> QED BY <2>3, <2>4 DEF Init, UsageExact
<1>2. TypeOK /\ UniqueRows /\ UsageExact /\ [Next]_vars => UsageExact' BY UsageExactStep
<1> QED BY <1>1, <1>2, TypeCorrect, RowsUnique, PTL DEF Spec

Blocks(u) == UNION {{a} \X (1..u[a]) : a \in Account}

\* Summing over the accounts counts finitely many blocks.
LEMMA TotalFinite ==
    ASSUME NEW u \in [Account -> Nat]
    PROVE  IsFiniteSet(Blocks(u)) /\ TotalUsage(u) = Cardinality(Blocks(u)) /\ TotalUsage(u) \in Nat
<1> DEFINE f == [a \in Account |-> {a} \X (1..u[a])]
           T == {f[a] : a \in Account}
<1>1. IsFiniteSet(T)
    <2>1. DOMAIN f = Account OBVIOUS
    <2> HIDE DEF f
    <2> QED BY <2>1, AccountAssumption, ImageFinite
<1>2. \A t \in T : IsFiniteSet(t)
    <2> SUFFICES ASSUME NEW a \in Account PROVE IsFiniteSet({a} \X (1..u[a])) OBVIOUS
    <2>1. u[a] \in Nat OBVIOUS
    <2>2. IsFiniteSet(1..u[a]) BY <2>1, Segment
    <2>3. IsFiniteSet({a}) BY FS_Singleton
    <2> QED BY <2>2, <2>3, FS_Product
<1>3. Blocks(u) = UNION T BY DEF Blocks
<1> QED BY <1>1, <1>2, <1>3, FS_UNION, FS_CardinalityType DEF TotalUsage, Blocks

\* The total grows with every account's usage.
LEMMA TotalMonotone ==
    ASSUME NEW u \in [Account -> Nat], NEW v \in [Account -> Nat],
           \A a \in Account : u[a] <= v[a]
    PROVE  TotalUsage(u) <= TotalUsage(v)
<1>1. \A a \in Account : 1..u[a] \subseteq 1..v[a] OBVIOUS
<1>2. Blocks(u) \in SUBSET Blocks(v) BY <1>1 DEF Blocks
<1> QED BY <1>2, TotalFinite, FS_Subset

\* Charging one account adds at most the charge to the total.
LEMMA TotalAdd ==
    ASSUME NEW u \in [Account -> Nat], NEW s \in Account, NEW n \in Nat
    PROVE  TotalUsage([u EXCEPT ![s] = @ + n]) <= TotalUsage(u) + n
<1> DEFINE v == [u EXCEPT ![s] = @ + n]
           extra == {s} \X ((u[s] + 1)..(u[s] + n))
<1>1. v \in [Account -> Nat] OBVIOUS
<1>2. Blocks(v) = Blocks(u) \cup extra
    <2>1. \A a \in Account : a # s => v[a] = u[a] OBVIOUS
    <2>2. 1..v[s] = (1..u[s]) \cup ((u[s] + 1)..(u[s] + n)) OBVIOUS
    <2> HIDE DEF v
    <2> QED BY <2>1, <2>2 DEF Blocks
<1>3. IsFiniteSet(extra) /\ Cardinality(extra) = n
    <2>1. u[s] + 1 \in Int /\ u[s] + n \in Int /\ u[s] \in Nat OBVIOUS
    <2>2. /\ IsFiniteSet((u[s] + 1)..(u[s] + n))
          /\ Cardinality((u[s] + 1)..(u[s] + n))
                = IF u[s] + 1 > u[s] + n THEN 0 ELSE (u[s] + n) - (u[s] + 1) + 1
        BY <2>1, FS_Interval
    <2>3. Cardinality((u[s] + 1)..(u[s] + n)) = n BY <2>1, <2>2
    <2>4. IsFiniteSet({s}) /\ Cardinality({s}) = 1 BY FS_Singleton
    <2>5. /\ IsFiniteSet(extra)
          /\ Cardinality(extra) = Cardinality({s}) * Cardinality((u[s] + 1)..(u[s] + n))
        BY <2>2, <2>4, FS_Product
    <2> QED BY <2>3, <2>4, <2>5
<1>4. IsFiniteSet(Blocks(u)) BY TotalFinite
<1>5. Cardinality(Blocks(u) \cup extra)
        = Cardinality(Blocks(u)) + Cardinality(extra) - Cardinality(Blocks(u) \cap extra)
    <2> HIDE DEF extra
    <2> QED BY <1>3, <1>4, FS_Union
<1>6. Cardinality(Blocks(u) \cap extra) \in Nat
    <2> HIDE DEF extra
    <2> QED BY <1>4, FS_Intersection, FS_CardinalityType
<1>7. TotalUsage(v) = Cardinality(Blocks(v)) /\ TotalUsage(u) = Cardinality(Blocks(u))
      /\ TotalUsage(u) \in Nat
    <2> HIDE DEF v
    <2> QED BY <1>1, TotalFinite
<1>8. TotalUsage(v) <= TotalUsage(u) + n
    <2> HIDE DEF v, extra
    <2> QED BY <1>2, <1>3, <1>5, <1>6, <1>7
<1> QED BY <1>8

\* An accepted request fits both quotas, and nothing else charges an account.
LEMMA QuotaStep ==
    ASSUME TypeOK, TypeOK', QuotaRespected, [Next]_vars
    PROVE  QuotaRespected'
<1>1. ASSUME NEW b \in Batch, StoreEnvelopes(b) PROVE QuotaRespected'
    <2> DEFINE s == Owner[b.from]
               n == Bytes(NewEntries(b))
    <2>1. usage' = [usage EXCEPT ![s] = @ + n] /\ usage \in [Account -> Nat]
        BY <1>1 DEF StoreEnvelopes, InsertEnvelopes, TypeOK
    <2>2. s \in Account /\ n \in Nat BY PeerType, NewEntriesType
    <2>3. ~(usage[s] + n > AccountLimit) /\ ~(TotalUsage(usage) + n > TotalLimit)
        BY <1>1 DEF StoreEnvelopes, StoreVerdict, OverQuota
    <2>4. TotalUsage(usage') <= TotalUsage(usage) + n
        <3> HIDE DEF s, n
        <3> QED BY <2>1, <2>2, TotalAdd
    <2>5. TotalUsage(usage) \in Nat /\ TotalUsage(usage') \in Nat BY TotalFinite DEF TypeOK
    <2>6. TotalUsage(usage') <= TotalLimit
        <3> HIDE DEF s, n
        <3> QED BY <2>2, <2>3, <2>4, <2>5, LimitAssumption
    <2>7. \A a \in Account : usage'[a] <= AccountLimit
        <3> HIDE DEF s, n
        <3> QED BY <2>1, <2>2, <2>3, LimitAssumption DEF QuotaRespected
    <2> QED BY <2>6, <2>7 DEF QuotaRespected, TotalUsage
<1>2. ASSUME UNCHANGED usage PROVE QuotaRespected'
    BY <1>2 DEF QuotaRespected, TotalUsage
<1>3. CASE Shrinks
    <2>1. \A a \in Account : usage'[a] <= usage[a]
        <3>1. \A a \in Account : usage[a] \in Nat BY DEF TypeOK
        <3>2. \A a \in Account : AfterDelete(a, envelopes \ envelopes') <= usage[a]
            <4> SUFFICES ASSUME NEW a \in Account
                         PROVE  AfterDelete(a, envelopes \ envelopes') <= usage[a]
                OBVIOUS
            <4> DEFINE gone == SentBy(envelopes \ envelopes', a)
            <4>1. gone \in SUBSET envelopes BY DEF SentBy
            <4>2. IsFiniteSet(gone) /\ Sized(gone) BY <4>1, FS_Subset, SizedRows DEF TypeOK
            <4>3. Bytes(gone) \in Nat
                <5> HIDE DEF gone
                <5> QED BY <4>2, OctetsFinite
            <4> QED BY <4>3, <3>1 DEF AfterDelete
        <3> QED BY <1>3, <3>1, <3>2 DEF Shrinks
    <2>2. usage \in [Account -> Nat] /\ usage' \in [Account -> Nat] BY DEF TypeOK
    <2>3. TotalUsage(usage') <= TotalUsage(usage) BY <2>1, <2>2, TotalMonotone
    <2>4. TotalUsage(usage) \in Nat /\ TotalUsage(usage') \in Nat BY <2>2, TotalFinite
    <2>5. TotalUsage(usage') <= TotalLimit
        BY <2>3, <2>4, LimitAssumption DEF QuotaRespected
    <2>6. \A a \in Account : usage'[a] <= AccountLimit
        BY <2>1, <2>2, LimitAssumption DEF QuotaRespected
    <2> QED BY <2>5, <2>6 DEF QuotaRespected, TotalUsage
<1> QED BY <1>1, <1>2, <1>3, StepShape DEF Ack

\* No account and not the server as a whole ever stores more than its quota.
THEOREM QuotaIsRespected == Spec => []QuotaRespected
<1>1. Init => QuotaRespected
    <2> SUFFICES ASSUME Init PROVE QuotaRespected OBVIOUS
    <2>1. \A a \in Account : usage[a] = 0 BY DEF Init
    <2>2. \A a \in Account : 1..usage[a] = {} BY <2>1
    <2>3. UNION {{a} \X (1..usage[a]) : a \in Account} = {} BY <2>2
    <2>4. TotalUsage(usage) = 0 BY <2>3, FS_EmptySet DEF TotalUsage
    <2> QED BY <2>1, <2>4, LimitAssumption DEF QuotaRespected
<1>2. TypeOK /\ TypeOK' /\ QuotaRespected /\ [Next]_vars => QuotaRespected' BY QuotaStep
<1> QED BY <1>1, <1>2, TypeCorrect, PTL DEF Spec

(***************************************************************************)
(* What a step may never do to a stored envelope                           *)
(***************************************************************************)

\* Every new row has a cursor above all cursors issued before it.
THEOREM CursorsAreFresh == Spec => CursorsFresh
<1> DEFINE A == /\ lastCursor' >= lastCursor
                /\ \A f \in envelopes' :
                      (\A e \in envelopes : e.cursor # f.cursor) => f.cursor > lastCursor
<1>1. ASSUME TypeOK, [Next]_vars PROVE A
    <2>1. ASSUME NEW b \in Batch, StoreEnvelopes(b) PROVE A
        BY <1>1, <2>1, AddedFresh
    <2>2. ASSUME NEW d \in Device, NEW id \in EnvelopeId, Ack(d, id) PROVE A
        <3>1. lastCursor' = lastCursor /\ lastCursor \in Nat
            BY <1>1, <2>2, AckRows DEF TypeOK
        <3>2. PICK e, g :
                  e \in envelopes /\ envelopes' = (envelopes \ {e}) \cup {g} /\ g.cursor = e.cursor
            BY <1>1, <2>2, AckRows
        <3> QED BY <3>1, <3>2
    <2>3. CASE Shrinks BY <1>1, <2>3 DEF Shrinks, TypeOK
    <2> QED BY <1>1, <2>1, <2>2, <2>3, StepShape
<1>2. TypeOK /\ [Next]_vars => [A]_vars BY <1>1
<1> QED BY <1>2, TypeCorrect, PTL DEF Spec, CursorsFresh

\* No resend, conflicting request or repeated ack rewrites a stored envelope.
THEOREM EnvelopesAreImmutable == Spec => EnvelopeImmutable
<1> DEFINE A == \A e \in envelopes, f \in envelopes' :
                    e.id = f.id => f \in {e, [e EXCEPT !.delivered = TRUE]}
<1>1. ASSUME TypeOK, UniqueRows, [Next]_vars PROVE A
    <2>1. ASSUME NEW b \in Batch, StoreEnvelopes(b) PROVE A
        BY <1>1, <2>1, AddedFresh DEF UniqueRows
    <2>2. ASSUME NEW d \in Device, NEW id \in EnvelopeId, Ack(d, id) PROVE A
        <3>1. PICK e \in envelopes :
                  /\ envelopes' = (envelopes \ {e}) \cup {[e EXCEPT !.delivered = TRUE]}
                  /\ [e EXCEPT !.delivered = TRUE].id = e.id
            BY <1>1, <2>2, AckRows
        <3>2. PICK g : g = [e EXCEPT !.delivered = TRUE] OBVIOUS
        <3>3. g.id = e.id /\ envelopes' = (envelopes \ {e}) \cup {g} BY <3>1, <3>2
        <3>4. \A x, y \in envelopes : x.id = y.id => x = y BY <1>1 DEF UniqueRows
        <3> SUFFICES ASSUME NEW x \in envelopes, NEW f \in envelopes', x.id = f.id
                     PROVE  f \in {x, [x EXCEPT !.delivered = TRUE]}
            OBVIOUS
        <3>5. CASE f = g
            <4>1. x = e BY <3>3, <3>4, <3>5
            <4> QED BY <3>2, <3>5, <4>1
        <3>6. CASE f \in envelopes
            <4>1. f = x BY <3>4, <3>6
            <4> QED BY <4>1
        <3> QED BY <3>3, <3>5, <3>6
    <2>3. CASE Shrinks BY <1>1, <2>3 DEF Shrinks, UniqueRows
    <2> QED BY <1>1, <2>1, <2>2, <2>3, StepShape
<1>2. TypeOK /\ UniqueRows /\ [Next]_vars => [A]_vars BY <1>1
<1> QED BY <1>2, TypeCorrect, RowsUnique, PTL DEF Spec, EnvelopeImmutable

\* A purged mailbox of a revoked device stays empty, whoever still writes to it.
THEOREM PurgedMailboxStaysEmpty == Spec => PurgedStaysEmpty
<1> DEFINE A == \A d \in Device :
                    deviceState[d] \in {"revoked", "gone"} /\ Mailbox(d) = {} => Mailbox(d)' = {}
<1>1. ASSUME TypeOK, [Next]_vars PROVE A
    <2> SUFFICES ASSUME NEW d \in Device, deviceState[d] \in {"revoked", "gone"},
                        \A e \in envelopes : e.to # d
                 PROVE  \A e \in envelopes' : e.to # d
        BY DEF Mailbox
    <2>1. ASSUME NEW b \in Batch, StoreEnvelopes(b) PROVE \A e \in envelopes' : e.to # d
        <3>1. PICK place : envelopes' = envelopes \cup Added(b, place)
            BY <1>1, <2>1, AddedFresh
        <3>2. \A e \in NewEntries(b) : e.to # d
            BY DEF NewEntries, Deliverable, ActiveDevice
        <3>3. \A r \in Added(b, place) : r.to # d BY <3>2 DEF Added, Row
        <3> QED BY <3>1, <3>3
    <2>2. ASSUME NEW x \in Device, NEW id \in EnvelopeId, Ack(x, id)
          PROVE  \A e \in envelopes' : e.to # d
        BY <1>1, <2>2, AckRows
    <2>3. CASE Shrinks BY <2>3 DEF Shrinks
    <2> QED BY <1>1, <2>1, <2>2, <2>3, StepShape
<1>2. TypeOK /\ [Next]_vars => [A]_vars BY <1>1
<1> QED BY <1>2, TypeCorrect, PTL DEF Spec, PurgedStaysEmpty

(***************************************************************************)
(* Envelopes and logical messages                                          *)
(***************************************************************************)

\* The accounts an accepted request writes to are its sender and its peer.
LEMMA EntryParties ==
    ASSUME NEW b \in Batch, WellFormed(b), NEW e \in b.entries
    PROVE  Owner[e.to] \in {Owner[b.from], Peer(b)}
<1>1. CASE Owner[e.to] = Owner[b.from] BY <1>1
<1>2. CASE Owner[e.to] # Owner[b.from]
    <2>1. Owner[e.to] \in Peers(b) BY <1>2 DEF Peers
    <2>2. Peer(b) \in Peers(b) BY <2>1, PeerType
    <2>3. IsFiniteSet(Peers(b))
        <3> DEFINE f == [x \in b.entries |-> Owner[x.to]]
                   T == {f[x] : x \in b.entries}
        <3>1. IsFiniteSet(b.entries) /\ DOMAIN f = b.entries BY BatchAssumption
        <3>2. IsFiniteSet(T)
            <4> HIDE DEF f
            <4> QED BY <3>1, ImageFinite
        <3>3. Peers(b) \subseteq T BY DEF Peers
        <3> HIDE DEF T
        <3> QED BY <3>2, <3>3, FS_Subset
    <2>4. Cardinality(Peers(b)) <= 1 BY DEF WellFormed
    <2> QED BY <2>1, <2>2, <2>3, <2>4, AtMostOne
<1> QED BY <1>1, <1>2

\* Storing keeps envelopes and logical messages matched: the metadata check for
\* a known message, the row check for a message whose rows are all known.
LEMMA StoreMatches ==
    ASSUME TypeOK, UniqueRows, EnvelopeMatchesMessage, NEW b \in Batch, StoreEnvelopes(b)
    PROVE  EnvelopeMatchesMessage'
<1>1. PICK place : envelopes' = envelopes \cup Added(b, place)
    BY AddedFresh
<1>2. /\ WellFormed(b) /\ ~MetadataConflict(b) /\ ~Unavailable(b) /\ ~RowConflict(b)
    BY DEF StoreEnvelopes, StoreVerdict
<1>3. messages \subseteq messages' /\ \E m \in messages' : m.id = b.logical
    <2>1. InsertMessage(b) BY DEF StoreEnvelopes
    <2>2. CASE \E m \in messages : m.id = b.logical BY <2>1, <2>2 DEF InsertMessage
    <2>3. CASE ~\E m \in messages : m.id = b.logical
        <3> DEFINE new == [id |-> b.logical, from |-> b.from,
                           peer |-> Peer(b), delivered |-> FALSE]
        <3>1. new.id = b.logical OBVIOUS
        <3> HIDE DEF new
        <3>2. messages' = messages \cup {new} BY <2>1, <2>3 DEF InsertMessage, new
        <3> QED BY <3>1, <3>2
    <2> QED BY <2>2, <2>3
<1>4. \A m \in messages' : m \in messages \/ m.id = b.logical
    BY DEF StoreEnvelopes, InsertMessage
<1>5. \A m \in messages' : m.id = b.logical => m.from = b.from /\ m.peer = Peer(b)
    BY <1>2 DEF StoreEnvelopes, InsertMessage, MetadataConflict
<1>6. \A r \in Added(b, place) :
          /\ r.message = b.logical /\ r.from = b.from
          /\ Owner[r.to] \in {Owner[b.from], Peer(b)}
    <2>1. \A e \in NewEntries(b) : e \in b.entries BY DEF NewEntries, Deliverable
    <2> QED BY <1>2, <2>1, EntryParties DEF Added, Row
<1>7. \A e \in envelopes' : \E m \in messages' :
          m.id = e.message /\ m.from = e.from /\ Owner[e.to] \in Conversation(m)
    BY <1>1, <1>3, <1>5, <1>6 DEF EnvelopeMatchesMessage, Conversation
<1>8. HasEnvelope(envelopes', b.logical)
    <2>1. PICK e \in Deliverable(b) : TRUE BY <1>2 DEF Unavailable
    <2>2. CASE e \in NewEntries(b)
        <3>1. Row(b, e, place[e]) \in envelopes' BY <1>1, <2>2 DEF Added
        <3> QED BY <3>1 DEF HasEnvelope, Row
    <2>3. CASE e \notin NewEntries(b)
        <3>1. PICK v \in envelopes : v.id = e.id BY <2>3 DEF NewEntries
        <3>2. v.message = b.logical BY <1>2, <3>1 DEF RowConflict
        <3> QED BY <1>1, <3>2 DEF HasEnvelope
    <2> QED BY <2>2, <2>3
<1>9. \A m \in messages' : HasEnvelope(envelopes', m.id)
    BY <1>1, <1>4, <1>8 DEF EnvelopeMatchesMessage, HasEnvelope
<1> QED BY <1>7, <1>9 DEF EnvelopeMatchesMessage, HasEnvelope, Conversation

\* An ack changes neither routes nor parties.
LEMMA AckMatches ==
    ASSUME TypeOK, EnvelopeMatchesMessage,
           NEW d \in Device, NEW id \in EnvelopeId, Ack(d, id)
    PROVE  EnvelopeMatchesMessage'
<1>1. PICK e, f :
          /\ e \in envelopes
          /\ envelopes' = (envelopes \ {e}) \cup {f}
          /\ f.from = e.from /\ f.to = e.to /\ f.message = e.message
          /\ messages' = {IF m.id = e.message THEN [m EXCEPT !.delivered = TRUE] ELSE m :
                            m \in messages}
    BY AckRows
<1>2. \A m \in messages :
          LET n == [m EXCEPT !.delivered = TRUE]
          IN  n.id = m.id /\ n.from = m.from /\ n.peer = m.peer
    BY DEF TypeOK, Message
<1>3. \A n \in messages' : \E m \in messages : n.id = m.id /\ n.from = m.from /\ n.peer = m.peer
    BY <1>1, <1>2
<1>4. \A m \in messages : \E n \in messages' : n.id = m.id /\ n.from = m.from /\ n.peer = m.peer
    BY <1>1, <1>2
<1>5. \A g \in envelopes' : \E h \in envelopes :
          g.from = h.from /\ g.to = h.to /\ g.message = h.message
    BY <1>1
<1>6. \A h \in envelopes : \E g \in envelopes' : g.message = h.message
    BY <1>1
<1>7. \A g \in envelopes' : \E m \in messages' :
          m.id = g.message /\ m.from = g.from /\ Owner[g.to] \in Conversation(m)
    BY <1>4, <1>5 DEF EnvelopeMatchesMessage, Conversation
<1>8. \A n \in messages' : HasEnvelope(envelopes', n.id)
    BY <1>3, <1>6 DEF EnvelopeMatchesMessage, HasEnvelope
<1> QED BY <1>7, <1>8 DEF EnvelopeMatchesMessage, HasEnvelope, Conversation

\* Removing envelopes together with the messages left without one keeps them matched.
LEMMA OrphansMatch ==
    ASSUME EnvelopeMatchesMessage, NEW kept \in SUBSET envelopes,
           envelopes' = kept, DropOrphans(kept)
    PROVE  EnvelopeMatchesMessage'
BY DEF EnvelopeMatchesMessage, DropOrphans, HasEnvelope, Conversation

\* A prune spares every envelope of the messages it does not select, and those
\* messages with it.
LEMMA PruneMatches ==
    ASSUME UniqueRows, EnvelopeMatchesMessage,
           NEW c, NEW old \in SUBSET messages, NEW deliveredOnly,
           PruneConversation(c, old, deliveredOnly)
    PROVE  EnvelopeMatchesMessage'
<1> DEFINE candidates == {m \in old : Conversation(m) = c}
           selected == {m.id : m \in {n \in candidates : deliveredOnly => FullyDelivered(n)}}
           kept == {e \in envelopes : e.message \notin selected}
<1>1. /\ envelopes' = kept
      /\ messages' = messages \ {m \in candidates : ~HasEnvelope(kept, m.id)}
    BY DEF PruneConversation, KeepOnly
<1>2. \A s \in selected : \E m \in candidates : m.id = s OBVIOUS
<1>3. candidates \subseteq messages OBVIOUS
<1>4. kept \subseteq envelopes /\ \A e \in envelopes : e \in kept <=> e.message \notin selected
    OBVIOUS
<1> HIDE DEF kept, selected, candidates
<1>5. \A e \in kept : \E m \in messages' :
          m.id = e.message /\ m.from = e.from /\ Owner[e.to] \in Conversation(m)
    BY <1>1, <1>4 DEF EnvelopeMatchesMessage, HasEnvelope
<1>6. \A m \in messages' : HasEnvelope(kept, m.id)
    <2> SUFFICES ASSUME NEW m \in messages' PROVE HasEnvelope(kept, m.id) OBVIOUS
    <2>1. m \in messages BY <1>1
    <2>2. CASE m \in candidates BY <1>1, <2>2
    <2>3. CASE m \notin candidates
        <3>1. m.id \notin selected BY <1>2, <1>3, <2>1, <2>3 DEF UniqueRows
        <3>2. PICK e \in envelopes : e.message = m.id
            BY <2>1 DEF EnvelopeMatchesMessage, HasEnvelope
        <3> QED BY <1>4, <3>1, <3>2 DEF HasEnvelope
    <2> QED BY <2>2, <2>3
<1> QED BY <1>1, <1>5, <1>6 DEF EnvelopeMatchesMessage, HasEnvelope, Conversation

\* Deleting an account takes whole conversations, never half of one.
LEMMA DeleteUserMatches ==
    ASSUME UniqueRows, EnvelopeMatchesMessage, NEW a \in Account, DeleteUser(a)
    PROVE  EnvelopeMatchesMessage'
<1> DEFINE doomed == {m.id : m \in {n \in messages : Involves(n, a)}}
<1>1. envelopes' = {e \in envelopes : /\ Owner[e.from] # a /\ Owner[e.to] # a
                                      /\ e.message \notin doomed}
    BY DEF DeleteUser
<1>2. messages' = {m \in messages : ~Involves(m, a)} BY DEF DeleteUser
<1>3. \A s : s \in doomed <=> \E m \in messages : m.id = s /\ Involves(m, a) OBVIOUS
<1> HIDE DEF doomed
<1>4. \A e \in envelopes' : \E m \in messages' :
          m.id = e.message /\ m.from = e.from /\ Owner[e.to] \in Conversation(m)
    BY <1>1, <1>2, <1>3 DEF EnvelopeMatchesMessage
<1>5. \A m \in messages' : HasEnvelope(envelopes', m.id)
    <2> SUFFICES ASSUME NEW m \in messages' PROVE HasEnvelope(envelopes', m.id) OBVIOUS
    <2>1. m \in messages /\ ~Involves(m, a) BY <1>2
    <2>2. PICK e \in envelopes : e.message = m.id
        BY <2>1 DEF EnvelopeMatchesMessage, HasEnvelope
    <2>3. m.from = e.from /\ Owner[e.to] \in Conversation(m)
        BY <2>1, <2>2 DEF EnvelopeMatchesMessage, UniqueRows
    <2>4. Owner[e.from] # a /\ Owner[e.to] # a
        BY <2>1, <2>3 DEF Involves, Conversation
    <2>5. e.message \notin doomed BY <1>3, <2>1, <2>2 DEF UniqueRows
    <2> QED BY <1>1, <2>2, <2>4, <2>5 DEF HasEnvelope
<1> QED BY <1>4, <1>5 DEF EnvelopeMatchesMessage, HasEnvelope, Conversation

\* A stored envelope and its logical message always agree, and neither outlives
\* the other.
THEOREM EnvelopesMatchMessages == Spec => []EnvelopeMatchesMessage
<1>1. Init => EnvelopeMatchesMessage BY DEF Init, EnvelopeMatchesMessage
<1>2. TypeOK /\ UniqueRows /\ EnvelopeMatchesMessage /\ [Next]_vars => EnvelopeMatchesMessage'
    <2> SUFFICES ASSUME TypeOK, UniqueRows, EnvelopeMatchesMessage, [Next]_vars
                 PROVE  EnvelopeMatchesMessage'
        OBVIOUS
    <2>1. ASSUME NEW b \in Batch, StoreEnvelopes(b) PROVE EnvelopeMatchesMessage'
        BY <2>1, StoreMatches
    <2>2. ASSUME NEW d \in Device, NEW id \in EnvelopeId, Ack(d, id)
          PROVE  EnvelopeMatchesMessage'
        BY <2>2, AckMatches
    <2>3. ASSUME NEW old \in SUBSET envelopes, CleanupDelivered(old)
          PROVE  EnvelopeMatchesMessage'
        BY <2>3, OrphansMatch DEF CleanupDelivered, KeepOnly
    <2>4. ASSUME NEW d \in Device, CleanupRevoked(d) PROVE EnvelopeMatchesMessage'
        BY <2>4, OrphansMatch DEF CleanupRevoked, KeepOnly
    <2>5. ASSUME NEW c, NEW old \in SUBSET messages, NEW deliveredOnly,
                 PruneConversation(c, old, deliveredOnly)
          PROVE  EnvelopeMatchesMessage'
        BY <2>5, PruneMatches
    <2>6. ASSUME NEW a \in Account, DeleteUser(a) PROVE EnvelopeMatchesMessage'
        BY <2>6, DeleteUserMatches
    <2>7. ASSUME UNCHANGED store PROVE EnvelopeMatchesMessage'
        BY <2>7 DEF store, EnvelopeMatchesMessage, HasEnvelope, Conversation
    <2> QED BY <2>1, <2>2, <2>3, <2>4, <2>5, <2>6, <2>7, Steps
<1> QED BY <1>1, <1>2, TypeCorrect, RowsUnique, PTL DEF Spec

(***************************************************************************)
(* Delivery records                                                        *)
(***************************************************************************)

\* New rows are undelivered, and a new logical message has no update yet.
LEMMA StoreAgrees ==
    ASSUME TypeOK, UniqueRows, EnvelopeMatchesMessage, DeliveryAgreement,
           NEW b \in Batch, StoreEnvelopes(b)
    PROVE  DeliveryAgreement'
<1>1. PICK place : envelopes' = envelopes \cup Added(b, place) BY AddedFresh
<1>2. \A r \in Added(b, place) : ~r.delivered BY DEF Added, Row
<1>3. updates' = updates BY DEF StoreEnvelopes
<1>4. messages \subseteq messages' BY DEF StoreEnvelopes, InsertMessage
<1>5. \A m \in messages' :
          \/ m \in messages
          \/ ~m.delivered /\ \A n \in messages : n.id # m.id
    BY DEF StoreEnvelopes, InsertMessage
<1>6. \A e \in envelopes', m \in messages' : e.message = m.id /\ e.delivered => m.delivered
    BY <1>1, <1>2, <1>5 DEF DeliveryAgreement, EnvelopeMatchesMessage
<1>7. \A m \in messages' : m.delivered <=> \E u \in updates : u.message = m.id
    BY <1>5 DEF DeliveryAgreement
<1> QED BY <1>3, <1>4, <1>6, <1>7 DEF DeliveryAgreement

\* An ack records the delivery at all three places, for the device that sent it.
LEMMA AckAgrees ==
    ASSUME TypeOK, EnvelopeMatchesMessage, DeliveryAgreement,
           NEW d \in Device, NEW id \in EnvelopeId, Ack(d, id)
    PROVE  DeliveryAgreement'
<1>1. PICK e, f :
          /\ e \in envelopes
          /\ envelopes' = (envelopes \ {e}) \cup {f}
          /\ f.from = e.from /\ f.message = e.message
          /\ messages' = {IF m.id = e.message THEN [m EXCEPT !.delivered = TRUE] ELSE m :
                            m \in messages}
          /\ RecordDelivery(Owner[e.from], e.message)
    BY AckRows
<1>2. \A m \in messages :
          LET n == [m EXCEPT !.delivered = TRUE]
          IN  n.id = m.id /\ n.from = m.from /\ n.delivered = TRUE
    BY DEF TypeOK, Message
<1>3. \A n \in messages' : \E m \in messages :
          /\ n.id = m.id /\ n.from = m.from
          /\ m.id = e.message => n.delivered
          /\ m.id # e.message => n = m
    BY <1>1, <1>2
<1>4. \A m \in messages : \E n \in messages' : n.id = m.id /\ n.from = m.from
    BY <1>1, <1>2
<1>5. /\ updates \subseteq updates'
      /\ \E u \in updates' : u.message = e.message
      /\ \A u \in updates' : \/ u \in updates
                             \/ u.message = e.message /\ u.account = Owner[e.from]
    <2>1. RecordDelivery(Owner[e.from], e.message) BY <1>1
    <2>2. CASE \E u \in updates : u.account = Owner[e.from] /\ u.message = e.message
        BY <2>1, <2>2 DEF RecordDelivery
    <2>3. CASE ~\E u \in updates : u.account = Owner[e.from] /\ u.message = e.message
        <3> DEFINE new == [cursor |-> lastUpdate + 1, account |-> Owner[e.from],
                           message |-> e.message]
        <3>1. new.message = e.message /\ new.account = Owner[e.from] OBVIOUS
        <3>2. updates' = updates \cup {new} BY <2>1, <2>3 DEF RecordDelivery
        <3> HIDE DEF new
        <3> QED BY <3>1, <3>2
    <2> QED BY <2>2, <2>3
<1>6. \A g \in envelopes' : \E h \in envelopes : g.message = h.message /\ (g = h \/ h = e)
    BY <1>1
<1>7. \A g \in envelopes', n \in messages' : g.message = n.id /\ g.delivered => n.delivered
    BY <1>3, <1>6 DEF DeliveryAgreement
<1>8. \A n \in messages' : n.delivered <=> \E u \in updates' : u.message = n.id
    BY <1>3, <1>5 DEF DeliveryAgreement
<1>9. \A u \in updates' : \E n \in messages' : n.id = u.message /\ u.account = Owner[n.from]
    <2>1. \E m \in messages : m.id = e.message /\ m.from = e.from
        BY <1>1 DEF EnvelopeMatchesMessage
    <2> QED BY <1>4, <1>5, <2>1 DEF DeliveryAgreement
<1> QED BY <1>7, <1>8, <1>9 DEF DeliveryAgreement

\* Dropping messages and updates together keeps the records in agreement.
LEMMA OrphansAgree ==
    ASSUME DeliveryAgreement, NEW kept \in SUBSET envelopes,
           envelopes' = kept, DropOrphans(kept)
    PROVE  DeliveryAgreement'
BY DEF DeliveryAgreement, DropOrphans, HasEnvelope

\* A prune drops the updates of exactly the messages whose envelopes it takes.
LEMMA PruneAgrees ==
    ASSUME UniqueRows, EnvelopeMatchesMessage, DeliveryAgreement,
           NEW c, NEW old \in SUBSET messages, NEW deliveredOnly,
           PruneConversation(c, old, deliveredOnly)
    PROVE  DeliveryAgreement'
<1> DEFINE candidates == {m \in old : Conversation(m) = c}
           selected == {m.id : m \in {n \in candidates : deliveredOnly => FullyDelivered(n)}}
           kept == {e \in envelopes : e.message \notin selected}
<1>1. /\ envelopes' = kept
      /\ messages' = messages \ {m \in candidates : ~HasEnvelope(kept, m.id)}
      /\ updates' = {u \in updates : u.message \notin selected}
    BY DEF PruneConversation, KeepOnly
<1>2. \A s \in selected : \E m \in candidates : m.id = s OBVIOUS
<1>3. candidates \subseteq messages OBVIOUS
<1>4. kept \subseteq envelopes /\ \A e \in envelopes : e \in kept <=> e.message \notin selected
    OBVIOUS
<1> HIDE DEF kept, selected, candidates
<1>5. \A m \in messages : m \in messages' <=> m.id \notin selected
    <2> SUFFICES ASSUME NEW m \in messages PROVE m \in messages' <=> m.id \notin selected
        OBVIOUS
    <2>1. ASSUME m.id \in selected PROVE m \notin messages'
        BY <1>1, <1>2, <1>3, <1>4, <2>1 DEF UniqueRows, HasEnvelope
    <2>2. ASSUME m.id \notin selected PROVE m \in messages'
        <3>1. PICK e \in envelopes : e.message = m.id
            BY DEF EnvelopeMatchesMessage, HasEnvelope
        <3>2. HasEnvelope(kept, m.id) BY <1>4, <2>2, <3>1 DEF HasEnvelope
        <3> QED BY <1>1, <3>2
    <2> QED BY <2>1, <2>2
<1>6. messages' \subseteq messages BY <1>1
<1> QED BY <1>1, <1>4, <1>5, <1>6 DEF DeliveryAgreement

\* Deleting an account drops the updates of exactly the conversations it takes.
LEMMA DeleteUserAgrees ==
    ASSUME UniqueRows, DeliveryAgreement, NEW a \in Account, DeleteUser(a)
    PROVE  DeliveryAgreement'
<1> DEFINE doomed == {m.id : m \in {n \in messages : Involves(n, a)}}
<1>1. envelopes' \subseteq envelopes BY DEF DeleteUser
<1>2. messages' = {m \in messages : ~Involves(m, a)} BY DEF DeleteUser
<1>3. updates' = {u \in updates : u.account # a /\ u.message \notin doomed}
    BY DEF DeleteUser
<1>4. \A s : s \in doomed <=> \E m \in messages : m.id = s /\ Involves(m, a) OBVIOUS
<1> HIDE DEF doomed
<1>5. \A m \in messages', u \in updates : u.message = m.id => u \in updates'
    BY <1>2, <1>3, <1>4 DEF DeliveryAgreement, UniqueRows, Involves
<1>6. \A u \in updates' : \E m \in messages' : m.id = u.message /\ u.account = Owner[m.from]
    BY <1>2, <1>3, <1>4 DEF DeliveryAgreement
<1> QED BY <1>1, <1>2, <1>3, <1>5, <1>6 DEF DeliveryAgreement

\* The three records of a delivery never disagree.
THEOREM DeliveriesAgree == Spec => []DeliveryAgreement
<1>1. Init => DeliveryAgreement BY DEF Init, DeliveryAgreement
<1>2. TypeOK /\ UniqueRows /\ EnvelopeMatchesMessage /\ DeliveryAgreement /\ [Next]_vars
        => DeliveryAgreement'
    <2> SUFFICES ASSUME TypeOK, UniqueRows, EnvelopeMatchesMessage, DeliveryAgreement,
                        [Next]_vars
                 PROVE  DeliveryAgreement'
        OBVIOUS
    <2>1. ASSUME NEW b \in Batch, StoreEnvelopes(b) PROVE DeliveryAgreement'
        BY <2>1, StoreAgrees
    <2>2. ASSUME NEW d \in Device, NEW id \in EnvelopeId, Ack(d, id)
          PROVE  DeliveryAgreement'
        BY <2>2, AckAgrees
    <2>3. ASSUME NEW old \in SUBSET envelopes, CleanupDelivered(old)
          PROVE  DeliveryAgreement'
        BY <2>3, OrphansAgree DEF CleanupDelivered, KeepOnly
    <2>4. ASSUME NEW d \in Device, CleanupRevoked(d) PROVE DeliveryAgreement'
        BY <2>4, OrphansAgree DEF CleanupRevoked, KeepOnly
    <2>5. ASSUME NEW c, NEW old \in SUBSET messages, NEW deliveredOnly,
                 PruneConversation(c, old, deliveredOnly)
          PROVE  DeliveryAgreement'
        BY <2>5, PruneAgrees
    <2>6. ASSUME NEW a \in Account, DeleteUser(a) PROVE DeliveryAgreement'
        BY <2>6, DeleteUserAgrees
    <2>7. ASSUME UNCHANGED store PROVE DeliveryAgreement'
        BY <2>7 DEF store, DeliveryAgreement
    <2> QED BY <2>1, <2>2, <2>3, <2>4, <2>5, <2>6, <2>7, Steps
<1> QED BY <1>1, <1>2, TypeCorrect, RowsUnique, EnvelopesMatchMessages, PTL DEF Spec

(***************************************************************************)
(* Retention                                                               *)
(***************************************************************************)

\* A cleanup is scheduled only for a device that no longer receives mail.
CleaningRevoked == \A d \in cleaning : deviceState[d] \in {"revoked", "gone"}

\* This holds throughout: devices are revoked before they are scheduled.
LEMMA CleaningIsRevoked == Spec => []CleaningRevoked
<1>1. Init => CleaningRevoked BY DEF Init, CleaningRevoked
<1>2. TypeOK /\ CleaningRevoked /\ [Next]_vars => CleaningRevoked'
    <2> SUFFICES ASSUME TypeOK, CleaningRevoked, [Next]_vars PROVE CleaningRevoked'
        OBVIOUS
    <2> USE DEF CleaningRevoked, roster
    <2>1. ASSUME NEW b \in Batch, StoreEnvelopes(b) PROVE CleaningRevoked'
        BY <2>1 DEF StoreEnvelopes
    <2>2. ASSUME NEW d \in Device, NEW id \in EnvelopeId, Ack(d, id) PROVE CleaningRevoked'
        BY <2>2 DEF Ack
    <2>3. ASSUME NEW old \in SUBSET envelopes, CleanupDelivered(old) PROVE CleaningRevoked'
        BY <2>3 DEF CleanupDelivered
    <2>4. ASSUME NEW d \in Device, CleanupRevoked(d) PROVE CleaningRevoked'
        BY <2>4 DEF CleanupRevoked
    <2>5. ASSUME NEW c, NEW old, NEW deliveredOnly, PruneConversation(c, old, deliveredOnly)
          PROVE  CleaningRevoked'
        BY <2>5 DEF PruneConversation
    <2>6. ASSUME NEW a \in Account, DeleteUser(a) PROVE CleaningRevoked'
        BY <2>6 DEF DeleteUser, TypeOK
    <2>7. ASSUME NEW d \in Device,
                 ActivateDevice(d) \/ RevokeOwnDevice(d) \/ AdminRevokeDevice(d)
          PROVE  CleaningRevoked'
        BY <2>7 DEF ActivateDevice, RevokeOwnDevice, AdminRevokeDevice, TypeOK
    <2>8. ASSUME NEW a \in Account, NEW state, ResetDevices(a) \/ SetUserState(a, state)
          PROVE  CleaningRevoked'
        BY <2>8 DEF ResetDevices, SetUserState, TypeOK
    <2>9. ASSUME NEW lost \in SUBSET cleaning, Crash(lost) PROVE CleaningRevoked'
        BY <2>9 DEF Crash
    <2>10. CASE UNCHANGED vars BY <2>10 DEF vars
    <2> QED BY <2>1, <2>2, <2>3, <2>4, <2>5, <2>6, <2>7, <2>8, <2>9, <2>10 DEF Next
<1> QED BY <1>1, <1>2, TypeCorrect, PTL DEF Spec

\* Without a forced prune, ciphertext nobody has acknowledged goes only with its
\* device or with an account of its conversation.
THEOREM UndeliveredIsKept == Spec => UndeliveredKept
<1> DEFINE Excused(e) ==
              \/ e.delivered \/ ForcePrune
              \/ \E f \in envelopes' : f.id = e.id
              \/ deviceState[e.to] \in {"revoked", "gone"}
              \/ \E a \in Account : accountState[a] # "deleted" /\ accountState'[a] = "deleted"
           A == \A e \in envelopes : Excused(e)
<1>1. ASSUME TypeOK, CleaningRevoked, [Next]_vars PROVE A
    <2> SUFFICES ASSUME NEW e \in envelopes PROVE Excused(e) OBVIOUS
    <2>1. ASSUME NEW b \in Batch, StoreEnvelopes(b) PROVE Excused(e)
        BY <2>1 DEF StoreEnvelopes, InsertEnvelopes
    <2>2. ASSUME NEW d \in Device, NEW id \in EnvelopeId, Ack(d, id) PROVE Excused(e)
        <3>1. PICK x, f :
                  x \in envelopes /\ envelopes' = (envelopes \ {x}) \cup {f} /\ f.id = x.id
            BY <1>1, <2>2, AckRows
        <3> QED BY <3>1
    <2>3. ASSUME NEW old \in SUBSET envelopes, CleanupDelivered(old) PROVE Excused(e)
        BY <2>3 DEF CleanupDelivered, KeepOnly
    <2>4. ASSUME NEW d \in Device, CleanupRevoked(d) PROVE Excused(e)
        BY <1>1, <2>4 DEF CleanupRevoked, KeepOnly, Mailbox, CleaningRevoked
    <2>5. ASSUME NEW c, NEW old \in SUBSET messages, NEW deliveredOnly \in BOOLEAN,
                 deliveredOnly \/ ForcePrune, PruneConversation(c, old, deliveredOnly)
          PROVE  Excused(e)
        <3> SUFFICES ASSUME deliveredOnly, ~e.delivered PROVE e \in envelopes'
            BY <2>5
        <3> DEFINE candidates == {m \in old : Conversation(m) = c}
                   selected == {m.id : m \in {n \in candidates :
                                                deliveredOnly => FullyDelivered(n)}}
        <3>1. envelopes' = {v \in envelopes : v.message \notin selected}
            BY <2>5 DEF PruneConversation, KeepOnly
        <3>2. e.message \notin selected BY DEF FullyDelivered
        <3> QED BY <3>1, <3>2
    <2>6. ASSUME NEW a \in Account, DeleteUser(a) PROVE Excused(e)
        BY <1>1, <2>6 DEF DeleteUser, TypeOK
    <2>7. ASSUME UNCHANGED store PROVE Excused(e) BY <2>7 DEF store
    <2> QED BY <1>1, <2>1, <2>2, <2>3, <2>4, <2>5, <2>6, <2>7, Steps
<1>2. TypeOK /\ CleaningRevoked /\ [Next]_vars => [A]_vars BY <1>1
<1> QED BY <1>2, TypeCorrect, CleaningIsRevoked, PTL DEF Spec, UndeliveredKept
=============================================================================
