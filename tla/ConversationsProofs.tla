-------------------------- MODULE ConversationsProofs --------------------------
(***************************************************************************)
(* A conversation between any devices of any accounts, however many        *)
(* messages there are and handlers are cut off.                            *)
(***************************************************************************)
EXTENDS Conversations, FiniteSetTheorems, Functions, TLAPS

(***************************************************************************)
(* Mailboxes are queues                                                    *)
(***************************************************************************)

LEMMA RangeOfAppend ==
    ASSUME NEW S, NEW s \in Seq(S), NEW e \in S
    PROVE  /\ Append(s, e) \in Seq(S)
           /\ Range(Append(s, e)) = Range(s) \cup {e}
<1>1. Len(Append(s, e)) = Len(s) + 1 /\ Append(s, e)[Len(s) + 1] = e OBVIOUS
<1>2. \A i \in 1 .. Len(s) : Append(s, e)[i] = s[i] OBVIOUS
<1>3. DOMAIN s = 1 .. Len(s) /\ DOMAIN Append(s, e) = 1 .. Len(s) + 1 /\ Len(s) \in Nat
    OBVIOUS
<1> QED BY <1>1, <1>2, <1>3 DEF Range

LEMMA RangeOfTail ==
    ASSUME NEW S, NEW s \in Seq(S), s # <<>>
    PROVE  /\ Tail(s) \in Seq(S) /\ Head(s) \in S /\ Head(s) \in Range(s)
           /\ Range(Tail(s)) \subseteq Range(s)
           /\ \A x \in Range(s) : x = Head(s) \/ x \in Range(Tail(s))
<1>1. Len(s) \in Nat /\ Len(s) > 0 /\ DOMAIN s = 1 .. Len(s) OBVIOUS
<1>2. Tail(s) \in Seq(S) /\ Len(Tail(s)) = Len(s) - 1 BY <1>1
<1>3. \A i \in 1 .. Len(s) - 1 : Tail(s)[i] = s[i + 1] BY <1>1
<1>4. Head(s) = s[1] /\ s[1] \in S BY <1>1
<1>5. DOMAIN Tail(s) = 1 .. Len(s) - 1 BY <1>2
<1>6. \A x \in Range(Tail(s)) : x \in Range(s)
  <2> SUFFICES ASSUME NEW i \in 1 .. Len(s) - 1 PROVE Tail(s)[i] \in Range(s)
      BY <1>5 DEF Range
  <2>1. i + 1 \in 1 .. Len(s) BY <1>1
  <2> QED BY <1>1, <1>3, <2>1 DEF Range
<1>7. \A x \in Range(s) : x = Head(s) \/ x \in Range(Tail(s))
  <2> SUFFICES ASSUME NEW i \in 1 .. Len(s), i # 1 PROVE s[i] \in Range(Tail(s))
      BY <1>1, <1>4 DEF Range
  <2>1. i - 1 \in 1 .. Len(s) - 1 /\ (i - 1) + 1 = i BY <1>1
  <2>2. Tail(s)[i - 1] = s[i] BY <1>3, <2>1
  <2> QED BY <1>5, <2>1, <2>2 DEF Range
<1>8. Head(s) \in Range(s) BY <1>1, <1>4 DEF Range
<1> QED BY <1>2, <1>4, <1>6, <1>7, <1>8

(***************************************************************************)
(* Types                                                                   *)
(***************************************************************************)

ContactOK(c) == c \in [Device -> {"none", "unverified", "verified"}]
StonesOK(s) ==
    /\ s \in [Device -> SUBSET [id : Ids, pending : BOOLEAN]]
    /\ \A d \in Device : \A t, u \in s[d] : t = u
OneEach(N) == \A n1, n2 \in N : n1.request = n2.request => n1 = n2
NotesOK(n) == n \in [Device -> SUBSET Note] /\ \A d \in Device : OneEach(n[d])
TextsOK(x, r) ==
    /\ x \in [Device -> SUBSET Message] /\ r \in [Device -> SUBSET Ids]
    /\ \A d \in Device : r[d] \subseteq IdsOf(x[d]) /\ \A m \in x[d] : m.kind = "text"
Meant(m) == m.kind = "response" => m.verdict # ""
OutboxOK(o) ==
    /\ o \in [Device -> SUBSET Message]
    /\ \A d \in Device : \A m \in o[d] : m.from = d /\ Meant(m)
MailOK(b) ==
    /\ b \in [Device -> Seq(Message)]
    /\ \A d \in Device : \A m \in Range(b[d]) : d \in Recipients(m) /\ Meant(m)
CountsOK == accepted \subseteq Ids /\ drawn \in 0 .. MaxDrawn

Types ==
    /\ ContactOK(contact) /\ StonesOK(tombstone) /\ NotesOK(notes) /\ TextsOK(texts, read)
    /\ OutboxOK(outbox) /\ MailOK(mailbox) /\ CountsOK

Bound == MaxDrawn \in Nat
LEMMA Bounded == Bound BY BoundAssumption DEF Bound

LEMMA FreshIds ==
    ASSUME Types, NEW n \in Nat, NEW j \in 1 .. n, Draw(n)
    PROVE  Fresh(j) \in Ids /\ Fresh(j) > drawn /\ Fresh(j) <= drawn'
<1>1. MaxDrawn \in Nat BY Bounded DEF Bound
<1>2. drawn \in 0 .. MaxDrawn BY DEF Types, CountsOK
<1>3. drawn + n <= MaxDrawn /\ drawn' = drawn + n BY DEF Draw
<1> HIDE DEF Types, Draw
<1> QED BY <1>1, <1>2, <1>3 DEF Ids, Fresh

\* A message with an id drawn just now.
LEMMA NewMessage ==
    ASSUME Types, NEW d \in Device, NEW n \in Nat, NEW j \in 1 .. n, Draw(n),
           NEW kind \in Kinds, NEW about \in SUBSET (Ids \cup {Reauth}),
           NEW verdict \in {"", "Accepted", "Rejected"}
    PROVE  [id |-> Fresh(j), kind |-> kind, from |-> d, about |-> about,
            verdict |-> verdict] \in Message
BY FreshIds DEF Message

LEMMA ReceiptForm ==
    ASSUME NEW d, NEW A, NEW w, w = [New(1, "read", d) EXCEPT !.about = A]
    PROVE  w = [id |-> Fresh(1), kind |-> "read", from |-> d, about |-> A, verdict |-> ""]
BY DEF New

LEMMA ReceiptIsMessage ==
    ASSUME Types, NEW d \in Device, NEW n \in Nat, 1 \in 1 .. n, Draw(n),
           NEW A \in SUBSET Ids, NEW w,
           w = [id |-> Fresh(1), kind |-> "read", from |-> d, about |-> A, verdict |-> ""]
    PROVE  /\ w \in Message /\ w.id = Fresh(1) /\ w.kind = "read" /\ w.from = d /\ w.about = A
<1>1. "read" \in Kinds BY DEF Kinds
<1>2. w \in Message BY <1>1, NewMessage
<1> QED BY <1>2

LEMMA UnreadIds ==
    ASSUME Types, NEW d \in Device
    PROVE  IdsOf(Unread(d)) \in SUBSET Ids
<1>1. \A m \in Unread(d) : m \in Message BY DEF Unread, Types, TextsOK
<1> QED BY <1>1 DEF IdsOf, Message

LEMMA ResponseIsMessage ==
    ASSUME Types, NEW d \in Device, NEW n \in Nat, NEW j \in 1 .. n, Draw(n),
           NEW r \in Ids \cup {Reauth}, NEW verdict \in {"Accepted", "Rejected"}
    PROVE  /\ Response(d, j, r, verdict) \in Message /\ Response(d, j, r, verdict).id = Fresh(j)
           /\ Response(d, j, r, verdict).kind = "response" /\ Response(d, j, r, verdict).from = d
           /\ Response(d, j, r, verdict).verdict = verdict
           /\ Response(d, j, r, verdict).about = {r}
<1>1. Response(d, j, r, verdict) = [id |-> Fresh(j), kind |-> "response", from |-> d,
                                    about |-> {r}, verdict |-> verdict]
  <2>1. PICK x : x = New(j, "response", d) OBVIOUS
  <2>2. Response(d, j, r, verdict) = [x EXCEPT !.about = {r}, !.verdict = verdict]
    BY <2>1 DEF Response
  <2> QED BY <2>1, <2>2 DEF New
<1>2. Response(d, j, r, verdict) \in Message BY <1>1, NewMessage DEF Kinds
<1> QED BY <1>1, <1>2

LEMMA PlainIsMessage ==
    ASSUME Types, NEW d \in Device, Draw(1), NEW kind \in Kinds
    PROVE  /\ New(1, kind, d) \in Message /\ New(1, kind, d).id = Fresh(1)
           /\ New(1, kind, d).kind = kind /\ New(1, kind, d).from = d
<1>1. 1 \in Nat /\ 1 \in 1 .. 1 OBVIOUS
<1>2. {} \in SUBSET (Ids \cup {Reauth}) OBVIOUS
<1>3. New(1, kind, d) \in Message BY <1>1, <1>2, NewMessage DEF New
<1> QED BY <1>3 DEF New

\* A deletion as TellDeletion sends it.
Del(d, id) == [id |-> id, kind |-> "deletion", from |-> d, about |-> {}, verdict |-> ""]

LEMMA UntoldAreDeletions ==
    ASSUME NEW d \in Device, NEW S \in SUBSET [id : Ids, pending : BOOLEAN], NEW box
    PROVE  \A m \in Untold(d, S, box) :
              /\ m \in Message /\ m.from = d
              /\ \E t \in S : t.pending /\ m = Del(d, t.id)
<1> TAKE m \in Untold(d, S, box)
<1>1. PICK t \in S : t.pending /\ m = Del(d, t.id) BY DEF Untold, Del
<1>2. t.id \in Ids OBVIOUS
<1>3. Del(d, t.id) \in Message /\ Del(d, t.id).from = d BY <1>2 DEF Del, Message, Kinds
<1> QED BY <1>1, <1>3

LEMMA SaveTypes ==
    ASSUME NotesOK(notes), NEW d \in Device, NEW n \in Note
    PROVE  Save(d, n) \in SUBSET Note /\ OneEach(Save(d, n))
BY DEF NotesOK, Save, NoteOn, OneEach

LEMMA KnownTypes ==
    ASSUME ContactOK(contact), NEW d \in Device
    PROVE  /\ Known(d) \in {"none", "unverified", "verified"}
           /\ Known(d) = "verified" => contact[d] = "verified"
BY DEF ContactOK, Known

LEMMA RequestNoteTypes ==
    ASSUME NotesOK(notes), NEW d \in Device, NEW r \in Ids \cup {Reauth}, NEW out \in BOOLEAN
    PROVE  RequestNote(d, r, out) \in Note
<1>1. NoteOn(d, r) # {} => (CHOOSE n \in NoteOn(d, r) : TRUE) \in NoteOn(d, r) OBVIOUS
<1>2. NoteOn(d, r) \subseteq Note BY DEF NotesOK, NoteOn
<1>3. NoteOn(d, r) # {} => (CHOOSE n \in NoteOn(d, r) : TRUE).state
                              \in {"Pending", "Accepted", "Rejected", "Completed"}
  BY <1>1, <1>2 DEF Note
<1> QED BY <1>3 DEF RequestNote, Note

LEMMA ReauthNotesTypes ==
    ASSUME NotesOK(notes), NEW d \in Device
    PROVE  ReauthNotes(d) \in SUBSET Note /\ OneEach(ReauthNotes(d))
<1>1. [request |-> Reauth, kind |-> "ChatRequest", state |-> "Pending", outgoing |-> FALSE] \in Note
  BY DEF Note
<1> QED BY <1>1, SaveTypes DEF ReauthNotes, NotesOK

LEMMA BuriedTypes ==
    ASSUME StonesOK(tombstone), NEW d \in Device, NEW id \in Ids, NEW pending \in BOOLEAN
    PROVE  /\ Buried(d, id, pending) \in SUBSET [id : Ids, pending : BOOLEAN]
           /\ \A t, u \in Buried(d, id, pending) : t = u
           /\ Buried(d, id, pending) # {}
<1>1. CASE tombstone[d] = {}
  <2>1. Buried(d, id, pending) = {[id |-> id, pending |-> pending]} BY <1>1 DEF Buried
  <2> QED BY <2>1
<1>2. CASE tombstone[d] # {}
  <2>1. PICK t \in tombstone[d] : tombstone[d] = {t} BY <1>2 DEF StonesOK
  <2>2. t.id \in Ids /\ t.pending \in BOOLEAN BY DEF StonesOK
  <2>3. PICK x : x = [id |-> IF t.pending THEN t.id
                             ELSE IF pending \/ id >= t.id THEN id ELSE t.id,
                      pending |-> t.pending \/ pending]
    OBVIOUS
  <2>4. Buried(d, id, pending) = {x} BY <1>2, <2>1, <2>3 DEF Buried
  <2>5. (t.pending \/ pending) \in BOOLEAN OBVIOUS
  <2>6. x \in [id : Ids, pending : BOOLEAN] BY <2>2, <2>3, <2>5
  <2> QED BY <2>4, <2>6
<1> QED BY <1>1, <1>2

LEMMA FirstMessage ==
    ASSUME Types, NEW d \in Device, mailbox[d] # <<>>
    PROVE  /\ Head(mailbox[d]) \in Message /\ Head(mailbox[d]) \in Range(mailbox[d])
           /\ d \in Recipients(Head(mailbox[d])) /\ Meant(Head(mailbox[d]))
<1>1. mailbox[d] \in Seq(Message) BY DEF Types, MailOK
<1>2. Head(mailbox[d]) \in Message /\ Head(mailbox[d]) \in Range(mailbox[d])
  BY <1>1, RangeOfTail
<1> QED BY <1>2 DEF Types, MailOK

\* The handlers of what arrives, by what they do to the tables.
Arrival(d, m) ==
    \/ ReceiveDeletion(d, m) \/ IgnoreOldText(d, m) \/ Quarantine(d, m) \/ ReceiveText(d, m)
    \/ ReceiveRead(d, m) \/ ReceiveRequest(d, m) \/ ReceiveResponse(d, m)

\* A step is one of these.
LEMMA Steps ==
    ASSUME Types, [Next]_vars
    PROVE  \/ UNCHANGED vars
           \/ \E d \in Device :
                 \/ Chat(d) \/ Look(d) \/ Verify(d) \/ SendText(d) \/ Delete(d) \/ TellDeletion(d)
                 \/ \E n \in notes[d] : DismissNote(d, n)
                 \/ \E n \in notes[d] : \E v \in {"Accepted", "Rejected"} : Answer(d, n, v)
                 \/ \E m \in outbox[d] : Accept(d, m) \/ Complete(d, m)
                 \/ \E m \in Message : /\ mailbox[d] # <<>> /\ m = Head(mailbox[d])
                                       /\ m \in Range(mailbox[d])
                                       /\ d \in Recipients(m) /\ Meant(m) /\ Arrival(d, m)
<1>1. CASE UNCHANGED vars BY <1>1
<1>2. ASSUME NEW d \in Device, Receive(d)
      PROVE  \E m \in Message : /\ mailbox[d] # <<>> /\ m = Head(mailbox[d])
                                /\ m \in Range(mailbox[d])
                                /\ d \in Recipients(m) /\ Meant(m) /\ Arrival(d, m)
  <2>1. mailbox[d] # <<>> /\ Arrival(d, Head(mailbox[d])) BY <1>2 DEF Receive, Arrival
  <2> QED BY <2>1, FirstMessage
<1>3. ASSUME NEW d \in Device, User(d)
      PROVE  \/ Chat(d) \/ Look(d) \/ Verify(d) \/ SendText(d) \/ Delete(d)
             \/ \E n \in notes[d] : DismissNote(d, n)
             \/ \E n \in notes[d] : \E v \in {"Accepted", "Rejected"} : Answer(d, n, v)
  BY <1>3 DEF User
<1> QED BY <1>1, <1>2, <1>3 DEF Next

LEMMA ContactStep == ASSUME Types, [Next]_vars PROVE ContactOK(contact)'
<1>0. ContactOK(contact) BY DEF Types
<1>1. ASSUME UNCHANGED contact PROVE ContactOK(contact)' BY <1>0, <1>1 DEF ContactOK
<1>2. ASSUME NEW d \in Device, NEW c \in {"none", "unverified", "verified"},
             contact' = [contact EXCEPT ![d] = c]
      PROVE  ContactOK(contact)'
  BY <1>0, <1>2 DEF ContactOK
<1>3. ASSUME UNCHANGED tables PROVE ContactOK(contact)' BY <1>1, <1>3 DEF tables
<1>4. ASSUME NEW d \in Device, contact' = [contact EXCEPT ![d] = Known(d)] PROVE ContactOK(contact)'
  BY <1>0, <1>2, <1>4, KnownTypes
<1>5. ASSUME NEW d \in Device, Chat(d) PROVE ContactOK(contact)' BY <1>4, <1>5 DEF Chat
<1>6. ASSUME NEW d \in Device, Verify(d) PROVE ContactOK(contact)' BY <1>2, <1>6 DEF Verify
<1>7. ASSUME NEW d \in Device, NEW n, NEW v, Answer(d, n, v) PROVE ContactOK(contact)'
  BY <1>1, <1>4, <1>7 DEF Answer
<1>8. ASSUME NEW d \in Device, NEW id, NEW p, Erase(d, id, p) PROVE ContactOK(contact)'
  BY <1>2, <1>8 DEF Erase
<1>9. ASSUME NEW d \in Device, NEW m, Arrival(d, m) PROVE ContactOK(contact)'
  <2>1. CASE ReceiveDeletion(d, m) BY <1>8, <2>1 DEF ReceiveDeletion
  <2>2. CASE Quarantine(d, m) \/ ReceiveRead(d, m)
    BY <1>1, <1>4, <2>2 DEF Quarantine, ReceiveRead, Meets
  <2>3. CASE ReceiveRequest(d, m) \/ ReceiveResponse(d, m)
    BY <1>1, <1>4, <2>3 DEF ReceiveRequest, ReceiveResponse
  <2>4. CASE IgnoreOldText(d, m) BY <1>3, <2>4 DEF IgnoreOldText
  <2>5. CASE ReceiveText(d, m) BY <1>1, <2>5 DEF ReceiveText
  <2> QED BY <1>9, <2>1, <2>2, <2>3, <2>4, <2>5 DEF Arrival
<1>10. ASSUME NEW d \in Device, Look(d) \/ SendText(d) \/ TellDeletion(d) PROVE ContactOK(contact)'
  BY <1>1, <1>10 DEF Look, SendText, TellDeletion
<1>11. ASSUME NEW d \in Device, Delete(d) PROVE ContactOK(contact)' BY <1>8, <1>11 DEF Delete
<1>12. ASSUME NEW d \in Device, NEW m, DismissNote(d, m) \/ Accept(d, m) \/ Complete(d, m)
       PROVE  ContactOK(contact)'
  BY <1>1, <1>3, <1>12 DEF DismissNote, Accept, Complete
<1>13. ASSUME UNCHANGED vars PROVE ContactOK(contact)' BY <1>3, <1>13 DEF vars
<1> QED BY <1>5, <1>6, <1>7, <1>9, <1>10, <1>11, <1>12, <1>13, Steps

LEMMA ToldStone ==
    ASSUME NEW t \in [id : Ids, pending : BOOLEAN]
    PROVE  [t EXCEPT !.pending = FALSE] \in [id : Ids, pending : BOOLEAN]
OBVIOUS

LEMMA StonesStep == ASSUME Types, [Next]_vars PROVE StonesOK(tombstone)'
<1>0. StonesOK(tombstone) BY DEF Types
<1>1. ASSUME UNCHANGED tombstone PROVE StonesOK(tombstone)' BY <1>0, <1>1 DEF StonesOK
<1>2. ASSUME NEW d \in Device, NEW S \in SUBSET [id : Ids, pending : BOOLEAN],
             \A t, u \in S : t = u, tombstone' = [tombstone EXCEPT ![d] = S]
      PROVE  StonesOK(tombstone)'
  BY <1>0, <1>2 DEF StonesOK
<1>3. ASSUME UNCHANGED tables PROVE StonesOK(tombstone)' BY <1>1, <1>3 DEF tables
<1>4. ASSUME NEW d \in Device, NEW id \in Ids, NEW p \in BOOLEAN, Erase(d, id, p)
      PROVE  StonesOK(tombstone)'
  BY <1>0, <1>2, <1>4, BuriedTypes DEF Erase
<1>5. ASSUME NEW d \in Device, Verify(d) PROVE StonesOK(tombstone)'
  <2>1. tombstone' = [tombstone EXCEPT ![d] = {}] BY <1>5 DEF Verify
  <2> QED BY <1>2, <2>1
<1>6. ASSUME NEW d \in Device, Delete(d) PROVE StonesOK(tombstone)'
  <2>1. Draw(1) /\ Erase(d, Fresh(1), TRUE) BY <1>6 DEF Delete
  <2>2. 1 \in Nat /\ 1 \in 1 .. 1 OBVIOUS
  <2>3. Fresh(1) \in Ids BY <2>1, <2>2, FreshIds
  <2> QED BY <1>4, <2>1, <2>3
<1>7. ASSUME NEW d \in Device, TellDeletion(d) PROVE StonesOK(tombstone)'
  <2>1. CASE UNCHANGED tombstone BY <1>1, <2>1
  <2>2. CASE tombstone' = [tombstone EXCEPT ![d] = {[t EXCEPT !.pending = FALSE] : t \in @}]
    <3>1. PICK S : S = {[t EXCEPT !.pending = FALSE] : t \in tombstone[d]} OBVIOUS
    <3>4. \A t \in tombstone[d] : [t EXCEPT !.pending = FALSE] \in [id : Ids, pending : BOOLEAN]
      BY <1>0, ToldStone DEF StonesOK
    <3>2. S \in SUBSET [id : Ids, pending : BOOLEAN] BY <3>1, <3>4
    <3>3. \A t, u \in S : t = u BY <1>0, <3>1 DEF StonesOK
    <3> QED BY <1>2, <2>2, <3>1, <3>2, <3>3
  <2> QED BY <1>7, <2>1, <2>2 DEF TellDeletion
<1>8. ASSUME NEW d \in Device, NEW m, Complete(d, m) PROVE StonesOK(tombstone)'
  <2>1. PICK S : S = {IF t.id = m.id THEN [t EXCEPT !.pending = FALSE] ELSE t : t \in tombstone[d]}
    OBVIOUS
  <2>5. \A t \in tombstone[d] : /\ [t EXCEPT !.pending = FALSE] \in [id : Ids, pending : BOOLEAN]
                                /\ t \in [id : Ids, pending : BOOLEAN]
    BY <1>0, ToldStone DEF StonesOK
  <2>2. S \in SUBSET [id : Ids, pending : BOOLEAN] BY <2>1, <2>5
  <2>3. \A t, u \in S : t = u
    <3> SUFFICES ASSUME NEW t \in S, NEW u \in S PROVE t = u OBVIOUS
    <3>1. PICK t0 \in tombstone[d] :
              t = IF t0.id = m.id THEN [t0 EXCEPT !.pending = FALSE] ELSE t0
      BY <2>1
    <3>2. PICK u0 \in tombstone[d] :
              u = IF u0.id = m.id THEN [u0 EXCEPT !.pending = FALSE] ELSE u0
      BY <2>1
    <3>3. t0 = u0 BY <1>0 DEF StonesOK
    <3> QED BY <3>1, <3>2, <3>3
  <2>4. tombstone' = [tombstone EXCEPT ![d] = S] BY <1>8, <2>1 DEF Complete
  <2> QED BY <1>2, <2>2, <2>3, <2>4
<1>9. ASSUME NEW d \in Device, NEW m \in Message, Arrival(d, m) PROVE StonesOK(tombstone)'
  <2>1. CASE ReceiveDeletion(d, m)
    <3>1. m.id \in Ids BY DEF Message
    <3> QED BY <1>4, <2>1, <3>1 DEF ReceiveDeletion
  <2>2. CASE Quarantine(d, m) \/ ReceiveRead(d, m) \/ ReceiveRequest(d, m) \/ ReceiveResponse(d, m)
    BY <1>1, <2>2 DEF Quarantine, ReceiveRead, ReceiveRequest, ReceiveResponse
  <2>3. CASE IgnoreOldText(d, m) \/ ReceiveText(d, m)
    BY <1>1, <1>3, <2>3 DEF IgnoreOldText, ReceiveText
  <2> QED BY <1>9, <2>1, <2>2, <2>3 DEF Arrival
<1>10. ASSUME NEW d \in Device, Chat(d) \/ Look(d) \/ SendText(d) PROVE StonesOK(tombstone)'
  BY <1>1, <1>10 DEF Chat, Look, SendText
<1>11. ASSUME NEW d \in Device, NEW n, NEW v, Answer(d, n, v) PROVE StonesOK(tombstone)'
  BY <1>1, <1>11 DEF Answer
<1>12. ASSUME NEW d \in Device, NEW m, DismissNote(d, m) \/ Accept(d, m) PROVE StonesOK(tombstone)'
  BY <1>1, <1>3, <1>12 DEF DismissNote, Accept
<1>13. ASSUME UNCHANGED vars PROVE StonesOK(tombstone)' BY <1>3, <1>13 DEF vars
<1> QED BY <1>5, <1>6, <1>7, <1>8, <1>9, <1>10, <1>11, <1>12, <1>13, Steps

LEMMA NotesStep == ASSUME Types, [Next]_vars PROVE NotesOK(notes)'
<1>0. NotesOK(notes) BY DEF Types
<1>1. ASSUME UNCHANGED notes PROVE NotesOK(notes)' BY <1>0, <1>1 DEF NotesOK
<1>2. ASSUME NEW d \in Device, NEW S \in SUBSET Note, OneEach(S), notes' = [notes EXCEPT ![d] = S]
      PROVE  NotesOK(notes)'
  BY <1>0, <1>2 DEF NotesOK
<1>3. ASSUME UNCHANGED tables PROVE NotesOK(notes)' BY <1>1, <1>3 DEF tables
<1>4. ASSUME NEW d \in Device, NEW n \in Note, notes' = [notes EXCEPT ![d] = Save(d, n)]
      PROVE  NotesOK(notes)'
  BY <1>0, <1>2, <1>4, SaveTypes
<1>5. ASSUME NEW d \in Device, NEW id, NEW p, Erase(d, id, p) PROVE NotesOK(notes)'
  <2>1. OneEach({}) BY DEF OneEach
  <2> QED BY <1>2, <1>5, <2>1 DEF Erase
<1>6. ASSUME NEW d \in Device, Chat(d) PROVE NotesOK(notes)'
  <2>1. CASE UNCHANGED notes BY <1>1, <2>1
  <2>2. CASE Draw(1) /\ notes' = [notes EXCEPT ![d] = Save(d, RequestNote(d, Fresh(1), TRUE))]
    <3>1. 1 \in Nat /\ 1 \in 1 .. 1 OBVIOUS
    <3>2. Fresh(1) \in Ids BY <2>2, <3>1, FreshIds
    <3>3. RequestNote(d, Fresh(1), TRUE) \in Note BY <1>0, <3>2, RequestNoteTypes
    <3> QED BY <1>4, <2>2, <3>3
  <2> QED BY <1>6, <2>1, <2>2 DEF Chat
<1>7. ASSUME NEW d \in Device, Verify(d) PROVE NotesOK(notes)'
  <2>1. CASE UNCHANGED notes BY <1>1, <2>1
  <2>2. CASE \E n \in notes[d] :
               notes' = [notes EXCEPT ![d] = Save(d, [n EXCEPT !.state = "Completed"])]
    <3>1. PICK n \in notes[d] :
              notes' = [notes EXCEPT ![d] = Save(d, [n EXCEPT !.state = "Completed"])]
      BY <2>2
    <3>2. [n EXCEPT !.state = "Completed"] \in Note BY <1>0 DEF NotesOK, Note
    <3> QED BY <1>4, <3>1, <3>2
  <2> QED BY <1>7, <2>1, <2>2 DEF Verify
<1>8. ASSUME NEW d \in Device, NEW r \in Ids \cup {Reauth}, NEW v \in {"", "Accepted", "Rejected"},
             v # ""
      PROVE  ResponseNote(r, v) \in Note
  BY <1>8 DEF ResponseNote, Note
<1>9. ASSUME NEW d \in Device, NEW n \in notes[d], NEW v \in {"Accepted", "Rejected"},
             Answer(d, n, v)
      PROVE  NotesOK(notes)'
  <2>1. n.request \in Ids \cup {Reauth} BY <1>0 DEF NotesOK, Note
  <2>2. ResponseNote(n.request, v) \in Note BY <1>8, <2>1
  <2> QED BY <1>1, <1>4, <1>9, <2>2 DEF Answer
<1>10. ASSUME NEW d \in Device, NEW n, DismissNote(d, n) PROVE NotesOK(notes)'
  <2>1. notes[d] \ {n} \in SUBSET Note /\ OneEach(notes[d] \ {n}) BY <1>0 DEF NotesOK, OneEach
  <2> QED BY <1>2, <1>10, <2>1 DEF DismissNote
<1>11. ASSUME NEW d \in Device, Delete(d) PROVE NotesOK(notes)' BY <1>5, <1>11 DEF Delete
<1>12. ASSUME NEW d \in Device, Look(d) \/ SendText(d) \/ TellDeletion(d) PROVE NotesOK(notes)'
  BY <1>1, <1>12 DEF Look, SendText, TellDeletion
<1>13. ASSUME NEW d \in Device, NEW m, Accept(d, m) \/ Complete(d, m) PROVE NotesOK(notes)'
  BY <1>1, <1>3, <1>13 DEF Accept, Complete
<1>14. ASSUME UNCHANGED vars PROVE NotesOK(notes)' BY <1>3, <1>14 DEF vars
<1>15. ASSUME NEW d \in Device, NEW m \in Message, Meant(m), Arrival(d, m) PROVE NotesOK(notes)'
  <2>1. CASE ReceiveDeletion(d, m) BY <1>5, <2>1 DEF ReceiveDeletion
  <2>2. CASE Quarantine(d, m) BY <1>0, <1>2, <2>2, ReauthNotesTypes DEF Quarantine
  <2>3. CASE ReceiveRequest(d, m)
    <3>1. m.id \in Ids \cup {Reauth} /\ (~Inbound(d, m)) \in BOOLEAN BY DEF Message, Inbound, Own
    <3>2. RequestNote(d, m.id, ~Inbound(d, m)) \in Note BY <1>0, <3>1, RequestNoteTypes
    <3> QED BY <1>4, <2>3, <3>2 DEF ReceiveRequest
  <2>4. CASE ReceiveResponse(d, m)
    <3>1. PICK r \in m.about : notes' = [notes EXCEPT ![d] = Save(d, ResponseNote(r, m.verdict))]
      BY <2>4 DEF ReceiveResponse
    <3>2. r \in Ids \cup {Reauth} /\ m.verdict \in {"", "Accepted", "Rejected"} BY DEF Message
    <3>3. m.verdict # "" BY <1>15, <2>4 DEF Meant, ReceiveResponse
    <3>4. ResponseNote(r, m.verdict) \in Note BY <1>8, <3>2, <3>3
    <3> QED BY <1>4, <3>1, <3>4
  <2>5. CASE IgnoreOldText(d, m) BY <1>3, <2>5 DEF IgnoreOldText
  <2>6. CASE ReceiveText(d, m) \/ ReceiveRead(d, m) BY <1>1, <2>6 DEF ReceiveText, ReceiveRead
  <2> QED BY <1>15, <2>1, <2>2, <2>3, <2>4, <2>5, <2>6 DEF Arrival
<1> QED BY <1>6, <1>7, <1>9, <1>10, <1>11, <1>12, <1>13, <1>14, <1>15, Steps

LEMMA IdsOfMessages ==
    ASSUME NEW S \in SUBSET Message
    PROVE  IdsOf(S) \in SUBSET Ids
BY DEF IdsOf, Message

LEMMA UnreadAreShown == ASSUME NEW d \in Device PROVE IdsOf(Unread(d)) \subseteq IdsOf(texts[d])
BY DEF IdsOf, Unread

LEMMA TextsStep == ASSUME Types, [Next]_vars PROVE TextsOK(texts, read)'
<1>0. TextsOK(texts, read) BY DEF Types
<1>1. ASSUME UNCHANGED <<texts, read>> PROVE TextsOK(texts, read)' BY <1>0, <1>1 DEF TextsOK
<1>2. ASSUME NEW d \in Device, NEW X \in SUBSET Message, NEW R \in SUBSET IdsOf(X),
             \A m \in X : m.kind = "text",
             texts' = [texts EXCEPT ![d] = X], read' = [read EXCEPT ![d] = R]
      PROVE  TextsOK(texts, read)'
  <2>1. R \in SUBSET Ids BY IdsOfMessages
  <2> QED BY <1>0, <1>2, <2>1 DEF TextsOK
<1>3. ASSUME NEW d \in Device, NEW A \in SUBSET IdsOf(texts[d]), UNCHANGED texts,
             read' = [read EXCEPT ![d] = @ \cup A]
      PROVE  TextsOK(texts, read)'
  <2>1. texts' = [texts EXCEPT ![d] = texts[d]] BY <1>0, <1>3 DEF TextsOK
  <2>2. read[d] \cup A \in SUBSET IdsOf(texts[d]) BY <1>0 DEF TextsOK
  <2>3. texts[d] \in SUBSET Message /\ \A m \in texts[d] : m.kind = "text" BY <1>0 DEF TextsOK
  <2> QED BY <1>2, <1>3, <2>1, <2>2, <2>3
<1>4. ASSUME NEW d \in Device, NEW m \in Message, m.kind = "text", NEW A \in SUBSET {m.id},
             texts' = [texts EXCEPT ![d] = @ \cup {m}], read' = [read EXCEPT ![d] = @ \cup A]
      PROVE  TextsOK(texts, read)'
  <2>1. IdsOf(texts[d] \cup {m}) = IdsOf(texts[d]) \cup {m.id} BY DEF IdsOf
  <2>2. read[d] \cup A \in SUBSET IdsOf(texts[d] \cup {m}) BY <1>0, <2>1 DEF TextsOK
  <2>3. texts[d] \cup {m} \in SUBSET Message /\ \A x \in texts[d] \cup {m} : x.kind = "text"
    BY <1>0, <1>4 DEF TextsOK
  <2> QED BY <1>2, <1>4, <2>2, <2>3
<1>5. ASSUME NEW d \in Device, NEW m \in Message, m.kind = "text",
             texts' = [texts EXCEPT ![d] = @ \cup {m}], UNCHANGED read
      PROVE  TextsOK(texts, read)'
  <2>1. read' = [read EXCEPT ![d] = @ \cup {}] BY <1>0, <1>5 DEF TextsOK
  <2>2. {} \in SUBSET {m.id} OBVIOUS
  <2> QED BY <1>4, <1>5, <2>1, <2>2
<1>6. ASSUME NEW d \in Device, NEW id, NEW p, Erase(d, id, p) PROVE TextsOK(texts, read)'
  <2>1. {} \in SUBSET Message /\ {} \in SUBSET IdsOf({}) /\ \A m \in {} : m.kind = "text" OBVIOUS
  <2>2. texts' = [texts EXCEPT ![d] = {}] /\ read' = [read EXCEPT ![d] = {}] BY <1>6 DEF Erase
  <2> QED BY <1>2, <2>1, <2>2
<1>7. ASSUME NEW d \in Device, Look(d) PROVE TextsOK(texts, read)'
  BY <1>1, <1>3, <1>7, UnreadAreShown DEF Look
<1>8. ASSUME NEW d \in Device, NEW n, NEW v, Answer(d, n, v) PROVE TextsOK(texts, read)'
  BY <1>1, <1>3, <1>8, UnreadAreShown DEF Answer
<1>9. ASSUME NEW d \in Device, SendText(d) PROVE TextsOK(texts, read)'
  <2>1. Draw(1) /\ "text" \in Kinds BY <1>9 DEF SendText, Kinds
  <2>2. PICK w : w = New(1, "text", d) OBVIOUS
  <2>3. w \in Message /\ w.kind = "text" BY <2>1, <2>2, PlainIsMessage
  <2>4. texts' = [texts EXCEPT ![d] = @ \cup {w}] /\ UNCHANGED read BY <1>9, <2>2 DEF SendText
  <2> QED BY <1>5, <2>3, <2>4
<1>10. ASSUME NEW d \in Device, Delete(d) PROVE TextsOK(texts, read)' BY <1>6, <1>10 DEF Delete
<1>11. ASSUME NEW d \in Device, Chat(d) \/ Verify(d) \/ TellDeletion(d) PROVE TextsOK(texts, read)'
  BY <1>1, <1>11 DEF Chat, Verify, TellDeletion
<1>12. ASSUME NEW d \in Device, NEW m, DismissNote(d, m) \/ Accept(d, m) \/ Complete(d, m)
       PROVE  TextsOK(texts, read)'
  BY <1>1, <1>12 DEF DismissNote, Accept, Complete, tables
<1>13. ASSUME NEW d \in Device, NEW m \in Message, Arrival(d, m) PROVE TextsOK(texts, read)'
  <2>1. CASE ReceiveDeletion(d, m) BY <1>6, <2>1 DEF ReceiveDeletion
  <2>2. CASE Quarantine(d, m) BY <1>5, <2>2 DEF Quarantine
  <2>3. CASE ReceiveText(d, m)
    <3>1. m.kind = "text" /\ texts' = [texts EXCEPT ![d] = @ \cup {m}] BY <2>3 DEF ReceiveText
    <3>2. UNCHANGED read \/ read' = [read EXCEPT ![d] = @ \cup {m.id}] BY <2>3 DEF ReceiveText
    <3> QED BY <1>4, <1>5, <3>1, <3>2
  <2>4. CASE ReceiveRead(d, m)
    <3>1. m.about \cap IdsOf({t \in texts[d] : ~Inbound(d, t)}) \in SUBSET IdsOf(texts[d])
      BY DEF IdsOf
    <3>2. PICK A : A = m.about \cap IdsOf({t \in texts[d] : ~Inbound(d, t)}) OBVIOUS
    <3>3. UNCHANGED texts /\ read' = [read EXCEPT ![d] = @ \cup A] BY <2>4, <3>2 DEF ReceiveRead
    <3> QED BY <1>3, <3>1, <3>2, <3>3
  <2>5. CASE IgnoreOldText(d, m) \/ ReceiveRequest(d, m) \/ ReceiveResponse(d, m)
    BY <1>1, <2>5 DEF IgnoreOldText, ReceiveRequest, ReceiveResponse, tables
  <2> QED BY <1>13, <2>1, <2>2, <2>3, <2>4, <2>5 DEF Arrival
<1>14. ASSUME UNCHANGED vars PROVE TextsOK(texts, read)' BY <1>1, <1>14 DEF vars, tables
<1> QED BY <1>7, <1>8, <1>9, <1>10, <1>11, <1>12, <1>13, <1>14, Steps


(***************************************************************************)
(* What a step puts into an outbox                                         *)
(***************************************************************************)

\* A text from the other account that is here, or has just come.
Came(d, i) == \E t \in texts[d] \cup Range(mailbox[d]) : t.id = i /\ Inbound(d, t)

\* A message d has drawn an id for in this step.
Sent(d, m) ==
    /\ m \in Message /\ m.from = d /\ Meant(m)
    /\ m.id > drawn /\ m.id <= drawn'
    /\ m.kind # "deletion"
    /\ m.kind = "read" => \A i \in m.about : <<d, i>> \in seen' /\ Came(d, i)
    /\ m.kind = "response" => \E r : m.about = {r}
SingleId(N) == \A m1, m2 \in N : m1.id = m2.id => m1 = m2
Told(d, m) == \E t \in tombstone'[d] : t.pending /\ m = Del(d, t.id)

\* The outbox of d gains messages of N and deletions that were to be told.
Posts(d, N) ==
    /\ \A m \in N : Sent(d, m)
    /\ SingleId(N)
    /\ \E X : /\ outbox' = [outbox EXCEPT ![d] = X]
              /\ \A m \in X : m \in outbox[d] \/ m \in N \/ Told(d, m)

LEMMA NothingPosted ==
    ASSUME Types, NEW d \in Device, NEW X \in SUBSET outbox[d], outbox' = [outbox EXCEPT ![d] = X]
    PROVE  Posts(d, {})
BY DEF Posts, SingleId

LEMMA OnePosted ==
    ASSUME Types, NEW d \in Device, NEW w, Sent(d, w), outbox' = [outbox EXCEPT ![d] = @ \cup {w}]
    PROVE  Posts(d, {w})
<1>1. outbox' = [outbox EXCEPT ![d] = outbox[d] \cup {w}] OBVIOUS
<1>2. \A m \in outbox[d] \cup {w} : m \in outbox[d] \/ m \in {w} \/ Told(d, m) OBVIOUS
<1> QED BY <1>1, <1>2 DEF Posts, SingleId

LEMMA UnreadCame == ASSUME NEW d \in Device PROVE \A i \in IdsOf(Unread(d)) : Came(d, i)
BY DEF IdsOf, Unread, Came

\* A receipt says what the user has before his eyes.
LEMMA ReceiptSent ==
    ASSUME Types, NEW d \in Device, NEW n \in Nat, 1 \in 1 .. n, Draw(n), NEW A \in SUBSET Ids,
           \A i \in A : <<d, i>> \in seen' /\ Came(d, i),
           NEW w, w = [New(1, "read", d) EXCEPT !.about = A]
    PROVE  Sent(d, w) /\ w.kind = "read" /\ w.id = Fresh(1)
<1>1. w = [id |-> Fresh(1), kind |-> "read", from |-> d, about |-> A, verdict |-> ""]
  BY ReceiptForm
<1>2. w \in Message /\ w.id = Fresh(1) /\ w.kind = "read" /\ w.from = d /\ w.about = A
  BY <1>1, ReceiptIsMessage
<1>3. Fresh(1) > drawn /\ Fresh(1) <= drawn' BY FreshIds
<1> QED BY <1>2, <1>3 DEF Sent, Meant

LEMMA PlainSent ==
    ASSUME Types, NEW d \in Device, Draw(1), NEW kind \in {"text", "request"}
    PROVE  Sent(d, New(1, kind, d)) /\ New(1, kind, d).id = Fresh(1)
           /\ New(1, kind, d).kind = kind
<1>1. 1 \in Nat /\ 1 \in 1 .. 1 /\ kind \in Kinds BY DEF Kinds
<1>2. PICK w : w = New(1, kind, d) OBVIOUS
<1>3. w \in Message /\ w.id = Fresh(1) /\ w.kind = kind /\ w.from = d
  BY <1>1, <1>2, PlainIsMessage
<1>4. Fresh(1) > drawn /\ Fresh(1) <= drawn' BY <1>1, FreshIds
<1>5. Sent(d, w) BY <1>3, <1>4 DEF Sent, Meant
<1> QED BY <1>2, <1>3, <1>5

LEMMA ChatPosts ==
    ASSUME Types, NEW d \in Device, Chat(d) PROVE UNCHANGED outbox \/ \E N : Posts(d, N)
<1>1. \/ UNCHANGED outbox
      \/ Draw(1) /\ outbox' = [outbox EXCEPT ![d] = @ \cup {New(1, "request", d)}]
  BY DEF Chat
<1>2. CASE Draw(1) /\ outbox' = [outbox EXCEPT ![d] = @ \cup {New(1, "request", d)}]
  <2>1. PICK w : w = New(1, "request", d) OBVIOUS
  <2>2. Sent(d, w) BY <1>2, <2>1, PlainSent
  <2>3. outbox' = [outbox EXCEPT ![d] = @ \cup {w}] BY <1>2, <2>1
  <2> QED BY <2>2, <2>3, OnePosted
<1> QED BY <1>1, <1>2

LEMMA LookPosts == ASSUME Types, NEW d \in Device, Look(d) PROVE \E N : Posts(d, N)
<1>1. Draw(1) /\ 1 \in Nat /\ 1 \in 1 .. 1 BY DEF Look
<1>2. PICK A : A = IdsOf(Unread(d)) OBVIOUS
<1>3. PICK w : w = [New(1, "read", d) EXCEPT !.about = A] OBVIOUS
<1>4. outbox' = [outbox EXCEPT ![d] = @ \cup {w}] BY <1>2, <1>3 DEF Look, Receipt
<1>5. A \in SUBSET Ids BY <1>2, UnreadIds
<1>6. seen' = seen \cup ({d} \X IdsOf(texts[d])) BY DEF Look
<1>7. \A i \in A : <<d, i>> \in seen' /\ Came(d, i) BY <1>2, <1>6, UnreadAreShown, UnreadCame
<1>8. Sent(d, w) BY <1>1, <1>3, <1>5, <1>7, ReceiptSent
<1> QED BY <1>4, <1>8, OnePosted

LEMMA AnswerPosts ==
    ASSUME Types, NEW d \in Device, NEW n \in notes[d], NEW v \in {"Accepted", "Rejected"},
           Answer(d, n, v)
    PROVE  \E N : Posts(d, N)
<1>0. n.request \in Ids \cup {Reauth} BY DEF Types, NotesOK, Note
<1>1. CASE /\ Draw(1)
           /\ outbox' = [outbox EXCEPT ![d] = @ \cup {Response(d, 1, n.request, v)}]
  <2>1. PICK w : w = Response(d, 1, n.request, v) OBVIOUS
  <2>2. 1 \in Nat /\ 1 \in 1 .. 1 OBVIOUS
  <2>3. /\ w \in Message /\ w.id = Fresh(1) /\ w.kind = "response" /\ w.from = d /\ w.verdict = v
        /\ w.about = {n.request}
    BY <1>0, <1>1, <2>1, <2>2, ResponseIsMessage
  <2>4. Fresh(1) > drawn /\ Fresh(1) <= drawn' BY <1>1, <2>2, FreshIds
  <2>5. Sent(d, w) BY <2>3, <2>4 DEF Sent, Meant
  <2> QED BY <1>1, <2>1, <2>5, OnePosted
<1>2. CASE /\ Draw(2)
           /\ outbox' = [outbox EXCEPT ![d] = @ \cup {Receipt(d, 1), Response(d, 2, n.request, v)}]
           /\ seen' = seen \cup ({d} \X IdsOf(texts[d]))
  <2>1. PICK w : w = Response(d, 2, n.request, v) OBVIOUS
  <2>2. 2 \in Nat /\ 1 \in 1 .. 2 /\ 2 \in 1 .. 2 OBVIOUS
  <2>3. /\ w \in Message /\ w.id = Fresh(2) /\ w.kind = "response" /\ w.from = d /\ w.verdict = v
        /\ w.about = {n.request}
    BY <1>0, <1>2, <2>1, <2>2, ResponseIsMessage
  <2>4. Fresh(2) > drawn /\ Fresh(2) <= drawn' BY <1>2, <2>2, FreshIds
  <2>5. Sent(d, w) BY <2>3, <2>4 DEF Sent, Meant
  <2>6. PICK A : A = IdsOf(Unread(d)) OBVIOUS
  <2>7. PICK u : u = [New(1, "read", d) EXCEPT !.about = A] OBVIOUS
  <2>8. u = Receipt(d, 1) BY <2>6, <2>7 DEF Receipt
  <2>9. A \in SUBSET Ids BY <2>6, UnreadIds
  <2>10. \A i \in A : <<d, i>> \in seen' /\ Came(d, i) BY <1>2, <2>6, UnreadAreShown, UnreadCame
  <2>11. Sent(d, u) /\ u.id = Fresh(1) BY <1>2, <2>2, <2>7, <2>9, <2>10, ReceiptSent
  <2>12. Fresh(1) # Fresh(2) BY DEF Fresh, Types, CountsOK
  <2>13. SingleId({u, w}) BY <2>3, <2>11, <2>12 DEF SingleId
  <2>14. outbox' = [outbox EXCEPT ![d] = outbox[d] \cup {u, w}] BY <1>2, <2>1, <2>8
  <2>15. \A m \in {u, w} : Sent(d, m) BY <2>5, <2>11
  <2>16. \A m \in outbox[d] \cup {u, w} : m \in outbox[d] \/ m \in {u, w} \/ Told(d, m) OBVIOUS
  <2>17. Posts(d, {u, w}) BY ONLY <2>13, <2>14, <2>15, <2>16 DEF Posts
  <2> QED BY <2>17
<1> QED BY <1>1, <1>2 DEF Answer


LEMMA SendTextPosts ==
    ASSUME Types, NEW d \in Device, SendText(d)
    PROVE  \E w : /\ Posts(d, {w}) /\ w \in Message /\ w.kind = "text" /\ w.from = d
                  /\ w.id = Fresh(1) /\ w.id > drawn /\ w.id <= drawn'
                  /\ texts' = [texts EXCEPT ![d] = @ \cup {w}]
<1>1. Draw(1) BY DEF SendText
<1>2. PICK w : w = New(1, "text", d) OBVIOUS
<1>3. Sent(d, w) /\ w.id = Fresh(1) /\ w.kind = "text" BY <1>1, <1>2, PlainSent
<1>4. outbox' = [outbox EXCEPT ![d] = @ \cup {w}] /\ texts' = [texts EXCEPT ![d] = @ \cup {w}]
  BY <1>2 DEF SendText
<1>5. Posts(d, {w}) BY <1>3, <1>4, OnePosted
<1> QED BY <1>3, <1>4, <1>5 DEF Sent

\* What has still to be told is a deletion that waits.
LEMMA UntoldPosted ==
    ASSUME Types, NEW d \in Device, NEW S, S = tombstone'[d],
           NEW kept \in SUBSET outbox[d], NEW box,
           outbox' = [outbox EXCEPT ![d] = kept \cup Untold(d, S, box)]
    PROVE  Posts(d, {})
<1>1. \A m \in Untold(d, S, box) : Told(d, m)
  <2> TAKE m \in Untold(d, S, box)
  <2>1. PICK t \in S : t.pending /\ m = Del(d, t.id) BY DEF Untold, Del
  <2> QED BY <2>1 DEF Told
<1>2. \A m \in kept \cup Untold(d, S, box) : m \in outbox[d] \/ m \in {} \/ Told(d, m) BY <1>1
<1> QED BY <1>2 DEF Posts, SingleId

LEMMA DeletePosts == ASSUME Types, NEW d \in Device, Delete(d) PROVE Posts(d, {})
<1>1. PICK kept : kept = outbox[d] \ texts[d] OBVIOUS
<1>2. kept \in SUBSET outbox[d] BY <1>1
<1>3. \/ outbox' = [outbox EXCEPT ![d] = kept]
      \/ outbox' = [outbox EXCEPT ![d] = kept \cup Untold(d, tombstone'[d], kept)]
  BY <1>1 DEF Delete
<1> QED BY <1>2, <1>3, NothingPosted, UntoldPosted

LEMMA TellDeletionPosts ==
    ASSUME Types, NEW d \in Device, TellDeletion(d) PROVE UNCHANGED outbox \/ Posts(d, {})
<1>1. CASE /\ outbox' = [outbox EXCEPT ![d] = @ \cup Untold(d, tombstone[d], outbox[d])]
           /\ UNCHANGED tombstone
  <2>1. outbox' = [outbox EXCEPT ![d] = outbox[d] \cup Untold(d, tombstone[d], outbox[d])]
    BY <1>1
  <2>2. tombstone[d] = tombstone'[d] /\ outbox[d] \in SUBSET outbox[d] BY <1>1
  <2> QED BY <2>1, <2>2, UntoldPosted
<1> QED BY <1>1 DEF TellDeletion

LEMMA AcceptedPosts ==
    ASSUME Types, NEW d \in Device, NEW m \in outbox[d],
           Accept(d, m) \/ Complete(d, m)
    PROVE  UNCHANGED outbox \/ Posts(d, {})
<1>1. UNCHANGED outbox \/ outbox' = [outbox EXCEPT ![d] = outbox[d] \ {m}]
  BY DEF Accept, Complete
<1>2. outbox[d] \ {m} \in SUBSET outbox[d] OBVIOUS
<1> QED BY <1>1, <1>2, NothingPosted

LEMMA VerifyPosts == ASSUME Types, NEW d \in Device, Verify(d) PROVE Posts(d, {})
<1>1. outbox' = [outbox EXCEPT ![d] = {x \in outbox[d] : x.id \notin IdsOf(tombstone[d])}]
  BY DEF Verify
<1>2. {x \in outbox[d] : x.id \notin IdsOf(tombstone[d])} \in SUBSET outbox[d] OBVIOUS
<1> QED BY <1>1, <1>2, NothingPosted

LEMMA ReceiveTextPosts ==
    ASSUME Types, NEW d \in Device, NEW m \in Message, m \in Range(mailbox[d]), ReceiveText(d, m)
    PROVE  UNCHANGED outbox \/ \E N : Posts(d, N)
<1>1. PICK watching \in BOOLEAN :
          /\ seen' = IF watching THEN seen \cup {<<d, m.id>>} ELSE seen
          /\ IF SendsReceipt(d, m, watching)
             THEN /\ Draw(1)
                  /\ outbox' = [outbox EXCEPT ![d] =
                                   @ \cup {[New(1, "read", d) EXCEPT !.about = {m.id}]}]
             ELSE UNCHANGED outbox
  BY DEF ReceiveText
<1>2. CASE SendsReceipt(d, m, watching)
  <2>1. PICK A : A = {m.id} OBVIOUS
  <2>2. PICK w : w = [New(1, "read", d) EXCEPT !.about = A] OBVIOUS
  <2>3. Draw(1) /\ 1 \in Nat /\ 1 \in 1 .. 1 BY <1>1, <1>2
  <2>4. outbox' = [outbox EXCEPT ![d] = @ \cup {w}] BY <1>1, <1>2, <2>1, <2>2
  <2>5. A \in SUBSET Ids BY <2>1 DEF Message
  <2>6. \A i \in A : <<d, i>> \in seen' /\ Came(d, i) BY <1>1, <1>2, <2>1 DEF SendsReceipt, Came
  <2>7. Sent(d, w) BY <2>2, <2>3, <2>5, <2>6, ReceiptSent
  <2> QED BY <2>4, <2>7, OnePosted
<1> QED BY <1>1, <1>2

LEMMA ArrivalPosts ==
    ASSUME Types, NEW d \in Device, NEW m \in Message, m \in Range(mailbox[d]), Arrival(d, m)
    PROVE  UNCHANGED outbox \/ \E N : Posts(d, N)
<1>1. CASE ReceiveText(d, m) BY <1>1, ReceiveTextPosts
<1>2. CASE ReceiveDeletion(d, m) \/ IgnoreOldText(d, m) \/ Quarantine(d, m)
  BY <1>2 DEF ReceiveDeletion, IgnoreOldText, Quarantine
<1>3. CASE ReceiveRead(d, m) \/ ReceiveRequest(d, m) \/ ReceiveResponse(d, m)
  BY <1>3 DEF ReceiveRead, ReceiveRequest, ReceiveResponse
<1> QED BY <1>1, <1>2, <1>3 DEF Arrival

LEMMA Posting ==
    ASSUME Types, [Next]_vars
    PROVE  UNCHANGED outbox \/ \E d \in Device : \E N : Posts(d, N)
<1>1. CASE UNCHANGED vars BY <1>1 DEF vars
<1>2. ASSUME NEW d \in Device, NEW n \in notes[d], DismissNote(d, n) PROVE UNCHANGED outbox
  BY <1>2 DEF DismissNote
<1>3. ASSUME NEW d \in Device, Chat(d) PROVE UNCHANGED outbox \/ \E N : Posts(d, N)
  BY <1>3, ChatPosts
<1>4. ASSUME NEW d \in Device, Look(d) \/ Verify(d) \/ SendText(d) \/ Delete(d)
      PROVE  \E N : Posts(d, N)
  BY <1>4, LookPosts, VerifyPosts, SendTextPosts, DeletePosts
<1>5. ASSUME NEW d \in Device, TellDeletion(d) PROVE UNCHANGED outbox \/ \E N : Posts(d, N)
  BY <1>5, TellDeletionPosts
<1>6. ASSUME NEW d \in Device, NEW n \in notes[d], NEW v \in {"Accepted", "Rejected"},
             Answer(d, n, v)
      PROVE  \E N : Posts(d, N)
  BY <1>6, AnswerPosts
<1>7. ASSUME NEW d \in Device, NEW m \in outbox[d], Accept(d, m) \/ Complete(d, m)
      PROVE  UNCHANGED outbox \/ \E N : Posts(d, N)
  BY <1>7, AcceptedPosts
<1>8. ASSUME NEW d \in Device, NEW m \in Message, m \in Range(mailbox[d]), Arrival(d, m)
      PROVE  UNCHANGED outbox \/ \E N : Posts(d, N)
  BY <1>8, ArrivalPosts
<1> QED BY <1>1, <1>2, <1>3, <1>4, <1>5, <1>6, <1>7, <1>8, Steps

LEMMA OutboxStep == ASSUME Types, [Next]_vars, StonesOK(tombstone)' PROVE OutboxOK(outbox)'
<1>0. OutboxOK(outbox) BY DEF Types
<1>1. CASE UNCHANGED outbox BY <1>0, <1>1 DEF OutboxOK
<1>2. ASSUME NEW d \in Device, NEW N, Posts(d, N) PROVE OutboxOK(outbox)'
  <2>1. PICK X : /\ outbox' = [outbox EXCEPT ![d] = X]
                 /\ \A m \in X : m \in outbox[d] \/ m \in N \/ Told(d, m)
    BY <1>2 DEF Posts
  <2>2. ASSUME NEW m, Told(d, m) PROVE m \in Message /\ m.from = d /\ Meant(m)
    <3>1. PICK t \in tombstone'[d] : m = Del(d, t.id) BY <2>2 DEF Told
    <3>2. t.id \in Ids BY DEF StonesOK
    <3> QED BY <3>1, <3>2 DEF Del, Message, Kinds, Meant
  <2>3. \A m \in X : m \in Message /\ m.from = d /\ Meant(m)
    BY <1>0, <1>2, <2>1, <2>2 DEF OutboxOK, Posts, Sent
  <2> QED BY <1>0, <2>1, <2>3 DEF OutboxOK
<1> QED BY <1>1, <1>2, Posting


(***************************************************************************)
(* What a step does to the mailboxes                                       *)
(***************************************************************************)

Taken(d) ==
    /\ mailbox[d] # <<>> /\ mailbox' = [mailbox EXCEPT ![d] = Tail(@)]
    /\ Arrival(d, Head(mailbox[d]))

LEMMA MailMoves ==
    ASSUME Types, [Next]_vars
    PROVE  \/ UNCHANGED <<mailbox, accepted>>
           \/ \E d \in Device : Taken(d) /\ UNCHANGED accepted
           \/ \E d \in Device : \E m \in outbox[d] : Accept(d, m)
<1>1. CASE UNCHANGED vars BY <1>1 DEF vars
<1>2. ASSUME NEW d \in Device, Chat(d) \/ Look(d) \/ Verify(d) \/ SendText(d) \/ Delete(d)
                               \/ TellDeletion(d)
      PROVE  UNCHANGED <<mailbox, accepted>>
  BY <1>2 DEF Chat, Look, Verify, SendText, Delete, TellDeletion
<1>3. ASSUME NEW d \in Device, NEW n, DismissNote(d, n) \/ Complete(d, n)
      PROVE  UNCHANGED <<mailbox, accepted>>
  BY <1>3 DEF DismissNote, Complete
<1>4. ASSUME NEW d \in Device, NEW n, NEW v, Answer(d, n, v) PROVE UNCHANGED <<mailbox, accepted>>
  BY <1>4 DEF Answer
<1>5. ASSUME NEW d \in Device, mailbox[d] # <<>>, NEW m, m = Head(mailbox[d]), Arrival(d, m)
      PROVE  UNCHANGED <<mailbox, accepted>> \/ (Taken(d) /\ UNCHANGED accepted)
  <2>1. CASE ReceiveDeletion(d, m) \/ IgnoreOldText(d, m) \/ Quarantine(d, m) \/ ReceiveText(d, m)
    BY <1>5, <2>1 DEF ReceiveDeletion, IgnoreOldText, Quarantine, ReceiveText, Drop, Taken
  <2>2. CASE ReceiveRead(d, m) \/ ReceiveRequest(d, m) \/ ReceiveResponse(d, m)
    BY <1>5, <2>2 DEF ReceiveRead, ReceiveRequest, ReceiveResponse, Drop, Taken
  <2> QED BY <1>5, <2>1, <2>2 DEF Arrival
<1> QED BY <1>1, <1>2, <1>3, <1>4, <1>5, Steps

\* The server appends the message to the mailboxes of its recipients.
LEMMA Delivered ==
    ASSUME Types, NEW d \in Device, NEW m \in outbox[d], Accept(d, m)
    PROVE  /\ m \in Message
           /\ \A e \in Device :
                 /\ mailbox'[e] \in Seq(Message)
                 /\ Range(mailbox'[e]) = Range(mailbox[e])
                                           \cup (IF e \in Recipients(m) THEN {m} ELSE {})
<1>1. m \in Message BY DEF Types, OutboxOK
<1>2. ASSUME NEW e \in Device
      PROVE  /\ mailbox'[e] \in Seq(Message)
             /\ Range(mailbox'[e]) =
                  Range(mailbox[e]) \cup (IF e \in Recipients(m) THEN {m} ELSE {})
  <2>1. mailbox'[e] = IF e \in Recipients(m) THEN Append(mailbox[e], m) ELSE mailbox[e]
    BY DEF Accept
  <2>2. mailbox[e] \in Seq(Message) BY DEF Types, MailOK
  <2> QED BY <1>1, <2>1, <2>2, RangeOfAppend
<1> QED BY <1>1, <1>2

LEMMA TakenFrom ==
    ASSUME Types, NEW d \in Device, Taken(d)
    PROVE  \A e \in Device : /\ mailbox'[e] \in Seq(Message)
                             /\ Range(mailbox'[e]) \subseteq Range(mailbox[e])
                             /\ e # d => mailbox'[e] = mailbox[e]
<1> TAKE e \in Device
<1>1. mailbox \in [Device -> Seq(Message)] BY DEF Types, MailOK
<1>2. mailbox[d] \in Seq(Message) BY <1>1
<1>3. Tail(mailbox[d]) \in Seq(Message) /\ Range(Tail(mailbox[d])) \subseteq Range(mailbox[d])
  BY <1>2, RangeOfTail DEF Taken
<1>4. mailbox' = [mailbox EXCEPT ![d] = Tail(mailbox[d])] BY DEF Taken
<1> QED BY <1>1, <1>3, <1>4

LEMMA MailStep == ASSUME Types, [Next]_vars PROVE MailOK(mailbox)'
<1>0. MailOK(mailbox) BY DEF Types
<1>1. CASE UNCHANGED mailbox BY <1>0, <1>1 DEF MailOK
<1>2. ASSUME NEW d \in Device, Taken(d) PROVE MailOK(mailbox)'
  <2>1. mailbox' = [e \in Device |-> mailbox'[e]] BY <1>0, <1>2 DEF Taken, MailOK
  <2>2. mailbox' \in [Device -> Seq(Message)] BY <1>2, <2>1, TakenFrom
  <2> QED BY <1>0, <1>2, <2>2, TakenFrom DEF MailOK, Recipients
<1>3. ASSUME NEW d \in Device, NEW m \in outbox[d], Accept(d, m) PROVE MailOK(mailbox)'
  <2>1. mailbox' = [e \in Device |-> mailbox'[e]] BY <1>3 DEF Accept
  <2>2. mailbox' \in [Device -> Seq(Message)] BY <1>3, <2>1, Delivered
  <2>3. Meant(m) BY DEF Types, OutboxOK
  <2> QED BY <1>0, <1>3, <2>2, <2>3, Delivered DEF MailOK
<1> QED BY <1>1, <1>2, <1>3, MailMoves

LEMMA CountsStep == ASSUME Types, [Next]_vars PROVE CountsOK' /\ drawn' \in Nat /\ drawn <= drawn'
<1>0. accepted \subseteq Ids /\ drawn \in 0 .. MaxDrawn BY DEF Types, CountsOK
<1>1. accepted' \subseteq Ids
  <2>1. ASSUME NEW d \in Device, NEW m \in outbox[d], Accept(d, m) PROVE accepted' \subseteq Ids
    <3>1. m.id \in Ids BY <2>1, Delivered DEF Message
    <3> QED BY <1>0, <2>1, <3>1 DEF Accept
  <2> QED BY <1>0, <2>1, MailMoves
<1>2. drawn' = drawn \/ Draw(1) \/ Draw(2)
  <2>1. CASE UNCHANGED vars BY <2>1 DEF vars
  <2>2. ASSUME NEW d \in Device, Chat(d) \/ Look(d) \/ SendText(d) \/ Delete(d)
        PROVE  drawn' = drawn \/ Draw(1)
    BY <2>2 DEF Chat, Look, SendText, Delete
  <2>3. ASSUME NEW d \in Device, Verify(d) \/ TellDeletion(d) PROVE drawn' = drawn
    BY <2>3 DEF Verify, TellDeletion
  <2>4. ASSUME NEW d \in Device, NEW n, DismissNote(d, n) \/ Accept(d, n) \/ Complete(d, n)
        PROVE  drawn' = drawn
    BY <2>4 DEF DismissNote, Accept, Complete
  <2>5. ASSUME NEW d \in Device, NEW n, NEW v, Answer(d, n, v) PROVE Draw(1) \/ Draw(2)
    BY <2>5 DEF Answer
  <2>6. ASSUME NEW d \in Device, NEW m, Arrival(d, m) PROVE drawn' = drawn \/ Draw(1)
    <3>1. CASE ReceiveText(d, m) BY <3>1 DEF ReceiveText
    <3>2. CASE ReceiveDeletion(d, m) \/ IgnoreOldText(d, m) \/ Quarantine(d, m)
      BY <3>2 DEF ReceiveDeletion, IgnoreOldText, Quarantine
    <3>3. CASE ReceiveRead(d, m) \/ ReceiveRequest(d, m) \/ ReceiveResponse(d, m)
      BY <3>3 DEF ReceiveRead, ReceiveRequest, ReceiveResponse
    <3> QED BY <2>6, <3>1, <3>2, <3>3 DEF Arrival
  <2> QED BY <2>1, <2>2, <2>3, <2>4, <2>5, <2>6, Steps
<1>3. drawn' \in 0 .. MaxDrawn /\ drawn' >= drawn BY <1>0, <1>2, Bounded DEF Draw, Bound
<1> QED BY <1>1, <1>3 DEF CountsOK


LEMMA TypesStep == ASSUME Types, [Next]_vars PROVE Types'
<1>1. ContactOK(contact)' /\ StonesOK(tombstone)' /\ NotesOK(notes)' /\ TextsOK(texts, read)'
  BY ContactStep, StonesStep, NotesStep, TextsStep
<1>2. OutboxOK(outbox)' BY <1>1, OutboxStep
<1>3. MailOK(mailbox)' /\ CountsOK' BY MailStep, CountsStep
<1> QED BY <1>1, <1>2, <1>3 DEF Types

LEMMA TypesInit == Init => Types
<1> SUFFICES ASSUME Init PROVE Types OBVIOUS
<1>1. ContactOK(contact) BY DEF Init, ContactOK
<1>2. StonesOK(tombstone) /\ NotesOK(notes) /\ OutboxOK(outbox)
  BY DEF Init, StonesOK, NotesOK, OneEach, OutboxOK
<1>3. TextsOK(texts, read) BY DEF Init, TextsOK, IdsOf
<1>4. MailOK(mailbox)
  <2>1. <<>> \in Seq(Message) /\ Range(<<>>) = {} BY DEF Range
  <2> QED BY <2>1 DEF Init, MailOK
<1>5. CountsOK BY Bounded DEF Init, CountsOK, Bound
<1> QED BY <1>1, <1>2, <1>3, <1>4, <1>5 DEF Types

LEMMA TypesHold == Spec => []Types
<1>1. Types /\ [Next]_vars => Types' BY TypesStep
<1> QED BY <1>1, TypesInit, PTL DEF Spec

LEMMA TypesSuffice == Types => ConversationsTypeOK
<1> SUFFICES ASSUME Types PROVE ConversationsTypeOK OBVIOUS
<1>1. contact \in [Device -> {"none", "unverified", "verified"}] BY DEF Types, ContactOK
<1>2. accepted \subseteq Ids /\ drawn \in 0 .. MaxDrawn BY DEF Types, CountsOK
<1>3. ASSUME NEW d \in Device PROVE Cardinality(tombstone[d]) <= 1
  <2>1. CASE tombstone[d] = {} BY <2>1, FS_EmptySet
  <2>2. CASE tombstone[d] # {}
    <3>1. PICK t \in tombstone[d] : tombstone[d] = {t} BY <2>2 DEF Types, StonesOK
    <3>2. Cardinality({t}) = 1 BY FS_Singleton
    <3> QED BY <3>1, <3>2
  <2> QED BY <2>1, <2>2
<1>4. ASSUME NEW d \in Device
      PROVE  /\ tombstone[d] \subseteq [id : Ids, pending : BOOLEAN]
             /\ notes[d] \subseteq Note
             /\ \A n1, n2 \in notes[d] : n1.request = n2.request => n1 = n2
             /\ read[d] \subseteq IdsOf(texts[d])
  BY DEF Types, StonesOK, NotesOK, OneEach, TextsOK
<1>5. ASSUME NEW d \in Device
      PROVE  texts[d] \subseteq Message /\ outbox[d] \subseteq Message
  BY DEF Types, TextsOK, OutboxOK
<1>6. ASSUME NEW d \in Device, NEW i \in 1 .. Len(mailbox[d]) PROVE mailbox[d][i] \in Message
  <2>1. mailbox[d] \in Seq(Message) BY DEF Types, MailOK
  <2> QED BY <2>1
<1> QED BY <1>1, <1>2, <1>3, <1>4, <1>5, <1>6 DEF ConversationsTypeOK

\* Whatever the devices do and the server delivers, the tables hold rows of the kinds
\* the code writes: one notification per request (save_notification), one tombstone
\* per conversation (upsert_conversation_tombstone), read marks on texts only.
THEOREM ConversationsTypeCorrect == Spec => []ConversationsTypeOK
BY TypesHold, TypesSuffice, PTL

(***************************************************************************)
(* A deleted conversation has to be verified again                         *)
(***************************************************************************)

LEMMA VerifiedLater ==
    ASSUME Types, [Next]_vars, DeletedNeedsVerification
    PROVE  DeletedNeedsVerification'
<1> USE DEF DeletedNeedsVerification
<1>1. ASSUME UNCHANGED <<contact, tombstone>> PROVE DeletedNeedsVerification' BY <1>1
<1>2. ASSUME UNCHANGED tables PROVE DeletedNeedsVerification' BY <1>2 DEF tables
<1>3. ASSUME NEW d \in Device, contact' = [contact EXCEPT ![d] = Known(d)], UNCHANGED tombstone
      PROVE  DeletedNeedsVerification'
  BY <1>3, KnownTypes DEF Types, ContactOK
<1>4. ASSUME NEW d \in Device, NEW id, NEW p, Erase(d, id, p) PROVE DeletedNeedsVerification'
  BY <1>4 DEF Erase, Types, ContactOK, StonesOK
<1>5. ASSUME NEW d \in Device, Verify(d) PROVE DeletedNeedsVerification'
  BY <1>5 DEF Verify, Types, ContactOK, StonesOK
<1>6. ASSUME NEW d \in Device, NEW S, tombstone' = [tombstone EXCEPT ![d] = S], UNCHANGED contact,
             tombstone[d] = {} => S = {}
      PROVE  DeletedNeedsVerification'
  BY <1>6 DEF Types, StonesOK
<1>7. ASSUME NEW d \in Device, TellDeletion(d) PROVE DeletedNeedsVerification'
  <2>1. CASE UNCHANGED tombstone BY <1>1, <1>7, <2>1 DEF TellDeletion
  <2>2. CASE tombstone' = [tombstone EXCEPT ![d] = {[t EXCEPT !.pending = FALSE] : t \in @}]
    <3>1. PICK S : S = {[t EXCEPT !.pending = FALSE] : t \in tombstone[d]} OBVIOUS
    <3>2. tombstone' = [tombstone EXCEPT ![d] = S] /\ UNCHANGED contact
      BY <1>7, <2>2, <3>1 DEF TellDeletion
    <3> QED BY <1>6, <3>1, <3>2
  <2> QED BY <1>7, <2>1, <2>2 DEF TellDeletion
<1>8. ASSUME NEW d \in Device, NEW m, Complete(d, m) PROVE DeletedNeedsVerification'
  <2>1. PICK S : S = {IF t.id = m.id THEN [t EXCEPT !.pending = FALSE] ELSE t : t \in tombstone[d]}
    OBVIOUS
  <2>2. tombstone' = [tombstone EXCEPT ![d] = S] /\ UNCHANGED contact BY <1>8, <2>1 DEF Complete
  <2> QED BY <1>6, <2>1, <2>2
<1>9. ASSUME NEW d \in Device, NEW m, Arrival(d, m) PROVE DeletedNeedsVerification'
  <2>1. CASE ReceiveDeletion(d, m) BY <1>4, <2>1 DEF ReceiveDeletion
  <2>2. CASE Quarantine(d, m) \/ ReceiveRead(d, m)
    BY <1>1, <1>3, <2>2 DEF Quarantine, ReceiveRead, Meets
  <2>3. CASE ReceiveRequest(d, m) \/ ReceiveResponse(d, m)
    BY <1>1, <1>3, <2>3 DEF ReceiveRequest, ReceiveResponse
  <2>4. CASE IgnoreOldText(d, m) \/ ReceiveText(d, m)
    BY <1>1, <1>2, <2>4 DEF IgnoreOldText, ReceiveText
  <2> QED BY <1>9, <2>1, <2>2, <2>3, <2>4 DEF Arrival
<1>10. ASSUME NEW d \in Device, Delete(d) PROVE DeletedNeedsVerification'
  BY <1>4, <1>10 DEF Delete
<1>11. ASSUME NEW d \in Device, Chat(d) \/ Look(d) \/ SendText(d) PROVE DeletedNeedsVerification'
  BY <1>1, <1>3, <1>11 DEF Chat, Look, SendText
<1>12. ASSUME NEW d \in Device, NEW n, NEW v, Answer(d, n, v) PROVE DeletedNeedsVerification'
  BY <1>1, <1>3, <1>12 DEF Answer
<1>13. ASSUME NEW d \in Device, NEW m, DismissNote(d, m) \/ Accept(d, m)
       PROVE  DeletedNeedsVerification'
  BY <1>1, <1>2, <1>13 DEF DismissNote, Accept
<1>14. ASSUME UNCHANGED vars PROVE DeletedNeedsVerification' BY <1>2, <1>14 DEF vars
<1> QED BY <1>5, <1>7, <1>8, <1>9, <1>10, <1>11, <1>12, <1>13, <1>14, Steps

\* A deletion takes the verified mark of the contact from every device it reaches, and
\* no handler gives it back before the user has verified again: verify_contact is the
\* only one that marks a contact, and it removes the tombstone.
THEOREM DeletedVerifiedAgain == Spec => []DeletedNeedsVerification
<1>1. Init => DeletedNeedsVerification BY DEF Init, DeletedNeedsVerification
<1>2. Types /\ [Next]_vars /\ DeletedNeedsVerification => DeletedNeedsVerification'
  BY VerifiedLater
<1> QED BY <1>1, <1>2, TypesHold, PTL DEF Spec


(***************************************************************************)
(* An id belongs to one message                                            *)
(***************************************************************************)

Around(m) == \E d \in Device : m \in outbox[d] \/ m \in Range(mailbox[d]) \/ m \in texts[d]
OneMessageEach ==
    /\ \A m \in Message : Around(m) => m.id <= drawn
    /\ \A m1, m2 \in Message : Around(m1) /\ Around(m2) /\ m1.id = m2.id => m1 = m2
AcceptedDrawn == \A id \in accepted : id <= drawn
StonesDrawn == \A d \in Device : \A t \in tombstone[d] : t.id <= drawn
\* A deletion that is still to be told has its id to itself.
StonesOwn ==
    \A d \in Device : \A t \in tombstone[d] : t.pending =>
        /\ \A m \in Message : Around(m) /\ m.id = t.id => m = Del(d, t.id)
        /\ \A e \in Device : \A u \in tombstone[e] : u.pending /\ u.id = t.id => d = e
Unique == OneMessageEach /\ AcceptedDrawn /\ StonesDrawn /\ StonesOwn

\* Texts come with an envelope or are written here.
Opened(e, m) == mailbox[e] # <<>> /\ m = Head(mailbox[e]) /\ mailbox'[e] = Tail(mailbox[e])

LEMMA TextsOpened ==
    ASSUME Types, [Next]_vars
    PROVE  \/ \E d \in Device : SendText(d)
           \/ \A e \in Device : \A m \in texts'[e] : m \in texts[e] \/ Opened(e, m)
<1>0. texts \in [Device -> SUBSET Message] BY DEF Types, TextsOK
<1>1. CASE UNCHANGED texts BY <1>1
<1>2. ASSUME NEW d \in Device, NEW id, NEW p, Erase(d, id, p)
      PROVE  \A e \in Device : \A m \in texts'[e] : m \in texts[e]
  BY <1>0, <1>2 DEF Erase
<1>3. ASSUME NEW d \in Device, NEW m, mailbox[d] # <<>>, m = Head(mailbox[d]), Drop(d),
             texts' = [texts EXCEPT ![d] = @ \cup {m}]
      PROVE  \A e \in Device : \A x \in texts'[e] : x \in texts[e] \/ Opened(e, x)
  <2>1. mailbox'[d] = Tail(mailbox[d]) BY <1>3 DEF Drop, Types, MailOK
  <2> QED BY <1>0, <1>3, <2>1 DEF Opened
<1>4. ASSUME NEW d \in Device, NEW m, mailbox[d] # <<>>, m = Head(mailbox[d]), Arrival(d, m)
      PROVE  \A e \in Device : \A x \in texts'[e] : x \in texts[e] \/ Opened(e, x)
  <2>1. CASE ReceiveDeletion(d, m) BY <1>2, <2>1 DEF ReceiveDeletion
  <2>2. CASE Quarantine(d, m) \/ ReceiveText(d, m) BY <1>3, <1>4, <2>2 DEF Quarantine, ReceiveText
  <2>3. CASE IgnoreOldText(d, m) \/ ReceiveRead(d, m)
    BY <1>1, <2>3 DEF IgnoreOldText, ReceiveRead, tables
  <2>4. CASE ReceiveRequest(d, m) \/ ReceiveResponse(d, m)
    BY <1>1, <2>4 DEF ReceiveRequest, ReceiveResponse
  <2> QED BY <1>4, <2>1, <2>2, <2>3, <2>4 DEF Arrival
<1>5. ASSUME NEW d \in Device, Chat(d) \/ Look(d) \/ Verify(d) \/ TellDeletion(d)
      PROVE  UNCHANGED texts
  BY <1>5 DEF Chat, Look, Verify, TellDeletion
<1>6. ASSUME NEW d \in Device, Delete(d)
      PROVE  \A e \in Device : \A m \in texts'[e] : m \in texts[e]
  BY <1>2, <1>6 DEF Delete
<1>7. ASSUME NEW d \in Device, NEW n, DismissNote(d, n) \/ Accept(d, n) \/ Complete(d, n)
      PROVE  UNCHANGED texts
  BY <1>7 DEF DismissNote, Accept, Complete, tables
<1>8. ASSUME NEW d \in Device, NEW n, NEW v, Answer(d, n, v) PROVE UNCHANGED texts
  BY <1>8 DEF Answer
<1>9. CASE UNCHANGED vars BY <1>1, <1>9 DEF vars, tables
<1> QED BY <1>1, <1>4, <1>5, <1>6, <1>7, <1>8, <1>9, Steps

LEMMA TextsMove ==
    ASSUME Types, [Next]_vars
    PROVE  \/ \E d \in Device : SendText(d)
           \/ \A e \in Device : \A m \in texts'[e] : m \in texts[e] \/ m \in Range(mailbox[e])
<1>1. ASSUME NEW e \in Device, NEW m, Opened(e, m) PROVE m \in Range(mailbox[e])
  BY <1>1, FirstMessage DEF Opened
<1> QED BY <1>1, TextsOpened

\* What is in a mailbox afterwards was there before, or in an outbox.
LEMMA MailComesFromOutbox ==
    ASSUME Types, [Next]_vars
    PROVE  \A e \in Device : \A x \in Range(mailbox'[e]) :
              x \in Range(mailbox[e]) \/ \E d \in Device : x \in outbox[d]
<1>1. ASSUME NEW d \in Device, Taken(d)
      PROVE  \A e \in Device : Range(mailbox'[e]) \subseteq Range(mailbox[e])
  BY <1>1, TakenFrom
<1>2. ASSUME NEW d \in Device, NEW m \in outbox[d], Accept(d, m)
      PROVE  \A e \in Device : Range(mailbox'[e]) \subseteq Range(mailbox[e]) \cup {m}
  BY <1>2, Delivered
<1> QED BY <1>1, <1>2, MailMoves

\* A stone that waits after the step waited before it, or is the one of Delete; one that
\* does not is of a deletion told by this device or by another.
StonesKept ==
    \A d \in Device : \A t \in tombstone'[d] :
        \/ \E u \in tombstone[d] : u.id = t.id /\ (t.pending => u.pending)
        \/ ~t.pending /\ \E m \in Message : Around(m) /\ m.id = t.id /\ m.kind = "deletion"

LEMMA BuriedHere ==
    ASSUME Types, NEW d \in Device, NEW id \in Ids, NEW t \in Buried(d, id, TRUE)
    PROVE  (\E u \in tombstone[d] : u.id = t.id /\ (t.pending => u.pending)) \/ t.id = id
<1>1. CASE tombstone[d] = {}
  <2>1. Buried(d, id, TRUE) = {[id |-> id, pending |-> TRUE]} BY <1>1 DEF Buried
  <2>2. t = [id |-> id, pending |-> TRUE] BY <2>1
  <2> QED BY <2>2
<1>2. CASE tombstone[d] # {}
  <2>1. PICK u \in tombstone[d] : tombstone[d] = {u} BY <1>2 DEF Types, StonesOK
  <2>2. t = [id |-> IF u.pending THEN u.id ELSE IF TRUE \/ id >= u.id THEN id ELSE u.id,
             pending |-> u.pending \/ TRUE]
    BY <1>2, <2>1 DEF Buried
  <2>3. t.id = IF u.pending THEN u.id ELSE id BY <2>2
  <2> QED BY <2>3
<1> QED BY <1>1, <1>2

LEMMA BuriedByOther ==
    ASSUME Types, NEW d \in Device, NEW id \in Ids, NEW t \in Buried(d, id, FALSE)
    PROVE  \/ \E u \in tombstone[d] : u.id = t.id /\ (t.pending => u.pending)
           \/ t.id = id /\ ~t.pending
<1>1. CASE tombstone[d] = {}
  <2>1. Buried(d, id, FALSE) = {[id |-> id, pending |-> FALSE]} BY <1>1 DEF Buried
  <2>2. t = [id |-> id, pending |-> FALSE] BY <2>1
  <2> QED BY <2>2
<1>2. CASE tombstone[d] # {}
  <2>1. PICK u \in tombstone[d] : tombstone[d] = {u} BY <1>2 DEF Types, StonesOK
  <2>2. t = [id |-> IF u.pending THEN u.id ELSE IF FALSE \/ id >= u.id THEN id ELSE u.id,
             pending |-> u.pending \/ FALSE]
    BY <1>2, <2>1 DEF Buried
  <2>3. /\ t.id = IF u.pending THEN u.id ELSE IF id >= u.id THEN id ELSE u.id
        /\ t.pending => u.pending
    BY <2>2
  <2> QED BY <2>3
<1> QED BY <1>1, <1>2

LEMMA StonesMove ==
    ASSUME Types, [Next]_vars
    PROVE  StonesKept \/ \E d \in Device : Delete(d)
<1>0. tombstone \in [Device -> SUBSET [id : Ids, pending : BOOLEAN]] BY DEF Types, StonesOK
<1>1. ASSUME UNCHANGED tombstone PROVE StonesKept BY <1>1 DEF StonesKept
<1>2. ASSUME NEW d \in Device, NEW S, tombstone' = [tombstone EXCEPT ![d] = S],
             \A t \in S : \/ \E u \in tombstone[d] : u.id = t.id /\ (t.pending => u.pending)
                          \/ /\ ~t.pending
                             /\ \E x \in Message : Around(x) /\ x.id = t.id /\ x.kind = "deletion"
      PROVE  StonesKept
  BY <1>0, <1>2 DEF StonesKept
<1>3. ASSUME NEW d \in Device, Verify(d) PROVE StonesKept
  <2>1. tombstone' = [tombstone EXCEPT ![d] = {}] BY <1>3 DEF Verify
  <2> QED BY <1>0, <2>1 DEF StonesKept
<1>4. ASSUME NEW d \in Device, TellDeletion(d) PROVE StonesKept
  <2>1. CASE UNCHANGED tombstone BY <1>1, <2>1
  <2>2. CASE tombstone' = [tombstone EXCEPT ![d] = {[t EXCEPT !.pending = FALSE] : t \in @}]
    <3>1. PICK S : S = {[t EXCEPT !.pending = FALSE] : t \in tombstone[d]} OBVIOUS
    <3>2. \A u \in [id : Ids, pending : BOOLEAN] : [u EXCEPT !.pending = FALSE].id = u.id
                                                   /\ ~[u EXCEPT !.pending = FALSE].pending
      OBVIOUS
    <3>3. \A t \in S : \E u \in tombstone[d] : u.id = t.id /\ (t.pending => u.pending)
      BY <1>0, <3>1, <3>2
    <3> QED BY <1>2, <2>2, <3>1, <3>3
  <2> QED BY <1>4, <2>1, <2>2 DEF TellDeletion
<1>5. ASSUME NEW d \in Device, NEW m, Complete(d, m) PROVE StonesKept
  <2>1. PICK S : S = {IF t.id = m.id THEN [t EXCEPT !.pending = FALSE] ELSE t : t \in tombstone[d]}
    OBVIOUS
  <2>2. \A u \in [id : Ids, pending : BOOLEAN] : [u EXCEPT !.pending = FALSE].id = u.id
                                                 /\ ~[u EXCEPT !.pending = FALSE].pending
    OBVIOUS
  <2>3. \A t \in S : \E u \in tombstone[d] : u.id = t.id /\ (t.pending => u.pending)
    BY <1>0, <2>1, <2>2
  <2>4. tombstone' = [tombstone EXCEPT ![d] = S] BY <1>5, <2>1 DEF Complete
  <2> QED BY <1>2, <2>3, <2>4
<1>6. ASSUME NEW d \in Device, NEW m \in Message, m \in Range(mailbox[d]), Arrival(d, m)
      PROVE  StonesKept
  <2>1. CASE ReceiveDeletion(d, m)
    <3>0. PICK T : T = Buried(d, m.id, FALSE) OBVIOUS
    <3>1. tombstone' = [tombstone EXCEPT ![d] = T] BY <2>1, <3>0 DEF ReceiveDeletion, Erase
    <3>2. m.id \in Ids BY DEF Message
    <3>3. Around(m) /\ m.kind = "deletion" BY <1>6, <2>1 DEF Around, ReceiveDeletion
    <3>4. ASSUME NEW t \in T
          PROVE  \/ \E u \in tombstone[d] : u.id = t.id /\ (t.pending => u.pending)
                 \/ ~t.pending /\ \E x \in Message : Around(x) /\ x.id = t.id /\ x.kind = "deletion"
      <4>1. t \in Buried(d, m.id, FALSE) BY <3>0
      <4>2. \/ \E u \in tombstone[d] : u.id = t.id /\ (t.pending => u.pending)
            \/ t.id = m.id /\ ~t.pending
        BY <3>2, <4>1, BuriedByOther
      <4> QED BY <3>3, <4>2
    <3> QED BY <1>2, <3>1, <3>4
  <2>2. CASE Quarantine(d, m) \/ ReceiveRead(d, m) \/ ReceiveRequest(d, m) \/ ReceiveResponse(d, m)
    BY <1>1, <2>2 DEF Quarantine, ReceiveRead, ReceiveRequest, ReceiveResponse
  <2>3. CASE IgnoreOldText(d, m) \/ ReceiveText(d, m)
    BY <1>1, <2>3 DEF IgnoreOldText, ReceiveText, tables
  <2> QED BY <1>6, <2>1, <2>2, <2>3 DEF Arrival
<1>7. ASSUME NEW d \in Device, Chat(d) \/ Look(d) \/ SendText(d) PROVE StonesKept
  BY <1>1, <1>7 DEF Chat, Look, SendText
<1>8. ASSUME NEW d \in Device, NEW n, NEW v, Answer(d, n, v) PROVE StonesKept
  BY <1>1, <1>8 DEF Answer
<1>9. ASSUME NEW d \in Device, NEW m, DismissNote(d, m) \/ Accept(d, m) PROVE StonesKept
  BY <1>1, <1>9 DEF DismissNote, Accept, tables
<1>10. CASE UNCHANGED vars BY <1>1, <1>10 DEF vars, tables
<1> QED BY <1>3, <1>4, <1>5, <1>6, <1>7, <1>8, <1>9, <1>10, Steps

\* The deletion of a conversation writes a stone with an id drawn for it, or keeps the
\* one that waits.
LEMMA DeleteMoves ==
    ASSUME Types, NEW d \in Device, Delete(d)
    PROVE  /\ Posts(d, {})
           /\ Fresh(1) > drawn /\ Fresh(1) <= drawn' /\ Fresh(1) \in Ids
           /\ \A e \in Device : \A t \in tombstone'[e] :
                 \/ \E u \in tombstone[e] : u.id = t.id /\ (t.pending => u.pending)
                 \/ e = d /\ t.id = Fresh(1)
<1>1. Draw(1) /\ 1 \in Nat /\ 1 \in 1 .. 1 BY DEF Delete
<1>2. Fresh(1) > drawn /\ Fresh(1) <= drawn' /\ Fresh(1) \in Ids BY <1>1, FreshIds
<1>3. tombstone' = [tombstone EXCEPT ![d] = Buried(d, Fresh(1), TRUE)] BY DEF Delete, Erase
<1>4. tombstone \in [Device -> SUBSET [id : Ids, pending : BOOLEAN]] BY DEF Types, StonesOK
<1>5. \A t \in Buried(d, Fresh(1), TRUE) :
          \/ \E u \in tombstone[d] : u.id = t.id /\ (t.pending => u.pending)
          \/ t.id = Fresh(1)
  BY <1>2, BuriedHere
<1> QED BY <1>2, <1>3, <1>4, <1>5, DeletePosts

\* What is around after a step was so before it, has been drawn in it, or is a deletion
\* that was to be told.
LEMMA AroundMoves ==
    ASSUME Types, [Next]_vars, NEW d \in Device, NEW N, Posts(d, N),
           \A e \in Device : \A m \in texts'[e] :
               m \in texts[e] \/ m \in Range(mailbox[e]) \/ m \in N
    PROVE  \A m \in Message : Around(m)' => Around(m) \/ m \in N \/ Told(d, m)
<1> SUFFICES ASSUME NEW m \in Message, NEW e \in Device,
                    m \in outbox'[e] \/ m \in Range(mailbox'[e]) \/ m \in texts'[e]
             PROVE  Around(m) \/ m \in N \/ Told(d, m)
    BY DEF Around
<1>1. CASE m \in outbox'[e]
  <2>1. PICK X : /\ outbox' = [outbox EXCEPT ![d] = X]
                 /\ \A x \in X : x \in outbox[d] \/ x \in N \/ Told(d, x)
    BY DEF Posts
  <2>2. outbox \in [Device -> SUBSET Message] BY DEF Types, OutboxOK
  <2> QED BY <1>1, <2>1, <2>2 DEF Around
<1>2. CASE m \in Range(mailbox'[e]) BY <1>2, MailComesFromOutbox DEF Around
<1>3. CASE m \in texts'[e] BY <1>3 DEF Around
<1> QED BY <1>1, <1>2, <1>3

LEMMA AroundStays ==
    ASSUME Types, [Next]_vars, UNCHANGED outbox,
           \A e \in Device : \A m \in texts'[e] : m \in texts[e] \/ m \in Range(mailbox[e])
    PROVE  \A m \in Message : Around(m)' => Around(m)
<1> SUFFICES ASSUME NEW m \in Message, NEW e \in Device,
                    m \in outbox'[e] \/ m \in Range(mailbox'[e]) \/ m \in texts'[e]
             PROVE  Around(m)
    BY DEF Around
<1>1. CASE m \in Range(mailbox'[e]) BY <1>1, MailComesFromOutbox DEF Around
<1> QED BY <1>1 DEF Around

\* Which messages there are afterwards.
LEMMA Gathering ==
    ASSUME Types, [Next]_vars
    PROVE  \/ \A m \in Message : Around(m)' => Around(m)
           \/ \E d \in Device : \E N : /\ Posts(d, N)
                                       /\ \A m \in Message :
                                             Around(m)' => Around(m) \/ m \in N \/ Told(d, m)
<1>1. CASE \E d \in Device : SendText(d)
  <2>1. PICK d \in Device : SendText(d) BY <1>1
  <2>2. PICK w : Posts(d, {w}) /\ texts' = [texts EXCEPT ![d] = @ \cup {w}]
    BY <2>1, SendTextPosts
  <2>3. texts \in [Device -> SUBSET Message] BY DEF Types, TextsOK
  <2>4. \A e \in Device : \A m \in texts'[e] :
            m \in texts[e] \/ m \in Range(mailbox[e]) \/ m \in {w}
    BY <2>2, <2>3
  <2> QED BY <2>2, <2>4, AroundMoves
<1>2. CASE \A e \in Device : \A m \in texts'[e] : m \in texts[e] \/ m \in Range(mailbox[e])
  <2>1. CASE UNCHANGED outbox BY <1>2, <2>1, AroundStays
  <2>2. ASSUME NEW d \in Device, NEW N, Posts(d, N)
        PROVE  \A m \in Message : Around(m)' => Around(m) \/ m \in N \/ Told(d, m)
    <3>1. \A e \in Device : \A m \in texts'[e] :
              m \in texts[e] \/ m \in Range(mailbox[e]) \/ m \in N
      BY <1>2
    <3> QED BY <2>2, <3>1, AroundMoves
  <2> QED BY <2>1, <2>2, Posting
<1> QED BY <1>1, <1>2, TextsMove


\* N are the messages drawn in a step, F the stones, each with its device.
Adds(N, F) ==
    /\ \A m \in N : m.id > drawn /\ m.id <= drawn'
    /\ \A m \in N : m.kind = "read" =>
          \A i \in m.about : m.from \in Device /\ <<m.from, i>> \in seen' /\ Came(m.from, i)
    /\ \A m \in N : m.kind = "response" => \E r : m.about = {r}
    /\ SingleId(N)
    /\ \A x \in F : x.id > drawn /\ x.id <= drawn'
    /\ \A x, y \in F : x = y
    /\ N = {} \/ F = {}
    /\ \A m \in Message : Around(m)' => Around(m) \/ m \in N \/ \E d \in Device : Told(d, m)
    /\ \A d \in Device : \A t \in tombstone'[d] :
          \/ \E u \in tombstone[d] : u.id = t.id /\ (t.pending => u.pending)
          \/ ~t.pending /\ \E m \in Message : Around(m) /\ m.id = t.id /\ m.kind = "deletion"
          \/ [at |-> d, id |-> t.id] \in F

LEMMA StepAdds == ASSUME Types, [Next]_vars PROVE \E N, F : Adds(N, F)
<1>1. CASE \E d \in Device : Delete(d)
  <2>1. PICK d \in Device : Delete(d) BY <1>1
  <2>2. PICK F : F = {[at |-> d, id |-> Fresh(1)]} OBVIOUS
  <2>3. \A e \in Device : \A m \in texts'[e] : m \in texts[e] \/ m \in Range(mailbox[e]) \/ m \in {}
    BY <2>1 DEF Delete, Erase, Types, TextsOK
  <2>4. \A m \in Message : Around(m)' => Around(m) \/ m \in {} \/ Told(d, m)
    BY <2>1, <2>3, DeleteMoves, AroundMoves
  <2>5. /\ \A x \in F : x.id > drawn /\ x.id <= drawn'
        /\ \A x, y \in F : x = y
    BY <2>1, <2>2, DeleteMoves
  <2>6. \A e \in Device : \A t \in tombstone'[e] :
            \/ \E u \in tombstone[e] : u.id = t.id /\ (t.pending => u.pending)
            \/ e = d /\ t.id = Fresh(1)
    BY <2>1, DeleteMoves
  <2>7. \A e \in Device : \A t \in tombstone'[e] :
            \/ \E u \in tombstone[e] : u.id = t.id /\ (t.pending => u.pending)
            \/ [at |-> e, id |-> t.id] \in F
    BY <2>2, <2>6
  <2>8. Adds({}, F) BY <2>4, <2>5, <2>7 DEF Adds, SingleId
  <2> QED BY <2>8
<1>2. CASE StonesKept
  <2>1. CASE \A m \in Message : Around(m)' => Around(m)
    <3>1. Adds({}, {}) BY <1>2, <2>1 DEF Adds, SingleId, StonesKept
    <3> QED BY <3>1
  <2>2. ASSUME NEW d \in Device, NEW N, Posts(d, N),
               \A m \in Message : Around(m)' => Around(m) \/ m \in N \/ Told(d, m)
        PROVE  \E M, F : Adds(M, F)
    <3>1. SingleId(N) /\ \A m \in N : m.id > drawn /\ m.id <= drawn' BY <2>2 DEF Posts, Sent
    <3>2. /\ \A m \in N : m.kind = "read" =>
                \A i \in m.about : m.from \in Device /\ <<m.from, i>> \in seen' /\ Came(m.from, i)
          /\ \A m \in N : m.kind = "response" => \E r : m.about = {r}
      BY <2>2 DEF Posts, Sent
    <3>3. Adds(N, {}) BY <1>2, <2>2, <3>1, <3>2 DEF Adds, StonesKept
    <3> QED BY <3>3
  <2> QED BY <2>1, <2>2, Gathering
<1> QED BY <1>1, <1>2, StonesMove

LEMMA NumbersOfIds ==
    /\ \A m \in Message : m.id \in Int
    /\ \A t \in [id : Ids, pending : BOOLEAN] : t.id \in Int /\ t.id \in Ids
<1>1. \A i \in Ids : i \in Int BY DEF Ids
<1>2. \A m \in Message : m.id \in Ids BY DEF Message
<1> QED BY <1>1, <1>2

LEMMA DelForm == \A d, id : Del(d, id).id = id /\ Del(d, id).kind = "deletion"
BY DEF Del

LEMMA UniqueStep == ASSUME Types, Types', Unique, [Next]_vars PROVE Unique'
<1>1. PICK N, F : Adds(N, F) BY StepAdds
<1>2. drawn \in Nat /\ drawn' \in Nat /\ drawn <= drawn' BY CountsStep DEF Types, CountsOK
<1>3. PICK Stones : Stones = [id : Ids, pending : BOOLEAN] OBVIOUS
<1>4. tombstone \in [Device -> SUBSET Stones] /\ tombstone' \in [Device -> SUBSET Stones]
  BY <1>3 DEF Types, StonesOK
<1>5. (\A m \in Message : m.id \in Int) /\ \A t \in Stones : t.id \in Int BY <1>3, NumbersOfIds
<1>6. OneMessageEach /\ AcceptedDrawn /\ StonesDrawn /\ StonesOwn BY DEF Unique
\* Where a waiting stone comes from.
<1>7. \A d \in Device : \A t \in tombstone'[d] : t.pending =>
          \/ \E u \in tombstone[d] : u.id = t.id /\ u.pending
          \/ [at |-> d, id |-> t.id] \in F
  BY <1>1 DEF Adds
<1>8. \A x \in F : x.id > drawn /\ x.id <= drawn' BY <1>1 DEF Adds
<1>9. \A m \in N : m.id > drawn /\ m.id <= drawn' BY <1>1 DEF Adds
<1>10. StonesDrawn'
  <2> SUFFICES ASSUME NEW d \in Device, NEW t \in tombstone'[d] PROVE t.id <= drawn'
      BY DEF StonesDrawn
  <2>0. t.id \in Int BY <1>4, <1>5
  <2>1. CASE \E u \in tombstone[d] : u.id = t.id BY <1>2, <1>6, <2>0, <2>1 DEF StonesDrawn
  <2>2. CASE \E m \in Message : Around(m) /\ m.id = t.id
    BY <1>2, <1>6, <2>0, <2>2 DEF OneMessageEach
  <2>3. CASE [at |-> d, id |-> t.id] \in F BY <1>8, <2>3
  <2> QED BY <1>1, <2>1, <2>2, <2>3 DEF Adds
\* What is around afterwards, by its id.
<1>11. ASSUME NEW m \in Message, Around(m)'
       PROVE  \/ Around(m) /\ m.id <= drawn
              \/ m \in N /\ F = {}
              \/ \E d \in Device : \E t \in tombstone'[d] : t.pending /\ m = Del(d, t.id)
  BY <1>1, <1>6, <1>11 DEF Adds, OneMessageEach, Told
<1>12. \A m \in Message : Around(m)' => m.id <= drawn'
  <2> SUFFICES ASSUME NEW m \in Message, Around(m)' PROVE m.id <= drawn' OBVIOUS
  <2>0. m.id \in Int BY <1>5
  <2>1. CASE m.id <= drawn BY <1>2, <2>0, <2>1
  <2>2. CASE \E d \in Device : \E t \in tombstone'[d] : m = Del(d, t.id)
    BY <1>10, <2>2, DelForm DEF StonesDrawn
  <2> QED BY <1>9, <1>11, <2>1, <2>2
<1>13. AcceptedDrawn'
  <2>1. ASSUME NEW d \in Device, NEW m \in outbox[d], Accept(d, m) PROVE AcceptedDrawn'
    <3>1. m \in Message BY <2>1, Delivered
    <3>2. m.id <= drawn BY <1>6, <3>1 DEF Around, OneMessageEach
    <3>3. accepted' = accepted \cup {m.id} /\ drawn' = drawn BY <2>1 DEF Accept
    <3> QED BY <1>6, <3>2, <3>3 DEF AcceptedDrawn
  <2>2. \A id \in accepted : id \in Int BY DEF Types, CountsOK, Ids
  <2>3. CASE UNCHANGED accepted BY <1>2, <1>6, <2>2, <2>3 DEF AcceptedDrawn
  <2> QED BY <2>1, <2>3, MailMoves
\* Two stones that wait never have the same id.
<1>14. ASSUME NEW d \in Device, NEW e \in Device, NEW t \in tombstone'[d], NEW u \in tombstone'[e],
              t.pending, u.pending, t.id = u.id
       PROVE  d = e
  <2>1. CASE /\ \E x \in tombstone[d] : x.id = t.id /\ x.pending
             /\ \E x \in tombstone[e] : x.id = t.id /\ x.pending
    BY <1>6, <2>1 DEF StonesOwn
  <2>2. CASE [at |-> d, id |-> t.id] \in F
    <3>1. t.id > drawn BY <1>8, <2>2
    <3>2. t.id \in Int BY <1>4, <1>5
    <3>3. ~ \E x \in tombstone[e] : x.id = u.id BY <1>2, <1>6, <1>14, <3>1, <3>2 DEF StonesDrawn
    <3>4. [at |-> e, id |-> u.id] \in F BY <1>7, <1>14, <3>3
    <3>5. [at |-> d, id |-> t.id] = [at |-> e, id |-> u.id] BY <1>1, <2>2, <3>4 DEF Adds
    <3> QED BY <3>5
  <2>3. CASE [at |-> e, id |-> u.id] \in F
    <3>1. u.id > drawn BY <1>8, <2>3
    <3>2. u.id \in Int BY <1>4, <1>5
    <3>3. ~ \E x \in tombstone[d] : x.id = t.id BY <1>2, <1>6, <1>14, <3>1, <3>2 DEF StonesDrawn
    <3>4. [at |-> d, id |-> t.id] \in F BY <1>7, <1>14, <3>3
    <3>5. [at |-> d, id |-> t.id] = [at |-> e, id |-> u.id] BY <1>1, <2>3, <3>4 DEF Adds
    <3> QED BY <3>5
  <2> QED BY <1>7, <1>14, <2>1, <2>2, <2>3
\* A message with the id of a stone that waits is that deletion.
<1>15. ASSUME NEW d \in Device, NEW t \in tombstone'[d], t.pending,
              NEW m \in Message, Around(m)', m.id = t.id
       PROVE  m = Del(d, t.id)
  <2>0. t.id \in Int BY <1>4, <1>5
  <2>1. CASE Around(m) /\ m.id <= drawn
    <3>1. [at |-> d, id |-> t.id] \notin F BY <1>2, <1>8, <1>15, <2>0, <2>1
    <3>2. PICK u \in tombstone[d] : u.id = t.id /\ u.pending BY <1>7, <1>15, <3>1
    <3> QED BY <1>6, <1>15, <2>1, <3>2 DEF StonesOwn
  <2>2. CASE m \in N /\ F = {}
    <3>1. m.id > drawn BY <1>9, <2>2
    <3>2. PICK u \in tombstone[d] : u.id = t.id BY <1>7, <1>15, <2>2
    <3>3. u.id <= drawn BY <1>6 DEF StonesDrawn
    <3> QED BY <1>2, <1>15, <2>0, <3>1, <3>2, <3>3
  <2>3. CASE \E e \in Device : \E u \in tombstone'[e] : u.pending /\ m = Del(e, u.id)
    <3>0. PICK e \in Device : \E u \in tombstone'[e] : u.pending /\ m = Del(e, u.id) BY <2>3
    <3>1. PICK u \in tombstone'[e] : u.pending /\ m = Del(e, u.id) BY <3>0
    <3>2. u.id = t.id BY <1>15, <3>1, DelForm
    <3>3. d = e BY <1>14, <1>15, <3>1, <3>2
    <3> QED BY <3>1, <3>2, <3>3
  <2> QED BY <1>11, <1>15, <2>1, <2>2, <2>3
<1>16. ASSUME NEW m1 \in Message, NEW m2 \in Message, Around(m1)', Around(m2)', m1.id = m2.id
       PROVE  m1 = m2
  <2>0. m1.id \in Int /\ m2.id \in Int BY <1>5
  <2>1. CASE \E d \in Device : \E t \in tombstone'[d] : t.pending /\ m1 = Del(d, t.id)
    BY <1>15, <1>16, <2>1, DelForm
  <2>2. CASE \E d \in Device : \E t \in tombstone'[d] : t.pending /\ m2 = Del(d, t.id)
    BY <1>15, <1>16, <2>2, DelForm
  <2>3. CASE m1 \in N /\ m2 \in N BY <1>1, <1>16, <2>3 DEF Adds, SingleId
  <2>4. CASE Around(m1) /\ Around(m2) BY <1>6, <1>16, <2>4 DEF OneMessageEach
  <2>5. CASE \/ m1 \in N /\ m2.id <= drawn
             \/ m2 \in N /\ m1.id <= drawn
    BY <1>2, <1>9, <1>16, <2>0, <2>5
  <2> QED BY <1>11, <1>16, <2>1, <2>2, <2>3, <2>4, <2>5
<1>17. StonesOwn' BY <1>14, <1>15 DEF StonesOwn
<1>18. OneMessageEach' BY <1>12, <1>16 DEF OneMessageEach
<1> QED BY <1>10, <1>13, <1>17, <1>18 DEF Unique

LEMMA UniqueInit == Init => Unique
<1> SUFFICES ASSUME Init PROVE Unique OBVIOUS
<1>1. ASSUME NEW m \in Message PROVE ~Around(m)
  <2>1. Range(<<>>) = {} BY DEF Range
  <2> QED BY <2>1 DEF Init, Around
<1>2. accepted = {} /\ tombstone = [d \in Device |-> {}] BY DEF Init
<1> QED BY <1>1, <1>2 DEF Unique, OneMessageEach, AcceptedDrawn, StonesDrawn, StonesOwn

Inv == Types /\ Unique
LEMMA InvHolds == Spec => []Inv
<1>1. Init => Inv BY TypesInit, UniqueInit DEF Inv
<1>2. Inv /\ [Next]_vars => Inv' BY TypesStep, UniqueStep DEF Inv
<1> QED BY <1>1, <1>2, PTL DEF Spec


(***************************************************************************)
(* A text shown as read has been on a screen                               *)
(***************************************************************************)

ReceiptsSeen ==
    \A m \in Message : Around(m) /\ m.kind = "read" => \A i \in m.about : <<m.from, i>> \in seen

LEMMA SeenGrows == ASSUME Types, [Next]_vars PROVE seen \subseteq seen'
<1>1. CASE UNCHANGED vars BY <1>1 DEF vars, history
<1>2. ASSUME NEW d \in Device, Chat(d) \/ Look(d) \/ Verify(d) \/ SendText(d) \/ Delete(d)
                               \/ TellDeletion(d)
      PROVE  seen \subseteq seen'
  BY <1>2 DEF Chat, Look, Verify, SendText, Delete, TellDeletion, history
<1>3. ASSUME NEW d \in Device, NEW n, DismissNote(d, n) \/ Accept(d, n) \/ Complete(d, n)
      PROVE  seen \subseteq seen'
  BY <1>3 DEF DismissNote, Accept, Complete, history
<1>4. ASSUME NEW d \in Device, NEW n, NEW v, Answer(d, n, v) PROVE seen \subseteq seen'
  BY <1>4 DEF Answer
<1>5. ASSUME NEW d \in Device, NEW m, Arrival(d, m) PROVE seen \subseteq seen'
  <2>1. CASE ReceiveText(d, m) BY <2>1 DEF ReceiveText
  <2>2. CASE ReceiveDeletion(d, m) \/ IgnoreOldText(d, m) \/ Quarantine(d, m)
    BY <2>2 DEF ReceiveDeletion, IgnoreOldText, Quarantine, history
  <2>3. CASE ReceiveRead(d, m) \/ ReceiveRequest(d, m) \/ ReceiveResponse(d, m)
    BY <2>3 DEF ReceiveRead, ReceiveRequest, ReceiveResponse, history
  <2> QED BY <1>5, <2>1, <2>2, <2>3 DEF Arrival
<1> QED BY <1>1, <1>2, <1>3, <1>4, <1>5, Steps

LEMMA ReceiptsStep == ASSUME Types, ReceiptsSeen, [Next]_vars PROVE ReceiptsSeen'
<1>1. PICK N, F : Adds(N, F) BY StepAdds
<1>2. seen \subseteq seen' BY SeenGrows
<1> SUFFICES ASSUME NEW m \in Message, Around(m)', m.kind = "read", NEW i \in m.about
             PROVE  <<m.from, i>> \in seen'
    BY DEF ReceiptsSeen
<1>3. CASE Around(m) BY <1>2, <1>3 DEF ReceiptsSeen
<1>4. CASE m \in N BY <1>1, <1>4 DEF Adds
<1>5. CASE \E d \in Device : Told(d, m) BY <1>5, DelForm DEF Told
<1> QED BY <1>1, <1>3, <1>4, <1>5 DEF Adds

\* What marks a text as read: the user's eyes, or a receipt.
LEMMA ReadMoves ==
    ASSUME Types, [Next]_vars
    PROVE  \A d \in Device : \A i \in read'[d] :
              \/ i \in read[d]
              \/ \E x \in texts'[d] : x.id = i /\ Inbound(d, x)
              \/ \E r \in Range(mailbox[d]) : r.kind = "read" /\ i \in r.about
<1> DEFINE Goal == \A d \in Device : \A i \in read'[d] :
              \/ i \in read[d]
              \/ \E x \in texts'[d] : x.id = i /\ Inbound(d, x)
              \/ \E r \in Range(mailbox[d]) : r.kind = "read" /\ i \in r.about
<1>0. read \in [Device -> SUBSET Ids] BY DEF Types, TextsOK
<1>1. ASSUME UNCHANGED read PROVE Goal BY <1>1
<1>2. ASSUME NEW d \in Device, NEW A, read' = [read EXCEPT ![d] = @ \cup A],
             \A i \in A : \/ \E x \in texts'[d] : x.id = i /\ Inbound(d, x)
                          \/ \E r \in Range(mailbox[d]) : r.kind = "read" /\ i \in r.about
      PROVE  Goal
  BY <1>0, <1>2
<1>3. ASSUME NEW d \in Device, NEW id, NEW p, Erase(d, id, p) PROVE Goal
  BY <1>0, <1>3 DEF Erase
<1>4. ASSUME NEW d \in Device, UNCHANGED texts, read' = [read EXCEPT ![d] = @ \cup IdsOf(Unread(d))]
      PROVE  Goal
  <2>1. \A i \in IdsOf(Unread(d)) : \E x \in texts'[d] : x.id = i /\ Inbound(d, x)
    BY <1>4 DEF IdsOf, Unread
  <2> QED BY <1>2, <1>4, <2>1
<1>5. ASSUME NEW d \in Device, Look(d) PROVE Goal BY <1>1, <1>4, <1>5 DEF Look
<1>6. ASSUME NEW d \in Device, NEW n, NEW v, Answer(d, n, v) PROVE Goal
  BY <1>1, <1>4, <1>6 DEF Answer
<1>7. ASSUME NEW d \in Device, NEW m \in Message, m \in Range(mailbox[d]), Arrival(d, m) PROVE Goal
  <2>1. CASE ReceiveDeletion(d, m) BY <1>3, <2>1 DEF ReceiveDeletion
  <2>2. CASE ReceiveText(d, m)
    <3>1. CASE UNCHANGED read BY <1>1, <3>1
    <3>2. CASE Inbound(d, m) /\ read' = [read EXCEPT ![d] = @ \cup {m.id}]
      <4>1. texts' = [texts EXCEPT ![d] = @ \cup {m}] BY <2>2 DEF ReceiveText
      <4>2. m \in texts'[d] BY <4>1 DEF Types, TextsOK
      <4>3. \A i \in {m.id} : \E x \in texts'[d] : x.id = i /\ Inbound(d, x) BY <3>2, <4>2
      <4> QED BY <1>2, <3>2, <4>3
    <3> QED BY <2>2, <3>1, <3>2 DEF ReceiveText, SendsReceipt
  <2>3. CASE ReceiveRead(d, m)
    <3>1. PICK A : A = m.about \cap IdsOf({t \in texts[d] : ~Inbound(d, t)}) OBVIOUS
    <3>2. m.kind = "read" /\ read' = [read EXCEPT ![d] = @ \cup A] BY <2>3, <3>1 DEF ReceiveRead
    <3>3. \A i \in A : \E r \in Range(mailbox[d]) : r.kind = "read" /\ i \in r.about
      BY <1>7, <3>1, <3>2
    <3> QED BY <1>2, <3>2, <3>3
  <2>4. CASE IgnoreOldText(d, m) \/ Quarantine(d, m)
    BY <1>1, <2>4 DEF IgnoreOldText, Quarantine, tables
  <2>5. CASE ReceiveRequest(d, m) \/ ReceiveResponse(d, m)
    BY <1>1, <2>5 DEF ReceiveRequest, ReceiveResponse
  <2> QED BY <1>7, <2>1, <2>2, <2>3, <2>4, <2>5 DEF Arrival
<1>8. ASSUME NEW d \in Device, Chat(d) \/ Verify(d) \/ SendText(d) \/ TellDeletion(d) PROVE Goal
  BY <1>1, <1>8 DEF Chat, Verify, SendText, TellDeletion
<1>9. ASSUME NEW d \in Device, Delete(d) PROVE Goal BY <1>3, <1>9 DEF Delete
<1>10. ASSUME NEW d \in Device, NEW n, DismissNote(d, n) \/ Accept(d, n) \/ Complete(d, n)
       PROVE  Goal
  BY <1>1, <1>10 DEF DismissNote, Accept, Complete, tables
<1>11. CASE UNCHANGED vars BY <1>1, <1>11 DEF vars, tables
<1> QED BY <1>5, <1>6, <1>7, <1>8, <1>9, <1>10, <1>11, Steps

LEMMA ReadStep ==
    ASSUME Types, Types', Unique, Unique', ReceiptsSeen, ReadWasSeen, [Next]_vars
    PROVE  ReadWasSeen'
<1> SUFFICES ASSUME NEW d \in Device, NEW m \in texts'[d], ~Inbound(d, m), m.id \in read'[d]
             PROVE  \E e \in Device : ~Own(d, e) /\ <<e, m.id>> \in seen'
    BY DEF ReadWasSeen, Inbound, Own
<1>1. texts'[d] \subseteq Message /\ texts[d] \subseteq Message BY DEF Types, TextsOK
<1>2. m \in Message BY <1>1
<1>3. CASE m.id \in read[d]
  <2>1. read[d] \subseteq IdsOf(texts[d]) BY DEF Types, TextsOK
  <2>2. PICK y \in texts[d] : y.id = m.id BY <1>3, <2>1 DEF IdsOf
  <2>3. y \in Message /\ Around(y) BY <1>1 DEF Around
  <2>4. m \in texts[d]
    <3>1. CASE Around(m) BY <1>2, <2>2, <2>3, <3>1 DEF Unique, OneMessageEach
    <3>2. CASE ~Around(m)
      <4>1. PICK e \in Device : SendText(e) BY <3>2, TextsMove DEF Around
      <4>2. PICK w : w.id > drawn /\ texts' = [texts EXCEPT ![e] = @ \cup {w}]
        BY <4>1, SendTextPosts
      <4>3. texts \in [Device -> SUBSET Message] BY DEF Types, TextsOK
      <4>4. m \in texts[d] \/ m = w BY <4>2, <4>3
      <4>5. y.id <= drawn BY <2>3 DEF Unique, OneMessageEach
      <4>6. y.id \in Int /\ drawn \in Nat BY <2>3, NumbersOfIds DEF Types, CountsOK
      <4> QED BY <2>2, <4>2, <4>4, <4>5, <4>6
    <3> QED BY <3>1, <3>2
  <2>5. \E e \in Device : ~Own(d, e) /\ <<e, m.id>> \in seen BY <1>3, <2>4 DEF ReadWasSeen
  <2> QED BY <2>5, SeenGrows
<1>4. ASSUME NEW x \in texts'[d], x.id = m.id, Inbound(d, x) PROVE FALSE
  <2>1. x \in Message /\ Around(x)' /\ Around(m)' BY <1>1 DEF Around
  <2>2. x = m BY <1>2, <1>4, <2>1 DEF Unique, OneMessageEach
  <2> QED BY <1>4, <2>2
<1>5. ASSUME NEW r \in Range(mailbox[d]), r.kind = "read", m.id \in r.about
      PROVE  \E e \in Device : ~Own(d, e) /\ <<e, m.id>> \in seen'
  <2>1. d \in Recipients(r) /\ mailbox[d] \in Seq(Message) BY DEF Types, MailOK
  <2>2. r \in Message
    <3>1. DOMAIN mailbox[d] = 1 .. Len(mailbox[d]) BY <2>1
    <3> QED BY <2>1, <3>1 DEF Range
  <2>3. r.from \in Device /\ ~Own(d, r.from) BY <1>5, <2>1, <2>2 DEF Recipients, Message
  <2>4. Around(r) BY DEF Around
  <2>5. <<r.from, m.id>> \in seen BY <1>5, <2>2, <2>4 DEF ReceiptsSeen
  <2> QED BY <2>3, <2>5, SeenGrows
<1> QED BY <1>3, <1>4, <1>5, ReadMoves

\* A text is shown as read only after a device of the recipient has had it on its
\* screen: the receipt names what the screen showed (mark_selected_read,
\* should_send_read_receipt), goes to the other account only, and no id is used twice.
THEOREM ReadIsSeen == Spec => []ReadWasSeen
<1>1. Init => ReceiptsSeen /\ ReadWasSeen
  <2> SUFFICES ASSUME Init PROVE ReceiptsSeen /\ ReadWasSeen OBVIOUS
  <2>1. ASSUME NEW m \in Message PROVE ~Around(m)
    <3>1. Range(<<>>) = {} BY DEF Range
    <3> QED BY <3>1 DEF Init, Around
  <2> QED BY <2>1 DEF Init, ReceiptsSeen, ReadWasSeen
<1>2. Inv /\ Inv' /\ ReceiptsSeen /\ ReadWasSeen /\ [Next]_vars => ReceiptsSeen' /\ ReadWasSeen'
  BY ReceiptsStep, ReadStep DEF Inv
<1> QED BY <1>1, <1>2, InvHolds, PTL DEF Spec


(***************************************************************************)
(* A text the server has taken is kept                                     *)
(***************************************************************************)

KeptAt(e, m) ==
    \/ m \in Range(mailbox[e]) \/ m \in texts[e] \/ m \in wiped[e]
    \/ [id |-> m.id, at |-> e] \in dropped
KeptForAll ==
    \A d \in Device : \A m \in texts[d] : (m.from = d /\ m.id \in accepted) =>
        \A e \in Recipients(m) : KeptAt(e, m)
WipedOK == wiped \in [Device -> SUBSET Message]

LEMMA WipedStep == ASSUME Types, WipedOK, [Next]_vars
                   PROVE  WipedOK' /\ \A e \in Device : wiped[e] \subseteq wiped'[e]
<1> DEFINE Goal == WipedOK' /\ \A e \in Device : wiped[e] \subseteq wiped'[e]
<1>1. ASSUME UNCHANGED wiped PROVE Goal BY <1>1 DEF WipedOK
<1>2. ASSUME NEW d \in Device, NEW id, NEW p, Erase(d, id, p) PROVE Goal
  <2>1. wiped' = [wiped EXCEPT ![d] = @ \cup texts[d]] BY <1>2 DEF Erase
  <2>2. texts[d] \in SUBSET Message BY DEF Types, TextsOK
  <2> QED BY <2>1, <2>2 DEF WipedOK
<1>3. ASSUME NEW d \in Device, NEW m, Arrival(d, m) PROVE Goal
  <2>1. CASE ReceiveDeletion(d, m) BY <1>2, <2>1 DEF ReceiveDeletion
  <2>2. CASE IgnoreOldText(d, m) \/ Quarantine(d, m) \/ ReceiveText(d, m)
    BY <1>1, <2>2 DEF IgnoreOldText, Quarantine, ReceiveText, history
  <2>3. CASE ReceiveRead(d, m) \/ ReceiveRequest(d, m) \/ ReceiveResponse(d, m)
    BY <1>1, <2>3 DEF ReceiveRead, ReceiveRequest, ReceiveResponse, history
  <2> QED BY <1>3, <2>1, <2>2, <2>3 DEF Arrival
<1>4. ASSUME NEW d \in Device, Chat(d) \/ Look(d) \/ Verify(d) \/ SendText(d) \/ TellDeletion(d)
      PROVE  Goal
  BY <1>1, <1>4 DEF Chat, Look, Verify, SendText, TellDeletion, history
<1>5. ASSUME NEW d \in Device, Delete(d) PROVE Goal BY <1>2, <1>5 DEF Delete
<1>6. ASSUME NEW d \in Device, NEW n, DismissNote(d, n) \/ Accept(d, n) \/ Complete(d, n) PROVE Goal
  BY <1>1, <1>6 DEF DismissNote, Accept, Complete, history
<1>7. ASSUME NEW d \in Device, NEW n, NEW v, Answer(d, n, v) PROVE Goal BY <1>1, <1>7 DEF Answer
<1>8. CASE UNCHANGED vars BY <1>1, <1>8 DEF vars, history
<1> QED BY <1>3, <1>4, <1>5, <1>6, <1>7, <1>8, Steps

\* Texts leave the table with a deletion only.
LEMMA TextsStay ==
    ASSUME Types, WipedOK, [Next]_vars
    PROVE  \A e \in Device : \A m \in texts[e] : m \in texts'[e] \/ m \in wiped'[e]
<1> DEFINE Goal == \A e \in Device : \A m \in texts[e] : m \in texts'[e] \/ m \in wiped'[e]
<1>0. texts \in [Device -> SUBSET Message] BY DEF Types, TextsOK
<1>1. ASSUME UNCHANGED texts PROVE Goal BY <1>1
<1>2. ASSUME NEW d \in Device, NEW id, NEW p, Erase(d, id, p) PROVE Goal
  BY <1>0, <1>2 DEF Erase, WipedOK
<1>3. ASSUME NEW d \in Device, NEW m, texts' = [texts EXCEPT ![d] = @ \cup {m}] PROVE Goal
  BY <1>0, <1>3
<1>4. ASSUME NEW d \in Device, NEW m, Arrival(d, m) PROVE Goal
  <2>1. CASE ReceiveDeletion(d, m) BY <1>2, <2>1 DEF ReceiveDeletion
  <2>2. CASE Quarantine(d, m) \/ ReceiveText(d, m) BY <1>3, <2>2 DEF Quarantine, ReceiveText
  <2>3. CASE IgnoreOldText(d, m) \/ ReceiveRead(d, m)
    BY <1>1, <2>3 DEF IgnoreOldText, ReceiveRead, tables
  <2>4. CASE ReceiveRequest(d, m) \/ ReceiveResponse(d, m)
    BY <1>1, <2>4 DEF ReceiveRequest, ReceiveResponse
  <2> QED BY <1>4, <2>1, <2>2, <2>3, <2>4 DEF Arrival
<1>5. ASSUME NEW d \in Device, Chat(d) \/ Look(d) \/ Verify(d) \/ TellDeletion(d) PROVE Goal
  BY <1>1, <1>5 DEF Chat, Look, Verify, TellDeletion
<1>6. ASSUME NEW d \in Device, SendText(d) PROVE Goal BY <1>3, <1>6 DEF SendText
<1>7. ASSUME NEW d \in Device, Delete(d) PROVE Goal BY <1>2, <1>7 DEF Delete
<1>8. ASSUME NEW d \in Device, NEW n, DismissNote(d, n) \/ Accept(d, n) \/ Complete(d, n) PROVE Goal
  BY <1>1, <1>8 DEF DismissNote, Accept, Complete, tables
<1>9. ASSUME NEW d \in Device, NEW n, NEW v, Answer(d, n, v) PROVE Goal BY <1>1, <1>9 DEF Answer
<1>10. CASE UNCHANGED vars BY <1>1, <1>10 DEF vars, tables
<1> QED BY <1>4, <1>5, <1>6, <1>7, <1>8, <1>9, <1>10, Steps

LEMMA DroppedGrows == ASSUME Types, [Next]_vars PROVE dropped \subseteq dropped'
<1>1. CASE UNCHANGED vars BY <1>1 DEF vars, history
<1>2. ASSUME NEW d \in Device, Chat(d) \/ Look(d) \/ Verify(d) \/ SendText(d) \/ Delete(d)
                               \/ TellDeletion(d)
      PROVE  dropped \subseteq dropped'
  BY <1>2 DEF Chat, Look, Verify, SendText, Delete, TellDeletion, history
<1>3. ASSUME NEW d \in Device, NEW n, DismissNote(d, n) \/ Accept(d, n) \/ Complete(d, n)
      PROVE  dropped \subseteq dropped'
  BY <1>3 DEF DismissNote, Accept, Complete, history
<1>4. ASSUME NEW d \in Device, NEW n, NEW v, Answer(d, n, v) PROVE dropped \subseteq dropped'
  BY <1>4 DEF Answer
<1>5. ASSUME NEW d \in Device, NEW m, Arrival(d, m) PROVE dropped \subseteq dropped'
  <2>1. CASE ReceiveDeletion(d, m) \/ IgnoreOldText(d, m) \/ Quarantine(d, m) \/ ReceiveText(d, m)
    BY <2>1 DEF ReceiveDeletion, IgnoreOldText, Quarantine, ReceiveText, history
  <2>2. CASE ReceiveRead(d, m) \/ ReceiveRequest(d, m) \/ ReceiveResponse(d, m)
    BY <2>2 DEF ReceiveRead, ReceiveRequest, ReceiveResponse, history
  <2> QED BY <1>5, <2>1, <2>2 DEF Arrival
<1> QED BY <1>1, <1>2, <1>3, <1>4, <1>5, Steps

\* What a mailbox loses is its first message, which a handler has worked through.
LEMMA MailHandled ==
    ASSUME Types, [Next]_vars, NEW e \in Device, NEW m \in Message, m.kind = "text",
           m \in Range(mailbox[e])
    PROVE  m \in Range(mailbox'[e]) \/ m \in texts'[e] \/ [id |-> m.id, at |-> e] \in dropped'
<1> DEFINE Goal ==
        m \in Range(mailbox'[e]) \/ m \in texts'[e] \/ [id |-> m.id, at |-> e] \in dropped'
<1>0. /\ mailbox \in [Device -> Seq(Message)] /\ mailbox[e] \in Seq(Message)
      /\ texts \in [Device -> SUBSET Message]
  BY DEF Types, MailOK, TextsOK
<1>1. ASSUME UNCHANGED mailbox PROVE Goal BY <1>1
<1>2. ASSUME NEW d \in Device, NEW n, Accept(d, n) PROVE Goal
  <2>1. n \in outbox[d] BY <1>2 DEF Accept
  <2> QED BY <1>2, <2>1, Delivered
<1>3. ASSUME NEW d \in Device, mailbox[d] # <<>>, Drop(d), NEW x, x = Head(mailbox[d]),
             d = e /\ x = m => m \in texts'[e] \/ [id |-> m.id, at |-> e] \in dropped'
      PROVE  Goal
  <2>1. mailbox' = [mailbox EXCEPT ![d] = Tail(mailbox[d])] BY <1>3 DEF Drop
  <2>2. CASE d # e BY <1>0, <2>1, <2>2
  <2>3. CASE d = e
    <3>1. mailbox'[e] = Tail(mailbox[e]) BY <1>0, <2>1, <2>3
    <3>2. m = Head(mailbox[e]) \/ m \in Range(Tail(mailbox[e])) BY <1>0, <1>3, <2>3, RangeOfTail
    <3> QED BY <1>3, <2>3, <3>1, <3>2
  <2> QED BY <2>2, <2>3
<1>4. ASSUME NEW d \in Device, NEW x, mailbox[d] # <<>>, x = Head(mailbox[d]), Arrival(d, x)
      PROVE  Goal
  <2>1. CASE ReceiveDeletion(d, x) BY <1>3, <1>4, <2>1 DEF ReceiveDeletion
  <2>2. CASE IgnoreOldText(d, x) BY <1>3, <1>4, <2>2 DEF IgnoreOldText
  <2>3. CASE Quarantine(d, x) \/ ReceiveText(d, x)
    <3>1. Drop(d) /\ texts' = [texts EXCEPT ![d] = @ \cup {x}]
      BY <2>3 DEF Quarantine, ReceiveText
    <3>2. x \in texts'[d] BY <1>0, <3>1
    <3> QED BY <1>3, <1>4, <3>1, <3>2
  <2>4. CASE ReceiveRead(d, x) BY <1>3, <1>4, <2>4 DEF ReceiveRead
  <2>5. CASE ReceiveRequest(d, x) BY <1>1, <1>3, <1>4, <2>5 DEF ReceiveRequest
  <2>6. CASE ReceiveResponse(d, x) BY <1>1, <1>3, <1>4, <2>6 DEF ReceiveResponse
  <2> QED BY <1>4, <2>1, <2>2, <2>3, <2>4, <2>5, <2>6 DEF Arrival
<1>5. ASSUME NEW d \in Device, Chat(d) \/ Look(d) \/ Verify(d) \/ SendText(d) \/ Delete(d)
                               \/ TellDeletion(d)
      PROVE  Goal
  BY <1>1, <1>5 DEF Chat, Look, Verify, SendText, Delete, TellDeletion
<1>6. ASSUME NEW d \in Device, NEW n, DismissNote(d, n) \/ Complete(d, n) PROVE Goal
  BY <1>1, <1>6 DEF DismissNote, Complete
<1>7. ASSUME NEW d \in Device, NEW n, NEW v, Answer(d, n, v) PROVE Goal BY <1>1, <1>7 DEF Answer
<1>8. CASE UNCHANGED vars BY <1>1, <1>8 DEF vars
<1> QED BY <1>2, <1>4, <1>5, <1>6, <1>7, <1>8, Steps

LEMMA KeptStep ==
    ASSUME Types, Types', Unique, Unique', WipedOK, KeptForAll, [Next]_vars
    PROVE  KeptForAll'
<1> SUFFICES ASSUME NEW d \in Device, NEW m \in texts'[d], m.from = d, m.id \in accepted',
                    NEW e \in Device, e \in Recipients(m)
             PROVE  KeptAt(e, m)'
    BY DEF KeptForAll, Recipients
<1>1. m \in Message /\ m.kind = "text" BY DEF Types, TextsOK
<1>2. m.id \in Int /\ drawn \in Nat BY <1>1, NumbersOfIds DEF Types, CountsOK
<1>3. m \in texts[d]
  <2>1. CASE m \in Range(mailbox[d])
    <3>1. d \in Recipients(m) BY <2>1 DEF Types, MailOK
    <3> QED BY <3>1 DEF Recipients
  <2>2. ASSUME NEW b \in Device, SendText(b) PROVE m \in texts[d]
    <3>1. PICK w : w.id > drawn /\ texts' = [texts EXCEPT ![b] = @ \cup {w}]
      BY <2>2, SendTextPosts
    <3>2. texts \in [Device -> SUBSET Message] BY DEF Types, TextsOK
    <3>3. m \in texts[d] \/ m = w BY <3>1, <3>2
    <3>4. UNCHANGED accepted BY <2>2 DEF SendText
    <3>5. m.id <= drawn BY <3>4 DEF Unique, AcceptedDrawn
    <3> QED BY <1>2, <3>1, <3>3, <3>5
  <2> QED BY <2>1, <2>2, TextsMove
<1>4. CASE m.id \in accepted
  <2>1. KeptAt(e, m) BY <1>3, <1>4 DEF KeptForAll
  <2>2. dropped \subseteq dropped' /\ wiped[e] \subseteq wiped'[e] BY DroppedGrows, WipedStep
  <2>3. CASE m \in Range(mailbox[e]) BY <1>1, <2>3, MailHandled DEF KeptAt
  <2>4. CASE m \in texts[e] BY <2>4, TextsStay DEF KeptAt
  <2> QED BY <2>1, <2>2, <2>3, <2>4 DEF KeptAt
<1>5. CASE m.id \notin accepted
  <2>1. PICK b \in Device : \E x \in outbox[b] : Accept(b, x) BY <1>5, MailMoves
  <2>2. PICK x \in outbox[b] : Accept(b, x) BY <2>1
  <2>3. x \in Message /\ Around(x) BY <2>2, Delivered DEF Around
  <2>4. x.id = m.id BY <1>5, <2>2 DEF Accept
  <2>5. Around(m) BY <1>3 DEF Around
  <2>6. x = m BY <1>1, <2>3, <2>4, <2>5 DEF Unique, OneMessageEach
  <2>7. m \in Range(mailbox'[e]) BY <2>2, <2>6, Delivered
  <2> QED BY <2>7 DEF KeptAt
<1> QED BY <1>4, <1>5

\* A text the server has taken reaches every recipient: it waits in the mailbox, is in
\* the table, was taken by a deletion, or was dropped as one of a deleted conversation
\* (Db::store_envelopes stores for all recipients at once, commit_unverified_inbound
\* keeps what it quarantines).
THEOREM TakenTextsKept == Spec => []TextsKept
<1>1. Init => WipedOK /\ KeptForAll BY DEF Init, WipedOK, KeptForAll
<1>2. Inv /\ Inv' /\ WipedOK /\ KeptForAll /\ [Next]_vars => WipedOK' /\ KeptForAll'
  BY KeptStep, WipedStep DEF Inv
<1>3. Inv /\ KeptForAll => TextsKept
  <2> SUFFICES ASSUME Inv, KeptForAll, NEW d \in Device, NEW m \in texts[d], m.from = d,
                      m.id \in accepted, NEW e \in Recipients(m)
               PROVE  \/ OnItsWay(e, m.id) \/ m \in texts[e] \cup wiped[e]
                      \/ [id |-> m.id, at |-> e] \in dropped
      BY DEF TextsKept
  <2>1. KeptAt(e, m) BY DEF KeptForAll
  <2>2. ASSUME m \in Range(mailbox[e]) PROVE OnItsWay(e, m.id)
    <3>1. e \in Device /\ mailbox \in [Device -> Seq(Message)]
      BY DEF Recipients, Inv, Types, MailOK
    <3>2. DOMAIN mailbox[e] = 1 .. Len(mailbox[e]) BY <3>1
    <3> QED BY <2>2, <3>2 DEF OnItsWay, Range
  <2> QED BY <2>1, <2>2 DEF KeptAt
<1> QED BY <1>1, <1>2, <1>3, InvHolds, PTL DEF Spec


(***************************************************************************)
(* A message comes once                                                    *)
(***************************************************************************)

\* Nothing twice in a mailbox, nothing in a table and still in the mailbox, and nothing
\* in an outbox that the server has already, but deletions.
Arrived ==
    \A d \in Device :
        /\ \A m \in Range(mailbox[d]) : m.id \in accepted
        /\ \A m \in texts[d] : (m.from # d => m.id \in accepted) /\ m \notin Range(mailbox[d])
        /\ \A m \in outbox[d] : m.kind # "deletion" => m.id \notin accepted
        /\ \A i, j \in 1 .. Len(mailbox[d]) : mailbox[d][i] = mailbox[d][j] => i = j

LEMMA TailOnce ==
    ASSUME NEW S, NEW s \in Seq(S), s # <<>>,
           \A i, j \in 1 .. Len(s) : s[i] = s[j] => i = j
    PROVE  /\ Head(s) \notin Range(Tail(s))
           /\ \A i, j \in 1 .. Len(Tail(s)) : Tail(s)[i] = Tail(s)[j] => i = j
<1>1. Len(s) \in Nat /\ Len(s) > 0 /\ Head(s) = s[1] OBVIOUS
<1>2. Tail(s) \in Seq(S) /\ Len(Tail(s)) = Len(s) - 1 BY <1>1
<1>3. \A i \in 1 .. Len(s) - 1 : Tail(s)[i] = s[i + 1] /\ i + 1 \in 1 .. Len(s) /\ i + 1 # 1
  BY <1>1
<1>4. DOMAIN Tail(s) = 1 .. Len(s) - 1 BY <1>2
<1>5. 1 \in 1 .. Len(s) BY <1>1
<1>6. Head(s) \notin Range(Tail(s)) BY <1>1, <1>3, <1>4, <1>5 DEF Range
<1>7. ASSUME NEW i \in 1 .. Len(Tail(s)), NEW j \in 1 .. Len(Tail(s)), Tail(s)[i] = Tail(s)[j]
      PROVE  i = j
  <2>1. i + 1 = j + 1 BY <1>2, <1>3, <1>7
  <2> QED BY <1>2, <2>1
<1> QED BY <1>6, <1>7

LEMMA AppendOnce ==
    ASSUME NEW S, NEW s \in Seq(S), NEW e \in S, e \notin Range(s),
           \A i, j \in 1 .. Len(s) : s[i] = s[j] => i = j
    PROVE  \A i, j \in 1 .. Len(Append(s, e)) : Append(s, e)[i] = Append(s, e)[j] => i = j
<1>1. Len(s) \in Nat /\ DOMAIN s = 1 .. Len(s) OBVIOUS
<1>2. Len(Append(s, e)) = Len(s) + 1 /\ Append(s, e)[Len(s) + 1] = e OBVIOUS
<1>3. \A i \in 1 .. Len(s) : Append(s, e)[i] = s[i] /\ s[i] # e BY <1>1 DEF Range
<1>4. ASSUME NEW i \in 1 .. Len(s) + 1, NEW j \in 1 .. Len(s) + 1,
             Append(s, e)[i] = Append(s, e)[j]
      PROVE  i = j
  <2>1. \A k \in 1 .. Len(s) + 1 : k \in 1 .. Len(s) \/ k = Len(s) + 1 BY <1>1
  <2> QED BY <1>2, <1>3, <1>4, <2>1
<1> QED BY <1>2, <1>4

\* What is in an outbox afterwards was there before, has just been drawn, or is a
\* deletion that was to be told.
LEMMA OutboxMoves ==
    ASSUME Types, [Next]_vars
    PROVE  \A d \in Device : \A m \in outbox'[d] :
              m \in outbox[d] \/ (m.id > drawn /\ m.kind # "deletion") \/ Told(d, m)
<1>0. outbox \in [Device -> SUBSET Message] BY DEF Types, OutboxOK
<1>1. CASE UNCHANGED outbox BY <1>1
<1>2. ASSUME NEW d \in Device, NEW N, Posts(d, N)
      PROVE  \A e \in Device : \A m \in outbox'[e] :
                m \in outbox[e] \/ (m.id > drawn /\ m.kind # "deletion") \/ Told(e, m)
  <2>1. PICK X : /\ outbox' = [outbox EXCEPT ![d] = X]
                 /\ \A m \in X : m \in outbox[d] \/ m \in N \/ Told(d, m)
    BY <1>2 DEF Posts
  <2>2. \A m \in N : m.id > drawn /\ m.kind # "deletion" BY <1>2 DEF Posts, Sent
  <2> QED BY <1>0, <2>1, <2>2
<1> QED BY <1>1, <1>2, Posting

LEMMA AcceptedMoves ==
    ASSUME Types, Unique, [Next]_vars
    PROVE  /\ accepted \subseteq accepted'
           /\ \A id \in accepted' : id \in Int /\ id <= drawn
<1>1. accepted \subseteq accepted' BY MailMoves DEF Accept
<1>2. \A id \in accepted : id \in Int /\ id <= drawn
  BY DEF Unique, AcceptedDrawn, Types, CountsOK, Ids
<1>3. ASSUME NEW d \in Device, NEW m \in outbox[d], Accept(d, m)
      PROVE  accepted' = accepted \cup {m.id} /\ m.id \in Int /\ m.id <= drawn
  <2>1. m \in Message /\ Around(m) BY <1>3, Delivered DEF Around
  <2> QED BY <1>3, <2>1, NumbersOfIds DEF Accept, Unique, OneMessageEach
<1> QED BY <1>1, <1>2, <1>3, MailMoves

LEMMA TextIsAround ==
    ASSUME Types, NEW d \in Device, NEW m \in texts[d]
    PROVE  m \in Message /\ m.kind = "text" /\ Around(m)
BY DEF Types, TextsOK, Around

LEMMA ArrivedStep == ASSUME Types, Types', Unique, Arrived, [Next]_vars PROVE Arrived'
<1> SUFFICES ASSUME NEW d \in Device
             PROVE  /\ \A m \in Range(mailbox'[d]) : m.id \in accepted'
                    /\ \A m \in texts'[d] : /\ m.from # d => m.id \in accepted'
                                            /\ m \notin Range(mailbox'[d])
                    /\ \A m \in outbox'[d] : m.kind # "deletion" => m.id \notin accepted'
                    /\ \A i, j \in 1 .. Len(mailbox'[d]) :
                          mailbox'[d][i] = mailbox'[d][j] => i = j
    BY DEF Arrived
<1>0. mailbox[d] \in Seq(Message) BY DEF Types, MailOK
<1>1. accepted \subseteq accepted' BY AcceptedMoves
<1>2. ASSUME NEW b \in Device, NEW m \in outbox[b], Accept(b, m)
      PROVE  /\ m \in Message /\ Around(m) /\ m.id \notin accepted
             /\ accepted' = accepted \cup {m.id} /\ UNCHANGED texts
             /\ mailbox'[d] = IF d \in Recipients(m) THEN Append(mailbox[d], m) ELSE mailbox[d]
             /\ m \notin Range(mailbox[d])
             /\ d \in Recipients(m) => m \notin texts[d]
  <2>1. m \in Message /\ Around(m) BY <1>2, Delivered DEF Around
  <2>2. m.id \notin accepted BY <1>2 DEF Accept
  <2>3. m \notin Range(mailbox[d]) BY <2>2 DEF Arrived
  <2>4. d \in Recipients(m) => m \notin texts[d] BY <2>2 DEF Arrived, Recipients
  <2> QED BY <1>2, <2>1, <2>2, <2>3, <2>4 DEF Accept, tables
<1>3. ASSUME NEW m \in Range(mailbox'[d]) PROVE m.id \in accepted'
  <2>1. CASE m \in Range(mailbox[d]) BY <1>1, <2>1 DEF Arrived
  <2>2. ASSUME NEW b \in Device, NEW x \in outbox[b], Accept(b, x) PROVE m.id \in accepted'
    <3>1. Range(mailbox'[d]) = Range(mailbox[d]) \cup (IF d \in Recipients(x) THEN {x} ELSE {})
      BY <2>2, Delivered
    <3>2. m \in Range(mailbox[d]) \/ m = x BY <3>1
    <3> QED BY <1>2, <2>1, <2>2, <3>2
  <2>3. ASSUME NEW b \in Device, Taken(b) PROVE m \in Range(mailbox[d]) BY <2>3, TakenFrom
  <2> QED BY <2>1, <2>2, <2>3, MailMoves
<1>4. \A i, j \in 1 .. Len(mailbox'[d]) : mailbox'[d][i] = mailbox'[d][j] => i = j
  <2>1. CASE mailbox'[d] = mailbox[d] BY <2>1 DEF Arrived
  <2>2. ASSUME NEW b \in Device, NEW m \in outbox[b], Accept(b, m)
        PROVE  \A i, j \in 1 .. Len(mailbox'[d]) : mailbox'[d][i] = mailbox'[d][j] => i = j
    <3>1. \A i, j \in 1 .. Len(mailbox[d]) : mailbox[d][i] = mailbox[d][j] => i = j
      BY DEF Arrived
    <3>2. m \in Message /\ m \notin Range(mailbox[d]) BY <1>2, <2>2
    <3>3. CASE mailbox'[d] = Append(mailbox[d], m)
      <4>1. PICK s : s = mailbox[d] OBVIOUS
      <4>2. \A i, j \in 1 .. Len(Append(s, m)) : Append(s, m)[i] = Append(s, m)[j] => i = j
        BY <1>0, <3>1, <3>2, <4>1, AppendOnce
      <4> QED BY <3>3, <4>1, <4>2
    <3> QED BY <1>2, <2>1, <2>2, <3>3
  <2>3. ASSUME NEW b \in Device, Taken(b)
        PROVE  \A i, j \in 1 .. Len(mailbox'[d]) : mailbox'[d][i] = mailbox'[d][j] => i = j
    <3>1. CASE b # d BY <2>1, <2>3, <3>1, TakenFrom
    <3>2. CASE b = d
      <4>1. mailbox'[d] = Tail(mailbox[d]) /\ mailbox[d] # <<>>
        BY <2>3, <3>2 DEF Taken, Types, MailOK
      <4>2. PICK s : s = mailbox[d] OBVIOUS
      <4>3. \A i, j \in 1 .. Len(s) : s[i] = s[j] => i = j BY <4>2 DEF Arrived
      <4>4. \A i, j \in 1 .. Len(Tail(s)) : Tail(s)[i] = Tail(s)[j] => i = j
        BY <1>0, <4>1, <4>2, <4>3, TailOnce
      <4> QED BY <4>1, <4>2, <4>4
    <3> QED BY <3>1, <3>2
  <2> QED BY <2>1, <2>2, <2>3, MailMoves
<1>5. ASSUME NEW m \in outbox'[d], m.kind # "deletion" PROVE m.id \notin accepted'
  <2>1. CASE m.id > drawn
    <3>1. drawn \in Nat BY DEF Types, CountsOK
    <3> QED BY <2>1, <3>1, AcceptedMoves
  <2>2. CASE m \in outbox[d]
    <3>1. m.id \notin accepted BY <1>5, <2>2 DEF Arrived
    <3>2. ASSUME NEW b \in Device, NEW x \in outbox[b], Accept(b, x), x.id = m.id PROVE FALSE
      <4>1. m \in Message /\ Around(m) BY <2>2 DEF Types, OutboxOK, Around
      <4>2. x = m BY <1>2, <3>2, <4>1 DEF Unique, OneMessageEach
      <4>3. b = d BY <2>2, <3>2, <4>2 DEF Types, OutboxOK
      <4>4. outbox' = [outbox EXCEPT ![d] = @ \ {m}] BY <1>5, <3>2, <4>2, <4>3 DEF Accept
      <4> QED BY <4>4 DEF Types, OutboxOK
    <3> QED BY <1>2, <3>1, <3>2, MailMoves
  <2>3. CASE Told(d, m) BY <1>5, <2>3, DelForm DEF Told
  <2> QED BY <2>1, <2>2, <2>3, OutboxMoves
<1>6. ASSUME NEW m \in texts'[d]
      PROVE  (m.from # d => m.id \in accepted') /\ m \notin Range(mailbox'[d])
  <2>1. CASE m \in texts[d]
    <3>1. (m.from # d => m.id \in accepted) /\ m \notin Range(mailbox[d]) BY <2>1 DEF Arrived
    <3>2. ASSUME NEW b \in Device, NEW x \in outbox[b], Accept(b, x)
          PROVE  m \notin Range(mailbox'[d])
      <4>1. Range(mailbox'[d]) = Range(mailbox[d]) \cup (IF d \in Recipients(x) THEN {x} ELSE {})
        BY <3>2, Delivered
      <4> QED BY <1>2, <2>1, <3>1, <3>2, <4>1
    <3>3. ASSUME NEW b \in Device, Taken(b) PROVE m \notin Range(mailbox'[d])
      BY <3>1, <3>3, TakenFrom
    <3> QED BY <1>1, <3>1, <3>2, <3>3, MailMoves
  <2>2. CASE Opened(d, m)
    <3>1. m \in Range(mailbox[d]) BY <2>2, FirstMessage DEF Opened
    <3>2. PICK s : s = mailbox[d] OBVIOUS
    <3>3. \A i, j \in 1 .. Len(s) : s[i] = s[j] => i = j BY <3>2 DEF Arrived
    <3>4. Head(s) \notin Range(Tail(s)) BY <1>0, <2>2, <3>2, <3>3, TailOnce DEF Opened
    <3> QED BY <1>1, <2>2, <3>1, <3>2, <3>4 DEF Arrived, Opened
  <2>3. ASSUME NEW b \in Device, SendText(b), m \notin texts[d]
        PROVE  (m.from # d => m.id \in accepted') /\ m \notin Range(mailbox'[d])
    <3>1. PICK w : w.from = b /\ texts' = [texts EXCEPT ![b] = @ \cup {w}]
      BY <2>3, SendTextPosts
    <3>2. m = w /\ b = d BY <2>3, <3>1 DEF Types, TextsOK
    <3>3. \A x \in Range(mailbox'[d]) : d \in Recipients(x) BY DEF Types, MailOK
    <3> QED BY <3>1, <3>2, <3>3 DEF Recipients
  <2> QED BY <2>1, <2>2, <2>3, TextsOpened
<1> QED BY <1>3, <1>4, <1>5, <1>6


(***************************************************************************)
(* A deletion reaches the user's other devices                             *)
(***************************************************************************)

\* Of T nothing comes behind y.
NoneBehind(s, y, T) ==
    \E k \in 1 .. Len(s) : s[k] = y /\ \A j \in 1 .. Len(s) : j > k => s[j].id \notin T

LEMMA NoneBehindAppend ==
    ASSUME NEW S, NEW s \in Seq(S), NEW e \in S, NEW y, NEW T, e.id \notin T,
           NoneBehind(s, y, T) \/ e = y
    PROVE  NoneBehind(Append(s, e), y, T)
<1>1. Len(s) \in Nat /\ Len(Append(s, e)) = Len(s) + 1 /\ Append(s, e)[Len(s) + 1] = e OBVIOUS
<1>2. \A i \in 1 .. Len(s) : Append(s, e)[i] = s[i] OBVIOUS
<1>3. \A i \in 1 .. Len(s) + 1 : i \in 1 .. Len(s) \/ i = Len(s) + 1 BY <1>1
<1>4. CASE NoneBehind(s, y, T)
  <2>1. PICK k \in 1 .. Len(s) : s[k] = y /\ \A j \in 1 .. Len(s) : j > k => s[j].id \notin T
    BY <1>4 DEF NoneBehind
  <2>2. k \in 1 .. Len(s) + 1 /\ Append(s, e)[k] = y BY <1>1, <1>2, <2>1
  <2>3. \A j \in 1 .. Len(s) + 1 : j > k => Append(s, e)[j].id \notin T
    BY <1>1, <1>2, <1>3, <2>1
  <2> QED BY <1>1, <2>2, <2>3 DEF NoneBehind
<1>5. CASE e = y
  <2>1. Len(s) + 1 \in 1 .. Len(s) + 1 BY <1>1
  <2>2. \A j \in 1 .. Len(s) + 1 : ~(j > Len(s) + 1) BY <1>1
  <2> QED BY <1>1, <1>5, <2>1, <2>2 DEF NoneBehind
<1> QED BY <1>4, <1>5

LEMMA NoneBehindTail ==
    ASSUME NEW S, NEW s \in Seq(S), s # <<>>, NEW y, NEW T, NoneBehind(s, y, T)
    PROVE  \/ NoneBehind(Tail(s), y, T)
           \/ Head(s) = y /\ \A m \in Range(Tail(s)) : m.id \notin T
<1>1. Len(s) \in Nat /\ Len(s) > 0 /\ Head(s) = s[1] OBVIOUS
<1>2. Tail(s) \in Seq(S) /\ Len(Tail(s)) = Len(s) - 1 BY <1>1
<1>3. \A i \in 1 .. Len(s) - 1 : Tail(s)[i] = s[i + 1] /\ i + 1 \in 1 .. Len(s) /\ i + 1 > 1
  BY <1>1
<1>4. DOMAIN Tail(s) = 1 .. Len(s) - 1 BY <1>2
<1>5. PICK k \in 1 .. Len(s) : s[k] = y /\ \A j \in 1 .. Len(s) : j > k => s[j].id \notin T
  BY DEF NoneBehind
<1>6. CASE k = 1
  <2>1. \A m \in Range(Tail(s)) : m.id \notin T BY <1>3, <1>4, <1>5, <1>6 DEF Range
  <2> QED BY <1>1, <1>5, <1>6, <2>1
<1>7. CASE k # 1
  <2>1. k - 1 \in 1 .. Len(s) - 1 /\ (k - 1) + 1 = k BY <1>1, <1>5, <1>7
  <2>2. Tail(s)[k - 1] = y BY <1>3, <1>5, <2>1
  <2>3. ASSUME NEW j \in 1 .. Len(s) - 1, j > k - 1 PROVE Tail(s)[j].id \notin T
    <3>1. j + 1 > k BY <2>1, <2>3
    <3> QED BY <1>3, <1>5, <3>1
  <2> QED BY <1>2, <2>1, <2>2, <2>3 DEF NoneBehind
<1> QED BY <1>6, <1>7

\* A stone that waits goes with a verification, with the acceptance, or where there is
\* nobody to tell.
LEMMA PendingStays ==
    ASSUME Types, [Next]_vars, NEW d \in Device, NEW t \in tombstone[d], t.pending
    PROVE  \/ \E u \in tombstone'[d] : u.id = t.id /\ u.pending
           \/ Verify(d)
           \/ \A e \in Device : Own(d, e) => e = d
           \/ \E m \in outbox[d] : Complete(d, m) /\ m.id = t.id
<1> DEFINE Goal == \/ \E u \in tombstone'[d] : u.id = t.id /\ u.pending
                   \/ Verify(d)
                   \/ \A e \in Device : Own(d, e) => e = d
                   \/ \E m \in outbox[d] : Complete(d, m) /\ m.id = t.id
<1>0. tombstone \in [Device -> SUBSET [id : Ids, pending : BOOLEAN]] BY DEF Types, StonesOK
<1>1. ASSUME UNCHANGED tombstone PROVE Goal BY <1>1
<1>2. ASSUME NEW b \in Device, NEW S, tombstone' = [tombstone EXCEPT ![b] = S], b # d PROVE Goal
  <2>1. tombstone'[d] = tombstone[d] BY <1>0, <1>2
  <2> QED BY <2>1
<1>3. ASSUME NEW b \in Device, NEW id \in Ids, NEW p, Erase(b, id, p) PROVE Goal
  <2>1. CASE b # d BY <1>2, <1>3, <2>1 DEF Erase
  <2>2. CASE b = d
    <3>1. tombstone[d] = {t} BY DEF Types, StonesOK
    <3>2. PICK u : u = [id |-> IF t.pending THEN t.id ELSE IF p \/ id >= t.id THEN id ELSE t.id,
                        pending |-> t.pending \/ p]
      OBVIOUS
    <3>3. Buried(d, id, p) = {u} BY <3>1, <3>2 DEF Buried
    <3>4. u.id = t.id /\ u.pending BY <3>2
    <3>5. tombstone'[d] = {u} BY <1>0, <1>3, <2>2, <3>3 DEF Erase
    <3> QED BY <3>4, <3>5
  <2> QED BY <2>1, <2>2
<1>4. ASSUME NEW b \in Device, Verify(b) PROVE Goal
  BY <1>2, <1>4 DEF Verify
<1>5. ASSUME NEW b \in Device, TellDeletion(b) PROVE Goal
  <2>1. CASE UNCHANGED tombstone BY <1>1, <2>1
  <2>2. CASE ~HasOthers(b) /\ b # d
    BY <1>1, <1>2, <1>5, <2>2 DEF TellDeletion
  <2>3. CASE ~HasOthers(b) /\ b = d BY <2>3 DEF HasOthers
  <2> QED BY <1>5, <2>1, <2>2, <2>3 DEF TellDeletion
<1>6. ASSUME NEW b \in Device, NEW m \in outbox[b], Complete(b, m) PROVE Goal
  <2>1. CASE b # d BY <1>2, <1>6, <2>1 DEF Complete
  <2>2. CASE b = d /\ m.id = t.id BY <1>6, <2>2
  <2>3. CASE b = d /\ m.id # t.id
    <3>1. PICK S :
            S = {IF u.id = m.id THEN [u EXCEPT !.pending = FALSE] ELSE u : u \in tombstone[d]}
      OBVIOUS
    <3>2. tombstone' = [tombstone EXCEPT ![d] = S] BY <1>6, <2>3, <3>1 DEF Complete
    <3>3. t \in S BY <2>3, <3>1
    <3> QED BY <1>0, <3>2, <3>3
  <2> QED BY <2>1, <2>2, <2>3
<1>7. ASSUME NEW b \in Device, NEW m \in Message, Arrival(b, m) PROVE Goal
  <2>1. CASE ReceiveDeletion(b, m)
    <3>1. m.id \in Ids BY DEF Message
    <3> QED BY <1>3, <2>1, <3>1 DEF ReceiveDeletion
  <2>2. CASE Quarantine(b, m) \/ ReceiveRead(b, m) \/ ReceiveRequest(b, m) \/ ReceiveResponse(b, m)
    BY <1>1, <2>2 DEF Quarantine, ReceiveRead, ReceiveRequest, ReceiveResponse
  <2>3. CASE IgnoreOldText(b, m) \/ ReceiveText(b, m)
    BY <1>1, <2>3 DEF IgnoreOldText, ReceiveText, tables
  <2> QED BY <1>7, <2>1, <2>2, <2>3 DEF Arrival
<1>8. ASSUME NEW b \in Device, Chat(b) \/ Look(b) \/ SendText(b) PROVE Goal
  BY <1>1, <1>8 DEF Chat, Look, SendText
<1>9. ASSUME NEW b \in Device, NEW n, NEW v, Answer(b, n, v) PROVE Goal BY <1>1, <1>9 DEF Answer
<1>10. ASSUME NEW b \in Device, NEW m, DismissNote(b, m) \/ Accept(b, m) PROVE Goal
  BY <1>1, <1>10 DEF DismissNote, Accept, tables
<1>11. ASSUME NEW b \in Device, Delete(b) PROVE Goal
  BY <1>3, <1>11, DeleteMoves DEF Delete
<1>12. CASE UNCHANGED vars BY <1>1, <1>12 DEF vars, tables
<1> QED BY <1>4, <1>5, <1>6, <1>7, <1>8, <1>9, <1>10, <1>11, <1>12, Steps


LEMMA ErasedMoves ==
    ASSUME Types, [Next]_vars
    PROVE  \A x \in erased' :
              \/ x \in erased
              \/ \E d \in Device : /\ Delete(d) /\ \A t \in tombstone[d] : ~t.pending
                                   /\ x = [id |-> Fresh(1), by |-> d, texts |-> IdsOf(texts[d])]
<1> SUFFICES ASSUME NEW x \in erased', x \notin erased
             PROVE  \E d \in Device : /\ Delete(d) /\ \A t \in tombstone[d] : ~t.pending
                                      /\ x = [id |-> Fresh(1), by |-> d, texts |-> IdsOf(texts[d])]
    OBVIOUS
<1>1. CASE UNCHANGED vars BY <1>1 DEF vars, history
<1>2. ASSUME NEW d \in Device, Chat(d) \/ Look(d) \/ Verify(d) \/ SendText(d) \/ TellDeletion(d)
      PROVE  FALSE
  BY <1>2 DEF Chat, Look, Verify, SendText, TellDeletion, history
<1>3. ASSUME NEW d \in Device, NEW n, DismissNote(d, n) \/ Accept(d, n) \/ Complete(d, n)
      PROVE  FALSE
  BY <1>3 DEF DismissNote, Accept, Complete, history
<1>4. ASSUME NEW d \in Device, NEW n, NEW v, Answer(d, n, v) PROVE FALSE BY <1>4 DEF Answer
<1>5. ASSUME NEW d \in Device, NEW m, Arrival(d, m) PROVE FALSE
  <2>1. CASE ReceiveDeletion(d, m) \/ IgnoreOldText(d, m) \/ Quarantine(d, m) \/ ReceiveText(d, m)
    BY <2>1 DEF ReceiveDeletion, IgnoreOldText, Quarantine, ReceiveText, history
  <2>2. CASE ReceiveRead(d, m) \/ ReceiveRequest(d, m) \/ ReceiveResponse(d, m)
    BY <2>2 DEF ReceiveRead, ReceiveRequest, ReceiveResponse, history
  <2> QED BY <1>5, <2>1, <2>2 DEF Arrival
<1>6. ASSUME NEW d \in Device, Delete(d)
      PROVE  /\ \A t \in tombstone[d] : ~t.pending
             /\ x = [id |-> Fresh(1), by |-> d, texts |-> IdsOf(texts[d])]
  BY <1>6 DEF Delete
<1> QED BY <1>1, <1>2, <1>3, <1>4, <1>5, <1>6, Steps

LEMMA PendingMoves ==
    ASSUME Types, [Next]_vars
    PROVE  \A d \in Device : \A t \in tombstone'[d] : t.pending =>
              (\E u \in tombstone[d] : u.id = t.id /\ u.pending) \/ t.id > drawn
<1>1. PICK N, F : Adds(N, F) BY StepAdds
<1> TAKE d \in Device
<1> TAKE t \in tombstone'[d]
<1> HAVE t.pending
<1>2. CASE [at |-> d, id |-> t.id] \in F BY <1>1, <1>2 DEF Adds
<1> QED BY <1>1, <1>2 DEF Adds

NoneLeft(e, T) == (\A m \in texts[e] : m.id \notin T) /\ \A m \in Range(mailbox[e]) : m.id \notin T
ErasedShape == \A x \in erased : x.by \in Device /\ \A i \in x.texts : i \in Int /\ i <= drawn
\* What was deleted is in no outbox any more.
Withdrawn ==
    \A x \in erased : \A d \in Device :
        /\ \A m \in outbox[d] : m.id \notin x.texts
        /\ \A t \in tombstone[d] : t.pending => t.id \notin x.texts
Reaching ==
    \A x \in erased : \A e \in Device : Own(x.by, e) =>
        \/ NoneLeft(e, x.texts)
        \/ x.by # e /\ NoneBehind(mailbox[e], Del(x.by, x.id), x.texts)
        \/ /\ x.by # e /\ x.id \notin accepted
           /\ \E t \in tombstone[x.by] : t.id = x.id /\ t.pending

\* A deletion takes only what was around.
LEMMA TakenIds ==
    ASSUME Types, Unique, NEW d \in Device, NEW i \in IdsOf(texts[d])
    PROVE  \E m \in texts[d] : /\ m.id = i /\ m \in Message /\ m.kind = "text" /\ Around(m)
                               /\ i \in Int /\ i <= drawn
<1>1. PICK m \in texts[d] : m.id = i BY DEF IdsOf
<1>2. m \in Message /\ m.kind = "text" /\ Around(m) BY TextIsAround
<1>3. i \in Int /\ i <= drawn BY <1>1, <1>2, NumbersOfIds DEF Unique, OneMessageEach
<1> QED BY <1>1, <1>2, <1>3

LEMMA ErasedShapeStep ==
    ASSUME Types, Types', Unique, ErasedShape, [Next]_vars PROVE ErasedShape'
<1>0. drawn \in Nat /\ drawn' \in Nat /\ drawn <= drawn' BY CountsStep DEF Types, CountsOK
<1> SUFFICES ASSUME NEW x \in erased'
             PROVE  x.by \in Device /\ \A i \in x.texts : i \in Int /\ i <= drawn'
    BY DEF ErasedShape
<1>1. CASE x \in erased BY <1>0, <1>1 DEF ErasedShape
<1>2. ASSUME NEW d \in Device, x = [id |-> Fresh(1), by |-> d, texts |-> IdsOf(texts[d])]
      PROVE  x.by \in Device /\ \A i \in x.texts : i \in Int /\ i <= drawn'
  <2>1. \A i \in IdsOf(texts[d]) : i \in Int /\ i <= drawn BY TakenIds
  <2>2. x.by = d /\ x.texts = IdsOf(texts[d]) BY <1>2
  <2> QED BY <1>0, <2>1, <2>2
<1> QED BY <1>1, <1>2, ErasedMoves

LEMMA WithdrawnStep ==
    ASSUME Types, Types', Unique, Arrived, ErasedShape, Withdrawn, [Next]_vars PROVE Withdrawn'
<1>0. drawn \in Nat BY DEF Types, CountsOK
<1> SUFFICES ASSUME NEW x \in erased', NEW d \in Device
             PROVE  /\ \A m \in outbox'[d] : m.id \notin x.texts
                    /\ \A t \in tombstone'[d] : t.pending => t.id \notin x.texts
    BY DEF Withdrawn
\* Neither was there a deletion to be told under one of these ids, nor is there now.
<1>1. ASSUME \A i \in x.texts : i \in Int /\ i <= drawn,
             \A t \in tombstone[d] : t.pending => t.id \notin x.texts
      PROVE  \A t \in tombstone'[d] : t.pending => t.id \notin x.texts
  BY <1>0, <1>1, PendingMoves
<1>2. ASSUME \A t \in tombstone'[d] : t.pending => t.id \notin x.texts, NEW m, Told(d, m)
      PROVE  m.id \notin x.texts
  BY <1>2, DelForm DEF Told
<1>3. CASE x \in erased
  <2>1. /\ \A i \in x.texts : i \in Int /\ i <= drawn
        /\ \A t \in tombstone[d] : t.pending => t.id \notin x.texts
        /\ \A m \in outbox[d] : m.id \notin x.texts
    BY <1>3 DEF ErasedShape, Withdrawn
  <2>2. \A t \in tombstone'[d] : t.pending => t.id \notin x.texts BY <1>1, <2>1
  <2>3. ASSUME NEW m \in outbox'[d] PROVE m.id \notin x.texts
    BY <1>0, <1>2, <2>1, <2>2, OutboxMoves
  <2> QED BY <2>2, <2>3
<1>4. ASSUME NEW b \in Device, Delete(b),
             x = [id |-> Fresh(1), by |-> b, texts |-> IdsOf(texts[b])]
      PROVE  /\ \A m \in outbox'[d] : m.id \notin x.texts
             /\ \A t \in tombstone'[d] : t.pending => t.id \notin x.texts
  <2>0. x.texts = IdsOf(texts[b]) BY <1>4
  <2>1. \A i \in x.texts : i \in Int /\ i <= drawn BY <2>0, TakenIds
  <2>2. ASSUME NEW t \in tombstone[d], t.pending, t.id \in x.texts PROVE FALSE
    <3>1. PICK m \in texts[b] : m.id = t.id /\ m \in Message /\ m.kind = "text" /\ Around(m)
      BY <2>0, <2>2, TakenIds
    <3>2. m = Del(d, t.id) BY <2>2, <3>1 DEF Unique, StonesOwn
    <3> QED BY <3>1, <3>2, DelForm
  <2>3. \A t \in tombstone'[d] : t.pending => t.id \notin x.texts BY <1>1, <2>1, <2>2
  <2>4. ASSUME NEW m \in outbox'[d], m.id \in x.texts PROVE FALSE
    <3>1. PICK y \in texts[b] : y.id = m.id /\ y \in Message /\ y.kind = "text" /\ Around(y)
      BY <2>0, <2>4, TakenIds
    <3>2. ~(m.id > drawn) BY <1>0, <2>1, <2>4
    <3>3. m \in outbox[d] BY <1>2, <2>3, <2>4, <3>2, OutboxMoves
    <3>4. m \in Message /\ Around(m) /\ m.from = d
      BY <3>3 DEF Types, OutboxOK, Around
    <3>5. m = y BY <3>1, <3>4 DEF Unique, OneMessageEach
    <3>6. m.id \notin accepted BY <3>1, <3>3, <3>5 DEF Arrived
    <3>7. b = d BY <3>1, <3>4, <3>5, <3>6 DEF Arrived
    <3>8. m \notin outbox[d] \ texts[d] BY <3>1, <3>5, <3>7
    <3>9. ASSUME NEW box PROVE m \notin Untold(d, tombstone'[d], box)
      <4>1. ASSUME m \in Untold(d, tombstone'[d], box)
            PROVE  \E t \in tombstone'[d] : m = Del(d, t.id)
        BY <4>1 DEF Untold, Del
      <4> QED BY <3>1, <3>5, <4>1, DelForm
    <3>10. \E box : outbox' = [outbox EXCEPT ![d] = outbox[d] \ texts[d]]
                    \/ outbox' = [outbox EXCEPT ![d] =
                                    (outbox[d] \ texts[d]) \cup Untold(d, tombstone'[d], box)]
      BY <1>4, <3>7 DEF Delete
    <3>11. outbox \in [Device -> SUBSET Message] BY DEF Types, OutboxOK
    <3> QED BY <2>4, <3>8, <3>9, <3>10, <3>11
  <2> QED BY <2>3, <2>4
<1> QED BY <1>3, <1>4, ErasedMoves


LEMMA NoneLeftStep ==
    ASSUME Types, ErasedShape, Withdrawn, [Next]_vars, NEW x \in erased, NEW e \in Device,
           NoneLeft(e, x.texts)
    PROVE  NoneLeft(e, x.texts)'
<1>0. drawn \in Nat BY DEF Types, CountsOK
<1>1. \A i \in x.texts : i \in Int /\ i <= drawn BY DEF ErasedShape
<1>2. ASSUME NEW m \in texts'[e] PROVE m.id \notin x.texts
  <2>1. CASE m \in texts[e] \/ m \in Range(mailbox[e]) BY <2>1 DEF NoneLeft
  <2>2. ASSUME NEW b \in Device, SendText(b) PROVE m.id \notin x.texts
    <3>1. PICK w : w.id > drawn /\ texts' = [texts EXCEPT ![b] = @ \cup {w}]
      BY <2>2, SendTextPosts
    <3>2. m \in texts[e] \/ m = w BY <3>1 DEF Types, TextsOK
    <3> QED BY <1>0, <1>1, <2>1, <3>1, <3>2
  <2> QED BY <2>1, <2>2, TextsMove
<1>3. ASSUME NEW m \in Range(mailbox'[e]) PROVE m.id \notin x.texts
  BY MailComesFromOutbox DEF NoneLeft, Withdrawn
<1> QED BY <1>2, <1>3 DEF NoneLeft

\* The deletion takes the texts when its turn comes, and nothing of them is behind it.
LEMMA NoneBehindStep ==
    ASSUME Types, Withdrawn, [Next]_vars, NEW x \in erased, NEW e \in Device,
           NoneBehind(mailbox[e], Del(x.by, x.id), x.texts)
    PROVE  NoneBehind(mailbox'[e], Del(x.by, x.id), x.texts) \/ NoneLeft(e, x.texts)'
<1>0. mailbox[e] \in Seq(Message) /\ mailbox \in [Device -> Seq(Message)] BY DEF Types, MailOK
<1>1. PICK y : y = Del(x.by, x.id) OBVIOUS
<1>2. PICK T : T = x.texts OBVIOUS
<1>3. NoneBehind(mailbox[e], y, T) BY <1>1, <1>2
<1>4. ASSUME NEW d \in Device, NEW m \in outbox[d], Accept(d, m)
      PROVE  NoneBehind(mailbox'[e], y, T)
  <2>1. m \in Message /\ m.id \notin T BY <1>2, <1>4, Delivered DEF Withdrawn
  <2>2. mailbox'[e] = IF e \in Recipients(m) THEN Append(mailbox[e], m) ELSE mailbox[e]
    BY <1>4 DEF Accept
  <2>3. NoneBehind(Append(mailbox[e], m), y, T) BY <1>0, <1>3, <2>1, NoneBehindAppend
  <2> QED BY <1>3, <2>2, <2>3
<1>5. ASSUME Taken(e) PROVE NoneBehind(mailbox'[e], y, T) \/ NoneLeft(e, x.texts)'
  <2>1. mailbox[e] # <<>> /\ mailbox'[e] = Tail(mailbox[e]) /\ Arrival(e, Head(mailbox[e]))
    BY <1>0, <1>5 DEF Taken
  <2>2. CASE Head(mailbox[e]) = y /\ \A m \in Range(Tail(mailbox[e])) : m.id \notin T
    <3>1. Head(mailbox[e]).kind = "deletion" BY <1>1, <2>2, DelForm
    <3>2. ReceiveDeletion(e, Head(mailbox[e]))
      BY <2>1, <3>1 DEF Arrival, IgnoreOldText, Quarantine, ReceiveText, ReceiveRead,
                        ReceiveRequest, ReceiveResponse
    <3>3. texts'[e] = {} BY <3>2 DEF ReceiveDeletion, Erase, Types, TextsOK
    <3> QED BY <1>2, <2>1, <2>2, <3>3 DEF NoneLeft
  <2> QED BY <1>0, <1>3, <2>1, <2>2, NoneBehindTail
<1>6. ASSUME NEW d \in Device, d # e, Taken(d) PROVE NoneBehind(mailbox'[e], y, T)
  BY <1>3, <1>6, TakenFrom
<1> QED BY <1>1, <1>2, <1>3, <1>4, <1>5, <1>6, MailMoves

\* A deletion that has still to be told is told, or withdrawn by a verification.
LEMMA UntoldStep ==
    ASSUME Types, Unique, Withdrawn, [Next]_vars,
           NEW x \in erased, x \in erased', NEW e \in Device, Own(x.by, e), x.by # e,
           x.by \in Device, x.id \notin accepted,
           NEW t \in tombstone[x.by], t.id = x.id, t.pending
    PROVE  \/ NoneBehind(mailbox'[e], Del(x.by, x.id), x.texts)
           \/ x.id \notin accepted' /\ \E u \in tombstone'[x.by] : u.id = x.id /\ u.pending
<1>1. CASE x.id \notin accepted'
  <2>1. ~Verify(x.by) BY DEF Verify
  <2>2. ~ \E m \in outbox[x.by] : Complete(x.by, m) /\ m.id = t.id BY DEF Complete
  <2>3. ~ \A d \in Device : Own(x.by, d) => d = x.by OBVIOUS
  <2>4. \E u \in tombstone'[x.by] : u.id = t.id /\ u.pending BY <2>1, <2>2, <2>3, PendingStays
  <2> QED BY <1>1, <2>4
<1>2. CASE x.id \in accepted'
  <2>1. PICK d \in Device : \E m \in outbox[d] : Accept(d, m) BY <1>2, MailMoves
  <2>2. PICK m \in outbox[d] : Accept(d, m) BY <2>1
  <2>3. m \in Message /\ Around(m) /\ m.id = x.id BY <1>2, <2>2, Delivered DEF Around, Accept
  <2>4. m = Del(x.by, x.id) BY <2>3 DEF Unique, StonesOwn
  <2>5. m.kind = "deletion" /\ m.from = x.by BY <2>4 DEF Del
  <2>6. e \in Recipients(m) BY <2>5 DEF Recipients, Own
  <2>7. mailbox'[e] = Append(mailbox[e], m) BY <2>2, <2>6 DEF Accept
  <2>8. m.id \notin x.texts BY <2>2 DEF Withdrawn
  <2>9. mailbox[e] \in Seq(Message) BY DEF Types, MailOK
  <2>10. PICK y : y = Del(x.by, x.id) OBVIOUS
  <2>11. NoneBehind(Append(mailbox[e], m), y, x.texts)
    BY <2>3, <2>4, <2>8, <2>9, <2>10, NoneBehindAppend
  <2> QED BY <2>7, <2>10, <2>11
<1> QED BY <1>1, <1>2

LEMMA ReachingStep ==
    ASSUME Types, Types', Unique, Arrived, ErasedShape, Withdrawn, Reaching, [Next]_vars
    PROVE  Reaching'
<1>0. drawn \in Nat BY DEF Types, CountsOK
<1> SUFFICES ASSUME NEW x \in erased', NEW e \in Device, Own(x.by, e)
             PROVE  \/ NoneLeft(e, x.texts)'
                    \/ x.by # e /\ NoneBehind(mailbox'[e], Del(x.by, x.id), x.texts)
                    \/ /\ x.by # e /\ x.id \notin accepted'
                       /\ \E t \in tombstone'[x.by] : t.id = x.id /\ t.pending
    BY DEF Reaching, Own
<1>1. CASE x \in erased
  <2>0. x.by \in Device BY <1>1 DEF ErasedShape
  <2>1. CASE NoneLeft(e, x.texts) BY <1>1, <2>1, NoneLeftStep
  <2>2. CASE x.by # e /\ NoneBehind(mailbox[e], Del(x.by, x.id), x.texts)
    BY <1>1, <2>2, NoneBehindStep
  <2>3. CASE /\ x.by # e /\ x.id \notin accepted
             /\ \E t \in tombstone[x.by] : t.id = x.id /\ t.pending
    BY <1>1, <2>0, <2>3, UntoldStep
  <2> QED BY <1>1, <2>1, <2>2, <2>3 DEF Reaching
<1>2. ASSUME NEW b \in Device, Delete(b), \A t \in tombstone[b] : ~t.pending,
             x = [id |-> Fresh(1), by |-> b, texts |-> IdsOf(texts[b])]
      PROVE  \/ NoneLeft(e, x.texts)'
             \/ /\ x.by # e /\ x.id \notin accepted'
                /\ \E t \in tombstone'[x.by] : t.id = x.id /\ t.pending
  <2>0. x.id = Fresh(1) /\ x.by = b /\ x.texts = IdsOf(texts[b]) BY <1>2
  <2>1. CASE e = b
    <3>1. texts'[b] = {} /\ mailbox' = mailbox BY <1>2 DEF Delete, Erase, Types, TextsOK
    <3>2. ASSUME NEW m \in Range(mailbox[b]), m.id \in x.texts PROVE FALSE
      <4>1. PICK y \in texts[b] : y.id = m.id /\ y \in Message /\ Around(y)
        BY <2>0, <3>2, TakenIds
      <4>2. mailbox[b] \in Seq(Message) BY DEF Types, MailOK
      <4>3. DOMAIN mailbox[b] = 1 .. Len(mailbox[b]) BY <4>2
      <4>4. m \in Message /\ Around(m) BY <4>2, <4>3 DEF Range, Around
      <4>5. m = y BY <4>1, <4>4 DEF Unique, OneMessageEach
      <4> QED BY <4>1, <4>5 DEF Arrived
    <3> QED BY <2>1, <3>1, <3>2 DEF NoneLeft
  <2>2. CASE e # b
    <3>1. Fresh(1) > drawn /\ Fresh(1) \in Ids BY <1>2, DeleteMoves
    <3>2. Fresh(1) \in Int BY <3>1 DEF Ids
    <3>3. accepted' = accepted BY <1>2 DEF Delete
    <3>4. Fresh(1) \notin accepted'
      BY <1>0, <3>1, <3>2, <3>3 DEF Unique, AcceptedDrawn
    <3>5. PICK t : t = [id |-> Fresh(1), pending |-> TRUE] OBVIOUS
    <3>6. t \in Buried(b, Fresh(1), TRUE)
      <4>1. CASE tombstone[b] = {} BY <3>5, <4>1 DEF Buried
      <4>2. CASE tombstone[b] # {}
        <5>1. PICK u \in tombstone[b] : tombstone[b] = {u} /\ ~u.pending
          BY <1>2, <4>2 DEF Types, StonesOK
        <5>2. Buried(b, Fresh(1), TRUE) =
                  {[id |-> IF u.pending THEN u.id
                           ELSE IF TRUE \/ Fresh(1) >= u.id THEN Fresh(1) ELSE u.id,
                    pending |-> u.pending \/ TRUE]}
          BY <5>1 DEF Buried
        <5> QED BY <3>5, <5>1, <5>2
      <4> QED BY <4>1, <4>2
    <3>7. t \in tombstone'[b] /\ t.id = Fresh(1) /\ t.pending
      BY <1>2, <3>5, <3>6 DEF Delete, Erase, Types, StonesOK
    <3> QED BY <2>0, <2>2, <3>4, <3>7
  <2> QED BY <2>1, <2>2
<1> QED BY <1>1, <1>2, ErasedMoves

\* However deletions, verifications and messages of several devices interleave: what a
\* user deleted on one device is on none of his others, or the deletion is still to be
\* told or on its way (conversation_tombstones, sync_pending_conversation_deletions,
\* commit_conversation_deletion), and no text of it comes behind the deletion.
THEOREM DeletionsReach == Spec => []DeletionReaches
<1>1. Init => Arrived /\ ErasedShape /\ Withdrawn /\ Reaching
  <2> SUFFICES ASSUME Init PROVE Arrived /\ ErasedShape /\ Withdrawn /\ Reaching OBVIOUS
  <2>1. Range(<<>>) = {} BY DEF Range
  <2>2. Arrived BY <2>1 DEF Init, Arrived
  <2> QED BY <2>2 DEF Init, ErasedShape, Withdrawn, Reaching
<1>2. Inv /\ Inv' /\ Arrived /\ ErasedShape /\ Withdrawn /\ Reaching /\ [Next]_vars
      => Arrived' /\ ErasedShape' /\ Withdrawn' /\ Reaching'
  BY ArrivedStep, ErasedShapeStep, WithdrawnStep, ReachingStep DEF Inv
<1>3. Inv /\ Reaching => DeletionReaches
  <2> SUFFICES ASSUME Inv, Reaching, NEW x \in erased, NEW e \in Device, Own(x.by, e)
               PROVE  \/ \E t \in tombstone[x.by] : t.id = x.id /\ t.pending
                      \/ OnItsWay(e, x.id)
                      \/ IdsOf(texts[e]) \cap x.texts = {}
      BY DEF DeletionReaches
  <2>1. CASE NoneLeft(e, x.texts) BY <2>1 DEF NoneLeft, IdsOf
  <2>2. CASE NoneBehind(mailbox[e], Del(x.by, x.id), x.texts)
    BY <2>2, DelForm DEF NoneBehind, OnItsWay
  <2> QED BY <2>1, <2>2 DEF Reaching
<1> QED BY <1>1, <1>2, <1>3, InvHolds, PTL DEF Spec


(***************************************************************************)
(* An answered request waits nowhere                                       *)
(***************************************************************************)

Says(m, r) == m.kind = "response" /\ r \in m.about

\* A tombstone shares its id with deletions only.
StonesApart ==
    \A d \in Device : \A t \in tombstone[d] :
        \A m \in Message : Around(m) /\ m.id = t.id => m.kind = "deletion"
\* An answer is about one request, a receipt about texts the server had.
AboutOK ==
    \A m \in Message : Around(m) =>
        /\ m.kind = "response" => \E r : m.about = {r}
        /\ m.kind = "read" => m.about \subseteq accepted
CutsOK == cuts \in Nat

LEMMA StonesApartStep ==
    ASSUME Types, Types', Unique, StonesApart, [Next]_vars PROVE StonesApart'
<1>1. PICK N, F : Adds(N, F) BY StepAdds
<1>2. drawn \in Nat BY DEF Types, CountsOK
<1> SUFFICES ASSUME NEW d \in Device, NEW t \in tombstone'[d],
                    NEW m \in Message, Around(m)', m.id = t.id
             PROVE  m.kind = "deletion"
    BY DEF StonesApart
<1>3. m.id \in Int BY NumbersOfIds
<1>4. CASE \E u \in tombstone[d] : u.id = t.id
  <2>1. m.id <= drawn BY <1>4 DEF Unique, StonesDrawn
  <2>2. m \notin N BY <1>1, <1>2, <1>3, <2>1 DEF Adds
  <2>3. CASE Around(m) BY <1>4, <2>3 DEF StonesApart
  <2>4. CASE \E b \in Device : Told(b, m) BY <2>4, DelForm DEF Told
  <2> QED BY <1>1, <2>2, <2>3, <2>4 DEF Adds
<1>5. ASSUME NEW x \in Message, Around(x), x.id = t.id, x.kind = "deletion"
      PROVE  m.kind = "deletion"
  <2>1. m.id <= drawn BY <1>5 DEF Unique, OneMessageEach
  <2>2. m \notin N BY <1>1, <1>2, <1>3, <2>1 DEF Adds
  <2>3. CASE Around(m) BY <1>5, <2>3 DEF Unique, OneMessageEach
  <2>4. CASE \E b \in Device : Told(b, m) BY <2>4, DelForm DEF Told
  <2> QED BY <1>1, <2>2, <2>3, <2>4 DEF Adds
<1>6. CASE [at |-> d, id |-> t.id] \in F
  <2>1. m.id > drawn BY <1>1, <1>6 DEF Adds
  <2>2. N = {} BY <1>1, <1>6 DEF Adds
  <2>3. ~Around(m) BY <1>2, <1>3, <2>1 DEF Unique, OneMessageEach
  <2>4. PICK b \in Device : Told(b, m) BY <1>1, <2>2, <2>3 DEF Adds
  <2> QED BY <2>4, DelForm DEF Told
<1> QED BY <1>1, <1>4, <1>5, <1>6 DEF Adds

LEMMA AboutStep ==
    ASSUME Types, Types', Unique, Arrived, AboutOK, [Next]_vars PROVE AboutOK'
<1>1. PICK N, F : Adds(N, F) BY StepAdds
<1>2. accepted \subseteq accepted' BY AcceptedMoves
<1> SUFFICES ASSUME NEW m \in Message, Around(m)'
             PROVE  /\ m.kind = "response" => \E r : m.about = {r}
                    /\ m.kind = "read" => m.about \subseteq accepted'
    BY DEF AboutOK
<1>3. CASE Around(m) BY <1>2, <1>3 DEF AboutOK
<1>4. CASE m \in N
  <2>1. m.kind = "response" => \E r : m.about = {r} BY <1>1, <1>4 DEF Adds
  <2>2. ASSUME m.kind = "read", NEW i \in m.about PROVE i \in accepted
    <3>1. m.from \in Device /\ Came(m.from, i) BY <1>1, <1>4, <2>2 DEF Adds
    <3>2. PICK t \in texts[m.from] \cup Range(mailbox[m.from]) : t.id = i /\ Inbound(m.from, t)
      BY <3>1 DEF Came
    <3>3. t.from # m.from BY <3>2 DEF Inbound, Own
    <3> QED BY <3>1, <3>2, <3>3 DEF Arrived
  <2> QED BY <1>2, <2>1, <2>2
<1>5. CASE \E d \in Device : Told(d, m)
  <2>1. m.kind = "deletion" BY <1>5, DelForm DEF Told
  <2> QED BY <2>1
<1> QED BY <1>1, <1>3, <1>4, <1>5 DEF Adds

LEMMA CutsStep == ASSUME CutsOK, Types, [Next]_vars PROVE CutsOK'
<1>1. cuts' = cuts \/ Cut
  <2>1. CASE UNCHANGED vars BY <2>1 DEF vars
  <2>2. ASSUME NEW d \in Device, Chat(d) \/ Look(d) \/ Verify(d) \/ SendText(d) \/ Delete(d)
                                 \/ TellDeletion(d)
        PROVE  cuts' = cuts \/ Cut
    BY <2>2 DEF Chat, Look, Verify, SendText, Delete, TellDeletion
  <2>3. ASSUME NEW d \in Device, NEW n, DismissNote(d, n) \/ Accept(d, n) \/ Complete(d, n)
        PROVE  cuts' = cuts
    BY <2>3 DEF DismissNote, Accept, Complete
  <2>4. ASSUME NEW d \in Device, NEW n, NEW v, Answer(d, n, v) PROVE cuts' = cuts \/ Cut
    BY <2>4 DEF Answer
  <2>5. ASSUME NEW d \in Device, NEW m, Arrival(d, m) PROVE cuts' = cuts \/ Cut
    <3>1. CASE ReceiveDeletion(d, m) \/ IgnoreOldText(d, m) \/ Quarantine(d, m)
               \/ ReceiveText(d, m)
      BY <3>1 DEF ReceiveDeletion, IgnoreOldText, Quarantine, ReceiveText
    <3>2. CASE ReceiveRead(d, m) \/ ReceiveRequest(d, m) \/ ReceiveResponse(d, m)
      BY <3>2 DEF ReceiveRead, ReceiveRequest, ReceiveResponse
    <3> QED BY <2>5, <3>1, <3>2 DEF Arrival
  <2> QED BY <2>1, <2>2, <2>3, <2>4, <2>5, Steps
<1> QED BY <1>1 DEF CutsOK, Cut


\* Requests, answers and receipts leave the outbox with the server's acceptance only.
LEMMA OutboxKeeps ==
    ASSUME Types, Arrived, StonesApart, [Next]_vars,
           NEW b \in Device, NEW m \in outbox[b], m.kind \notin {"text", "deletion"}
    PROVE  m \in outbox'[b] \/ Accept(b, m)
<1>0. outbox \in [Device -> SUBSET Message] BY DEF Types, OutboxOK
<1>1. ASSUME UNCHANGED outbox PROVE m \in outbox'[b] BY <1>1
<1>2. ASSUME NEW d \in Device, NEW X, outbox' = [outbox EXCEPT ![d] = X], d = b => m \in X
      PROVE  m \in outbox'[b]
  BY <1>0, <1>2
<1>3. ASSUME NEW d \in Device, NEW X, outbox' = [outbox EXCEPT ![d] = @ \cup X]
      PROVE  m \in outbox'[b]
  BY <1>0, <1>3
<1>4. ASSUME NEW d \in Device, Verify(d) PROVE m \in outbox'[b]
  <2>1. m \in Message /\ Around(m) BY <1>0 DEF Around
  <2>2. d = b => m.id \notin IdsOf(tombstone[d]) BY <2>1 DEF StonesApart, IdsOf
  <2>3. outbox' = [outbox EXCEPT ![d] = {x \in outbox[d] : x.id \notin IdsOf(tombstone[d])}]
    BY <1>4 DEF Verify
  <2> QED BY <1>0, <2>2, <2>3
<1>5. ASSUME NEW d \in Device, Delete(d) PROVE m \in outbox'[b]
  <2>1. PICK kept : kept = outbox[d] \ texts[d] OBVIOUS
  <2>2. d = b => m \in kept BY <2>1 DEF Types, TextsOK
  <2>3. \/ outbox' = [outbox EXCEPT ![d] = kept]
        \/ outbox' = [outbox EXCEPT ![d] = kept \cup Untold(d, tombstone'[d], kept)]
    BY <1>5, <2>1 DEF Delete
  <2> QED BY <1>0, <2>2, <2>3
<1>6. ASSUME NEW d \in Device, NEW x \in outbox[d], Accept(d, x) \/ Complete(d, x)
      PROVE  m \in outbox'[b] \/ Accept(b, m)
  <2>1. CASE Accept(d, x)
    <3>1. \/ UNCHANGED outbox
          \/ outbox' = [outbox EXCEPT ![d] = @ \ {x}]
      BY <2>1 DEF Accept
    <3>2. CASE d = b /\ x = m BY <2>1, <3>2
    <3>3. CASE ~(d = b /\ x = m) BY <1>0, <3>1, <3>3
    <3> QED BY <3>2, <3>3
  <2>2. CASE Complete(d, x)
    <3>1. x.id \in accepted /\ outbox' = [outbox EXCEPT ![d] = @ \ {x}] BY <2>2 DEF Complete
    <3>2. m.id \notin accepted BY DEF Arrived
    <3> QED BY <1>0, <3>1, <3>2
  <2> QED BY <1>6, <2>1, <2>2
<1>7. ASSUME NEW d \in Device, NEW x, Arrival(d, x) PROVE m \in outbox'[b]
  <2>1. CASE ReceiveText(d, x)
    <3>1. UNCHANGED outbox \/ \E X : outbox' = [outbox EXCEPT ![d] = @ \cup X]
      BY <2>1 DEF ReceiveText
    <3> QED BY <1>1, <1>3, <3>1
  <2>2. CASE ReceiveDeletion(d, x) \/ IgnoreOldText(d, x) \/ Quarantine(d, x)
    BY <1>1, <2>2 DEF ReceiveDeletion, IgnoreOldText, Quarantine
  <2>3. CASE ReceiveRead(d, x) \/ ReceiveRequest(d, x) \/ ReceiveResponse(d, x)
    BY <1>1, <2>3 DEF ReceiveRead, ReceiveRequest, ReceiveResponse
  <2> QED BY <1>7, <2>1, <2>2, <2>3 DEF Arrival
<1>8. ASSUME NEW d \in Device, Chat(d) \/ Look(d) \/ SendText(d) \/ TellDeletion(d)
      PROVE  m \in outbox'[b]
  <2>1. UNCHANGED outbox \/ \E X : outbox' = [outbox EXCEPT ![d] = @ \cup X]
    BY <1>8 DEF Chat, Look, SendText, TellDeletion
  <2> QED BY <1>1, <1>3, <2>1
<1>9. ASSUME NEW d \in Device, NEW n, NEW v, Answer(d, n, v) PROVE m \in outbox'[b]
  <2>1. \E X : outbox' = [outbox EXCEPT ![d] = @ \cup X] BY <1>9 DEF Answer
  <2> QED BY <1>3, <2>1
<1>10. ASSUME NEW d \in Device, NEW n, DismissNote(d, n) PROVE m \in outbox'[b]
  BY <1>1, <1>10 DEF DismissNote
<1>11. CASE UNCHANGED vars BY <1>1, <1>11 DEF vars
<1> QED BY <1>4, <1>5, <1>6, <1>7, <1>8, <1>9, <1>10, <1>11, Steps

LEMMA RemovedGrows == ASSUME Types, [Next]_vars PROVE removed \subseteq removed'
<1>1. CASE UNCHANGED vars BY <1>1 DEF vars, history
<1>2. ASSUME NEW d \in Device, Chat(d) \/ Look(d) \/ Verify(d) \/ SendText(d) \/ TellDeletion(d)
      PROVE  removed \subseteq removed'
  BY <1>2 DEF Chat, Look, Verify, SendText, TellDeletion, history
<1>3. ASSUME NEW d \in Device, Delete(d) PROVE removed \subseteq removed' BY <1>3 DEF Delete, Erase
<1>4. ASSUME NEW d \in Device, NEW n, DismissNote(d, n) \/ Accept(d, n) \/ Complete(d, n)
      PROVE  removed \subseteq removed'
  BY <1>4 DEF DismissNote, Accept, Complete, history
<1>5. ASSUME NEW d \in Device, NEW n, NEW v, Answer(d, n, v) PROVE removed \subseteq removed'
  BY <1>5 DEF Answer
<1>6. ASSUME NEW d \in Device, NEW m, Arrival(d, m) PROVE removed \subseteq removed'
  <2>1. CASE ReceiveDeletion(d, m) BY <2>1 DEF ReceiveDeletion, Erase
  <2>2. CASE IgnoreOldText(d, m) \/ Quarantine(d, m) \/ ReceiveText(d, m)
    BY <2>2 DEF IgnoreOldText, Quarantine, ReceiveText, history
  <2>3. CASE ReceiveRead(d, m) \/ ReceiveRequest(d, m) \/ ReceiveResponse(d, m)
    BY <2>3 DEF ReceiveRead, ReceiveRequest, ReceiveResponse, history
  <2> QED BY <1>6, <2>1, <2>2, <2>3 DEF Arrival
<1> QED BY <1>1, <1>2, <1>3, <1>4, <1>5, <1>6, Steps


Decided(N, r) == \E n \in N : n.request = r /\ n.state # "Pending"

\* An answer that was shown stays, unless the notification is removed: a request that
\* comes later leaves the state as it is.
LEMMA DecidedStays ==
    ASSUME Types, [Next]_vars, NEW d \in Device, NEW r, r # Reauth, Decided(notes[d], r)
    PROVE  Decided(notes'[d], r) \/ <<d, r>> \in removed'
<1> DEFINE Goal == Decided(notes'[d], r) \/ <<d, r>> \in removed'
<1>0. /\ notes \in [Device -> SUBSET Note] /\ \A b \in Device : OneEach(notes[b])
  BY DEF Types, NotesOK
<1>1. ASSUME UNCHANGED notes PROVE Goal BY <1>1
<1>2. ASSUME NEW b \in Device, NEW n, notes' = [notes EXCEPT ![b] = Save(b, n)],
             b = d /\ n.request = r => n.state # "Pending"
      PROVE  Goal
  <2>1. CASE b # d
    <3>1. notes'[d] = notes[d] BY <1>0, <1>2, <2>1
    <3> QED BY <3>1
  <2>2. CASE b = d
    <3>1. notes'[d] = (notes[d] \ NoteOn(d, n.request)) \cup {n} BY <1>0, <1>2, <2>2 DEF Save
    <3> QED BY <1>2, <2>2, <3>1 DEF Decided, NoteOn
  <2> QED BY <2>1, <2>2
<1>3. ASSUME NEW b \in Device, NEW q, NEW out,
             notes' = [notes EXCEPT ![b] = Save(b, RequestNote(b, q, out))]
      PROVE  Goal
  <2>1. PICK n : n = RequestNote(b, q, out) OBVIOUS
  <2>2. /\ n.request = q
        /\ n.state = IF NoteOn(b, q) = {} THEN "Pending"
                     ELSE (CHOOSE x \in NoteOn(b, q) : TRUE).state
    BY <2>1 DEF RequestNote
  <2>3. ASSUME b = d, q = r PROVE n.state # "Pending"
    <3>1. PICK x \in notes[d] : x.request = r /\ x.state # "Pending" BY DEF Decided
    <3>2. \A y \in NoteOn(d, r) : y = x BY <1>0, <3>1 DEF OneEach, NoteOn
    <3>3. x \in NoteOn(d, r) BY <3>1 DEF NoteOn
    <3>4. (CHOOSE y \in NoteOn(d, r) : TRUE) = x BY <3>2, <3>3
    <3> QED BY <2>2, <2>3, <3>1, <3>3, <3>4
  <2>4. notes' = [notes EXCEPT ![b] = Save(b, n)] BY <1>3, <2>1
  <2> QED BY <1>2, <2>2, <2>3, <2>4
<1>4. ASSUME NEW b \in Device, NEW q, NEW v, v # "Pending",
             notes' = [notes EXCEPT ![b] = Save(b, ResponseNote(q, v))]
      PROVE  Goal
  <2>1. PICK n : n = ResponseNote(q, v) OBVIOUS
  <2>2. n.state # "Pending" BY <1>4, <2>1 DEF ResponseNote
  <2> QED BY <1>2, <1>4, <2>1, <2>2
<1>5. ASSUME NEW b \in Device, NEW id, NEW p, Erase(b, id, p) PROVE Goal
  <2>1. /\ notes' = [notes EXCEPT ![b] = {}]
        /\ removed' = removed \cup {<<b, n.request>> : n \in notes[b]}
    BY <1>5 DEF Erase
  <2> QED BY <1>0, <2>1 DEF Decided
<1>6. ASSUME NEW b \in Device, Chat(b) PROVE Goal BY <1>1, <1>3, <1>6 DEF Chat
<1>7. ASSUME NEW b \in Device, Verify(b) PROVE Goal
  <2>1. CASE UNCHANGED notes BY <1>1, <2>1
  <2>2. CASE \E n \in notes[b] :
               notes' = [notes EXCEPT ![b] = Save(b, [n EXCEPT !.state = "Completed"])]
    <3>1. PICK n \in notes[b] :
              notes' = [notes EXCEPT ![b] = Save(b, [n EXCEPT !.state = "Completed"])]
      BY <2>2
    <3>2. PICK x : x = [n EXCEPT !.state = "Completed"] OBVIOUS
    <3>3. x.state = "Completed" BY <1>0, <3>2 DEF Note
    <3> QED BY <1>2, <3>1, <3>2, <3>3
  <2> QED BY <1>7, <2>1, <2>2 DEF Verify
<1>8. ASSUME NEW b \in Device, NEW n, NEW v \in {"Accepted", "Rejected"}, Answer(b, n, v)
      PROVE  Goal
  BY <1>1, <1>4, <1>8 DEF Answer
<1>9. ASSUME NEW b \in Device, NEW n, DismissNote(b, n) PROVE Goal
  <2>1. notes' = [notes EXCEPT ![b] = @ \ {n}] /\ removed' = removed \cup {<<b, n.request>>}
    BY <1>9 DEF DismissNote
  <2> QED BY <1>0, <2>1 DEF Decided
<1>10. ASSUME NEW b \in Device, NEW m \in Message, Meant(m), Arrival(b, m) PROVE Goal
  <2>1. CASE ReceiveDeletion(b, m) BY <1>5, <2>1 DEF ReceiveDeletion
  <2>2. CASE Quarantine(b, m)
    <3>1. PICK n : n = [request |-> Reauth, kind |-> "ChatRequest", state |-> "Pending",
                        outgoing |-> FALSE]
      OBVIOUS
    <3>2. notes' = [notes EXCEPT ![b] = notes[b]] \/ notes' = [notes EXCEPT ![b] = Save(b, n)]
      BY <2>2, <3>1 DEF Quarantine, ReauthNotes
    <3>3. n.request # r BY <3>1
    <3> QED BY <1>0, <1>1, <1>2, <3>2, <3>3
  <2>3. CASE ReceiveRequest(b, m) BY <1>3, <2>3 DEF ReceiveRequest
  <2>4. CASE ReceiveResponse(b, m)
    <3>1. PICK q \in m.about : notes' = [notes EXCEPT ![b] = Save(b, ResponseNote(q, m.verdict))]
      BY <2>4 DEF ReceiveResponse
    <3>2. m.verdict # "Pending" BY DEF Message
    <3> QED BY <1>4, <3>1, <3>2
  <2>5. CASE IgnoreOldText(b, m) \/ ReceiveText(b, m) \/ ReceiveRead(b, m)
    BY <1>1, <2>5 DEF IgnoreOldText, ReceiveText, ReceiveRead, tables
  <2> QED BY <1>10, <2>1, <2>2, <2>3, <2>4, <2>5 DEF Arrival
<1>11. ASSUME NEW b \in Device, Look(b) \/ SendText(b) \/ TellDeletion(b) PROVE Goal
  BY <1>1, <1>11 DEF Look, SendText, TellDeletion
<1>12. ASSUME NEW b \in Device, Delete(b) PROVE Goal BY <1>5, <1>12 DEF Delete
<1>13. ASSUME NEW b \in Device, NEW m, Accept(b, m) \/ Complete(b, m) PROVE Goal
  BY <1>1, <1>13 DEF Accept, Complete, tables
<1>14. CASE UNCHANGED vars BY <1>1, <1>14 DEF vars, tables
<1> QED BY <1>6, <1>7, <1>8, <1>9, <1>10, <1>11, <1>12, <1>13, <1>14, Steps


\* An answer in a mailbox is worked through: it settles the request it is about.
LEMMA AnswerHandled ==
    ASSUME Types, Types', AboutOK, [Next]_vars, NEW e \in Device, NEW r,
           NEW m \in Message, m \in Range(mailbox[e]), Says(m, r)
    PROVE  m \in Range(mailbox'[e]) \/ Decided(notes'[e], r)
<1> DEFINE Goal == m \in Range(mailbox'[e]) \/ Decided(notes'[e], r)
<1>0. mailbox[e] \in Seq(Message) /\ notes \in [Device -> SUBSET Note]
  BY DEF Types, MailOK, NotesOK
<1>1. CASE UNCHANGED mailbox BY <1>1
<1>2. ASSUME NEW d \in Device, NEW n \in outbox[d], Accept(d, n) PROVE Goal BY <1>2, Delivered
<1>3. ASSUME NEW d \in Device, Taken(d) PROVE Goal
  <2>1. CASE d # e BY <1>3, <2>1, TakenFrom
  <2>2. CASE d = e
    <3>1. mailbox[e] # <<>> /\ mailbox'[e] = Tail(mailbox[e]) /\ Arrival(e, Head(mailbox[e]))
      BY <1>3, <2>2 DEF Taken, Types, MailOK
    <3>2. m = Head(mailbox[e]) \/ m \in Range(Tail(mailbox[e])) BY <1>0, <3>1, RangeOfTail
    <3>3. CASE m = Head(mailbox[e])
      <4>1. m.kind = "response" /\ r \in m.about BY DEF Says
      <4>2. ReceiveResponse(e, m)
        BY <3>1, <3>3, <4>1 DEF Arrival, ReceiveDeletion, IgnoreOldText, Quarantine, ReceiveText,
                                ReceiveRead, ReceiveRequest
      <4>3. Around(m) /\ Meant(m) BY DEF Around, Types, MailOK
      <4>4. m.about = {r} BY <4>1, <4>3 DEF AboutOK
      <4>5. PICK n : n = ResponseNote(r, m.verdict) OBVIOUS
      <4>6. n.request = r /\ n.state = m.verdict BY <4>5 DEF ResponseNote
      <4>7. notes' = [notes EXCEPT ![e] = Save(e, n)] BY <4>2, <4>4, <4>5 DEF ReceiveResponse
      <4>8. n \in notes'[e] BY <1>0, <4>7 DEF Save
      <4>9. m.verdict # "Pending" BY DEF Message
      <4> QED BY <4>6, <4>8, <4>9 DEF Decided
    <3> QED BY <3>1, <3>2, <3>3
  <2> QED BY <2>1, <2>2
<1> QED BY <1>1, <1>2, <1>3, MailMoves

LEMMA AnsweredMoves ==
    ASSUME Types, [Next]_vars
    PROVE  \A r \in answered' :
              \/ r \in answered
              \/ \E d \in Device : \E n \in notes[d] : \E v \in {"Accepted", "Rejected"} :
                    Answer(d, n, v) /\ cuts' = cuts /\ r = n.request
<1> SUFFICES ASSUME NEW r \in answered', r \notin answered
             PROVE  \E d \in Device : \E n \in notes[d] : \E v \in {"Accepted", "Rejected"} :
                       Answer(d, n, v) /\ cuts' = cuts /\ r = n.request
    OBVIOUS
<1>1. CASE UNCHANGED vars BY <1>1 DEF vars, history
<1>2. ASSUME NEW d \in Device, Chat(d) \/ Look(d) \/ Verify(d) \/ SendText(d) \/ Delete(d)
                               \/ TellDeletion(d)
      PROVE  FALSE
  BY <1>2 DEF Chat, Look, Verify, SendText, Delete, TellDeletion, history
<1>3. ASSUME NEW d \in Device, NEW n, DismissNote(d, n) \/ Accept(d, n) \/ Complete(d, n)
      PROVE  FALSE
  BY <1>3 DEF DismissNote, Accept, Complete, history
<1>4. ASSUME NEW d \in Device, NEW m, Arrival(d, m) PROVE FALSE
  <2>1. CASE ReceiveDeletion(d, m) \/ IgnoreOldText(d, m) \/ Quarantine(d, m) \/ ReceiveText(d, m)
    BY <2>1 DEF ReceiveDeletion, IgnoreOldText, Quarantine, ReceiveText, history
  <2>2. CASE ReceiveRead(d, m) \/ ReceiveRequest(d, m) \/ ReceiveResponse(d, m)
    BY <2>2 DEF ReceiveRead, ReceiveRequest, ReceiveResponse, history
  <2> QED BY <1>4, <2>1, <2>2 DEF Arrival
<1>5. ASSUME NEW d \in Device, NEW n \in notes[d], NEW v, Answer(d, n, v)
      PROVE  cuts' = cuts /\ r = n.request
  BY <1>5 DEF Answer
<1> QED BY <1>1, <1>2, <1>3, <1>4, <1>5, Steps

\* What an answer leaves behind: the decided notification here, the response for all others.
LEMMA AnswerLeaves ==
    ASSUME Types, Unique, CutsOK, NEW b \in Device, NEW n \in notes[b],
           NEW v \in {"Accepted", "Rejected"}, Answer(b, n, v), cuts' = cuts
    PROVE  /\ Decided(notes'[b], n.request)
           /\ \E m \in outbox'[b] : Says(m, n.request) /\ Recipients(m) = Device \ {b}
                                    /\ m.id \notin accepted'
<1>1. Decided(notes'[b], n.request)
  <2>1. notes' = [notes EXCEPT ![b] = Save(b, ResponseNote(n.request, v))]
    BY DEF Answer, Cut, CutsOK
  <2>2. PICK x : x = ResponseNote(n.request, v) OBVIOUS
  <2>3. x.request = n.request /\ x.state = v BY <2>2 DEF ResponseNote
  <2>4. x \in notes'[b] BY <2>1, <2>2 DEF Save, Types, NotesOK
  <2> QED BY <2>3, <2>4 DEF Decided
<1>2. ASSUME NEW k \in Nat, NEW j \in 1 .. k, Draw(k), Response(b, j, n.request, v) \in outbox'[b]
      PROVE  \E m \in outbox'[b] : Says(m, n.request) /\ Recipients(m) = Device \ {b}
                                   /\ m.id \notin accepted'
  <2>1. n.request \in Ids \cup {Reauth} BY DEF Types, NotesOK, Note
  <2>2. PICK m : m = Response(b, j, n.request, v) OBVIOUS
  <2>3. m.kind = "response" /\ m.about = {n.request} /\ m.from = b /\ m.id = Fresh(j)
    BY <1>2, <2>1, <2>2, ResponseIsMessage
  <2>4. m.id > drawn /\ m.id \in Ids BY <1>2, <2>3, FreshIds
  <2>5. accepted' = accepted BY DEF Answer
  <2>6. drawn \in Nat /\ m.id \in Int BY <2>4 DEF Types, CountsOK, Ids
  <2>7. m.id \notin accepted' BY <2>4, <2>5, <2>6 DEF Unique, AcceptedDrawn
  <2>8. Recipients(m) = Device \ {b} BY <2>3 DEF Recipients
  <2> QED BY <1>2, <2>2, <2>3, <2>7, <2>8 DEF Says
<1>3. outbox \in [Device -> SUBSET Message] BY DEF Types, OutboxOK
<1>4. \/ Draw(1) /\ Response(b, 1, n.request, v) \in outbox'[b]
      \/ Draw(2) /\ Response(b, 2, n.request, v) \in outbox'[b]
  BY <1>3 DEF Answer
<1>5. 1 \in 1 .. 1 /\ 2 \in 1 .. 2 OBVIOUS
<1> QED BY <1>1, <1>2, <1>4, <1>5

\* Of an answered request every device has the answer, or it is on its way there.
Settled(d, r) ==
    \/ <<d, r>> \in removed
    \/ Decided(notes[d], r)
    \/ \E m \in Range(mailbox[d]) : Says(m, r)
    \/ \E b \in Device : \E m \in outbox[b] :
          Says(m, r) /\ d \in Recipients(m) /\ m.id \notin accepted
Settling == \A r \in answered \ {Reauth} : \A d \in Device : Settled(d, r)

LEMMA InMail ==
    ASSUME Types, NEW d \in Device
    PROVE  \A m \in Range(mailbox[d]) : m \in Message /\ Around(m) /\ d \in Recipients(m)
<1>1. mailbox[d] \in Seq(Message) BY DEF Types, MailOK
<1>2. DOMAIN mailbox[d] = 1 .. Len(mailbox[d]) BY <1>1
<1> QED BY <1>1, <1>2 DEF Range, Around, Types, MailOK

LEMMA SettlingStep ==
    ASSUME Types, Types', Unique, Arrived, Arrived', StonesApart, AboutOK, CutsOK, Settling,
           [Next]_vars
    PROVE  Settling'
<1> SUFFICES ASSUME NEW r \in answered', r # Reauth, NEW d \in Device
             PROVE  Settled(d, r)'
    BY DEF Settling
<1>1. CASE r \in answered
  <2>1. Settled(d, r) BY <1>1 DEF Settling
  <2>2. CASE <<d, r>> \in removed BY <2>2, RemovedGrows DEF Settled
  <2>3. CASE Decided(notes[d], r) BY <2>3, DecidedStays DEF Settled
  <2>4. CASE \E m \in Range(mailbox[d]) : Says(m, r)
    <3>1. PICK m \in Range(mailbox[d]) : Says(m, r) BY <2>4
    <3>2. m \in Range(mailbox'[d]) \/ Decided(notes'[d], r) BY <3>1, InMail, AnswerHandled
    <3> QED BY <3>1, <3>2 DEF Settled, Says
  <2>5. ASSUME NEW b \in Device, NEW m \in outbox[b],
               Says(m, r) /\ d \in Recipients(m) /\ m.id \notin accepted
        PROVE  Settled(d, r)'
    <3>1. m.kind = "response" BY <2>5 DEF Says
    <3>2. CASE m \in outbox'[b]
      <4>1. m.id \notin accepted' BY <3>1, <3>2 DEF Arrived
      <4> QED BY <2>5, <3>2, <4>1 DEF Settled, Says, Recipients, Own
    <3>3. CASE Accept(b, m)
      <4>1. m \in Range(mailbox'[d]) BY <2>5, <3>3, Delivered
      <4> QED BY <2>5, <4>1 DEF Settled, Says
    <3> QED BY <3>1, <3>2, <3>3, OutboxKeeps
  <2> QED BY <2>1, <2>2, <2>3, <2>4, <2>5 DEF Settled
<1>2. ASSUME NEW b \in Device, NEW n \in notes[b], NEW v \in {"Accepted", "Rejected"},
             Answer(b, n, v), cuts' = cuts, r = n.request
      PROVE  Settled(d, r)'
  <2>1. CASE d = b BY <1>2, <2>1, AnswerLeaves DEF Settled
  <2>2. CASE d # b
    <3>1. PICK m \in outbox'[b] : /\ Says(m, r) /\ Recipients(m) = Device \ {b}
                                  /\ m.id \notin accepted'
      BY <1>2, AnswerLeaves
    <3> QED BY <2>2, <3>1 DEF Settled, Says, Recipients, Own
  <2> QED BY <2>1, <2>2
<1> QED BY <1>1, <1>2, AnsweredMoves


\* Once everything has been worked through, a request somebody has answered waits on no
\* device of either account: the response goes to all devices of both
\* (accept_chat_request, reject_selected_chat_request), stays in the outbox until the
\* server has stored it for all of them, and what it settles no later copy of the
\* request opens again (save_chat_request_notification keeps the state).
THEOREM AnswersSettle == Spec => []AnsweredIsSettled
<1> DEFINE All == Arrived /\ StonesApart /\ AboutOK /\ CutsOK /\ Settling
<1>1. Init => All
  <2> SUFFICES ASSUME Init PROVE All OBVIOUS
  <2>1. Range(<<>>) = {} BY DEF Range
  <2>2. Arrived BY <2>1 DEF Init, Arrived
  <2>3. StonesApart /\ CutsOK /\ Settling BY DEF Init, StonesApart, CutsOK, Settling
  <2>4. AboutOK BY <2>1 DEF Init, AboutOK, Around
  <2> QED BY <2>2, <2>3, <2>4
<1>2. Inv /\ Inv' /\ All /\ [Next]_vars => All'
  <2> SUFFICES ASSUME Inv, Inv', All, [Next]_vars PROVE All' OBVIOUS
  <2>1. Types /\ Types' /\ Unique /\ Unique' BY DEF Inv
  <2>2. Arrived' BY <2>1, ArrivedStep
  <2>3. StonesApart' BY <2>1, StonesApartStep
  <2>4. AboutOK' BY <2>1, AboutStep
  <2>5. CutsOK' BY <2>1, CutsStep
  <2>6. Settling' BY <2>1, <2>2, SettlingStep
  <2> QED BY <2>2, <2>3, <2>4, <2>5, <2>6
<1>3. Inv /\ All => AnsweredIsSettled
  <2> SUFFICES ASSUME Inv, All, Quiet, NEW r \in answered \ {Reauth}, NEW d \in Device,
                      NEW n \in NoteOn(d, r), n.state = "Pending"
               PROVE  <<d, r>> \in removed
      BY DEF AnsweredIsSettled
  <2>1. Settled(d, r) BY DEF Settling
  <2>2. Range(mailbox[d]) = {} /\ \A b \in Device : outbox[b] = {} BY DEF Quiet, Range
  <2>3. ~Decided(notes[d], r)
    <3>1. n \in notes[d] /\ n.request = r BY DEF NoteOn
    <3>2. OneEach(notes[d]) BY DEF Inv, Types, NotesOK
    <3> QED BY <3>1, <3>2 DEF OneEach, Decided
  <2> QED BY <2>1, <2>2, <2>3 DEF Settled
<1> QED BY <1>1, <1>2, <1>3, InvHolds, PTL DEF Spec


(***************************************************************************)
(* The devices of the sender agree on what was read                        *)
(***************************************************************************)

Marked(e, i) == \E t \in texts[e] : t.id = i /\ (Inbound(e, t) \/ i \in read[e])
Informed(s, i) == \E y \in Range(s) : y.kind = "read" /\ i \in y.about /\ NoneBehind(s, y, {i})
\* What e makes of a receipt for i that another of its account has worked through.
Agreed(e, i) == Marked(e, i) \/ NoneLeft(e, {i}) \/ Informed(mailbox[e], i)
Shown(d, i) == i \in read[d] /\ \E t \in texts[d] : t.id = i /\ ~Inbound(d, t)
Receipted(d, i) == Shown(d, i) \/ \E y \in Range(mailbox[d]) : y.kind = "read" /\ i \in y.about
Agreeing ==
    \A d \in Device : \A i \in Ids : Receipted(d, i) =>
        i \in accepted /\ \A e \in Device : Own(d, e) => Agreed(e, i)

\* What is taken from a conversation is taken as a whole.
LEMMA ReadStays ==
    ASSUME Types, [Next]_vars
    PROVE  \A e \in Device : \/ texts[e] \subseteq texts'[e] /\ read[e] \subseteq read'[e]
                             \/ texts'[e] = {} /\ Range(mailbox'[e]) \subseteq Range(mailbox[e])
<1> DEFINE Goal == \A e \in Device :
        \/ texts[e] \subseteq texts'[e] /\ read[e] \subseteq read'[e]
        \/ texts'[e] = {} /\ Range(mailbox'[e]) \subseteq Range(mailbox[e])
<1>0. texts \in [Device -> SUBSET Message] /\ read \in [Device -> SUBSET Ids]
  BY DEF Types, TextsOK
<1>1. ASSUME \/ UNCHANGED texts
             \/ \E d \in Device : \E X : texts' = [texts EXCEPT ![d] = @ \cup X],
             \/ UNCHANGED read
             \/ \E d \in Device : \E A : read' = [read EXCEPT ![d] = @ \cup A]
      PROVE  Goal
  <2>1. \A e \in Device : texts[e] \subseteq texts'[e] BY <1>0, <1>1
  <2>2. \A e \in Device : read[e] \subseteq read'[e] BY <1>0, <1>1
  <2> QED BY <2>1, <2>2
<1>2. ASSUME NEW d \in Device, NEW id, NEW p, Erase(d, id, p),
             Range(mailbox'[d]) \subseteq Range(mailbox[d])
      PROVE  Goal
  BY <1>0, <1>2 DEF Erase
<1>3. ASSUME NEW d \in Device, NEW m, mailbox[d] # <<>>, m = Head(mailbox[d]), Arrival(d, m)
      PROVE  Goal
  <2>1. CASE ReceiveDeletion(d, m)
    <3>1. Taken(d) BY <1>3, <2>1 DEF Taken, ReceiveDeletion, Drop
    <3> QED BY <1>2, <2>1, <3>1, TakenFrom DEF ReceiveDeletion
  <2>2. CASE IgnoreOldText(d, m) BY <1>1, <2>2 DEF IgnoreOldText, tables
  <2>3. CASE Quarantine(d, m) BY <1>1, <2>3 DEF Quarantine
  <2>4. CASE ReceiveText(d, m)
    <3>1. texts' = [texts EXCEPT ![d] = @ \cup {m}] BY <2>4 DEF ReceiveText
    <3>2. UNCHANGED read \/ read' = [read EXCEPT ![d] = @ \cup {m.id}] BY <2>4 DEF ReceiveText
    <3> QED BY <1>1, <3>1, <3>2
  <2>5. CASE ReceiveRead(d, m) BY <1>1, <2>5 DEF ReceiveRead
  <2>6. CASE ReceiveRequest(d, m) \/ ReceiveResponse(d, m)
    BY <1>1, <2>6 DEF ReceiveRequest, ReceiveResponse
  <2> QED BY <1>3, <2>1, <2>2, <2>3, <2>4, <2>5, <2>6 DEF Arrival
<1>4. ASSUME NEW d \in Device, Look(d) PROVE Goal BY <1>1, <1>4 DEF Look
<1>5. ASSUME NEW d \in Device, NEW n, NEW v, Answer(d, n, v) PROVE Goal BY <1>1, <1>5 DEF Answer
<1>6. ASSUME NEW d \in Device, Delete(d) PROVE Goal BY <1>2, <1>6 DEF Delete
<1>7. ASSUME NEW d \in Device, Chat(d) \/ Verify(d) \/ SendText(d) \/ TellDeletion(d) PROVE Goal
  BY <1>1, <1>7 DEF Chat, Verify, SendText, TellDeletion
<1>8. ASSUME NEW d \in Device, NEW n, DismissNote(d, n) \/ Accept(d, n) \/ Complete(d, n) PROVE Goal
  BY <1>1, <1>8 DEF DismissNote, Accept, Complete, tables
<1>9. CASE UNCHANGED vars BY <1>1, <1>9 DEF vars, tables
<1> QED BY <1>3, <1>4, <1>5, <1>6, <1>7, <1>8, <1>9, Steps


LEMMA MailGrows ==
    ASSUME Types, [Next]_vars, NEW e \in Device
    PROVE  \/ mailbox'[e] = mailbox[e]
           \/ Taken(e) /\ mailbox[e] # <<>> /\ mailbox'[e] = Tail(mailbox[e])
              /\ Arrival(e, Head(mailbox[e]))
           \/ \E d \in Device : \E m \in outbox[d] :
                 Accept(d, m) /\ m \in Message /\ mailbox'[e] = Append(mailbox[e], m)
<1>1. ASSUME NEW d \in Device, NEW m \in outbox[d], Accept(d, m)
      PROVE  m \in Message /\ mailbox'[e] \in {mailbox[e], Append(mailbox[e], m)}
  BY <1>1, Delivered DEF Accept
<1>2. ASSUME Taken(e)
      PROVE  mailbox[e] # <<>> /\ mailbox'[e] = Tail(mailbox[e]) /\ Arrival(e, Head(mailbox[e]))
  BY <1>2 DEF Taken, Types, MailOK
<1>3. ASSUME NEW d \in Device, d # e, Taken(d) PROVE mailbox'[e] = mailbox[e] BY <1>3, TakenFrom
<1> QED BY <1>1, <1>2, <1>3, MailMoves

\* Of a text the server had taken already nothing comes any more.
LEMMA NoneComes ==
    ASSUME Types, Unique, [Next]_vars, NEW e \in Device, NEW i \in accepted, NoneLeft(e, {i})
    PROVE  NoneLeft(e, {i})'
<1>0. drawn \in Nat /\ i \in Int /\ i <= drawn
  BY DEF Types, CountsOK, Ids, Unique, AcceptedDrawn
<1>1. ASSUME NEW m \in texts'[e] PROVE m.id # i
  <2>1. CASE m \in texts[e] \/ m \in Range(mailbox[e]) BY <2>1 DEF NoneLeft
  <2>2. ASSUME NEW b \in Device, SendText(b) PROVE m.id # i
    <3>1. PICK w : w.id > drawn /\ texts' = [texts EXCEPT ![b] = @ \cup {w}]
      BY <2>2, SendTextPosts
    <3>2. m \in texts[e] \/ m = w BY <3>1 DEF Types, TextsOK
    <3> QED BY <1>0, <2>1, <3>1, <3>2
  <2> QED BY <2>1, <2>2, TextsMove
<1>2. ASSUME NEW m \in Range(mailbox'[e]) PROVE m.id # i
  <2>1. CASE m \in Range(mailbox[e]) BY <2>1 DEF NoneLeft
  <2>2. ASSUME NEW d \in Device, NEW x \in outbox[d], Accept(d, x) PROVE m.id # i
    <3>1. x.id # i BY <2>2 DEF Accept
    <3>2. Range(mailbox'[e]) = Range(mailbox[e]) \cup (IF e \in Recipients(x) THEN {x} ELSE {})
      BY <2>2, Delivered
    <3>3. m \in Range(mailbox[e]) \/ m = x BY <3>2
    <3> QED BY <2>1, <3>1, <3>3
  <2>3. ASSUME NEW d \in Device, Taken(d) PROVE m \in Range(mailbox[e]) BY <2>3, TakenFrom
  <2> QED BY <2>1, <2>2, <2>3, MailMoves
<1> QED BY <1>1, <1>2 DEF NoneLeft

\* A mark stays until the text goes, and then no copy of it is on its way.
LEMMA MarkStays ==
    ASSUME Types, Unique, Arrived, [Next]_vars, NEW e \in Device, NEW i, Marked(e, i)
    PROVE  Marked(e, i)' \/ NoneLeft(e, {i})'
<1>1. PICK t \in texts[e] : t.id = i /\ (Inbound(e, t) \/ i \in read[e]) BY DEF Marked
<1>2. CASE texts[e] \subseteq texts'[e] /\ read[e] \subseteq read'[e]
  BY <1>1, <1>2 DEF Marked, Inbound, Own
<1>3. CASE texts'[e] = {} /\ Range(mailbox'[e]) \subseteq Range(mailbox[e])
  <2>1. ASSUME NEW m \in Range(mailbox[e]), m.id = i PROVE FALSE
    <3>1. m \in Message /\ Around(m) BY InMail
    <3>2. t \in Message /\ Around(t) BY TextIsAround
    <3>3. m = t BY <1>1, <2>1, <3>1, <3>2 DEF Unique, OneMessageEach
    <3> QED BY <3>3 DEF Arrived
  <2> QED BY <1>3, <2>1 DEF NoneLeft
<1> QED BY <1>2, <1>3, ReadStays

LEMMA BehindIsIn ==
    ASSUME NEW S, NEW s \in Seq(S), NEW y, NEW T, NoneBehind(s, y, T)
    PROVE  y \in Range(s)
BY DEF NoneBehind, Range

\* A receipt in the mailbox marks the text when its turn comes, if it is still there.
LEMMA InformedStays ==
    ASSUME Types, Types', [Next]_vars, NEW e \in Device, NEW i \in accepted, Informed(mailbox[e], i)
    PROVE  Agreed(e, i)'
<1>0. mailbox[e] \in Seq(Message) /\ mailbox'[e] \in Seq(Message)
  BY DEF Types, MailOK
<1>1. PICK y \in Range(mailbox[e]) :
          y.kind = "read" /\ i \in y.about /\ NoneBehind(mailbox[e], y, {i})
  BY DEF Informed
<1>2. ASSUME NoneBehind(mailbox'[e], y, {i}) PROVE Agreed(e, i)'
  <2>1. y \in Range(mailbox'[e]) BY <1>0, <1>2, BehindIsIn
  <2> QED BY <1>1, <1>2, <2>1 DEF Agreed, Informed
<1>3. CASE mailbox'[e] = mailbox[e] BY <1>1, <1>2, <1>3
<1>4. ASSUME NEW d \in Device, NEW m \in outbox[d], Accept(d, m), m \in Message,
             mailbox'[e] = Append(mailbox[e], m)
      PROVE  Agreed(e, i)'
  <2>1. m.id # i BY <1>4 DEF Accept
  <2>2. PICK s : s = mailbox[e] OBVIOUS
  <2>3. NoneBehind(Append(s, m), y, {i}) BY <1>0, <1>1, <1>4, <2>1, <2>2, NoneBehindAppend
  <2> QED BY <1>2, <1>4, <2>2, <2>3
<1>5. CASE /\ mailbox[e] # <<>> /\ mailbox'[e] = Tail(mailbox[e])
           /\ Arrival(e, Head(mailbox[e]))
  <2>1. PICK s : s = mailbox[e] OBVIOUS
  <2>2. \/ NoneBehind(Tail(s), y, {i})
        \/ Head(s) = y /\ \A m \in Range(Tail(s)) : m.id \notin {i}
    BY <1>0, <1>1, <1>5, <2>1, NoneBehindTail
  <2>3. CASE Head(s) = y /\ \A m \in Range(Tail(s)) : m.id \notin {i}
    <3>1. ReceiveRead(e, y)
      BY <1>1, <1>5, <2>1, <2>3 DEF Arrival, ReceiveDeletion, IgnoreOldText, Quarantine,
                                    ReceiveText, ReceiveRequest, ReceiveResponse
    <3>2. /\ UNCHANGED texts
          /\ read' = [read EXCEPT ![e] =
                         @ \cup (y.about \cap IdsOf({t \in texts[e] : ~Inbound(e, t)}))]
      BY <3>1 DEF ReceiveRead
    <3>3. read'[e] = read[e] \cup (y.about \cap IdsOf({t \in texts[e] : ~Inbound(e, t)}))
      BY <3>2 DEF Types, TextsOK
    <3>4. CASE \E t \in texts[e] : t.id = i
      <4>1. PICK t \in texts[e] : t.id = i BY <3>4
      <4>2. Inbound(e, t) \/ i \in read'[e] BY <1>1, <3>3, <4>1 DEF IdsOf
      <4> QED BY <3>2, <4>1, <4>2 DEF Agreed, Marked, Inbound, Own
    <3>5. CASE \A t \in texts[e] : t.id # i BY <1>5, <2>1, <2>3, <3>2, <3>5 DEF Agreed, NoneLeft
    <3> QED BY <3>4, <3>5
  <2> QED BY <1>2, <1>5, <2>1, <2>2, <2>3
<1> QED BY <1>3, <1>4, <1>5, MailGrows

\* What is shown as read was so before, or a receipt for it has just had its turn.
LEMMA ShownMoves ==
    ASSUME Types, Types', Unique, Unique', [Next]_vars, NEW d \in Device, NEW i, Shown(d, i)'
    PROVE  Receipted(d, i)
<1>1. PICK t \in texts'[d] : t.id = i /\ ~Inbound(d, t) BY DEF Shown, Inbound, Own
<1>2. i \in read'[d] BY DEF Shown
<1>3. t \in Message /\ Around(t)' BY DEF Types, TextsOK, Around
<1>4. CASE i \in read[d]
  <2>1. read[d] \subseteq IdsOf(texts[d]) BY DEF Types, TextsOK
  <2>2. PICK y \in texts[d] : y.id = i BY <1>4, <2>1 DEF IdsOf
  <2>3. y \in Message /\ Around(y) BY TextIsAround
  <2>4. y.id <= drawn /\ y.id \in Int /\ drawn \in Nat
    BY <2>3, NumbersOfIds DEF Types, CountsOK, Unique, OneMessageEach
  <2>5. Around(t)
    <3>1. ASSUME NEW e \in Device, SendText(e) PROVE t \in texts[d]
      <4>1. PICK w : w.id > drawn /\ texts' = [texts EXCEPT ![e] = @ \cup {w}]
        BY <3>1, SendTextPosts
      <4>2. t \in texts[d] \/ t = w BY <4>1 DEF Types, TextsOK
      <4> QED BY <1>1, <2>2, <2>4, <4>1, <4>2
    <3> QED BY <3>1, TextsMove DEF Around
  <2>6. t = y BY <1>1, <1>3, <2>2, <2>3, <2>5 DEF Unique, OneMessageEach
  <2> QED BY <1>1, <1>4, <2>2, <2>6 DEF Receipted, Shown
<1>5. ASSUME NEW x \in texts'[d], x.id = i, Inbound(d, x) PROVE FALSE
  <2>1. x \in Message /\ Around(x)' BY DEF Types, TextsOK, Around
  <2>2. x = t BY <1>1, <1>3, <1>5, <2>1 DEF Unique, OneMessageEach
  <2> QED BY <1>1, <1>5, <2>2
<1>6. CASE \E r \in Range(mailbox[d]) : r.kind = "read" /\ i \in r.about BY <1>6 DEF Receipted
<1> QED BY <1>2, <1>4, <1>5, <1>6, ReadMoves

LEMMA AgreeingStep ==
    ASSUME Types, Types', Unique, Unique', Arrived, AboutOK, Agreeing, [Next]_vars
    PROVE  Agreeing'
<1>0. accepted \subseteq accepted' BY AcceptedMoves
<1> SUFFICES ASSUME NEW d \in Device, NEW i \in Ids, Receipted(d, i)'
             PROVE  i \in accepted' /\ \A e \in Device : Own(d, e) => Agreed(e, i)'
    BY DEF Agreeing, Own
<1>1. CASE Receipted(d, i)
  <2>1. i \in accepted /\ \A e \in Device : Own(d, e) => Agreed(e, i) BY <1>1 DEF Agreeing
  <2>2. ASSUME NEW e \in Device, Own(d, e) PROVE Agreed(e, i)'
    <3>1. Agreed(e, i) BY <2>1, <2>2
    <3>2. CASE Marked(e, i) BY <3>2, MarkStays DEF Agreed
    <3>3. CASE NoneLeft(e, {i}) BY <2>1, <3>3, NoneComes DEF Agreed
    <3>4. CASE Informed(mailbox[e], i) BY <2>1, <3>4, InformedStays
    <3> QED BY <3>1, <3>2, <3>3, <3>4 DEF Agreed
  <2> QED BY <1>0, <2>1, <2>2
<1>2. CASE Shown(d, i)' BY <1>1, <1>2, ShownMoves
<1>3. ASSUME NEW y \in Range(mailbox'[d]), y.kind = "read", i \in y.about,
             y \notin Range(mailbox[d])
      PROVE  i \in accepted' /\ \A e \in Device : Own(d, e) => Agreed(e, i)'
  <2>1. PICK b \in Device : \E m \in outbox[b] : Accept(b, m) BY <1>3, MailMoves, TakenFrom
  <2>2. PICK m \in outbox[b] : Accept(b, m) BY <2>1
  <2>3. y = m /\ d \in Recipients(y) /\ y \in Message
    <3>1. m \in Message BY <2>2, Delivered
    <3>2. Range(mailbox'[d]) = Range(mailbox[d]) \cup (IF d \in Recipients(m) THEN {m} ELSE {})
      BY <2>2, Delivered
    <3> QED BY <1>3, <3>1, <3>2
  <2>4. Around(y) BY <2>2, <2>3 DEF Around
  <2>5. i \in accepted BY <1>3, <2>3, <2>4 DEF AboutOK
  <2>6. ~Own(d, y.from) BY <1>3, <2>3 DEF Recipients
  <2>7. y.id # i BY <2>2, <2>3, <2>5 DEF Accept
  <2>8. ASSUME NEW e \in Device, Own(d, e) PROVE Agreed(e, i)'
    <3>1. e \in Recipients(y) BY <1>3, <2>6, <2>8 DEF Recipients, Own
    <3>2. mailbox'[e] = Append(mailbox[e], y) BY <2>2, <2>3, <3>1 DEF Accept
    <3>3. PICK s : s = mailbox[e] OBVIOUS
    <3>4. s \in Seq(Message) BY <3>3 DEF Types, MailOK
    <3>5. NoneBehind(Append(s, y), y, {i}) BY <2>3, <2>7, <3>4, NoneBehindAppend
    <3>6. y \in Range(Append(s, y)) BY <2>3, <3>4, RangeOfAppend
    <3> QED BY <1>3, <3>2, <3>3, <3>5, <3>6 DEF Agreed, Informed
  <2> QED BY <1>0, <2>5, <2>8
<1> QED BY <1>1, <1>2, <1>3 DEF Receipted

\* Once everything has been worked through, all devices of the sender show the same texts
\* as read: a receipt goes to all of them in one transaction (Db::store_envelopes), comes
\* behind the text in every mailbox, and what one deletion takes is not on its way again
\* (mark_selected_read, handle_sync_batch).
THEOREM ReadersAgreed == Spec => []ReadersAgree
<1>1. Init => Arrived /\ AboutOK /\ Agreeing
  <2> SUFFICES ASSUME Init PROVE Arrived /\ AboutOK /\ Agreeing OBVIOUS
  <2>1. Range(<<>>) = {} BY DEF Range
  <2>2. Arrived BY <2>1 DEF Init, Arrived
  <2>3. AboutOK BY <2>1 DEF Init, AboutOK, Around
  <2>4. Agreeing BY <2>1 DEF Init, Agreeing, Receipted, Shown
  <2> QED BY <2>2, <2>3, <2>4
<1>2. Inv /\ Inv' /\ Arrived /\ AboutOK /\ Agreeing /\ [Next]_vars
      => Arrived' /\ AboutOK' /\ Agreeing'
  BY ArrivedStep, AboutStep, AgreeingStep DEF Inv
<1>3. Inv /\ Agreeing => ReadersAgree
  <2> SUFFICES ASSUME Inv, Agreeing, Quiet, NEW d \in Device, NEW e \in Device, Own(d, e),
                      NEW m \in texts[d] \cap texts[e], ~Inbound(d, m)
               PROVE  m.id \in read[d] <=> m.id \in read[e]
      BY DEF ReadersAgree
  <2>1. \A b \in Device : Range(mailbox[b]) = {} BY DEF Quiet, Range
  <2>2. m \in Message /\ Around(m) /\ m.id \in Ids BY TextIsAround DEF Inv, Message
  <2>3. ASSUME NEW b \in Device, NEW c \in Device, Own(b, c), m \in texts[b], m \in texts[c],
               ~Inbound(b, m), m.id \in read[b]
        PROVE  m.id \in read[c]
    <3>1. Receipted(b, m.id) BY <2>3 DEF Receipted, Shown
    <3>2. Agreed(c, m.id) BY <2>2, <2>3, <3>1 DEF Agreeing
    <3>3. Marked(c, m.id) BY <2>1, <2>3, <3>2 DEF Agreed, NoneLeft, Informed
    <3>4. PICK t \in texts[c] : t.id = m.id /\ (Inbound(c, t) \/ m.id \in read[c])
      BY <3>3 DEF Marked
    <3>5. t = m BY <2>2, <3>4, TextIsAround DEF Inv, Unique, OneMessageEach
    <3> QED BY <2>3, <3>4, <3>5 DEF Inbound, Own
  <2>4. Own(e, d) /\ ~Inbound(e, m) BY DEF Own, Inbound
  <2> QED BY <2>3, <2>4
<1> QED BY <1>1, <1>2, <1>3, InvHolds, PTL DEF Spec

=============================================================================
