----------------------------- MODULE Conversations -----------------------------
(***************************************************************************)
(* One conversation as the devices of its two accounts see it (app.rs,     *)
(* local.rs): requests and their answers, verification, texts and their    *)
(* quarantine, read receipts, and the deletion of the conversation with    *)
(* its synchronisation to the user's other devices.                        *)
(*                                                                         *)
(* All devices run the same code, one event loop each, so a handler is one *)
(* step; one that writes two transactions may be cut off between them by a *)
(* crash or a failing call (`Cut`).  Every message is end-to-end encrypted *)
(* for each recipient, kept in the sender's outbox until the server has    *)
(* stored it in the mailboxes of all of them in one transaction, and       *)
(* worked through in the order of each mailbox.  Which messages leave the  *)
(* outbox first is left open: sends fail, time out and are repeated.       *)
(***************************************************************************)
EXTENDS Integers, FiniteSets, Sequences

CONSTANTS
    Device,
    Account,        \* the account of a device
    MaxDrawn,       \* ids of messages there are
    MaxCuts,        \* handlers that are cut off
    MaxDismissed    \* notifications that are deleted

ASSUME BoundAssumption == {MaxDrawn, MaxCuts, MaxDismissed} \subseteq Nat

VARIABLES
    contact,        \* per device the contact's row: "none", "unverified", "verified"
    tombstone,      \* table conversation_tombstones: {} or one row [id, pending]
    notes,          \* table notifications
    texts,          \* table messages
    read,           \* ids of rows of messages whose status is read
    outbox,         \* table outbox
    mailbox,        \* what the device has still to work through
    accepted,       \* ids of the messages the server has stored
    drawn,          \* ids drawn so far
    cuts,           \* handlers cut off so far
    dismissed,      \* notifications the user deleted so far
    \* History: texts a user has had before his eyes, requests answered by a handler
    \* that was not cut off, deletions under their id, texts a deletion took,
    \* texts dropped unread, notifications removed.
    seen, answered, erased, wiped, dropped, removed

tables == <<contact, tombstone, notes, texts, read>>
history == <<seen, answered, erased, wiped, dropped, removed>>
vars == <<tables, outbox, mailbox, accepted, drawn, cuts, dismissed, history>>

Ids == 1..MaxDrawn
Reauth == 0         \* request id "reauth-<conversation>", the same on every device
Kinds == {"text", "request", "response", "read", "deletion"}
Own(d, e) == Account[d] = Account[e]
Inbound(d, m) == ~Own(d, m.from)

\* `about` are the messages it relates to, `verdict` the answer of a response.
Message == [id : Ids, kind : Kinds, from : Device, about : SUBSET (Ids \cup {Reauth}),
            verdict : {"", "Accepted", "Rejected"}]
Note == [request : Ids \cup {Reauth}, kind : {"ChatRequest", "ChatResponse"},
         state : {"Pending", "Accepted", "Rejected", "Completed"}, outgoing : BOOLEAN]

Fresh(n) == drawn + n
New(n, kind, d) == [id |-> Fresh(n), kind |-> kind, from |-> d, about |-> {}, verdict |-> ""]
Draw(n) == drawn + n <= MaxDrawn /\ drawn' = drawn + n
Cut == cuts < MaxCuts /\ cuts' = cuts + 1

Init ==
    /\ contact \in {[d \in Device |-> c] : c \in {"none", "verified"}}
    /\ tombstone = [d \in Device |-> {}]
    /\ notes = [d \in Device |-> {}]
    /\ texts = [d \in Device |-> {}]
    /\ read = [d \in Device |-> {}]
    /\ outbox = [d \in Device |-> {}]
    /\ mailbox = [d \in Device |-> <<>>]
    /\ accepted = {} /\ drawn = 0 /\ cuts = 0 /\ dismissed = 0
    /\ seen = {} /\ answered = {} /\ erased = {} /\ dropped = {} /\ removed = {}
    /\ wiped = [d \in Device |-> {}]

----------------------------------------------------------------------------
(* What the store's statements do *)

\* upsert_contact keeps what was verified.
Known(d) == IF contact[d] = "none" THEN "unverified" ELSE contact[d]

NoteOn(d, r) == {n \in notes[d] : n.request = r}

\* Mutant of Save: the row of the same request stays.
SaveBeside(d, n) == notes[d] \cup {n}

\* save_notification: one row per request id.
Save(d, n) == (notes[d] \ NoteOn(d, n.request)) \cup {n}

\* save_chat_request_notification and save_outgoing_chat_request_notification
\* leave the state of an existing row.
RequestNote(d, r, out) ==
    [request |-> r, kind |-> "ChatRequest", outgoing |-> out,
     state |-> IF NoteOn(d, r) = {} THEN "Pending"
               ELSE (CHOOSE n \in NoteOn(d, r) : TRUE).state]

\* save_chat_response_notification does not look at the state.
ResponseNote(r, verdict) ==
    [request |-> r, kind |-> "ChatResponse", state |-> verdict, outgoing |-> FALSE]

\* handle_sync_batch keeps an accepted request and opens any other again.
ReauthNotes(d) ==
    IF \E n \in NoteOn(d, Reauth) : n.state = "Accepted" THEN notes[d]
    ELSE Save(d, [request |-> Reauth, kind |-> "ChatRequest", state |-> "Pending",
                  outgoing |-> FALSE])

HasPendingRequest(d) == \E n \in notes[d] : n.kind = "ChatRequest" /\ n.state = "Pending"

\* Mutant of Buried: the row takes over everything the deletion says.
BuriedAnew(d, id, pending) == {[id |-> id, pending |-> pending]}

\* upsert_conversation_tombstone: what waits to be told keeps its id.  Of two
\* ids the later one belongs to the later deletion.
Buried(d, id, pending) ==
    IF tombstone[d] = {} THEN {[id |-> id, pending |-> pending]}
    ELSE {[id |-> IF t.pending THEN t.id
                  ELSE IF pending \/ id >= t.id THEN id ELSE t.id,
           pending |-> t.pending \/ pending] : t \in tombstone[d]}

\* delete_conversation_state, together with the tombstone.
Erase(d, id, pending) ==
    /\ contact' = [contact EXCEPT ![d] = "none"]
    /\ tombstone' = [tombstone EXCEPT ![d] = Buried(d, id, pending)]
    /\ notes' = [notes EXCEPT ![d] = {}]
    /\ texts' = [texts EXCEPT ![d] = {}]
    /\ read' = [read EXCEPT ![d] = {}]
    /\ wiped' = [wiped EXCEPT ![d] = @ \cup texts[d]]
    /\ removed' = removed \cup {<<d, n.request>> : n \in notes[d]}

Unread(d) == {m \in texts[d] : Inbound(d, m) /\ m.id \notin read[d]}
IdsOf(S) == {m.id : m \in S}

\* Mutant of Recipients: an answer goes to those who asked only.
RecipientsOfAsker(m) ==
    {d \in Device \ {m.from} : CASE m.kind \in {"read", "response"} -> ~Own(d, m.from)
                                 [] m.kind = "deletion" -> Own(d, m.from)
                                 [] OTHER -> TRUE}

\* Mutant of Recipients: a receipt goes to one device.
RecipientsOneReader(m) ==
    {d \in Device \ {m.from} :
        CASE m.kind = "read" -> d = CHOOSE e \in Device : ~Own(e, m.from)
          [] m.kind = "deletion" -> Own(d, m.from)
          [] OTHER -> TRUE}

\* The devices a message is encrypted for.
Recipients(m) ==
    {d \in Device \ {m.from} : CASE m.kind = "read" -> ~Own(d, m.from)
                                 [] m.kind = "deletion" -> Own(d, m.from)
                                 [] OTHER -> TRUE}

----------------------------------------------------------------------------
(* What the user does *)

Receipt(d, n) == [New(n, "read", d) EXCEPT !.about = IdsOf(Unread(d))]
MarksRead(d) == contact[d] = "verified" /\ Unread(d) # {}

\* open_contact, send_chat_request: the contact is kept, the own devices are looked
\* up, the notification is saved, then the request is committed to the outbox.
\* Nothing is sent while a request waits.
Chat(d) ==
    /\ contact[d] # "verified"
    /\ contact' = [contact EXCEPT ![d] = Known(d)]
    /\ IF HasPendingRequest(d)
       THEN UNCHANGED <<notes, outbox, drawn, cuts>>
       ELSE \/ Cut /\ UNCHANGED <<notes, outbox, drawn>>
            \/ /\ Draw(1)
               /\ notes' = [notes EXCEPT ![d] = Save(d, RequestNote(d, Fresh(1), TRUE))]
               /\ \/ outbox' = [outbox EXCEPT ![d] = @ \cup {New(1, "request", d)}]
                     /\ UNCHANGED cuts
                  \/ Cut /\ UNCHANGED outbox
    /\ UNCHANGED <<tombstone, texts, read, mailbox, accepted, dismissed, history>>

\* open_contact of a verified contact, a click on it, or the return of the focus:
\* mark_selected_read.  The receipt is committed, then the rows are marked.
Look(d) ==
    /\ MarksRead(d)
    /\ Draw(1)
    /\ outbox' = [outbox EXCEPT ![d] = @ \cup {Receipt(d, 1)}]
    /\ seen' = seen \cup ({d} \X IdsOf(texts[d]))
    /\ \/ read' = [read EXCEPT ![d] = @ \cup IdsOf(Unread(d))] /\ UNCHANGED cuts
       \/ Cut /\ UNCHANGED read
    /\ UNCHANGED <<contact, tombstone, notes, texts, mailbox, accepted, dismissed, answered,
                   erased, wiped, dropped, removed>>

Response(d, n, r, verdict) ==
    [New(n, "response", d) EXCEPT !.about = {r}, !.verdict = verdict]

\* accept_chat_request and reject_selected_chat_request: the answer is committed,
\* then the notification.  To accept opens the conversation.
Answer(d, note, verdict) ==
    /\ note \in notes[d] /\ note.kind = "ChatRequest" /\ ~note.outgoing
    /\ contact' = IF verdict = "Accepted" THEN [contact EXCEPT ![d] = Known(d)] ELSE contact
    /\ \/ notes' = [notes EXCEPT ![d] = Save(d, ResponseNote(note.request, verdict))]
          /\ UNCHANGED cuts
       \/ Cut /\ UNCHANGED notes
    /\ answered' = IF cuts' = cuts THEN answered \cup {note.request} ELSE answered
    /\ IF verdict = "Accepted" /\ MarksRead(d)
       THEN /\ Draw(2)
            /\ outbox' = [outbox EXCEPT ![d] = @ \cup {Receipt(d, 1),
                                                       Response(d, 2, note.request, verdict)}]
            /\ read' = [read EXCEPT ![d] = @ \cup IdsOf(Unread(d))]
            /\ seen' = seen \cup ({d} \X IdsOf(texts[d]))
       ELSE /\ Draw(1)
            /\ outbox' = [outbox EXCEPT ![d] = @ \cup {Response(d, 1, note.request, verdict)}]
            /\ UNCHANGED <<read, seen>>
    /\ UNCHANGED <<tombstone, texts, mailbox, accepted, dismissed, erased, wiped, dropped, removed>>

\* Mutant of Verify: the tombstone stays.
VerifyBuried(d) ==
    /\ contact[d] # "none" /\ ~HasPendingRequest(d)
    /\ contact' = [contact EXCEPT ![d] = "verified"]
    /\ UNCHANGED <<tombstone, notes, texts, read, outbox, mailbox, accepted, drawn, cuts,
                   dismissed, history>>

\* verify_selected, LocalStore::verify_contact: the tombstone goes, and so does the
\* deletion that waits in the outbox; then, on its own, an accepted answer is completed.
Verify(d) ==
    /\ contact[d] # "none" /\ ~HasPendingRequest(d)
    /\ contact' = [contact EXCEPT ![d] = "verified"]
    /\ tombstone' = [tombstone EXCEPT ![d] = {}]
    /\ outbox' = [outbox EXCEPT ![d] = {m \in @ : m.id \notin IdsOf(tombstone[d])}]
    /\ erased' = {x \in erased : \A t \in tombstone[d] :
                                     ~(t.pending /\ x.by = d /\ x.id = t.id)}
    /\ LET Open == {n \in notes[d] : n.kind = "ChatResponse" /\ n.state = "Accepted"}
       IN  \/ /\ \E n \in Open :
                     notes' = [notes EXCEPT ![d] = Save(d, [n EXCEPT !.state = "Completed"])]
              /\ UNCHANGED cuts
           \/ Open = {} /\ UNCHANGED <<notes, cuts>>
           \/ Open # {} /\ Cut /\ UNCHANGED notes
    /\ UNCHANGED <<texts, read, mailbox, accepted, drawn, dismissed, seen, answered, wiped,
                   dropped, removed>>

\* App::send_text.  The user's own text is on his screen.
SendText(d) ==
    /\ contact[d] = "verified"
    /\ Draw(1)
    /\ texts' = [texts EXCEPT ![d] = @ \cup {New(1, "text", d)}]
    /\ outbox' = [outbox EXCEPT ![d] = @ \cup {New(1, "text", d)}]
    /\ UNCHANGED <<contact, tombstone, notes, read, mailbox, accepted, cuts, dismissed, history>>

HasOthers(d) == \E e \in Device \ {d} : Own(d, e)

\* Deletions of d that have been told to nobody: sync_pending_conversation_deletions.
Untold(d, stones, box) ==
    {[id |-> t.id, kind |-> "deletion", from |-> d, about |-> {}, verdict |-> ""] :
        t \in {t \in stones : t.pending /\ t.id \notin IdsOf(box)}}

\* confirm_delete, delete_conversation_everywhere: one transaction; the deletion
\* is told at once, if the client is connected and nothing goes wrong.
Delete(d) ==
    /\ contact[d] # "none"
    /\ Draw(1)
    /\ Erase(d, Fresh(1), TRUE)
    /\ erased' = IF \E t \in tombstone[d] : t.pending THEN erased
                 ELSE erased \cup {[id |-> Fresh(1), by |-> d, texts |-> IdsOf(texts[d])]}
    /\ LET kept == outbox[d] \ texts[d]
       IN  \/ outbox' = [outbox EXCEPT ![d] = kept]
           \/ HasOthers(d)
              /\ outbox' = [outbox EXCEPT ![d] = kept \cup Untold(d, tombstone'[d], kept)]
    /\ UNCHANGED <<mailbox, accepted, cuts, dismissed, seen, answered, dropped>>

\* service_step, or a reconnect: the deletion is told now.  Without another
\* device it counts as told.
TellDeletion(d) ==
    /\ Untold(d, tombstone[d], outbox[d]) # {}
    /\ IF HasOthers(d)
       THEN /\ outbox' = [outbox EXCEPT ![d] = @ \cup Untold(d, tombstone[d], outbox[d])]
            /\ UNCHANGED tombstone
       ELSE /\ tombstone' = [tombstone EXCEPT ![d] = {[t EXCEPT !.pending = FALSE] : t \in @}]
            /\ UNCHANGED outbox
    /\ UNCHANGED <<contact, notes, texts, read, mailbox, accepted, drawn, cuts, dismissed, history>>

\* confirm_delete of a notification: neither an answer nor a withdrawal.
DismissNote(d, n) ==
    /\ n \in notes[d]
    /\ dismissed < MaxDismissed /\ dismissed' = dismissed + 1
    /\ removed' = removed \cup {<<d, n.request>>}
    /\ notes' = [notes EXCEPT ![d] = @ \ {n}]
    /\ UNCHANGED <<contact, tombstone, texts, read, outbox, mailbox, accepted, drawn, cuts, seen,
                   answered, erased, wiped, dropped>>

----------------------------------------------------------------------------
(* The server, and what the client does with its answer *)

\* Db::store_envelopes: all mailboxes in one transaction, a repeated request adds
\* nothing.  Only for a deletion does it matter when the answer is worked through.
Accept(d, m) ==
    /\ m \in outbox[d] /\ m.id \notin accepted
    /\ accepted' = accepted \cup {m.id}
    /\ mailbox' = [e \in Device |-> IF e \in Recipients(m) THEN Append(mailbox[e], m)
                                    ELSE mailbox[e]]
    /\ outbox' = IF m.kind = "deletion" THEN outbox ELSE [outbox EXCEPT ![d] = @ \ {m}]
    /\ UNCHANGED <<tables, drawn, cuts, dismissed, history>>

\* complete_outbox.
Complete(d, m) ==
    /\ m \in outbox[d] /\ m.id \in accepted
    /\ outbox' = [outbox EXCEPT ![d] = @ \ {m}]
    /\ tombstone' = [tombstone EXCEPT ![d] =
                        {IF t.id = m.id THEN [t EXCEPT !.pending = FALSE] ELSE t : t \in @}]
    /\ UNCHANGED <<contact, notes, texts, read, mailbox, accepted, drawn, cuts, dismissed, history>>

----------------------------------------------------------------------------
(* handle_sync_batch: the oldest message of the mailbox *)

Drop(d) == mailbox' = [mailbox EXCEPT ![d] = Tail(@)]

\* The bundle of another account is looked up and kept for every envelope.
Meets(d, m) ==
    contact' = IF Inbound(d, m) THEN [contact EXCEPT ![d] = Known(d)] ELSE contact

Trusted(d) == contact[d] = "verified" /\ tombstone[d] = {}

\* commit_conversation_deletion: everything in one transaction.
ReceiveDeletion(d, m) ==
    /\ m.kind = "deletion"
    /\ Erase(d, m.id, FALSE)
    /\ Drop(d)
    /\ UNCHANGED <<outbox, accepted, drawn, cuts, dismissed, seen, answered, erased, dropped>>

\* A text of another device of the account, in a conversation deleted here.
IgnoreOldText(d, m) ==
    /\ m.kind = "text" /\ ~Inbound(d, m) /\ tombstone[d] # {}
    /\ Drop(d)
    /\ dropped' = dropped \cup {[id |-> m.id, at |-> d]}
    /\ UNCHANGED <<tables, outbox, accepted, drawn, cuts, dismissed, seen, answered, erased, wiped,
                   removed>>

\* Mutant of Quarantine: the text is not kept.
QuarantineNoticeOnly(d, m) ==
    /\ m.kind = "text" /\ Inbound(d, m) /\ ~Trusted(d)
    /\ Meets(d, m)
    /\ notes' = [notes EXCEPT ![d] = ReauthNotes(d)]
    /\ Drop(d)
    /\ UNCHANGED <<tombstone, texts, read, outbox, accepted, drawn, cuts, dismissed, history>>

\* commit_unverified_inbound: the text and one request per conversation.
Quarantine(d, m) ==
    /\ m.kind = "text" /\ Inbound(d, m) /\ ~Trusted(d)
    /\ Meets(d, m)
    /\ texts' = [texts EXCEPT ![d] = @ \cup {m}]
    /\ notes' = [notes EXCEPT ![d] = ReauthNotes(d)]
    /\ Drop(d)
    /\ UNCHANGED <<tombstone, read, outbox, accepted, drawn, cuts, dismissed, history>>

\* Mutant of SendsReceipt: neither focus nor selection is asked for.
SendsReceiptAlways(d, m, watching) == Inbound(d, m)

\* should_send_read_receipt.
SendsReceipt(d, m, watching) == watching /\ Inbound(d, m)

\* commit_inbound; a text that comes under the user's eyes is acknowledged as read
\* at once, and marked when the receipt could be sent.
ReceiveText(d, m) ==
    /\ m.kind = "text" /\ (Inbound(d, m) => Trusted(d)) /\ (~Inbound(d, m) => tombstone[d] = {})
    /\ texts' = [texts EXCEPT ![d] = @ \cup {m}]
    /\ \E watching \in BOOLEAN :
        /\ watching => contact[d] # "none"
        /\ seen' = IF watching THEN seen \cup {<<d, m.id>>} ELSE seen
        /\ IF SendsReceipt(d, m, watching)
           THEN /\ Draw(1)
                /\ outbox' = [outbox EXCEPT ![d] =
                                 @ \cup {[New(1, "read", d) EXCEPT !.about = {m.id}]}]
                /\ \/ read' = [read EXCEPT ![d] = @ \cup {m.id}] /\ UNCHANGED cuts
                   \/ Cut /\ UNCHANGED read
           ELSE UNCHANGED <<outbox, read, drawn, cuts>>
    /\ Drop(d)
    /\ UNCHANGED <<contact, tombstone, notes, accepted, dismissed, answered, erased, wiped,
                   dropped, removed>>

\* The status of texts sent to the reader.  The envelope is committed after it;
\* repeated, it changes nothing.
ReceiveRead(d, m) ==
    /\ m.kind = "read"
    /\ Meets(d, m)
    /\ read' = [read EXCEPT ![d] =
                   @ \cup (m.about \cap IdsOf({t \in texts[d] : ~Inbound(d, t)}))]
    /\ Drop(d)
    /\ UNCHANGED <<tombstone, notes, texts, outbox, accepted, drawn, cuts, dismissed, history>>

\* The notification is saved, the envelope committed after it.
ReceiveRequest(d, m) ==
    /\ m.kind = "request"
    /\ contact' = [contact EXCEPT ![d] = Known(d)]
    /\ notes' = [notes EXCEPT ![d] = Save(d, RequestNote(d, m.id, ~Inbound(d, m)))]
    /\ \/ Drop(d) /\ UNCHANGED cuts
       \/ Cut /\ UNCHANGED mailbox
    /\ UNCHANGED <<tombstone, texts, read, outbox, accepted, drawn, dismissed, history>>

\* A response to a request this device does not know makes the contact known.
ReceiveResponse(d, m) ==
    /\ m.kind = "response"
    /\ \E r \in m.about :
        /\ contact' = IF Inbound(d, m) \/ NoteOn(d, r) = {}
                      THEN [contact EXCEPT ![d] = Known(d)] ELSE contact
        /\ notes' = [notes EXCEPT ![d] = Save(d, ResponseNote(r, m.verdict))]
    /\ \/ Drop(d) /\ UNCHANGED cuts
       \/ Cut /\ UNCHANGED mailbox
    /\ UNCHANGED <<tombstone, texts, read, outbox, accepted, drawn, dismissed, history>>

Receive(d) ==
    /\ mailbox[d] # <<>>
    /\ LET m == Head(mailbox[d])
       IN  \/ ReceiveDeletion(d, m) \/ IgnoreOldText(d, m) \/ Quarantine(d, m)
           \/ ReceiveText(d, m) \/ ReceiveRead(d, m) \/ ReceiveRequest(d, m)
           \/ ReceiveResponse(d, m)

User(d) ==
    \/ Chat(d) \/ Look(d) \/ Verify(d) \/ SendText(d) \/ Delete(d)
    \/ \E n \in notes[d] : \/ DismissNote(d, n)
                           \/ \E verdict \in {"Accepted", "Rejected"} : Answer(d, n, verdict)

Next ==
    \E d \in Device :
        \/ User(d) \/ TellDeletion(d) \/ Receive(d)
        \/ \E m \in outbox[d] : Accept(d, m) \/ Complete(d, m)

Spec == Init /\ [][Next]_vars

----------------------------------------------------------------------------
(* Properties *)

\* The tables hold rows of the kinds the code writes, one notification per request
\* (save_notification) and one tombstone per conversation.
ConversationsTypeOK ==
    /\ contact \in [Device -> {"none", "unverified", "verified"}]
    /\ \A d \in Device :
        /\ tombstone[d] \subseteq [id : Ids, pending : BOOLEAN] /\ Cardinality(tombstone[d]) <= 1
        /\ notes[d] \subseteq Note
        /\ \A n1, n2 \in notes[d] : n1.request = n2.request => n1 = n2
        /\ texts[d] \subseteq Message /\ outbox[d] \subseteq Message
        /\ read[d] \subseteq IdsOf(texts[d])
        /\ \A i \in 1..Len(mailbox[d]) : mailbox[d][i] \in Message
    /\ accepted \subseteq Ids /\ drawn \in 0..MaxDrawn

\* After a deletion, by whichever device, the contact counts as verified only once
\* the user has compared the safety code again (README.md:301-303); sending, reading
\* and quarantine all go by that mark.
DeletedNeedsVerification ==
    \A d \in Device : tombstone[d] # {} => contact[d] # "verified"

OnItsWay(e, id) == \E i \in 1..Len(mailbox[e]) : mailbox[e][i].id = id

\* A deletion that was not withdrawn by a new verification, and not asked for while
\* an earlier one was still being told, is waiting to be told, on its way, or has
\* removed the texts the user deleted from every device of the account.
DeletionReaches ==
    \A x \in erased : \A e \in Device : Own(x.by, e) =>
        \/ \E t \in tombstone[x.by] : t.id = x.id /\ t.pending
        \/ OnItsWay(e, x.id)
        \/ IdsOf(texts[e]) \cap x.texts = {}

Quiet == \A d \in Device : outbox[d] = {} /\ mailbox[d] = <<>>

\* A request somebody has answered waits on no device of either account any more,
\* once everything has been worked through, unless the answering handler was cut off;
\* only where the user deleted the notification a late copy may bring it back
\* (README.md:305, 330).
AnsweredIsSettled ==
    Quiet => \A r \in answered \ {Reauth} :
        \A d \in Device : \A n \in NoteOn(d, r) : n.state = "Pending" => <<d, r>> \in removed

\* A text is shown as read only if a device of the recipient had it on the screen of
\* its user: selected, focused, and the contact verified (README.md:43, 307).
ReadWasSeen ==
    \A d \in Device : \A m \in texts[d] : (~Inbound(d, m) /\ m.id \in read[d]) =>
        \E e \in Device : ~Own(d, e) /\ <<e, m.id>> \in seen

\* All devices of the sender agree on which texts were read, once everything has been
\* worked through.
ReadersAgree ==
    Quiet => \A d, e \in Device : Own(d, e) =>
        \A m \in texts[d] \cap texts[e] : ~Inbound(d, m) => (m.id \in read[d] <=> m.id \in read[e])

\* A text the server has taken is with every recipient, or was taken away by a
\* deletion, or dropped as one of a deleted conversation; quarantine loses nothing.
TextsKept ==
    \A d \in Device : \A m \in texts[d] : (m.from = d /\ m.id \in accepted) =>
        \A e \in Recipients(m) :
            OnItsWay(e, m.id) \/ m \in texts[e] \cup wiped[e] \/ [id |-> m.id, at |-> e] \in dropped

\* Once a request has been answered, all devices of an account show the same answer:
\* "any one of the devices handles it, then the state of the notification on the
\* other devices is updated as well" (README.md:330).
AnswersAgree ==
    Quiet => \A r \in answered \ {Reauth} : \A d, e \in Device : Own(d, e) =>
        \A n1 \in NoteOn(d, r), n2 \in NoteOn(e, r) :
            "Pending" \notin {n1.state, n2.state} =>
                (n1.state = "Rejected" <=> n2.state = "Rejected")

=============================================================================
