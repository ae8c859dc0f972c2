------------------------------- MODULE Relay -------------------------------
(***************************************************************************)
(* The server's ciphertext store: crates/server/src/db.rs, the storage     *)
(* commands of admin.rs, and the triggers of migrations/0003.  Every       *)
(* action below is one SQLite transaction (SQLite serialises writers), so  *)
(* interleaving the actions is exactly what concurrent connection tasks    *)
(* and a concurrent administrator process can do to the database.          *)
(*                                                                         *)
(* A device is identified with its owner; the conversation id is a hash of *)
(* the two accounts and is modelled by the set of the two.  Times are      *)
(* abstracted: "older than the cutoff" is an arbitrary subset.             *)
(***************************************************************************)
EXTENDS Integers, FiniteSets, Functions

CONSTANTS
    Account, Device, MessageId, EnvelopeId, Ciphertext,
    Owner,          \* the account each device is registered under
    Size,           \* length in bytes of each ciphertext
    Batch,          \* the SendEnvelopes requests clients may submit
    MaxBatch,       \* entries per request, 16 in the code
    AccountLimit,   \* max_account_ciphertext_bytes
    TotalLimit,     \* max_total_ciphertext_bytes
    MaxCursor,      \* bound on the AUTOINCREMENT counter of envelopes
    MaxCrash,       \* bound on server crashes
    ForcePrune      \* may the operator prune without --delivered-only?

Entry == [id : EnvelopeId, to : Device, text : Ciphertext]

ASSUME OwnerAssumption == Owner \in [Device -> Account]
ASSUME SizeAssumption == Size \in [Ciphertext -> Nat]
ASSUME AccountAssumption == IsFiniteSet(Account)
ASSUME BatchAssumption ==
    \A b \in Batch : /\ b.logical \in MessageId
                     /\ b.from \in Device
                     /\ b.entries \subseteq Entry
                     /\ IsFiniteSet(b.entries)
ASSUME LimitAssumption ==
    /\ AccountLimit \in Nat /\ TotalLimit \in Nat
    /\ MaxBatch \in Nat /\ MaxCursor \in Nat /\ MaxCrash \in Nat
    /\ ForcePrune \in BOOLEAN

VARIABLES
    accountState,   \* accounts.state, or "deleted" once the row is gone
    deviceState,    \* devices.pending / devices.revoked, or "gone"
    cleaning,       \* revoked devices whose cleanup transaction is still to run
    messages,       \* table logical_messages
    envelopes,      \* table envelopes
    updates,        \* table delivery_updates
    usage,          \* table account_storage_usage
    lastCursor,     \* AUTOINCREMENT counter of envelopes
    lastUpdate,     \* AUTOINCREMENT counter of delivery_updates
    crashes         \* server crashes so far

roster == <<accountState, deviceState, cleaning>>
store == <<messages, envelopes, updates, usage, lastCursor, lastUpdate>>
vars == <<roster, store, crashes>>

----------------------------------------------------------------------------
(* Rows *)

Message == [id : MessageId, from : Device, peer : Account, delivered : BOOLEAN]
Envelope == [cursor : Nat, id : EnvelopeId, message : MessageId, from : Device,
             to : Device, text : Ciphertext, delivered : BOOLEAN]
Update == [cursor : Nat, account : Account, message : MessageId]

Octets(S) == UNION {{e.id} \X (1..Size[e.text]) : e \in S}
Bytes(S) == Cardinality(Octets(S))
SentBy(S, a) == {e \in S : Owner[e.from] = a}
Mailbox(d) == {e \in envelopes : e.to = d}
HasEnvelope(S, m) == \E e \in S : e.message = m
TotalUsage(u) == Cardinality(UNION {{a} \X (1..u[a]) : a \in Account})

\* Mutant of AfterDelete: the trigger neither filters by sender nor clamps.
AfterDeleteAnySender(a, gone) == usage[a] - Bytes(gone)

\* The delete trigger: MAX(0, ciphertext_bytes - length(OLD.ciphertext)).
AfterDelete(a, gone) ==
    LET left == usage[a] - Bytes(SentBy(gone, a)) IN IF left < 0 THEN 0 ELSE left

Init ==
    /\ accountState = [a \in Account |-> "active"]
    /\ deviceState \in [Device -> {"pending", "active"}]
    /\ cleaning = {}
    /\ messages = {} /\ envelopes = {} /\ updates = {}
    /\ usage = [a \in Account |-> 0]
    /\ lastCursor = 0 /\ lastUpdate = 0
    /\ crashes = 0

----------------------------------------------------------------------------
(* Db::store_envelopes *)

Peers(b) == {Owner[e.to] : e \in b.entries} \ {Owner[b.from]}
Peer(b) == IF Peers(b) = {} THEN Owner[b.from] ELSE CHOOSE p \in Peers(b) : TRUE

WellFormed(b) ==
    /\ b.entries # {} /\ Cardinality(b.entries) <= MaxBatch
    /\ Cardinality(Peers(b)) <= 1

MetadataConflict(b) ==
    \E m \in messages : m.id = b.logical /\ (m.from # b.from \/ m.peer # Peer(b))

ActiveDevice(d) == deviceState[d] = "active" /\ accountState[Owner[d]] = "active"
Deliverable(b) == {e \in b.entries : ActiveDevice(e.to)}

Unavailable(b) ==
    \/ Deliverable(b) = {}
    \/ /\ Peer(b) # Owner[b.from]
       /\ \A e \in Deliverable(b) : Owner[e.to] # Peer(b)

NewEntries(b) == {e \in Deliverable(b) : \A v \in envelopes : v.id # e.id}

TextConflict(b) ==
    \E e \in Deliverable(b), v \in envelopes : v.id = e.id /\ v.text # e.text
RowConflict(b) ==
    \E e \in Deliverable(b) :
        \/ \E f \in Deliverable(b) : f.id = e.id /\ f # e
        \/ \E v \in envelopes : /\ v.id = e.id
                                /\ <<v.message, v.from, v.to>> # <<b.logical, b.from, e.to>>

OverQuota(b) ==
    \/ usage[Owner[b.from]] + Bytes(NewEntries(b)) > AccountLimit
    \/ TotalUsage(usage) + Bytes(NewEntries(b)) > TotalLimit

\* The error code the sender sees (ws.rs public_error), or "accepted".
\* lowDisk: free_disk_bytes() is under the configured reserve.
StoreVerdict(b, lowDisk) ==
    IF ~WellFormed(b) THEN "request_rejected"
    ELSE IF lowDisk THEN "storage_pressure"
    ELSE IF accountState[Owner[b.from]] = "deleted" \/ accountState[Peer(b)] = "deleted"
         THEN "request_rejected"    \* foreign keys
    ELSE IF MetadataConflict(b) THEN "request_rejected"
    ELSE IF Unavailable(b) THEN "recipient_roster_changed"
    ELSE IF TextConflict(b) THEN "request_rejected"
    ELSE IF OverQuota(b) THEN "storage_quota_exceeded"
    ELSE IF RowConflict(b) THEN "request_rejected"
    ELSE "accepted"

InsertMessage(b) ==
    messages' = IF \E m \in messages : m.id = b.logical THEN messages
                ELSE messages \cup {[id |-> b.logical, from |-> b.from,
                                     peer |-> Peer(b), delivered |-> FALSE]}

Row(b, e, c) == [cursor |-> c, id |-> e.id, message |-> b.logical, from |-> b.from,
                 to |-> e.to, text |-> e.text, delivered |-> FALSE]

\* Mutant: INSERT OR REPLACE, so a resend is stored anew.
InsertEnvelopesReplacing(b) ==
    LET new == Deliverable(b)
        last == lastCursor + Cardinality(new)
    IN  /\ last <= MaxCursor
        /\ lastCursor' = last
        /\ \E place \in Injection(new, (lastCursor + 1)..last) :
              envelopes' = {v \in envelopes : \A e \in new : e.id # v.id}
                              \cup {Row(b, e, place[e]) : e \in new}
        /\ usage' = [usage EXCEPT ![Owner[b.from]] = @ + Bytes(NewEntries(b))]

InsertEnvelopes(b) ==
    LET new == NewEntries(b)
        last == lastCursor + Cardinality(new)
    IN  /\ last <= MaxCursor
        /\ lastCursor' = last
        /\ \E place \in Injection(new, (lastCursor + 1)..last) :
              envelopes' = envelopes \cup {Row(b, e, place[e]) : e \in new}
        /\ usage' = [usage EXCEPT ![Owner[b.from]] = @ + Bytes(new)]

\* A refused request rolls its transaction back, so only acceptance is a step.
StoreEnvelopes(b) ==
    /\ StoreVerdict(b, FALSE) = "accepted"
    /\ InsertMessage(b)
    /\ InsertEnvelopes(b)
    /\ UNCHANGED <<roster, updates, lastUpdate, crashes>>

----------------------------------------------------------------------------
(* Db::ack *)

\* Mutant: UNIQUE(account_id) instead of UNIQUE(account_id, logical_message_id).
RecordDeliveryPerAccount(a, m) ==
    IF \E u \in updates : u.account = a
    THEN UNCHANGED <<updates, lastUpdate>>
    ELSE /\ lastUpdate' = lastUpdate + 1
         /\ updates' = updates \cup {[cursor |-> lastUpdate + 1, account |-> a, message |-> m]}

RecordDelivery(a, m) ==
    IF \E u \in updates : u.account = a /\ u.message = m
    THEN UNCHANGED <<updates, lastUpdate>>
    ELSE /\ lastUpdate' = lastUpdate + 1
         /\ updates' = updates \cup {[cursor |-> lastUpdate + 1, account |-> a, message |-> m]}

Ack(d, id) ==
    \E e \in Mailbox(d) :
        /\ e.id = id
        /\ envelopes' = (envelopes \ {e}) \cup {[e EXCEPT !.delivered = TRUE]}
        /\ messages' = {IF m.id = e.message THEN [m EXCEPT !.delivered = TRUE] ELSE m :
                        m \in messages}
        /\ RecordDelivery(Owner[e.from], e.message)
        /\ UNCHANGED <<roster, usage, lastCursor, crashes>>

----------------------------------------------------------------------------
(* Removal: Db::cleanup_delivered_envelopes, Db::cleanup_revoked_device,   *)
(* admin::prune_conversation, admin::delete_user_records                   *)

\* Mutant: no delete trigger.
KeepOnlyNoTrigger(kept) == envelopes' = kept /\ UNCHANGED <<usage, lastCursor, lastUpdate>>

KeepOnly(kept) ==
    /\ envelopes' = kept
    /\ usage' = [a \in Account |-> AfterDelete(a, envelopes \ kept)]
    /\ UNCHANGED <<lastCursor, lastUpdate>>

DropOrphans(kept) ==
    /\ messages' = {m \in messages : HasEnvelope(kept, m.id)}
    /\ updates' = {u \in updates : HasEnvelope(kept, u.message)}

CleanupDelivered(old) ==
    /\ old # {} /\ old \subseteq {e \in envelopes : e.delivered}
    /\ KeepOnly(envelopes \ old)
    /\ DropOrphans(envelopes \ old)
    /\ UNCHANGED <<roster, crashes>>

CleanupRevoked(d) ==
    /\ d \in cleaning
    /\ KeepOnly(envelopes \ Mailbox(d))
    /\ DropOrphans(envelopes \ Mailbox(d))
    /\ cleaning' = cleaning \ {d}
    /\ UNCHANGED <<accountState, deviceState, crashes>>

Conversation(m) == {Owner[m.from], m.peer}
\* Mutant: logical_messages.delivered_at_ms decides, set by the first device's ack.
FullyDeliveredOnce(m) == m.delivered

FullyDelivered(m) == \A e \in envelopes : e.message = m.id => e.delivered

\* old: the messages accepted before the cutoff.
PruneConversation(conversation, old, deliveredOnly) ==
    LET candidates == {m \in old : Conversation(m) = conversation}
        selected == {m.id : m \in {n \in candidates : deliveredOnly => FullyDelivered(n)}}
        kept == {e \in envelopes : e.message \notin selected}
    IN  /\ selected # {}
        /\ updates' = {u \in updates : u.message \notin selected}
        /\ KeepOnly(kept)
        /\ messages' = messages \ {m \in candidates : ~HasEnvelope(kept, m.id)}
        /\ UNCHANGED <<roster, crashes>>

Involves(m, a) == Owner[m.from] = a \/ m.peer = a

DeleteUser(a) ==
    LET doomed == {m.id : m \in {n \in messages : Involves(n, a)}}
        kept == {e \in envelopes : /\ Owner[e.from] # a /\ Owner[e.to] # a
                                   /\ e.message \notin doomed}
    IN  /\ accountState[a] # "deleted"
        /\ accountState' = [accountState EXCEPT ![a] = "deleted"]
        /\ deviceState' = [d \in Device |-> IF Owner[d] = a THEN "gone" ELSE deviceState[d]]
        /\ updates' = {u \in updates : u.account # a /\ u.message \notin doomed}
        /\ envelopes' = kept
        \* ON DELETE CASCADE removes the usage row of the account itself.
        /\ usage' = [x \in Account |-> IF x = a THEN 0 ELSE AfterDelete(x, envelopes \ kept)]
        /\ messages' = {m \in messages : ~Involves(m, a)}
        /\ UNCHANGED <<cleaning, lastCursor, lastUpdate, crashes>>

----------------------------------------------------------------------------
(* Roster changes the store depends on *)

ActivateDevice(d) ==
    /\ deviceState[d] = "pending"
    /\ deviceState' = [deviceState EXCEPT ![d] = "active"]
    /\ UNCHANGED <<accountState, cleaning, store, crashes>>

\* Db::revoke_own_device, first statement; the cleanup is a second transaction.
RevokeOwnDevice(d) ==
    /\ deviceState[d] \in {"pending", "active"}
    /\ deviceState' = [deviceState EXCEPT ![d] = "revoked"]
    /\ cleaning' = cleaning \cup {d}
    /\ UNCHANGED <<accountState, store, crashes>>

\* admin::revoke_device does not look at the flag, so it also repeats a cleanup.
AdminRevokeDevice(d) ==
    /\ deviceState[d] # "gone"
    /\ deviceState' = [deviceState EXCEPT ![d] = "revoked"]
    /\ cleaning' = cleaning \cup {d}
    /\ UNCHANGED <<accountState, store, crashes>>

\* Mutant: the devices to clean are read after they were marked revoked.
ResetDevicesLateRead(a) ==
    /\ accountState[a] # "deleted"
    /\ deviceState' = [d \in Device |->
                          IF Owner[d] = a /\ deviceState[d] # "gone" THEN "revoked"
                          ELSE deviceState[d]]
    /\ UNCHANGED <<accountState, cleaning, store, crashes>>

ResetDevices(a) ==
    LET own == {d \in Device : Owner[d] = a /\ deviceState[d] # "gone"}
    IN  /\ accountState[a] # "deleted"
        /\ deviceState' = [d \in Device |-> IF d \in own THEN "revoked" ELSE deviceState[d]]
        /\ cleaning' = cleaning \cup {d \in own : deviceState[d] # "revoked"}
        /\ UNCHANGED <<accountState, store, crashes>>

SetUserState(a, state) ==
    /\ accountState[a] # "deleted"
    /\ accountState' = [accountState EXCEPT ![a] = state]
    /\ UNCHANGED <<deviceState, cleaning, store, crashes>>

\* The server or the administrator's process dies between its two transactions:
\* the cleanups it still had to run are lost.
Crash(lost) ==
    /\ crashes < MaxCrash
    /\ lost # {} /\ lost \subseteq cleaning
    /\ crashes' = crashes + 1
    /\ cleaning' = cleaning \ lost
    /\ UNCHANGED <<accountState, deviceState, store>>

Conversations == {{a, p} : a \in Account, p \in Account}

Next ==
    \/ \E b \in Batch : StoreEnvelopes(b)
    \/ \E d \in Device, id \in EnvelopeId : Ack(d, id)
    \/ \E old \in SUBSET envelopes : CleanupDelivered(old)
    \/ \E d \in Device : CleanupRevoked(d)
    \/ \E c \in Conversations, old \in SUBSET messages : PruneConversation(c, old, TRUE)
    \/ \E c \in Conversations, old \in SUBSET messages :
          ForcePrune /\ PruneConversation(c, old, FALSE)
    \/ \E a \in Account : DeleteUser(a)
    \/ \E d \in Device : ActivateDevice(d)
    \/ \E d \in Device : RevokeOwnDevice(d)
    \/ \E d \in Device : AdminRevokeDevice(d)
    \/ \E a \in Account : ResetDevices(a)
    \/ \E a \in Account, state \in {"active", "disabled"} : SetUserState(a, state)
    \/ \E lost \in SUBSET cleaning : Crash(lost)

Spec == Init /\ [][Next]_vars

\* A revocation in progress runs its second transaction unless the process dies.
FairSpec == Spec /\ \A d \in Device : WF_vars(CleanupRevoked(d))
----------------------------------------------------------------------------
(* Properties *)

\* Every table holds rows of its type, and the finite store stays finite.
TypeOK ==
    /\ accountState \in [Account -> {"active", "disabled", "deleted"}]
    /\ deviceState \in [Device -> {"pending", "active", "revoked", "gone"}]
    /\ cleaning \subseteq Device
    /\ messages \subseteq Message
    /\ envelopes \subseteq Envelope /\ IsFiniteSet(envelopes)
    /\ updates \subseteq Update
    /\ usage \in [Account -> Nat]
    /\ lastCursor \in Nat /\ lastUpdate \in Nat /\ crashes \in Nat

\* store_envelopes' re-reads keep ids and cursors unique, and no cursor was
\* ever issued above the AUTOINCREMENT counter.
UniqueRows ==
    /\ \A e, f \in envelopes : (e.id = f.id \/ e.cursor = f.cursor) => e = f
    /\ \A m, n \in messages : m.id = n.id => m = n
    /\ \A e \in envelopes : e.cursor <= lastCursor

\* A stored envelope and its logical message agree on who sent it and between
\* whom, however resends, conflicting resends and removals interleave; and no
\* removal leaves a logical message without an envelope.
EnvelopeMatchesMessage ==
    /\ \A e \in envelopes : \E m \in messages :
          m.id = e.message /\ m.from = e.from /\ Owner[e.to] \in Conversation(m)
    /\ \A m \in messages : HasEnvelope(envelopes, m.id)

\* "Delivered" is recorded at three places (envelope, logical message, update
\* for the sender); no interleaving of acks and removals lets them disagree.
DeliveryAgreement ==
    /\ \A e \in envelopes, m \in messages :
          e.message = m.id /\ e.delivered => m.delivered
    /\ \A m \in messages :
          m.delivered <=> \E u \in updates : u.message = m.id
    /\ \A u \in updates : \E m \in messages :
          m.id = u.message /\ u.account = Owner[m.from]

\* The usage counter that the triggers maintain is exactly what is stored
\* (so the MAX(0, _) clamp never hides a drift) ...
UsageExact == \A a \in Account : usage[a] = Bytes(SentBy(envelopes, a))

\* ... and neither quota is ever exceeded (config.rs storage limits).
QuotaRespected ==
    /\ \A a \in Account : usage[a] <= AccountLimit
    /\ TotalUsage(usage) <= TotalLimit

\* A resend, a conflicting request or an ack never rewrites a stored envelope:
\* it keeps its cursor, route and ciphertext, and delivered is never undone.
EnvelopeImmutable ==
    [][\A e \in envelopes, f \in envelopes' :
          e.id = f.id => f \in {e, [e EXCEPT !.delivered = TRUE]}]_vars

\* A cursor is never reused, not even after the newest envelope was deleted:
\* a stored cursor would otherwise hide a new message from its device.
CursorsFresh ==
    [][/\ lastCursor' >= lastCursor
       /\ \A f \in envelopes' :
          (\A e \in envelopes : e.cursor # f.cursor) => f.cursor > lastCursor]_vars

\* README: undelivered ciphertext is kept until delivered, its device is revoked,
\* an account of the conversation is deleted, or the operator forces a prune.
UndeliveredKept ==
    [][\A e \in envelopes :
          \/ e.delivered \/ ForcePrune
          \/ \E f \in envelopes' : f.id = e.id
          \/ deviceState[e.to] \in {"revoked", "gone"}
          \/ \E a \in Account : accountState[a] # "deleted" /\ accountState'[a] = "deleted"]_vars

\* A request racing a revocation cannot put mail back into a mailbox that the
\* cleanup of the revoked device has already emptied.
PurgedStaysEmpty ==
    [][\A d \in Device :
          deviceState[d] \in {"revoked", "gone"} /\ Mailbox(d) = {} => Mailbox(d)' = {}]_vars

\* README:279: the mail waiting for a revoked device is removed from the server.
RevokedMailboxPurged ==
    \A d \in Device : (deviceState[d] = "revoked") ~> (Mailbox(d) = {})
----------------------------------------------------------------------------
(* The abstract service *)

Projection(e) == [cursor |-> e.cursor, id |-> e.id, to |-> e.to, delivered |-> e.delivered]
Route(e) == [id |-> e.id, to |-> e.to]
Offers == UNION {SUBSET {Route(e) : e \in b.entries} : b \in Batch}

M == INSTANCE Mailboxes WITH
        rows <- {Projection(e) : e \in envelopes},
        last <- lastCursor,
        Offer <- Offers

\* Forget who sent an envelope, with what text, in which message: storing,
\* acknowledging, both cleanups, pruning and deleting an account are then steps
\* of the mailbox service the delivery protocol is built on.
MailboxService == M!Service
=============================================================================
