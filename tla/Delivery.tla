------------------------------ MODULE Delivery ------------------------------
(***************************************************************************)
(* How an accepted envelope reaches its device: the push a sender's        *)
(* connection task does after its transaction (ws.rs SendEnvelopes), the   *)
(* batch a device asks for by cursor (ws.rs SyncRequest, db.rs sync), and  *)
(* the client that works through both in one event loop (app.rs            *)
(* handle_server_event, handle_sync_batch), commits each envelope together *)
(* with its cursor and acknowledges it afterwards.                         *)
(*                                                                         *)
(* The store is the mailbox service.  A request holds at most one envelope *)
(* per device, so pushes to different devices may be taken in any order.   *)
(* Batches list rows by increasing cursor (ORDER BY) and are kept as sets. *)
(***************************************************************************)
EXTENDS Mailboxes, Sequences

CONSTANTS
    Task,           \* connection tasks of senders
    Request,        \* ids of sync requests, fresh uuids in the code; as many may be open
    PageSize,       \* rows per sync reply, 100 in the code
    MaxCursor,      \* bound on the AUTOINCREMENT counter
    Faults,         \* what may go wrong
    Budget          \* and how often altogether

AnyFault == {"resend", "drop", "crash", "restart", "lookup", "refusal", "cleanup"}

ASSUME RouteAssumption ==
    \A o, p \in Offer : \A e \in o, f \in p : e.id = f.id => e = f
ASSUME BoundAssumption ==
    PageSize \in Nat \ {0} /\ MaxCursor \in Nat /\ Faults \subseteq AnyFault /\ Budget \in Nat

VARIABLES
    pushing,    \* per task: ids of its accepted request it has still to push
    link,       \* per device: "off", "joining" (registered, not yet told), "on", or
                \* "lost" (over, but the client has not come to connection_closed)
    up,         \* frames on their way to the server: sync requests and acks
    reply,      \* the sync reply computed but not yet queued, at most one
    down,       \* batches on their way to the client's event loop
    cursor,     \* client.db: sync_state.envelope_cursor
    imported,   \* client.db: envelopes decrypted (ratchet advanced, body saved)
    batch,      \* the batch the client is working through
    owed,       \* the envelope committed but not yet acknowledged
    asked,      \* the sync requests in background_requests, each with its deadline
    syncing,    \* sync_in_flight
    whole,      \* history: a complete sync of this connection was answered and
                \* nothing was abandoned since
    budget      \* faults left

server == <<pushing, link, up, reply>>
requests == <<asked, syncing>>
client == <<cursor, imported, batch, owed, requests>>
vars == <<mailboxes, server, down, client, whole, budget>>

Spend(f) == f \in Faults /\ budget > 0 /\ budget' = budget - 1

Item(r) == [cursor |-> r.cursor, id |-> r.id]
\* A batch answers the request with its frame id; a live push has none.
Batch(answers, S) == [answers |-> answers, rows |-> {Item(r) : r \in S}]
Sync(q, after) == [kind |-> "sync", request |-> q, after |-> after]
AckOf(id) == [kind |-> "ack", id |-> id]

Idle(d) == batch[d].rows = {} /\ owed[d] = {}
\* The row handle_sync_batch is at.
Least(d) == CHOOSE r \in batch[d].rows : \A q \in batch[d].rows : r.cursor <= q.cursor
Rest(d) == [batch EXCEPT ![d].rows = @ \ {Least(d)}]
Abandon(d) == [batch EXCEPT ![d].rows = {}]

Init ==
    /\ Empty
    /\ pushing = [t \in Task |-> {}]
    /\ link = [d \in Device |-> "off"]
    /\ up = [d \in Device |-> <<>>]
    /\ reply = [d \in Device |-> <<>>]
    /\ down = [d \in Device |-> <<>>]
    /\ cursor = [d \in Device |-> 0]
    /\ imported = [d \in Device |-> {}]
    /\ batch = [d \in Device |-> Batch({}, {})]
    /\ owed = [d \in Device |-> {}]
    /\ asked = [d \in Device |-> {}]
    /\ syncing = [d \in Device |-> FALSE]
    /\ whole = [d \in Device |-> FALSE]
    /\ budget = Budget

----------------------------------------------------------------------------
(* A sender's connection task *)

\* The transaction of SendEnvelopes; a resend of a stored request adds nothing
\* but is pushed again.
Send(t, o) ==
    LET new == {e \in o : ~Stored(e.id)}
    IN  /\ pushing[t] = {} /\ o # {}
        /\ last + Cardinality(new) <= MaxCursor
        /\ Accept(new)
        /\ IF new = {} THEN Spend("resend") ELSE UNCHANGED budget
        /\ pushing' = [pushing EXCEPT ![t] = {e.id : e \in o}]
        /\ UNCHANGED <<link, up, reply, down, client, whole>>

\* Mutant of Push: a frame is dropped when the device's task is busy (try_send).
PushUnlessBusy(t, id) ==
    LET found == {r \in rows : r.id = id}
    IN  /\ id \in pushing[t]
        /\ pushing' = [pushing EXCEPT ![t] = @ \ {id}]
        /\ down' = [d \in Device |->
                      IF link[d] = "on" /\ reply[d] = <<>> /\ \E r \in found : r.to = d
                      THEN Append(down[d], Batch({}, found)) ELSE down[d]]
        /\ UNCHANGED <<mailboxes, link, up, reply, client, whole, budget>>

\* The task reads the row again; a device that is not connected is passed over.
Push(t, id) ==
    LET found == {r \in rows : r.id = id}
    IN  /\ id \in pushing[t]
        /\ pushing' = [pushing EXCEPT ![t] = @ \ {id}]
        /\ down' = [d \in Device |->
                      IF link[d] = "on" /\ \E r \in found : r.to = d
                      THEN Append(down[d], Batch({}, found)) ELSE down[d]]
        /\ UNCHANGED <<mailboxes, link, up, reply, client, whole, budget>>

----------------------------------------------------------------------------
(* The device's own connection task, one frame at a time *)

Later(d, after) == {r \in Mailbox(d) : r.cursor > after}
\* Mutant of FirstPage: the newest rows first.
LatestPage(S) == {r \in S : Cardinality({q \in S : q.cursor > r.cursor}) < PageSize}
FirstPage(S) == {r \in S : Cardinality({q \in S : q.cursor < r.cursor}) < PageSize}

Serves(d, kind) ==
    /\ link[d] = "on" /\ reply[d] = <<>>
    /\ up[d] # <<>> /\ Head(up[d]).kind = kind
    /\ up' = [up EXCEPT ![d] = Tail(@)]

ServeSync(d) ==
    /\ Serves(d, "sync")
    /\ LET later == Later(d, Head(up[d]).after)
           answer == Batch({Head(up[d]).request}, FirstPage(later))
       IN  /\ reply' = [reply EXCEPT ![d] = <<answer>>]
           /\ whole' = [whole EXCEPT ![d] = @ \/ FirstPage(later) = later]
    /\ UNCHANGED <<mailboxes, pushing, link, down, client, budget>>

QueueReply(d) ==
    /\ reply[d] # <<>>
    /\ down' = [down EXCEPT ![d] = @ \o reply[d]]
    /\ reply' = [reply EXCEPT ![d] = <<>>]
    /\ UNCHANGED <<mailboxes, pushing, link, up, client, whole, budget>>

ServeAck(d) ==
    /\ Serves(d, "ack")
    /\ LET id == Head(up[d]).id
       IN  IF \E r \in Mailbox(d) : r.id = id THEN Confirm(d, id) ELSE UNCHANGED mailboxes
    /\ UNCHANGED <<pushing, link, reply, down, client, whole, budget>>

\* Mutant of Cleanup: by age alone.
CleanupByAge(r) ==
    /\ Spend("cleanup")
    /\ Discard({r})
    /\ UNCHANGED <<server, down, client, whole>>

\* cleanup_delivered_envelopes, for a row older than the retention period.
Cleanup(r) ==
    /\ r.delivered
    /\ Spend("cleanup")
    /\ Discard({r})
    /\ UNCHANGED <<server, down, client, whole>>

----------------------------------------------------------------------------
(* The client's event loop *)

\* The flag falls with the answer of the request that is open, or when none is: the late
\* answer of an expired request leaves the next one alone.
TakeBatch(d) ==
    /\ Idle(d) /\ down[d] # <<>>
    /\ batch' = [batch EXCEPT ![d] = Head(down[d])]
    /\ down' = [down EXCEPT ![d] = Tail(@)]
    /\ LET left == asked[d] \ Head(down[d]).answers
       IN  /\ asked' = [asked EXCEPT ![d] = left]
           /\ syncing' = [syncing EXCEPT ![d] = @ /\ left = asked[d] /\ left # {}]
    /\ UNCHANGED <<mailboxes, server, cursor, imported, owed, whole, budget>>

At(d) == batch[d].rows # {} /\ owed[d] = {}

SkipOld(d) ==
    /\ At(d) /\ Least(d).cursor <= cursor[d]
    /\ batch' = Rest(d)
    /\ UNCHANGED <<mailboxes, server, down, cursor, imported, owed, requests, whole, budget>>

\* Mutant of Import: the envelope is acknowledged before it is saved.
ImportLater(d) ==
    /\ At(d) /\ Least(d).cursor > cursor[d]
    /\ Least(d).id \notin imported[d]
    /\ owed' = [owed EXCEPT ![d] = {Least(d).id}]
    /\ UNCHANGED <<mailboxes, server, down, cursor, imported, batch, requests, whole, budget>>

\* commit_inbound, commit_control, ...: one transaction.
Import(d) ==
    /\ At(d) /\ Least(d).cursor > cursor[d]
    /\ Least(d).id \notin imported[d]
    /\ cursor' = [cursor EXCEPT ![d] = Least(d).cursor]
    /\ imported' = [imported EXCEPT ![d] = @ \cup {Least(d).id}]
    /\ owed' = [owed EXCEPT ![d] = {Least(d).id}]
    /\ batch' = Rest(d)
    /\ UNCHANGED <<mailboxes, server, down, requests, whole, budget>>

\* Mutant of Acknowledge: only live pushes are acknowledged.
AcknowledgePushed(d) ==
    /\ owed[d] # {}
    /\ owed' = [owed EXCEPT ![d] = {}]
    /\ IF link[d] = "on" /\ batch[d].answers = {}
       THEN \E id \in owed[d] : up' = [up EXCEPT ![d] = Append(@, AckOf(id))]
       ELSE UNCHANGED up
    /\ UNCHANGED <<mailboxes, pushing, link, reply, down, cursor, imported, batch, requests,
                   whole, budget>>

\* rpc.notify(AckEnvelope): without a connection the frame goes nowhere, and if
\* the writer is already gone the error abandons the batch.
Acknowledge(d) ==
    /\ owed[d] # {}
    /\ owed' = [owed EXCEPT ![d] = {}]
    /\ IF link[d] = "on"
       THEN /\ \E id \in owed[d] : up' = [up EXCEPT ![d] = Append(@, AckOf(id))]
            /\ UNCHANGED batch
       ELSE batch' \in {batch, Abandon(d)} /\ UNCHANGED up
    /\ UNCHANGED <<mailboxes, pushing, link, reply, down, cursor, imported, requests,
                   whole, budget>>

\* The envelope's one-time message key is gone: decrypt fails.
RejectReplay(d) ==
    /\ At(d) /\ Least(d).cursor > cursor[d]
    /\ Least(d).id \in imported[d]
    /\ batch' = Abandon(d)
    /\ whole' = [whole EXCEPT ![d] = FALSE]
    /\ UNCHANGED <<mailboxes, server, down, cursor, imported, owed, requests, budget>>

\* lookup_bundle times out, or cannot be asked at all without a connection.
LookupFails(d) ==
    /\ At(d) /\ Least(d).cursor > cursor[d]
    /\ IF link[d] = "on" THEN Spend("lookup") ELSE UNCHANGED budget
    /\ batch' = Abandon(d)
    /\ whole' = [whole EXCEPT ![d] = FALSE]
    /\ UNCHANGED <<mailboxes, server, down, cursor, imported, owed, requests>>

Open(d) == {f.request : f \in {g \in Range(up[d]) : g.kind = "sync"}}
              \cup UNION {b.answers : b \in Range(reply[d]) \cup Range(down[d])}
              \cup asked[d]
\* Uuid::new_v4
NewRequest(d) == CHOOSE q \in Request : q \notin Open(d)

\* App::sync: a request is registered with its deadline and the flag set, unless one is
\* under way.  On a connection that is lost its frame goes nowhere.
AskSync(d) ==
    /\ ~syncing[d] /\ ~(Request \subseteq Open(d))
    /\ up' = IF link[d] = "lost" THEN up
             ELSE [up EXCEPT ![d] = Append(@, Sync(NewRequest(d), cursor[d]))]
    /\ asked' = [asked EXCEPT ![d] = @ \cup {NewRequest(d)}]
    /\ syncing' = [syncing EXCEPT ![d] = TRUE]

\* The user's /sync, also run after pairing; refused by a full channel it changes nothing.
RequestSync(d) ==
    /\ link[d] \in {"on", "lost"} /\ Idle(d)
    /\ AskSync(d)
    /\ UNCHANGED <<mailboxes, pushing, link, reply, down, cursor, imported, batch, owed,
                   whole, budget>>

\* Mutant of SyncExpires: deadlines are looked at only while there is no connection.
SyncExpiresOffline(d) ==
    /\ Idle(d) /\ asked[d] # {} /\ link[d] = "off"
    /\ asked' = [asked EXCEPT ![d] = {}]
    /\ syncing' = [syncing EXCEPT ![d] = FALSE]
    /\ UNCHANGED <<mailboxes, server, down, cursor, imported, batch, owed, whole, budget>>

\* expire_background_requests, once a second with or without a connection: the deadline
\* of 20 s is behind the request.
SyncExpires(d) ==
    /\ Idle(d) /\ asked[d] # {}
    /\ asked' = [asked EXCEPT ![d] = {}]
    /\ syncing' = [syncing EXCEPT ![d] = FALSE]
    /\ UNCHANGED <<mailboxes, server, down, cursor, imported, batch, owed, whole, budget>>

----------------------------------------------------------------------------
(* Connections and crashes *)

\* The server registers the connection before it answers Authenticated; what is
\* pushed in between is discarded by the authentication exchange.
Register(d) ==
    /\ link[d] = "off" /\ Idle(d)
    /\ link' = [link EXCEPT ![d] = "joining"]
    /\ UNCHANGED <<mailboxes, pushing, up, reply, down, client, whole, budget>>

\* handle_reconnect_result and App::new: connected, and the first request is a sync.  Its
\* result is dropped: a channel full of the resent outbox refuses it, and a flag that is
\* still set from before keeps it back.
Authenticated(d) ==
    /\ link[d] = "joining"
    /\ link' = [link EXCEPT ![d] = "on"]
    /\ AskSync(d) \/ UNCHANGED <<up, requests>>
    /\ whole' = [whole EXCEPT ![d] = FALSE]
    /\ UNCHANGED <<mailboxes, pushing, reply, down, cursor, imported, batch, owed, budget>>

\* The connections of a set of devices end: what is on its way up is lost.
Hangup(S) ==
    /\ up' = [d \in Device |-> IF d \in S THEN <<>> ELSE up[d]]
    /\ reply' = [d \in Device |-> IF d \in S THEN <<>> ELSE reply[d]]

\* A client that was connected learns of the end behind the batches on their way.
Broken(S) ==
    link' = [d \in Device |->
               IF d \notin S THEN link[d] ELSE IF link[d] = "on" THEN "lost"
               ELSE IF link[d] = "joining" THEN "off" ELSE link[d]]

\* Of what is on its way down the client still receives some prefix.
Received(d, n) == down' = [down EXCEPT ![d] = SubSeq(@, 1, n)]

Disconnect(d) ==
    /\ link[d] \in {"joining", "on"}
    /\ Spend("drop")
    /\ Hangup({d}) /\ Broken({d})
    /\ \E n \in 0..Len(down[d]) : Received(d, n)
    /\ UNCHANGED <<mailboxes, pushing, client, whole>>

\* The event connection_closed forgets what the connection was asked.
Closed(d) ==
    /\ link[d] = "lost" /\ Idle(d) /\ down[d] = <<>>
    /\ link' = [link EXCEPT ![d] = "off"]
    /\ asked' = [asked EXCEPT ![d] = {}]
    /\ syncing' = [syncing EXCEPT ![d] = FALSE]
    /\ UNCHANGED <<mailboxes, pushing, up, reply, down, cursor, imported, batch, owed, whole,
                   budget>>

\* send_text cannot hand over its frame, since the writer has ended or its channel is full:
\* the client reconnects, and with the old events it drops connection_closed.
Refused(d) ==
    /\ link[d] \in {"on", "lost"} /\ Idle(d)
    /\ Spend("refusal")
    /\ Hangup({d}) /\ Received(d, 0)
    /\ link' = [link EXCEPT ![d] = "off"]
    /\ UNCHANGED <<mailboxes, pushing, client, whole>>

ServerRestart ==
    /\ Spend("restart")
    /\ Hangup(Device) /\ Broken(Device)
    /\ pushing' = [t \in Task |-> {}]
    /\ UNCHANGED <<mailboxes, down, client, whole>>

ClientCrash(d) ==
    /\ Spend("crash")
    /\ Hangup({d}) /\ Received(d, 0)
    /\ link' = [link EXCEPT ![d] = "off"]
    /\ batch' = Abandon(d)
    /\ owed' = [owed EXCEPT ![d] = {}]
    /\ asked' = [asked EXCEPT ![d] = {}]
    /\ syncing' = [syncing EXCEPT ![d] = FALSE]
    /\ UNCHANGED <<mailboxes, pushing, cursor, imported, whole>>

Deliver(d) ==
    \/ ServeSync(d)
    \/ QueueReply(d)
    \/ ServeAck(d)
    \/ TakeBatch(d)
    \/ SkipOld(d)
    \/ Import(d)
    \/ Acknowledge(d)
    \/ RejectReplay(d)
    \/ Register(d)
    \/ Authenticated(d)
    \/ Closed(d)

Next ==
    \/ \E t \in Task, o \in Offer : Send(t, o)
    \/ \E t \in Task, id \in EnvelopeId : Push(t, id)
    \/ \E d \in Device : Deliver(d)
    \/ \E d \in Device : RequestSync(d)
    \/ \E d \in Device : SyncExpires(d)
    \/ \E d \in Device : LookupFails(d)
    \/ \E d \in Device : Disconnect(d)
    \/ \E d \in Device : Refused(d)
    \/ \E d \in Device : ClientCrash(d)
    \/ ServerRestart
    \/ \E r \in rows : Cleanup(r)

Spec == Init /\ [][Next]_vars

\* The server's tasks run, the event loop polls its channel and its clock, and a client
\* that is not connected reconnects or is started again.
FairSpec ==
    /\ Spec
    /\ \A t \in Task, id \in EnvelopeId : WF_vars(Push(t, id))
    /\ \A d \in Device :
          /\ WF_vars(ServeSync(d)) /\ WF_vars(QueueReply(d)) /\ WF_vars(ServeAck(d))
          /\ WF_vars(TakeBatch(d)) /\ WF_vars(SkipOld(d)) /\ WF_vars(Import(d))
          /\ WF_vars(Acknowledge(d)) /\ WF_vars(RejectReplay(d))
          /\ WF_vars(Register(d)) /\ WF_vars(Authenticated(d)) /\ WF_vars(Closed(d))
          /\ WF_vars(SyncExpires(d))

\* A user who enters /sync again and again while the client can ask.
UserSpec == FairSpec /\ \A d \in Device : WF_vars(RequestSync(d))

----------------------------------------------------------------------------
(* Properties *)

Batches == [answers : SUBSET Request, rows : SUBSET [cursor : 1..MaxCursor, id : EnvelopeId]]
Frames == [kind : {"sync"}, request : Request, after : 0..MaxCursor]
            \cup [kind : {"ack"}, id : EnvelopeId]
Queue(f, S) == \A d \in Device : \A i \in DOMAIN f[d] : f[d][i] \in S
Singly(S) == \A x, y \in S : x = y

\* Types, and the shape of the client's position in a batch: at most one envelope is
\* committed and unacknowledged, and it is one the client has; sync_in_flight is set just
\* as long as a sync request with a deadline is registered.
DeliveryTypeOK ==
    /\ rows \subseteq Envelope /\ last \in 0..MaxCursor
    /\ pushing \in [Task -> SUBSET EnvelopeId]
    /\ link \in [Device -> {"off", "joining", "on", "lost"}]
    /\ Queue(up, Frames) /\ Queue(reply, Batches) /\ Queue(down, Batches)
    /\ cursor \in [Device -> 0..MaxCursor]
    /\ imported \in [Device -> SUBSET EnvelopeId]
    /\ batch \in [Device -> Batches]
    /\ \A d \in Device : Singly(owed[d]) /\ owed[d] \subseteq imported[d]
    /\ \A d \in Device : Singly(asked[d]) /\ asked[d] \subseteq Request
    /\ syncing = [d \in Device |-> asked[d] # {}] /\ whole \in [Device -> BOOLEAN]
    /\ budget \in 0..Budget

\* The server takes an envelope for delivered only when the device has saved it:
\* the acknowledgement follows commit_inbound, whatever is lost or crashes.
DeliveredImported == \A r \in rows : r.delivered => r.id \in imported[r.to]

\* The rows on their way to the device or about to be pushed.
Coming(d) ==
    {i.id : i \in UNION {b.rows : b \in {batch[d]} \cup Range(down[d]) \cup Range(reply[d])}}
        \cup UNION Range(pushing)

\* Once a complete sync of the connection was answered, pushes close every gap:
\* what is in the mailbox beyond the cursor is on its way to the client.
NoGap ==
    \A d \in Device : link[d] = "on" /\ whole[d] =>
        \A r \in Mailbox(d) : r.cursor <= cursor[d] \/ r.id \in Coming(d)

Passed(d) == {r \in Mailbox(d) : r.cursor \in (cursor[d] + 1)..cursor'[d]}

\* Working through a sync reply skips no row of the mailbox: the cursor passes
\* exactly the envelope that is imported with it (ORDER BY cursor, one by one).
SyncSkipsNothing ==
    [][\A d \in Device : batch[d].answers # {} =>
          \A r \in Passed(d) : r.id \in imported'[d]]_vars

\* "Offline messages, automatic catch-up": the cursor passes an envelope only
\* when the device has it, whichever batch it came in (app.rs 4722).
NothingSkipped ==
    [][\A d \in Device : \A r \in Passed(d) : r.id \in imported'[d]]_vars

\* An envelope the device has imported is never ahead of its cursor again, so it
\* is not delivered a second time (its Olm message key is used up).
NoReplay == \A r \in rows : r.id \in imported[r.to] => r.cursor <= cursor[r.to]

Waiting(d, id) == \E r \in Mailbox(d) : r.id = id /\ r.cursor > cursor[d]

\* Whoever keeps entering /sync gets every stored envelope worked through, over lost
\* connections, crashes of both sides, a first sync that was refused or kept back by a
\* flag left behind, and answers that come after their request has expired; unless an
\* envelope comes a second time: that one cannot be decrypted, and with a page full of
\* such the device gets no further.
CatchesUp ==
    []NoReplay => \A d \in Device, id \in EnvelopeId : Waiting(d, id) ~> ~Waiting(d, id)

Unconfirmed(d, id) ==
    id \in imported[d] /\ \E r \in Mailbox(d) : r.id = id /\ ~r.delivered

\* What the device has just saved the server eventually counts as delivered, or else the
\* connection is lost on the way: only then does the sender see it delivered and does
\* the retention period end.
ImportedIsConfirmed ==
    \A d \in Device, id \in EnvelopeId :
        id \in owed[d] ~> ~Unconfirmed(d, id) \/ link[d] # "on"

Held == {[id |-> r.id, to |-> r.to] : r \in rows}
H == INSTANCE Handoff WITH held <- Held, received <- imported

\* The server lets go of an envelope only when the device has it, and the device
\* takes each envelope once.
HandsOff == H!Handoff
=============================================================================
