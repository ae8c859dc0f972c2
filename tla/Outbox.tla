------------------------------- MODULE Outbox -------------------------------
(***************************************************************************)
(* The client's outbox (app.rs, local.rs, network.rs): a message and its   *)
(* request are written in one transaction, the request is sent and sent    *)
(* again until the server has accepted it, and what the answers, time-outs *)
(* and lost connections in between do to the client's books.  The server   *)
(* is reduced to what it has stored and what it answers.                   *)
(*                                                                         *)
(* The client is one event loop.  A handler that awaits its store or the   *)
(* server between two changes leaves the rest of its work in `todo`; the   *)
(* loop takes nothing else before that is done.  Texts are those of one    *)
(* conversation; a deletion of that conversation is a message too, to the  *)
(* user's other devices.                                                   *)
(***************************************************************************)
EXTENDS Integers, FiniteSets, Sequences

CONSTANTS
    Text,           \* logical ids of chat messages
    Deletion,       \* ids of deletions of the conversation (sync_event_id)
    QueueSize,      \* the channel to the writer task, 128 in the code
    Faults,         \* what may go wrong
    Budget          \* and how often altogether

AnyFault == {"drop", "crash", "refuse", "pressure", "slow", "lookup", "alone", "sync"}

ASSUME MessageAssumption == Text \cap Deletion = {}
ASSUME BoundAssumption ==
    QueueSize \in Nat \ {0} /\ Faults \subseteq AnyFault /\ Budget \in Nat

VARIABLES
    queue,          \* table outbox: one request per message
    status,         \* messages.status; "erased" once the row is deleted again
    tombstone,      \* the tombstone of the conversation, {} or [id, pending]
    used,           \* ids of deletions drawn so far
    requests,       \* background_requests that send a message
    syncs,          \* background_requests that sync, by number
    waiting,        \* messages whose outbox_retry_after lies in the future
    blocked,        \* blocked_outbox
    sync_in_flight, connected, reconnect_in_flight,
    todo,           \* what the handler at work has still to do
    subject,        \* the message complete_outbox is at
    link,           \* the transport of rpc: "none" (client not running), "up", "broken"
    up,             \* requests queued or on their way to the server
    down,           \* frames on their way to the event loop
    asked,          \* request ids drawn so far, apart from those of the texts
    stored,         \* server: messages whose envelopes it has accepted
    acked,          \* server: texts with a delivery update
    budget          \* faults left

disk == <<queue, status, tombstone, used>>
books == <<requests, syncs, waiting, blocked, sync_in_flight>>
loop == <<connected, reconnect_in_flight, todo, subject>>
wire == <<link, up, down, asked>>
server == <<stored, acked>>
vars == <<disk, books, loop, wire, server, budget>>

Message == Text \cup Deletion
\* A request keeps its id when it is sent again; each text has one request.
Send(m, id) == [kind |-> "send", msg |-> m, id |-> id]
Sync(id) == [kind |-> "sync", id |-> id]
Closed == [kind |-> "closed"]

Spend(f) == f \in Faults /\ budget > 0 /\ budget' = budget - 1
Queued(m) == \E f \in queue : f.msg = m
Pending(m) == \E f \in requests : f.msg = m
Idle == link # "none" /\ todo = <<>>
Rank == [none |-> 0, sending |-> 0, sent |-> 1, delivered |-> 2, erased |-> 3]

Init ==
    /\ queue = {} /\ status = [m \in Text |-> "none"] /\ tombstone = {} /\ used = {}
    /\ requests = {} /\ syncs = {} /\ waiting = {} /\ blocked = {}
    /\ sync_in_flight = FALSE /\ connected = FALSE /\ reconnect_in_flight = FALSE
    /\ todo = <<>> /\ subject = {}
    /\ link = "none" /\ up = <<>> /\ down = <<>> /\ asked = 0
    /\ stored = {} /\ acked = {} /\ budget = Budget

----------------------------------------------------------------------------
(* Sending: RpcClient::try_send_frame, App::dispatch_background *)

\* The channel takes the frame; behind a broken connection it goes nowhere.
Enqueue(f) ==
    \/ /\ link = "up" /\ Len(up) < QueueSize
       /\ up' = Append(up, f)
    \/ /\ link = "broken"
       /\ UNCHANGED up

\* The channel is full, or the writer task has ended.
Refuses == link = "broken" \/ (link = "up" /\ Len(up) >= QueueSize)

\* The request has an answer to come and a deadline only if it was taken.
Dispatch(f) == Enqueue(f) /\ requests' = requests \cup {f}

\* Mutant of UpdateStatus: the rank is not compared.
UpdateStatusAlways(S, new) ==
    status' = [m \in Text |-> IF m \in S /\ status[m] \notin {"none", "erased"}
                              THEN new ELSE status[m]]

\* LocalStore::update_status.
UpdateStatus(S, new) ==
    status' = [m \in Text |-> IF m \in S /\ status[m] # "none" /\ Rank[status[m]] < Rank[new]
                              THEN new ELSE status[m]]

\* Mutant of SendText: the message is sent first and saved when that worked.
SendTextUnsaved(m) ==
    /\ Idle
    /\ status[m] = "none" /\ tombstone = {}
    /\ status' = [status EXCEPT ![m] = "sending"]
    /\ \/ Dispatch(Send(m, 0)) /\ queue' = queue \cup {Send(m, 0)} /\ UNCHANGED connected
       \/ Refuses /\ connected' = FALSE /\ UNCHANGED <<queue, up, requests>>
    /\ UNCHANGED <<tombstone, used, syncs, waiting, blocked, sync_in_flight, reconnect_in_flight,
                   todo, subject, link, down, asked, server, budget>>

\* App::send_text: commit_outgoing, then the dispatch.  The contact is verified,
\* so the conversation has no tombstone.
SendText(m) ==
    /\ Idle
    /\ status[m] = "none" /\ tombstone = {}
    /\ status' = [status EXCEPT ![m] = "sending"]
    /\ queue' = queue \cup {Send(m, 0)}
    /\ \/ Dispatch(Send(m, 0)) /\ UNCHANGED connected
       \/ Refuses /\ connected' = FALSE /\ UNCHANGED <<up, requests>>
    /\ UNCHANGED <<tombstone, used, syncs, waiting, blocked, sync_in_flight, reconnect_in_flight,
                   todo, subject, link, down, asked, server, budget>>

----------------------------------------------------------------------------
(* The work a handler has still to do *)

Begin(step) == todo # <<>> /\ Head(todo) = step
Done == todo' = Tail(todo)

Eligible == {f \in queue : f.msg \notin blocked /\ f.msg \notin waiting /\ ~Pending(f.msg)}

\* resend_outbox: every entry that is neither blocked, waiting nor pending, until
\* the channel refuses.
Resend ==
    /\ Begin("resend")
    /\ \/ \E f \in Eligible : Dispatch(f) /\ UNCHANGED todo
       \/ (Eligible = {} \/ Refuses) /\ Done /\ UNCHANGED <<up, requests>>
    /\ UNCHANGED <<disk, syncs, waiting, blocked, sync_in_flight, connected,
                   reconnect_in_flight, subject, link, down, asked, server, budget>>

\* Mutant of Unsynced: the outbox is not looked at.
UnsyncedOrQueued == {t \in tombstone : t.pending}

\* A deletion is encrypted anew for the devices the account has now.
Unsynced == {t \in tombstone : t.pending /\ ~Queued(t.id)}

\* sync_pending_conversation_deletions asks for the device list, then encrypts,
\* commits and sends; a failure leaves the tombstone for the next time.
SendDeletion ==
    /\ Begin("deletions") /\ connected
    /\ \E t \in Unsynced :
          LET f == Send(t.id, asked + 1)
          IN  /\ queue' = queue \cup {f}
              /\ Dispatch(f) \/ (Refuses /\ UNCHANGED <<up, requests>>)
    /\ asked' = asked + 1
    /\ Done
    /\ UNCHANGED <<status, tombstone, used, syncs, waiting, blocked, sync_in_flight, connected,
                   reconnect_in_flight, subject, link, down, server, budget>>

\* The account has no other device: there is nobody to tell.
NobodyToTell ==
    /\ Begin("deletions") /\ connected
    /\ Spend("alone")
    /\ \E t \in Unsynced : tombstone' = {[t EXCEPT !.pending = FALSE]}
    /\ Done
    /\ UNCHANGED <<queue, status, used, books, connected, reconnect_in_flight, subject, wire,
                   server>>

\* Nothing to do, or the list or a prekey cannot be had.
NoDeletionSent ==
    /\ Begin("deletions")
    /\ IF Unsynced = {} \/ ~connected \/ link = "broken" THEN UNCHANGED budget
       ELSE Spend("lookup")
    /\ Done
    /\ UNCHANGED <<disk, books, connected, reconnect_in_flight, subject, wire, server>>

\* App::sync: not while one is in flight.
AskSync ==
    /\ Begin("sync")
    /\ IF sync_in_flight \/ ~connected
       THEN UNCHANGED <<syncs, sync_in_flight, up, asked>>
       ELSE LET id == asked + 1
            IN  /\ asked' = id
                /\ \/ /\ Enqueue(Sync(id))
                      /\ syncs' = syncs \cup {id} /\ sync_in_flight' = TRUE
                   \/ Refuses /\ UNCHANGED <<syncs, sync_in_flight, up>>
    /\ Done
    /\ UNCHANGED <<disk, requests, waiting, blocked, connected, reconnect_in_flight, subject,
                   link, down, server, budget>>

\* complete_outbox: three transactions.
RemoveOutbox ==
    /\ Begin("remove") /\ Done
    /\ queue' = {f \in queue : f.msg \notin subject}
    /\ UNCHANGED <<status, tombstone, used, books, connected, reconnect_in_flight, subject, wire,
                   server, budget>>

MarkSynced ==
    /\ Begin("synced") /\ Done
    /\ tombstone' = {[t EXCEPT !.pending = @ /\ t.id \notin subject] : t \in tombstone}
    /\ UNCHANGED <<queue, status, used, books, connected, reconnect_in_flight, subject, wire,
                   server, budget>>

ShowSent ==
    /\ Begin("sent") /\ Done
    /\ UpdateStatus(subject, "sent")
    /\ subject' = {}
    /\ UNCHANGED <<queue, tombstone, used, books, connected, reconnect_in_flight, wire, server,
                   budget>>

----------------------------------------------------------------------------
(* The event loop: what arrives *)

Arrives(kind) ==
    /\ Idle /\ connected
    /\ down # <<>> /\ Head(down).kind = kind
    /\ down' = Tail(down)

Answered(f) == requests' = requests \ {f}

\* SendAccepted, whether or not this request was still waited for.
HandleAccepted ==
    /\ Arrives("accepted")
    /\ LET f == Head(down).of
       IN  /\ Answered(f)
           /\ blocked' = blocked \ {f.msg} /\ waiting' = waiting \ {f.msg}
           /\ subject' = {f.msg}
    /\ todo' = <<"remove", "synced", "sent">>
    /\ UNCHANGED <<disk, syncs, sync_in_flight, connected, reconnect_in_flight, link, up, asked,
                   server, budget>>

\* Mutant of HandleRefused: the message is blocked although nobody waits for
\* this answer any more.
HandleRefusedLate ==
    /\ Arrives("refused")
    /\ LET f == Head(down).of
       IN  /\ Answered(f)
           /\ IF Head(down).retryable
              THEN waiting' = waiting \cup {f.msg} /\ UNCHANGED blocked
              ELSE blocked' = blocked \cup {f.msg} /\ waiting' = waiting \ {f.msg}
    /\ UNCHANGED <<disk, syncs, sync_in_flight, loop, link, up, asked, server, budget>>

\* An Error with the id of a pending request; without one it is only shown.
HandleRefused ==
    /\ Arrives("refused")
    /\ LET f == Head(down).of
       IN  IF f \notin requests THEN UNCHANGED <<requests, waiting, blocked>>
           ELSE /\ Answered(f)
                /\ IF Head(down).retryable
                   THEN waiting' = waiting \cup {f.msg} /\ UNCHANGED blocked
                   ELSE blocked' = blocked \cup {f.msg} /\ waiting' = waiting \ {f.msg}
    /\ UNCHANGED <<disk, syncs, sync_in_flight, loop, link, up, asked, server, budget>>

\* A batch ends the sync in flight if it answers it, or if none is pending;
\* its delivery updates are applied.
HandleBatch ==
    /\ Arrives("batch")
    /\ syncs' = syncs \ {Head(down).id}
    /\ sync_in_flight' = (sync_in_flight /\ Head(down).id \notin syncs /\ syncs' # {})
    /\ UpdateStatus(Head(down).updates, "delivered")
    /\ UNCHANGED <<queue, tombstone, used, requests, waiting, blocked, loop, link, up, asked,
                   server, budget>>

HandleUpdate ==
    /\ Arrives("update")
    /\ UpdateStatus(Head(down).updates, "delivered")
    /\ UNCHANGED <<queue, tombstone, used, books, loop, link, up, asked, server, budget>>

\* The connection_closed frame of the reader or writer task.
HandleClosed ==
    /\ Arrives("closed")
    /\ connected' = FALSE
    /\ sync_in_flight' = FALSE
    /\ requests' = {} /\ syncs' = {}
    /\ UNCHANGED <<disk, waiting, blocked, reconnect_in_flight, todo, subject, link, up, asked,
                   server, budget>>

\* A sync refused by the server.
HandleSyncRefused ==
    /\ Arrives("unsynced")
    /\ syncs' = syncs \ {Head(down).id}
    /\ sync_in_flight' = (sync_in_flight /\ Head(down).id \notin syncs)
    /\ UNCHANGED <<disk, requests, waiting, blocked, loop, link, up, asked, server, budget>>

Receive ==
    \/ HandleAccepted
    \/ HandleRefused
    \/ HandleBatch
    \/ HandleSyncRefused
    \/ HandleUpdate
    \/ HandleClosed

----------------------------------------------------------------------------
(* The event loop: timers and the user *)

\* Neither the request nor an answer to it is on its way.
Lost(f) ==
    /\ \A i \in DOMAIN up : up[i] # f
    /\ \A i \in DOMAIN down : down[i].kind \in {"accepted", "refused"} => down[i].of # f
LostSync(id) ==
    /\ \A i \in DOMAIN up : up[i] # Sync(id)
    /\ \A i \in DOMAIN down : down[i].kind \in {"batch", "unsynced"} => down[i].id # id

\* Mutant of Expire: the request stays among the pending ones.
ExpireStillPending(f) ==
    /\ Idle /\ f \in requests
    /\ IF Lost(f) THEN UNCHANGED budget ELSE Spend("slow")
    /\ waiting' = waiting \cup {f.msg}
    /\ UNCHANGED <<disk, requests, syncs, blocked, sync_in_flight, loop, wire, server>>

\* expire_background_requests, 20 s after the dispatch: the answer is lost, or late.
Expire(f) ==
    /\ Idle /\ f \in requests
    /\ IF Lost(f) THEN UNCHANGED budget ELSE Spend("slow")
    /\ Answered(f)
    /\ waiting' = waiting \cup {f.msg}
    /\ UNCHANGED <<disk, syncs, blocked, sync_in_flight, loop, wire, server>>

ExpireSync(id) ==
    /\ Idle /\ id \in syncs
    /\ IF LostSync(id) THEN UNCHANGED budget ELSE Spend("slow")
    /\ syncs' = syncs \ {id} /\ sync_in_flight' = FALSE
    /\ UNCHANGED <<disk, requests, waiting, blocked, loop, wire, server>>

\* The 30 s of outbox_retry_after pass.
Elapse(m) ==
    /\ m \in waiting
    /\ waiting' = waiting \ {m}
    /\ UNCHANGED <<disk, requests, syncs, blocked, sync_in_flight, loop, wire, server, budget>>

Work(steps) == todo' = steps /\ UNCHANGED subject

\* service_step, every fifth second; without work it changes nothing.
ServiceStep ==
    /\ Idle /\ connected
    /\ Eligible # {} \/ Unsynced # {}
    /\ Work(<<"resend", "deletions">>)
    /\ UNCHANGED <<disk, books, connected, reconnect_in_flight, wire, server, budget>>

\* /retry, which a user enters when something is blocked or waiting.
Retry ==
    /\ Idle /\ blocked \cup waiting # {}
    /\ blocked' = {} /\ waiting' = {}
    /\ Work(<<"resend">>)
    /\ UNCHANGED <<disk, requests, syncs, sync_in_flight, connected, reconnect_in_flight, wire,
                   server, budget>>

\* /sync.
RequestSync ==
    /\ Idle /\ connected
    /\ Spend("sync")
    /\ Work(<<"sync">>)
    /\ UNCHANGED <<disk, books, connected, reconnect_in_flight, wire, server>>

\* confirm_delete of the conversation, delete_conversation_everywhere: its texts
\* go, sent or not; a deletion still to be told keeps its id, the new one is unused.
DeleteConversation(m) ==
    /\ Idle /\ (m \notin used \/ \E t \in tombstone : t.pending)
    /\ used' = used \cup {m}
    /\ queue' = {f \in queue : f.msg \notin Text}
    /\ status' = [x \in Text |-> IF status[x] = "none" THEN "none" ELSE "erased"]
    /\ tombstone' = IF \E t \in tombstone : t.pending THEN tombstone
                    ELSE {[id |-> m, pending |-> TRUE]}
    /\ Work(IF connected THEN <<"deletions">> ELSE <<>>)
    /\ UNCHANGED <<books, connected, reconnect_in_flight, wire, server, budget>>

\* verify_contact after a deletion: the tombstone goes, and its request with it; then sync.
VerifyContact ==
    /\ Idle /\ tombstone # {}
    /\ queue' = {f \in queue : \A t \in tombstone : f.msg # t.id}
    /\ tombstone' = {}
    /\ Work(<<"sync">>)
    /\ UNCHANGED <<status, used, books, connected, reconnect_in_flight, wire, server, budget>>

----------------------------------------------------------------------------
(* Connections and crashes *)

\* Of the requests on their way, the server may still have taken some.
Overtaken ==
    \E S \in SUBSET {up[i].msg : i \in {j \in DOMAIN up : up[j].kind = "send"}} :
        stored' = stored \cup S

\* The socket fails or the server ends; what had arrived is still read.
LinkBreaks ==
    /\ link = "up" /\ Spend("drop")
    /\ link' = "broken" /\ up' = <<>>
    /\ \E n \in 0..Len(down) : down' = Append(SubSeq(down, 1, n), Closed)
    /\ Overtaken
    /\ UNCHANGED <<disk, books, loop, asked, acked>>

TryReconnect ==
    /\ Idle /\ ~connected /\ ~reconnect_in_flight
    /\ reconnect_in_flight' = TRUE
    /\ UNCHANGED <<disk, books, connected, todo, subject, wire, server, budget>>

ReconnectFails ==
    /\ Idle /\ reconnect_in_flight /\ Spend("drop")
    /\ reconnect_in_flight' = FALSE
    /\ UNCHANGED <<disk, books, connected, todo, subject, wire, server>>

NewTransport == link' = "up" /\ up' = <<>> /\ down' = <<>> /\ UNCHANGED asked

\* handle_reconnect_result: the old transport is dropped with what it held.
Reconnected ==
    /\ Idle /\ reconnect_in_flight
    /\ reconnect_in_flight' = FALSE /\ connected' = TRUE
    /\ NewTransport /\ Overtaken
    /\ Work(<<"resend", "deletions", "sync">>)
    /\ UNCHANGED <<disk, books, acked, budget>>

\* App::new behind a successful login.
Start ==
    /\ link = "none"
    /\ connected' = TRUE
    /\ NewTransport
    /\ Work(<<"resend", "deletions", "sync">>)
    /\ UNCHANGED <<disk, books, reconnect_in_flight, server, budget>>

\* The process ends, between any two transactions.
Crash ==
    /\ link # "none" /\ Spend("crash")
    /\ requests' = {} /\ syncs' = {} /\ waiting' = {} /\ blocked' = {}
    /\ sync_in_flight' = FALSE /\ connected' = FALSE /\ reconnect_in_flight' = FALSE
    /\ todo' = <<>> /\ subject' = {}
    /\ link' = "none" /\ up' = <<>> /\ down' = <<>>
    /\ Overtaken
    /\ UNCHANGED <<disk, asked, acked>>

----------------------------------------------------------------------------
(* The server, as far as the outbox sees it *)

Serves(kind) == link = "up" /\ up # <<>> /\ Head(up).kind = kind /\ up' = Tail(up)
Answers(f) == down' = Append(down, f)

\* SendEnvelopes: stored now or before, in a transaction that ends before the answer.
ServerAccepts ==
    /\ Serves("send")
    /\ stored' = stored \cup {Head(up).msg}
    /\ Answers([kind |-> "accepted", of |-> Head(up)])
    /\ UNCHANGED <<disk, books, loop, link, asked, acked, budget>>

\* public_error: quota and rejections are final, disk pressure and a changed
\* roster are to be retried.
ServerRefuses(retryable) ==
    /\ Serves("send")
    /\ Spend(IF retryable THEN "pressure" ELSE "refuse")
    /\ Answers([kind |-> "refused", of |-> Head(up), retryable |-> retryable])
    /\ UNCHANGED <<disk, books, loop, link, asked, server>>

ServerSyncs ==
    /\ Serves("sync")
    /\ Answers([kind |-> "batch", id |-> Head(up).id, updates |-> acked])
    /\ UNCHANGED <<disk, books, loop, link, asked, server, budget>>

ServerRefusesSync ==
    /\ Serves("sync")
    /\ Spend("pressure")
    /\ Answers([kind |-> "unsynced", id |-> Head(up).id])
    /\ UNCHANGED <<disk, books, loop, link, asked, server>>

\* A device of the peer acknowledges; the sender is told if it is connected.
PeerAcks(m) ==
    /\ m \in (stored \cap Text) \ acked
    /\ acked' = acked \cup {m}
    /\ IF link = "up" THEN Answers([kind |-> "update", updates |-> {m}]) ELSE UNCHANGED down
    /\ UNCHANGED <<disk, books, loop, link, up, asked, stored, budget>>

Next ==
    \/ \E m \in Text : SendText(m)
    \/ Resend \/ SendDeletion \/ NobodyToTell \/ NoDeletionSent \/ AskSync
    \/ RemoveOutbox \/ MarkSynced \/ ShowSent
    \/ Receive
    \/ \E f \in requests : Expire(f)
    \/ \E id \in syncs : ExpireSync(id)
    \/ \E m \in waiting : Elapse(m)
    \/ ServiceStep \/ Retry \/ RequestSync
    \/ \E m \in Deletion : DeleteConversation(m)
    \/ VerifyContact
    \/ LinkBreaks \/ TryReconnect \/ ReconnectFails \/ Reconnected \/ Start \/ Crash
    \/ ServerAccepts \/ (\E r \in BOOLEAN : ServerRefuses(r)) \/ ServerSyncs \/ ServerRefusesSync
    \/ \E m \in Text : PeerAcks(m)

Spec == Init /\ [][Next]_vars

\* The handler at work.
Proceed ==
    \/ Resend \/ SendDeletion \/ NoDeletionSent \/ AskSync
    \/ RemoveOutbox \/ MarkSynced \/ ShowSent
TimesOut ==
    \/ \E f \in requests : Lost(f) /\ Expire(f)
    \/ \E id \in syncs : LostSync(id) /\ ExpireSync(id)
Serve == ServerAccepts \/ ServerSyncs

Reconnect == TryReconnect \/ Reconnected

\* Handlers end, timers fire, the server serves, a client without connection
\* connects again or is started again; select! polls its branches in random
\* order, so each that is ready again and again has its turn.
FairSpec ==
    /\ Spec
    /\ WF_vars(Proceed) /\ WF_vars(Serve) /\ WF_vars(Start)
    /\ \A m \in Message : WF_vars(Elapse(m))
    /\ SF_vars(Receive) /\ SF_vars(TimesOut) /\ SF_vars(ServiceStep) /\ SF_vars(Reconnect)

----------------------------------------------------------------------------
(* Properties *)

Requests == [kind : {"send"}, msg : Message, id : Nat]
Frames == Requests \cup [kind : {"sync"}, id : Nat]
Replies ==
    [kind : {"accepted"}, of : Requests]
        \cup [kind : {"refused"}, of : Requests, retryable : BOOLEAN]
        \cup [kind : {"batch"}, id : Nat, updates : SUBSET Text]
        \cup [kind : {"unsynced"}, id : Nat]
        \cup [kind : {"update"}, updates : SUBSET Text]
        \cup {Closed}
Steps == {"resend", "deletions", "sync", "remove", "synced", "sent"}

\* Types, and at most one request per message and one tombstone.
OutboxTypeOK ==
    /\ queue \subseteq Requests /\ requests \subseteq Requests
    /\ \A f, g \in queue : f.msg = g.msg => f = g
    /\ status \in [Text -> DOMAIN Rank]
    /\ tombstone \subseteq [id : Deletion, pending : BOOLEAN]
    /\ (\A t, u \in tombstone : t = u) /\ used \subseteq Deletion
    /\ syncs \subseteq Nat /\ waiting \subseteq Message /\ blocked \subseteq Message
    /\ sync_in_flight \in BOOLEAN /\ connected \in BOOLEAN /\ reconnect_in_flight \in BOOLEAN
    /\ \A i \in DOMAIN todo : todo[i] \in Steps
    /\ subject \subseteq Message
    /\ link \in {"none", "up", "broken"}
    /\ Len(up) <= QueueSize /\ \A i \in DOMAIN up : up[i] \in Frames
    /\ \A i \in DOMAIN down : down[i] \in Replies
    /\ asked \in Nat /\ stored \subseteq Message /\ acked \subseteq Text /\ budget \in 0..Budget

\* README:48, the persistent outbox: a message shown as being sent is in the
\* table or at the server, whatever was refused, late, lost or interrupted
\* between the three transactions of complete_outbox.
NothingLost == \A m \in Text : status[m] = "sending" => Queued(m) \/ m \in stored

P == INSTANCE Outgoing WITH shown <- status, taken <- stored \cap Text, reached <- acked

\* What the sender is shown is true, and never goes back: pushes, sync replies
\* and the answers to repeated requests may come in any order.
ShowsTheTruth == P!Promise

\* A message that has left the outbox is neither pending, waiting nor blocked:
\* a late answer to an earlier request does not bring it back.
SettledIsForgotten ==
    \A m \in Text : ~Queued(m) /\ status[m] # "erased" =>
        m \notin blocked /\ m \notin waiting /\ ~Pending(m)

Owed(m) == Queued(m) \/ \E t \in tombstone : t.id = m /\ t.pending

\* Whatever is written goes out, deletions included: requests and answers may be
\* lost, connections and the client may end; only a final refusal stops it, until
\* the user asks to try again (README:611).
EverythingLeaves == \A m \in Message : Owed(m) ~> (~Owed(m) \/ m \in blocked)

\* README:42 and 48, automatic catch-up after a reconnection: what the peer
\* acknowledged in between is shown in the end.
OfflineCaughtUp == \A m \in Text : (m \in acked) ~> (Rank[status[m]] >= Rank["delivered"])
=============================================================================
