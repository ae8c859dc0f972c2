# tui-chat in TLA+

Specifications, model checking and proofs for `Sunmedalia/tui-chat`: a terminal
chat whose server stores end-to-end encrypted envelopes and whose clients keep
all keys. File and line references are to `src/` at the modelled commit.

## 1. The system

| component | where | state it keeps | operations |
|---|---|---|---|
| Ciphertext store | `server/src/db.rs`, storage commands of `admin.rs`, migrations | SQLite tables `logical_messages`, `envelopes`, `delivery_updates`, `account_storage_usage` (by triggers) | store a request, acknowledge, sync, two cleanups, prune, delete an account |
| Connections and sessions | `ws.rs`, `control.rs` | `connections` (device → live connection), `sessions` (token → session), admission counters, per-connection challenge and session | admit, authenticate, register, replace, kick, check access per frame, unregister, release |
| Enrolment and roster | `ws.rs`, `db.rs`, `admin.rs` | `accounts` (state, master key, roster revision), `devices` (pending, revoked) | bootstrap the first device, submit a pending one, activate, revoke, reset |
| Prekeys | `db.rs`, `ws.rs`, `app.rs` | table `prekeys`; the client's Olm account | publish, claim once, refill |
| Delivery | `ws.rs`, `db.rs`, `app.rs` | the device's cursor, what is queued to a connection, `sync_in_flight` | push, sync by cursor, commit, acknowledge |
| Outbox | `app.rs`, `local.rs`, `network.rs` | table `outbox`; `background_requests`, deadlines, `blocked_outbox`, `outbox_retry_after` | send, resend, time out, refuse, complete |
| Message status | `app.rs`, `local.rs`, `db.rs` | message status with ranks, status cursor, receipts | accept, deliver, read |
| Conversations | `app.rs`, `local.rs` | contacts (verified), notifications, tombstones | request, accept, verify, delete, synchronise deletions |
| Pairing | `app.rs`, `ws.rs`, `db.rs`, `crypto/pairing.rs` | pairing state in memory, table `pairing_events` | exchange SAS keys, confirm on both sides, send history, activate |
| Channels | `ws.rs`, `network.rs`, `app.rs` | bounded queues 128 / 128 / 256 | awaited sends |
| Cryptography | `crates/crypto` | Olm machine, vault | taken as ideal |
| UI, editor, administration UI, configuration | `app.rs`, `editor.rs`, `admin_ui.rs`, `main.rs`, `config.rs` | – | drawing, parsing |

How they interact: every connection of the server is one task that handles its
frames one at a time; the tasks share the database, the two connection maps and
the bounded queue of each connection. A sender's task stores a request in one
transaction and then pushes each new envelope into the queues of the devices
that are connected. The client is one event loop over keyboard, timers, the
event channel filled by its reader task, and background requests it has sent;
its durable state is a SQLite file written in small transactions. The
administrator's commands work on the same database from another process.

What is hard: SQLite serialises transactions, but an operation is often two of
them, or a transaction and a push; connections and both processes can end at any
step; a push and a sync reply reach the client in an order nobody fixes; the
client's cursor is the only thing that says what it already has; requests are
repeated after time-outs while the first answer may still arrive. `PROJECT.json`
lists each such place ("hazards") with the properties about it.

What makes each component correct:

* store: ids and cursors unique, cursors never reused, stored envelopes
  immutable, the three records of a delivery agree, the usage counter exact, the
  quota never exceeded, undelivered mail kept, mail of revoked devices removed;
* delivery: nothing is removed or counted as delivered that the device has not
  saved, no envelope is skipped or delivered twice, a backlog is worked through;
* connections: the counters exact, the newest connection of a device reachable,
  nobody acts who is not approved, replaced and revoked connections end;
* outbox: nothing is lost between table and server, nothing comes back that has
  left, what is shown is true and never goes back, everything leaves in the end;
* conversations: a deletion reaches every device and takes the verified mark away,
  an answered request is settled everywhere, nothing is shown as read that nobody
  has seen, quarantine loses nothing;
* pairing: the master key goes only over a channel both users have confirmed, the
  roster has one successor per revision, a confirmation stands, a pairing ends;
* prekeys: no key is handed out twice, every message can be decrypted in whatever
  order, keys do not run dry.

## 2. Modules

| module | models | built on |
|---|---|---|
| `Relay` | the ciphertext store, one action per transaction | – |
| `Mailboxes` | what delivery relies on of the store: rows under fresh cursors, confirmed, discarded (abstract) | – |
| `Delivery` | pushes, syncs, acknowledgements, the client's batch loop, reconnects and crashes | `Mailboxes` |
| `Handoff` | the promise of delivery: hold until received, receive once (abstract) | – |
| `Sessions` | the connections of one account: admission, authentication, the two maps, kicks, the end of a connection | – |
| `Outbox` | one client's outbox: saving, sending, answers, time-outs, resends, deletions as messages, reconnects, crashes | – |
| `Outgoing` | what the sender is promised: what is shown is true and never goes back (abstract) | – |
| `Conversations` | one conversation on all devices of its two accounts: requests, verification, texts, receipts, deletion | – |
| `Pairing` | a second device joins: login, codes, keys and history, activation | – |
| `Prekeys` | one-time keys and Olm sessions of all devices | – |
| `RelayProofs`, `RelayRefinement` | theorems about `Relay`; `Relay` implements `Mailboxes` | `Relay`, TLAPS |
| `DeliveryProofs`, `SessionsProofs`, `OutboxProofs`, `ConversationsProofs`, `PairingProofs`, `PrekeysProofs` | theorems about the module of that name | that module, TLAPS |
| `MCRelay`, `MCDelivery`, `MCSessions`, `MCOutbox`, `MCConversations`, `MCPairing`, `MCPrekeys` | instances for TLC | |

The modules meet at the mailbox. `Relay` is shown to implement `Mailboxes`, and
`Delivery` is built on it. `Outbox` sees of the server what it has stored and what it
answers; `Conversations` takes from it that a message stays in the outbox until the
server has stored it for all recipients in one transaction, and from `Delivery` that
each device works through its mailbox; `Prekeys` says which of these messages can be
opened, in any order; `Pairing` and `Sessions` share the columns of `devices`.

### Relay

State: `messages`, `envelopes`, `updates` and `usage` are the tables;
`lastCursor` and `lastUpdate` their AUTOINCREMENT counters; `accountState` and
`deviceState` the columns of `accounts` and `devices` the store looks at;
`cleaning` the revoked devices whose second transaction has still to run.
`StoreEnvelopes` is `Db::store_envelopes`: `StoreVerdict` goes through its
checks in their order and names the error code, and only an accepted request is
a step, because a refused one rolls back. `KeepOnly` is a DELETE together with
the trigger that adjusts the counters. `RevokeOwnDevice`, `AdminRevokeDevice`
and `ResetDevices` only mark devices; `CleanupRevoked` is the transaction that
follows, and `Crash` loses the ones that have not run.

Abstractions: a device determines its account; a ciphertext is a value with a
size; the conversation id is the set of the two accounts; a time cutoff is an
arbitrary subset of the rows; the free-disk check happens before the
transaction and is an input of `StoreVerdict`.

### Delivery

State: the mailbox rows (of `Mailboxes`); per sender task the envelopes it has stored
and not yet pushed; per device its connection (`off`, `joining` when the server has
registered it and the client has not read `Authenticated` yet, `on`, `lost` when it has
ended and the client has still to read `connection_closed`), the frames on their way up
and down, a sync reply computed and not yet queued; the client's durable `cursor` and
`imported`, its volatile position in the batch (`batch`, `owed`), the sync requests
registered in `background_requests` with their deadlines (`asked`) and `sync_in_flight`
(`syncing`). One action per step of the event loop: take a batch, skip an old envelope,
import one (`commit_inbound` and its siblings are single transactions that save
envelope, ratchet and cursor), acknowledge it. Olm is ideal: an envelope imported once
cannot be decrypted again (`RejectReplay`), which abandons the batch. `whole` is a
history variable: a complete sync of this connection was answered and nothing was given
up since.

`AskSync` is `App::sync` behind its early return. The sync behind a connection
(`Authenticated`) may come to nothing, as app.rs:5780 drops its result: the outbox
resent just before it may have filled the channel, and a flag left over from an earlier
connection keeps it back. That flag is real: a send that fails in `send_text`
(`Refused`, app.rs:4010) has the client reconnect and drop the event that would have
cleared it (`Closed`). What makes up for both is the deadline of 20 s (`SyncExpires`) and a
sync asked for later. `TakeBatch` clears the flag as app.rs:4580 does: for the
answer of the request that is open, or when none is. Request ids are few and used again
once nothing of their request is under way.

### Sessions

State per connection task: where it is (`stage`), its session slot, the session a
handler is registering (`claim`), the device it has still to kick (`target`), and
whether it was counted as authenticated (`marked`); shared: the watch channels
(`signalled`), the maps `connections` and `sessions`, the admission counters;
from the database the state of each device row (`barred` is pending and revoked)
and of the account; of the administrator what a command has still to send.
`Frame` is one turn of the loop with the access check, `Skip` and `Skipped` one without
it: a WebSocket ping, a message that is not binary, a frame that does not decode or has
another version goes back to waiting, with a new timeout (ws.rs:439-470). The handlers
start at stage `serving` and end at `handled`, where `Return` is what the loop does
after `handle_frame`. `register` is two steps, one per map; `unregister` is one, because
it holds both locks. Roster changes of other modules appear as changes of `row`.

`Faults` names what may go wrong: an upgrade that never completes, a socket
that breaks after the registration, a command that ends before its kick. The account and
the device of an access check are read in one step: rows only leave `active`, so
two reads decide the same for some moment between them. Left out: capabilities, rate
limits and the password gate (a refused frame is `Serve`, a broken connection is
`Hangup`).

### Outbox

State: the tables `outbox` (`queue`), `messages.status` (`status`) and the tombstone;
the maps of `App` in memory (`requests` and `syncs` are `background_requests`,
`waiting` is `outbox_retry_after`, `blocked`, `sync_in_flight`, `connected`,
`reconnect_in_flight`); the transport with what is on its way; of the server what it
has stored and what the peer has acknowledged. The client is one event loop, but a
handler awaits: what it has still to do is in `todo`, so the server, the network and a
crash come between any two of its transactions. `complete_outbox` is therefore three
steps (`RemoveOutbox`, `MarkSynced`, `ShowSent`), and a service step is `resend_outbox`
entry by entry, then the pending deletion, then the sync.

`SendText` is `send_text` with `commit_outgoing`; `Dispatch` registers a request only
if `try_send_frame` took the frame; `Handle…` are the branches of `handle_frame`,
`Expire` and `Elapse` the deadlines, `Reconnected` and `Start` resend and sync.

Reductions: a text in flight whose row was deleted counts as accepted before the
deletion (it cannot be told apart afterwards); contacts are verified; a change of the
account's identity, which empties the outbox, is left out.

### Conversations

State per device: the row of the contact, the tombstone, the notifications, the
texts, which are read, the outbox and the mailbox in the order of its cursors. All
devices run the same actions. A handler is one step; where it writes two transactions
(`send_chat_request`, `accept_chat_request`, `mark_selected_read`, `verify_selected`, the
imports of requests and responses) the variant with `Cut` ends between them, by a crash or a
call that fails. `Recipients` says who a message is encrypted for, `Erase` is
`delete_conversation_state`, `Buried` the upsert of the tombstone, `Receive` the branches
of `handle_sync_batch`. `Accept` stores for all recipients at once and, but for
deletions, removes the request; deletions have a `Complete` of their own, because a
tombstone waits for it.

A mailbox here loses nothing and is read in the order of its cursors. That is an
assumption: `delivery_overtake` shows a push that overtakes the backlog, after which a
device never gets the envelopes in between, and what this module says of a deletion or
an answer is then not so for that device.

Places where the code keeps less than one might think, all in the model:

* A second deletion of a conversation, while the first is still queued, keeps the
  id of the first and is never told on its own (local.rs `upsert_conversation_tombstone`).
* A text of the user's other device is dropped while this one still has the
  tombstone, even if the other one has verified the contact again (app.rs:4859).
* A crash between the saved notification and the committed request leaves an
  outgoing request that waits for ever and was never sent (app.rs:5443).
* The request id of a quarantine, `reauth-<conversation>`, is the same on both sides,
  so an answer to the one closes the other.
* Two requests that cross block `/verify` on both sides until they are answered.

### Pairing

State: on the server the device's row, the roster revision, the table
`pairing_events`; per client the connection, its queue, profile, key, history,
notifications and processed events (durable), `App::pairing` and its requests (in
memory), and what the handler at work has still to do. A frame and its handling by the
server are one step; the finish of the approver (`Finish`: key, history, lookup,
activation, answer, note) is one step per frame, so that other activations, lost
connections and crashes come between. `Post` is the handler of `PairingEvent`, `Settle`
the mark in `processed_pairing_events` with its acknowledgement, `Greet` what
`push_post_auth` sends. `RosterMoves` stands for other activations of the account.
`Submit` is ws.rs:829-854 as one step (row, prekeys, registration, push), and `Login` the
check of the pending row with the registration (ws.rs:707-728): a crash or an activation
between them is not a behaviour of the model. An approver that confirms while it is offline,
with the other side's confirmation already in, loses the pairing (`Abort`): its first frame
or its lookup fails, and the session has been taken.
A channel is a number drawn by the approver; a payload opens only with its channel.
`confirmed`, `drawn` and `interrupted` are history.

What the code does here, and the model with it: `confirm_pairing` sets its own side
before it notifies the other one, and a notice that fails is not repeated
(app.rs:4152); the approver's `App::pairing` has no way back but success or a restart
(app.rs:4073 refuses another pairing meanwhile); a crash between the handling of an
event and its mark has it handled again, which resets the pairing to unconfirmed;
a login sends the first 200 stored events only (db.rs:712); an activation does not
check the limits again, so 7 active and 2 pending devices become 9; a client that ends
before it has saved its profile leaves a pending row whose id is lost.

### Prekeys

State: the table `prekeys`, the mailboxes, of each saved machine its private keys, the
counter of ids, the keys not marked as published, and its sessions; of the running
client the phase of its login, the generated keys and the message it is encrypting.
`LoginShort`, `Publish`, `SaveProfile` are the three steps of main.rs:185-197.
`ClaimPreKey` is `claim_prekey`, whose answer may be lost; `Commit` saves machine and
message together; `ImportNew` and `ImportKnown` are the two ways of `decrypt`.

What the code does here: a login that ends between publication and save has put keys
on offer that nobody can open, and the next login counts the same ids again, which
`INSERT OR IGNORE` drops; a claim removes the key even if the answer is lost; a message
to several devices is given up as a whole if one has no key, and the keys claimed
for the others are gone; keys are topped up at a login only. An envelope that cannot
be opened, or whose sender has been revoked since it was stored (app.rs:4740),
abandons the batch, and as the cursor stays, the rest of the mailbox waits behind it.

## 3. Runs

| run | shows | bounds |
|---|---|---|
| `relay_safety` | types, the records of a delivery agree, exact usage, and the store implements `Mailboxes`, under every interleaving of requests, acks, removals, roster changes and one crash | 2 accounts, 3 devices, 4 envelope ids, 5 requests incl. a resend with another ciphertext and a reused logical id; cursors to 3 |
| `relay_retention` | undelivered mail is kept, mail of revoked devices goes | the same without crash and forced prune |
| `delivery_safety` | no gap, nothing skipped by a sync, the hand-over (`Handoff`), a backlog is worked through, acknowledgements arrive | 1 device, 2 sender tasks, 2 envelopes, page of one row, cursors to 3, 2 sync requests at a time, any one fault out of resend, lost connection, crash, restart, failed lookup, failed send, cleanup; expiries and refused first syncs without limit |
| `delivery_overtake` | **violated**: a push overtakes the backlog and the cursor skips it | no fault at all |
| `sessions_maps` | counters, limits, both maps, no unapproved device acts | 3 connections, 2 addresses, 2 devices, 1 command, failing upgrades, lost kicks |
| `sessions_ending` | replaced connections end, and revoked ones that do more than ping, although kicks are lost and sockets break | 2 connections, 2 devices, 1 command |
| `outbox` | nothing lost, nothing comes back, what is shown is true (`Outgoing`), everything leaves | 1 text and 1 deletion, channel of 2, any two of eight faults |
| `outbox_catch_up` | **violated**: the sync after a reconnect is not sent | 2 texts, channel of 3, one lost connection |
| `conversations` | deletions, answers, receipts, quarantine on all devices | alice with 2 devices, bob with 1, 3 messages, 1 cut handler, 1 dismissed notification |
| `pairing` | keys over confirmed channels, one roster per revision, confirmations stand, a pairing ends | 1 approver, 1 new device, 3 channels, any two of six faults |
| `pairing_switch` | **violated**: an activated device does not learn of it | 1 lost connection, 2 channels |
| `prekeys` | no key twice, everything readable, nothing withheld, sessions bounded | 3 devices, 1 key each, 3 logins, 4 messages, 3 faults |

The bounds are the smallest at which the cases happen: two senders' tasks are
needed for pushes out of order, three cursors for a resend after a removal, a
page of one row for `has_more`, two sync requests for an answer that comes behind the
deadline while the next request is open, one failed send for a flag that outlives its
connection, three connections for one that is replaced while
another unregisters, and a quota that admits one long message but not two; a text and
a deletion for the two ways out of an outbox, and a channel they fill; two devices of
one account for a deletion that has somebody to be told to, and three message ids for
text, deletion and a text that crosses it; three channels for an event of the first
pairing that arrives in the third; one key per device, so that each claim empties the
table, and four messages so that both ends start a session at once and answer.
The runs with symmetry (`sessions_maps`, `conversations`, `prekeys`) check invariants only.
The largest runs have 2.5 million (`prekeys`), 0.9 million (`pairing`), 0.8 million
(`conversations`), 0.6 million (`delivery_safety`) and 0.3 million states (`relay_safety`,
`sessions_ending`).
Deadlock is not checked: with the bounds exhausted the system may stop.

### What the violations say

* `delivery_overtake`: `handle_sync_batch` skips what is not above the cursor
  (app.rs:4722), and a push raises the cursor (README.md:42 promises automatic
  catch-up). In the shortest behaviour a second envelope is pushed to a client
  that has not yet worked through the reply of its first sync.
* `outbox_catch_up`: `sync` returns at once while `sync_in_flight` is set
  (app.rs:4412), and the flag outlives its connection: a send that fails in `send_text`
  (app.rs:4010) marks the client as disconnected without clearing it, so the sync
  behind the reconnect (app.rs:5758) is not sent, and a delivery the peer acknowledged
  meanwhile is not shown. The same happens when the outbox, resent first, has filled the
  channel and `let _ = self.sync()` drops the refusal.
* `pairing_switch`: the activation pushes `device_activated` and does not store it
  (ws.rs:1258). A client that is offline just then keeps a pending profile: it does not
  reconnect by itself (app.rs:5726), and its password login is refused because the
  device is active (ws.rs:709). README.md:607 says the opposite. With two approvers the
  same can happen without any fault; with one and no fault `SwitchesOver` holds.

Configurations that are kept beside the runs, each with a counterexample:

* `MCRelayPurge.cfg` (`RevokedMailboxPurged` with a crash): `revoke_own_device`
  (db.rs:232) is two transactions. After a crash in between, the next attempt finds the
  device revoked already and does nothing. README.md:279 promises the removal.
* `MCDeliveryReplay.cfg` (`NoReplay`): an envelope id is remembered only while its row
  exists, so a resend after a cleanup is delivered again (README.md:523 says a repeated
  delivery is not stored again). `CatchesUp` is therefore stated for behaviours
  without such a replay.
* `MCSessionsGhost.cfg` (`OnlineIsConnected`): the handlers of `DeviceAuth` and
  `PasswordAuth` register before they fill the session slot; a socket that breaks in
  between leaves both map entries for good (README.md:317: `/devices` shows whether a
  device is online). An error of the database in `push_post_auth` has the same effect.
* `MCSessionsPending.cfg` (`RevokedGoesOffline`): pending sessions are not checked again,
  and `PasswordAuth` accepts a pending device that is revoked (README.md:279: offline at
  once). The same holds of a user who logs in between the disconnection and the deletion
  of his account (admin.rs:673, README.md:483).
* `MCSessionsPing.cfg` (`CutOffAnyway`): `CutOff` without its exception. The loop answers
  WebSocket pings before it looks access up, with a new timeout of 60 s (ws.rs:439), so a
  revoked device whose kick was lost stays connected, and shown as online, while it only
  pings; its first request ends it.
* `MCConversationsAnswers.cfg` (`AnswersAgree`): two devices of one user answer the same
  request differently; each device keeps the answer it saw last (README.md:330 says one
  answer settles all).
* `MCPrekeysCut.cfg` (`AlwaysReadable`): `Readable` without its exception. A login that
  ends between `publish_prekeys` and `save_profile` leaves a key on offer that opens
  nothing, and a message encrypted with it blocks the mailbox.

## 4. Fairness

`Relay!FairSpec` assumes that a process that has marked a device revoked runs the
cleanup that follows unless it crashes.

`Delivery!FairSpec` assumes that the server's tasks and the client's event loop keep
running (tokio polls them), that a client without connection reconnects
(`try_reconnect` with back-off) or is started again, that the event of a connection's
end is read (`Closed`), and that a deadline is reached: `service_tick` looks for expired
requests every second, connected or not (`SyncExpires`). An expiry may come at any time
after the request, before the answer or behind it. Nothing is assumed of the sender, of
faults, of cleanups, or of the first sync of a connection, which may be refused each
time. `UserSpec`, under which the run is made, adds that /sync is entered again while it
is possible, because app.rs:5239 asks the user to do so.

`Sessions!FairSpec` assumes that the runtime polls each connection task, that a
peer that sends nothing at all is dropped (60 s, ws.rs:433; one that only pings is not:
`Skip` and `Skipped` may go on for ever), that `select!` hears a signal on a busy
connection in the end (strong fairness: it polls its branches in random order), and
that a command of the administrator that is not lost runs to its end. That peers
authenticate, send or revoke is not assumed: every other branch stays open.

`Outbox!FairSpec` assumes that a handler ends, that timers fire, that the server
serves, and that a client without connection is reconnected or started. Arrivals,
deadlines, the service step and reconnects are branches of one `select!`, which polls
them in random order: each has strong fairness, since a handler at work disables all of
them again and again. Sending, /retry, /sync, deletions and faults are free.

`Pairing!FairSpec` assumes that loops and server go on and that the users follow the
instructions: they log in, start the pairing that is offered, compare and confirm the
code, and start the program again when it says so. The hypothesis of `PairedInTheEnd`
says what they may not do and which disturbances it allows.

`Conversations` and `Prekeys` state no liveness: their outboxes leave the order and the
time of every send open, which is what `Outbox` is about.

## 5. Proofs

`RelayProofs` proves for every set of accounts, devices, requests and limits:
`TypeCorrect`, `RowsUnique`, `UsageIsExact`, `QuotaIsRespected`,
`CursorsAreFresh`, `EnvelopesAreImmutable`, `PurgedMailboxStaysEmpty`,
`EnvelopesMatchMessages`, `DeliveriesAgree`, `UndeliveredIsKept`.

The argument: `TypeOK` is inductive by itself, but only because it carries the
finiteness of the store. `Steps` splits `Next` once; `StepShape` says what a step
can do to the envelopes (add fresh rows, confirm one, or remove some), and the
other theorems need nothing else of the removals. `UniqueRows` is inductive over
`TypeOK`. `UsageExact` needs `UniqueRows` (bytes are counted per envelope id) and
the lemma that bytes of disjoint row sets add up (`BytesAdd`). `QuotaRespected`
needs that the total is monotone and additive (`TotalMonotone`, `TotalAdd`).
`UndeliveredKept` needs that only revoked devices are cleaned
(`CleaningIsRevoked`). `RelayRefinement` proves `Spec => MailboxService` with
each action mapped to `Accept`, `Confirm`, `Discard` or a stutter.

`SessionsProofs` proves for every set of connections, devices and addresses, every
limit and every set of faults: `SessionsTypeCorrect`, `AdmissionIsExact`,
`LimitsAreRespected`, `OnlyApprovedAct`, `NewestReachable`, and, unless a socket
breaks between registration and reply, `OnlineConnected` (`MCSessionsGhost.cfg` shows
that this condition cannot be dropped).

The argument: `SessionsTypeOK` is inductive because a counter is only raised below its
limit. `AdmissionExact` is not: that a release or a mark takes away something that
was counted needs `SlotsFilled` (no mark without a session, no session before the
task begins) and that the connections held are finitely many. `CountingSteps` reduces
`Next` to the three actions that count; the saturating subtraction never saturates
there (`OneLess`). The limits follow from exactness and the types.
`NewestIsReachable` needs that a connection keeps its place from its entry into the
first map to the filling of its slot (`PlaceKept`: it is named by the map or has been
told to leave), and that slot and claim agree where both are filled (`SlotShape`).
`MapsLive` says for each entry what will still remove it: a claim about to fill
the slot, or the slot of a task that has not unregistered. `ActsOnlyApproved` is
proved with the same statement about claims (`SoundSessions`), because a session
travels through the claim into the slot while other tasks change the rows.

`DeliveryProofs` proves for every set of devices, tasks and requests, every page size
and every set of faults: `DeliveryTypeCorrect`, `DeliveredIsImported`,
`SyncsSkipNothing`, `DeliveryHandsOff`, `NothingFallsBetween`.

The argument: `Typed` gathers the types with what the frames say (`FramesKnown`: a sync
asks for what follows a cursor the device has reached, an acknowledgement names
something it has saved). `MailStep` says that
new rows come under fresh cursors. `SoundBatches` is the invariant of what is on its way:
every item is of a row that is or was in the mailbox, and a sync reply is closed
downwards, that is, whatever row of the mailbox lies between the cursor and an item of
the reply is an item too. Skipping nothing follows from it. `NoGap` needs more than it
says: `GapFree` names rows by cursor and id, because an id alone may be that of a
row that was removed and stored again, and a task that still has to push an id pushes
whatever row has it then.

`OutboxProofs` proves for every set of texts and deletions, every channel size and
every set of faults: `OutboxTypeCorrect`, `NothingIsLost`, `SettledForgotten`,
`ShowsTruth`. The invariant says where a request for a message may be and what that
means: every request in the table, in the books or on its way is one for a text that
was written (`Real`); an answer on its way says what the server has stored or the peer
has acknowledged (`Truthful`); what `complete_outbox` is at the server has, and the server
has only what was written (`Settled`). `Forgotten` says of a message that is being
completed what `SettledIsForgotten` says of one that has left: the books are cleared
before the request leaves the table. `ShowsTruth`
maps each action to a step of `Outgoing` or a stutter.

`ConversationsProofs` proves for any number of devices and accounts:
`ConversationsTypeCorrect`, `DeletedVerifiedAgain`, `ReadIsSeen`, `TakenTextsKept`,
`DeletionsReach`, `AnswersSettle`, `ReadersAgreed`. A few lemmas say what any step may
do to outboxes, mailboxes, texts and the ids drawn (`Posting`, `MailMoves`,
`TextsOpened`, `StepAdds`); the proofs use nothing else of most actions. On `Types`
rests `Unique`: an id belongs to one message, and a deletion still to be told has its id
to itself. `ReadWasSeen` follows from what receipts on their way name (`ReceiptsSeen`),
`TextsKept` from the same statement about all texts (`KeptForAll`). `DeletionReaches`
needs in addition that nothing is twice in a mailbox or both there and in the table
(`Arrived`), that a withdrawn text is in no outbox any more (`Withdrawn`), and the
invariant `Reaching`: for each device of the account the deletion is still to be told
and not accepted, or is in its mailbox with none of the deleted texts behind it, or none
of them is left.

The two statements about states where everything has been worked through follow from
invariants about every message under way. `Settling`: of an answered request every device
has a notification that no longer waits, or has removed it, or the response is in its
mailbox, or in the outbox of the device that answered and not accepted yet. That nothing
opens the request again is in `DecidedStays` (a copy that comes later keeps the state of
the row); that no response is lost, in `OutboxKeeps`: verification takes messages out of
the outbox by the id of a tombstone, and such an id belongs to deletions only
(`StonesApart`). `Agreeing`: whatever is shown as read on one device, or named by a
receipt in its mailbox, is marked on every other device of the account, or gone from it,
or named by a receipt there behind which the text does not come. It needs that a receipt
names only what the server had already (`AboutOK`), so that nothing of it can be stored
later.

`PrekeysProofs` proves for any devices, any target and any bounds: `PrekeysTypeCorrect`,
`KeysHandedOutOnce`, `NothingIsWithheld`, `MessagesReadable`, `SessionsAreBounded`.
`KeysFresh` says that a key is named by a login that has been, or by the one at work,
which is why no key is ever inserted that was claimed; `IdsSingle` is the primary key;
`KeysCounted` relates the saved counter, the private keys and the table; `SessionsInv`
says that a session is kept at its maker, and at its other end kept or its key is still
usable, and that a message under way has a session its sender keeps.

`PairingProofs` proves for any devices, page size and bounds: `RostersAreLinear`,
`PairingTypesCorrect`, `KeysConfirmed`, `ConfirmationsStand`. Rosters: accepted
revisions are at most the current one, finitely many, and counted (`Rosters`).
`KeysOverConfirmedChannel` is not inductive; `Pairings` is. It says of each place where
the code of a pairing is kept which channel and peer it can name: frames in the server's
table and in the queues say no more than their sender could (`FramesFit`: a confirmation
only from a device that has confirmed, a bootstrap only between two that both have), and
the same for sessions in memory (`SessionsFit`), what a restart takes up from the notes
(`NotesFit`) and the steps a handler under way has still to take (`JobsFit`). A channel
is drawn once for one pair of devices (`Link`), which is why a frame delivered late or
twice cannot speak for another channel. `ConfirmationStands` is about one channel: a new
offer draws a new channel and does replace the pairing (app.rs:4212), but the same offer
delivered again must not. It adds `TakenOnce`: while an offer is not yet marked as
processed, the pairing made of it is there only in the handler that is about to mark it,
unless a crash came between the two. The page of stored events is the function `ById` of
the rows of the device, an event standing where as many events come up to it
(`PutInOrder`: the ids are different, so there is one for each place).

Assumptions are the named ASSUMEs on constants: devices have an owner, sizes are
naturals, requests are finite sets of entries, an envelope id has one recipient, each
connection has an address, limits and bounds are naturals, texts and deletions have
different ids, the devices at the beginning are finitely many and not new.
Authentication and encryption are ideal: signatures, passwords, challenges, codes.

Only model-checked: the liveness properties (`RevokedMailboxPurged`, `CatchesUp`,
`ImportedIsConfirmed`, `ReplacedEnds`, `CutOff`, `EverythingLeaves`, `PairedInTheEnd`), as
liveness under fairness is out of the prover's reach. Every invariant, action property and
refinement that a passing run checks is proved.

## 6. Not modelled

* The enrolment of an account's first device (three transactions in ws.rs:793), and the
  master key a session remembers over a reset of its account (ws.rs:1236).
* Back-pressure on the server: its connection tasks wait for room in a slow device's
  queue of 128 (ws.rs:308). The queues of `Delivery` and `Pairing` have no limit; the
  client's channel, which refuses instead of waiting, has one in `Outbox`.
* Passwords, hashing, rate limits, the vault and capabilities: a refused login or frame
  changes nothing else.
* A change of an account's identity on the client, which resets its tables.
* Cryptography is ideal; encoding is generated code.
* Drawing, key bindings, the editor, the administration interface, configuration and
  start-up: sequential code without protocol state, which unit tests reach.

## 7. What is left

1. `Enrolment`: the first device in three transactions with crashes, resets and the
   master key of a session.
2. Two devices with full queues: who waits for whom on the server.
3. The composition of `Outbox` with `Delivery`, so that one behaviour shows a text from
   the sender's table to the recipient's.
4. Proofs: the leads-to properties once a prover for them is at hand; theorems for the
   modules of items 1 to 3 as they are written.
