------------------------------ MODULE Pairing ------------------------------
(***************************************************************************)
(* A second device joins an account: it logs in with the password and is   *)
(* listed as pending (main.rs, ws.rs), a user starts the pairing on an     *)
(* active device, both users confirm the same short code, the master key   *)
(* and the history follow over the confirmed channel, and the server makes *)
(* the device active (app.rs, ws.rs, db.rs).                               *)
(*                                                                         *)
(* A channel is named by the approver's one-time key; codes are ideal, and *)
(* a payload opens only with the channel that sealed it.  A client is one  *)
(* event loop: what a handler has still to do is in `todo`, and nothing    *)
(* else is taken before that is done.  A frame and its handling by the     *)
(* server are one step.                                                    *)
(***************************************************************************)
EXTENDS Integers, FiniteSets, Sequences, SequencesExt

CONSTANTS
    Old,                    \* active devices at the beginning
    New,                    \* device ids of installations without a profile
    MaxActive, MaxPending,  \* device limits, 8 and 2 in the code
    PageSize,               \* stored events sent at a login, 200 in the code
    MaxPairings,            \* bound on the pairings started
    Faults,                 \* what may go wrong
    Budget                  \* and how often altogether

AnyFault == {"crash", "cut", "refill", "other", "expire", "dismiss"}

ASSUME DeviceAssumption == Old \cap New = {} /\ IsFiniteSet(Old)
ASSUME BoundAssumption ==
    /\ MaxActive \in Nat /\ MaxPending \in Nat /\ PageSize \in Nat /\ MaxPairings \in Nat
    /\ Faults \subseteq AnyFault /\ Budget \in Nat

Device == Old \cup New

VARIABLES
    row,            \* server: devices.pending, "none" without a row
    revision,       \* server: accounts.roster_revision
    signed,         \* the rosters the server has accepted: [revision, device]
    events,         \* server: table pairing_events
    last,           \* the last id of that table
    conn,           \* the client program and its connection
    queue,          \* frames on their way to the event loop
    profile,        \* the saved profile: "none", "pending", "active"
    secret,         \* the profile holds the account's master key
    history,        \* a part of the history was imported
    note,           \* pairing notifications: [state, peer, channel]
    processed,      \* table processed_pairing_events
    pairing,        \* App::pairing: {} or one session
    requests,       \* App::pairing_requests
    todo, job,      \* what the handler at work has still to do, and its data
    drawn,          \* the channels so far: [by, with]
    confirmed,      \* <<device, channel>>: the user said that the code is the same
    interrupted,    \* <<device, channel>>: ended before the event was marked processed
    budget          \* faults left

database == <<row, revision, signed, events, last>>
wire == <<conn, queue>>
keys == <<profile, secret, history>>
books == <<note, processed>>
memory == <<pairing, requests, todo, job>>
ghosts == <<drawn, confirmed, interrupted, budget>>
vars == <<database, wire, keys, books, memory, ghosts>>

Channel == 1 .. MaxPairings
NoNote == [state |-> "none", peer |-> {}, channel |-> 0]
NoJob == [event |-> 0, id |-> {}, channel |-> 0, revision |-> 0]
Event(i, d, to, type, c) == [id |-> i, from |-> d, to |-> to, type |-> type, channel |-> c]
Request(p) == [id |-> 0, from |-> p, to |-> p, type |-> "request", channel |-> 0]

Spend(f) == f \in Faults /\ budget > 0 /\ budget' = budget - 1
\* The server lists the connection; the client's loop runs.
Registered(d) == conn[d] \in {"saving", "greeting", "on"}
Running(d) == conn[d] \in {"on", "broken", "off"}
Idle(d) == Running(d) /\ todo[d] = <<>>
\* The pending device of a pairing is the one that names it.
Approver(d, s) == s.id # d

Init ==
    /\ row = [d \in Device |-> IF d \in Old THEN "active" ELSE "none"]
    /\ revision = Cardinality(Old) /\ signed = {} /\ events = {} /\ last = 0
    /\ conn = [d \in Device |-> IF d \in Old THEN "down" ELSE "fresh"]
    /\ queue = [d \in Device |-> <<>>]
    /\ profile = [d \in Device |-> IF d \in Old THEN "active" ELSE "none"]
    /\ secret = [d \in Device |-> d \in Old] /\ history = [d \in Device |-> d \in Old]
    /\ note = [d \in Device |-> [p \in New |-> NoNote]]
    /\ processed = [d \in Device |-> {}]
    /\ pairing = [d \in Device |-> {}] /\ requests = [d \in Device |-> {}]
    /\ todo = [d \in Device |-> <<>>] /\ job = [d \in Device |-> NoJob]
    /\ drawn = <<>> /\ confirmed = {} /\ interrupted = {} /\ budget = Budget

----------------------------------------------------------------------------
(* The server: what it pushes and what it stores *)

\* AppState::push_account.
PushAll(f) == queue' = [d \in Device |-> IF Registered(d) THEN Append(queue[d], f) ELSE queue[d]]
\* AppState::push_device.
Pushed(d, f) == IF Registered(d) THEN [queue EXCEPT ![d] = Append(@, f)] ELSE queue

\* Mutant of Post: an event is stored for the next login, and not pushed.
PostStoredOnly(d, to, p, type, c) ==
    IF row[p] = "pending"
    THEN /\ last' = last + 1
         /\ events' = events \cup {Event(last + 1, d, to, type, c)}
         /\ UNCHANGED queue
    ELSE UNCHANGED <<last, events, queue>>

\* Body::PairingEvent of pairing p: refused unless p is pending, or else stored and pushed.
Post(d, to, p, type, c) ==
    IF row[p] = "pending"
    THEN LET e == Event(last + 1, d, to, type, c)
         IN  last' = last + 1 /\ events' = events \cup {e} /\ queue' = Pushed(to, e)
    ELSE UNCHANGED <<last, events, queue>>

\* ORDER BY id: an event stands where as many events come up to it.
ById(S) == [i \in 1 .. Cardinality(S) |->
              CHOOSE e \in S : Cardinality({f \in S : f.id <= e.id}) = i]

\* Pending events in the order of their ids, at most a page of them.
Stored(d) ==
    LET mine == ById({e \in events : e.to = d})
    IN  SubSeq(mine, 1, IF Len(mine) < PageSize THEN Len(mine) ELSE PageSize)
Waiting(d) == SetToSeq({Request(p) : p \in {q \in New \ {d} : row[q] = "pending"}})

\* Mutant of Accepts: the revision is not compared.
AcceptsAny(p, r) == row[p] = "pending"

\* Db::activate_device.
Accepts(p, r) == row[p] = "pending" /\ r = revision + 1

----------------------------------------------------------------------------
(* Logging in: main.rs authenticate, Body::PasswordAuth, Body::BootstrapDevice *)

Rows(state) == Cardinality({d \in Device : row[d] = state})

\* Mutant of Check: the profile is saved before the server knows the device.
CheckAndSave(p) ==
    /\ conn[p] = "fresh"
    /\ Rows("active") < MaxActive /\ Rows("pending") < MaxPending
    /\ conn' = [conn EXCEPT ![p] = "submitting"]
    /\ profile' = [profile EXCEPT ![p] = "pending"]
    /\ UNCHANGED <<database, queue, secret, history, books, memory, ghosts>>

\* The password is right, and the counts are read, before the row is inserted.
Check(p) ==
    /\ conn[p] = "fresh"
    /\ Rows("active") < MaxActive /\ Rows("pending") < MaxPending
    /\ conn' = [conn EXCEPT ![p] = "submitting"]
    /\ UNCHANGED <<database, queue, keys, books, memory, ghosts>>

\* The row is inserted, the connection registered and the request pushed.
Submit(p) ==
    /\ conn[p] = "submitting"
    /\ row' = [row EXCEPT ![p] = "pending"]
    /\ conn' = [conn EXCEPT ![p] = "saving"]
    /\ PushAll(Request(p))
    /\ UNCHANGED <<revision, signed, events, last, keys, books, memory, ghosts>>

\* Only now does the client save its profile.
SaveProfile(p) ==
    /\ conn[p] = "saving"
    /\ conn' = [conn EXCEPT ![p] = "on"]
    /\ profile' = [profile EXCEPT ![p] = "pending"]
    /\ UNCHANGED <<database, queue, secret, history, books, memory, ghosts>>

\* App::new: restore_pairing_state_from_notifications.
Restored(d) ==
    LET n == note[d][d]
    IN  IF d \in New /\ profile[d] = "pending" /\ n.state = "InProgress"
        THEN {[id |-> d, peer |-> n.peer, channel |-> n.channel, ours |-> FALSE,
               theirs |-> FALSE]}
        ELSE {}
\* restore_pairing_requests_from_notifications.
Noted(d) == {p \in New \ {d} : note[d][p].state \in {"Pending", "InProgress"}}

\* A saved profile: by password while it is pending, by signature afterwards.
Admitted(d) == profile[d] # "none" /\ profile[d] = row[d]

Login(d) ==
    /\ conn[d] = "down" /\ Admitted(d)
    /\ conn' = [conn EXCEPT ![d] = "greeting"]
    /\ pairing' = [pairing EXCEPT ![d] = Restored(d)]
    /\ requests' = [requests EXCEPT ![d] = Noted(d)]
    /\ UNCHANGED <<database, queue, keys, books, todo, job, ghosts>>

\* try_reconnect does nothing for a pending device.
Reconnect(d) ==
    /\ conn[d] = "off" /\ todo[d] = <<>>
    /\ profile[d] = "active" /\ Admitted(d)
    /\ conn' = [conn EXCEPT ![d] = "greeting"]
    /\ UNCHANGED <<database, queue, keys, books, memory, ghosts>>

\* push_post_auth.  An active client short of prekeys publishes new ones before its
\* loop starts, and RawConnection::request drops every other frame it reads.
Greet(d) ==
    /\ conn[d] = "greeting"
    /\ conn' = [conn EXCEPT ![d] = "on"]
    /\ \/ queue' = [queue EXCEPT ![d] = @ \o Stored(d) \o Waiting(d)] /\ UNCHANGED budget
       \/ profile[d] = "active" /\ Spend("refill") /\ queue' = [queue EXCEPT ![d] = <<>>]
    /\ UNCHANGED <<database, keys, books, memory, drawn, confirmed, interrupted>>

----------------------------------------------------------------------------
(* The users *)

Session(p, peer, c) ==
    [id |-> p, peer |-> peer, channel |-> c, ours |-> FALSE, theirs |-> FALSE]
Noticed(d, p, state) ==
    note' = IF note[d][p].state = "none" THEN note
            ELSE [note EXCEPT ![d][p].state = state]

\* start_pairing, from the notification or with /pair.
StartPairing(d, p) ==
    LET c == Len(drawn) + 1
    IN  /\ Idle(d) /\ profile[d] = "active" /\ pairing[d] = {}
        /\ p # d /\ (p \in requests[d] \/ note[d][p].state # "none")
        /\ c \in Channel
        /\ requests' = [requests EXCEPT ![d] = @ \ {p}]
        /\ \/ /\ conn[d] # "off"
              /\ drawn' = Append(drawn, [by |-> d, with |-> p])
              /\ pairing' = [pairing EXCEPT ![d] = {Session(p, p, c)}]
              /\ Noticed(d, p, "InProgress")
              /\ IF conn[d] = "on" THEN Post(d, p, p, "public", c)
                 ELSE UNCHANGED <<last, events, queue>>
           \/ /\ conn[d] # "on"
              /\ UNCHANGED <<drawn, pairing, note, last, events, queue>>
        /\ UNCHANGED <<row, revision, signed, conn, keys, processed, todo, job, confirmed,
                       interrupted, budget>>

\* "history_complete", which changes a line of status and nothing else, is left out.
Finish == <<"bootstrap", "chunk", "lookup", "activate", "answer", "note">>

\* finish_pairing_as_approver takes the session; whatever fails later, it is gone.
TakeSession(d, s, event) ==
    /\ pairing' = [pairing EXCEPT ![d] = {}]
    /\ job' = [job EXCEPT ![d] = [event |-> event, id |-> {s.id}, channel |-> s.channel,
                                  revision |-> 0]]

\* confirm_pairing.
Confirm(d) == \E s \in pairing[d] :
    LET mine == [s EXCEPT !.ours = TRUE]
    IN  /\ Idle(d) /\ ~s.ours
        /\ confirmed' = confirmed \cup {<<d, s.channel>>}
        /\ \/ /\ Approver(d, s) /\ s.theirs
              /\ TakeSession(d, mine, 0)
              /\ todo' = [todo EXCEPT ![d] = Finish]
              /\ UNCHANGED <<last, events, queue>>
           \/ /\ Approver(d, s) /\ ~s.theirs
              /\ pairing' = [pairing EXCEPT ![d] = {mine}]
              /\ UNCHANGED <<todo, job, last, events, queue>>
           \/ /\ ~Approver(d, s)
              /\ pairing' = [pairing EXCEPT ![d] = {mine}]
              /\ IF conn[d] = "on" THEN Post(d, s.peer, d, "confirmed", s.channel)
                 ELSE UNCHANGED <<last, events, queue>>
              /\ UNCHANGED <<todo, job>>
        /\ UNCHANGED <<row, revision, signed, conn, keys, books, requests, drawn, interrupted,
                       budget>>

----------------------------------------------------------------------------
(* The event loop: handle_server_event, handle_pairing_event *)

Pop(d) == queue' = [queue EXCEPT ![d] = Tail(@)]
Done(d, e) ==
    /\ todo' = [todo EXCEPT ![d] = IF e.id = 0 THEN <<>> ELSE <<"settle">>]
    /\ job' = [job EXCEPT ![d] = [NoJob EXCEPT !.event = e.id]]

\* save_pairing_notification keeps the state of the notification it replaces.
TakeRequest(d, e) ==
    /\ e.type = "request"
    /\ note' = IF e.from = d \/ note[d][e.from].state # "none" THEN note
               ELSE [note EXCEPT ![d][e.from] =
                        [state |-> "Pending", peer |-> e.from, channel |-> 0]]
    /\ requests' = [requests EXCEPT ![d] = @ \cup ({e.from} \ {d})]
    /\ Pop(d)
    /\ UNCHANGED <<database, conn, keys, processed, pairing, todo, job, ghosts>>

\* Mutant of Handled: events are not recorded.
HandledNever(d, e) == FALSE

\* Body::AckPairingEvent deletes the row.
Acknowledge(d, id) ==
    events' = IF conn[d] = "on" THEN {e \in events : e.id # id \/ e.to # d} ELSE events

\* pairing_event_processed.
Handled(d, e) == e.id \in processed[d]

TakeHandled(d, e) ==
    /\ e.type # "request" /\ Handled(d, e)
    /\ Acknowledge(d, e.id)
    /\ Pop(d)
    /\ UNCHANGED <<row, revision, signed, last, conn, keys, books, memory, ghosts>>

\* A new code, whoever starts it, replaces the pairing that was going on.
TakePublic(d, e) ==
    /\ e.type = "public" /\ profile[d] = "pending"
    /\ pairing' = [pairing EXCEPT ![d] = {Session(d, e.from, e.channel)}]
    /\ note' = [note EXCEPT ![d][d] =
                   [state |-> "InProgress", peer |-> e.from, channel |-> e.channel]]
    /\ Pop(d) /\ Done(d, e)
    /\ UNCHANGED <<database, conn, keys, processed, requests, ghosts>>

\* Mutant of Opens: the payload is taken for that of the pairing it names.
OpensAny(s, e) == TRUE

\* PairingChannel::decrypt.
Opens(s, e) == s.channel = e.channel

TakeConfirmed(d, e) ==
    /\ e.type = "confirmed"
    /\ \/ pairing[d] = {} /\ Done(d, e) /\ UNCHANGED pairing
       \/ \E s \in pairing[d] :
            /\ Opens(s, e)
            /\ IF s.ours /\ Approver(d, s)
               THEN TakeSession(d, s, e.id) /\ todo' = [todo EXCEPT ![d] = Append(Finish, "settle")]
               ELSE /\ pairing' = [pairing EXCEPT ![d] = {[s EXCEPT !.theirs = TRUE]}]
                    /\ Done(d, e)
    /\ Pop(d)
    /\ UNCHANGED <<database, conn, keys, books, requests, ghosts>>

\* The key is refused until the code has been confirmed here.
TakeBootstrap(d, e) ==
    /\ e.type = "bootstrap" /\ profile[d] = "pending"
    /\ \E s \in pairing[d] : s.ours /\ Opens(s, e)
    /\ secret' = [secret EXCEPT ![d] = TRUE]
    /\ Pop(d) /\ Done(d, e)
    /\ UNCHANGED <<database, conn, profile, history, books, pairing, requests, ghosts>>

TakeChunk(d, e) ==
    /\ e.type = "chunk" /\ profile[d] = "pending"
    /\ \E s \in pairing[d] : Opens(s, e)
    /\ history' = [history EXCEPT ![d] = TRUE]
    /\ Pop(d) /\ Done(d, e)
    /\ UNCHANGED <<database, conn, profile, secret, books, pairing, requests, ghosts>>

\* has_master_secret.
Ready(d) == secret[d]

\* device_activated: the client leaves its connection and comes back with its signature.
TakeActivated(d, e) ==
    /\ e.type = "activated" /\ profile[d] = "pending" /\ Ready(d)
    /\ profile' = [profile EXCEPT ![d] = "active"]
    /\ Noticed(d, d, "Completed")
    /\ pairing' = [pairing EXCEPT ![d] = {}]
    /\ conn' = [conn EXCEPT ![d] = "off"] /\ queue' = [queue EXCEPT ![d] = <<>>]
    /\ UNCHANGED <<database, secret, history, processed, requests, todo, job, ghosts>>

\* What is left over for a pending client means nothing to an active one.
TakeOther(d, e) ==
    /\ e.type \in {"public", "bootstrap", "chunk", "activated"} /\ profile[d] # "pending"
    /\ Pop(d) /\ Done(d, e)
    /\ UNCHANGED <<database, conn, keys, books, pairing, requests, ghosts>>

\* The handler fails: a line of status, the event stays unprocessed at the server.
Refused(d, e) ==
    \/ e.type = "confirmed" /\ \E s \in pairing[d] : ~Opens(s, e)
    \/ e.type = "bootstrap" /\ ~\E s \in pairing[d] : s.ours /\ Opens(s, e)
    \/ e.type = "chunk" /\ ~\E s \in pairing[d] : Opens(s, e)
    \/ e.type = "activated" /\ ~Ready(d)
TakeRefused(d, e) ==
    /\ Refused(d, e) /\ (e.type = "confirmed" \/ profile[d] = "pending")
    /\ Pop(d)
    /\ UNCHANGED <<database, conn, keys, books, memory, ghosts>>

Take(d) ==
    /\ conn[d] \in {"on", "broken"} /\ todo[d] = <<>> /\ queue[d] # <<>>
    /\ LET e == Head(queue[d])
       IN  \/ TakeRequest(d, e)
           \/ TakeHandled(d, e)
           \/ /\ ~Handled(d, e)
              /\ \/ TakePublic(d, e) \/ TakeConfirmed(d, e) \/ TakeBootstrap(d, e)
                 \/ TakeChunk(d, e) \/ TakeActivated(d, e) \/ TakeOther(d, e)
                 \/ TakeRefused(d, e)

----------------------------------------------------------------------------
(* What a handler has still to do *)

At(d, step) == todo[d] # <<>> /\ Head(todo[d]) = step
Proceed(d) == todo' = [todo EXCEPT ![d] = Tail(@)]

\* send_pairing_payload; behind a broken connection the frame goes nowhere.
SendPayload(d) == \E type \in {"bootstrap", "chunk"}, p \in job[d].id :
    /\ At(d, type) /\ Proceed(d)
    /\ IF conn[d] = "on" THEN Post(d, p, p, type, job[d].channel)
       ELSE UNCHANGED <<last, events, queue>>
    /\ UNCHANGED <<row, revision, signed, conn, keys, books, pairing, requests, job, ghosts>>

\* lookup_bundle_fresh.
Lookup(d) ==
    /\ At(d, "lookup") /\ conn[d] = "on" /\ Proceed(d)
    /\ job' = [job EXCEPT ![d].revision = revision + 1]
    /\ UNCHANGED <<database, wire, keys, books, pairing, requests, ghosts>>

\* Body::ActivateDevice: the notice is pushed, and not stored.
Activate(d) == \E p \in job[d].id :
    /\ At(d, "activate") /\ conn[d] = "on" /\ Accepts(p, job[d].revision)
    /\ row' = [row EXCEPT ![p] = "active"]
    /\ revision' = job[d].revision
    /\ signed' = signed \cup {[revision |-> job[d].revision, device |-> p]}
    /\ queue' = Pushed(p, Event(0, d, p, "activated", 0))
    /\ Proceed(d)
    /\ UNCHANGED <<events, last, conn, keys, books, pairing, requests, job, ghosts>>

Answer(d) ==
    /\ At(d, "answer") /\ conn[d] = "on" /\ Proceed(d)
    /\ UNCHANGED <<database, wire, keys, books, pairing, requests, job, ghosts>>

\* The request is refused, or there is no connection (any more): the handler returns its
\* error.  A user may confirm while offline, with the other side's answer already in.
Abort(d) ==
    /\ todo[d] # <<>>
    /\ \/ conn[d] \in {"broken", "off"} /\ Head(todo[d]) \notin {"note", "settle"}
       \/ At(d, "activate") /\ \A p \in job[d].id : ~Accepts(p, job[d].revision)
    /\ todo' = [todo EXCEPT ![d] = <<>>]
    /\ UNCHANGED <<database, wire, keys, books, pairing, requests, job, ghosts>>

Note(d) == \E p \in job[d].id :
    /\ At(d, "note") /\ Proceed(d)
    /\ Noticed(d, p, "Completed")
    /\ UNCHANGED <<database, wire, keys, processed, pairing, requests, job, ghosts>>

\* mark_pairing_event_processed, a transaction of its own, and the acknowledgement.
Settle(d) ==
    /\ At(d, "settle") /\ Proceed(d)
    /\ processed' = [processed EXCEPT ![d] = @ \cup {job[d].event}]
    /\ Acknowledge(d, job[d].event)
    /\ UNCHANGED <<row, revision, signed, last, wire, keys, note, pairing, requests, job, ghosts>>

Step(d) == \/ SendPayload(d) \/ Lookup(d) \/ Activate(d) \/ Answer(d) \/ Abort(d)
           \/ Note(d) \/ Settle(d)

\* reconcile_pairing_notifications, with the heartbeat.
Reconcile(d) ==
    LET over == {p \in Noted(d) : row[p] = "active"}
    IN  /\ Idle(d) /\ conn[d] = "on" /\ profile[d] = "active" /\ over # {}
        /\ note' = [note EXCEPT ![d] = [p \in New |->
                       IF p \in over THEN [@[p] EXCEPT !.state = "Completed"] ELSE @[p]]]
        /\ requests' = [requests EXCEPT ![d] = @ \ over]
        /\ UNCHANGED <<database, wire, keys, processed, pairing, todo, job, ghosts>>

----------------------------------------------------------------------------
(* What goes wrong *)

Forget(d) ==
    /\ queue' = [queue EXCEPT ![d] = <<>>]
    /\ pairing' = [pairing EXCEPT ![d] = {}] /\ requests' = [requests EXCEPT ![d] = {}]
    /\ todo' = [todo EXCEPT ![d] = <<>>] /\ job' = [job EXCEPT ![d] = NoJob]

\* The client program ends, perhaps between the mark and the acknowledgement; before its
\* profile is saved its device id is lost with it.
Crash(d) ==
    /\ conn[d] \notin {"fresh", "down", "lost"} /\ Spend("crash")
    /\ conn' = [conn EXCEPT ![d] = IF profile[d] = "none" THEN "lost" ELSE "down"]
    /\ Forget(d)
    /\ \/ UNCHANGED processed
          /\ interrupted' = IF todo[d] = <<>> THEN interrupted
                            ELSE interrupted \cup {<<d, s.channel>> : s \in pairing[d]}
       \/ At(d, "settle")
          /\ processed' = [processed EXCEPT ![d] = @ \cup {job[d].event}]
          /\ UNCHANGED interrupted
    /\ UNCHANGED <<database, keys, note, drawn, confirmed>>

\* The connection breaks; the server sees it at once, the client later.
Cut(d) ==
    /\ conn[d] = "on" /\ Spend("cut")
    /\ conn' = [conn EXCEPT ![d] = "broken"]
    /\ UNCHANGED <<database, queue, keys, books, memory, drawn, confirmed,
                   interrupted>>
Notice(d) ==
    /\ conn[d] = "broken" /\ todo[d] = <<>>
    /\ conn' = [conn EXCEPT ![d] = "off"] /\ queue' = [queue EXCEPT ![d] = <<>>]
    /\ UNCHANGED <<database, keys, books, memory, ghosts>>

\* A pending client without a connection: all the user can do is to start it again.
Quit(d) ==
    /\ Idle(d) /\ conn[d] = "off" /\ profile[d] = "pending"
    /\ conn' = [conn EXCEPT ![d] = "down"]
    /\ Forget(d)
    /\ UNCHANGED <<database, keys, books, ghosts>>

\* Another device of the account is activated in the meantime.
RosterMoves ==
    /\ Spend("other")
    /\ revision' = revision + 1
    /\ signed' = signed \cup {[revision |-> revision + 1, device |-> "other"]}
    /\ UNCHANGED <<row, events, last, wire, keys, books, memory, drawn, confirmed,
                   interrupted>>

\* cleanup_expired_pairing_events.
Expire ==
    /\ events # {} /\ Spend("expire")
    /\ events' = {}
    /\ UNCHANGED <<row, revision, signed, last, wire, keys, books, memory, drawn, confirmed,
                   interrupted>>

\* confirm_delete of a pairing notification.
Dismiss(d, p) ==
    /\ Idle(d) /\ note[d][p].state # "none" /\ Spend("dismiss")
    /\ note' = [note EXCEPT ![d][p] = NoNote]
    /\ requests' = IF \E s \in pairing[d] : s.id = p THEN requests
                   ELSE [requests EXCEPT ![d] = @ \ {p}]
    /\ UNCHANGED <<database, wire, keys, processed, pairing, todo, job, drawn, confirmed,
                   interrupted>>

----------------------------------------------------------------------------
Enrol(p) == Check(p) \/ Submit(p) \/ SaveProfile(p)
Loop(d) == Login(d) \/ Reconnect(d) \/ Greet(d) \/ Take(d) \/ Step(d) \/ Notice(d)
User(d) == Confirm(d) \/ Quit(d) \/ \E p \in New : StartPairing(d, p)
Disturb == \/ RosterMoves \/ Expire
           \/ \E d \in Device : Crash(d) \/ Cut(d) \/ \E p \in New : Dismiss(d, p)

Next == \/ \E p \in New : Enrol(p)
        \/ \E d \in Device : Loop(d) \/ User(d) \/ Reconcile(d)
        \/ Disturb

Spec == Init /\ [][Next]_vars

\* The loop and the server go on, and the users follow the instructions: they log in,
\* start the pairing that is offered, compare and confirm, and start the program again.
FairSpec ==
    /\ Spec
    /\ \A p \in New : WF_vars(Enrol(p))
    /\ \A d \in Device :
        /\ WF_vars(Loop(d)) /\ WF_vars(Confirm(d)) /\ WF_vars(Quit(d)) /\ WF_vars(Reconcile(d))
        /\ \A p \in New : WF_vars(StartPairing(d, p))

----------------------------------------------------------------------------
Types == {"public", "confirmed", "bootstrap", "chunk", "activated", "request"}
Sessions == [id : New, peer : Device, channel : Channel, ours : BOOLEAN, theirs : BOOLEAN]

\* The types; moreover a device takes its own notification for that of a pending side, an
\* approver has the key, and an event that is stored was sent by one end to the other.
PairingTypeOK ==
    /\ row \in [Device -> {"none", "pending", "active"}]
    /\ profile \in [Device -> {"none", "pending", "active"}]
    /\ \A d \in Device : conn[d] \in
        {"fresh", "submitting", "saving", "lost", "down", "greeting", "on", "broken", "off"}
    /\ \A d \in Device : pairing[d] \subseteq Sessions /\ Cardinality(pairing[d]) <= 1
    /\ \A d \in Device : \A s \in pairing[d] : Approver(d, s) => secret[d] /\ profile[d] = "active"
    /\ \A e \in events : e.id \in 1 .. last /\ e.type \in Types /\ e.channel \in Channel
    /\ \A e \in events : {e.from, e.to} = {drawn[e.channel].by, drawn[e.channel].with}
    /\ \A d \in Device : profile[d] # "none" => row[d] # "none"

\* The account's key is only ever sent over a channel whose code both users, on both
\* ends, have found to be the same; a confirmation given for an earlier code is none
\* (confirm_pairing, handle_pairing_event, finish_pairing_as_approver).
KeysOverConfirmedChannel ==
    \A e \in events : e.type = "bootstrap" =>
        {<<e.from, e.channel>>, <<e.to, e.channel>>} \subseteq confirmed

\* Two approvals at a time never sign the same revision of the roster, and the server's
\* revision is that of the last one accepted (Db::activate_device).
RosterLinear ==
    /\ \A s, t \in signed : s.revision = t.revision => s = t
    /\ revision = Cardinality(Old) + Cardinality(signed)

\* A confirmation stands until its program ends, the pairing is over or another code takes
\* its place: an event delivered twice does not ask for it again (processed_pairing_events),
\* except after a crash between the handling of the event and its mark.
ConfirmationStands ==
    [][\A d \in Device : \A s \in pairing[d] :
          s.ours /\ conn'[d] # "down" /\ <<d, s.channel>> \notin interrupted =>
          \A t \in pairing'[d] : t.channel = s.channel => t.ours]_vars

\* A device that stays connected, approved by one device whose connection holds, ends up
\* active on both sides, whatever restarts and competing activations there are on the way.
Undisturbed(p) ==
    /\ conn[p] # "down" /\ conn[p] # "lost"
    /\ \A d \in Device : conn[d] # "broken"
    /\ \A i, j \in DOMAIN drawn : drawn[i].with = p /\ drawn[j].with = p
                                    => drawn[i].by = drawn[j].by
OfferedTo(p) == \E d \in Old : note[d][p].state # "none"
PairedInTheEnd ==
    \A p \in New : ([]Undisturbed(p) /\ <>[]OfferedTo(p)) => <>(profile[p] = "active")

\* README.md:342: the new device switches to its own connection by itself; README.md:607:
\* if the network is down just then it keeps trying, without a restart or the password.
SwitchesOver == \A p \in New : row[p] = "active" ~> profile[p] = "active"
=============================================================================
