------------------------------ MODULE Sessions ------------------------------
(***************************************************************************)
(* The connections of one account on the server (ws.rs): admission before  *)
(* the WebSocket upgrade, one task per connection, the two shared maps     *)
(* `connections` (device -> newest connection) and `sessions`, and every   *)
(* way a connection is told to end (replaced, kicked, access revoked).     *)
(*                                                                         *)
(* A task awaits between its database reads, the two maps and its sends,   *)
(* so each of these is a step; holding one lock is one step.  A challenge  *)
(* lives and dies inside its task and signatures are ideal, so ClientHello *)
(* is part of the authentication step, and the account and the device are  *)
(* read together.                                                          *)
(***************************************************************************)
EXTENDS Integers, FiniteSets

CONSTANTS
    Conn,               \* connections, each with its own token
    Device,             \* device ids of the account
    Ip, IpOf,           \* source address of each connection
    MaxTotal, MaxPerIp, MaxUnauthenticated,
    Faults,             \* subset of AnyFault
    MaxCommands         \* bound on the administrator's commands

AnyFault == {"upgrade", "writer", "order"}

ASSUME IpAssumption == IpOf \in [Conn -> Ip]
ASSUME LimitAssumption ==
    /\ MaxTotal \in Nat /\ MaxPerIp \in Nat /\ MaxUnauthenticated \in Nat
    /\ MaxCommands \in Nat /\ Faults \subseteq AnyFault

VARIABLES
    stage,          \* where each task is
    session,        \* the task's session slot: {} or a singleton
    claim,          \* the session a handler is registering, {} or a singleton
    target,         \* the device a handler has revoked and has still to kick
    marked,         \* admitted_as_unauthenticated is FALSE
    signalled,      \* the disconnect watch channel holds a reason
    connections,    \* device -> {} or the registered connection
    sessions,       \* tokens listed as sessions
    admission,      \* [total, by_ip, unauthenticated_by_ip]
    row,            \* the device rows of the account
    account,        \* the state column of the account
    order,          \* what an administrator's command has still to do
    commands        \* administrator commands so far

task == <<stage, session, claim, target, marked>>
shared == <<signalled, connections, sessions, admission>>
database == <<row, account>>
operator == <<order, commands>>
vars == <<task, shared, database, operator>>

Stage == {"new", "upgrading", "dropped", "idle", "skipping", "serving", "claiming", "listing",
          "greeting", "kicking", "handled", "leaving", "releasing", "ended"}
Session == [device : Device, pending : BOOLEAN]
\* "barred" is a row that is both pending and revoked.
DeviceRow == {"none", "pending", "barred", "active", "revoked"}
Admission == [total : 0 .. MaxTotal, by_ip : [Ip -> 0 .. MaxPerIp],
              unauthenticated_by_ip : [Ip -> 0 .. MaxUnauthenticated]]

Revoked(state) ==
    CASE state = "active" -> "revoked" [] state = "pending" -> "barred" [] OTHER -> state
Activated(state) == IF state = "barred" THEN "revoked" ELSE "active"

\* What both authentication by signature and the check of every frame ask for.
Allowed(d) == account = "active" /\ row[d] = "active"

Init ==
    /\ stage = [c \in Conn |-> "new"]
    /\ session = [c \in Conn |-> {}] /\ claim = [c \in Conn |-> {}]
    /\ target = [c \in Conn |-> {}] /\ marked = [c \in Conn |-> FALSE]
    /\ signalled = [c \in Conn |-> FALSE]
    /\ connections = [d \in Device |-> {}] /\ sessions = {}
    /\ admission = [total |-> 0, by_ip |-> [i \in Ip |-> 0],
                    unauthenticated_by_ip |-> [i \in Ip |-> 0]]
    /\ row \in [Device -> {"none", "pending", "active"}] /\ account = "active"
    /\ order = "none" /\ commands = 0

Go(c, from, to) == stage[c] = from /\ stage' = [stage EXCEPT ![c] = to]

----------------------------------------------------------------------------
(* Admission *)

\* Mutant of HasRoom: the limits are compared one too late.
HasRoomOffByOne(i) ==
    /\ admission.total <= MaxTotal /\ admission.by_ip[i] <= MaxPerIp
    /\ admission.unauthenticated_by_ip[i] <= MaxUnauthenticated

HasRoom(i) ==
    /\ admission.total < MaxTotal /\ admission.by_ip[i] < MaxPerIp
    /\ admission.unauthenticated_by_ip[i] < MaxUnauthenticated

Admit(c) ==
    LET i == IpOf[c] IN
    /\ HasRoom(i)
    /\ Go(c, "new", "upgrading")
    /\ admission' = [admission EXCEPT !.total = @ + 1, !.by_ip[i] = @ + 1,
                                      !.unauthenticated_by_ip[i] = @ + 1]
    /\ UNCHANGED <<session, claim, target, marked, signalled, connections, sessions, database,
                   operator>>

Upgrade(c) ==
    /\ Go(c, "upgrading", "idle")
    /\ UNCHANGED <<session, claim, target, marked, shared, database, operator>>

\* The upgrade never completes: the closure that runs `connection` is dropped.
UpgradeFails(c) ==
    /\ "upgrade" \in Faults
    /\ Go(c, "upgrading", "dropped")
    /\ UNCHANGED <<session, claim, target, marked, shared, database, operator>>

Less(n) == IF n = 0 THEN 0 ELSE n - 1

----------------------------------------------------------------------------
(* The loop of `connection` *)

\* Mutant of Passes: access is not looked up again after authentication.
PassesOnceIn(c) == TRUE

\* A session that is not pending has its account and device looked up.
Passes(c) == \A s \in session[c] : s.pending \/ Allowed(s.device)

Frame(c) ==
    /\ Go(c, "idle", IF Passes(c) THEN "serving" ELSE "leaving")
    /\ UNCHANGED <<session, claim, target, marked, shared, database, operator>>

\* A WebSocket ping, a message that is not binary, a frame that does not decode or is
\* of another version: answered or dropped before anybody's access is looked up, ...
Skip(c) ==
    /\ Go(c, "idle", "skipping")
    /\ UNCHANGED <<session, claim, target, marked, shared, database, operator>>

\* ... and the loop waits again, with 60 s to go.
Skipped(c) ==
    /\ Go(c, "skipping", "idle")
    /\ UNCHANGED <<session, claim, target, marked, shared, database, operator>>

\* disconnect_rx.changed()
Hear(c) ==
    /\ signalled[c] /\ Go(c, "idle", "leaving")
    /\ UNCHANGED <<session, claim, target, marked, shared, database, operator>>

\* The peer closes, is silent for 60 s, breaks the framing or is rate limited.
Hangup(c) ==
    /\ Go(c, "idle", "leaving")
    /\ UNCHANGED <<session, claim, target, marked, shared, database, operator>>

\* A frame that changes nothing modelled here, or that is refused.
Serve(c) ==
    /\ Go(c, "serving", "handled")
    /\ UNCHANGED <<session, claim, target, marked, shared, database, operator>>

\* Mutant of Return: the task forgets that it has been counted as authenticated.
ReturnUnmarked(c) ==
    /\ Go(c, "handled", "idle")
    /\ admission' = IF session[c] = {} THEN admission
                    ELSE [admission EXCEPT !.unauthenticated_by_ip[IpOf[c]] = Less(@)]
    /\ UNCHANGED <<marked, session, claim, target, signalled, connections, sessions, database,
                   operator>>

\* The handler has returned; mark_authenticated runs once, when there is a session.
Return(c) ==
    /\ Go(c, "handled", "idle")
    /\ IF session[c] = {} \/ marked[c]
       THEN UNCHANGED <<marked, admission>>
       ELSE /\ marked' = [marked EXCEPT ![c] = TRUE]
            /\ admission' = [admission EXCEPT !.unauthenticated_by_ip[IpOf[c]] = Less(@)]
    /\ UNCHANGED <<session, claim, target, signalled, connections, sessions, database, operator>>

----------------------------------------------------------------------------
(* Authentication *)

\* Mutant of DeviceAuth: device.pending is not looked at.
DeviceAuthUnlessRevoked(c, d) ==
    /\ session[c] = {} /\ account = "active" /\ row[d] \in {"active", "pending"}
    /\ Go(c, "serving", "claiming")
    /\ claim' = [claim EXCEPT ![c] = {[device |-> d, pending |-> FALSE]}]
    /\ UNCHANGED <<session, target, marked, shared, database, operator>>

\* DeviceAuth up to the checks of the database.
DeviceAuth(c, d) ==
    /\ session[c] = {} /\ Allowed(d)
    /\ Go(c, "serving", "claiming")
    /\ claim' = [claim EXCEPT ![c] = {[device |-> d, pending |-> FALSE]}]
    /\ UNCHANGED <<session, target, marked, shared, database, operator>>

\* PasswordAuth of a device that is not on record: there is nothing to register.
PasswordAuthNew(c, d) ==
    /\ session[c] = {} /\ account = "active" /\ row[d] = "none"
    /\ Go(c, "serving", "handled")
    /\ session' = [session EXCEPT ![c] = {[device |-> d, pending |-> TRUE]}]
    /\ UNCHANGED <<claim, target, marked, shared, database, operator>>

\* PasswordAuth of a pending device; whether it is revoked is not asked.
PasswordAuthPending(c, d) ==
    /\ session[c] = {} /\ account = "active" /\ row[d] \in {"pending", "barred"}
    /\ Go(c, "serving", "claiming")
    /\ claim' = [claim EXCEPT ![c] = {[device |-> d, pending |-> TRUE]}]
    /\ UNCHANGED <<session, target, marked, shared, database, operator>>

\* BootstrapDevice: the first device of a generation becomes active at once, any
\* other one waits.  The slot is changed in place before the registration.
Bootstrap(c) ==
    \E s \in session[c], pending \in BOOLEAN :
        /\ s.pending /\ row[s.device] = "none" /\ account # "deleted"
        /\ ~pending => \A d \in Device : row[d] \notin {"active", "pending"}
        /\ Go(c, "serving", "claiming")
        /\ row' = [row EXCEPT ![s.device] = IF pending THEN "pending" ELSE "active"]
        /\ session' = [session EXCEPT ![c] = {[s EXCEPT !.pending = pending]}]
        /\ claim' = [claim EXCEPT ![c] = {[s EXCEPT !.pending = pending]}]
        /\ UNCHANGED <<target, marked, shared, account, operator>>

\* Mutant of RegisterConnection: the connection before is not told.
RegisterQuietly(c) ==
    \E s \in claim[c] :
        /\ Go(c, "claiming", "listing")
        /\ connections' = [connections EXCEPT ![s.device] = {c}]
        /\ UNCHANGED <<session, claim, target, marked, signalled, sessions, admission, database,
                       operator>>

\* register, under the lock of `connections`: the connection before is told.
RegisterConnection(c) ==
    \E s \in claim[c] :
        /\ Go(c, "claiming", "listing")
        /\ connections' = [connections EXCEPT ![s.device] = {c}]
        /\ signalled' = [e \in Conn |-> signalled[e] \/ e \in connections[s.device]]
        /\ UNCHANGED <<session, claim, target, marked, sessions, admission, database, operator>>

\* register, under the lock of `sessions`.
RegisterSession(c) ==
    /\ Go(c, "listing", "greeting")
    /\ sessions' = sessions \cup {c}
    /\ UNCHANGED <<session, claim, target, marked, signalled, connections, admission, database,
                   operator>>

\* send_authenticated and push_post_auth have run: the session slot is filled.
Greet(c) ==
    /\ Go(c, "greeting", "handled")
    /\ session' = [session EXCEPT ![c] = claim[c]]
    /\ claim' = [claim EXCEPT ![c] = {}]
    /\ UNCHANGED <<target, marked, shared, database, operator>>

\* The socket breaks and the writer task ends: a send of the handler fails, it returns
\* early, the slot keeps what it had and the next read ends the loop.
GreetFails(c) ==
    /\ "writer" \in Faults
    /\ Go(c, "greeting", "leaving")
    /\ claim' = [claim EXCEPT ![c] = {}]
    /\ UNCHANGED <<session, target, marked, shared, database, operator>>

----------------------------------------------------------------------------
(* Roster changes by a device, and kicks *)

MayAct(c) == \E s \in session[c] : ~s.pending

RevokeOwnDevice(c, d) ==
    /\ MayAct(c) /\ \A s \in session[c] : s.device # d
    /\ row[d] \in {"active", "pending"}
    /\ Go(c, "serving", "kicking")
    /\ row' = [row EXCEPT ![d] = Revoked(@)]
    /\ target' = [target EXCEPT ![c] = {d}]
    /\ UNCHANGED <<session, claim, marked, shared, account, operator>>

\* activate_device asks for pending = 1 only.
ActivateDevice(c, d) ==
    /\ MayAct(c) /\ row[d] \in {"pending", "barred"}
    /\ Go(c, "serving", "handled")
    /\ row' = [row EXCEPT ![d] = Activated(@)]
    /\ UNCHANGED <<session, claim, target, marked, shared, account, operator>>

SignalAll(S) == signalled' = [c \in Conn |-> signalled[c] \/ c \in S]
OnDevice(d) == connections[d]

KickRevoked(c) ==
    /\ Go(c, "kicking", "handled")
    /\ SignalAll(UNION {OnDevice(d) : d \in target[c]})
    /\ target' = [target EXCEPT ![c] = {}]
    /\ UNCHANGED <<session, claim, marked, connections, sessions, admission, database, operator>>

----------------------------------------------------------------------------
(* The end of a task *)

\* Mutant of Unregistered: the entry goes whoever it belongs to.
UnregisteredByDevice(c, d) == [connections EXCEPT ![d] = {}]

Unregistered(c, d) == [connections EXCEPT ![d] = @ \ {c}]

\* unregister, for the device of the session slot; both maps are locked.
Unregister(c) ==
    /\ Go(c, "leaving", "releasing")
    /\ \/ session[c] = {} /\ UNCHANGED <<connections, sessions>>
       \/ \E s \in session[c] :
             /\ connections' = Unregistered(c, s.device)
             /\ sessions' = sessions \ {c}
    /\ UNCHANGED <<session, claim, target, marked, signalled, admission, database, operator>>

Release(c) ==
    LET i == IpOf[c] IN
    /\ Go(c, "releasing", "ended")
    /\ admission' =
          [admission EXCEPT !.total = Less(@), !.by_ip[i] = Less(@),
                            !.unauthenticated_by_ip[i] = IF marked[c] THEN @ ELSE Less(@)]
    /\ UNCHANGED <<session, claim, target, marked, signalled, connections, sessions, database,
                   operator>>

----------------------------------------------------------------------------
(* The administrator, in a process of its own: a transaction, then a request *)
(* over the control socket, whose failure is ignored.                        *)

Command(next) ==
    /\ order = "none" /\ commands < MaxCommands
    /\ order' = next /\ commands' = commands + 1

SetUserState(state) ==
    /\ account # "deleted" /\ account' = state
    /\ Command(IF state = "disabled" THEN "account" ELSE "none")
    /\ UNCHANGED <<task, shared, row>>

ResetDevices ==
    /\ account # "deleted" /\ row' = [d \in Device |-> Revoked(row[d])]
    /\ Command("account")
    /\ UNCHANGED <<task, shared, account>>

AdminRevokeDevice(d) ==
    /\ row[d] # "none" /\ row' = [row EXCEPT ![d] = Revoked(@)]
    /\ Command(d)
    /\ UNCHANGED <<task, shared, account>>

\* delete_user disconnects first and deletes then.
DeleteUser ==
    /\ account # "deleted" /\ Command("delete")
    /\ SignalAll(sessions)
    /\ UNCHANGED <<task, connections, sessions, admission, database>>

DeleteRecords ==
    /\ order = "delete" /\ order' = "none"
    /\ row' = [d \in Device |-> "none"] /\ account' = "deleted"
    /\ UNCHANGED <<task, shared, commands>>

KickAccount ==
    /\ order = "account" /\ order' = "none"
    /\ SignalAll(sessions)
    /\ UNCHANGED <<task, connections, sessions, admission, database, commands>>

KickDevice ==
    /\ order \in Device /\ order' = "none"
    /\ SignalAll(OnDevice(order))
    /\ UNCHANGED <<task, connections, sessions, admission, database, commands>>

KickSession(c) ==
    /\ c \in sessions /\ Command("none")
    /\ SignalAll({c})
    /\ UNCHANGED <<task, connections, sessions, admission, database>>

\* The command ends before its request, or the socket cannot be reached.
OrderLost ==
    /\ "order" \in Faults /\ order # "none" /\ order' = "none"
    /\ UNCHANGED <<task, shared, database, commands>>

----------------------------------------------------------------------------
Task(c) ==
    \/ Upgrade(c) \/ UpgradeFails(c) \/ Frame(c) \/ Skip(c) \/ Skipped(c) \/ Hear(c) \/ Hangup(c)
    \/ Serve(c) \/ Return(c)
    \/ \E d \in Device : DeviceAuth(c, d) \/ PasswordAuthNew(c, d) \/ PasswordAuthPending(c, d)
    \/ Bootstrap(c) \/ RegisterConnection(c) \/ RegisterSession(c) \/ Greet(c) \/ GreetFails(c)
    \/ \E d \in Device : RevokeOwnDevice(c, d) \/ ActivateDevice(c, d)
    \/ KickRevoked(c) \/ Unregister(c) \/ Release(c)

Administrator ==
    \/ \E state \in {"active", "disabled"} : SetUserState(state)
    \/ ResetDevices \/ (\E d \in Device : AdminRevokeDevice(d))
    \/ DeleteUser \/ DeleteRecords \/ KickAccount \/ KickDevice
    \/ (\E c \in Conn : KickSession(c)) \/ OrderLost

Next == (\E c \in Conn : Admit(c) \/ Task(c)) \/ Administrator

Spec == Init /\ [][Next]_vars

\* The runtime polls every task; a peer that sends nothing at all is dropped after 60 s
\* (one that only pings is not), and select! polls its branches in random order, so a
\* signal is heard even on a busy connection.
\* An administrator's command that is not lost runs to its end.
FairSpec ==
    /\ Spec
    /\ \A c \in Conn : WF_vars(Task(c)) /\ SF_vars(Hear(c))
    /\ WF_vars(KickAccount \/ KickDevice \/ DeleteRecords)

----------------------------------------------------------------------------
(* Properties *)

\* Every variable holds what the program can hold; the counters of `admit` stay within
\* their limits.
SessionsTypeOK ==
    /\ stage \in [Conn -> Stage]
    /\ session \in [Conn -> SUBSET Session] /\ claim \in [Conn -> SUBSET Session]
    /\ target \in [Conn -> SUBSET Device] /\ marked \in [Conn -> BOOLEAN]
    /\ signalled \in [Conn -> BOOLEAN]
    /\ connections \in [Device -> SUBSET Conn] /\ sessions \subseteq Conn
    /\ admission \in Admission
    /\ row \in [Device -> DeviceRow] /\ account \in {"active", "disabled", "deleted"}
    /\ order \in {"none", "account", "delete"} \cup Device
    /\ commands \in 0 .. MaxCommands

Held == {c \in Conn : stage[c] \notin {"new", "ended"}}
HeldFrom(i) == {c \in Held : IpOf[c] = i}

\* The saturating counters of `admission` never drift: each says how many connections
\* were admitted and not released, whatever the order of authentications and endings.
AdmissionExact ==
    /\ admission.total = Cardinality(Held)
    /\ \A i \in Ip :
          /\ admission.by_ip[i] = Cardinality(HeldFrom(i))
          /\ admission.unauthenticated_by_ip[i] = Cardinality({c \in HeldFrom(i) : ~marked[c]})

\* The three limits of `admit` hold of the connections themselves, not only of the counters.
LimitsRespected ==
    /\ Cardinality(Held) <= MaxTotal
    /\ \A i \in Ip :
          /\ Cardinality(HeldFrom(i)) <= MaxPerIp
          /\ Cardinality({c \in HeldFrom(i) : session[c] = {}}) <= MaxUnauthenticated

\* A connection listed as a session of a device and not told to leave is the one
\* pushes for the device go to: `register` and a late `unregister` leave no orphan.
NewestIsReachable ==
    \A c \in sessions : \A s \in session[c] :
        signalled[c] \/ connections[s.device] = {c}

\* What `/devices` and `session list` show as online has a task (online_devices,
\* live_sessions): no entry outlives its connection.
OnlineIsConnected ==
    /\ \A c \in sessions : stage[c] # "ended"
    /\ \A d \in Device : \A c \in connections[d] : stage[c] # "ended"

\* No session may act for a device no other device has approved, whatever was
\* revoked, activated and bootstrapped in between.
ActsOnlyApproved ==
    account # "deleted" =>
        \A c \in Conn : \A s \in session[c] :
            s.pending \/ row[s.device] \in {"active", "revoked"}

\* A connection that lost its place to a newer one of the same device ends, so in
\* the end a device has one connection.
Superseded(c) ==
    /\ stage[c] # "ended" /\ c \in sessions
    /\ \E s \in session[c] : \E e \in connections[s.device] : e # c
ReplacedEnds == \A c \in Conn : Superseded(c) ~> stage[c] = "ended"

Barred(s) == account # "active" \/ row[s.device] \in {"barred", "revoked"}

Intruding(c) == stage[c] # "ended" /\ \E s \in session[c] : ~s.pending /\ Barred(s)
Pinging(c) == stage[c] \in {"idle", "skipping"} /\ ~signalled[c]

\* A device that may not act any more is off the server in the end, even when the
\* kick found no connection to signal or was lost: the check of each frame of a device
\* that goes on asking sees to it, and the timeout of one that falls silent.  A peer
\* that was not told and from some time on only pings is neither checked nor timed out.
CutOff == \A c \in Conn : <>[]Pinging(c) \/ (Intruding(c) ~> ~Intruding(c))

\* The same without the exception for the peer that only pings, which the loop of
\* `connection` does not promise.
CutOffAnyway == \A c \in Conn : Intruding(c) ~> ~Intruding(c)

Online(c) == stage[c] # "ended" /\ session[c] # {}

\* README: a revoked device is offline at once; here, at least in the end.
OnlineRevoked(c) == Online(c) /\ \E s \in session[c] : row[s.device] \in {"barred", "revoked"}
RevokedGoesOffline == \A c \in Conn : OnlineRevoked(c) ~> ~OnlineRevoked(c)
=============================================================================
