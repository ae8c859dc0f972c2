------------------------------- MODULE Prekeys -------------------------------
(***************************************************************************)
(* One-time prekeys and Olm sessions (machine.rs, main.rs, app.rs, db.rs): *)
(* a device publishes prekeys when it logs in, a sender without a session  *)
(* claims one from the server, and either side keeps its sessions and the  *)
(* private keys in its saved machine.                                      *)
(*                                                                         *)
(* Every device runs the same client.  A claim is awaited, so a message to *)
(* several devices takes several steps, on a copy of the machine that is   *)
(* saved with the message in one transaction.  Messages under way may be   *)
(* imported in any order, since pushes overtake each other.  A key is      *)
(* named by its id and by the login that generated it: ids are counted in  *)
(* the machine, so a machine that was not saved counts them again.         *)
(***************************************************************************)
EXTENDS Integers, FiniteSets, Sequences

CONSTANTS
    Device,
    Account,        \* the account of a device
    Target,         \* prekeys a device keeps, 50 in the code
    MaxLogins,      \* bounds: logins that generate keys,
    MaxSends,       \* messages written,
    MaxFaults       \* clients that end, and claims without an answer

ASSUME BoundAssumption == {Target, MaxLogins, MaxSends, MaxFaults} \subseteq Nat

VARIABLES
    table,          \* server: table prekeys, per device
    mailbox,        \* server: messages a device has still to import
    private,        \* saved machine: one-time keys with their private part
    next,           \* saved machine: the id of the next key
    unmarked,       \* saved machine: keys not marked as published
    sessions,       \* saved machine: per other device, the newest last
    heard,          \* saved machine: sessions that have decrypted something
    phase,          \* the client: "off", "publishing", "published", "on"
    generated,      \* the keys of the login at work, in memory
    job,            \* the message being encrypted: {} or one [to, new]
    logins, sends, faults,
    claimed,        \* history: keys handed out
    orphans         \* history: keys of logins that ended before the machine was saved

machine == <<private, next, unmarked, sessions, heard>>
counters == <<logins, sends, faults>>
vars == <<table, mailbox, machine, phase, generated, job, counters, claimed, orphans>>

Key == [of : Device, id : Nat, login : Nat]
Session == [by : Device, to : Device, key : Key]
\* A prekey message lets the recipient build the session.
Ciphertext == [from : Device, session : Session, pre : BOOLEAN]
Job == [to : SUBSET Device, new : SUBSET Session]

Fault == faults < MaxFaults /\ faults' = faults + 1
FirstKeys(d) == {[of |-> d, id |-> i, login |-> 0] : i \in 1 .. Target}

\* Enrolled devices, as Body::BootstrapDevice and save_profile leave them.
Init ==
    /\ private = [d \in Device |-> FirstKeys(d)]
    /\ table = private
    /\ next = [d \in Device |-> Target + 1]
    /\ unmarked = [d \in Device |-> {}]
    /\ sessions = [d \in Device |-> [e \in Device |-> <<>>]]
    /\ heard = [d \in Device |-> {}]
    /\ mailbox = [d \in Device |-> {}]
    /\ phase = [d \in Device |-> "off"]
    /\ generated = [d \in Device |-> {}]
    /\ job = [d \in Device |-> {}]
    /\ logins = 0 /\ sends = 0 /\ faults = 0 /\ claimed = {} /\ orphans = {}

----------------------------------------------------------------------------
(* Logging in: main.rs authenticate *)

Missing(d) == Target - Cardinality(private[d])

\* stored_prekey_count counts private parts, whatever became of the public ones.
LoginComplete(d) ==
    /\ phase[d] = "off" /\ Missing(d) <= 0
    /\ phase' = [phase EXCEPT ![d] = "on"]
    /\ UNCHANGED <<table, mailbox, machine, generated, job, counters, claimed, orphans>>

\* The keys missing, with the next ids.
Fresh(d) == {[of |-> d, id |-> next[d] + i, login |-> logins + 1] : i \in 0 .. Missing(d) - 1}

\* Mutant of LoginShort: the profile is saved before the keys are published.
LoginShortSaves(d) ==
    /\ phase[d] = "off" /\ Missing(d) > 0
    /\ logins < MaxLogins /\ logins' = logins + 1
    /\ generated' = [generated EXCEPT ![d] = Fresh(d)]
    /\ private' = [private EXCEPT ![d] = @ \cup Fresh(d)]
    /\ unmarked' = [unmarked EXCEPT ![d] = @ \cup Fresh(d)]
    /\ phase' = [phase EXCEPT ![d] = "publishing"]
    /\ UNCHANGED <<table, mailbox, next, sessions, heard, job, sends, faults, claimed, orphans>>

\* generate_prekeys, in memory.
LoginShort(d) ==
    /\ phase[d] = "off" /\ Missing(d) > 0
    /\ logins < MaxLogins /\ logins' = logins + 1
    /\ generated' = [generated EXCEPT ![d] = Fresh(d)]
    /\ phase' = [phase EXCEPT ![d] = "publishing"]
    /\ UNCHANGED <<table, mailbox, machine, job, sends, faults, claimed, orphans>>

Offered(d) == generated[d] \cup unmarked[d]

\* Mutant of Inserted: INSERT without OR IGNORE and without the primary key.
InsertedBeside(d) == table[d] \cup Offered(d)

\* Db::publish_prekeys: INSERT OR IGNORE, PRIMARY KEY(device_id, key_id).
Inserted(d) == table[d] \cup {k \in Offered(d) : \A j \in table[d] : j.id # k.id}

Publish(d) ==
    /\ phase[d] = "publishing"
    /\ table' = [table EXCEPT ![d] = Inserted(d)]
    /\ phase' = [phase EXCEPT ![d] = "published"]
    /\ UNCHANGED <<mailbox, machine, generated, job, counters, claimed, orphans>>

\* Mutant of Marked: mark_prekeys_published is left out.
MarkedNever(d) == Offered(d)

\* mark_prekeys_published: what was generated so far is not offered again.
Marked(d) == {}

SaveProfile(d) ==
    /\ phase[d] = "published"
    /\ private' = [private EXCEPT ![d] = @ \cup generated[d]]
    /\ next' = [next EXCEPT ![d] = @ + Cardinality(generated[d])]
    /\ unmarked' = [unmarked EXCEPT ![d] = Marked(d)]
    /\ generated' = [generated EXCEPT ![d] = {}]
    /\ phase' = [phase EXCEPT ![d] = "on"]
    /\ UNCHANGED <<table, mailbox, sessions, heard, job, counters, claimed, orphans>>

\* The client ends, or its publication fails, which ends it too.
End(d) ==
    /\ phase[d] # "off" /\ Fault
    /\ phase' = [phase EXCEPT ![d] = "off"]
    /\ orphans' = IF phase[d] = "published" THEN orphans \cup generated[d] ELSE orphans
    /\ generated' = [generated EXCEPT ![d] = {}]
    /\ job' = [job EXCEPT ![d] = {}]
    /\ UNCHANGED <<table, mailbox, machine, logins, sends, claimed>>

----------------------------------------------------------------------------
(* Sending: encrypt_for, commit_outgoing *)

Idle(d) == phase[d] = "on" /\ job[d] = {}

\* A text or a request goes to every other device of both accounts, a receipt to the
\* peer's, a deletion to the user's own.
Audience(d) ==
    {Device \ {d}, {e \in Device : Account[e] # Account[d]},
     {e \in Device \ {d} : Account[e] = Account[d]}} \ {{}}

Compose(d) ==
    /\ Idle(d)
    /\ sends < MaxSends /\ sends' = sends + 1
    /\ \E to \in Audience(d) : job' = [job EXCEPT ![d] = {[to |-> to, new |-> {}]}]
    /\ UNCHANGED <<table, mailbox, machine, phase, generated, logins, faults, claimed, orphans>>

\* Mutant of Unknown: every message starts a session of its own.
UnknownAlways(d, j) == {e \in j.to : \A s \in j.new : s.to # e}

\* The devices the message needs a new session with: has_session is false.
Unknown(d, j) == {e \in j.to : sessions[d][e] = <<>> /\ \A s \in j.new : s.to # e}

\* The oldest keys: those of the earliest login.
Oldest(e) == {k \in table[e] : \A j \in table[e] : k.login <= j.login}

\* Mutant of Taken: the row is read, not deleted.
TakenNever(e, k) == table[e]

\* Db::claim_prekey: DELETE ... RETURNING.
Taken(e, k) == table[e] \ {k}

ClaimPreKey(d, e) == \E j \in job[d], k \in Oldest(e) :
    /\ phase[d] = "on" /\ e \in Unknown(d, j)
    /\ table' = [table EXCEPT ![e] = Taken(e, k)]
    /\ claimed' = claimed \cup {k}
    /\ \/ /\ job' = [job EXCEPT ![d] =
                        {[j EXCEPT !.new = @ \cup {[by |-> d, to |-> e, key |-> k]}]}]
          /\ UNCHANGED faults
       \/ /\ Fault  \* the answer is lost: the message is not sent
          /\ job' = [job EXCEPT ![d] = {}]
    /\ UNCHANGED <<mailbox, machine, phase, generated, logins, sends, orphans>>

\* "recipient has no available prekey": nothing is sent to anybody, and what was
\* claimed for this message is gone.
NoPreKey(d, e) == \E j \in job[d] :
    /\ phase[d] = "on" /\ e \in Unknown(d, j) /\ table[e] = {}
    /\ job' = [job EXCEPT ![d] = {}]
    /\ UNCHANGED <<table, mailbox, machine, phase, generated, counters, claimed, orphans>>

\* OlmMachine::encrypt and encrypt_existing: the newest session.
With(d, e, j) ==
    IF \E s \in j.new : s.to = e THEN CHOOSE s \in j.new : s.to = e
    ELSE sessions[d][e][Len(sessions[d][e])]

\* The machine and the message are saved together; the outbox sends it (see Outbox).
Commit(d) == \E j \in job[d] :
    /\ phase[d] = "on" /\ Unknown(d, j) = {}
    /\ sessions' = [sessions EXCEPT ![d] = [e \in Device |->
                       IF e \in j.to /\ \E s \in j.new : s.to = e
                       THEN Append(@[e], With(d, e, j)) ELSE @[e]]]
    /\ mailbox' = [e \in Device |->
                      IF e \notin j.to THEN mailbox[e]
                      ELSE LET s == With(d, e, j)
                           IN  mailbox[e] \cup {[from |-> d, session |-> s,
                                                 pre |-> s.by = d /\ s \notin heard[d]]}]
    /\ job' = [job EXCEPT ![d] = {}]
    /\ UNCHANGED <<table, private, next, unmarked, heard, phase, generated, counters, claimed,
                   orphans>>

----------------------------------------------------------------------------
(* Receiving: OlmMachine::decrypt, commit_inbound *)

Has(d, m) == \E i \in DOMAIN sessions[d][m.from] : sessions[d][m.from][i] = m.session

\* A session decrypts it.
ImportKnown(d, m) ==
    /\ Idle(d) /\ Has(d, m)
    /\ heard' = [heard EXCEPT ![d] = @ \cup {m.session}]
    /\ mailbox' = [mailbox EXCEPT ![d] = @ \ {m}]
    /\ UNCHANGED <<table, private, next, unmarked, sessions, phase, generated, job, counters,
                   claimed, orphans>>

\* Mutant of ImportNew: the key is used up, the session is not kept.
ImportNewForgetful(d, m) ==
    /\ Idle(d) /\ ~Has(d, m) /\ m.pre /\ m.session.key \in private[d]
    /\ private' = [private EXCEPT ![d] = @ \ {m.session.key}]
    /\ mailbox' = [mailbox EXCEPT ![d] = @ \ {m}]
    /\ UNCHANGED <<table, next, unmarked, sessions, heard, phase, generated, job, counters,
                   claimed, orphans>>

\* create_inbound_session uses the private key up; the session becomes the newest.
ImportNew(d, m) ==
    /\ Idle(d) /\ ~Has(d, m) /\ m.pre /\ m.session.key \in private[d]
    /\ private' = [private EXCEPT ![d] = @ \ {m.session.key}]
    /\ sessions' = [sessions EXCEPT ![d][m.from] = Append(@, m.session)]
    /\ heard' = [heard EXCEPT ![d] = @ \cup {m.session}]
    /\ mailbox' = [mailbox EXCEPT ![d] = @ \ {m}]
    /\ UNCHANGED <<table, next, unmarked, phase, generated, job, counters, claimed, orphans>>

Next == \E d \in Device :
    \/ LoginComplete(d) \/ LoginShort(d) \/ Publish(d) \/ SaveProfile(d) \/ End(d)
    \/ Compose(d) \/ Commit(d)
    \/ \E e \in Device : ClaimPreKey(d, e) \/ NoPreKey(d, e)
    \/ \E m \in mailbox[d] : ImportKnown(d, m) \/ ImportNew(d, m)

Spec == Init /\ [][Next]_vars

----------------------------------------------------------------------------
(* Properties *)

\* Types; in the table of prekeys an id stands once per device (PRIMARY KEY).
PrekeysTypeOK ==
    /\ \A d \in Device :
        /\ table[d] \cup private[d] \cup generated[d] \cup unmarked[d] \subseteq Key
        /\ \A k, l \in table[d] : k.id = l.id => k = l
        /\ mailbox[d] \subseteq Ciphertext
        /\ job[d] \subseteq Job /\ \A j, l \in job[d] : j = l
        /\ heard[d] \subseteq Session
        /\ \A e \in Device : sessions[d][e] \in Seq(Session)
    /\ next \in [Device -> Nat]
    /\ phase \in [Device -> {"off", "publishing", "published", "on"}]
    /\ claimed \cup orphans \subseteq Key

\* A one-time key is handed out once, whatever is published again after an
\* interrupted login (Db::claim_prekey, mark_prekeys_published).
HandedOutOnce == \A d \in Device : table[d] \cap claimed = {}

Opens(d, m) == Has(d, m) \/ (m.pre /\ m.session.key \in private[d] \cup generated[d])

\* Every message under way can be decrypted, in whatever order it is taken, both sides
\* starting a session at once included; only a key whose login ended between
\* publish_prekeys and save_profile opens nothing (main.rs:194-197).
Readable ==
    \A d \in Device : \A m \in mailbox[d] : Opens(d, m) \/ m.session.key \in orphans

\* A key the device counts as stored is offered by the server or was handed out: to
\* top up by the private parts does not let the published ones run dry, unless a key
\* of an interrupted login has its id.
NothingWithheld ==
    \A d \in Device : \A k \in private[d] :
        \/ k \in table[d] \cup claimed
        \/ \E o \in orphans : o.of = d /\ o.id = k.id

\* Two devices never have more than one session from either side, so the limit of
\* five in OlmMachine::decrypt, which drops the oldest, drops none in use.
SessionsBounded == \A d, e \in Device : Len(sessions[d][e]) <= 2

\* The same as Readable without the exception.
AlwaysReadable == \A d \in Device : \A m \in mailbox[d] : Opens(d, m)
=============================================================================
