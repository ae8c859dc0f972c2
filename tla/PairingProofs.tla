----------------------------- MODULE PairingProofs -----------------------------
(***************************************************************************)
(* The rosters the server accepts, the channels the account's key is sent  *)
(* over, and the confirmations of the users, however many devices are      *)
(* paired and whatever goes wrong on the way.                              *)
(***************************************************************************)
EXTENDS Pairing, FiniteSetTheorems, TLAPS

\* The accepted revisions lie below the current one, and each has been counted.
Rosters ==
    /\ revision \in Nat /\ IsFiniteSet(signed)
    /\ \A s \in signed : s.revision \in Nat /\ s.revision <= revision
    /\ RosterLinear

LEMMA OldCounted == Cardinality(Old) \in Nat BY DeviceAssumption, FS_CardinalityType

\* The next revision is accepted: it is above every other.
LEMMA NextRevision ==
    ASSUME Rosters, NEW x,
           revision' = revision + 1,
           signed' = signed \cup {[revision |-> revision + 1, device |-> x]}
    PROVE  Rosters'
<1>1. PICK r : r = [revision |-> revision + 1, device |-> x] OBVIOUS
<1>2. signed' = signed \cup {r} /\ r.revision = revision + 1 /\ revision \in Nat
  BY <1>1 DEF Rosters
<1>3. r \notin signed BY <1>2 DEF Rosters
<1>4. IsFiniteSet(signed') /\ Cardinality(signed') = Cardinality(signed) + 1
  <2>1. IsFiniteSet(signed) BY DEF Rosters
  <2>2. /\ IsFiniteSet(signed \cup {r})
        /\ Cardinality(signed \cup {r}) = Cardinality(signed) + 1
    BY <1>3, <2>1, FS_AddElement
  <2> QED BY <1>2, <2>2
<1>5. Cardinality(signed) \in Nat BY FS_CardinalityType DEF Rosters
<1>6. revision' = Cardinality(Old) + Cardinality(signed')
  BY <1>4, <1>5, OldCounted DEF Rosters, RosterLinear
<1>7. \A s \in signed' : s.revision \in Nat /\ s.revision <= revision'
  BY <1>2 DEF Rosters
<1>8. \A s, t \in signed' : s.revision = t.revision => s = t
  BY <1>2 DEF Rosters, RosterLinear
<1> QED BY <1>2, <1>4, <1>6, <1>7, <1>8 DEF Rosters, RosterLinear

LEMMA RostersStep == ASSUME Rosters, [Next]_vars PROVE Rosters'
<1>1. ASSUME UNCHANGED <<revision, signed>> PROVE Rosters'
  BY <1>1 DEF Rosters, RosterLinear
<1>2. ASSUME UNCHANGED database PROVE Rosters' BY <1>1, <1>2 DEF database
<1>3. ASSUME NEW p \in New, Enrol(p) PROVE Rosters'
  BY <1>1, <1>2, <1>3 DEF Enrol, Check, Submit, SaveProfile
<1>4. ASSUME NEW d \in Device, Take(d) PROVE Rosters'
  <2>1. PICK e : \/ TakeRequest(d, e) \/ TakeHandled(d, e) \/ TakePublic(d, e)
                 \/ TakeConfirmed(d, e) \/ TakeBootstrap(d, e) \/ TakeChunk(d, e)
                 \/ TakeActivated(d, e) \/ TakeOther(d, e) \/ TakeRefused(d, e)
    BY <1>4 DEF Take
  <2>2. CASE TakeHandled(d, e) BY <1>1, <2>2 DEF TakeHandled
  <2>3. CASE TakeRequest(d, e) \/ TakePublic(d, e) \/ TakeConfirmed(d, e) \/ TakeBootstrap(d, e)
    BY <1>2, <2>3 DEF TakeRequest, TakePublic, TakeConfirmed, TakeBootstrap
  <2>4. CASE TakeChunk(d, e) \/ TakeActivated(d, e) \/ TakeOther(d, e) \/ TakeRefused(d, e)
    BY <1>2, <2>4 DEF TakeChunk, TakeActivated, TakeOther, TakeRefused
  <2> QED BY <2>1, <2>2, <2>3, <2>4
\* Db::activate_device compares the revision in the transaction that stores it.
<1>5. ASSUME NEW d \in Device, Activate(d) PROVE Rosters'
  <2>1. PICK p \in job[d].id :
            /\ Accepts(p, job[d].revision) /\ revision' = job[d].revision
            /\ signed' = signed \cup {[revision |-> job[d].revision, device |-> p]}
    BY <1>5 DEF Activate
  <2>2. job[d].revision = revision + 1 BY <2>1 DEF Accepts
  <2> QED BY <2>1, <2>2, NextRevision
<1>6. ASSUME NEW d \in Device, Step(d) PROVE Rosters'
  <2>1. CASE SendPayload(d) BY <1>1, <2>1 DEF SendPayload
  <2>2. CASE Lookup(d) \/ Answer(d) \/ Abort(d) \/ Note(d)
    BY <1>2, <2>2 DEF Lookup, Answer, Abort, Note
  <2>3. CASE Settle(d) BY <1>1, <2>3 DEF Settle
  <2> QED BY <1>5, <1>6, <2>1, <2>2, <2>3 DEF Step
<1>7. ASSUME NEW d \in Device, Login(d) \/ Reconnect(d) \/ Greet(d) \/ Notice(d) PROVE Rosters'
  BY <1>2, <1>7 DEF Login, Reconnect, Greet, Notice
<1>8. ASSUME NEW d \in Device, Confirm(d) PROVE Rosters'
  BY <1>1, <1>8 DEF Confirm
<1>9. ASSUME NEW d \in Device, NEW p \in New, StartPairing(d, p) PROVE Rosters'
  BY <1>1, <1>9 DEF StartPairing
<1>10. ASSUME NEW d \in Device, Quit(d) \/ Reconcile(d) \/ Crash(d) \/ Cut(d) PROVE Rosters'
  BY <1>2, <1>10 DEF Quit, Reconcile, Crash, Cut
<1>11. ASSUME NEW d \in Device, NEW p \in New, Dismiss(d, p) PROVE Rosters'
  BY <1>2, <1>11 DEF Dismiss
<1>12. CASE RosterMoves BY <1>12, NextRevision DEF RosterMoves
<1>13. CASE Expire BY <1>1, <1>13 DEF Expire
<1>14. CASE UNCHANGED vars BY <1>2, <1>14 DEF vars
<1> QED BY <1>3, <1>4, <1>6, <1>7, <1>8, <1>9, <1>10, <1>11, <1>12, <1>13, <1>14
        DEF Next, Loop, User, Disturb

LEMMA RostersInit == Init => Rosters
<1> SUFFICES ASSUME Init PROVE Rosters OBVIOUS
<1>1. revision = Cardinality(Old) /\ signed = {} BY DEF Init
<1>2. IsFiniteSet(signed) /\ Cardinality(signed) = 0 BY <1>1, FS_EmptySet
<1> QED BY <1>1, <1>2, OldCounted DEF Rosters, RosterLinear

\* However many approvers look up the roster at the same time, sign and send, the server
\* accepts one roster for each revision, without a gap (Db::activate_device compares the
\* revision it is given with the one it stores).
THEOREM RostersAreLinear == Spec => []RosterLinear
<1>1. Rosters => RosterLinear BY DEF Rosters
<1>2. Rosters /\ [Next]_vars => Rosters' BY RostersStep
<1> QED BY <1>1, <1>2, RostersInit, PTL DEF Spec

(***************************************************************************)
(* Sequences and the order of the stored events                            *)
(***************************************************************************)

LEMMA RangeTyped == ASSUME NEW S, NEW q \in Seq(S) PROVE Range(q) \subseteq S /\ q \in Seq(Range(q))
<1>1. Len(q) \in Nat /\ DOMAIN q = 1 .. Len(q) OBVIOUS
<1>2. \A i \in 1 .. Len(q) : q[i] \in S /\ q[i] \in Range(q) BY <1>1 DEF Range
<1> QED BY <1>1, <1>2 DEF Range

LEMMA RangeOfAppend ==
    ASSUME NEW S, NEW q \in Seq(S), NEW x \in S
    PROVE  Append(q, x) \in Seq(S) /\ \A y \in Range(Append(q, x)) : y \in Range(q) \/ y = x
<1>1. q \in Seq(Range(q) \cup {x})
  <2>1. q \in Seq(Range(q)) BY RangeTyped
  <2> QED BY <2>1
<1>2. Append(q, x) \in Seq(Range(q) \cup {x}) BY <1>1
<1>3. Range(Append(q, x)) \subseteq Range(q) \cup {x} BY <1>2, RangeTyped
<1> QED BY <1>3

LEMMA RangeOfTail ==
    ASSUME NEW S, NEW q \in Seq(S), q # <<>>
    PROVE  /\ Tail(q) \in Seq(S) /\ Head(q) \in S /\ Head(q) \in Range(q)
           /\ Range(Tail(q)) \subseteq Range(q)
<1>1. q \in Seq(Range(q)) BY RangeTyped
<1>2. Tail(q) \in Seq(Range(q)) /\ Head(q) \in Range(q) BY <1>1
<1>3. Range(Tail(q)) \subseteq Range(q) BY <1>2, RangeTyped
<1> QED BY <1>2, <1>3

LEMMA RangeOfConcat ==
    ASSUME NEW S, NEW q \in Seq(S), NEW r \in Seq(S)
    PROVE  q \o r \in Seq(S) /\ Range(q \o r) \subseteq Range(q) \cup Range(r)
<1>1. q \in Seq(Range(q)) /\ r \in Seq(Range(r)) BY RangeTyped
<1>2. q \in Seq(Range(q) \cup Range(r)) /\ r \in Seq(Range(q) \cup Range(r)) BY <1>1
<1>3. q \o r \in Seq(Range(q) \cup Range(r)) BY <1>2
<1>4. Range(q \o r) \subseteq Range(q) \cup Range(r) BY <1>3, RangeTyped
<1> QED BY <1>4

LEMMA RangeOfEmpty == Range(<<>>) = {} BY DEF Range

\* A finite set can be listed.
LEMMA SetListed == ASSUME NEW S, IsFiniteSet(S) PROVE SetToSeq(S) \in Seq(S)
<1>1. Cardinality(S) \in Nat /\ Bijection(1 .. Cardinality(S), S) # {}
  BY FS_CardinalityType DEF ExistsBijection
<1>2. \E f \in [1 .. Cardinality(S) -> S] : IsInjective(f)
  BY <1>1 DEF Bijection, Injection
<1>3. SetToSeq(S) \in [1 .. Cardinality(S) -> S] BY <1>2 DEF SetToSeq
<1> QED BY <1>1, <1>3

\* Events with ids of their own are put in order: no two have as many events up to them,
\* so every place is taken.
LEMMA PutInOrder ==
    ASSUME NEW S, IsFiniteSet(S), \A e \in S : e.id \in Nat,
           \A e, f \in S : e.id = f.id => e = f
    PROVE  ById(S) \in Seq(S)
<1> DEFINE UpTo(e) == {f \in S : f.id <= e.id}
           n == Cardinality(S)
           place == [e \in S |-> Cardinality(UpTo(e))]
<1>1. n \in Nat /\ IsFiniteSet(1 .. n) /\ Cardinality(1 .. n) = n
  <2>1. n \in Nat BY FS_CardinalityType
  <2> QED BY <2>1, FS_Interval
<1>2. \A e \in S : IsFiniteSet(UpTo(e)) /\ Cardinality(UpTo(e)) \in 1 .. n
  <2> SUFFICES ASSUME NEW e \in S
               PROVE  IsFiniteSet(UpTo(e)) /\ Cardinality(UpTo(e)) \in 1 .. n
    OBVIOUS
  <2>1. UpTo(e) \in SUBSET S OBVIOUS
  <2>2. IsFiniteSet(UpTo(e)) /\ Cardinality(UpTo(e)) <= n BY <2>1, FS_Subset
  <2>3. Cardinality(UpTo(e)) \in Nat BY <2>2, FS_CardinalityType
  <2>4. e \in UpTo(e) OBVIOUS
  <2>5. Cardinality(UpTo(e)) # 0 BY <2>2, <2>4, FS_EmptySet
  <2> HIDE DEF UpTo, n
  <2> QED BY <1>1, <2>2, <2>3, <2>5
<1>3. \A e, f \in S : e # f => Cardinality(UpTo(e)) # Cardinality(UpTo(f))
  <2> SUFFICES ASSUME NEW e \in S, NEW f \in S, e.id < f.id
               PROVE  Cardinality(UpTo(e)) # Cardinality(UpTo(f))
    OBVIOUS
  <2>1. UpTo(e) \in SUBSET UpTo(f) OBVIOUS
  <2>2. f \in UpTo(f) /\ f \notin UpTo(e) OBVIOUS
  <2>3. IsFiniteSet(UpTo(f)) BY <1>2
  <2> HIDE DEF UpTo
  <2> QED BY <2>1, <2>2, <2>3, FS_Subset
<1>4. place \in [S -> 1 .. n] BY <1>2
<1>5. place \in Injection(S, 1 .. n) BY <1>3, <1>4 DEF Injection, IsInjective
<1>6. place \in Surjection(S, 1 .. n) BY <1>1, <1>5, FS_Injection
<1>7. \A i \in 1 .. n : \E e \in S : Cardinality(UpTo(e)) = i BY <1>6 DEF Surjection
<1>8. ById(S) \in [1 .. n -> S] BY <1>7 DEF ById
<1> QED BY <1>1, <1>8


(***************************************************************************)
(* Types                                                                   *)
(***************************************************************************)

Stages == {"fresh", "submitting", "saving", "lost", "down", "greeting", "on", "broken", "off"}
Frame == [id : Nat, from : Device, to : Device, type : Types, channel : Nat]
NoteOf == [state : {"none", "Pending", "InProgress", "Completed"},
           peer : Device \cup {{}}, channel : Nat]
JobOf == [event : Nat, id : SUBSET New, channel : Nat, revision : Nat]
StepName == {"bootstrap", "chunk", "lookup", "activate", "answer", "note", "settle"}
Pair == [by : Device, with : New]

ServerTypes ==
    /\ row \in [Device -> {"none", "pending", "active"}]
    /\ events \subseteq Frame /\ IsFiniteSet(events) /\ last \in Nat
    /\ \A e \in events : e.id \in 1 .. last
    /\ \A e, f \in events : e.id = f.id => e = f
    /\ IsFiniteSet({p \in New : row[p] = "pending"})
    /\ revision \in Nat
WireTypes ==
    /\ conn \in [Device -> Stages] /\ queue \in [Device -> Seq(Frame)]
ClientTypes ==
    /\ profile \in [Device -> {"none", "pending", "active"}] /\ secret \in [Device -> BOOLEAN]
    /\ note \in [Device -> [New -> NoteOf]] /\ processed \in [Device -> SUBSET Nat]
    /\ pairing \in [Device -> SUBSET Sessions] /\ \A d \in Device : \A s, t \in pairing[d] : s = t
    /\ todo \in [Device -> Seq(StepName)] /\ job \in [Device -> JobOf]
ChannelTypes == drawn \in Seq(Pair) /\ Len(drawn) <= MaxPairings

WellTyped == ServerTypes /\ WireTypes /\ ClientTypes /\ ChannelTypes

LEMMA WellTypedInit == Init => WellTyped
<1> SUFFICES ASSUME Init PROVE WellTyped OBVIOUS
<1>1. \A d \in Device : d \in Old \/ d \in New BY DEF Device
<1>2. Cardinality(Old) \in Nat BY OldCounted
<1>3. {p \in New : row[p] = "pending"} = {} BY DEF Init, Device
<1>4. IsFiniteSet({}) BY FS_EmptySet
<1>5. ServerTypes BY <1>2, <1>3, <1>4 DEF Init, ServerTypes, Device
<1>6. WireTypes BY DEF Init, WireTypes, Stages
<1>7. NoNote \in NoteOf /\ NoJob \in JobOf BY DEF NoNote, NoteOf, NoJob, JobOf
<1>8. ClientTypes BY <1>7 DEF Init, ClientTypes
<1>9. ChannelTypes BY BoundAssumption DEF Init, ChannelTypes
<1> QED BY <1>5, <1>6, <1>8, <1>9 DEF WellTyped

\* What a login hands over is what is stored for the device.
LEMMA StoredTyped ==
    ASSUME ServerTypes, NEW d \in Device
    PROVE  Stored(d) \in Seq({e \in events : e.to = d})
<1> DEFINE mine == {e \in events : e.to = d}
<1>1. IsFiniteSet(mine) BY FS_Subset DEF ServerTypes
<1>2. \A e \in mine : e.id \in Nat BY DEF ServerTypes, Frame
<1>3. \A e, f \in mine : e.id = f.id => e = f BY DEF ServerTypes
<1> HIDE DEF mine
<1>4. PICK q : q = ById(mine) OBVIOUS
<1>5. q \in Seq(mine) BY <1>1, <1>2, <1>3, <1>4, PutInOrder
<1>6. PICK n : n = IF Len(q) < PageSize THEN Len(q) ELSE PageSize OBVIOUS
<1>7. n \in 0 .. Len(q) BY <1>5, <1>6, BoundAssumption
<1>8. SubSeq(q, 1, n) \in Seq(mine) BY <1>5, <1>7
<1> QED BY <1>4, <1>6, <1>8 DEF Stored, mine

LEMMA WaitingTyped ==
    ASSUME ServerTypes, NEW d \in Device
    PROVE  Waiting(d) \in Seq({Request(p) : p \in New})
<1> DEFINE P == {q \in New \ {d} : row[q] = "pending"}
           R == {Request(p) : p \in P}
           f == [p \in P |-> Request(p)]
<1>1. P \in SUBSET {p \in New : row[p] = "pending"} OBVIOUS
<1>2. IsFiniteSet(P) BY <1>1, FS_Subset DEF ServerTypes
<1>3. f \in Surjection(P, R) BY DEF Surjection
<1>4. IsFiniteSet(R) BY <1>2, <1>3, FS_Surjection
<1>5. SetToSeq(R) \in Seq(R) BY <1>4, SetListed
<1>6. R \subseteq {Request(p) : p \in New} OBVIOUS
<1>7. Waiting(d) = SetToSeq(R) BY DEF Waiting
<1> HIDE DEF R
<1> QED BY <1>5, <1>6, <1>7


(***************************************************************************)
(* What a step does to the frames                                          *)
(***************************************************************************)

LEMMA Devices == New \subseteq Device BY DEF Device

LEMMA Steps ==
    ASSUME [Next]_vars
    PROVE  \/ \E p \in New : Check(p) \/ Submit(p) \/ SaveProfile(p)
           \/ \E d \in Device : \/ Login(d) \/ Reconnect(d) \/ Greet(d) \/ Notice(d) \/ Confirm(d)
                                \/ Quit(d) \/ Reconcile(d) \/ Crash(d) \/ Cut(d)
           \/ \E d \in Device : Take(d)
           \/ \E d \in Device : \/ SendPayload(d) \/ Lookup(d) \/ Activate(d) \/ Answer(d)
                                \/ Abort(d) \/ Note(d) \/ Settle(d)
           \/ \E d \in Device, p \in New : StartPairing(d, p) \/ Dismiss(d, p)
           \/ RosterMoves \/ Expire \/ UNCHANGED vars
BY DEF Next, Enrol, Loop, User, Disturb, Step

\* What is on its way to a device, and what is stored for it.
Frames(d) == {e \in events : e.to = d} \cup Range(queue[d])
\* Frames without a channel, which the server makes itself.
Notices(d) == {e \in Frame : e.type = "request" \/ (e.type = "activated" /\ e.to = d)}

QueuesGrow(x, S) == Range(queue'[x]) \subseteq Frames(x) \cup S
Quiet ==
    /\ last' = last /\ events' \subseteq events
    /\ \A x \in Device : QueuesGrow(x, Notices(x))
Sent(e) ==
    /\ last' = last + 1 /\ events' = events \cup {e} /\ e.id = last + 1
    /\ e \in Frame /\ e.type \in {"public", "confirmed", "bootstrap", "chunk"}
    /\ \A x \in Device : QueuesGrow(x, IF x = e.to THEN {e} ELSE {})

\* Three handlers ask the server to store an event.
Starts(d, e) == \E p \in New :
    /\ StartPairing(d, p) /\ e.type = "public" /\ e.from = d /\ e.to = p
    /\ e.channel = Len(drawn) + 1 /\ drawn' = Append(drawn, [by |-> d, with |-> p])
Confirms(d, e) == \E s \in pairing[d] :
    /\ Confirm(d) /\ ~Approver(d, s) /\ e.type = "confirmed" /\ e.from = d /\ e.to = s.peer
    /\ e.channel = s.channel /\ confirmed' = confirmed \cup {<<d, s.channel>>}
Pays(d, e) == \E p \in job[d].id :
    /\ SendPayload(d) /\ e.type \in {"bootstrap", "chunk"} /\ e.from = d /\ e.to = p
    /\ e.channel = job[d].channel

LEMMA Unmoved ==
    ASSUME WellTyped, NEW x \in Device, NEW S, queue'[x] = queue[x]
    PROVE  QueuesGrow(x, S)
BY DEF QueuesGrow, Frames

LEMMA PushAdds ==
    ASSUME WireTypes, NEW d \in Device, NEW f \in Frame, queue' = Pushed(d, f)
    PROVE  /\ queue' \in [Device -> Seq(Frame)]
           /\ \A x \in Device : QueuesGrow(x, IF x = d THEN {f} ELSE {})
<1>1. queue[d] \in Seq(Frame) BY DEF WireTypes
<1>2. PICK q : q = Append(queue[d], f) OBVIOUS
<1>3. q \in Seq(Frame) /\ \A y \in Range(q) : y \in Range(queue[d]) \/ y = f
  BY <1>1, <1>2, RangeOfAppend
<1>4. queue' = queue \/ queue' = [queue EXCEPT ![d] = q] BY <1>2 DEF Pushed
<1>5. queue \in [Device -> Seq(Frame)] BY DEF WireTypes
<1>6. queue' \in [Device -> Seq(Frame)] BY <1>3, <1>4, <1>5
<1>7. ASSUME NEW x \in Device PROVE QueuesGrow(x, IF x = d THEN {f} ELSE {})
  <2>1. CASE queue'[x] = queue[x] BY <2>1 DEF QueuesGrow, Frames
  <2>2. CASE x = d /\ queue'[d] = q BY <1>3, <2>2 DEF QueuesGrow, Frames
  <2> QED BY <1>4, <1>5, <2>1, <2>2
<1> QED BY <1>6, <1>7

LEMMA Posting ==
    ASSUME WellTyped, NEW d \in Device, NEW to \in Device, NEW p \in Device,
           NEW type \in {"public", "confirmed", "bootstrap", "chunk"}, NEW c \in Nat,
           Post(d, to, p, type, c)
    PROVE  /\ queue' \in [Device -> Seq(Frame)]
           /\ \/ UNCHANGED <<last, events, queue>>
              \/ \E e : /\ Sent(e) /\ e.from = d /\ e.to = to /\ e.type = type
                        /\ e.channel = c
<1>1. CASE UNCHANGED <<last, events, queue>> BY <1>1 DEF WellTyped, WireTypes
<1>2. CASE row[p] = "pending"
  <2>1. PICK e : e = Event(last + 1, d, to, type, c) OBVIOUS
  <2>2. last + 1 \in Nat BY DEF WellTyped, ServerTypes
  <2>3. /\ e \in Frame /\ e.from = d /\ e.to = to /\ e.type = type /\ e.channel = c
        /\ e.id = last + 1
    BY <2>1, <2>2 DEF Frame, Event, Types
  <2>4. last' = last + 1 /\ events' = events \cup {e} /\ queue' = Pushed(to, e)
    BY <1>2, <2>1 DEF Post
  <2>5. /\ queue' \in [Device -> Seq(Frame)]
        /\ \A x \in Device : QueuesGrow(x, IF x = to THEN {e} ELSE {})
    BY <2>3, <2>4, PushAdds DEF WellTyped
  <2>6. Sent(e) BY <2>3, <2>4, <2>5 DEF Sent
  <2> QED BY <2>3, <2>5, <2>6
<1> QED BY <1>1, <1>2 DEF Post


LEMMA GreetFrames ==
    ASSUME WellTyped, NEW d \in Device, Greet(d)
    PROVE  queue' \in [Device -> Seq(Frame)] /\ Quiet
<1>1. last' = last /\ events' = events BY DEF Greet, database
<1>2. queue \in [Device -> Seq(Frame)] BY DEF WellTyped, WireTypes
<1>3. CASE queue' = [queue EXCEPT ![d] = <<>>]
  <2>1. queue' \in [Device -> Seq(Frame)] BY <1>2, <1>3
  <2>2. \A x \in Device : queue'[x] = queue[x] \/ queue'[x] = <<>> BY <1>2, <1>3
  <2>3. \A x \in Device : QueuesGrow(x, Notices(x))
    BY <2>2, RangeOfEmpty DEF QueuesGrow, Frames
  <2> QED BY <1>1, <2>1, <2>3 DEF Quiet
<1>4. CASE queue' = [queue EXCEPT ![d] = @ \o Stored(d) \o Waiting(d)]
  <2>1. PICK q, s, w, r : q = queue[d] /\ s = Stored(d) /\ w = Waiting(d) /\ r = (q \o s) \o w
    OBVIOUS
  <2>2. s \in Seq({e \in events : e.to = d}) /\ Range(s) \subseteq {e \in events : e.to = d}
    <3>1. s \in Seq({e \in events : e.to = d}) BY <2>1, StoredTyped DEF WellTyped
    <3> QED BY <3>1, RangeTyped
  <2>3. {Request(p) : p \in New} \subseteq Notices(d)
    BY Devices DEF Request, Notices, Frame, Types
  <2>4. w \in Seq({Request(p) : p \in New}) BY <2>1, WaitingTyped DEF WellTyped
  <2>5. Range(w) \subseteq Notices(d) BY <2>3, <2>4, RangeTyped
  <2>6. q \in Seq(Frame) BY <1>2, <2>1
  <2>7. s \in Seq(Frame) BY <2>2 DEF WellTyped, ServerTypes
  <2>8. w \in Seq(Frame) BY <2>3, <2>4 DEF Notices
  <2>9. q \o s \in Seq(Frame) /\ Range(q \o s) \subseteq Range(q) \cup Range(s)
    BY <2>6, <2>7, RangeOfConcat
  <2>10. r \in Seq(Frame) /\ Range(r) \subseteq Range(q \o s) \cup Range(w)
    BY <2>1, <2>8, <2>9, RangeOfConcat
  <2>11. queue' = [queue EXCEPT ![d] = r] BY <1>4, <2>1
  <2>12. queue' \in [Device -> Seq(Frame)] BY <1>2, <2>10, <2>11
  <2>13. Range(r) \subseteq Frames(d) \cup Notices(d)
    BY <2>1, <2>2, <2>5, <2>9, <2>10 DEF Frames
  <2>14. \A x \in Device : queue'[x] = queue[x] \/ (x = d /\ queue'[x] = r) BY <1>2, <2>11
  <2>15. \A x \in Device : QueuesGrow(x, Notices(x))
    BY <2>13, <2>14 DEF QueuesGrow, Frames
  <2> QED BY <1>1, <2>12, <2>15 DEF Quiet
<1> QED BY <1>3, <1>4 DEF Greet

LEMMA SubmitFrames ==
    ASSUME WellTyped, NEW p \in New, Submit(p)
    PROVE  queue' \in [Device -> Seq(Frame)] /\ Quiet
<1>1. last' = last /\ events' = events BY DEF Submit
<1>2. queue \in [Device -> Seq(Frame)] BY DEF WellTyped, WireTypes
<1>3. PICK f : f = Request(p) OBVIOUS
<1>4. f \in Frame /\ f.type = "request" BY <1>3, Devices DEF Request, Frame, Types
<1>5. queue' = [x \in Device |-> IF Registered(x) THEN Append(queue[x], f) ELSE queue[x]]
  BY <1>3 DEF Submit, PushAll
<1>6. \A x \in Device :
          /\ Append(queue[x], f) \in Seq(Frame)
          /\ Range(Append(queue[x], f)) \subseteq Range(queue[x]) \cup {f}
  <2> SUFFICES ASSUME NEW x \in Device
               PROVE  /\ Append(queue[x], f) \in Seq(Frame)
                      /\ Range(Append(queue[x], f)) \subseteq Range(queue[x]) \cup {f}
    OBVIOUS
  <2>1. queue[x] \in Seq(Frame) BY <1>2
  <2> QED BY <1>4, <2>1, RangeOfAppend
<1>7. queue' \in [Device -> Seq(Frame)] BY <1>2, <1>5, <1>6
<1>8. \A x \in Device : f \in Notices(x) BY <1>4 DEF Notices
<1>9. \A x \in Device : queue'[x] = queue[x] \/ queue'[x] = Append(queue[x], f) BY <1>5
<1>10. \A x \in Device : QueuesGrow(x, Notices(x))
  BY <1>6, <1>8, <1>9 DEF QueuesGrow, Frames
<1> QED BY <1>1, <1>7, <1>10 DEF Quiet

LEMMA ActivateFrames ==
    ASSUME WellTyped, NEW d \in Device, Activate(d)
    PROVE  queue' \in [Device -> Seq(Frame)] /\ Quiet
<1>1. PICK p \in job[d].id : queue' = Pushed(p, Event(0, d, p, "activated", 0)) BY DEF Activate
<1>2. p \in Device BY Devices DEF WellTyped, ClientTypes, JobOf
<1>3. PICK f : f = Event(0, d, p, "activated", 0) OBVIOUS
<1>4. f \in Frame /\ f.type = "activated" /\ f.to = p BY <1>2, <1>3 DEF Event, Frame, Types
<1>5. /\ queue' \in [Device -> Seq(Frame)]
      /\ \A x \in Device : QueuesGrow(x, IF x = p THEN {f} ELSE {})
  BY <1>1, <1>2, <1>3, <1>4, PushAdds DEF WellTyped
<1>6. \A x \in Device : QueuesGrow(x, Notices(x)) BY <1>4, <1>5 DEF QueuesGrow, Notices
<1>7. last' = last /\ events' = events BY DEF Activate
<1> QED BY <1>5, <1>6, <1>7 DEF Quiet

\* Whatever empties a queue, or takes its first frame.
LEMMA QueueShrinks ==
    ASSUME WellTyped, last' = last, events' \subseteq events, NEW d \in Device,
           \/ queue' = queue
           \/ queue' = [queue EXCEPT ![d] = <<>>]
           \/ queue[d] # <<>> /\ queue' = [queue EXCEPT ![d] = Tail(@)]
    PROVE  queue' \in [Device -> Seq(Frame)] /\ Quiet
<1>1. queue \in [Device -> Seq(Frame)] BY DEF WellTyped, WireTypes
<1>2. PICK q : q = queue[d] OBVIOUS
<1>3. q \in Seq(Frame) BY <1>1, <1>2
<1>4. q # <<>> => Tail(q) \in Seq(Frame) /\ Range(Tail(q)) \subseteq Range(q)
  BY <1>3, RangeOfTail
<1>5. queue' \in [Device -> Seq(Frame)]
  <2>1. CASE queue' = queue BY <1>1, <2>1
  <2>2. ASSUME NEW r \in Seq(Frame), queue' = [queue EXCEPT ![d] = r]
        PROVE  queue' \in [Device -> Seq(Frame)]
    BY <1>1, <2>2
  <2>3. <<>> \in Seq(Frame) OBVIOUS
  <2> QED BY <1>2, <1>4, <2>1, <2>2, <2>3
<1>6. \A x \in Device : \/ queue'[x] = queue[x] \/ queue'[x] = <<>>
                        \/ (x = d /\ q # <<>> /\ queue'[x] = Tail(q))
  BY <1>1, <1>2
<1>7. \A x \in Device : QueuesGrow(x, Notices(x))
  BY <1>2, <1>4, <1>6, RangeOfEmpty DEF QueuesGrow, Frames
<1> QED BY <1>5, <1>7 DEF Quiet


LEMMA AcknowledgeShrinks == ASSUME NEW d, NEW id, Acknowledge(d, id) PROVE events' \subseteq events
BY DEF Acknowledge

LEMMA Taken ==
    ASSUME WellTyped, NEW d \in Device, Take(d)
    PROVE  \E e \in Frame :
              /\ e \in Range(queue[d]) /\ e \in Frames(d)
              /\ conn[d] \in {"on", "broken"} /\ todo[d] = <<>> /\ queue[d] # <<>>
              /\ \/ TakeRequest(d, e)
                 \/ TakeHandled(d, e)
                 \/ /\ ~Handled(d, e)
                    /\ \/ TakePublic(d, e) \/ TakeConfirmed(d, e) \/ TakeBootstrap(d, e)
                       \/ TakeChunk(d, e) \/ TakeActivated(d, e) \/ TakeOther(d, e)
                       \/ TakeRefused(d, e)
<1>1. PICK e : e = Head(queue[d]) OBVIOUS
<1>2. queue[d] \in Seq(Frame) /\ queue[d] # <<>> BY DEF WellTyped, WireTypes, Take
<1>3. e \in Frame /\ e \in Range(queue[d]) BY <1>1, <1>2, RangeOfTail
<1> QED BY <1>1, <1>2, <1>3 DEF Take, Frames

LEMMA TakeFrames ==
    ASSUME WellTyped, NEW d \in Device, Take(d)
    PROVE  queue' \in [Device -> Seq(Frame)] /\ Quiet
<1>1. PICK e \in Frame :
          /\ queue[d] # <<>>
          /\ \/ TakeRequest(d, e) \/ TakeHandled(d, e) \/ TakePublic(d, e) \/ TakeConfirmed(d, e)
             \/ TakeBootstrap(d, e) \/ TakeChunk(d, e) \/ TakeActivated(d, e) \/ TakeOther(d, e)
             \/ TakeRefused(d, e)
  BY Taken
<1>2. CASE TakeHandled(d, e)
  <2>1. events' \subseteq events /\ last' = last
    BY <1>2, AcknowledgeShrinks DEF TakeHandled
  <2> QED BY <1>1, <1>2, <2>1, QueueShrinks DEF TakeHandled, Pop
<1>3. CASE TakeActivated(d, e)
  <2>1. events' \subseteq events /\ last' = last BY <1>3 DEF TakeActivated, database
  <2> QED BY <1>3, <2>1, QueueShrinks DEF TakeActivated
<1>4. CASE TakeRequest(d, e) \/ TakePublic(d, e) \/ TakeConfirmed(d, e) \/ TakeBootstrap(d, e)
  <2>1. events' \subseteq events /\ last' = last /\ Pop(d)
    BY <1>4 DEF TakeRequest, TakePublic, TakeConfirmed, TakeBootstrap, database
  <2> QED BY <1>1, <2>1, QueueShrinks DEF Pop
<1>5. CASE TakeChunk(d, e) \/ TakeOther(d, e) \/ TakeRefused(d, e)
  <2>1. events' \subseteq events /\ last' = last /\ Pop(d)
    BY <1>5 DEF TakeChunk, TakeOther, TakeRefused, database
  <2> QED BY <1>1, <2>1, QueueShrinks DEF Pop
<1> QED BY <1>1, <1>2, <1>3, <1>4, <1>5

LEMMA StartFrames ==
    ASSUME WellTyped, NEW d \in Device, NEW p \in New, StartPairing(d, p)
    PROVE  /\ queue' \in [Device -> Seq(Frame)]
           /\ Quiet \/ \E e : Sent(e) /\ Starts(d, e)
<1>1. PICK c : c = Len(drawn) + 1 OBVIOUS
<1>2. c \in Nat /\ p \in Device BY <1>1, Devices DEF WellTyped, ChannelTypes
<1>3. \/ UNCHANGED <<last, events, queue>>
      \/ Post(d, p, p, "public", c) /\ drawn' = Append(drawn, [by |-> d, with |-> p])
  BY <1>1 DEF StartPairing
<1>4. CASE UNCHANGED <<last, events, queue>> BY <1>4, QueueShrinks
<1>5. CASE Post(d, p, p, "public", c) /\ drawn' = Append(drawn, [by |-> d, with |-> p])
  <2>1. /\ queue' \in [Device -> Seq(Frame)]
        /\ \/ UNCHANGED <<last, events, queue>>
           \/ \E e : Sent(e) /\ e.from = d /\ e.to = p /\ e.type = "public" /\ e.channel = c
    BY <1>2, <1>5, Posting
  <2> QED BY <1>1, <1>4, <1>5, <2>1 DEF Starts
<1> QED BY <1>3, <1>4, <1>5

LEMMA ConfirmFrames ==
    ASSUME WellTyped, NEW d \in Device, Confirm(d)
    PROVE  /\ queue' \in [Device -> Seq(Frame)]
           /\ Quiet \/ \E e : Sent(e) /\ Confirms(d, e)
<1>1. PICK s \in pairing[d] :
          /\ confirmed' = confirmed \cup {<<d, s.channel>>}
          /\ \/ UNCHANGED <<last, events, queue>>
             \/ ~Approver(d, s) /\ Post(d, s.peer, d, "confirmed", s.channel)
  BY DEF Confirm
<1>2. s.peer \in Device /\ s.channel \in Nat
  <2>1. s \in Sessions BY DEF WellTyped, ClientTypes
  <2> QED BY <2>1, BoundAssumption DEF Sessions, Channel
<1>3. CASE UNCHANGED <<last, events, queue>> BY <1>3, QueueShrinks
<1>4. CASE ~Approver(d, s) /\ Post(d, s.peer, d, "confirmed", s.channel)
  <2>1. /\ queue' \in [Device -> Seq(Frame)]
        /\ \/ UNCHANGED <<last, events, queue>>
           \/ \E e : /\ Sent(e) /\ e.from = d /\ e.to = s.peer /\ e.type = "confirmed"
                     /\ e.channel = s.channel
    BY <1>2, <1>4, Posting
  <2> QED BY <1>1, <1>3, <1>4, <2>1 DEF Confirms
<1> QED BY <1>1, <1>3, <1>4

LEMMA PayFrames ==
    ASSUME WellTyped, NEW d \in Device, SendPayload(d)
    PROVE  /\ queue' \in [Device -> Seq(Frame)]
           /\ Quiet \/ \E e : Sent(e) /\ Pays(d, e)
<1>1. PICK type \in {"bootstrap", "chunk"}, p \in job[d].id :
          \/ UNCHANGED <<last, events, queue>>
          \/ Post(d, p, p, type, job[d].channel)
  BY DEF SendPayload
<1>2. job[d].channel \in Nat /\ p \in Device
  <2>1. job[d] \in JobOf BY DEF WellTyped, ClientTypes
  <2> QED BY <2>1, Devices DEF JobOf
<1>3. CASE UNCHANGED <<last, events, queue>> BY <1>3, QueueShrinks
<1>4. CASE Post(d, p, p, type, job[d].channel)
  <2>1. /\ queue' \in [Device -> Seq(Frame)]
        /\ \/ UNCHANGED <<last, events, queue>>
           \/ \E e : /\ Sent(e) /\ e.from = d /\ e.to = p /\ e.type = type
                     /\ e.channel = job[d].channel
    BY <1>2, <1>4, Posting
  <2> QED BY <1>3, <2>1 DEF Pays
<1> QED BY <1>1, <1>3, <1>4

\* Only the start of a pairing, a confirmation and a payload put an event on the way that
\* was not there.
LEMMA FramesStep ==
    ASSUME WellTyped, [Next]_vars
    PROVE  /\ queue' \in [Device -> Seq(Frame)]
           /\ \/ Quiet
              \/ \E d \in Device : \E e : Sent(e) /\ (Starts(d, e) \/ Confirms(d, e) \/ Pays(d, e))
<1> DEFINE G == /\ queue' \in [Device -> Seq(Frame)]
                /\ \/ Quiet
                   \/ \E d \in Device : \E e :
                         Sent(e) /\ (Starts(d, e) \/ Confirms(d, e) \/ Pays(d, e))
<1> SUFFICES G OBVIOUS
<1>1. ASSUME NEW p \in New, Check(p) \/ SaveProfile(p) PROVE G
  <2>1. UNCHANGED <<last, events, queue>> BY <1>1 DEF Check, SaveProfile, database
  <2>2. p \in Device BY Devices
  <2> QED BY <2>1, <2>2, QueueShrinks
<1>2. ASSUME NEW p \in New, Submit(p) PROVE G BY <1>2, SubmitFrames
<1>3. ASSUME NEW d \in Device, Login(d) \/ Reconnect(d) \/ Reconcile(d) \/ Cut(d) PROVE G
  <2>1. UNCHANGED <<last, events, queue>>
    BY <1>3 DEF Login, Reconnect, Reconcile, Cut, database, wire
  <2> QED BY <2>1, QueueShrinks
<1>4. ASSUME NEW d \in Device, Notice(d) \/ Quit(d) \/ Crash(d) PROVE G
  <2>1. UNCHANGED <<last, events>> /\ queue' = [queue EXCEPT ![d] = <<>>]
    BY <1>4 DEF Notice, Quit, Crash, Forget, database
  <2> QED BY <2>1, QueueShrinks
<1>5. ASSUME NEW d \in Device, Lookup(d) \/ Answer(d) \/ Abort(d) \/ Note(d) PROVE G
  <2>1. UNCHANGED <<last, events, queue>>
    BY <1>5 DEF Lookup, Answer, Abort, Note, database, wire
  <2> QED BY <2>1, QueueShrinks
<1>6. ASSUME NEW d \in Device, Settle(d) PROVE G
  <2>1. last' = last /\ events' \subseteq events /\ queue' = queue
    BY <1>6, AcknowledgeShrinks DEF Settle, wire
  <2> QED BY <2>1, QueueShrinks
<1>7. ASSUME NEW d \in Device, NEW p \in New, Dismiss(d, p) PROVE G
  <2>1. UNCHANGED <<last, events, queue>> BY <1>7 DEF Dismiss, database, wire
  <2> QED BY <2>1, QueueShrinks
<1>8. CASE RosterMoves \/ Expire \/ UNCHANGED vars
  <2>1. last' = last /\ events' \subseteq events /\ queue' = queue
    BY <1>8 DEF RosterMoves, Expire, vars, database, wire
  <2>2. queue' \in [Device -> Seq(Frame)] BY <2>1 DEF WellTyped, WireTypes
  <2>3. \A x \in Device : QueuesGrow(x, Notices(x)) BY <2>1 DEF QueuesGrow, Frames
  <2> QED BY <2>1, <2>2, <2>3 DEF Quiet
<1>9. ASSUME NEW d \in Device, Confirm(d) PROVE G BY <1>9, ConfirmFrames
<1>10. ASSUME NEW d \in Device, SendPayload(d) PROVE G BY <1>10, PayFrames
<1>11. ASSUME NEW d \in Device, NEW p \in New, StartPairing(d, p) PROVE G BY <1>11, StartFrames
<1>12. ASSUME NEW d \in Device, Greet(d) \/ Take(d) \/ Activate(d) PROVE G
  BY <1>12, GreetFrames, TakeFrames, ActivateFrames
<1> HIDE DEF G
<1> QED BY <1>1, <1>2, <1>3, <1>4, <1>5, <1>6, <1>7, <1>8, <1>9, <1>10, <1>11, <1>12, Steps


(***************************************************************************)
(* Every step keeps the types                                              *)
(***************************************************************************)

\* The rows change when a device is enrolled or activated.
LEMMA RowsStep ==
    ASSUME WellTyped, [Next]_vars
    PROVE  \/ UNCHANGED <<row, revision>>
           \/ \E p \in New : Submit(p) /\ row' = [row EXCEPT ![p] = "pending"] /\ UNCHANGED revision
           \/ \E p \in Device : row' = [row EXCEPT ![p] = "active"] /\ revision' \in Nat
           \/ UNCHANGED row /\ revision' = revision + 1
<1>1. ASSUME NEW d \in Device, Activate(d)
      PROVE  \E p \in Device : row' = [row EXCEPT ![p] = "active"] /\ revision' \in Nat
  <2>1. PICK p \in job[d].id : row' = [row EXCEPT ![p] = "active"] /\ revision' = job[d].revision
    BY <1>1 DEF Activate
  <2>2. job[d] \in JobOf BY DEF WellTyped, ClientTypes
  <2> QED BY <2>1, <2>2, Devices DEF JobOf
<1>2. ASSUME NEW d \in Device, Take(d) PROVE UNCHANGED <<row, revision>>
  <2>1. PICK e \in Frame :
          \/ TakeRequest(d, e) \/ TakeHandled(d, e) \/ TakePublic(d, e) \/ TakeConfirmed(d, e)
          \/ TakeBootstrap(d, e) \/ TakeChunk(d, e) \/ TakeActivated(d, e) \/ TakeOther(d, e)
          \/ TakeRefused(d, e)
    BY <1>2, Taken
  <2> QED BY <2>1 DEF TakeRequest, TakeHandled, TakePublic, TakeConfirmed, TakeBootstrap,
                      TakeChunk, TakeActivated, TakeOther, TakeRefused, database
<1>3. ASSUME NEW p \in New, Check(p) \/ SaveProfile(p) PROVE UNCHANGED <<row, revision>>
  BY <1>3 DEF Check, SaveProfile, database
<1>4. ASSUME NEW d \in Device, \/ Login(d) \/ Reconnect(d) \/ Greet(d) \/ Notice(d) \/ Confirm(d)
                               \/ Quit(d) \/ Reconcile(d) \/ Crash(d) \/ Cut(d)
      PROVE  UNCHANGED <<row, revision>>
  BY <1>4 DEF Login, Reconnect, Greet, Notice, Confirm, Quit, Reconcile, Crash, Cut, database
<1>5. ASSUME NEW d \in Device, \/ SendPayload(d) \/ Lookup(d) \/ Answer(d)
                               \/ Abort(d) \/ Note(d) \/ Settle(d)
      PROVE  UNCHANGED <<row, revision>>
  BY <1>5 DEF SendPayload, Lookup, Answer, Abort, Note, Settle, database
<1>6. ASSUME NEW d \in Device, NEW p \in New, StartPairing(d, p) \/ Dismiss(d, p)
      PROVE  UNCHANGED <<row, revision>>
  BY <1>6 DEF StartPairing, Dismiss, database
<1>7. CASE Expire \/ UNCHANGED vars BY <1>7 DEF Expire, vars, database
<1>8. CASE RosterMoves BY <1>8 DEF RosterMoves
<1>9. ASSUME NEW p \in New, Submit(p)
      PROVE  row' = [row EXCEPT ![p] = "pending"] /\ UNCHANGED revision
  BY <1>9 DEF Submit
<1> QED BY <1>1, <1>2, <1>3, <1>4, <1>5, <1>6, <1>7, <1>8, <1>9, Steps

LEMMA ServerStep == ASSUME WellTyped, [Next]_vars PROVE ServerTypes'
<1>1. /\ events' \subseteq Frame /\ IsFiniteSet(events') /\ last' \in Nat
      /\ \A e \in events' : e.id \in 1 .. last'
      /\ \A e, f \in events' : e.id = f.id => e = f
  <2>1. CASE Quiet
    <3>1. events' \in SUBSET events /\ last' = last BY <2>1 DEF Quiet
    <3>2. IsFiniteSet(events') BY <3>1, FS_Subset DEF WellTyped, ServerTypes
    <3> QED BY <3>1, <3>2 DEF WellTyped, ServerTypes
  <2>2. ASSUME NEW e, Sent(e)
        PROVE  <1>1!1 /\ <1>1!2 /\ <1>1!3
    <3>1. IsFiniteSet(events') BY <2>2, FS_AddElement DEF Sent, WellTyped, ServerTypes
    <3>2. last \in Nat /\ \A f \in events : f.id \in 1 .. last
      BY DEF WellTyped, ServerTypes
    <3>3. e.id = last + 1 /\ last' = last + 1 /\ events' = events \cup {e} BY <2>2 DEF Sent
    <3>4. \A f \in events' : f.id \in 1 .. last' BY <3>2, <3>3
    <3>5. \A f \in events : f.id # e.id BY <3>2, <3>3
    <3>6. \A f, g \in events' : f.id = g.id => f = g
      BY <3>3, <3>5 DEF WellTyped, ServerTypes
    <3> QED BY <2>2, <3>1, <3>2, <3>3, <3>4, <3>6 DEF Sent, WellTyped, ServerTypes
  <2> QED BY <2>1, <2>2, FramesStep
<1>2. row \in [Device -> {"none", "pending", "active"}] /\ revision \in Nat
  BY DEF WellTyped, ServerTypes
<1>3. \/ UNCHANGED row
      \/ \E p \in New : row' = [row EXCEPT ![p] = "pending"]
      \/ \E p \in Device : row' = [row EXCEPT ![p] = "active"]
  BY RowsStep
<1>4. row' \in [Device -> {"none", "pending", "active"}] BY <1>2, <1>3, Devices
<1>5. IsFiniteSet({p \in New : row'[p] = "pending"})
  <2> DEFINE P == {p \in New : row[p] = "pending"}
             Q == {p \in New : row'[p] = "pending"}
  <2>1. IsFiniteSet(P) BY DEF WellTyped, ServerTypes
  <2>2. PICK x : Q \subseteq P \cup {x} BY <1>2, <1>3, Devices
  <2>3. IsFiniteSet(P \cup {x}) BY <2>1, FS_AddElement
  <2> HIDE DEF P, Q
  <2>4. IsFiniteSet(Q) BY <2>2, <2>3, FS_Subset
  <2> QED BY <2>4 DEF Q
<1>6. revision' \in Nat BY <1>2, RowsStep
<1> QED BY <1>1, <1>4, <1>5, <1>6 DEF ServerTypes


LEMMA ConnStep == ASSUME WellTyped, [Next]_vars PROVE conn' \in [Device -> Stages]
<1>0. conn \in [Device -> Stages] BY DEF WellTyped, WireTypes
<1>1. ASSUME NEW d \in Device, NEW c \in Stages, conn' = [conn EXCEPT ![d] = c]
      PROVE  conn' \in [Device -> Stages]
  BY <1>0, <1>1
<1>2. ASSUME NEW p \in New, Check(p) \/ Submit(p) \/ SaveProfile(p)
      PROVE  \E c \in Stages : conn' = [conn EXCEPT ![p] = c]
  BY <1>2 DEF Check, Submit, SaveProfile, Stages
<1>3. ASSUME NEW d \in Device, \/ Login(d) \/ Reconnect(d) \/ Greet(d)
                               \/ Notice(d) \/ Quit(d) \/ Cut(d)
      PROVE  \E c \in Stages : conn' = [conn EXCEPT ![d] = c]
  BY <1>3 DEF Login, Reconnect, Greet, Notice, Quit, Cut, Stages
<1>4. ASSUME NEW d \in Device, Crash(d) PROVE \E c \in Stages : conn' = [conn EXCEPT ![d] = c]
  BY <1>4 DEF Crash, Stages
<1>5. ASSUME NEW d \in Device, Take(d)
      PROVE  conn' = conn \/ \E c \in Stages : conn' = [conn EXCEPT ![d] = c]
  <2>1. PICK e \in Frame :
          \/ TakeRequest(d, e) \/ TakeHandled(d, e) \/ TakePublic(d, e) \/ TakeConfirmed(d, e)
          \/ TakeBootstrap(d, e) \/ TakeChunk(d, e) \/ TakeActivated(d, e) \/ TakeOther(d, e)
          \/ TakeRefused(d, e)
    BY <1>5, Taken
  <2>2. CASE TakeActivated(d, e) BY <2>2 DEF TakeActivated, Stages
  <2> QED BY <2>1, <2>2 DEF TakeRequest, TakeHandled, TakePublic, TakeConfirmed, TakeBootstrap,
                            TakeChunk, TakeOther, TakeRefused
<1>6. ASSUME NEW d \in Device, \/ Confirm(d) \/ Reconcile(d) \/ SendPayload(d) \/ Lookup(d)
                               \/ Activate(d) \/ Answer(d) \/ Abort(d) \/ Note(d) \/ Settle(d)
      PROVE  conn' = conn
  BY <1>6 DEF Confirm, Reconcile, SendPayload, Lookup, Activate, Answer, Abort, Note, Settle, wire
<1>7. ASSUME NEW d \in Device, NEW p \in New, StartPairing(d, p) \/ Dismiss(d, p)
      PROVE  conn' = conn
  BY <1>7 DEF StartPairing, Dismiss, wire
<1>8. CASE RosterMoves \/ Expire \/ UNCHANGED vars
  BY <1>0, <1>8 DEF RosterMoves, Expire, vars, wire
<1> QED BY <1>0, <1>1, <1>2, <1>3, <1>4, <1>5, <1>6, <1>7, <1>8, Steps, Devices

LEMMA NoteTyped ==
    ASSUME WellTyped, NEW d \in Device, NEW p \in New
    PROVE  note[d][p] \in NoteOf
BY DEF WellTyped, ClientTypes

LEMMA NoteAt ==
    ASSUME WellTyped, NEW d \in Device, NEW p \in New, NEW n \in NoteOf
    PROVE  [note EXCEPT ![d][p] = n] \in [Device -> [New -> NoteOf]]
BY DEF WellTyped, ClientTypes

LEMMA NoticedTyped ==
    ASSUME WellTyped, NEW d \in Device, NEW p \in New,
           NEW state \in {"none", "Pending", "InProgress", "Completed"}, Noticed(d, p, state)
    PROVE  note' \in [Device -> [New -> NoteOf]]
<1>1. CASE note' = note BY <1>1 DEF WellTyped, ClientTypes
<1>2. CASE note' = [note EXCEPT ![d][p].state = state]
  <2>1. PICK n : n = [note[d][p] EXCEPT !.state = state] OBVIOUS
  <2>2. n \in NoteOf BY <2>1, NoteTyped DEF NoteOf
  <2>3. note' = [note EXCEPT ![d][p] = n]
    BY <1>2, <2>1 DEF WellTyped, ClientTypes
  <2> QED BY <2>2, <2>3, NoteAt
<1> QED BY <1>1, <1>2 DEF Noticed

LEMMA SessionTyped ==
    ASSUME NEW p \in New, NEW a \in Device, NEW c \in Channel
    PROVE  Session(p, a, c) \in Sessions
BY DEF Session, Sessions

\* What becomes of a pairing: a handler's field, a new session, or nothing.
LEMMA PairingAt ==
    ASSUME WellTyped, NEW d \in Device, NEW S \in SUBSET Sessions, \A s, t \in S : s = t,
           pairing' = [pairing EXCEPT ![d] = S]
    PROVE  /\ pairing' \in [Device -> SUBSET Sessions]
           /\ \A x \in Device : \A s, t \in pairing'[x] : s = t
BY DEF WellTyped, ClientTypes


(***************************************************************************)
(* What a step does to the pairings                                        *)
(***************************************************************************)

Opened(d, p) ==
    /\ StartPairing(d, p) /\ profile[d] = "active" /\ pairing[d] = {} /\ p # d
    /\ conn[d] \in {"on", "broken"} /\ Len(drawn) + 1 \in Channel
    /\ drawn' = Append(drawn, [by |-> d, with |-> p])
    /\ pairing' = [pairing EXCEPT ![d] = {Session(p, p, Len(drawn) + 1)}]
Said(d, s) ==
    /\ Confirm(d) /\ s \in pairing[d] /\ confirmed' = confirmed \cup {<<d, s.channel>>}
    /\ pairing' = [pairing EXCEPT ![d] = {[s EXCEPT !.ours = TRUE]}]
Heard(d, s, e) ==
    /\ e \in Frames(d) /\ TakeConfirmed(d, e) /\ s \in pairing[d] /\ Opens(s, e)
    /\ pairing' = [pairing EXCEPT ![d] = {[s EXCEPT !.theirs = TRUE]}]
Offered(d, e) ==
    /\ e \in Frames(d) /\ TakePublic(d, e) /\ ~Handled(d, e) /\ todo[d] = <<>>
    /\ conn[d] \in {"on", "broken"}
Resumed(d) == Login(d) /\ pairing' = [pairing EXCEPT ![d] = Restored(d)]

PairingMoves ==
    \/ pairing' = pairing
    \/ \E d \in Device : pairing' = [pairing EXCEPT ![d] = {}]
    \/ \E d \in Device, p \in New : Opened(d, p)
    \/ \E d \in Device : \E s : Said(d, s)
    \/ \E d \in Device : \E s, e : Heard(d, s, e)
    \/ \E d \in Device, e \in Frame : Offered(d, e)
    \/ \E d \in Device : Resumed(d)

LEMMA PairingStep == ASSUME WellTyped, [Next]_vars PROVE PairingMoves
<1>1. ASSUME NEW p \in New, Check(p) \/ Submit(p) \/ SaveProfile(p) PROVE PairingMoves
  BY <1>1 DEF Check, Submit, SaveProfile, memory, PairingMoves
<1>2. ASSUME NEW d \in Device, Reconnect(d) \/ Greet(d) \/ Notice(d) \/ Reconcile(d) \/ Cut(d)
      PROVE  PairingMoves
  BY <1>2 DEF Reconnect, Greet, Notice, Reconcile, Cut, memory, PairingMoves
<1>3. ASSUME NEW d \in Device, Quit(d) \/ Crash(d) PROVE PairingMoves
  BY <1>3 DEF Quit, Crash, Forget, PairingMoves
<1>4. ASSUME NEW d \in Device, Login(d) PROVE PairingMoves
  BY <1>4 DEF Login, Resumed, PairingMoves
<1>5. ASSUME NEW d \in Device, \/ SendPayload(d) \/ Lookup(d) \/ Activate(d) \/ Answer(d)
                               \/ Abort(d) \/ Note(d) \/ Settle(d)
      PROVE  PairingMoves
  BY <1>5 DEF SendPayload, Lookup, Activate, Answer, Abort, Note, Settle, PairingMoves
<1>6. ASSUME NEW d \in Device, NEW p \in New, Dismiss(d, p) PROVE PairingMoves
  BY <1>6 DEF Dismiss, PairingMoves
<1>7. ASSUME NEW d \in Device, NEW p \in New, StartPairing(d, p) PROVE PairingMoves
  <2>1. \/ pairing' = pairing
        \/ /\ conn[d] # "off" /\ Idle(d) /\ profile[d] = "active" /\ pairing[d] = {} /\ p # d
           /\ Len(drawn) + 1 \in Channel /\ drawn' = Append(drawn, [by |-> d, with |-> p])
           /\ pairing' = [pairing EXCEPT ![d] = {Session(p, p, Len(drawn) + 1)}]
    BY <1>7 DEF StartPairing
  <2> QED BY <1>7, <2>1 DEF Opened, Idle, Running, PairingMoves
<1>8. ASSUME NEW d \in Device, Confirm(d) PROVE PairingMoves
  BY <1>8 DEF Confirm, TakeSession, Said, PairingMoves
<1>9. ASSUME NEW d \in Device, Take(d) PROVE PairingMoves
  <2>1. PICK e \in Frame :
          /\ e \in Frames(d) /\ conn[d] \in {"on", "broken"} /\ todo[d] = <<>>
          /\ \/ TakeRequest(d, e) \/ TakeHandled(d, e)
             \/ /\ ~Handled(d, e)
                /\ \/ TakePublic(d, e) \/ TakeConfirmed(d, e) \/ TakeBootstrap(d, e)
                   \/ TakeChunk(d, e) \/ TakeActivated(d, e) \/ TakeOther(d, e)
                   \/ TakeRefused(d, e)
    BY <1>9, Taken
  <2>2. CASE TakeConfirmed(d, e)
    BY <2>1, <2>2 DEF TakeConfirmed, TakeSession, Heard, PairingMoves
  <2>3. CASE TakePublic(d, e) /\ ~Handled(d, e) BY <2>1, <2>3 DEF Offered, PairingMoves
  <2>4. CASE TakeActivated(d, e) BY <2>4 DEF TakeActivated, PairingMoves
  <2>5. CASE TakeRequest(d, e) \/ TakeHandled(d, e) \/ TakeBootstrap(d, e) \/ TakeChunk(d, e)
             \/ TakeOther(d, e) \/ TakeRefused(d, e)
    BY <2>5 DEF TakeRequest, TakeHandled, TakeBootstrap, TakeChunk, TakeOther, TakeRefused, memory,
                PairingMoves
  <2> QED BY <2>1, <2>2, <2>3, <2>4, <2>5
<1>10. CASE RosterMoves \/ Expire \/ UNCHANGED vars
  BY <1>10 DEF RosterMoves, Expire, vars, memory, PairingMoves
<1> QED BY <1>1, <1>2, <1>3, <1>4, <1>5, <1>6, <1>7, <1>8, <1>9, <1>10, Steps


(***************************************************************************)
(* What a step does to the channels, the profiles and the notes            *)
(***************************************************************************)

GhostsGrow ==
    /\ confirmed \subseteq confirmed' /\ interrupted \subseteq interrupted'
    /\ \/ drawn' = drawn
       \/ /\ Len(drawn) < MaxPairings
          /\ \E d \in Device, p \in New : drawn' = Append(drawn, [by |-> d, with |-> p])

LEMMA GhostStep == ASSUME WellTyped, [Next]_vars PROVE GhostsGrow
<1>1. ASSUME NEW p \in New, Check(p) \/ Submit(p) \/ SaveProfile(p) PROVE GhostsGrow
  BY <1>1 DEF GhostsGrow, Check, Submit, SaveProfile, ghosts
<1>2. ASSUME NEW d \in Device, \/ Login(d) \/ Reconnect(d) \/ Greet(d) \/ Notice(d) \/ Quit(d)
                               \/ Reconcile(d) \/ Cut(d)
      PROVE  GhostsGrow
  BY <1>2 DEF GhostsGrow, Login, Reconnect, Greet, Notice, Quit, Reconcile, Cut, ghosts
<1>3. ASSUME NEW d \in Device, Crash(d) \/ Confirm(d) PROVE GhostsGrow
  BY <1>3 DEF GhostsGrow, Crash, Confirm
<1>4. ASSUME NEW d \in Device, \/ SendPayload(d) \/ Lookup(d) \/ Activate(d) \/ Answer(d)
                               \/ Abort(d) \/ Note(d) \/ Settle(d)
      PROVE  GhostsGrow
  BY <1>4 DEF GhostsGrow, SendPayload, Lookup, Activate, Answer, Abort, Note, Settle, ghosts
<1>5. ASSUME NEW d \in Device, NEW p \in New, Dismiss(d, p) PROVE GhostsGrow
  BY <1>5 DEF GhostsGrow, Dismiss
<1>6. ASSUME NEW d \in Device, NEW p \in New, StartPairing(d, p) PROVE GhostsGrow
  <2>1. confirmed' = confirmed /\ interrupted' = interrupted BY <1>6 DEF StartPairing
  <2>2. /\ Len(drawn) + 1 \in Channel
        /\ drawn' = drawn \/ drawn' = Append(drawn, [by |-> d, with |-> p])
    BY <1>6 DEF StartPairing
  <2>3. Len(drawn) \in Nat BY DEF WellTyped, ChannelTypes
  <2>4. Len(drawn) < MaxPairings BY <2>2, <2>3, BoundAssumption DEF Channel
  <2> QED BY <2>1, <2>2, <2>4 DEF GhostsGrow
<1>7. ASSUME NEW d \in Device, Take(d) PROVE GhostsGrow
  <2>1. PICK e \in Frame :
          \/ TakeRequest(d, e) \/ TakeHandled(d, e) \/ TakePublic(d, e) \/ TakeConfirmed(d, e)
          \/ TakeBootstrap(d, e) \/ TakeChunk(d, e) \/ TakeActivated(d, e) \/ TakeOther(d, e)
          \/ TakeRefused(d, e)
    BY <1>7, Taken
  <2> QED BY <2>1 DEF GhostsGrow, TakeRequest, TakeHandled, TakePublic, TakeConfirmed,
                      TakeBootstrap, TakeChunk, TakeActivated, TakeOther, TakeRefused, ghosts
<1>8. CASE RosterMoves \/ Expire \/ UNCHANGED vars
  BY <1>8 DEF GhostsGrow, RosterMoves, Expire, vars, ghosts
<1> QED BY <1>1, <1>2, <1>3, <1>4, <1>5, <1>6, <1>7, <1>8, Steps

LEMMA ChannelStep == ASSUME WellTyped, [Next]_vars PROVE ChannelTypes'
<1>1. drawn \in Seq(Pair) /\ Len(drawn) <= MaxPairings BY DEF WellTyped, ChannelTypes
<1>2. CASE drawn' = drawn BY <1>1, <1>2 DEF ChannelTypes
<1>3. ASSUME NEW d \in Device, NEW p \in New, Len(drawn) < MaxPairings,
             drawn' = Append(drawn, [by |-> d, with |-> p])
      PROVE  ChannelTypes'
  <2>1. PICK n : n = [by |-> d, with |-> p] OBVIOUS
  <2>2. n \in Pair /\ drawn' = Append(drawn, n) BY <1>3, <2>1 DEF Pair
  <2>3. drawn' \in Seq(Pair) /\ Len(drawn') = Len(drawn) + 1 BY <1>1, <2>2
  <2>4. Len(drawn) \in Nat BY <1>1
  <2> QED BY <1>3, <2>3, <2>4, BoundAssumption DEF ChannelTypes
<1> QED BY <1>2, <1>3, GhostStep DEF GhostsGrow

\* A channel belongs to the device that drew it and the one it drew it for.
Link(c, a, p) == c \in DOMAIN drawn /\ drawn[c].by = a /\ drawn[c].with = p

LEMMA LinkTyped ==
    ASSUME WellTyped, NEW c, NEW a, NEW p, Link(c, a, p)
    PROVE  c \in Channel /\ c \in Nat /\ a \in Device /\ p \in New
<1>1. drawn \in Seq(Pair) /\ Len(drawn) <= MaxPairings BY DEF WellTyped, ChannelTypes
<1>2. Len(drawn) \in Nat /\ DOMAIN drawn = 1 .. Len(drawn) BY <1>1
<1>3. drawn[c] \in Pair /\ c \in 1 .. Len(drawn) BY <1>1, <1>2 DEF Link
<1>4. c \in Channel /\ c \in Nat BY <1>1, <1>2, <1>3, BoundAssumption DEF Channel
<1> QED BY <1>3, <1>4 DEF Link, Pair

LEMMA LinkKept ==
    ASSUME WellTyped, [Next]_vars, NEW c, NEW a, NEW p, Link(c, a, p)
    PROVE  Link(c, a, p)'
<1>1. drawn \in Seq(Pair) BY DEF WellTyped, ChannelTypes
<1>2. CASE drawn' = drawn BY <1>2 DEF Link
<1>3. ASSUME NEW d \in Device, NEW x \in New, drawn' = Append(drawn, [by |-> d, with |-> x])
      PROVE  Link(c, a, p)'
  <2>1. PICK n : n = [by |-> d, with |-> x] OBVIOUS
  <2>2. n \in Pair /\ drawn' = Append(drawn, n) BY <1>3, <2>1 DEF Pair
  <2>3. c \in DOMAIN drawn /\ c \in DOMAIN drawn' /\ drawn'[c] = drawn[c]
    BY <1>1, <2>2 DEF Link
  <2> QED BY <2>3 DEF Link
<1> QED BY <1>2, <1>3, GhostStep DEF GhostsGrow

LEMMA LinkDrawn ==
    ASSUME WellTyped, NEW d \in Device, NEW p \in New, NEW c, c = Len(drawn) + 1,
           drawn' = Append(drawn, [by |-> d, with |-> p])
    PROVE  Link(c, d, p)' /\ c \notin DOMAIN drawn
<1>1. drawn \in Seq(Pair) BY DEF WellTyped, ChannelTypes
<1>2. PICK n : n = [by |-> d, with |-> p] OBVIOUS
<1>3. n \in Pair /\ n.by = d /\ n.with = p /\ drawn' = Append(drawn, n) BY <1>2 DEF Pair
<1>4. c \in DOMAIN drawn' /\ drawn'[c] = n BY <1>1, <1>3
<1>5. Len(drawn) \in Nat /\ DOMAIN drawn = 1 .. Len(drawn) BY <1>1
<1> QED BY <1>3, <1>4, <1>5 DEF Link


ProfileMoves(x) ==
    /\ secret[x] => secret'[x]
    /\ \/ profile'[x] = profile[x]
       \/ profile'[x] = "pending" /\ conn[x] = "saving" /\ conn'[x] = "on"
       \/ profile[x] = "pending" /\ profile'[x] = "active" /\ secret[x] /\ pairing'[x] = {}
ConnMoves(x) ==
    \/ conn'[x] = conn[x]
    \/ conn'[x] \in {"greeting", "on", "broken", "off"}
    \/ conn'[x] = "submitting" /\ conn[x] = "fresh"
    \/ conn'[x] = "saving" /\ conn[x] = "submitting" /\ row'[x] = "pending"
    \/ conn'[x] = "lost" /\ profile[x] = "none" /\ pairing'[x] = {}
    \/ conn'[x] = "down" /\ pairing'[x] = {}
ProfilesMove ==
    /\ profile' \in [Device -> {"none", "pending", "active"}] /\ secret' \in [Device -> BOOLEAN]
    /\ \A x \in Device : ProfileMoves(x) /\ ConnMoves(x)

LEMMA ProfilesStep == ASSUME WellTyped, [Next]_vars PROVE ProfilesMove
<1>0. /\ profile \in [Device -> {"none", "pending", "active"}] /\ secret \in [Device -> BOOLEAN]
      /\ conn \in [Device -> Stages]
      /\ row \in [Device -> {"none", "pending", "active"}]
      /\ pairing \in [Device -> SUBSET Sessions]
  BY DEF WellTyped, ClientTypes, WireTypes, ServerTypes
<1>1. ASSUME NEW p \in New, Check(p) PROVE ProfilesMove
  BY <1>0, <1>1 DEF Check, keys, ProfilesMove, ProfileMoves, ConnMoves
<1>2. ASSUME NEW p \in New, Submit(p) PROVE ProfilesMove
  BY <1>0, <1>2 DEF Submit, keys, ProfilesMove, ProfileMoves, ConnMoves
<1>3. ASSUME NEW p \in New, SaveProfile(p) PROVE ProfilesMove
  BY <1>0, <1>3, Devices DEF SaveProfile, ProfilesMove, ProfileMoves, ConnMoves
<1>4. ASSUME UNCHANGED <<profile, secret, conn>> PROVE ProfilesMove
  BY <1>0, <1>4 DEF ProfilesMove, ProfileMoves, ConnMoves
<1>5. ASSUME NEW d \in Device, Login(d) \/ Reconnect(d) \/ Greet(d) \/ Notice(d) \/ Cut(d)
      PROVE  ProfilesMove
  <2>1. /\ UNCHANGED <<profile, secret>>
        /\ \E c \in {"greeting", "on", "broken", "off"} : conn' = [conn EXCEPT ![d] = c]
    BY <1>5 DEF Login, Reconnect, Greet, Notice, Cut, keys
  <2> QED BY <1>0, <2>1 DEF ProfilesMove, ProfileMoves, ConnMoves
<1>6. ASSUME NEW d \in Device, Quit(d) \/ Crash(d) PROVE ProfilesMove
  <2>1. /\ UNCHANGED <<profile, secret>> /\ pairing' = [pairing EXCEPT ![d] = {}]
        /\ \/ conn' = [conn EXCEPT ![d] = "down"]
           \/ profile[d] = "none" /\ conn' = [conn EXCEPT ![d] = "lost"]
    BY <1>6 DEF Quit, Crash, Forget, keys
  <2> QED BY <1>0, <2>1 DEF ProfilesMove, ProfileMoves, ConnMoves
<1>7. ASSUME NEW d \in Device, \/ Confirm(d) \/ Reconcile(d) \/ SendPayload(d) \/ Lookup(d)
                               \/ Activate(d) \/ Answer(d) \/ Abort(d) \/ Note(d) \/ Settle(d)
      PROVE  ProfilesMove
  <2>1. UNCHANGED <<profile, secret, conn>>
    BY <1>7 DEF Confirm, Reconcile, SendPayload, Lookup, Activate, Answer, Abort, Note, Settle,
                wire, keys
  <2> QED BY <1>4, <2>1
<1>8. ASSUME NEW d \in Device, NEW p \in New, StartPairing(d, p) \/ Dismiss(d, p)
      PROVE  ProfilesMove
  <2>1. UNCHANGED <<profile, secret, conn>> BY <1>8 DEF StartPairing, Dismiss, wire, keys
  <2> QED BY <1>4, <2>1
<1>9. CASE RosterMoves \/ Expire \/ UNCHANGED vars
  <2>1. UNCHANGED <<profile, secret, conn>> BY <1>9 DEF RosterMoves, Expire, vars, wire, keys
  <2> QED BY <1>4, <2>1
<1>10. ASSUME NEW d \in Device, Take(d) PROVE ProfilesMove
  <2>1. PICK e \in Frame :
          \/ TakeRequest(d, e) \/ TakeHandled(d, e) \/ TakePublic(d, e) \/ TakeConfirmed(d, e)
          \/ TakeBootstrap(d, e) \/ TakeChunk(d, e) \/ TakeActivated(d, e) \/ TakeOther(d, e)
          \/ TakeRefused(d, e)
    BY <1>10, Taken
  <2>2. CASE TakeBootstrap(d, e)
    <3>1. UNCHANGED <<profile, conn>> /\ secret' = [secret EXCEPT ![d] = TRUE]
      BY <2>2 DEF TakeBootstrap
    <3> QED BY <1>0, <3>1 DEF ProfilesMove, ProfileMoves, ConnMoves
  <2>3. CASE TakeActivated(d, e)
    <3>1. /\ profile[d] = "pending" /\ secret[d] /\ secret' = secret
          /\ profile' = [profile EXCEPT ![d] = "active"]
          /\ pairing' = [pairing EXCEPT ![d] = {}] /\ conn' = [conn EXCEPT ![d] = "off"]
      BY <2>3 DEF TakeActivated, Ready
    <3> QED BY <1>0, <3>1 DEF ProfilesMove, ProfileMoves, ConnMoves
  <2>4. CASE TakeRequest(d, e) \/ TakeHandled(d, e) \/ TakePublic(d, e) \/ TakeConfirmed(d, e)
             \/ TakeChunk(d, e) \/ TakeOther(d, e) \/ TakeRefused(d, e)
    <3>1. UNCHANGED <<profile, secret, conn>>
      BY <2>4 DEF TakeRequest, TakeHandled, TakePublic, TakeConfirmed, TakeChunk, TakeOther,
                  TakeRefused, keys
    <3> QED BY <1>4, <3>1
  <2> QED BY <2>1, <2>2, <2>3, <2>4
<1> QED BY <1>1, <1>2, <1>3, <1>5, <1>6, <1>7, <1>8, <1>9, <1>10, Steps

\* A handler that failed leaves no trace in the books; one that ended marks its event.
ProcessedMoves ==
    /\ processed' \in [Device -> SUBSET Nat]
    /\ \A x \in Device : processed[x] \subseteq processed'[x]

LEMMA ProcessedStep == ASSUME WellTyped, [Next]_vars PROVE ProcessedMoves
<1>0. processed \in [Device -> SUBSET Nat] BY DEF WellTyped, ClientTypes
<1>1. ASSUME UNCHANGED processed PROVE ProcessedMoves BY <1>0, <1>1 DEF ProcessedMoves
<1>2. ASSUME NEW d \in Device, processed' = [processed EXCEPT ![d] = @ \cup {job[d].event}]
      PROVE  ProcessedMoves
  <2>1. job[d].event \in Nat BY DEF WellTyped, ClientTypes, JobOf
  <2> QED BY <1>0, <1>2, <2>1 DEF ProcessedMoves
<1>3. ASSUME NEW p \in New, Check(p) \/ Submit(p) \/ SaveProfile(p) PROVE ProcessedMoves
  BY <1>1, <1>3 DEF Check, Submit, SaveProfile, books
<1>4. ASSUME NEW d \in Device, \/ Login(d) \/ Reconnect(d) \/ Greet(d) \/ Notice(d) \/ Quit(d)
                               \/ Reconcile(d) \/ Cut(d) \/ Confirm(d)
      PROVE  ProcessedMoves
  BY <1>1, <1>4 DEF Login, Reconnect, Greet, Notice, Quit, Reconcile, Cut, Confirm, books
<1>5. ASSUME NEW d \in Device, Crash(d) \/ Settle(d) PROVE ProcessedMoves
  BY <1>1, <1>2, <1>5 DEF Crash, Settle
<1>6. ASSUME NEW d \in Device, \/ SendPayload(d) \/ Lookup(d) \/ Activate(d) \/ Answer(d)
                               \/ Abort(d) \/ Note(d)
      PROVE  ProcessedMoves
  BY <1>1, <1>6 DEF SendPayload, Lookup, Activate, Answer, Abort, Note, books
<1>7. ASSUME NEW d \in Device, NEW p \in New, StartPairing(d, p) \/ Dismiss(d, p)
      PROVE  ProcessedMoves
  BY <1>1, <1>7 DEF StartPairing, Dismiss
<1>8. ASSUME NEW d \in Device, Take(d) PROVE ProcessedMoves
  <2>1. PICK e \in Frame :
          \/ TakeRequest(d, e) \/ TakeHandled(d, e) \/ TakePublic(d, e) \/ TakeConfirmed(d, e)
          \/ TakeBootstrap(d, e) \/ TakeChunk(d, e) \/ TakeActivated(d, e) \/ TakeOther(d, e)
          \/ TakeRefused(d, e)
    BY <1>8, Taken
  <2> QED BY <1>1, <2>1 DEF TakeRequest, TakeHandled, TakePublic, TakeConfirmed, TakeBootstrap,
                            TakeChunk, TakeActivated, TakeOther, TakeRefused, books
<1>9. CASE RosterMoves \/ Expire \/ UNCHANGED vars
  BY <1>1, <1>9 DEF RosterMoves, Expire, vars, books
<1> QED BY <1>3, <1>4, <1>5, <1>6, <1>7, <1>8, <1>9, Steps


NotesMove ==
    /\ note' \in [Device -> [New -> NoteOf]]
    /\ \A x \in New :
          \/ note'[x][x] = note[x][x] \/ note'[x][x].state # "InProgress"
          \/ \E e \in Frame :
                /\ Offered(x, e)
                /\ note'[x][x] = [state |-> "InProgress", peer |-> e.from, channel |-> e.channel]

LEMMA OneNote ==
    ASSUME WellTyped, NEW d \in Device, NEW p \in Device, NEW n \in NoteOf,
           note' = [note EXCEPT ![d][p] = n], p # d \/ n.state # "InProgress"
    PROVE  NotesMove
<1>1. note \in [Device -> [New -> NoteOf]] BY DEF WellTyped, ClientTypes
<1>2. note' \in [Device -> [New -> NoteOf]] BY <1>1
<1>3. ASSUME NEW x \in New PROVE note'[x][x] = note[x][x] \/ note'[x][x].state # "InProgress"
  <2>1. CASE x = d /\ x = p BY <1>1, <2>1
  <2>2. CASE ~(x = d /\ x = p) BY <1>1, <2>2, Devices
  <2> QED BY <2>1, <2>2
<1> QED BY <1>2, <1>3 DEF NotesMove

LEMMA StateNoted ==
    ASSUME WellTyped, NEW d \in Device, NEW p \in Device,
           NEW state \in {"none", "Pending", "InProgress", "Completed"}, Noticed(d, p, state),
           p # d \/ state # "InProgress"
    PROVE  NotesMove
<1>0. note \in [Device -> [New -> NoteOf]] BY DEF WellTyped, ClientTypes
<1>1. CASE note' = note BY <1>0, <1>1 DEF NotesMove
<1>2. CASE note' = [note EXCEPT ![d][p].state = state] /\ p \in New
  <2>1. PICK n : n = [note[d][p] EXCEPT !.state = state] OBVIOUS
  <2>2. note[d][p] \in NoteOf BY <1>0, <1>2
  <2>3. n \in NoteOf /\ n.state = state BY <2>1, <2>2 DEF NoteOf
  <2>4. note' = [note EXCEPT ![d][p] = n] BY <1>2, <2>1, <1>0
  <2> QED BY <2>3, <2>4, OneNote
<1>3. CASE note' = [note EXCEPT ![d][p].state = state] /\ p \notin New
  <2>1. PICK q : q = [note[d] EXCEPT ![p].state = state] OBVIOUS
  <2>2. note[d] \in [New -> NoteOf] BY <1>0
  <2>3. q = note[d] BY <1>3, <2>1, <2>2
  <2>4. note' = [note EXCEPT ![d] = q] BY <1>3, <2>1
  <2>5. note' = note BY <1>0, <2>3, <2>4
  <2> QED BY <1>1, <2>5
<1> QED BY <1>1, <1>2, <1>3 DEF Noticed

LEMMA NotesStep == ASSUME WellTyped, [Next]_vars PROVE NotesMove
<1>0. note \in [Device -> [New -> NoteOf]] BY DEF WellTyped, ClientTypes
<1>1. ASSUME UNCHANGED note PROVE NotesMove BY <1>0, <1>1 DEF NotesMove
<1>2. ASSUME NEW p \in New, Check(p) \/ Submit(p) \/ SaveProfile(p) PROVE NotesMove
  BY <1>1, <1>2 DEF Check, Submit, SaveProfile, books
<1>3. ASSUME NEW d \in Device, \/ Login(d) \/ Reconnect(d) \/ Greet(d) \/ Notice(d) \/ Quit(d)
                               \/ Crash(d) \/ Cut(d) \/ Confirm(d)
      PROVE  NotesMove
  BY <1>1, <1>3 DEF Login, Reconnect, Greet, Notice, Quit, Crash, Cut, Confirm, books
<1>4. ASSUME NEW d \in Device, \/ SendPayload(d) \/ Lookup(d) \/ Activate(d) \/ Answer(d)
                               \/ Abort(d) \/ Settle(d)
      PROVE  NotesMove
  BY <1>1, <1>4 DEF SendPayload, Lookup, Activate, Answer, Abort, Settle, books
<1>5. CASE RosterMoves \/ Expire \/ UNCHANGED vars
  BY <1>1, <1>5 DEF RosterMoves, Expire, vars, books
<1>6. ASSUME NEW d \in Device, Note(d) PROVE NotesMove
  <2>1. PICK p \in job[d].id : Noticed(d, p, "Completed") BY <1>6 DEF Note
  <2>2. p \in Device BY Devices DEF WellTyped, ClientTypes, JobOf
  <2> QED BY <2>1, <2>2, StateNoted
<1>7. ASSUME NEW d \in Device, NEW p \in New, StartPairing(d, p) PROVE NotesMove
  <2>1. p # d /\ (UNCHANGED note \/ Noticed(d, p, "InProgress")) BY <1>7 DEF StartPairing
  <2>2. p \in Device BY Devices
  <2> QED BY <1>1, <2>1, <2>2, StateNoted
<1>8. ASSUME NEW d \in Device, NEW p \in New, Dismiss(d, p) PROVE NotesMove
  <2>1. NoNote \in NoteOf /\ NoNote.state # "InProgress" BY DEF NoNote, NoteOf
  <2>2. note' = [note EXCEPT ![d][p] = NoNote] /\ p \in Device BY <1>8, Devices DEF Dismiss
  <2> QED BY <2>1, <2>2, OneNote
<1>9. ASSUME NEW d \in Device, Reconcile(d) PROVE NotesMove
  <2>1. PICK over : /\ over \subseteq New \ {d}
                    /\ note' = [note EXCEPT ![d] = [p \in New |->
                          IF p \in over THEN [@[p] EXCEPT !.state = "Completed"] ELSE @[p]]]
    <3>1. {p \in Noted(d) : row[p] = "active"} \subseteq New \ {d} BY DEF Noted
    <3> QED BY <1>9, <3>1 DEF Reconcile
  <2>2. PICK q : q = [p \in New |-> IF p \in over THEN [note[d][p] EXCEPT !.state = "Completed"]
                                    ELSE note[d][p]]
    OBVIOUS
  <2>3. note[d] \in [New -> NoteOf] BY <1>0
  <2>4. \A p \in New : [note[d][p] EXCEPT !.state = "Completed"] \in NoteOf BY <2>3 DEF NoteOf
  <2>5. q \in [New -> NoteOf] BY <2>2, <2>3, <2>4
  <2>6. note' = [note EXCEPT ![d] = q] BY <1>0, <2>1, <2>2
  <2>7. note' \in [Device -> [New -> NoteOf]] BY <1>0, <2>5, <2>6
  <2>8. \A x \in New : note'[x][x] = note[x][x] BY <1>0, <2>1, <2>2, <2>6, Devices
  <2> QED BY <2>7, <2>8 DEF NotesMove
<1>10. ASSUME NEW d \in Device, Take(d) PROVE NotesMove
  <2>1. PICK e \in Frame :
          /\ e \in Frames(d) /\ conn[d] \in {"on", "broken"} /\ todo[d] = <<>>
          /\ \/ TakeRequest(d, e) \/ TakeHandled(d, e)
             \/ /\ ~Handled(d, e)
                /\ \/ TakePublic(d, e) \/ TakeConfirmed(d, e) \/ TakeBootstrap(d, e)
                   \/ TakeChunk(d, e) \/ TakeActivated(d, e) \/ TakeOther(d, e)
                   \/ TakeRefused(d, e)
    BY <1>10, Taken
  <2>2. CASE TakeRequest(d, e)
    <3>1. PICK n : n = [state |-> "Pending", peer |-> e.from, channel |-> 0] OBVIOUS
    <3>2. e.from \in Device BY DEF Frame
    <3>3. n \in NoteOf /\ n.state # "InProgress" BY <3>1, <3>2 DEF NoteOf
    <3>4. UNCHANGED note \/ note' = [note EXCEPT ![d][e.from] = n]
      BY <2>2, <3>1 DEF TakeRequest
    <3> QED BY <1>1, <3>2, <3>3, <3>4, OneNote
  <2>3. CASE TakeActivated(d, e)
    <3>1. Noticed(d, d, "Completed") BY <2>3 DEF TakeActivated
    <3> QED BY <3>1, StateNoted
  <2>4. CASE TakePublic(d, e) /\ ~Handled(d, e)
    <3>1. PICK n : n = [state |-> "InProgress", peer |-> e.from, channel |-> e.channel] OBVIOUS
    <3>2. n \in NoteOf BY <3>1 DEF NoteOf, Frame
    <3>3. note' = [note EXCEPT ![d][d] = n] BY <2>4, <3>1 DEF TakePublic
    <3>4. note' \in [Device -> [New -> NoteOf]] BY <1>0, <3>2, <3>3
    <3>5. Offered(d, e) BY <2>1, <2>4 DEF Offered
    <3>6. \A x \in New : note'[x][x] = note[x][x] \/ (x = d /\ note'[x][x] = n)
      BY <1>0, <3>3, Devices
    <3> QED BY <3>1, <3>4, <3>5, <3>6 DEF NotesMove
  <2>5. CASE TakeHandled(d, e) \/ TakeConfirmed(d, e) \/ TakeBootstrap(d, e) \/ TakeChunk(d, e)
             \/ TakeOther(d, e) \/ TakeRefused(d, e)
    BY <1>1, <2>5 DEF TakeHandled, TakeConfirmed, TakeBootstrap, TakeChunk, TakeOther,
                      TakeRefused, books
  <2> QED BY <2>1, <2>2, <2>3, <2>4, <2>5
<1> QED BY <1>2, <1>3, <1>4, <1>5, <1>6, <1>7, <1>8, <1>9, <1>10, Steps


\* A handler that pays was given both confirmations: one of its user, one in an event.
Earned(x, s) ==
    /\ s \in pairing[x] /\ Approver(x, s)
    /\ \/ s.theirs /\ confirmed' = confirmed \cup {<<x, s.channel>>}
       \/ s.ours /\ \E e \in Frames(x) : e.type = "confirmed" /\ Opens(s, e)
JobMoves(x) ==
    \/ job'[x].id = {}
    \/ job'[x].id = job[x].id /\ job'[x].channel = job[x].channel
    \/ \E s : Earned(x, s) /\ job'[x].id = {s.id} /\ job'[x].channel = s.channel
\* A mark that is due stays due, with the pairing as it is, until it is made or lost.
SettleMoves(x) ==
    todo[x] = <<"settle">> =>
        \/ todo'[x] = todo[x] /\ job'[x] = job[x] /\ pairing'[x] = pairing[x]
        \/ job[x].event \in processed'[x]
        \/ pairing'[x] = {} /\ \A s \in pairing[x] : <<x, s.channel>> \in interrupted'
JobsMove ==
    /\ todo' \in [Device -> Seq(StepName)] /\ job' \in [Device -> JobOf]
    /\ \A x \in Device : JobMoves(x) /\ SettleMoves(x)

LEMMA JobsSame ==
    ASSUME WellTyped, UNCHANGED <<todo, job>>,
           \/ pairing' = pairing
           \/ \E d \in Device : \E S :
                 todo[d] # <<"settle">> /\ pairing' = [pairing EXCEPT ![d] = S]
    PROVE  JobsMove
<1>1. /\ todo \in [Device -> Seq(StepName)] /\ job \in [Device -> JobOf]
      /\ pairing \in [Device -> SUBSET Sessions]
  BY DEF WellTyped, ClientTypes
<1>2. \A x \in Device : todo[x] = <<"settle">> => pairing'[x] = pairing[x] BY <1>1
<1> QED BY <1>1, <1>2 DEF JobsMove, JobMoves, SettleMoves

LEMMA JobsAt ==
    ASSUME WellTyped, NEW d \in Device, todo[d] # <<"settle">>,
           NEW q \in Seq(StepName), todo' = [todo EXCEPT ![d] = q],
           NEW j \in JobOf, job' = [job EXCEPT ![d] = j],
           \/ j.id = {}
           \/ j.id = job[d].id /\ j.channel = job[d].channel
           \/ \E s : Earned(d, s) /\ j.id = {s.id} /\ j.channel = s.channel,
           pairing' = pairing \/ \E S : pairing' = [pairing EXCEPT ![d] = S]
    PROVE  JobsMove
<1>1. /\ todo \in [Device -> Seq(StepName)] /\ job \in [Device -> JobOf]
      /\ pairing \in [Device -> SUBSET Sessions]
  BY DEF WellTyped, ClientTypes
<1>2. todo' \in [Device -> Seq(StepName)] /\ job' \in [Device -> JobOf] BY <1>1
<1>3. \A x \in Device : x # d =>
          todo'[x] = todo[x] /\ job'[x] = job[x] /\ pairing'[x] = pairing[x]
  BY <1>1
<1>4. job'[d] = j BY <1>1
<1>5. \A x \in Device : SettleMoves(x) BY <1>3 DEF SettleMoves
<1>6. \A x \in Device : JobMoves(x)
  <2> SUFFICES ASSUME NEW x \in Device PROVE JobMoves(x) OBVIOUS
  <2>1. CASE x = d BY <1>4, <2>1 DEF JobMoves
  <2>2. CASE x # d BY <1>3, <2>2 DEF JobMoves
  <2> QED BY <2>1, <2>2
<1> QED BY <1>2, <1>5, <1>6 DEF JobsMove

\* TakeSession, with what is to be done.
LEMMA JobTaken ==
    ASSUME WellTyped, NEW d \in Device, todo[d] # <<"settle">>, NEW s, NEW i \in Nat, Earned(d, s),
           TakeSession(d, s, i), NEW q \in Seq(StepName), todo' = [todo EXCEPT ![d] = q]
    PROVE  JobsMove
<1>1. PICK j : j = [event |-> i, id |-> {s.id}, channel |-> s.channel, revision |-> 0] OBVIOUS
<1>2. s.id \in New /\ s.channel \in Nat
  <2>1. s \in Sessions BY DEF Earned, WellTyped, ClientTypes
  <2> QED BY <2>1, BoundAssumption DEF Sessions, Channel
<1>3. j \in JobOf /\ j.id = {s.id} /\ j.channel = s.channel BY <1>1, <1>2 DEF JobOf
<1>4. job' = [job EXCEPT ![d] = j] /\ pairing' = [pairing EXCEPT ![d] = {}]
  BY <1>1 DEF TakeSession
<1> QED BY <1>3, <1>4, JobsAt

LEMMA FinishTyped ==
    /\ Finish \in Seq(StepName) /\ Append(Finish, "settle") \in Seq(StepName)
    /\ <<"settle">> \in Seq(StepName) /\ <<>> \in Seq(StepName)
<1>1. Finish \in Seq(StepName) /\ "settle" \in StepName BY DEF Finish, StepName
<1> QED BY <1>1

LEMMA JobDone ==
    ASSUME WellTyped, NEW d \in Device, todo[d] = <<>>, NEW e \in Frame, Done(d, e),
           pairing' = pairing \/ \E S : pairing' = [pairing EXCEPT ![d] = S]
    PROVE  JobsMove
<1>1. PICK j : j = [NoJob EXCEPT !.event = e.id] OBVIOUS
<1>2. j \in JobOf /\ j.id = {} BY <1>1 DEF NoJob, JobOf, Frame
<1>3. PICK q : q = IF e.id = 0 THEN <<>> ELSE <<"settle">> OBVIOUS
<1>4. q \in Seq(StepName) BY <1>3, FinishTyped
<1>5. todo' = [todo EXCEPT ![d] = q] /\ job' = [job EXCEPT ![d] = j] BY <1>1, <1>3 DEF Done
<1>6. todo[d] # <<"settle">> OBVIOUS
<1> QED BY <1>2, <1>4, <1>5, <1>6, JobsAt

\* One step of a handler is done.
LEMMA JobProceeds ==
    ASSUME WellTyped, NEW d \in Device, Proceed(d), todo[d] # <<>>, Head(todo[d]) # "settle",
           NEW j \in JobOf, job' = [job EXCEPT ![d] = j],
           j.id = job[d].id, j.channel = job[d].channel, pairing' = pairing
    PROVE  JobsMove
<1>1. PICK q : q = Tail(todo[d]) OBVIOUS
<1>2. q \in Seq(StepName) BY <1>1, RangeOfTail DEF WellTyped, ClientTypes
<1>3. todo' = [todo EXCEPT ![d] = q] BY <1>1 DEF Proceed
<1>4. todo[d] # <<"settle">> OBVIOUS
<1> QED BY <1>2, <1>3, <1>4, JobsAt


\* A client that does not run has nothing to do.
Resting == \A d \in Device : conn[d] = "down" => todo[d] = <<>>

LEMMA JobsStep == ASSUME WellTyped, Resting, [Next]_vars PROVE JobsMove
<1>0. /\ todo \in [Device -> Seq(StepName)] /\ job \in [Device -> JobOf]
      /\ pairing \in [Device -> SUBSET Sessions]
  BY DEF WellTyped, ClientTypes
<1>1. ASSUME NEW p \in New, Check(p) \/ Submit(p) \/ SaveProfile(p) PROVE JobsMove
  <2>1. UNCHANGED <<todo, job, pairing>> BY <1>1 DEF Check, Submit, SaveProfile, memory
  <2> QED BY <2>1, JobsSame
<1>2. ASSUME NEW d \in Device, Reconnect(d) \/ Greet(d) \/ Notice(d) \/ Cut(d) \/ Reconcile(d)
      PROVE  JobsMove
  <2>1. UNCHANGED <<todo, job, pairing>>
    BY <1>2 DEF Reconnect, Greet, Notice, Cut, Reconcile, memory
  <2> QED BY <2>1, JobsSame
<1>3. ASSUME NEW d \in Device, NEW p \in New, StartPairing(d, p) \/ Dismiss(d, p) PROVE JobsMove
  <2>1. UNCHANGED <<todo, job>> /\ todo[d] = <<>> BY <1>3 DEF StartPairing, Dismiss, Idle
  <2>2. pairing' = pairing \/ \E S : pairing' = [pairing EXCEPT ![d] = S]
    BY <1>3 DEF StartPairing, Dismiss
  <2>3. todo[d] # <<"settle">> BY <2>1
  <2> QED BY <2>1, <2>2, <2>3, JobsSame
<1>4. CASE RosterMoves \/ Expire \/ UNCHANGED vars
  <2>1. UNCHANGED <<todo, job, pairing>> BY <1>4 DEF RosterMoves, Expire, vars, memory
  <2> QED BY <2>1, JobsSame
<1>5. ASSUME NEW d \in Device, Confirm(d) PROVE JobsMove
  <2>1. PICK s \in pairing[d] :
          /\ todo[d] = <<>> /\ confirmed' = confirmed \cup {<<d, s.channel>>}
          /\ \/ /\ Approver(d, s) /\ s.theirs /\ TakeSession(d, [s EXCEPT !.ours = TRUE], 0)
                /\ todo' = [todo EXCEPT ![d] = Finish]
             \/ /\ UNCHANGED <<todo, job>>
                /\ pairing' = [pairing EXCEPT ![d] = {[s EXCEPT !.ours = TRUE]}]
    BY <1>5 DEF Confirm, Idle
  <2>2. todo[d] # <<"settle">> BY <2>1
  <2>3. PICK t : t = [s EXCEPT !.ours = TRUE] OBVIOUS
  <2>4. t.id = s.id /\ t.channel = s.channel
    <3>1. s \in Sessions BY DEF WellTyped, ClientTypes
    <3> QED BY <2>3, <3>1 DEF Sessions
  <2>5. CASE /\ Approver(d, s) /\ s.theirs /\ TakeSession(d, t, 0)
             /\ todo' = [todo EXCEPT ![d] = Finish]
    <3>1. Earned(d, s) BY <2>1, <2>5 DEF Earned
    <3>2. TakeSession(d, s, 0) BY <2>4, <2>5 DEF TakeSession
    <3> QED BY <2>2, <2>5, <3>1, <3>2, FinishTyped, JobTaken
  <2>6. CASE UNCHANGED <<todo, job>> /\ pairing' = [pairing EXCEPT ![d] = {t}]
    BY <2>2, <2>6, JobsSame
  <2> QED BY <2>1, <2>3, <2>5, <2>6
<1>6. ASSUME NEW d \in Device, Take(d) PROVE JobsMove
  <2>1. PICK e \in Frame :
          /\ e \in Frames(d) /\ todo[d] = <<>>
          /\ \/ TakeRequest(d, e) \/ TakeHandled(d, e) \/ TakePublic(d, e) \/ TakeConfirmed(d, e)
             \/ TakeBootstrap(d, e) \/ TakeChunk(d, e) \/ TakeActivated(d, e) \/ TakeOther(d, e)
             \/ TakeRefused(d, e)
    BY <1>6, Taken
  <2>2. todo[d] # <<"settle">> BY <2>1
  <2>3. CASE TakeRequest(d, e) \/ TakeHandled(d, e) \/ TakeRefused(d, e)
    <3>1. UNCHANGED <<todo, job, pairing>>
      BY <2>3 DEF TakeRequest, TakeHandled, TakeRefused, memory
    <3> QED BY <3>1, JobsSame
  <2>4. CASE TakeActivated(d, e)
    <3>1. UNCHANGED <<todo, job>> /\ pairing' = [pairing EXCEPT ![d] = {}]
      BY <2>4 DEF TakeActivated
    <3> QED BY <2>2, <3>1, JobsSame
  <2>5. CASE TakePublic(d, e) \/ TakeBootstrap(d, e) \/ TakeChunk(d, e) \/ TakeOther(d, e)
    <3>1. Done(d, e) /\ (pairing' = pairing \/ \E S : pairing' = [pairing EXCEPT ![d] = S])
      BY <2>5 DEF TakePublic, TakeBootstrap, TakeChunk, TakeOther
    <3> QED BY <2>1, <3>1, JobDone
  <2>6. CASE TakeConfirmed(d, e)
    <3>1. CASE Done(d, e)
      <4>1. pairing' = pairing \/ \E S : pairing' = [pairing EXCEPT ![d] = S]
        BY <2>6 DEF TakeConfirmed, TakeSession
      <4> QED BY <2>1, <3>1, <4>1, JobDone
    <3>2. ASSUME NEW s \in pairing[d], Opens(s, e), s.ours, Approver(d, s),
                 TakeSession(d, s, e.id), todo' = [todo EXCEPT ![d] = Append(Finish, "settle")]
          PROVE  JobsMove
      <4>1. e.type = "confirmed" BY <2>6 DEF TakeConfirmed
      <4>2. Earned(d, s) BY <2>1, <3>2, <4>1 DEF Earned
      <4>3. e.id \in Nat BY DEF Frame
      <4> QED BY <2>2, <3>2, <4>2, <4>3, FinishTyped, JobTaken
    <3> QED BY <2>6, <3>1, <3>2 DEF TakeConfirmed
  <2> QED BY <2>1, <2>3, <2>4, <2>5, <2>6
<1>7. ASSUME NEW d \in Device, SendPayload(d) \/ Activate(d) \/ Answer(d) \/ Note(d) PROVE JobsMove
  <2>1. /\ Proceed(d) /\ todo[d] # <<>> /\ Head(todo[d]) # "settle" /\ job' = job
        /\ pairing' = pairing
    BY <1>7 DEF SendPayload, Activate, Answer, Note, At
  <2>2. job' = [job EXCEPT ![d] = job[d]] /\ job[d] \in JobOf BY <1>0, <2>1
  <2> QED BY <2>1, <2>2, JobProceeds
<1>8. ASSUME NEW d \in Device, Lookup(d) PROVE JobsMove
  <2>1. /\ Proceed(d) /\ todo[d] # <<>> /\ Head(todo[d]) # "settle" /\ pairing' = pairing
        /\ job' = [job EXCEPT ![d].revision = revision + 1]
    BY <1>8 DEF Lookup, At
  <2>2. PICK j : j = [job[d] EXCEPT !.revision = revision + 1] OBVIOUS
  <2>3. job[d] \in JobOf /\ revision + 1 \in Nat BY <1>0 DEF WellTyped, ServerTypes
  <2>4. j \in JobOf /\ j.id = job[d].id /\ j.channel = job[d].channel BY <2>2, <2>3 DEF JobOf
  <2>5. job' = [job EXCEPT ![d] = j] BY <2>1, <2>2
  <2> QED BY <2>1, <2>4, <2>5, JobProceeds
<1>9. ASSUME NEW d \in Device, Abort(d) PROVE JobsMove
  <2>1. /\ todo[d] # <<>> /\ Head(todo[d]) # "settle" /\ todo' = [todo EXCEPT ![d] = <<>>]
        /\ job' = job /\ pairing' = pairing
    BY <1>9 DEF Abort, At
  <2>2. todo[d] # <<"settle">> BY <2>1
  <2>3. job' = [job EXCEPT ![d] = job[d]] /\ job[d] \in JobOf BY <1>0, <2>1
  <2> QED BY <2>1, <2>2, <2>3, FinishTyped, JobsAt
<1>10. ASSUME NEW d \in Device, Settle(d) PROVE JobsMove
  <2>1. /\ Proceed(d) /\ todo[d] # <<>> /\ UNCHANGED <<job, pairing>>
        /\ processed' = [processed EXCEPT ![d] = @ \cup {job[d].event}]
    BY <1>10 DEF Settle, At
  <2>2. Tail(todo[d]) \in Seq(StepName) BY <1>0, <2>1, RangeOfTail
  <2>3. todo' \in [Device -> Seq(StepName)] BY <1>0, <2>1, <2>2 DEF Proceed
  <2>4. job[d].event \in processed'[d] BY <2>1 DEF WellTyped, ClientTypes
  <2>5. \A x \in Device : x # d => todo'[x] = todo[x] BY <1>0, <2>1 DEF Proceed
  <2>6. \A x \in Device : SettleMoves(x) BY <2>1, <2>4, <2>5 DEF SettleMoves
  <2> QED BY <1>0, <2>1, <2>3, <2>6 DEF JobsMove, JobMoves
<1>11. ASSUME NEW d \in Device, Login(d) PROVE JobsMove
  <2>1. UNCHANGED <<todo, job>> /\ pairing' = [pairing EXCEPT ![d] = Restored(d)]
    BY <1>11 DEF Login
  <2>2. todo[d] # <<"settle">> BY <1>11 DEF Login, Resting
  <2> QED BY <2>1, <2>2, JobsSame
<1>12. ASSUME NEW d \in Device, Quit(d) PROVE JobsMove
  <2>1. todo[d] # <<"settle">> BY <1>12 DEF Quit, Idle
  <2>2. NoJob \in JobOf /\ NoJob.id = {} BY DEF NoJob, JobOf
  <2>3. /\ todo' = [todo EXCEPT ![d] = <<>>] /\ job' = [job EXCEPT ![d] = NoJob]
        /\ pairing' = [pairing EXCEPT ![d] = {}]
    BY <1>12 DEF Quit, Forget
  <2> QED BY <2>1, <2>2, <2>3, FinishTyped, JobsAt
\* What a crash interrupts.
<1>13. ASSUME NEW d \in Device, Crash(d) PROVE JobsMove
  <2>1. NoJob \in JobOf /\ NoJob.id = {} BY DEF NoJob, JobOf
  <2>2. /\ todo' = [todo EXCEPT ![d] = <<>>] /\ job' = [job EXCEPT ![d] = NoJob]
        /\ pairing' = [pairing EXCEPT ![d] = {}]
    BY <1>13 DEF Crash, Forget
  <2>3. todo' \in [Device -> Seq(StepName)] /\ job' \in [Device -> JobOf]
    BY <1>0, <2>1, <2>2, FinishTyped
  <2>4. \A x \in Device : x # d =>
            todo'[x] = todo[x] /\ job'[x] = job[x] /\ pairing'[x] = pairing[x]
    BY <1>0, <2>2
  <2>5. job'[d].id = {} /\ pairing'[d] = {} BY <1>0, <2>1, <2>2
  <2>6. todo[d] = <<"settle">> =>
            \/ job[d].event \in processed'[d]
            \/ \A s \in pairing[d] : <<d, s.channel>> \in interrupted'
    <3>1. \/ interrupted' = IF todo[d] = <<>> THEN interrupted
                            ELSE interrupted \cup {<<d, s.channel>> : s \in pairing[d]}
          \/ processed' = [processed EXCEPT ![d] = @ \cup {job[d].event}]
      BY <1>13 DEF Crash
    <3>2. processed \in [Device -> SUBSET Nat] BY DEF WellTyped, ClientTypes
    <3> QED BY <3>1, <3>2
  <2>7. \A x \in Device : SettleMoves(x) BY <2>4, <2>5, <2>6 DEF SettleMoves
  <2>8. \A x \in Device : JobMoves(x) BY <2>4, <2>5 DEF JobMoves
  <2> QED BY <2>3, <2>7, <2>8 DEF JobsMove
<1> QED BY <1>1, <1>2, <1>3, <1>4, <1>5, <1>6, <1>7, <1>8, <1>9, <1>10, <1>11, <1>12, <1>13, Steps

LEMMA RestingStep == ASSUME WellTyped, Resting, [Next]_vars PROVE Resting'
<1>0. todo \in [Device -> Seq(StepName)] /\ conn \in [Device -> Stages]
  BY DEF WellTyped, ClientTypes, WireTypes
<1>1. ASSUME UNCHANGED todo, UNCHANGED conn PROVE Resting' BY <1>1 DEF Resting
<1>2. ASSUME NEW d \in Device, UNCHANGED todo, NEW c, c # "down", conn' = [conn EXCEPT ![d] = c]
      PROVE  Resting'
  BY <1>0, <1>2 DEF Resting
<1>3. ASSUME NEW d \in Device, conn[d] # "down", conn' = conn, NEW q, todo' = [todo EXCEPT ![d] = q]
      PROVE  Resting'
  BY <1>0, <1>3 DEF Resting
<1>4. ASSUME NEW p \in New, Check(p) \/ Submit(p) \/ SaveProfile(p) PROVE Resting'
  BY <1>2, <1>4, Devices DEF Check, Submit, SaveProfile, memory
<1>5. ASSUME NEW d \in Device, Login(d) \/ Reconnect(d) \/ Greet(d) \/ Notice(d) \/ Cut(d)
      PROVE  Resting'
  BY <1>2, <1>5 DEF Login, Reconnect, Greet, Notice, Cut, memory
<1>6. ASSUME NEW d \in Device, Quit(d) \/ Crash(d) PROVE Resting'
  <2>1. /\ todo' = [todo EXCEPT ![d] = <<>>]
        /\ \A x \in Device : x # d => conn'[x] = conn[x]
    BY <1>0, <1>6 DEF Quit, Crash, Forget
  <2> QED BY <1>0, <2>1 DEF Resting
<1>7. ASSUME NEW d \in Device, NEW p \in New,
             StartPairing(d, p) \/ Dismiss(d, p)
      PROVE  Resting'
  BY <1>1, <1>7 DEF StartPairing, Dismiss, wire
<1>8. ASSUME NEW d \in Device, Confirm(d) PROVE Resting'
  <2>1. /\ conn' = conn /\ conn[d] # "down"
        /\ todo' = todo \/ todo' = [todo EXCEPT ![d] = Finish]
    BY <1>8 DEF Confirm, Idle, Running
  <2> QED BY <1>1, <1>3, <2>1
<1>9. ASSUME NEW d \in Device, Take(d) PROVE Resting'
  <2>1. PICK e \in Frame :
          /\ conn[d] \in {"on", "broken"}
          /\ \/ TakeRequest(d, e) \/ TakeHandled(d, e) \/ TakePublic(d, e) \/ TakeConfirmed(d, e)
             \/ TakeBootstrap(d, e) \/ TakeChunk(d, e) \/ TakeActivated(d, e) \/ TakeOther(d, e)
             \/ TakeRefused(d, e)
    BY <1>9, Taken
  <2>2. CASE TakeActivated(d, e) BY <1>2, <2>2 DEF TakeActivated
  <2>3. CASE TakeRequest(d, e) \/ TakeHandled(d, e) \/ TakeRefused(d, e)
    BY <1>1, <2>3 DEF TakeRequest, TakeHandled, TakeRefused, memory
  <2>4. CASE TakePublic(d, e) \/ TakeConfirmed(d, e) \/ TakeBootstrap(d, e) \/ TakeChunk(d, e)
             \/ TakeOther(d, e)
    <3>1. conn' = conn /\ \E q : todo' = [todo EXCEPT ![d] = q]
      BY <2>4 DEF TakePublic, TakeConfirmed, TakeBootstrap, TakeChunk, TakeOther, Done
    <3> QED BY <1>3, <2>1, <3>1
  <2> QED BY <2>1, <2>2, <2>3, <2>4
<1>10. ASSUME NEW d \in Device, \/ SendPayload(d) \/ Lookup(d) \/ Activate(d) \/ Answer(d)
                                \/ Abort(d) \/ Note(d) \/ Settle(d)
      PROVE  Resting'
  <2>1. todo[d] # <<>> /\ conn' = conn /\ \E q : todo' = [todo EXCEPT ![d] = q]
    BY <1>10 DEF SendPayload, Lookup, Activate, Answer, Abort, Note, Settle, At, Proceed, wire
  <2> QED BY <1>3, <2>1 DEF Resting
<1>11. CASE RosterMoves \/ Expire \/ UNCHANGED vars
  BY <1>1, <1>11 DEF RosterMoves, Expire, vars, wire, memory
<1>12. ASSUME NEW d \in Device, Reconcile(d) PROVE Resting'
  BY <1>1, <1>12 DEF Reconcile, wire
<1> QED BY <1>4, <1>5, <1>6, <1>7, <1>8, <1>9, <1>10, <1>11, <1>12, Steps

(***************************************************************************)
(* Who confirmed what                                                      *)
(***************************************************************************)

Both(a, p, c) == <<a, c>> \in confirmed /\ <<p, c>> \in confirmed

\* A frame says no more than its sender could say: a confirmation is one, and the key
\* follows two of them.
Fits(d, e) ==
    /\ e.type # "request" => e.to = d
    /\ e.type \in {"public", "bootstrap", "chunk"} => Link(e.channel, e.from, e.to)
    /\ e.type = "public" => e.id # 0
    /\ e.type = "confirmed" =>
          Link(e.channel, e.to, e.from) /\ <<e.from, e.channel>> \in confirmed
    /\ e.type = "bootstrap" => Both(e.from, e.to, e.channel)
FramesFit == \A d \in Device : \A e \in Frames(d) : Fits(d, e)

SessionFits(d, s) ==
    /\ s.ours => <<d, s.channel>> \in confirmed
    /\ Approver(d, s) =>
          /\ Link(s.channel, d, s.id) /\ s.peer = s.id /\ secret[d] /\ profile[d] = "active"
          /\ s.theirs => <<s.id, s.channel>> \in confirmed
    /\ ~Approver(d, s) => Link(s.channel, s.peer, d)
SessionsFit ==
    \A d \in Device : \A s \in pairing[d] :
        /\ conn[d] \notin {"fresh", "submitting", "saving", "lost", "down"}
        /\ SessionFits(d, s)

ProfilesFit ==
    \A d \in Device :
        /\ conn[d] \in {"fresh", "submitting", "saving", "lost"} => profile[d] = "none"
        /\ conn[d] = "saving" \/ profile[d] # "none" => row[d] # "none"
        /\ profile[d] = "active" => secret[d]

\* A restart takes up the pairing that the device's own note names.
Paired(d) == IF d \in New /\ note[d][d].state = "InProgress" THEN {note[d][d]} ELSE {}
NotesFit == \A d \in Device : \A n \in Paired(d) : Link(n.channel, n.peer, d)

JobsFit == \A d \in Device : \A p \in job[d].id :
              Link(job[d].channel, d, p) /\ Both(d, p, job[d].channel)

\* Events are stored with the type and for the channel they were sent with.
EventsFit == \A e \in events : e.type \in {"public", "confirmed", "bootstrap", "chunk"}

Pairings == /\ WellTyped /\ Resting /\ FramesFit /\ SessionsFit /\ ProfilesFit /\ NotesFit
            /\ JobsFit /\ EventsFit

LEMMA PairingsInit == Init => Pairings
<1> SUFFICES ASSUME Init PROVE Pairings OBVIOUS
<1>1. WellTyped BY WellTypedInit
<1>2. \A d \in Device : Frames(d) = {} BY RangeOfEmpty DEF Init, Frames
<1>3. FramesFit BY <1>2 DEF FramesFit
<1>4. SessionsFit /\ Resting BY DEF Init, SessionsFit, Resting
<1>5. ProfilesFit
  <2>1. \A d \in Device : d \in Old \/ d \notin Old OBVIOUS
  <2> QED BY <2>1 DEF Init, ProfilesFit
<1>6. NotesFit BY DEF Init, NotesFit, Paired, NoNote, Device
<1>7. JobsFit BY DEF Init, JobsFit, NoJob
<1>8. EventsFit BY DEF Init, EventsFit
<1> QED BY <1>1, <1>3, <1>4, <1>5, <1>6, <1>7, <1>8 DEF Pairings

LEMMA FramesGrow ==
    ASSUME WellTyped, [Next]_vars
    PROVE  \/ /\ last' = last /\ events' \subseteq events
              /\ \A x \in Device : \A f \in Frames(x)' : f \in Frames(x) \/ f \in Notices(x)
           \/ \E d \in Device : \E e :
                 /\ Sent(e) /\ (Starts(d, e) \/ Confirms(d, e) \/ Pays(d, e))
                 /\ \A x \in Device : \A f \in Frames(x)' : f \in Frames(x) \/ (x = e.to /\ f = e)
<1>1. CASE Quiet
  <2>1. \A x \in Device : \A f \in Frames(x)' : f \in Frames(x) \/ f \in Notices(x)
    BY <1>1 DEF Quiet, QueuesGrow, Frames
  <2> QED BY <1>1, <2>1 DEF Quiet
<1>2. ASSUME NEW d \in Device, NEW e, Sent(e), Starts(d, e) \/ Confirms(d, e) \/ Pays(d, e)
      PROVE  \A x \in Device : \A f \in Frames(x)' : f \in Frames(x) \/ (x = e.to /\ f = e)
  <2> SUFFICES ASSUME NEW x \in Device, NEW f \in Frames(x)'
               PROVE  f \in Frames(x) \/ (x = e.to /\ f = e)
    OBVIOUS
  <2>1. CASE f \in Range(queue'[x]) BY <1>2, <2>1 DEF Sent, QueuesGrow
  <2>2. CASE f \in events' /\ f.to = x BY <1>2, <2>2 DEF Sent, Frames
  <2> QED BY <2>1, <2>2 DEF Frames
<1> QED BY <1>1, <1>2, FramesStep

LEMMA FitsKept ==
    ASSUME WellTyped, [Next]_vars, NEW d, NEW e, Fits(d, e)
    PROVE  Fits(d, e)'
<1>1. confirmed \subseteq confirmed' BY GhostStep DEF GhostsGrow
<1> QED BY <1>1, LinkKept DEF Fits, Both

LEMMA FramesFitStep == ASSUME Pairings, [Next]_vars PROVE FramesFit'
<1>0. WellTyped BY DEF Pairings
<1>1. \A x \in Device : \A f \in Frames(x) : Fits(x, f)'
  BY <1>0, FitsKept DEF Pairings, FramesFit
<1>2. \A x \in Device : \A f \in Notices(x) : Fits(x, f)' BY DEF Notices, Fits
<1>3. ASSUME NEW d \in Device, NEW e, Sent(e), Starts(d, e) \/ Confirms(d, e) \/ Pays(d, e)
      PROVE  Fits(e.to, e)'
  <2>0. e.id = last + 1 /\ last \in Nat BY <1>0, <1>3 DEF Sent, WellTyped, ServerTypes
  <2>1. e.id # 0 BY <2>0
  <2>2. CASE Starts(d, e)
    <3>1. PICK p \in New : /\ e.type = "public" /\ e.from = d /\ e.to = p
                           /\ e.channel = Len(drawn) + 1
                           /\ drawn' = Append(drawn, [by |-> d, with |-> p])
      BY <2>2 DEF Starts
    <3>2. Link(e.channel, d, p)' BY <1>0, <3>1, LinkDrawn
    <3> QED BY <2>1, <3>1, <3>2 DEF Fits
  <2>3. CASE Confirms(d, e)
    <3>1. PICK s \in pairing[d] :
              /\ ~Approver(d, s) /\ e.type = "confirmed" /\ e.from = d /\ e.to = s.peer
              /\ e.channel = s.channel /\ confirmed' = confirmed \cup {<<d, s.channel>>}
      BY <2>3 DEF Confirms
    <3>2. Link(s.channel, s.peer, d) BY <3>1 DEF Pairings, SessionsFit, SessionFits
    <3>3. Link(s.channel, s.peer, d)' BY <1>0, <3>2, LinkKept
    <3> QED BY <3>1, <3>3 DEF Fits
  <2>4. CASE Pays(d, e)
    <3>1. PICK p \in job[d].id : /\ e.type \in {"bootstrap", "chunk"} /\ e.from = d /\ e.to = p
                                 /\ e.channel = job[d].channel
      BY <2>4 DEF Pays
    <3>2. Link(e.channel, d, p) /\ Both(d, p, e.channel) BY <3>1 DEF Pairings, JobsFit
    <3>3. Link(e.channel, d, p)' BY <1>0, <3>2, LinkKept
    <3>4. confirmed \subseteq confirmed' BY <1>0, GhostStep DEF GhostsGrow
    <3> QED BY <3>1, <3>2, <3>3, <3>4 DEF Fits, Both
  <2> QED BY <1>3, <2>2, <2>3, <2>4
<1>4. \A x \in Device : \A f \in Frames(x)' : Fits(x, f)' BY <1>0, <1>1, <1>2, <1>3, FramesGrow
<1> QED BY <1>4 DEF FramesFit


LEMMA ProfilesFitStep == ASSUME Pairings, [Next]_vars PROVE ProfilesFit'
<1>0. WellTyped /\ ProfilesFit BY DEF Pairings
<1>1. ProfilesMove BY <1>0, ProfilesStep
<1> SUFFICES ASSUME NEW d \in Device
             PROVE  /\ conn'[d] \in {"fresh", "submitting", "saving", "lost"} =>
                          profile'[d] = "none"
                    /\ conn'[d] = "saving" \/ profile'[d] # "none" => row'[d] # "none"
                    /\ profile'[d] = "active" => secret'[d]
  BY DEF ProfilesFit
<1>2. /\ conn[d] \in {"fresh", "submitting", "saving", "lost"} => profile[d] = "none"
      /\ conn[d] = "saving" \/ profile[d] # "none" => row[d] # "none"
      /\ profile[d] = "active" => secret[d]
  BY <1>0 DEF ProfilesFit
<1>3. ProfileMoves(d) /\ ConnMoves(d) BY <1>1 DEF ProfilesMove
<1>4. row[d] # "none" => row'[d] # "none"
  <2>1. row \in [Device -> {"none", "pending", "active"}] BY <1>0 DEF WellTyped, ServerTypes
  <2> QED BY <1>0, <2>1, RowsStep
<1> QED BY <1>2, <1>3, <1>4 DEF ProfileMoves, ConnMoves

\* A session that is kept, with the same device and channel, still fits.
LEMMA SessionKept ==
    ASSUME Pairings, [Next]_vars, NEW d \in Device, NEW s \in pairing[d], NEW t,
           t.id = s.id, t.peer = s.peer, t.channel = s.channel, t \in pairing'[d],
           t.ours => s.ours \/ <<d, s.channel>> \in confirmed',
           t.theirs => s.theirs \/ ~Approver(d, s) \/ <<s.id, s.channel>> \in confirmed'
    PROVE  SessionFits(d, t)'
<1>0. WellTyped /\ SessionFits(d, s) BY DEF Pairings, SessionsFit
<1>1. confirmed \subseteq confirmed' BY <1>0, GhostStep DEF GhostsGrow
<1>2. Approver(d, t) = Approver(d, s) BY DEF Approver
<1>3. t.ours => <<d, t.channel>> \in confirmed' BY <1>0, <1>1 DEF SessionFits
<1>4. CASE Approver(d, s)
  <2>1. Link(s.channel, d, s.id)' BY <1>0, <1>4, LinkKept DEF SessionFits
  <2>2. secret'[d] /\ profile'[d] = "active"
    <3>1. ProfilesMove BY <1>0, ProfilesStep
    <3>2. ProfileMoves(d) /\ conn[d] # "saving"
      BY <3>1 DEF ProfilesMove, Pairings, SessionsFit
    <3>3. secret[d] /\ profile[d] = "active" BY <1>0, <1>4 DEF SessionFits
    <3> QED BY <3>2, <3>3 DEF ProfileMoves
  <2>3. t.theirs => <<t.id, t.channel>> \in confirmed' BY <1>0, <1>1, <1>4 DEF SessionFits
  <2>4. t.peer = t.id BY <1>0, <1>4 DEF SessionFits
  <2> QED BY <1>2, <1>3, <1>4, <2>1, <2>2, <2>3, <2>4 DEF SessionFits, Approver
<1>5. CASE ~Approver(d, s)
  <2>1. Link(t.channel, t.peer, d)' BY <1>0, <1>5, LinkKept DEF SessionFits
  <2> QED BY <1>2, <1>3, <1>5, <2>1 DEF SessionFits, Approver
<1> QED BY <1>4, <1>5

\* What a confirmation that opens says of the pairing it is for.
LEMMA ConfirmationSays ==
    ASSUME Pairings, NEW d \in Device, NEW s \in pairing[d], NEW e \in Frames(d),
           e.type = "confirmed", Opens(s, e), Approver(d, s)
    PROVE  <<s.id, s.channel>> \in confirmed
<1>1. Fits(d, e) BY DEF Pairings, FramesFit
<1>2. Link(e.channel, e.to, e.from) /\ <<e.from, e.channel>> \in confirmed BY <1>1 DEF Fits
<1>3. Link(s.channel, d, s.id) BY DEF Pairings, SessionsFit, SessionFits
<1>4. e.from = s.id /\ e.channel = s.channel BY <1>2, <1>3 DEF Link, Opens
<1> QED BY <1>2, <1>4

\* A session of the next state: one of this state, or a new one.
LEMMA SessionsCome ==
    ASSUME WellTyped, [Next]_vars, NEW d \in Device, NEW t \in pairing'[d]
    PROVE  \/ t \in pairing[d]
           \/ \E p \in New : Opened(d, p) /\ t = Session(p, p, Len(drawn) + 1)
           \/ \E s \in pairing[d] : Said(d, s) /\ t = [s EXCEPT !.ours = TRUE]
           \/ \E s \in pairing[d] : \E e : Heard(d, s, e) /\ t = [s EXCEPT !.theirs = TRUE]
           \/ \E e \in Frame : Offered(d, e) /\ t = Session(d, e.from, e.channel)
           \/ Resumed(d) /\ t \in Restored(d)
<1>0. pairing \in [Device -> SUBSET Sessions] BY DEF WellTyped, ClientTypes
<1>1. PairingMoves BY PairingStep
<1>2. CASE pairing' = pairing BY <1>2
<1>3. ASSUME NEW x \in Device, pairing' = [pairing EXCEPT ![x] = {}] PROVE t \in pairing[d]
  BY <1>0, <1>3
<1>4. ASSUME NEW x \in Device, NEW p \in New, Opened(x, p)
      PROVE  t \in pairing[d] \/ (x = d /\ t = Session(p, p, Len(drawn) + 1))
  BY <1>0, <1>4 DEF Opened
<1>5. ASSUME NEW x \in Device, NEW s, Said(x, s)
      PROVE  t \in pairing[d] \/ (x = d /\ t = [s EXCEPT !.ours = TRUE])
  BY <1>0, <1>5 DEF Said
<1>6. ASSUME NEW x \in Device, NEW s, NEW e, Heard(x, s, e)
      PROVE  t \in pairing[d] \/ (x = d /\ t = [s EXCEPT !.theirs = TRUE])
  BY <1>0, <1>6 DEF Heard
<1>7. ASSUME NEW x \in Device, NEW e \in Frame, Offered(x, e)
      PROVE  t \in pairing[d] \/ (x = d /\ t = Session(d, e.from, e.channel))
  BY <1>0, <1>7 DEF Offered, TakePublic
<1>8. ASSUME NEW x \in Device, Resumed(x) PROVE t \in pairing[d] \/ (x = d /\ t \in Restored(d))
  BY <1>0, <1>8 DEF Resumed
<1>9. ASSUME NEW s, Said(d, s) \/ \E e : Heard(d, s, e) PROVE s \in pairing[d]
  BY <1>9 DEF Said, Heard
<1> QED BY <1>1, <1>2, <1>3, <1>4, <1>5, <1>6, <1>7, <1>8, <1>9 DEF PairingMoves


LEMMA SessionsFitStep ==
    ASSUME Pairings, [Next]_vars
    PROVE  SessionsFit' /\ \A d \in Device : pairing'[d] \subseteq Sessions
<1>0. WellTyped BY DEF Pairings
<1> SUFFICES ASSUME NEW d \in Device, NEW t \in pairing'[d]
             PROVE  /\ conn'[d] \notin {"fresh", "submitting", "saving", "lost", "down"}
                    /\ SessionFits(d, t)'
                    /\ t \in Sessions
  BY DEF SessionsFit
<1> DEFINE G == /\ conn'[d] \notin {"fresh", "submitting", "saving", "lost", "down"}
                /\ SessionFits(d, t)'
                /\ t \in Sessions
<1>1. ProfilesMove BY <1>0, ProfilesStep
<1>2. ConnMoves(d) /\ ProfileMoves(d) BY <1>1 DEF ProfilesMove
<1>3. conn'[d] \notin {"lost", "down"} \/ conn'[d] = conn[d] BY <1>2 DEF ConnMoves
<1>4. ASSUME conn[d] \notin {"fresh", "submitting", "saving", "lost", "down"}
      PROVE  conn'[d] \notin {"fresh", "submitting", "saving", "lost", "down"}
  BY <1>2, <1>3, <1>4 DEF ConnMoves
<1>5. \A s \in pairing[d] : s \in Sessions BY <1>0 DEF WellTyped, ClientTypes
<1>6. ASSUME NEW s \in pairing[d], t.id = s.id, t.peer = s.peer, t.channel = s.channel,
             t.ours => s.ours \/ <<d, s.channel>> \in confirmed',
             t.theirs => s.theirs \/ ~Approver(d, s) \/ <<s.id, s.channel>> \in confirmed'
      PROVE  /\ conn'[d] \notin {"fresh", "submitting", "saving", "lost", "down"}
             /\ SessionFits(d, t)'
  <2>1. SessionFits(d, t)' BY <1>6, SessionKept
  <2>2. conn[d] \notin {"fresh", "submitting", "saving", "lost", "down"}
    BY DEF Pairings, SessionsFit
  <2> QED BY <1>4, <2>1, <2>2
<1>7. CASE t \in pairing[d] BY <1>5, <1>6, <1>7
<1>8. ASSUME NEW p \in New, Opened(d, p), t = Session(p, p, Len(drawn) + 1)
      PROVE  G
  <2>1. PICK c : c = Len(drawn) + 1 OBVIOUS
  <2>2. /\ profile[d] = "active" /\ p # d /\ conn[d] \in {"on", "broken"} /\ c \in Channel
        /\ drawn' = Append(drawn, [by |-> d, with |-> p])
    BY <1>8, <2>1 DEF Opened
  <2>3. Link(c, d, p)' BY <1>0, <2>1, <2>2, LinkDrawn
  <2>4. /\ t.id = p /\ t.peer = p /\ t.channel = c /\ ~t.ours /\ ~t.theirs /\ t \in Sessions
    BY <1>8, <2>1, <2>2, Devices DEF Session, Sessions
  <2>5. secret'[d] /\ profile'[d] = "active"
    <3>1. secret[d] BY <2>2 DEF Pairings, ProfilesFit
    <3> QED BY <1>2, <2>2, <3>1 DEF ProfileMoves
  <2>6. SessionFits(d, t)' BY <2>2, <2>3, <2>4, <2>5 DEF SessionFits, Approver
  <2> QED BY <1>4, <2>2, <2>4, <2>6
<1>9. ASSUME NEW s \in pairing[d], Said(d, s), t = [s EXCEPT !.ours = TRUE]
      PROVE  G
  <2>1. /\ t \in Sessions /\ t.id = s.id /\ t.peer = s.peer /\ t.channel = s.channel
        /\ t.theirs = s.theirs
    BY <1>5, <1>9 DEF Sessions
  <2>2. <<d, s.channel>> \in confirmed' BY <1>9 DEF Said
  <2> QED BY <1>6, <2>1, <2>2
<1>10. ASSUME NEW s \in pairing[d], NEW e, Heard(d, s, e), t = [s EXCEPT !.theirs = TRUE]
       PROVE  G
  <2>1. t \in Sessions /\ t.id = s.id /\ t.peer = s.peer /\ t.channel = s.channel /\ t.ours = s.ours
    BY <1>5, <1>10 DEF Sessions
  <2>2. e \in Frames(d) /\ e.type = "confirmed" /\ Opens(s, e)
    BY <1>10 DEF Heard, TakeConfirmed
  <2>3. confirmed \subseteq confirmed' BY <1>0, GhostStep DEF GhostsGrow
  <2>4. Approver(d, s) => <<s.id, s.channel>> \in confirmed' BY <2>2, <2>3, ConfirmationSays
  <2> QED BY <1>6, <2>1, <2>4
<1>11. ASSUME NEW e \in Frame, Offered(d, e), t = Session(d, e.from, e.channel)
       PROVE  G
  <2>1. e \in Frames(d) /\ e.type = "public" /\ conn[d] \in {"on", "broken"}
    BY <1>11 DEF Offered, TakePublic
  <2>2. Fits(d, e) BY <2>1 DEF Pairings, FramesFit
  <2>3. Link(e.channel, e.from, d) BY <2>1, <2>2 DEF Fits
  <2>4. e.channel \in Channel /\ e.from \in Device /\ d \in New BY <1>0, <2>3, LinkTyped
  <2>5. /\ t.id = d /\ t.peer = e.from /\ t.channel = e.channel /\ ~t.ours /\ ~t.theirs
        /\ t \in Sessions
    BY <1>11, <2>4 DEF Session, Sessions
  <2>6. Link(e.channel, e.from, d)' BY <1>0, <2>3, LinkKept
  <2>7. SessionFits(d, t)' BY <2>5, <2>6 DEF SessionFits, Approver
  <2> QED BY <1>4, <2>1, <2>5, <2>7
<1>12. CASE Resumed(d) /\ t \in Restored(d)
  <2>1. PICK n : n = note[d][d] OBVIOUS
  <2>2. /\ d \in New /\ n.state = "InProgress"
        /\ t = [id |-> d, peer |-> n.peer, channel |-> n.channel, ours |-> FALSE, theirs |-> FALSE]
    BY <1>12, <2>1 DEF Restored
  <2>3. Link(n.channel, n.peer, d) BY <2>1, <2>2 DEF Pairings, NotesFit, Paired
  <2>4. n.channel \in Channel /\ n.peer \in Device BY <1>0, <2>3, LinkTyped
  <2>5. t \in Sessions BY <2>2, <2>4 DEF Sessions
  <2>6. Link(n.channel, n.peer, d)' BY <1>0, <2>3, LinkKept
  <2>7. SessionFits(d, t)' BY <2>2, <2>6 DEF SessionFits, Approver
  <2>8. conn'[d] = "greeting" BY <1>0, <1>12 DEF Resumed, Login, WellTyped, WireTypes
  <2> QED BY <2>5, <2>7, <2>8
<1>13. \/ t \in pairing[d]
       \/ \E p \in New : Opened(d, p) /\ t = Session(p, p, Len(drawn) + 1)
       \/ \E s \in pairing[d] : Said(d, s) /\ t = [s EXCEPT !.ours = TRUE]
       \/ \E s \in pairing[d] : \E e : Heard(d, s, e) /\ t = [s EXCEPT !.theirs = TRUE]
       \/ \E e \in Frame : Offered(d, e) /\ t = Session(d, e.from, e.channel)
       \/ Resumed(d) /\ t \in Restored(d)
  BY <1>0, SessionsCome
<1> QED BY <1>7, <1>8, <1>9, <1>10, <1>11, <1>12, <1>13

LEMMA NotesFitStep == ASSUME Pairings, [Next]_vars PROVE NotesFit'
<1>0. WellTyped BY DEF Pairings
<1> SUFFICES ASSUME NEW d \in New, NEW n, n = note'[d][d], n.state = "InProgress"
             PROVE  Link(n.channel, n.peer, d)'
  BY DEF NotesFit, Paired, Link
<1>1. CASE n = note[d][d]
  <2>1. Link(n.channel, n.peer, d) BY <1>1, Devices DEF Pairings, NotesFit, Paired
  <2> QED BY <1>0, <2>1, LinkKept
<1>2. ASSUME NEW e \in Frame, Offered(d, e),
             n = [state |-> "InProgress", peer |-> e.from, channel |-> e.channel]
      PROVE  Link(n.channel, n.peer, d)'
  <2>1. e \in Frames(d) /\ e.type = "public" BY <1>2 DEF Offered, TakePublic
  <2>2. Fits(d, e) BY <2>1, Devices DEF Pairings, FramesFit
  <2>3. Link(n.channel, n.peer, d) BY <1>2, <2>1, <2>2 DEF Fits
  <2> QED BY <1>0, <2>3, LinkKept
<1> QED BY <1>0, <1>1, <1>2, NotesStep DEF NotesMove

LEMMA JobsFitStep == ASSUME Pairings, [Next]_vars PROVE JobsFit'
<1>0. WellTyped /\ Resting BY DEF Pairings
<1>1. confirmed \subseteq confirmed' BY <1>0, GhostStep DEF GhostsGrow
<1> SUFFICES ASSUME NEW d \in Device, NEW p \in job'[d].id
             PROVE  (Link(job[d].channel, d, p) /\ Both(d, p, job[d].channel))'
  BY DEF JobsFit
<1>2. PICK c : c = job'[d].channel OBVIOUS
<1>3. ASSUME Link(c, d, p), <<d, c>> \in confirmed', <<p, c>> \in confirmed'
      PROVE  (Link(job[d].channel, d, p) /\ Both(d, p, job[d].channel))'
  <2>1. Link(c, d, p)' BY <1>0, <1>3, LinkKept
  <2> QED BY <1>2, <1>3, <2>1 DEF Link, Both
<1>4. CASE job'[d].id = job[d].id /\ job'[d].channel = job[d].channel
  <2>1. Link(c, d, p) /\ Both(d, p, c) BY <1>2, <1>4 DEF Pairings, JobsFit
  <2> QED BY <1>1, <1>3, <2>1 DEF Both
<1>5. ASSUME NEW s, Earned(d, s), job'[d].id = {s.id}, job'[d].channel = s.channel
      PROVE  (Link(job[d].channel, d, p) /\ Both(d, p, job[d].channel))'
  <2>1. p = s.id /\ c = s.channel /\ s \in pairing[d] /\ Approver(d, s)
    BY <1>2, <1>5 DEF Earned
  <2>2. SessionFits(d, s) BY <2>1 DEF Pairings, SessionsFit
  <2>3. Link(c, d, p) BY <2>1, <2>2 DEF SessionFits
  <2>4. <<d, c>> \in confirmed' BY <1>1, <1>5, <2>1, <2>2 DEF Earned, SessionFits
  <2>5. CASE s.theirs BY <1>1, <1>3, <2>1, <2>2, <2>3, <2>4, <2>5 DEF SessionFits
  <2>6. ASSUME NEW e \in Frames(d), e.type = "confirmed", Opens(s, e)
        PROVE  <<p, c>> \in confirmed'
    BY <1>1, <2>1, <2>6, ConfirmationSays
  <2>7. <<p, c>> \in confirmed' BY <1>5, <1>1, <2>1, <2>2, <2>6 DEF Earned, SessionFits
  <2> QED BY <1>3, <2>3, <2>4, <2>7
<1>6. JobMoves(d) BY <1>0, JobsStep DEF JobsMove
<1> QED BY <1>4, <1>5, <1>6 DEF JobMoves


\* A device takes part in one pairing at a time.
OneSession ==
    pairing \in [Device -> SUBSET Sessions] /\ \A d \in Device : \A s, t \in pairing[d] : s = t

LEMMA OneSessionSet ==
    ASSUME Pairings, [Next]_vars, NEW d \in Device, NEW S, \A s, t \in S : s = t,
           pairing' = [pairing EXCEPT ![d] = S]
    PROVE  OneSession'
<1>0. WellTyped /\ pairing \in [Device -> SUBSET Sessions] BY DEF Pairings, WellTyped, ClientTypes
<1>1. pairing'[d] \subseteq Sessions BY SessionsFitStep
<1>2. S \in SUBSET Sessions BY <1>0, <1>1
<1>3. /\ pairing' \in [Device -> SUBSET Sessions]
      /\ \A x \in Device : \A s, t \in pairing'[x] : s = t
  BY <1>0, <1>2, PairingAt
<1> QED BY <1>3 DEF OneSession

LEMMA OneSessionStep == ASSUME Pairings, [Next]_vars PROVE OneSession'
<1>0. WellTyped BY DEF Pairings
<1>1. CASE pairing' = pairing BY <1>0, <1>1 DEF WellTyped, ClientTypes, OneSession
<1>2. ASSUME NEW d \in Device, pairing' = [pairing EXCEPT ![d] = {}] PROVE OneSession'
  BY <1>2, OneSessionSet
<1>3. ASSUME NEW d \in Device, NEW s, pairing' = [pairing EXCEPT ![d] = {s}] PROVE OneSession'
  BY <1>3, OneSessionSet
<1>4. ASSUME NEW d \in Device, Resumed(d) PROVE OneSession'
  <2>1. PICK S : S = Restored(d) OBVIOUS
  <2>2. \A s, t \in S : s = t BY <2>1 DEF Restored
  <2>3. pairing' = [pairing EXCEPT ![d] = S] BY <1>4, <2>1 DEF Resumed
  <2> QED BY <2>2, <2>3, OneSessionSet
<1>5. ASSUME NEW d \in Device, NEW s, Said(d, s) PROVE OneSession' BY <1>3, <1>5 DEF Said
<1>6. ASSUME NEW d \in Device, NEW s, NEW e, Heard(d, s, e) PROVE OneSession'
  BY <1>3, <1>6 DEF Heard
<1>7. ASSUME NEW d \in Device, NEW e \in Frame, Offered(d, e) PROVE OneSession'
  BY <1>3, <1>7 DEF Offered, TakePublic
<1>8. ASSUME NEW d \in Device, NEW p \in New, Opened(d, p) PROVE OneSession'
  BY <1>3, <1>8 DEF Opened
<1> QED BY <1>0, <1>1, <1>2, <1>4, <1>5, <1>6, <1>7, <1>8, PairingStep DEF PairingMoves

LEMMA PairingsStep == ASSUME Pairings, [Next]_vars PROVE Pairings'
<1>0. WellTyped /\ Resting /\ EventsFit BY DEF Pairings
<1>1. ServerTypes' BY <1>0, ServerStep
<1>2. WireTypes' BY <1>0, ConnStep, FramesStep DEF WireTypes
<1>3. ClientTypes'
  <2>1. profile' \in [Device -> {"none", "pending", "active"}] /\ secret' \in [Device -> BOOLEAN]
    BY <1>0, ProfilesStep DEF ProfilesMove
  <2>2. note' \in [Device -> [New -> NoteOf]] BY <1>0, NotesStep DEF NotesMove
  <2>3. processed' \in [Device -> SUBSET Nat] BY <1>0, ProcessedStep DEF ProcessedMoves
  <2>4. todo' \in [Device -> Seq(StepName)] /\ job' \in [Device -> JobOf]
    BY <1>0, JobsStep DEF JobsMove
  <2> QED BY <2>1, <2>2, <2>3, <2>4, OneSessionStep DEF ClientTypes, OneSession
<1>4. ChannelTypes' BY <1>0, ChannelStep
<1>5. SessionsFit' BY SessionsFitStep
<1>6. EventsFit'
  <2>1. \/ events' \subseteq events
        \/ \E e : /\ events' = events \cup {e}
                  /\ e.type \in {"public", "confirmed", "bootstrap", "chunk"}
    BY <1>0, FramesStep DEF Quiet, Sent
  <2> QED BY <1>0, <2>1 DEF EventsFit
<1>7. Resting' BY <1>0, RestingStep
<1>8. FramesFit' /\ ProfilesFit' BY FramesFitStep, ProfilesFitStep
<1>9. NotesFit' /\ JobsFit' BY NotesFitStep, JobsFitStep
<1> QED BY <1>1, <1>2, <1>3, <1>4, <1>5, <1>6, <1>7, <1>8, <1>9 DEF Pairings, WellTyped

LEMMA PairingsAlways == Spec => []Pairings
<1>1. Pairings /\ UNCHANGED vars => Pairings' BY PairingsStep
<1>2. Pairings /\ [Next]_vars => Pairings' BY PairingsStep
<1> QED BY <1>1, <1>2, PairingsInit, PTL DEF Spec

\* A stored event went from one end of its channel to the other.
LEMMA EventsLinked ==
    ASSUME Pairings, NEW e \in events
    PROVE  /\ e \in Frames(e.to) /\ Fits(e.to, e) /\ e.channel \in Channel
           /\ {e.from, e.to} = {drawn[e.channel].by, drawn[e.channel].with}
<1>0. WellTyped /\ EventsFit /\ FramesFit BY DEF Pairings
<1>1. e \in Frame BY <1>0 DEF WellTyped, ServerTypes
<1>2. e.to \in Device /\ e \in Frames(e.to) BY <1>1 DEF Frames, Frame
<1>3. Fits(e.to, e) BY <1>0, <1>2 DEF FramesFit
<1>4. \/ Link(e.channel, e.from, e.to)
      \/ Link(e.channel, e.to, e.from)
  BY <1>0, <1>3 DEF EventsFit, Fits
<1>5. e.channel \in Channel BY <1>0, <1>4, LinkTyped
<1>6. {e.from, e.to} = {drawn[e.channel].by, drawn[e.channel].with} BY <1>4 DEF Link
<1> QED BY <1>2, <1>3, <1>5, <1>6

\* The types; a device takes its own notification for that of a pending side, an approver
\* has the key, a stored event went between the two ends of its channel, and the server
\* has a row for every saved profile (start_pairing, handle_pairing_event, authenticate).
THEOREM PairingTypesCorrect == Spec => []PairingTypeOK
<1>1. ASSUME Pairings PROVE PairingTypeOK
  <2>0. WellTyped BY <1>1 DEF Pairings
  <2>1. /\ row \in [Device -> {"none", "pending", "active"}]
        /\ profile \in [Device -> {"none", "pending", "active"}]
        /\ conn \in [Device -> Stages]
        /\ pairing \in [Device -> SUBSET Sessions]
        /\ \A d \in Device : \A s, t \in pairing[d] : s = t
    BY <2>0 DEF WellTyped, ServerTypes, ClientTypes, WireTypes
  <2>2. \A d \in Device : conn[d] \in
          {"fresh", "submitting", "saving", "lost", "down", "greeting", "on", "broken", "off"}
    BY <2>1 DEF Stages
  <2>3. ASSUME NEW d \in Device PROVE pairing[d] \subseteq Sessions /\ Cardinality(pairing[d]) <= 1
    <3>1. CASE pairing[d] = {} BY <2>1, <3>1, FS_EmptySet
    <3>2. ASSUME NEW s \in pairing[d] PROVE Cardinality(pairing[d]) <= 1
      <4>1. pairing[d] = {s} BY <2>1, <3>2
      <4>2. Cardinality({s}) = 1 BY FS_Singleton
      <4> QED BY <4>1, <4>2
    <3> QED BY <2>1, <3>1, <3>2
  <2>4. \A d \in Device : \A s \in pairing[d] :
            Approver(d, s) => secret[d] /\ profile[d] = "active"
    BY <1>1 DEF Pairings, SessionsFit, SessionFits
  <2>5. \A e \in events : e.id \in 1 .. last /\ e.type \in Types
    BY <2>0 DEF WellTyped, ServerTypes, Frame
  <2>6. \A e \in events : e.channel \in Channel /\
            {e.from, e.to} = {drawn[e.channel].by, drawn[e.channel].with}
    BY <1>1, EventsLinked
  <2>7. \A d \in Device : profile[d] # "none" => row[d] # "none"
    BY <1>1 DEF Pairings, ProfilesFit
  <2> QED BY <2>1, <2>2, <2>3, <2>4, <2>5, <2>6, <2>7 DEF PairingTypeOK
<1> QED BY <1>1, PairingsAlways, PTL

\* The account's key is only sent over a channel whose code both users have found to be
\* the same, however many devices are paired, in whatever order the events and the
\* restarts come (confirm_pairing, handle_pairing_event, finish_pairing_as_approver).
THEOREM KeysConfirmed == Spec => []KeysOverConfirmedChannel
<1>1. ASSUME Pairings PROVE KeysOverConfirmedChannel
  <2>1. \A e \in events : Fits(e.to, e) BY <1>1, EventsLinked
  <2> QED BY <2>1 DEF KeysOverConfirmedChannel, Fits, Both
<1> QED BY <1>1, PairingsAlways, PTL



(***************************************************************************)
(* An offer is taken once                                                  *)
(***************************************************************************)

\* A code is offered in one event: whatever else is on the way is for another channel.
PublicOnce ==
    \A d \in Device : \A e, f \in Frames(d) :
        e.type = "public" /\ f.type = "public" /\ e.channel = f.channel => e.id = f.id

\* A pairing that was made of an offer is there while the offer waits for its mark, and at
\* no other time before the mark is made; unless a crash came between the two.
Settling(d, e) == todo[d] = <<"settle">> /\ job[d].event = e.id
Untaken(d, e) ==
    e.type = "public" /\ <<d, e.channel>> \notin interrupted /\ e.id \notin processed[d]
TakenOnce ==
    \A d \in Device : \A e \in Frames(d) : Untaken(d, e) =>
        /\ \A s \in pairing[d] : s.id = d /\ s.channel = e.channel => Settling(d, e)
        /\ \A n \in Paired(d) : n.channel = e.channel =>
              Settling(d, e) /\ \E s \in pairing[d] : s.channel = e.channel

Offers == Pairings /\ PublicOnce /\ TakenOnce

LEMMA OffersInit == Init => Offers
<1> SUFFICES ASSUME Init PROVE Offers OBVIOUS
<1>1. \A d \in Device : Frames(d) = {} BY RangeOfEmpty DEF Init, Frames
<1> QED BY <1>1, PairingsInit DEF Offers, PublicOnce, TakenOnce

\* An offer that is new names a channel that nothing has named before.
LEMMA OffersCome ==
    ASSUME Pairings, [Next]_vars, NEW d \in Device, NEW e \in Frames(d)', e.type = "public",
           e \notin Frames(d)
    PROVE  /\ e.channel \notin DOMAIN drawn
           /\ \A f \in Frames(d)' : f \in Frames(d) \/ f = e \/ f.type # "public"
<1>0. WellTyped BY DEF Pairings
<1>1. e \notin Notices(d) BY DEF Notices
<1>2. PICK x \in Device :
          /\ Starts(x, e) \/ Confirms(x, e) \/ Pays(x, e)
          /\ \A f \in Frames(d)' : f \in Frames(d) \/ f = e
  BY <1>0, <1>1, FramesGrow
<1>3. Starts(x, e) BY <1>2 DEF Confirms, Pays
<1>4. PICK p \in New : e.channel = Len(drawn) + 1 /\ drawn' = Append(drawn, [by |-> x, with |-> p])
  BY <1>3 DEF Starts
<1>5. e.channel \notin DOMAIN drawn BY <1>0, <1>4, LinkDrawn
<1> QED BY <1>2, <1>5

LEMMA OfferLinked ==
    ASSUME Pairings, NEW d \in Device, NEW e \in Frames(d), e.type = "public"
    PROVE  e.channel \in DOMAIN drawn /\ e.id # 0
BY DEF Pairings, FramesFit, Fits, Link

LEMMA PublicOnceStep == ASSUME Offers, [Next]_vars PROVE PublicOnce'
<1>0. Pairings BY DEF Offers
<1> SUFFICES ASSUME NEW d \in Device, NEW e \in Frames(d)', NEW f \in Frames(d)',
                    e.type = "public", f.type = "public", e.channel = f.channel
             PROVE  e.id = f.id
  BY DEF PublicOnce
<1>1. CASE e \in Frames(d) /\ f \in Frames(d) BY <1>1 DEF Offers, PublicOnce
<1>2. CASE e \notin Frames(d)
  <2>1. e.channel \notin DOMAIN drawn /\ (f \in Frames(d) \/ f = e) BY <1>0, <1>2, OffersCome
  <2> QED BY <1>0, <2>1, OfferLinked
<1>3. CASE f \notin Frames(d)
  <2>1. f.channel \notin DOMAIN drawn /\ (e \in Frames(d) \/ f = e) BY <1>0, <1>3, OffersCome
  <2> QED BY <1>0, <2>1, OfferLinked
<1> QED BY <1>1, <1>2, <1>3

\* The offer that is taken waits for its mark.
LEMMA OfferTaken ==
    ASSUME Offers, [Next]_vars, NEW d \in Device, NEW f \in Frame, Offered(d, f)
    PROVE  /\ f \in Frames(d) /\ f.type = "public" /\ f.channel \in DOMAIN drawn
           /\ (todo[d] = <<"settle">> /\ job[d].event = f.id)'
           /\ pairing'[d] = {Session(d, f.from, f.channel)}
<1>0. Pairings /\ WellTyped BY DEF Offers, Pairings
<1>1. f \in Frames(d) /\ f.type = "public" BY DEF Offered, TakePublic
<1>2. f.id # 0 /\ f.channel \in DOMAIN drawn BY <1>0, <1>1, OfferLinked
<1>3. Done(d, f) /\ pairing' = [pairing EXCEPT ![d] = {Session(d, f.from, f.channel)}]
  BY DEF Offered, TakePublic
<1>4. /\ todo \in [Device -> Seq(StepName)] /\ job \in [Device -> JobOf]
      /\ pairing \in [Device -> SUBSET Sessions]
  BY <1>0 DEF WellTyped, ClientTypes
<1>5. pairing'[d] = {Session(d, f.from, f.channel)} BY <1>3, <1>4
<1>6. todo'[d] = <<"settle">> BY <1>2, <1>3, <1>4 DEF Done
<1>7. job'[d].event = f.id BY <1>3, <1>4 DEF Done, NoJob
<1> QED BY <1>1, <1>2, <1>5, <1>6, <1>7

\* A pending side's pairing comes from the one before, an offer, or the note of one.
LEMMA SideComes ==
    ASSUME Pairings, [Next]_vars, NEW d \in Device, NEW t \in pairing'[d], t.id = d
    PROVE  \/ \E s \in pairing[d] : s.id = d /\ s.channel = t.channel
           \/ \E f \in Frame : Offered(d, f) /\ t.channel = f.channel
           \/ conn[d] = "down" /\ \E n \in Paired(d) : n.channel = t.channel
<1>0. WellTyped /\ pairing[d] \subseteq Sessions BY DEF Pairings, WellTyped, ClientTypes
<1>1. CASE t \in pairing[d] BY <1>1
<1>2. ASSUME NEW p \in New, Opened(d, p), t = Session(p, p, Len(drawn) + 1) PROVE FALSE
  BY <1>2 DEF Opened, Session
<1>3. ASSUME NEW s \in pairing[d], t = [s EXCEPT !.ours = TRUE] \/ t = [s EXCEPT !.theirs = TRUE]
      PROVE  s.id = d /\ s.channel = t.channel
  BY <1>0, <1>3 DEF Sessions
<1>4. ASSUME NEW f \in Frame, Offered(d, f), t = Session(d, f.from, f.channel)
      PROVE  t.channel = f.channel
  BY <1>4 DEF Session
<1>5. CASE Resumed(d) /\ t \in Restored(d)
  BY <1>5 DEF Resumed, Login, Restored, Paired
<1> QED BY <1>0, <1>1, <1>2, <1>3, <1>4, <1>5, SessionsCome

\* A note that a pairing is in progress comes from the one before, or from an offer.
LEMMA NoteComes ==
    ASSUME Pairings, [Next]_vars, NEW d \in Device, NEW n \in Paired(d)'
    PROVE  \/ n \in Paired(d)
           \/ \E f \in Frame : Offered(d, f) /\ n.channel = f.channel
<1>0. WellTyped BY DEF Pairings
<1>1. d \in New /\ n = note'[d][d] /\ n.state = "InProgress" BY DEF Paired
<1>2. \/ n = note[d][d]
      \/ \E f \in Frame :
            Offered(d, f) /\ n = [state |-> "InProgress", peer |-> f.from, channel |-> f.channel]
  BY <1>0, <1>1, NotesStep DEF NotesMove
<1>3. n = note[d][d] => n \in Paired(d) BY <1>1 DEF Paired
<1> QED BY <1>2, <1>3

LEMMA TakenOnceStep == ASSUME Offers, [Next]_vars PROVE TakenOnce'
<1>0. Pairings /\ WellTyped /\ Resting BY DEF Offers, Pairings
<1> SUFFICES ASSUME NEW d \in Device, NEW e \in Frames(d)', Untaken(d, e)'
             PROVE  /\ \A s \in pairing'[d] : s.id = d /\ s.channel = e.channel => Settling(d, e)'
                    /\ \A n \in Paired(d)' : n.channel = e.channel =>
                          Settling(d, e)' /\ \E s \in pairing'[d] : s.channel = e.channel
  BY DEF TakenOnce
<1>1. ASSUME NEW f \in Frame, Offered(d, f), f.channel = e.channel, e \in Frames(d)
      PROVE  Settling(d, e)' /\ \E s \in pairing'[d] : s.channel = e.channel
  <2>1. /\ f \in Frames(d) /\ f.type = "public"
        /\ todo'[d] = <<"settle">> /\ job'[d].event = f.id
        /\ pairing'[d] = {Session(d, f.from, f.channel)}
    BY <1>1, OfferTaken
  <2>2. f.id = e.id BY <1>1, <2>1 DEF Offers, PublicOnce, Untaken
  <2> QED BY <1>1, <2>1, <2>2 DEF Settling, Session
<1>2. CASE e \notin Frames(d)
  <2>1. e.channel \notin DOMAIN drawn BY <1>0, <1>2, OffersCome DEF Untaken
  <2>2. \A f \in Frame : Offered(d, f) => f.channel \in DOMAIN drawn BY OfferTaken
  <2>3. \A n \in Paired(d) : n.channel \in DOMAIN drawn BY <1>0 DEF Pairings, NotesFit, Link
  <2>4. \A s \in pairing[d] : s.channel \in DOMAIN drawn
    BY <1>0 DEF Pairings, SessionsFit, SessionFits, Link
  <2>5. \A s \in pairing'[d] : s.id = d => s.channel \in DOMAIN drawn
    BY <1>0, <2>2, <2>3, <2>4, SideComes
  <2>6. \A n \in Paired(d)' : n.channel \in DOMAIN drawn BY <1>0, <2>2, <2>3, NoteComes
  <2> QED BY <2>1, <2>5, <2>6
<1>3. CASE e \in Frames(d)
  <2>1. Untaken(d, e) /\ e.id \notin processed'[d] /\ <<d, e.channel>> \notin interrupted'
    BY <1>0, GhostStep, ProcessedStep DEF Untaken, GhostsGrow, ProcessedMoves
  <2>2. /\ \A s \in pairing[d] : s.id = d /\ s.channel = e.channel => Settling(d, e)
        /\ \A n \in Paired(d) : n.channel = e.channel =>
              Settling(d, e) /\ \E s \in pairing[d] : s.channel = e.channel
    BY <1>3, <2>1 DEF Offers, TakenOnce
  <2>3. ASSUME Settling(d, e)
        PROVE  \/ Settling(d, e)' /\ pairing'[d] = pairing[d]
               \/ pairing'[d] = {} /\ \A s \in pairing[d] : s.channel # e.channel
    <3>1. SettleMoves(d) BY <1>0, JobsStep DEF JobsMove
    <3> QED BY <2>1, <2>3, <3>1 DEF SettleMoves, Settling
  <2>4. Settling(d, e) => conn[d] # "down" BY <1>0 DEF Settling, Resting
  <2>5. ASSUME NEW t \in pairing'[d], t.id = d, t.channel = e.channel PROVE Settling(d, e)'
    <3>1. CASE \E s \in pairing[d] : s.id = d /\ s.channel = t.channel
      BY <2>2, <2>3, <2>5, <3>1
    <3>2. CASE \E f \in Frame : Offered(d, f) /\ t.channel = f.channel
      BY <1>1, <1>3, <2>5, <3>2
    <3>3. CASE conn[d] = "down" /\ \E n \in Paired(d) : n.channel = t.channel
      BY <2>2, <2>4, <2>5, <3>3
    <3> QED BY <1>0, <2>5, <3>1, <3>2, <3>3, SideComes
  <2>6. ASSUME NEW n \in Paired(d)', n.channel = e.channel
        PROVE  Settling(d, e)' /\ \E s \in pairing'[d] : s.channel = e.channel
    <3>1. CASE n \in Paired(d) BY <2>2, <2>3, <2>6, <3>1
    <3>2. CASE \E f \in Frame : Offered(d, f) /\ n.channel = f.channel
      BY <1>1, <1>3, <2>6, <3>2
    <3> QED BY <1>0, <2>6, <3>1, <3>2, NoteComes
  <2> QED BY <2>5, <2>6
<1> QED BY <1>2, <1>3

LEMMA OffersAlways == Spec => []Offers
<1>1. Offers /\ [Next]_vars => Offers'
  BY PairingsStep, PublicOnceStep, TakenOnceStep DEF Offers
<1> QED BY <1>1, OffersInit, PTL DEF Spec

\* A confirmation stands until its program ends, the pairing is over or another code takes
\* its place: an event that comes again, after a login or in the queue and in the store,
\* does not ask for it again, but for a crash between the handling of an event and its mark
\* (handle_pairing_event, processed_pairing_events).
THEOREM ConfirmationsStand == Spec => ConfirmationStands
<1>1. ASSUME Offers, [Next]_vars, NEW d \in Device, NEW s \in pairing[d], s.ours,
             <<d, s.channel>> \notin interrupted, NEW t \in pairing'[d], t.channel = s.channel
      PROVE  t.ours
  <2>0. Pairings /\ WellTyped BY <1>1 DEF Offers, Pairings
  <2>1. /\ pairing[d] \subseteq Sessions /\ \A x \in pairing[d] : x = s
        /\ conn \in [Device -> Stages]
    BY <1>1, <2>0 DEF WellTyped, ClientTypes, WireTypes
  <2>2. CASE t \in pairing[d] BY <1>1, <2>1, <2>2
  <2>3. ASSUME NEW p \in New, Opened(d, p) PROVE FALSE BY <1>1, <2>3 DEF Opened
  <2>4. CASE t = [s EXCEPT !.ours = TRUE] BY <1>1, <2>1, <2>4 DEF Sessions
  <2>5. CASE t = [s EXCEPT !.theirs = TRUE] BY <1>1, <2>1, <2>5 DEF Sessions
  <2>6. ASSUME NEW e \in Frame, Offered(d, e), t = Session(d, e.from, e.channel) PROVE FALSE
    <3>1. /\ e \in Frames(d) /\ e.type = "public" /\ e.id \notin processed[d]
          /\ todo[d] = <<>> /\ profile[d] = "pending"
      BY <2>6 DEF Offered, TakePublic, Handled
    <3>2. s.id = d BY <1>1, <2>0, <3>1 DEF Pairings, SessionsFit, SessionFits, Approver
    <3>3. e.channel = s.channel BY <1>1, <2>6 DEF Session
    <3>4. Untaken(d, e) BY <1>1, <3>1, <3>3 DEF Untaken
    <3>5. Settling(d, e) BY <1>1, <3>1, <3>2, <3>3, <3>4 DEF Offers, TakenOnce
    <3>6. <<"settle">> # <<>> OBVIOUS
    <3> QED BY <3>1, <3>5, <3>6 DEF Settling
  <2>7. ASSUME Resumed(d) PROVE FALSE
    BY <1>1, <2>0, <2>7 DEF Resumed, Login, Pairings, SessionsFit
  <2> QED BY <2>0, <2>1, <2>2, <2>3, <2>4, <2>5, <2>6, <2>7, <1>1, SessionsCome
<1>2. ASSUME Offers, [Next]_vars
      PROVE  [\A d \in Device : \A s \in pairing[d] :
                 s.ours /\ conn'[d] # "down" /\ <<d, s.channel>> \notin interrupted =>
                 \A t \in pairing'[d] : t.channel = s.channel => t.ours]_vars
  BY <1>1, <1>2
<1> QED BY <1>2, OffersAlways, PTL DEF Spec, ConfirmationStands

=============================================================================
