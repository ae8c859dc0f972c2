--------------------------- MODULE PrekeysProofs ---------------------------
(***************************************************************************)
(* One-time keys and sessions for every set of devices, every number of    *)
(* keys and all bounds on logins, messages and faults.                     *)
(***************************************************************************)
EXTENDS Prekeys, FiniteSetTheorems, TLAPS

(***************************************************************************)
(* Types                                                                   *)
(***************************************************************************)

Types ==
    /\ table \in [Device -> SUBSET Key] /\ private \in [Device -> SUBSET Key]
    /\ generated \in [Device -> SUBSET Key] /\ next \in [Device -> Nat]
    /\ unmarked = [d \in Device |-> {}]
    /\ \A d \in Device : IsFiniteSet(private[d]) /\ IsFiniteSet(generated[d])
    /\ sessions \in [Device -> [Device -> Seq(Session)]]
    /\ heard \in [Device -> SUBSET Session]
    /\ mailbox \in [Device -> SUBSET Ciphertext]
    /\ phase \in [Device -> {"off", "publishing", "published", "on"}]
    /\ job \in [Device -> SUBSET Job] /\ \A d \in Device : \A j, l \in job[d] : j = l
    /\ logins \in Nat /\ claimed \subseteq Key /\ orphans \subseteq Key

\* The keys a login generates: as many as asked for, with consecutive ids.
Run(d, a, n, l) == {[of |-> d, id |-> a + i, login |-> l] : i \in 0 .. n - 1}

LEMMA RunOfKeys ==
    ASSUME NEW d \in Device, NEW a \in Nat, NEW n \in Nat, NEW l \in Nat
    PROVE  /\ Run(d, a, n, l) \subseteq Key
           /\ IsFiniteSet(Run(d, a, n, l)) /\ Cardinality(Run(d, a, n, l)) = n
<1> DEFINE f == [i \in 0 .. n - 1 |-> [of |-> d, id |-> a + i, login |-> l]]
<1>1. IsFiniteSet(0 .. n - 1) /\ Cardinality(0 .. n - 1) = n BY FS_Interval
<1>2. f \in Bijection(0 .. n - 1, Run(d, a, n, l))
    BY DEF Run, Bijection, Injection, Surjection, IsInjective
<1>3. Run(d, a, n, l) \subseteq Key BY DEF Run, Key
<1> HIDE DEF f
<1> QED BY <1>1, <1>2, <1>3, FS_Bijection, FS_Surjection DEF Bijection

\* Fresh is such a run.
LEMMA FreshKeys ==
    ASSUME Types, NEW d \in Device, Missing(d) > 0
    PROVE  /\ Missing(d) \in Nat /\ Fresh(d) = Run(d, next[d], Missing(d), logins + 1)
           /\ Fresh(d) \subseteq Key
           /\ IsFiniteSet(Fresh(d)) /\ Cardinality(Fresh(d)) = Missing(d)
<1>1. Missing(d) \in Nat
    BY FS_CardinalityType, BoundAssumption DEF Types, Missing
<1>2. next[d] \in Nat /\ logins + 1 \in Nat BY DEF Types
<1>3. Fresh(d) = Run(d, next[d], Missing(d), logins + 1) BY DEF Fresh, Run
<1> QED BY <1>1, <1>2, <1>3, RunOfKeys

LEMMA TypesInit == Init => Types
<1> SUFFICES ASSUME Init PROVE Types OBVIOUS
<1>1. \A d \in Device : FirstKeys(d) \subseteq Key /\ IsFiniteSet(FirstKeys(d))
  <2> TAKE d \in Device
  <2>1. Target \in Nat BY BoundAssumption
  <2>2. FirstKeys(d) = Run(d, 1, Target, 0)
    <3>1. FirstKeys(d) \subseteq Run(d, 1, Target, 0)
      <4> SUFFICES ASSUME NEW i \in 1 .. Target
                   PROVE  [of |-> d, id |-> i, login |-> 0] \in Run(d, 1, Target, 0)
          BY DEF FirstKeys
      <4>1. i - 1 \in 0 .. Target - 1 /\ 1 + (i - 1) = i BY <2>1
      <4> QED BY <4>1 DEF Run
    <3>2. Run(d, 1, Target, 0) \subseteq FirstKeys(d) BY <2>1 DEF Run, FirstKeys
    <3> QED BY <3>1, <3>2
  <2> QED BY <2>1, <2>2, RunOfKeys
<1>2. IsFiniteSet({}) BY FS_EmptySet
<1>3. Target + 1 \in Nat BY BoundAssumption
<1>4. <<>> \in Seq(Session) OBVIOUS
<1> QED BY <1>1, <1>2, <1>3, <1>4 DEF Init, Types

\* A session that is used is one.
LEMMA WithIsSession ==
    ASSUME Types, NEW d \in Device, NEW j \in job[d], NEW e \in Device, e \in j.to,
           Unknown(d, j) = {}
    PROVE  With(d, e, j) \in Session
<1>1. j.new \subseteq Session BY DEF Types, Job
<1>2. CASE \E s \in j.new : s.to = e
    BY <1>1, <1>2 DEF With
<1>3. CASE ~ \E s \in j.new : s.to = e
  <2>1. sessions[d][e] # <<>> BY <1>3 DEF Unknown
  <2>2. sessions[d][e] \in Seq(Session) BY DEF Types
  <2>3. Len(sessions[d][e]) \in DOMAIN sessions[d][e] BY <2>1, <2>2
  <2> QED BY <1>3, <2>2, <2>3 DEF With
<1> QED BY <1>2, <1>3

LEMMA TypesStep ==
    ASSUME Types, [Next]_vars
    PROVE  Types'
<1>1. ASSUME NEW d \in Device, LoginComplete(d) PROVE Types'
    BY <1>1 DEF LoginComplete, Types, machine, counters
<1>2. ASSUME NEW d \in Device, LoginShort(d) PROVE Types'
  <2>1. Fresh(d) \subseteq Key /\ IsFiniteSet(Fresh(d)) BY <1>2, FreshKeys DEF LoginShort
  <2> QED BY <1>2, <2>1 DEF LoginShort, Types, machine
<1>3. ASSUME NEW d \in Device, Publish(d) PROVE Types'
    BY <1>3 DEF Publish, Inserted, Offered, Types, machine, counters
<1>4. ASSUME NEW d \in Device, SaveProfile(d) PROVE Types'
  <2>1. IsFiniteSet(private[d] \cup generated[d]) BY FS_Union DEF Types
  <2>2. Cardinality(generated[d]) \in Nat BY FS_CardinalityType DEF Types
  <2>3. IsFiniteSet({}) BY FS_EmptySet
  <2>4. unmarked' = unmarked BY <1>4 DEF SaveProfile, Marked, Types
  <2>5. next' \in [Device -> Nat] BY <1>4, <2>2 DEF SaveProfile, Types
  <2> QED BY <1>4, <2>1, <2>3, <2>4, <2>5 DEF SaveProfile, Types, counters
<1>5. ASSUME NEW d \in Device, End(d) PROVE Types'
  <2>1. IsFiniteSet({}) BY FS_EmptySet
  <2> QED BY <1>5, <2>1 DEF End, Fault, Types, machine
<1>6. ASSUME NEW d \in Device, Compose(d) PROVE Types'
  <2>1. PICK to \in Audience(d) : job' = [job EXCEPT ![d] = {[to |-> to, new |-> {}]}]
    BY <1>6 DEF Compose
  <2>2. [to |-> to, new |-> {}] \in Job BY DEF Audience, Job
  <2>3. UNCHANGED <<table, mailbox, machine, phase, generated, logins, claimed, orphans>>
    BY <1>6 DEF Compose
  <2>4. job' \in [Device -> SUBSET Job] /\ \A x \in Device : \A i, l \in job'[x] : i = l
    <3>1. PICK j : j = [to |-> to, new |-> {}] OBVIOUS
    <3>2. j \in Job /\ job' = [job EXCEPT ![d] = {j}] BY <2>1, <2>2, <3>1
    <3>3. job \in [Device -> SUBSET Job] /\ \A x \in Device : \A i, l \in job[x] : i = l
      BY DEF Types
    <3> QED BY <3>2, <3>3
  <2> QED BY <2>3, <2>4 DEF Types, machine
<1>7. ASSUME NEW d \in Device, NEW e \in Device, ClaimPreKey(d, e) PROVE Types'
  <2>1. PICK j \in job[d], k \in Oldest(e) :
          /\ table' = [table EXCEPT ![e] = Taken(e, k)]
          /\ claimed' = claimed \cup {k}
          /\ \/ job' = [job EXCEPT ![d] =
                  {[j EXCEPT !.new = @ \cup {[by |-> d, to |-> e, key |-> k]}]}]
             \/ job' = [job EXCEPT ![d] = {}]
    BY <1>7 DEF ClaimPreKey
  <2>2. k \in Key BY DEF Oldest, Types
  <2>3. [j EXCEPT !.new = @ \cup {[by |-> d, to |-> e, key |-> k]}] \in Job
    <3>1. j \in Job BY DEF Types
    <3>2. [by |-> d, to |-> e, key |-> k] \in Session BY <2>2 DEF Session
    <3> QED BY <3>1, <3>2 DEF Job
  <2>4. job' \in [Device -> SUBSET Job] /\ \A x \in Device : \A i, l \in job'[x] : i = l
    <3>1. CASE job' = [job EXCEPT ![d] = {}] BY <3>1 DEF Types
    <3>2. CASE job' = [job EXCEPT ![d] =
                  {[j EXCEPT !.new = @ \cup {[by |-> d, to |-> e, key |-> k]}]}]
      <4> DEFINE n == [j EXCEPT !.new = @ \cup {[by |-> d, to |-> e, key |-> k]}]
      <4>1. n \in Job BY <2>3
      <4>2. job' = [job EXCEPT ![d] = {n}] BY <3>2
      <4> HIDE DEF n
      <4> QED BY <4>1, <4>2 DEF Types
    <3> QED BY <2>1, <3>1, <3>2
  <2>5. table' \in [Device -> SUBSET Key] /\ claimed' \subseteq Key
    BY <2>1, <2>2 DEF Taken, Types
  <2> QED BY <1>7, <2>4, <2>5 DEF ClaimPreKey, Types, machine
<1>8. ASSUME NEW d \in Device, NEW e \in Device, NoPreKey(d, e) PROVE Types'
    BY <1>8 DEF NoPreKey, Types, machine, counters
<1>9. ASSUME NEW d \in Device, Commit(d) PROVE Types'
  <2>1. PICK j \in job[d] :
          /\ Unknown(d, j) = {}
          /\ sessions' = [sessions EXCEPT ![d] = [e \in Device |->
                             IF e \in j.to /\ \E s \in j.new : s.to = e
                             THEN Append(@[e], With(d, e, j)) ELSE @[e]]]
          /\ mailbox' = [e \in Device |->
                            IF e \notin j.to THEN mailbox[e]
                            ELSE LET s == With(d, e, j)
                                 IN  mailbox[e] \cup {[from |-> d, session |-> s,
                                                       pre |-> s.by = d /\ s \notin heard[d]]}]
    BY <1>9 DEF Commit
  <2>2. \A e \in Device : e \in j.to => With(d, e, j) \in Session
    BY <2>1, WithIsSession
  <2>3. sessions' \in [Device -> [Device -> Seq(Session)]]
    BY <2>1, <2>2 DEF Types
  <2>4. mailbox' \in [Device -> SUBSET Ciphertext]
    <3>1. ASSUME NEW s \in Session
          PROVE  [from |-> d, session |-> s, pre |-> s.by = d /\ s \notin heard[d]] \in Ciphertext
      <4>1. (s.by = d /\ s \notin heard[d]) \in BOOLEAN OBVIOUS
      <4> QED BY <4>1 DEF Ciphertext
    <3> QED BY <2>1, <2>2, <3>1 DEF Types
  <2>5. job' = [job EXCEPT ![d] = {}] BY <1>9 DEF Commit
  <2> QED BY <1>9, <2>3, <2>4, <2>5 DEF Commit, Types, counters
<1>10. ASSUME NEW d \in Device, NEW m \in mailbox[d], ImportKnown(d, m) PROVE Types'
    BY <1>10 DEF ImportKnown, Types, counters, Ciphertext
<1>11. ASSUME NEW d \in Device, NEW m \in mailbox[d], ImportNew(d, m) PROVE Types'
  <2>1. m \in Ciphertext /\ m.session \in Session /\ m.from \in Device
    BY DEF Types, Ciphertext
  <2>2. IsFiniteSet(private[d] \ {m.session.key}) BY FS_Subset DEF Types
  <2>3. sessions' \in [Device -> [Device -> Seq(Session)]]
    BY <1>11, <2>1 DEF ImportNew, Types
  <2> QED BY <1>11, <2>1, <2>2, <2>3 DEF ImportNew, Types, counters
<1>12. CASE UNCHANGED vars BY <1>12 DEF vars, machine, counters, Types
<1> QED BY <1>1, <1>2, <1>3, <1>4, <1>5, <1>6, <1>7, <1>8, <1>9, <1>10, <1>11, <1>12 DEF Next

(***************************************************************************)
(* Keys are handed out once                                                *)
(***************************************************************************)

\* A key belongs to one device and one login; while a login publishes its keys, nobody
\* has seen them.
KeysFresh ==
    /\ \A d \in Device : \A k \in table[d] \cup private[d] \cup generated[d] :
          k.of = d /\ k.login <= logins
    /\ \A k \in claimed \cup orphans : k.login <= logins
    /\ \A d \in Device : phase[d] \in {"off", "on"} => generated[d] = {}
    /\ \A d \in Device : phase[d] = "publishing" => generated[d] \cap (table[d] \cup claimed) = {}
    /\ \A d \in Device : \A k, l \in generated[d] : k.id = l.id => k = l
    /\ \A d \in Device : table[d] \cap claimed = {}

LEMMA KeysFreshInit == Init => KeysFresh
BY BoundAssumption DEF Init, KeysFresh, FirstKeys

LEMMA KeysFreshStep ==
    ASSUME Types, KeysFresh, [Next]_vars
    PROVE  KeysFresh'
<1>1. ASSUME NEW d \in Device, LoginComplete(d) PROVE KeysFresh'
    BY <1>1 DEF LoginComplete, Types, KeysFresh, machine, counters
<1>2. ASSUME NEW d \in Device, LoginShort(d) PROVE KeysFresh'
  <2>1. \A k \in Fresh(d) : k.of = d /\ k.login = logins + 1 BY DEF Fresh
  <2>2. \A k, l \in Fresh(d) : k.id = l.id => k = l BY DEF Fresh
  <2>3. Fresh(d) \cap (table[d] \cup claimed) = {}
    BY <2>1 DEF Types, KeysFresh, Key
  <2>4. /\ generated' = [generated EXCEPT ![d] = Fresh(d)]
        /\ phase' = [phase EXCEPT ![d] = "publishing"]
        /\ logins' = logins + 1
        /\ UNCHANGED <<table, private, claimed, orphans>>
    BY <1>2 DEF LoginShort, machine
  <2>5. \A x \in Device : \A k \in table'[x] \cup private'[x] \cup generated'[x] :
            k.of = x /\ k.login <= logins'
    BY <2>1, <2>4 DEF Types, KeysFresh, Key
  <2>6. \A k \in claimed' \cup orphans' : k.login <= logins'
    BY <2>4 DEF Types, KeysFresh, Key
  <2> QED BY <2>2, <2>3, <2>4, <2>5, <2>6 DEF Types, KeysFresh
<1>3. ASSUME NEW d \in Device, Publish(d) PROVE KeysFresh'
  <2>1. Inserted(d) \subseteq table[d] \cup generated[d]
    BY DEF Inserted, Offered, Types
  <2>2. Inserted(d) \cap claimed = {}
    BY <1>3, <2>1 DEF Publish, KeysFresh
  <2> QED BY <1>3, <2>1, <2>2 DEF Publish, Types, KeysFresh, machine, counters
<1>4. ASSUME NEW d \in Device, SaveProfile(d) PROVE KeysFresh'
    BY <1>4 DEF SaveProfile, Types, KeysFresh, counters
<1>5. ASSUME NEW d \in Device, End(d) PROVE KeysFresh'
    BY <1>5 DEF End, Types, KeysFresh, machine
<1>6. ASSUME NEW d \in Device, Compose(d) PROVE KeysFresh'
    BY <1>6 DEF Compose, Types, KeysFresh, machine
<1>7. ASSUME NEW d \in Device, NEW e \in Device, ClaimPreKey(d, e) PROVE KeysFresh'
  <2>1. PICK k \in table[e] : /\ table' = [table EXCEPT ![e] = @ \ {k}]
                              /\ claimed' = claimed \cup {k}
    BY <1>7 DEF ClaimPreKey, Oldest, Taken, Types
  <2>2. UNCHANGED <<private, generated, phase, logins, orphans>>
    BY <1>7 DEF ClaimPreKey, machine
  <2>3. k.of = e /\ k.login <= logins BY DEF KeysFresh
  <2>4. \A x \in Device : phase[x] = "publishing" => k \notin generated[x]
    BY <2>3 DEF KeysFresh
  <2>5. \A x \in Device : k \notin table'[x] BY <2>1, <2>3 DEF Types, KeysFresh
  <2>6. \A x \in Device : table'[x] \subseteq table[x] BY <2>1 DEF Types
  <2>7. \A x \in Device : table'[x] \cap claimed' = {}
    BY <2>1, <2>5, <2>6 DEF KeysFresh
  <2>8. \A x \in Device : phase[x] = "publishing" =>
            generated[x] \cap (table'[x] \cup claimed') = {}
    BY <2>1, <2>4, <2>6 DEF KeysFresh
  <2>9. \A c \in claimed' \cup orphans : c.login <= logins
    BY <2>1, <2>3 DEF KeysFresh
  <2> QED BY <2>2, <2>6, <2>7, <2>8, <2>9 DEF KeysFresh
<1>8. ASSUME NEW d \in Device, NEW e \in Device, NoPreKey(d, e) PROVE KeysFresh'
    BY <1>8 DEF NoPreKey, Types, KeysFresh, machine, counters
<1>9. ASSUME NEW d \in Device, Commit(d) PROVE KeysFresh'
    BY <1>9 DEF Commit, Types, KeysFresh, counters
<1>10. ASSUME NEW d \in Device, NEW m \in mailbox[d], ImportKnown(d, m) PROVE KeysFresh'
    BY <1>10 DEF ImportKnown, Types, KeysFresh, counters
<1>11. ASSUME NEW d \in Device, NEW m \in mailbox[d], ImportNew(d, m) PROVE KeysFresh'
    BY <1>11 DEF ImportNew, Types, KeysFresh, counters
<1>12. CASE UNCHANGED vars BY <1>12 DEF vars, machine, counters, KeysFresh
<1> QED BY <1>1, <1>2, <1>3, <1>4, <1>5, <1>6, <1>7, <1>8, <1>9, <1>10, <1>11, <1>12 DEF Next

\* No one-time key is ever handed out twice, whichever logins are interrupted and
\* whatever they publish again (claim_prekey, mark_prekeys_published).
THEOREM KeysHandedOutOnce == Spec => []HandedOutOnce
<1>1. KeysFresh => HandedOutOnce BY DEF KeysFresh, HandedOutOnce
<1> QED BY <1>1, TypesInit, TypesStep, KeysFreshInit, KeysFreshStep, PTL DEF Spec

\* An id stands once in the table of a device.
IdsSingle == \A d \in Device : \A k, l \in table[d] : k.id = l.id => k = l

LEMMA IdsSingleStep ==
    ASSUME Types, KeysFresh, IdsSingle, [Next]_vars
    PROVE  IdsSingle'
<1>1. ASSUME NEW d \in Device, Publish(d) PROVE IdsSingle'
  <2>1. table' = [table EXCEPT ![d] = Inserted(d)] BY <1>1 DEF Publish
  <2>2. Inserted(d) = table[d] \cup {k \in generated[d] : \A j \in table[d] : j.id # k.id}
    BY DEF Inserted, Offered, Types
  <2>3. \A k, l \in Inserted(d) : k.id = l.id => k = l BY <2>2 DEF IdsSingle, KeysFresh
  <2> QED BY <2>1, <2>3 DEF IdsSingle, Types
<1>2. ASSUME NEW d \in Device, NEW e \in Device, ClaimPreKey(d, e) PROVE IdsSingle'
    BY <1>2 DEF ClaimPreKey, Taken, IdsSingle, Types
<1>3. CASE UNCHANGED table BY <1>3 DEF IdsSingle
<1> QED BY <1>1, <1>2, <1>3 DEF Next, vars, LoginComplete, LoginShort, SaveProfile, End, Compose,
           NoPreKey, Commit, ImportKnown, ImportNew

\* Types, and the primary key of the table of prekeys, which INSERT OR IGNORE respects.
THEOREM PrekeysTypeCorrect == Spec => []PrekeysTypeOK
<1>1. Init => IdsSingle BY DEF Init, IdsSingle, FirstKeys
<1>2. Types /\ IdsSingle => PrekeysTypeOK
    BY DEF Types, IdsSingle, PrekeysTypeOK
<1> QED BY <1>1, <1>2, TypesInit, TypesStep, KeysFreshInit, KeysFreshStep, IdsSingleStep, PTL
        DEF Spec

(***************************************************************************)
(* Prekeys do not run dry                                                  *)
(***************************************************************************)

\* The server has or had the key, or a key of an interrupted login has its id.
Seen(d, k) == k \in table[d] \cup claimed \/ \E o \in orphans : o.of = d /\ o.id = k.id

\* Ids are counted in the machine; what stands on the server beyond the count was put
\* there by the login at work or by one that did not save.
KeysCounted ==
    /\ \A d \in Device : \A k \in generated[d] :
          k.id >= next[d] /\ k.id < next[d] + Cardinality(generated[d])
    /\ \A d \in Device : \A k \in table[d] :
          k.id < next[d] \/ k \in orphans \/ (phase[d] = "published" /\ k \in generated[d])
    /\ \A d \in Device : phase[d] = "published" => \A k \in generated[d] : Seen(d, k)
    /\ \A d \in Device : \A k \in private[d] : Seen(d, k)

LEMMA KeysCountedInit == Init => KeysCounted
BY BoundAssumption DEF Init, KeysCounted, FirstKeys, Seen

\* A key stays seen when tables, handed-out keys and orphans only grow, and keys leave
\* the table for the handed-out ones.
LEMMA SeenStays ==
    ASSUME NEW d \in Device, NEW k, Seen(d, k),
           table[d] \cup claimed \subseteq table'[d] \cup claimed', orphans \subseteq orphans'
    PROVE  Seen(d, k)'
BY DEF Seen

LEMMA KeysCountedStep ==
    ASSUME Types, KeysFresh, KeysCounted, [Next]_vars
    PROVE  KeysCounted'
<1>1. ASSUME NEW d \in Device, LoginComplete(d) PROVE KeysCounted'
    BY <1>1 DEF LoginComplete, Types, KeysFresh, KeysCounted, Seen, machine, counters
<1>2. ASSUME NEW d \in Device, LoginShort(d) PROVE KeysCounted'
  <2>1. Missing(d) > 0 /\ phase[d] = "off" BY <1>2 DEF LoginShort
  <2>2. /\ Cardinality(Fresh(d)) = Missing(d) /\ Missing(d) \in Nat
        /\ \A k \in Fresh(d) : k.id >= next[d] /\ k.id < next[d] + Missing(d)
    <3>1. /\ Missing(d) \in Nat /\ Cardinality(Fresh(d)) = Missing(d) /\ next[d] \in Nat
          /\ Fresh(d) = Run(d, next[d], Missing(d), logins + 1)
      BY <2>1, FreshKeys DEF Types
    <3>2. \A k \in Run(d, next[d], Missing(d), logins + 1) :
              k.id >= next[d] /\ k.id < next[d] + Missing(d)
      BY <3>1 DEF Run
    <3> QED BY <3>1, <3>2
  <2>3. /\ generated' = [generated EXCEPT ![d] = Fresh(d)]
        /\ phase' = [phase EXCEPT ![d] = "publishing"]
        /\ UNCHANGED <<table, private, next, claimed, orphans>>
    BY <1>2 DEF LoginShort, machine
  <2>4. \A x \in Device : \A k \in generated'[x] :
            k.id >= next'[x] /\ k.id < next'[x] + Cardinality(generated'[x])
    BY <2>2, <2>3 DEF Types, KeysCounted
  <2>5. \A x \in Device : phase'[x] = "published" =>
            phase[x] = "published" /\ generated'[x] = generated[x]
    BY <2>3 DEF Types
  <2>6. \A x \in Device : phase[x] = "published" => phase'[x] = "published"
    BY <2>1, <2>3 DEF Types
  <2> QED BY <2>3, <2>4, <2>5, <2>6 DEF KeysCounted, Seen
<1>3. ASSUME NEW d \in Device, Publish(d) PROVE KeysCounted'
  <2>1. /\ phase[d] = "publishing" /\ table' = [table EXCEPT ![d] = Inserted(d)]
        /\ phase' = [phase EXCEPT ![d] = "published"]
        /\ UNCHANGED <<private, next, generated, claimed, orphans>>
    BY <1>3 DEF Publish, machine
  <2>2. table[d] \subseteq Inserted(d) /\ Inserted(d) \subseteq table[d] \cup generated[d]
    BY DEF Inserted, Offered, Types
  <2>3. \A x \in Device, k \in Key : Seen(x, k) => Seen(x, k)'
    BY <2>1, <2>2 DEF Seen, Types
  <2>4. ASSUME NEW k \in generated[d] PROVE Seen(d, k)'
    <3>1. CASE k \in Inserted(d) BY <2>1, <3>1 DEF Seen, Types
    <3>2. CASE k \notin Inserted(d)
      <4>1. PICK j \in table[d] : j.id = k.id BY <3>2 DEF Inserted, Offered
      <4>2. j \in orphans
        <5>1. next[d] \in Nat /\ j.id \in Nat BY DEF Types, Key
        <5>2. j.id >= next[d] BY <4>1 DEF KeysCounted
        <5>3. phase[d] # "published" BY <2>1
        <5> QED BY <5>1, <5>2, <5>3 DEF KeysCounted
      <4>3. j.of = d BY DEF KeysFresh
      <4> QED BY <2>1, <4>1, <4>2, <4>3 DEF Seen
    <3> QED BY <3>1, <3>2
  <2>5. \A x \in Device : \A k \in private'[x] : Seen(x, k)'
    BY <2>1, <2>3 DEF KeysCounted, Types
  <2>6. \A x \in Device : phase'[x] = "published" => \A k \in generated'[x] : Seen(x, k)'
    BY <2>1, <2>3, <2>4 DEF KeysCounted, Types
  <2>7. \A x \in Device : \A k \in table'[x] :
            k.id < next'[x] \/ k \in orphans' \/ (phase'[x] = "published" /\ k \in generated'[x])
    BY <2>1, <2>2 DEF KeysCounted, Types
  <2>8. \A x \in Device : \A k \in generated'[x] :
            k.id >= next'[x] /\ k.id < next'[x] + Cardinality(generated'[x])
    BY <2>1 DEF KeysCounted
  <2> QED BY <2>5, <2>6, <2>7, <2>8 DEF KeysCounted
<1>4. ASSUME NEW d \in Device, SaveProfile(d) PROVE KeysCounted'
  <2>1. /\ phase[d] = "published"
        /\ private' = [private EXCEPT ![d] = @ \cup generated[d]]
        /\ next' = [next EXCEPT ![d] = @ + Cardinality(generated[d])]
        /\ generated' = [generated EXCEPT ![d] = {}]
        /\ phase' = [phase EXCEPT ![d] = "on"]
        /\ UNCHANGED <<table, claimed, orphans>>
    BY <1>4 DEF SaveProfile
  <2>2. Cardinality(generated[d]) \in Nat BY FS_CardinalityType DEF Types
  <2>3. \A x \in Device : \A k \in generated'[x] :
            k.id >= next'[x] /\ k.id < next'[x] + Cardinality(generated'[x])
    BY <2>1 DEF KeysCounted, Types
  <2>4. \A x \in Device : \A k \in table'[x] :
            k.id < next'[x] \/ k \in orphans' \/ (phase'[x] = "published" /\ k \in generated'[x])
    <3> SUFFICES ASSUME NEW x \in Device, NEW k \in table[x]
                 PROVE  \/ k.id < next'[x] \/ k \in orphans
                        \/ (phase'[x] = "published" /\ k \in generated'[x])
        BY <2>1
    <3>1. CASE x = d
      <4>1. k.id \in Nat /\ next[d] \in Nat BY DEF Types, Key
      <4>2. next'[d] = next[d] + Cardinality(generated[d]) BY <2>1 DEF Types
      <4>3. k.id < next[d] \/ k \in orphans \/ k.id < next[d] + Cardinality(generated[d])
        BY <3>1 DEF KeysCounted
      <4> QED BY <2>2, <3>1, <4>1, <4>2, <4>3
    <3>2. CASE x # d BY <2>1, <3>2 DEF KeysCounted, Types
    <3> QED BY <3>1, <3>2
  <2>5. \A x \in Device, k \in Key : Seen(x, k) => Seen(x, k)' BY <2>1 DEF Seen
  <2>6. \A x \in Device : \A k \in private'[x] : Seen(x, k)'
    BY <2>1, <2>5 DEF KeysCounted, Types
  <2>7. \A x \in Device : phase'[x] = "published" => \A k \in generated'[x] : Seen(x, k)'
    BY <2>1, <2>5 DEF KeysCounted, Types
  <2> QED BY <2>3, <2>4, <2>6, <2>7 DEF KeysCounted
<1>5. ASSUME NEW d \in Device, End(d) PROVE KeysCounted'
  <2>1. /\ phase' = [phase EXCEPT ![d] = "off"]
        /\ orphans' = IF phase[d] = "published" THEN orphans \cup generated[d] ELSE orphans
        /\ generated' = [generated EXCEPT ![d] = {}]
        /\ UNCHANGED <<table, private, next, claimed>>
    BY <1>5 DEF End, machine
  <2>2. orphans \subseteq orphans' BY <2>1
  <2>3. \A x \in Device, k \in Key : Seen(x, k) => Seen(x, k)' BY <2>1, <2>2 DEF Seen
  <2>4. \A x \in Device : \A k \in private'[x] : Seen(x, k)'
    BY <2>1, <2>3 DEF KeysCounted, Types
  <2>5. \A x \in Device : phase'[x] = "published" => \A k \in generated'[x] : Seen(x, k)'
    BY <2>1, <2>3 DEF KeysCounted, Types
  <2>6. \A x \in Device : \A k \in table'[x] :
            k.id < next'[x] \/ k \in orphans' \/ (phase'[x] = "published" /\ k \in generated'[x])
    <3> SUFFICES ASSUME NEW x \in Device, NEW k \in table[x]
                 PROVE  \/ k.id < next[x] \/ k \in orphans'
                        \/ (phase'[x] = "published" /\ k \in generated'[x])
        BY <2>1
    <3>1. CASE x = d BY <2>1, <3>1 DEF KeysCounted
    <3>2. CASE x # d BY <2>1, <2>2, <3>2 DEF KeysCounted, Types
    <3> QED BY <3>1, <3>2
  <2>7. \A x \in Device : \A k \in generated'[x] :
            k.id >= next'[x] /\ k.id < next'[x] + Cardinality(generated'[x])
    BY <2>1 DEF KeysCounted, Types
  <2> QED BY <2>4, <2>5, <2>6, <2>7 DEF KeysCounted
<1>6. ASSUME NEW d \in Device, Compose(d) PROVE KeysCounted'
    BY <1>6 DEF Compose, KeysCounted, Seen, machine
<1>7. ASSUME NEW d \in Device, NEW e \in Device, ClaimPreKey(d, e) PROVE KeysCounted'
  <2>1. PICK k \in table[e] : /\ table' = [table EXCEPT ![e] = @ \ {k}]
                              /\ claimed' = claimed \cup {k}
    BY <1>7 DEF ClaimPreKey, Oldest, Taken, Types
  <2>2. UNCHANGED <<private, generated, next, phase, orphans>>
    BY <1>7 DEF ClaimPreKey, machine
  <2>3. \A x \in Device, c \in Key : Seen(x, c) => Seen(x, c)'
    BY <2>1, <2>2 DEF Seen, Types
  <2>4. \A x \in Device : table'[x] \subseteq table[x] BY <2>1 DEF Types
  <2>5. \A x \in Device : \A c \in private'[x] : Seen(x, c)'
    BY <2>2, <2>3 DEF KeysCounted, Types
  <2>6. \A x \in Device : phase'[x] = "published" => \A c \in generated'[x] : Seen(x, c)'
    BY <2>2, <2>3 DEF KeysCounted, Types
  <2> QED BY <2>2, <2>4, <2>5, <2>6 DEF KeysCounted
<1>8. ASSUME NEW d \in Device, NEW e \in Device, NoPreKey(d, e) PROVE KeysCounted'
    BY <1>8 DEF NoPreKey, KeysCounted, Seen, machine, counters
<1>9. ASSUME NEW d \in Device, Commit(d) PROVE KeysCounted'
    BY <1>9 DEF Commit, KeysCounted, Seen, counters
<1>10. ASSUME NEW d \in Device, NEW m \in mailbox[d], ImportKnown(d, m) PROVE KeysCounted'
    BY <1>10 DEF ImportKnown, KeysCounted, Seen, counters
<1>11. ASSUME NEW d \in Device, NEW m \in mailbox[d], ImportNew(d, m) PROVE KeysCounted'
    BY <1>11 DEF ImportNew, Types, KeysCounted, Seen, counters
<1>12. CASE UNCHANGED vars BY <1>12 DEF vars, machine, counters, KeysCounted, Seen
<1> QED BY <1>1, <1>2, <1>3, <1>4, <1>5, <1>6, <1>7, <1>8, <1>9, <1>10, <1>11, <1>12 DEF Next

\* Topping up by the private parts keeps as many keys on offer as are counted, except
\* those whose id an interrupted login has spent (main.rs:185-197).
THEOREM NothingIsWithheld == Spec => []NothingWithheld
<1>1. KeysCounted => NothingWithheld BY DEF KeysCounted, NothingWithheld, Seen
<1> QED BY <1>1, TypesInit, TypesStep, KeysFreshInit, KeysFreshStep, KeysCountedInit,
           KeysCountedStep, PTL DEF Spec

(***************************************************************************)
(* Every message can be decrypted                                          *)
(***************************************************************************)

\* Device d has the session s with e.
Kept(d, e, s) == \E i \in DOMAIN sessions[d][e] : sessions[d][e][i] = s

\* Device e can still build a session from the key, or never could.
Usable(e, k) == k \in private[e] \cup generated[e] \cup orphans

\* The sessions anybody has, or is about to have.
Around(s) ==
    \/ \E d, e \in Device : Kept(d, e, s)
    \/ \E d \in Device : \E j \in job[d] : s \in j.new

TableUsable == \A e \in Device : \A k \in table[e] : Usable(e, k)

\* A message to be encrypted starts sessions only where there are none, with keys
\* handed out for it.
JobsFresh ==
    \A d \in Device : \A j \in job[d] :
        /\ d \notin j.to
        /\ \A s, t \in j.new : s.to = t.to => s = t
        /\ \A s \in j.new :
              /\ s.by = d /\ s.to \in j.to /\ s.key \in claimed /\ Usable(s.to, s.key)
              /\ sessions[d][s.to] = <<>>
              /\ \A x, y \in Device : ~Kept(x, y, s)

\* The sender of a message keeps its session; one without prekey data is for a
\* recipient that has the session too.
MailKnown ==
    \A d \in Device : \A m \in mailbox[d] :
        /\ Kept(m.from, d, m.session)
        /\ ~m.pre => Kept(d, m.from, m.session)

\* The two ends of a session: who started it has it first, and the other end can
\* follow; who heard from the other end knows that it has it.
KeptPaired ==
    \A d, e \in Device : \A s \in Session : Kept(d, e, s) =>
        /\ d # e /\ s.key \in claimed
        /\ (s.by = d /\ s.to = e) \/ (s.by = e /\ s.to = d)
        /\ s.by = e => Kept(e, d, s)
        /\ s.by = d => Kept(e, d, s) \/ Usable(e, s.key)
        /\ s \in heard[d] => Kept(e, d, s)

HeardKept == \A d \in Device : \A s \in heard[d] : \E e \in Device : Kept(d, e, s)

KeysApart == \A s, t \in Session : Around(s) /\ Around(t) /\ s.key = t.key => s = t

\* No session twice, and one at most that the device started itself.
KeptSingly ==
    \A d, e \in Device : \A i, j \in DOMAIN sessions[d][e] :
        \/ sessions[d][e][i] = sessions[d][e][j]
        \/ sessions[d][e][i].by = d /\ sessions[d][e][j].by = d
        => i = j

SessionsInv ==
    /\ TableUsable /\ JobsFresh /\ MailKnown /\ KeptPaired /\ HeardKept /\ KeysApart
    /\ KeptSingly

LEMMA SessionsInvInit == Init => SessionsInv
BY DEF Init, SessionsInv, TableUsable, JobsFresh, MailKnown, KeptPaired, HeardKept, KeysApart,
       KeptSingly, Kept, Usable, Around

\* What is kept are sessions, between devices.
LEMMA KeptTyped ==
    ASSUME Types, NEW d \in Device, NEW e \in Device, NEW s, Kept(d, e, s)
    PROVE  s \in Session
<1>1. sessions[d][e] \in Seq(Session) BY DEF Types
<1> QED BY <1>1 DEF Kept

\* Steps that leave sessions and messages alone, and keep usable keys usable.
LEMMA KeysMoved ==
    ASSUME Types, SessionsInv, UNCHANGED <<sessions, heard, mailbox, claimed>>,
           \A d \in Device : job'[d] \subseteq job[d],
           \A e \in Device : \A k \in table'[e] : Usable(e, k)',
           \A e \in Device : \A k \in claimed : Usable(e, k) => Usable(e, k)'
    PROVE  SessionsInv'
<1>1. TableUsable' BY DEF TableUsable
<1>2. \A d, e, s : Kept(d, e, s)' <=> Kept(d, e, s) BY DEF Kept
<1>3. JobsFresh'
  <2> SUFFICES ASSUME NEW d \in Device, NEW j \in job[d]
               PROVE  /\ d \notin j.to
                      /\ \A s, t \in j.new : s.to = t.to => s = t
                      /\ \A s \in j.new :
                            /\ s.by = d /\ s.to \in j.to /\ s.key \in claimed
                            /\ Usable(s.to, s.key)'
                            /\ sessions[d][s.to] = <<>>
                            /\ \A x, y \in Device : ~Kept(x, y, s)'
    BY DEF JobsFresh
  <2>1. \A s \in j.new : s.to \in Device BY DEF Types, Job, Session
  <2> QED BY <1>2, <2>1 DEF SessionsInv, JobsFresh
<1>4. MailKnown' BY <1>2 DEF SessionsInv, MailKnown
<1>5. KeptPaired' BY <1>2 DEF SessionsInv, KeptPaired
<1>6. HeardKept' BY <1>2 DEF SessionsInv, HeardKept
<1>7. \A s : Around(s)' => Around(s) BY <1>2 DEF Around
<1>8. KeysApart' BY <1>7 DEF SessionsInv, KeysApart
<1>9. KeptSingly' BY DEF SessionsInv, KeptSingly
<1> QED BY <1>1, <1>3, <1>4, <1>5, <1>6, <1>8, <1>9 DEF SessionsInv

\* Logging in and ending.
LEMMA LoginKeepsSessions ==
    ASSUME Types, KeysFresh, SessionsInv, NEW d \in Device,
           LoginComplete(d) \/ LoginShort(d) \/ Publish(d) \/ SaveProfile(d) \/ End(d)
    PROVE  SessionsInv'
<1>1. CASE LoginComplete(d)
  <2>1. UNCHANGED <<private, generated, orphans, table, sessions, heard, mailbox, claimed, job>>
    BY <1>1 DEF LoginComplete, machine
  <2> QED BY <2>1, KeysMoved DEF Usable, SessionsInv, TableUsable
<1>2. CASE LoginShort(d)
  <2>1. /\ UNCHANGED <<private, orphans, table, sessions, heard, mailbox, claimed, job>>
        /\ generated[d] = {} /\ generated' = [generated EXCEPT ![d] = Fresh(d)]
    BY <1>2 DEF LoginShort, machine, KeysFresh
  <2>2. \A e \in Device : \A k : Usable(e, k) => Usable(e, k)'
    BY <2>1 DEF Usable, Types
  <2> QED BY <2>1, <2>2, KeysMoved DEF SessionsInv, TableUsable
<1>3. CASE Publish(d)
  <2>1. /\ UNCHANGED <<private, generated, orphans, sessions, heard, mailbox, claimed, job>>
        /\ table' = [table EXCEPT ![d] = Inserted(d)]
    BY <1>3 DEF Publish, machine
  <2>2. Inserted(d) \subseteq table[d] \cup generated[d] BY DEF Inserted, Offered, Types
  <2>3. \A e \in Device : \A k \in table'[e] : Usable(e, k)'
    BY <2>1, <2>2 DEF Types, Usable, SessionsInv, TableUsable
  <2> QED BY <2>1, <2>3, KeysMoved DEF Usable
<1>4. CASE SaveProfile(d)
  <2>1. /\ UNCHANGED <<orphans, table, sessions, heard, mailbox, claimed, job>>
        /\ private' = [private EXCEPT ![d] = @ \cup generated[d]]
        /\ generated' = [generated EXCEPT ![d] = {}]
    BY <1>4 DEF SaveProfile
  <2>2. \A e \in Device : \A k : Usable(e, k) => Usable(e, k)'
    BY <2>1 DEF Usable, Types
  <2> QED BY <2>1, <2>2, KeysMoved DEF SessionsInv, TableUsable
<1>5. CASE End(d)
  <2>1. /\ UNCHANGED <<private, table, sessions, heard, mailbox, claimed>>
        /\ orphans' = IF phase[d] = "published" THEN orphans \cup generated[d] ELSE orphans
        /\ generated' = [generated EXCEPT ![d] = {}]
        /\ \A x \in Device : job'[x] \subseteq job[x]
    BY <1>5 DEF End, machine, Types
  <2>2. \A k \in claimed \cup table[d] : k \in generated[d] => k \in orphans'
    <3>1. CASE phase[d] = "published" BY <2>1, <3>1
    <3>2. CASE phase[d] = "publishing" BY <3>2 DEF KeysFresh
    <3>3. CASE phase[d] \in {"off", "on"} BY <3>3 DEF KeysFresh
    <3> QED BY <3>1, <3>2, <3>3 DEF Types
  <2>3. \A e \in Device : \A k \in claimed \cup table[e] : Usable(e, k) => Usable(e, k)'
    BY <2>1, <2>2 DEF Usable, Types
  <2> QED BY <2>1, <2>3, KeysMoved DEF SessionsInv, TableUsable
<1> QED BY <1>1, <1>2, <1>3, <1>4, <1>5

\* Writing a message, and giving one up.
LEMMA ComposeKeepsSessions ==
    ASSUME Types, SessionsInv, NEW d \in Device, Compose(d)
    PROVE  SessionsInv'
<1>1. PICK to \in Audience(d) : job' = [job EXCEPT ![d] = {[to |-> to, new |-> {}]}]
    BY DEF Compose
<1>2. /\ UNCHANGED <<table, private, generated, orphans, claimed, sessions, heard, mailbox>>
      /\ job[d] = {}
    BY DEF Compose, machine, Idle
<1>3. d \notin to BY DEF Audience
<1>4. \A x \in Device : \A j \in job'[x] : j \in job[x] \/ (x = d /\ j = [to |-> to, new |-> {}])
    BY <1>1 DEF Types
<1>5. \A x, y, s : Kept(x, y, s)' <=> Kept(x, y, s) BY <1>2 DEF Kept
<1>6. \A y, k : Usable(y, k)' <=> Usable(y, k) BY <1>2 DEF Usable
<1>7. \A s : Around(s)' => Around(s)
  <2> SUFFICES ASSUME NEW s, Around(s)' PROVE Around(s) OBVIOUS
  <2>1. CASE \E x, y \in Device : Kept(x, y, s)' BY <1>5, <2>1 DEF Around
  <2>2. CASE \E x \in Device : \E j \in job'[x] : s \in j.new BY <1>4, <2>2 DEF Around
  <2> QED BY <2>1, <2>2 DEF Around
<1>8. TableUsable' BY <1>2, <1>6 DEF SessionsInv, TableUsable
<1>9. JobsFresh'
  <2> SUFFICES ASSUME NEW x \in Device, NEW j \in job'[x]
               PROVE  /\ x \notin j.to
                      /\ \A s, t \in j.new : s.to = t.to => s = t
                      /\ \A s \in j.new :
                            /\ s.by = x /\ s.to \in j.to /\ s.key \in claimed
                            /\ Usable(s.to, s.key)
                            /\ sessions[x][s.to] = <<>>
                            /\ \A y, z \in Device : ~Kept(y, z, s)
    BY <1>2, <1>5, <1>6 DEF JobsFresh
  <2> QED BY <1>3, <1>4 DEF SessionsInv, JobsFresh
<1>10. MailKnown' /\ KeptPaired' /\ HeardKept' /\ KeptSingly'
    BY <1>2, <1>5, <1>6 DEF SessionsInv, MailKnown, KeptPaired, HeardKept, KeptSingly
<1>11. KeysApart' BY <1>7 DEF SessionsInv, KeysApart
<1> QED BY <1>8, <1>9, <1>10, <1>11 DEF SessionsInv

LEMMA NoPreKeyKeepsSessions ==
    ASSUME Types, SessionsInv, NEW d \in Device, NEW e \in Device, NoPreKey(d, e)
    PROVE  SessionsInv'
<1>1. UNCHANGED <<table, private, generated, orphans, claimed, sessions, heard, mailbox>>
    BY DEF NoPreKey, machine
<1>2. \A x \in Device : job'[x] \subseteq job[x] BY DEF NoPreKey, Types
<1> QED BY <1>1, <1>2, KeysMoved DEF Usable, SessionsInv, TableUsable

\* A claimed key is new to everybody.
LEMMA ClaimKeepsSessions ==
    ASSUME Types, KeysFresh, SessionsInv, NEW d \in Device, NEW e \in Device, ClaimPreKey(d, e)
    PROVE  SessionsInv'
<1>1. PICK j \in job[d], k \in table[e] :
          /\ e \in Unknown(d, j)
          /\ table' = [table EXCEPT ![e] = @ \ {k}]
          /\ claimed' = claimed \cup {k}
          /\ \/ job' = [job EXCEPT ![d] =
                  {[j EXCEPT !.new = @ \cup {[by |-> d, to |-> e, key |-> k]}]}]
             \/ job' = [job EXCEPT ![d] = {}]
    BY DEF ClaimPreKey, Oldest, Taken, Types
<1> DEFINE new == [by |-> d, to |-> e, key |-> k]
<1>2. UNCHANGED <<private, generated, orphans, sessions, heard, mailbox>>
    BY DEF ClaimPreKey, machine
<1>3. k \notin claimed /\ new \in Session /\ Usable(e, k) /\ j \in Job
    BY DEF KeysFresh, SessionsInv, TableUsable, Types, Session
<1>4. \A x, y, s : Kept(x, y, s)' <=> Kept(x, y, s) BY <1>2 DEF Kept
<1>5. \A y, c : Usable(y, c)' <=> Usable(y, c) BY <1>2 DEF Usable
<1>6. \A s : Around(s) /\ s \in Session => s.key \in claimed
    BY DEF Around, SessionsInv, KeptPaired, JobsFresh
<1>7. e \in j.to /\ sessions[d][e] = <<>> /\ \A s \in j.new : s.to # e
    BY <1>1 DEF Unknown
<1>8. \A x, y \in Device : ~Kept(x, y, new)
    BY <1>3, <1>6 DEF Around
<1>9. \A x \in Device : \A i \in job'[x] :
          \/ i \in job[x]
          \/ x = d /\ i.to = j.to /\ i.new = j.new \cup {new}
  <2>1. CASE job' = [job EXCEPT ![d] = {}] BY <2>1 DEF Types
  <2>2. CASE job' = [job EXCEPT ![d] = {[j EXCEPT !.new = @ \cup {new}]}]
    BY <1>3, <2>2 DEF Types, Job
  <2> QED BY <1>1, <2>1, <2>2
<1> HIDE DEF new
<1>10. new.by = d /\ new.to = e /\ new.key = k BY DEF new
<1>11. TableUsable' BY <1>1, <1>5 DEF SessionsInv, TableUsable, Types
<1>12. JobsFresh'
  <2> SUFFICES ASSUME NEW x \in Device, NEW i \in job'[x]
               PROVE  /\ x \notin i.to
                      /\ \A s, t \in i.new : s.to = t.to => s = t
                      /\ \A s \in i.new :
                            /\ s.by = x /\ s.to \in i.to /\ s.key \in claimed'
                            /\ Usable(s.to, s.key)
                            /\ sessions[x][s.to] = <<>>
                            /\ \A y, z \in Device : ~Kept(y, z, s)
    BY <1>2, <1>4, <1>5 DEF JobsFresh
  <2>1. CASE i \in job[x] BY <1>1, <2>1 DEF SessionsInv, JobsFresh
  <2>2. CASE x = d /\ i.to = j.to /\ i.new = j.new \cup {new}
    BY <1>1, <1>3, <1>7, <1>8, <1>10, <2>2 DEF SessionsInv, JobsFresh
  <2> QED BY <1>9, <2>1, <2>2
<1>13. MailKnown' /\ HeardKept' /\ KeptSingly'
    BY <1>2, <1>4 DEF SessionsInv, MailKnown, HeardKept, KeptSingly
<1>14. KeptPaired'
    BY <1>1, <1>2, <1>4, <1>5 DEF SessionsInv, KeptPaired
<1>15. \A s : Around(s)' => Around(s) \/ s = new
  <2> SUFFICES ASSUME NEW s, Around(s)' PROVE Around(s) \/ s = new OBVIOUS
  <2>1. CASE \E x, y \in Device : Kept(x, y, s)' BY <1>4, <2>1 DEF Around
  <2>2. CASE \E x \in Device : \E i \in job'[x] : s \in i.new BY <1>9, <2>2 DEF Around
  <2> QED BY <2>1, <2>2 DEF Around
<1>16. KeysApart'
    BY <1>3, <1>6, <1>10, <1>15 DEF SessionsInv, KeysApart
<1> QED BY <1>11, <1>12, <1>13, <1>14, <1>16 DEF SessionsInv

\* Appending to a sequence of sessions adds one session.
LEMMA AppendAdds ==
    ASSUME NEW q \in Seq(Session), NEW x \in Session
    PROVE  /\ DOMAIN Append(q, x) = 1 .. Len(q) + 1 /\ DOMAIN q = 1 .. Len(q)
           /\ \A i \in DOMAIN q : Append(q, x)[i] = q[i]
           /\ Append(q, x)[Len(q) + 1] = x
           /\ \A s : (\E i \in DOMAIN Append(q, x) : Append(q, x)[i] = s)
                        <=> (\E i \in DOMAIN q : q[i] = s) \/ s = x
<1>1. Len(q) \in Nat /\ DOMAIN q = 1 .. Len(q) OBVIOUS
<1>2. /\ DOMAIN Append(q, x) = 1 .. Len(q) + 1
      /\ \A i \in DOMAIN q : Append(q, x)[i] = q[i]
      /\ Append(q, x)[Len(q) + 1] = x
    BY <1>1
<1>3. \A i \in 1 .. Len(q) + 1 : i \in 1 .. Len(q) \/ i = Len(q) + 1 BY <1>1
<1>4. Len(q) + 1 \in 1 .. Len(q) + 1 /\ 1 .. Len(q) \subseteq 1 .. Len(q) + 1 BY <1>1
<1> QED BY <1>1, <1>2, <1>3, <1>4, Zenon

\* A committed message starts its sessions and uses the ones there were.
LEMMA CommitKeepsSessions ==
    ASSUME Types, KeysFresh, SessionsInv, NEW d \in Device, Commit(d)
    PROVE  SessionsInv'
<1>1. PICK j \in job[d] :
          /\ Unknown(d, j) = {}
          /\ sessions' = [sessions EXCEPT ![d] = [e \in Device |->
                             IF e \in j.to /\ \E s \in j.new : s.to = e
                             THEN Append(@[e], With(d, e, j)) ELSE @[e]]]
          /\ mailbox' = [e \in Device |->
                            IF e \notin j.to THEN mailbox[e]
                            ELSE LET s == With(d, e, j)
                                 IN  mailbox[e] \cup {[from |-> d, session |-> s,
                                                       pre |-> s.by = d /\ s \notin heard[d]]}]
    BY DEF Commit
<1>2. job' = [job EXCEPT ![d] = {}]
      /\ UNCHANGED <<table, private, generated, orphans, heard, claimed>>
    BY DEF Commit
<1>3. j \in Job /\ j.new \subseteq Session BY DEF Types, Job
<1>4. \A e \in j.to : (\E s \in j.new : s.to = e) => With(d, e, j) \in j.new /\ With(d, e, j).to = e
    BY DEF With
<1>5. \A e \in j.to \cap Device : (~ \E s \in j.new : s.to = e) => Kept(d, e, With(d, e, j))
  <2> SUFFICES ASSUME NEW e \in Device, e \in j.to, ~ \E s \in j.new : s.to = e
               PROVE  Kept(d, e, With(d, e, j))
    OBVIOUS
  <2>1. sessions[d][e] # <<>> BY <1>1 DEF Unknown
  <2>2. sessions[d][e] \in Seq(Session) BY DEF Types
  <2>3. Len(sessions[d][e]) \in DOMAIN sessions[d][e] BY <2>1, <2>2
  <2>4. With(d, e, j) = sessions[d][e][Len(sessions[d][e])] BY DEF With
  <2> QED BY <2>3, <2>4 DEF Kept
<1>6. \A s \in j.new :
          /\ s.by = d /\ s.to \in j.to /\ s.to \in Device /\ s.to # d
          /\ s.key \in claimed /\ Usable(s.to, s.key) /\ sessions[d][s.to] = <<>>
          /\ \A x, y \in Device : ~Kept(x, y, s)
          /\ s \notin heard[d] /\ With(d, s.to, j) = s
  <2> SUFFICES ASSUME NEW s \in j.new
               PROVE  /\ s.by = d /\ s.to \in j.to /\ s.to \in Device /\ s.to # d
                      /\ s.key \in claimed /\ Usable(s.to, s.key) /\ sessions[d][s.to] = <<>>
                      /\ \A x, y \in Device : ~Kept(x, y, s)
                      /\ s \notin heard[d] /\ With(d, s.to, j) = s
    OBVIOUS
  <2>1. /\ s.by = d /\ s.to \in j.to /\ s.to \in Device /\ s.to # d
        /\ s.key \in claimed /\ Usable(s.to, s.key) /\ sessions[d][s.to] = <<>>
        /\ \A x, y \in Device : ~Kept(x, y, s)
    BY <1>3 DEF SessionsInv, JobsFresh, Session
  <2>2. s \notin heard[d] BY <2>1 DEF SessionsInv, HeardKept
  <2>3. With(d, s.to, j) = s BY <1>4, <2>1 DEF SessionsInv, JobsFresh
  <2> QED BY <2>1, <2>2, <2>3
<1>7. \A s \in j.new : /\ sessions'[d][s.to] = <<s>> /\ DOMAIN sessions'[d][s.to] = {1}
                       /\ sessions'[d][s.to][1] = s
  <2> SUFFICES ASSUME NEW s \in j.new PROVE sessions'[d][s.to] = <<s>> OBVIOUS
  <2>1. sessions'[d][s.to] = Append(sessions[d][s.to], With(d, s.to, j))
    <3>1. sessions'[d] = [e \in Device |-> IF e \in j.to /\ \E t \in j.new : t.to = e
                                           THEN Append(sessions[d][e], With(d, e, j))
                                           ELSE sessions[d][e]]
      BY <1>1 DEF Types
    <3>2. s.to \in Device /\ s.to \in j.to BY <1>6
    <3> QED BY <3>1, <3>2
  <2>2. Append(<<>>, s) = <<s>> BY <1>3
  <2> QED BY <1>6, <2>1, <2>2
<1>8. \A x, y \in Device : \/ sessions'[x][y] = sessions[x][y]
                           \/ x = d /\ \E s \in j.new : s.to = y
    BY <1>1 DEF Types
<1>9. \A x, y \in Device : \A s :
         Kept(x, y, s)' <=> Kept(x, y, s) \/ (x = d /\ s \in j.new /\ s.to = y)
  <2> SUFFICES ASSUME NEW x \in Device, NEW y \in Device, NEW s
               PROVE  Kept(x, y, s)' <=> Kept(x, y, s) \/ (x = d /\ s \in j.new /\ s.to = y)
    OBVIOUS
  <2>1. CASE x = d /\ \E t \in j.new : t.to = y
    <3> PICK t \in j.new : t.to = y BY <2>1
    <3>1. Kept(d, y, s)' <=> s = t BY <1>7 DEF Kept
    <3>2. ~Kept(d, y, s) BY <1>6 DEF Kept
    <3>3. s \in j.new /\ s.to = y => s = t BY <1>6
    <3> QED BY <2>1, <3>1, <3>2, <3>3
  <2>2. CASE ~(x = d /\ \E t \in j.new : t.to = y)
    <3>1. sessions'[x][y] = sessions[x][y] BY <1>8, <2>2
    <3> QED BY <2>2, <3>1 DEF Kept
  <2> QED BY <2>1, <2>2
<1>10. \A y, k : Usable(y, k)' <=> Usable(y, k) BY <1>2 DEF Usable
<1>11. \A x \in Device : \A i \in job'[x] : x # d /\ i \in job[x] BY <1>2 DEF Types
<1>12. TableUsable' BY <1>2, <1>10 DEF SessionsInv, TableUsable
<1>13. JobsFresh'
  <2> SUFFICES ASSUME NEW x \in Device, NEW i \in job'[x]
               PROVE  /\ x \notin i.to
                      /\ \A s, t \in i.new : s.to = t.to => s = t
                      /\ \A s \in i.new :
                            /\ s.by = x /\ s.to \in i.to /\ s.key \in claimed
                            /\ Usable(s.to, s.key)
                            /\ sessions'[x][s.to] = <<>>
                            /\ \A y, z \in Device : ~Kept(y, z, s)'
    BY <1>2, <1>10 DEF JobsFresh
  <2>1. x # d /\ i \in job[x] BY <1>11
  <2>2. \A s \in i.new : s.by = x /\ s.to \in Device /\ s \notin j.new
    BY <1>6, <2>1 DEF SessionsInv, JobsFresh, Types, Job, Session
  <2>3. \A s \in i.new : sessions'[x][s.to] = sessions[x][s.to] BY <1>8, <2>1, <2>2
  <2> QED BY <1>9, <2>1, <2>2, <2>3 DEF SessionsInv, JobsFresh
<1>14. MailKnown'
  <2> SUFFICES ASSUME NEW x \in Device, NEW m \in mailbox'[x]
               PROVE  /\ Kept(m.from, x, m.session)'
                      /\ ~m.pre => Kept(x, m.from, m.session)'
    BY DEF MailKnown
  <2>1. CASE m \in mailbox[x]
    <3>1. m.from \in Device BY <2>1 DEF Types, Ciphertext
    <3> QED BY <1>9, <2>1, <3>1 DEF SessionsInv, MailKnown
  <2>2. CASE m \notin mailbox[x]
    <3>0. PICK w : w = With(d, x, j) OBVIOUS
    <3>1. x \in j.to /\ m = [from |-> d, session |-> w, pre |-> w.by = d /\ w \notin heard[d]]
      BY <1>1, <2>2, <3>0
    <3>2. m.from = d /\ m.session = w /\ (m.pre <=> w.by = d /\ w \notin heard[d]) BY <3>1
    <3>3. CASE \E s \in j.new : s.to = x
      <4>1. w \in j.new /\ w.to = x BY <1>4, <3>0, <3>1, <3>3
      <4>2. Kept(d, x, w)' BY <1>9, <4>1
      <4>3. m.pre BY <1>6, <3>2, <4>1
      <4> QED BY <3>2, <4>2, <4>3
    <3>4. CASE ~ \E s \in j.new : s.to = x
      <4>1. Kept(d, x, w) BY <1>5, <3>0, <3>1, <3>4
      <4>2. w \in Session BY <4>1, KeptTyped
      <4>3. ~m.pre => Kept(x, d, w) BY <3>2, <4>1, <4>2 DEF SessionsInv, KeptPaired
      <4> QED BY <1>9, <3>2, <4>1, <4>3
    <3> QED BY <3>3, <3>4
  <2> QED BY <2>1, <2>2
<1>15. KeptPaired'
  <2> SUFFICES ASSUME NEW x \in Device, NEW y \in Device, NEW s \in Session, Kept(x, y, s)'
               PROVE  /\ x # y /\ s.key \in claimed
                      /\ (s.by = x /\ s.to = y) \/ (s.by = y /\ s.to = x)
                      /\ s.by = y => Kept(y, x, s)'
                      /\ s.by = x => Kept(y, x, s)' \/ Usable(y, s.key)
                      /\ s \in heard[x] => Kept(y, x, s)'
    BY <1>2, <1>10 DEF KeptPaired
  <2>1. CASE Kept(x, y, s) BY <1>9, <2>1 DEF SessionsInv, KeptPaired
  <2>2. CASE x = d /\ s \in j.new /\ s.to = y BY <1>6, <2>2
  <2> QED BY <1>9, <2>1, <2>2
<1>16. HeardKept' BY <1>2, <1>9 DEF SessionsInv, HeardKept
<1>17. \A s : Around(s)' => Around(s) BY <1>9, <1>11 DEF Around
<1>18. KeysApart' BY <1>17 DEF SessionsInv, KeysApart
<1>19. KeptSingly'
  <2> SUFFICES ASSUME NEW x \in Device, NEW y \in Device,
                      NEW i \in DOMAIN sessions'[x][y], NEW k \in DOMAIN sessions'[x][y],
                      \/ sessions'[x][y][i] = sessions'[x][y][k]
                      \/ sessions'[x][y][i].by = x /\ sessions'[x][y][k].by = x
               PROVE  i = k
    BY DEF KeptSingly
  <2>1. CASE sessions'[x][y] = sessions[x][y] BY <2>1 DEF SessionsInv, KeptSingly
  <2>2. CASE x = d /\ \E s \in j.new : s.to = y BY <1>7, <2>2
  <2> QED BY <1>8, <2>1, <2>2
<1> QED BY <1>12, <1>13, <1>14, <1>15, <1>16, <1>18, <1>19 DEF SessionsInv

\* Hearing from the other end.
LEMMA ImportKnownKeepsSessions ==
    ASSUME Types, SessionsInv, NEW d \in Device, NEW m \in mailbox[d], ImportKnown(d, m)
    PROVE  SessionsInv'
<1>1. /\ heard' = [heard EXCEPT ![d] = @ \cup {m.session}]
      /\ mailbox' = [mailbox EXCEPT ![d] = @ \ {m}]
      /\ UNCHANGED <<table, private, generated, orphans, claimed, sessions, job>>
    BY DEF ImportKnown
<1>2. Kept(d, m.from, m.session) BY DEF ImportKnown, Has, Kept
<1>3. m.from \in Device /\ m.session \in Session BY DEF Types, Ciphertext
<1>4. Kept(m.from, d, m.session) BY DEF SessionsInv, MailKnown
<1>5. \A x, y, s : Kept(x, y, s)' <=> Kept(x, y, s) BY <1>1 DEF Kept
<1>6. \A y, k : Usable(y, k)' <=> Usable(y, k) BY <1>1 DEF Usable
<1>7. \A x \in Device : mailbox'[x] \subseteq mailbox[x] BY <1>1 DEF Types
<1>8. \A x \in Device : \A s \in heard'[x] : s \in heard[x] \/ (x = d /\ s = m.session)
    BY <1>1 DEF Types
<1>9. TableUsable' BY <1>1, <1>6 DEF SessionsInv, TableUsable
<1>10. JobsFresh' BY <1>1, <1>5, <1>6 DEF SessionsInv, JobsFresh
<1>11. MailKnown' BY <1>5, <1>7 DEF SessionsInv, MailKnown
<1>12. \A y \in Device : Kept(d, y, m.session) => y = m.from
    BY <1>2, <1>3 DEF SessionsInv, KeptPaired
<1>13. KeptPaired'
  <2> SUFFICES ASSUME NEW x \in Device, NEW y \in Device, NEW s \in Session, Kept(x, y, s)
               PROVE  /\ x # y /\ s.key \in claimed
                      /\ (s.by = x /\ s.to = y) \/ (s.by = y /\ s.to = x)
                      /\ s.by = y => Kept(y, x, s)
                      /\ s.by = x => Kept(y, x, s) \/ Usable(y, s.key)
                      /\ s \in heard'[x] => Kept(y, x, s)
    BY <1>1, <1>5, <1>6 DEF KeptPaired
  <2>1. s \in heard'[x] => Kept(y, x, s)
    BY <1>4, <1>8, <1>12 DEF SessionsInv, KeptPaired
  <2> QED BY <2>1 DEF SessionsInv, KeptPaired
<1>14. HeardKept' BY <1>2, <1>3, <1>5, <1>8 DEF SessionsInv, HeardKept
<1>15. KeysApart' BY <1>1, <1>5 DEF SessionsInv, KeysApart, Around
<1>16. KeptSingly' BY <1>1 DEF SessionsInv, KeptSingly
<1> QED BY <1>9, <1>10, <1>11, <1>13, <1>14, <1>15, <1>16 DEF SessionsInv

\* Building the session another device started.
LEMMA ImportNewKeepsSessions ==
    ASSUME Types, KeysFresh, SessionsInv, NEW d \in Device, NEW m \in mailbox[d], ImportNew(d, m)
    PROVE  SessionsInv'
<1>0. PICK f, s0 : f = m.from /\ s0 = m.session OBVIOUS
<1>1. f \in Device /\ s0 \in Session BY <1>0 DEF Types, Ciphertext
<1>2. /\ private' = [private EXCEPT ![d] = @ \ {s0.key}]
      /\ sessions' = [sessions EXCEPT ![d][f] = Append(@, s0)]
      /\ heard' = [heard EXCEPT ![d] = @ \cup {s0}]
      /\ mailbox' = [mailbox EXCEPT ![d] = @ \ {m}]
      /\ job[d] = {}
      /\ UNCHANGED <<table, generated, orphans, claimed, job>>
    BY <1>0 DEF ImportNew, Idle
<1>3. ~Kept(d, f, s0) /\ Kept(f, d, s0)
    BY <1>0 DEF ImportNew, Has, Kept, SessionsInv, MailKnown
<1>4. s0.by = f /\ s0.to = d /\ f # d /\ s0.key \in claimed
    BY <1>1, <1>3 DEF SessionsInv, KeptPaired
<1>5. sessions[d][f] \in Seq(Session) BY <1>1 DEF Types
<1>6. sessions'[d][f] = Append(sessions[d][f], s0) BY <1>1, <1>2 DEF Types
<1>7. \A x, y \in Device : x # d \/ y # f => sessions'[x][y] = sessions[x][y]
    BY <1>1, <1>2 DEF Types
<1>8. \A x, y \in Device : \A s : Kept(x, y, s)' <=> Kept(x, y, s) \/ (x = d /\ y = f /\ s = s0)
  <2> SUFFICES ASSUME NEW x \in Device, NEW y \in Device, NEW s
               PROVE  Kept(x, y, s)' <=> Kept(x, y, s) \/ (x = d /\ y = f /\ s = s0)
    OBVIOUS
  <2>1. CASE x = d /\ y = f
    <3> PICK q : q = sessions[d][f] OBVIOUS
    <3>1. q \in Seq(Session) /\ sessions'[d][f] = Append(q, s0) BY <1>5, <1>6
    <3>2. (\E i \in DOMAIN Append(q, s0) : Append(q, s0)[i] = s)
              <=> (\E i \in DOMAIN q : q[i] = s) \/ s = s0
      <4>1. s0 \in Session /\ q \in Seq(Session) BY <1>1, <3>1
      <4>2. \A z : (\E i \in DOMAIN Append(q, s0) : Append(q, s0)[i] = z)
                      <=> (\E i \in DOMAIN q : q[i] = z) \/ z = s0
        BY ONLY <4>1, AppendAdds
      <4> QED BY ONLY <4>2
    <3> QED BY <2>1, <3>1, <3>2 DEF Kept
  <2>2. CASE ~(x = d /\ y = f) BY <1>7, <2>2 DEF Kept
  <2> QED BY <2>1, <2>2
<1>9. \A x \in Device : \A k : Usable(x, k) => Usable(x, k)' \/ (x = d /\ k = s0.key)
    BY <1>2 DEF Types, Usable
<1>10. \A s \in Session : Around(s) /\ s.key = s0.key => s = s0
    BY <1>1, <1>3 DEF SessionsInv, KeysApart, Around
<1>11. TableUsable'
    BY <1>2, <1>4, <1>9 DEF SessionsInv, TableUsable, KeysFresh
<1>12. JobsFresh'
  <2> SUFFICES ASSUME NEW x \in Device, NEW i \in job[x]
               PROVE  /\ x \notin i.to
                      /\ \A s, t \in i.new : s.to = t.to => s = t
                      /\ \A s \in i.new :
                            /\ s.by = x /\ s.to \in i.to /\ s.key \in claimed
                            /\ Usable(s.to, s.key)'
                            /\ sessions'[x][s.to] = <<>>
                            /\ \A y, z \in Device : ~Kept(y, z, s)'
    BY <1>2 DEF JobsFresh
  <2>1. x # d BY <1>2
  <2>2. \A s \in i.new : s \in Session /\ s.to \in Device BY DEF Types, Job, Session
  <2>3. \A s \in i.new : s # s0 /\ s.key # s0.key
    BY <1>1, <1>3, <1>10, <2>2 DEF SessionsInv, JobsFresh, Around
  <2>4. \A s \in i.new : Usable(s.to, s.key)'
    BY <1>9, <2>2, <2>3 DEF SessionsInv, JobsFresh
  <2>5. \A s \in i.new : sessions'[x][s.to] = <<>>
    BY <1>7, <2>1, <2>2 DEF SessionsInv, JobsFresh
  <2>6. \A s \in i.new : \A y, z \in Device : ~Kept(y, z, s)'
    BY <1>8, <2>3 DEF SessionsInv, JobsFresh
  <2> QED BY <2>4, <2>5, <2>6 DEF SessionsInv, JobsFresh
<1>13. MailKnown'
  <2> SUFFICES ASSUME NEW x \in Device, NEW n \in mailbox'[x]
               PROVE  /\ Kept(n.from, x, n.session)'
                      /\ ~n.pre => Kept(x, n.from, n.session)'
    BY DEF MailKnown
  <2>1. n \in mailbox[x] BY <1>2 DEF Types
  <2>2. n.from \in Device BY <2>1 DEF Types, Ciphertext
  <2> QED BY <1>8, <2>1, <2>2 DEF SessionsInv, MailKnown
<1>14. KeptPaired'
  <2> SUFFICES ASSUME NEW x \in Device, NEW y \in Device, NEW s \in Session, Kept(x, y, s)'
               PROVE  /\ x # y /\ s.key \in claimed
                      /\ (s.by = x /\ s.to = y) \/ (s.by = y /\ s.to = x)
                      /\ s.by = y => Kept(y, x, s)'
                      /\ s.by = x => Kept(y, x, s)' \/ Usable(y, s.key)'
                      /\ s \in heard'[x] => Kept(y, x, s)'
    BY <1>2 DEF KeptPaired
  <2>1. CASE Kept(x, y, s)
    <3>1. /\ x # y /\ s.key \in claimed
          /\ (s.by = x /\ s.to = y) \/ (s.by = y /\ s.to = x)
          /\ s.by = y => Kept(y, x, s)
          /\ s.by = x => Kept(y, x, s) \/ Usable(y, s.key)
          /\ s \in heard[x] => Kept(y, x, s)
      BY <2>1 DEF SessionsInv, KeptPaired
    <3>2. Kept(y, x, s) => Kept(y, x, s)' BY <1>8
    <3>3. Usable(y, s.key) => Usable(y, s.key)' \/ Kept(y, x, s)'
      <4> SUFFICES ASSUME y = d, s.key = s0.key PROVE Kept(y, x, s)' BY <1>9
      <4>1. s = s0 BY <1>10, <2>1 DEF Around
      <4>2. x = f BY <1>4, <3>1, <4>1
      <4> QED BY <1>8, <4>1, <4>2
    <3>4. s \in heard'[x] => s \in heard[x] \/ (x = d /\ s = s0) BY <1>2 DEF Types
    <3>5. x = d /\ s = s0 => y = f BY <1>4, <3>1
    <3> QED BY <1>3, <3>1, <3>2, <3>3, <3>4, <3>5
  <2>2. CASE x = d /\ y = f /\ s = s0
    <3>1. Kept(f, d, s0)' BY <1>1, <1>3, <1>8
    <3> QED BY <1>4, <2>2, <3>1
  <2> QED BY <1>8, <2>1, <2>2
<1>15. HeardKept'
  <2> SUFFICES ASSUME NEW x \in Device, NEW s \in heard'[x]
               PROVE  \E y \in Device : Kept(x, y, s)'
    BY DEF HeardKept
  <2>1. s \in heard[x] \/ (x = d /\ s = s0) BY <1>2 DEF Types
  <2> QED BY <1>1, <1>8, <2>1 DEF SessionsInv, HeardKept
<1>16. \A s : Around(s)' => Around(s) BY <1>1, <1>2, <1>3, <1>8 DEF Around
<1>17. KeysApart' BY <1>16 DEF SessionsInv, KeysApart
<1>18. KeptSingly'
  <2> SUFFICES ASSUME NEW x \in Device, NEW y \in Device,
                      NEW i \in DOMAIN sessions'[x][y], NEW k \in DOMAIN sessions'[x][y],
                      \/ sessions'[x][y][i] = sessions'[x][y][k]
                      \/ sessions'[x][y][i].by = x /\ sessions'[x][y][k].by = x
               PROVE  i = k
    BY DEF KeptSingly
  <2>1. CASE x # d \/ y # f BY <1>7, <2>1 DEF SessionsInv, KeptSingly
  <2>2. CASE x = d /\ y = f
    <3> PICK q : q = sessions[d][f] OBVIOUS
    <3>1. q \in Seq(Session) /\ sessions'[x][y] = Append(q, s0) BY <1>5, <1>6, <2>2
    <3>2. Len(q) \in Nat /\ DOMAIN q = 1 .. Len(q) BY <3>1
    <3>3. \A n \in DOMAIN q : q[n] # s0 BY <1>3 DEF Kept
    <3>4. \A n \in 1 .. Len(q) + 1 :
              (n \in DOMAIN q /\ Append(q, s0)[n] = q[n])
                  \/ (n = Len(q) + 1 /\ Append(q, s0)[n] = s0)
      BY <1>1, <3>1, <3>2
    <3>7. DOMAIN Append(q, s0) = 1 .. Len(q) + 1 BY <1>1, <3>1, AppendAdds
    <3>5. s0.by # d BY <1>4
    <3>6. \A a, b \in DOMAIN q : q[a] = q[b] \/ (q[a].by = d /\ q[b].by = d) => a = b
      BY <1>1 DEF SessionsInv, KeptSingly
    <3> QED BY <2>2, <3>1, <3>3, <3>4, <3>7, <3>5, <3>6
  <2> QED BY <2>1, <2>2
<1> QED BY <1>11, <1>12, <1>13, <1>14, <1>15, <1>17, <1>18 DEF SessionsInv

LEMMA SessionsInvStep ==
    ASSUME Types, KeysFresh, SessionsInv, [Next]_vars
    PROVE  SessionsInv'
<1>1. CASE UNCHANGED vars
  <2>1. UNCHANGED <<sessions, heard, mailbox, claimed, job, table, private, generated, orphans>>
    BY <1>1 DEF vars, machine
  <2> QED BY <2>1, KeysMoved DEF Usable, SessionsInv, TableUsable
<1> QED BY <1>1, LoginKeepsSessions, ComposeKeepsSessions, NoPreKeyKeepsSessions,
           ClaimKeepsSessions, CommitKeepsSessions, ImportKnownKeepsSessions,
           ImportNewKeepsSessions DEF Next

\* Every message under way can be decrypted by its recipient in any order, both ends
\* starting sessions at once included, unless its key was lost with a login that ended
\* before it saved the profile (encrypt_for, decrypt, main.rs:194-197).
THEOREM MessagesReadable == Spec => []Readable
<1>1. Types /\ SessionsInv => Readable
  <2> SUFFICES ASSUME Types, SessionsInv, NEW d \in Device, NEW m \in mailbox[d]
               PROVE  Opens(d, m) \/ m.session.key \in orphans
    BY DEF Readable
  <2>1. m.from \in Device /\ m.session \in Session /\ m.pre \in BOOLEAN
    BY DEF Types, Ciphertext
  <2>2. Kept(m.from, d, m.session) /\ (~m.pre => Kept(d, m.from, m.session))
    BY DEF SessionsInv, MailKnown
  <2>3. Kept(d, m.from, m.session) \/ Usable(d, m.session.key)
    BY <2>1, <2>2 DEF SessionsInv, KeptPaired
  <2> QED BY <2>1, <2>2, <2>3 DEF Opens, Has, Kept, Usable
<1> QED BY <1>1, TypesInit, TypesStep, KeysFreshInit, KeysFreshStep, SessionsInvInit,
           SessionsInvStep, PTL DEF Spec

\* Two devices have at most a session from either side, so decrypt never drops one for
\* exceeding its limit of five.
THEOREM SessionsAreBounded == Spec => []SessionsBounded
<1>1. Types /\ SessionsInv => SessionsBounded
  <2> SUFFICES ASSUME Types, SessionsInv, NEW d \in Device, NEW e \in Device
               PROVE  Len(sessions[d][e]) <= 2
    BY DEF SessionsBounded
  <2> PICK q : q = sessions[d][e] OBVIOUS
  <2>1. q \in Seq(Session) /\ Len(q) \in Nat /\ DOMAIN q = 1 .. Len(q)
    <3>1. q \in Seq(Session) BY DEF Types
    <3> QED BY <3>1
  <2>2. \A i \in DOMAIN q : q[i] \in Session /\ Kept(d, e, q[i]) BY <2>1 DEF Kept
  <2>3. \A i, j \in DOMAIN q : q[i] = q[j] \/ (q[i].by = d /\ q[j].by = d) => i = j
    BY DEF SessionsInv, KeptSingly
  <2>4. \A i, j \in DOMAIN q : q[i].by = e /\ q[j].by = e => i = j
    <3> SUFFICES ASSUME NEW i \in DOMAIN q, NEW j \in DOMAIN q, q[i].by = e, q[j].by = e
                 PROVE  i = j
      OBVIOUS
    <3>1. Kept(e, d, q[i]) /\ Kept(e, d, q[j]) BY <2>2 DEF SessionsInv, KeptPaired
    <3>2. q[i] = q[j] BY <3>1 DEF Kept, SessionsInv, KeptSingly
    <3> QED BY <2>3, <3>2
  <2>5. \A i \in DOMAIN q : q[i].by \in {d, e} BY <2>2 DEF SessionsInv, KeptPaired
  <2>6. ASSUME Len(q) > 2 PROVE FALSE
    <3>1. 1 \in DOMAIN q /\ 2 \in DOMAIN q /\ 3 \in DOMAIN q BY <2>1, <2>6
    <3> QED BY <2>3, <2>4, <2>5, <3>1
  <2> QED BY <2>1, <2>6
<1> QED BY <1>1, TypesInit, TypesStep, KeysFreshInit, KeysFreshStep, SessionsInvInit,
           SessionsInvStep, PTL DEF Spec
=============================================================================
