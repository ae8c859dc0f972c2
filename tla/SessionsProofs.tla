--------------------------- MODULE SessionsProofs ---------------------------
(***************************************************************************)
(* Safety of the connection tasks for every set of connections, devices    *)
(* and addresses and all limits.                                           *)
(***************************************************************************)
EXTENDS Sessions, FiniteSetTheorems, TLAPS

(***************************************************************************)
(* Counters                                                                *)
(***************************************************************************)

\* Counting down stays in range.
LEMMA LessInRange ==
    ASSUME NEW m \in Nat, NEW n \in 0 .. m
    PROVE  Less(n) \in 0 .. m
BY DEF Less

\* Counting a connection in when there is room for it keeps the counters in range.
LEMMA Counted ==
    ASSUME admission \in Admission, NEW i \in Ip,
           admission.total < MaxTotal, admission.by_ip[i] < MaxPerIp,
           admission.unauthenticated_by_ip[i] < MaxUnauthenticated
    PROVE  [admission EXCEPT !.total = @ + 1, !.by_ip[i] = @ + 1,
                             !.unauthenticated_by_ip[i] = @ + 1] \in Admission
<1>1. admission.total + 1 \in 0 .. MaxTotal
    BY LimitAssumption DEF Admission
<1>2. [admission.by_ip EXCEPT ![i] = @ + 1] \in [Ip -> 0 .. MaxPerIp]
    BY LimitAssumption DEF Admission
<1>3. [admission.unauthenticated_by_ip EXCEPT ![i] = @ + 1] \in [Ip -> 0 .. MaxUnauthenticated]
    BY LimitAssumption DEF Admission
<1> QED BY <1>1, <1>2, <1>3 DEF Admission

\* Counting a connection as authenticated keeps the counters in range.
LEMMA Authenticated ==
    ASSUME admission \in Admission, NEW i \in Ip
    PROVE  [admission EXCEPT !.unauthenticated_by_ip[i] = Less(@)] \in Admission
<1>1. Less(admission.unauthenticated_by_ip[i]) \in 0 .. MaxUnauthenticated
    BY LimitAssumption, LessInRange DEF Admission
<1> QED BY <1>1 DEF Admission

\* Counting a connection out keeps the counters in range.
LEMMA Uncounted ==
    ASSUME admission \in Admission, NEW i \in Ip, NEW b
    PROVE  [admission EXCEPT !.total = Less(@), !.by_ip[i] = Less(@),
               !.unauthenticated_by_ip[i] = IF b THEN @ ELSE Less(@)] \in Admission
<1>1. Less(admission.total) \in 0 .. MaxTotal
    BY LimitAssumption, LessInRange DEF Admission
<1>2. Less(admission.by_ip[i]) \in 0 .. MaxPerIp
    BY LimitAssumption, LessInRange DEF Admission
<1>3. Less(admission.unauthenticated_by_ip[i]) \in 0 .. MaxUnauthenticated
    BY LimitAssumption, LessInRange DEF Admission
<1> QED BY <1>1, <1>2, <1>3 DEF Admission

(***************************************************************************)
(* Type correctness                                                        *)
(***************************************************************************)

\* Every step of the system keeps the variables in their types: in particular the
\* saturating counters of `admit`, `mark_authenticated` and `release` stay in range.
LEMMA TypeStep ==
    ASSUME SessionsTypeOK, [Next]_vars
    PROVE  SessionsTypeOK'
<1>1. CASE \E c \in Conn : Admit(c)
  <2> PICK c \in Conn : Admit(c) BY <1>1
  <2>1. HasRoom(IpOf[c]) /\ IpOf[c] \in Ip BY IpAssumption DEF Admit
  <2>2. admission' \in Admission
    BY <2>1, Counted DEF Admit, HasRoom, SessionsTypeOK
  <2> QED BY <2>2 DEF Admit, Go, database, operator, SessionsTypeOK, Stage
<1>2. CASE \E c \in Conn : Upgrade(c)
    BY <1>2 DEF Upgrade, Go, task, shared, database, operator, SessionsTypeOK, Stage,
       Session, DeviceRow, Admission
<1>3. CASE \E c \in Conn : UpgradeFails(c)
    BY <1>3 DEF UpgradeFails, Go, task, shared, database, operator, SessionsTypeOK, Stage,
       Session, DeviceRow, Admission
<1>4. CASE \E c \in Conn : Frame(c)
    BY <1>4 DEF Frame, Go, task, shared, database, operator, SessionsTypeOK, Stage, Session,
       DeviceRow, Admission
<1>5. CASE \E c \in Conn : Hear(c)
    BY <1>5 DEF Hear, Go, task, shared, database, operator, SessionsTypeOK, Stage, Session,
       DeviceRow, Admission
<1>6. CASE \E c \in Conn : Hangup(c)
    BY <1>6 DEF Hangup, Go, task, shared, database, operator, SessionsTypeOK, Stage,
       Session, DeviceRow, Admission
<1>32. CASE \E c \in Conn : Skip(c)
    BY <1>32 DEF Skip, Go, task, shared, database, operator, SessionsTypeOK, Stage,
       Session, DeviceRow, Admission
<1>33. CASE \E c \in Conn : Skipped(c)
    BY <1>33 DEF Skipped, Go, task, shared, database, operator, SessionsTypeOK, Stage,
       Session, DeviceRow, Admission
<1>7. CASE \E c \in Conn : Serve(c)
    BY <1>7 DEF Serve, Go, task, shared, database, operator, SessionsTypeOK, Stage, Session,
       DeviceRow, Admission
<1>8. CASE \E c \in Conn : Return(c)
  <2> PICK c \in Conn : Return(c) BY <1>8
  <2>1. admission' \in Admission /\ marked' \in [Conn -> BOOLEAN]
    BY IpAssumption, Authenticated DEF Return, SessionsTypeOK
  <2> QED BY <2>1 DEF Return, Go, database, operator, SessionsTypeOK, Stage
<1>9. CASE \E c \in Conn : Bootstrap(c)
    BY <1>9 DEF Bootstrap, Go, task, shared, database, operator, SessionsTypeOK, Stage,
       Session, DeviceRow, Admission
<1>10. CASE \E c \in Conn : RegisterConnection(c)
    BY <1>10 DEF RegisterConnection, Go, task, shared, database, operator, SessionsTypeOK,
       Stage, Session, DeviceRow, Admission
<1>11. CASE \E c \in Conn : RegisterSession(c)
    BY <1>11 DEF RegisterSession, Go, task, shared, database, operator, SessionsTypeOK,
       Stage, Session, DeviceRow, Admission
<1>12. CASE \E c \in Conn : Greet(c)
    BY <1>12 DEF Greet, Go, task, shared, database, operator, SessionsTypeOK, Stage,
       Session, DeviceRow, Admission
<1>13. CASE \E c \in Conn : GreetFails(c)
    BY <1>13 DEF GreetFails, Go, task, shared, database, operator, SessionsTypeOK, Stage,
       Session, DeviceRow, Admission
<1>14. CASE \E c \in Conn : KickRevoked(c)
    BY <1>14 DEF KickRevoked, Go, task, shared, database, operator, SignalAll, OnDevice,
       SessionsTypeOK, Stage, Session, DeviceRow, Admission
<1>15. CASE \E c \in Conn : Unregister(c)
    BY <1>15 DEF Unregister, Go, task, shared, database, operator, Unregistered,
       SessionsTypeOK, Stage, Session, DeviceRow, Admission
<1>16. CASE \E c \in Conn : Release(c)
  <2> PICK c \in Conn : Release(c) BY <1>16
  <2>1. admission' \in Admission
    BY IpAssumption, Uncounted DEF Release, SessionsTypeOK
  <2> QED BY <2>1 DEF Release, Go, database, operator, SessionsTypeOK, Stage
<1>17. CASE \E c \in Conn, d \in Device : DeviceAuth(c, d)
    BY <1>17 DEF DeviceAuth, Go, task, shared, database, operator, SessionsTypeOK, Stage,
       Session, DeviceRow, Admission
<1>18. CASE \E c \in Conn, d \in Device : PasswordAuthNew(c, d)
    BY <1>18 DEF PasswordAuthNew, Go, task, shared, database, operator, SessionsTypeOK,
       Stage, Session, DeviceRow, Admission
<1>19. CASE \E c \in Conn, d \in Device : PasswordAuthPending(c, d)
    BY <1>19 DEF PasswordAuthPending, Go, task, shared, database, operator, SessionsTypeOK,
       Stage, Session, DeviceRow, Admission
<1>20. CASE \E c \in Conn, d \in Device : RevokeOwnDevice(c, d)
    BY <1>20 DEF RevokeOwnDevice, Go, task, shared, database, operator, Revoked,
       SessionsTypeOK, Stage, Session, DeviceRow, Admission
<1>21. CASE \E c \in Conn, d \in Device : ActivateDevice(c, d)
    BY <1>21 DEF ActivateDevice, Go, task, shared, database, operator, Activated,
       SessionsTypeOK, Stage, Session, DeviceRow, Admission
<1>22. CASE \E state \in {"active", "disabled"} : SetUserState(state)
    BY <1>22, LimitAssumption DEF SetUserState, Go, task, shared, database, operator,
       Command, SessionsTypeOK, Stage, Session, DeviceRow, Admission
<1>23. CASE \E d \in Device : AdminRevokeDevice(d)
    BY <1>23, LimitAssumption DEF AdminRevokeDevice, Go, task, shared, database, operator,
       Command, Revoked, SessionsTypeOK, Stage, Session, DeviceRow, Admission
<1>24. CASE \E c \in Conn : KickSession(c)
    BY <1>24, LimitAssumption DEF KickSession, Go, task, shared, database, operator,
       Command, SignalAll, SessionsTypeOK, Stage, Session, DeviceRow, Admission
<1>25. CASE ResetDevices
    BY <1>25, LimitAssumption DEF ResetDevices, Go, task, shared, database, operator,
       Command, Revoked, SessionsTypeOK, Stage, Session, DeviceRow, Admission
<1>26. CASE DeleteUser
    BY <1>26, LimitAssumption DEF DeleteUser, Go, task, shared, database, operator, Command,
       SignalAll, SessionsTypeOK, Stage, Session, DeviceRow, Admission
<1>27. CASE DeleteRecords
    BY <1>27 DEF DeleteRecords, Go, task, shared, database, operator, SessionsTypeOK, Stage,
       Session, DeviceRow, Admission
<1>28. CASE KickAccount
    BY <1>28 DEF KickAccount, Go, task, shared, database, operator, SignalAll,
       SessionsTypeOK, Stage, Session, DeviceRow, Admission
<1>29. CASE KickDevice
    BY <1>29 DEF KickDevice, Go, task, shared, database, operator, SignalAll, OnDevice,
       SessionsTypeOK, Stage, Session, DeviceRow, Admission
<1>30. CASE OrderLost
    BY <1>30 DEF OrderLost, Go, task, shared, database, operator, SessionsTypeOK, Stage,
       Session, DeviceRow, Admission
<1>31. CASE UNCHANGED vars
    BY <1>31 DEF SessionsTypeOK, vars, task, shared, database, operator
<1> QED BY <1>1, <1>2, <1>3, <1>4, <1>5, <1>6, <1>7, <1>8, <1>9, <1>10, <1>11, <1>12, <1>13,
    <1>14, <1>15, <1>16, <1>17, <1>18, <1>19, <1>20, <1>21, <1>22, <1>23, <1>24, <1>25, <1>26,
    <1>27, <1>28, <1>29, <1>30, <1>31, <1>32, <1>33 DEF Next, Task, Administrator

\* The tables of the server and the state of every connection task have their types
\* in every reachable state, and no counter exceeds its limit.
THEOREM SessionsTypeCorrect == Spec => []SessionsTypeOK
<1>1. Init => SessionsTypeOK
    BY LimitAssumption DEF Init, SessionsTypeOK, Stage, Session, DeviceRow, Admission
<1>2. SessionsTypeOK /\ [Next]_vars => SessionsTypeOK'
    BY TypeStep
<1> QED BY <1>1, <1>2, PTL DEF Spec

(***************************************************************************)
(* Only approved devices act                                               *)
(***************************************************************************)

Sound(s) == s.pending \/ row[s.device] \in {"active", "revoked"}

\* What a handler is about to register is as sound as what is registered.
SoundSessions ==
    account # "deleted" => \A c \in Conn : \A s \in session[c] \cup claim[c] : Sound(s)

\* No step makes a session that may act for a device nobody approved, and no step
\* takes an approval back other than by a revocation.
LEMMA SoundStep ==
    ASSUME SessionsTypeOK, SoundSessions, [Next]_vars
    PROVE  SoundSessions'
<1>1. CASE \E c \in Conn : Admit(c)
    BY <1>1 DEF Admit, Go, task, shared, database, operator, HasRoom, SoundSessions, Sound,
       SessionsTypeOK, Session, DeviceRow, Allowed
<1>2. CASE \E c \in Conn : Upgrade(c)
    BY <1>2 DEF Upgrade, Go, task, shared, database, operator, SoundSessions, Sound,
       SessionsTypeOK, Session, DeviceRow, Allowed
<1>3. CASE \E c \in Conn : UpgradeFails(c)
    BY <1>3 DEF UpgradeFails, Go, task, shared, database, operator, SoundSessions, Sound,
       SessionsTypeOK, Session, DeviceRow, Allowed
<1>4. CASE \E c \in Conn : Frame(c)
    BY <1>4 DEF Frame, Go, task, shared, database, operator, SoundSessions, Sound,
       SessionsTypeOK, Session, DeviceRow, Allowed
<1>5. CASE \E c \in Conn : Hear(c)
    BY <1>5 DEF Hear, Go, task, shared, database, operator, SoundSessions, Sound,
       SessionsTypeOK, Session, DeviceRow, Allowed
<1>6. CASE \E c \in Conn : Hangup(c)
    BY <1>6 DEF Hangup, Go, task, shared, database, operator, SoundSessions, Sound,
       SessionsTypeOK, Session, DeviceRow, Allowed
<1>32. CASE \E c \in Conn : Skip(c)
    BY <1>32 DEF Skip, Go, task, shared, database, operator, SoundSessions, Sound,
       SessionsTypeOK, Session, DeviceRow, Allowed
<1>33. CASE \E c \in Conn : Skipped(c)
    BY <1>33 DEF Skipped, Go, task, shared, database, operator, SoundSessions, Sound,
       SessionsTypeOK, Session, DeviceRow, Allowed
<1>7. CASE \E c \in Conn : Serve(c)
    BY <1>7 DEF Serve, Go, task, shared, database, operator, SoundSessions, Sound,
       SessionsTypeOK, Session, DeviceRow, Allowed
<1>8. CASE \E c \in Conn : Return(c)
    BY <1>8 DEF Return, Go, task, shared, database, operator, SoundSessions, Sound,
       SessionsTypeOK, Session, DeviceRow, Allowed
<1>9. CASE \E c \in Conn : Bootstrap(c)
    BY <1>9 DEF Bootstrap, Go, task, shared, database, operator, SoundSessions, Sound,
       SessionsTypeOK, Session, DeviceRow, Allowed
<1>10. CASE \E c \in Conn : RegisterConnection(c)
    BY <1>10 DEF RegisterConnection, Go, task, shared, database, operator, SoundSessions,
       Sound, SessionsTypeOK, Session, DeviceRow, Allowed
<1>11. CASE \E c \in Conn : RegisterSession(c)
    BY <1>11 DEF RegisterSession, Go, task, shared, database, operator, SoundSessions,
       Sound, SessionsTypeOK, Session, DeviceRow, Allowed
<1>12. CASE \E c \in Conn : Greet(c)
    BY <1>12 DEF Greet, Go, task, shared, database, operator, SoundSessions, Sound,
       SessionsTypeOK, Session, DeviceRow, Allowed
<1>13. CASE \E c \in Conn : GreetFails(c)
    BY <1>13 DEF GreetFails, Go, task, shared, database, operator, SoundSessions, Sound,
       SessionsTypeOK, Session, DeviceRow, Allowed
<1>14. CASE \E c \in Conn : KickRevoked(c)
    BY <1>14 DEF KickRevoked, Go, task, shared, database, operator, SignalAll, OnDevice,
       SoundSessions, Sound, SessionsTypeOK, Session, DeviceRow, Allowed
<1>15. CASE \E c \in Conn : Unregister(c)
    BY <1>15 DEF Unregister, Go, task, shared, database, operator, Unregistered,
       SoundSessions, Sound, SessionsTypeOK, Session, DeviceRow, Allowed
<1>16. CASE \E c \in Conn : Release(c)
    BY <1>16 DEF Release, Go, task, shared, database, operator, SoundSessions, Sound,
       SessionsTypeOK, Session, DeviceRow, Allowed
<1>17. CASE \E c \in Conn, d \in Device : DeviceAuth(c, d)
    BY <1>17 DEF DeviceAuth, Go, task, shared, database, operator, SoundSessions, Sound,
       SessionsTypeOK, Session, DeviceRow, Allowed
<1>18. CASE \E c \in Conn, d \in Device : PasswordAuthNew(c, d)
    BY <1>18 DEF PasswordAuthNew, Go, task, shared, database, operator, SoundSessions,
       Sound, SessionsTypeOK, Session, DeviceRow, Allowed
<1>19. CASE \E c \in Conn, d \in Device : PasswordAuthPending(c, d)
    BY <1>19 DEF PasswordAuthPending, Go, task, shared, database, operator, SoundSessions,
       Sound, SessionsTypeOK, Session, DeviceRow, Allowed
<1>20. CASE \E c \in Conn, d \in Device : RevokeOwnDevice(c, d)
    BY <1>20 DEF RevokeOwnDevice, Go, task, shared, database, operator, Revoked,
       SoundSessions, Sound, SessionsTypeOK, Session, DeviceRow, Allowed
<1>21. CASE \E c \in Conn, d \in Device : ActivateDevice(c, d)
    BY <1>21 DEF ActivateDevice, Go, task, shared, database, operator, Activated,
       SoundSessions, Sound, SessionsTypeOK, Session, DeviceRow, Allowed
<1>22. CASE \E state \in {"active", "disabled"} : SetUserState(state)
    BY <1>22 DEF SetUserState, Go, task, shared, database, operator, Command, SoundSessions,
       Sound, SessionsTypeOK, Session, DeviceRow, Allowed
<1>23. CASE \E d \in Device : AdminRevokeDevice(d)
    BY <1>23 DEF AdminRevokeDevice, Go, task, shared, database, operator, Command, Revoked,
       SoundSessions, Sound, SessionsTypeOK, Session, DeviceRow, Allowed
<1>24. CASE \E c \in Conn : KickSession(c)
    BY <1>24 DEF KickSession, Go, task, shared, database, operator, Command, SignalAll,
       SoundSessions, Sound, SessionsTypeOK, Session, DeviceRow, Allowed
<1>25. CASE ResetDevices
    BY <1>25 DEF ResetDevices, Go, task, shared, database, operator, Command, Revoked,
       SoundSessions, Sound, SessionsTypeOK, Session, DeviceRow, Allowed
<1>26. CASE DeleteUser
    BY <1>26 DEF DeleteUser, Go, task, shared, database, operator, Command, SignalAll,
       SoundSessions, Sound, SessionsTypeOK, Session, DeviceRow, Allowed
<1>27. CASE DeleteRecords
    BY <1>27 DEF DeleteRecords, Go, task, shared, database, operator, SoundSessions, Sound,
       SessionsTypeOK, Session, DeviceRow, Allowed
<1>28. CASE KickAccount
    BY <1>28 DEF KickAccount, Go, task, shared, database, operator, SignalAll,
       SoundSessions, Sound, SessionsTypeOK, Session, DeviceRow, Allowed
<1>29. CASE KickDevice
    BY <1>29 DEF KickDevice, Go, task, shared, database, operator, SignalAll, OnDevice,
       SoundSessions, Sound, SessionsTypeOK, Session, DeviceRow, Allowed
<1>30. CASE OrderLost
    BY <1>30 DEF OrderLost, Go, task, shared, database, operator, SoundSessions, Sound,
       SessionsTypeOK, Session, DeviceRow, Allowed
<1>31. CASE UNCHANGED vars
    BY <1>31 DEF vars, task, shared, database, operator, SoundSessions, Sound,
       SessionsTypeOK, Session, DeviceRow, Allowed
<1> QED BY <1>1, <1>2, <1>3, <1>4, <1>5, <1>6, <1>7, <1>8, <1>9, <1>10, <1>11, <1>12, <1>13,
    <1>14, <1>15, <1>16, <1>17, <1>18, <1>19, <1>20, <1>21, <1>22, <1>23, <1>24, <1>25, <1>26,
    <1>27, <1>28, <1>29, <1>30, <1>31, <1>32, <1>33 DEF Next, Task, Administrator

\* No session ever acts for a device that was not approved, whatever is revoked,
\* activated or bootstrapped meanwhile.
THEOREM OnlyApprovedAct == Spec => []ActsOnlyApproved
<1>1. Init => SoundSessions
    BY DEF Init, SoundSessions
<1>2. SessionsTypeOK /\ SoundSessions /\ [Next]_vars => SoundSessions'
    BY SoundStep
<1>3. SoundSessions => ActsOnlyApproved
    BY DEF SoundSessions, ActsOnlyApproved, Sound
<1> QED BY <1>1, <1>2, <1>3, SessionsTypeCorrect, PTL DEF Spec

(***************************************************************************)
(* The counters of admission                                               *)
(***************************************************************************)

Idle == {"new", "ended"}
Quiet ==
    /\ UNCHANGED <<admission, marked>>
    /\ \A c \in Conn : stage'[c] \in Idle <=> stage[c] \in Idle

\* Only admission, the mark of an authenticated task and the release touch counters.
LEMMA CountingSteps ==
    ASSUME SessionsTypeOK, [Next]_vars
    PROVE  \/ \E c \in Conn : Admit(c) \/ Return(c) \/ Release(c)
           \/ Quiet
<1>1. CASE \E c \in Conn : Admit(c)
    BY <1>1
<1>2. CASE \E c \in Conn : Upgrade(c)
    BY <1>2 DEF Upgrade, Go, task, shared, database, operator, Quiet, SessionsTypeOK, Stage,
       Idle
<1>3. CASE \E c \in Conn : UpgradeFails(c)
    BY <1>3 DEF UpgradeFails, Go, task, shared, database, operator, Quiet, SessionsTypeOK,
       Stage, Idle
<1>4. CASE \E c \in Conn : Frame(c)
    BY <1>4 DEF Frame, Go, task, shared, database, operator, Quiet, SessionsTypeOK, Stage, Idle
<1>5. CASE \E c \in Conn : Hear(c)
    BY <1>5 DEF Hear, Go, task, shared, database, operator, Quiet, SessionsTypeOK, Stage, Idle
<1>6. CASE \E c \in Conn : Hangup(c)
    BY <1>6 DEF Hangup, Go, task, shared, database, operator, Quiet, SessionsTypeOK, Stage, Idle
<1>32. CASE \E c \in Conn : Skip(c)
    BY <1>32 DEF Skip, Go, task, shared, database, operator, Quiet, SessionsTypeOK, Stage, Idle
<1>33. CASE \E c \in Conn : Skipped(c)
    BY <1>33 DEF Skipped, Go, task, shared, database, operator, Quiet, SessionsTypeOK, Stage, Idle
<1>7. CASE \E c \in Conn : Serve(c)
    BY <1>7 DEF Serve, Go, task, shared, database, operator, Quiet, SessionsTypeOK, Stage, Idle
<1>8. CASE \E c \in Conn : Return(c)
    BY <1>8
<1>9. CASE \E c \in Conn : Bootstrap(c)
    BY <1>9 DEF Bootstrap, Go, task, shared, database, operator, Quiet, SessionsTypeOK,
       Stage, Idle
<1>10. CASE \E c \in Conn : RegisterConnection(c)
    BY <1>10 DEF RegisterConnection, Go, task, shared, database, operator, Quiet,
       SessionsTypeOK, Stage, Idle
<1>11. CASE \E c \in Conn : RegisterSession(c)
    BY <1>11 DEF RegisterSession, Go, task, shared, database, operator, Quiet,
       SessionsTypeOK, Stage, Idle
<1>12. CASE \E c \in Conn : Greet(c)
    BY <1>12 DEF Greet, Go, task, shared, database, operator, Quiet, SessionsTypeOK, Stage, Idle
<1>13. CASE \E c \in Conn : GreetFails(c)
    BY <1>13 DEF GreetFails, Go, task, shared, database, operator, Quiet, SessionsTypeOK,
       Stage, Idle
<1>14. CASE \E c \in Conn : KickRevoked(c)
    BY <1>14 DEF KickRevoked, Go, task, shared, database, operator, SignalAll, OnDevice,
       Quiet, SessionsTypeOK, Stage, Idle
<1>15. CASE \E c \in Conn : Unregister(c)
    BY <1>15 DEF Unregister, Go, task, shared, database, operator, Unregistered, Quiet,
       SessionsTypeOK, Stage, Idle
<1>16. CASE \E c \in Conn : Release(c)
    BY <1>16
<1>17. CASE \E c \in Conn, d \in Device : DeviceAuth(c, d)
    BY <1>17 DEF DeviceAuth, Go, task, shared, database, operator, Quiet, SessionsTypeOK,
       Stage, Idle
<1>18. CASE \E c \in Conn, d \in Device : PasswordAuthNew(c, d)
    BY <1>18 DEF PasswordAuthNew, Go, task, shared, database, operator, Quiet,
       SessionsTypeOK, Stage, Idle
<1>19. CASE \E c \in Conn, d \in Device : PasswordAuthPending(c, d)
    BY <1>19 DEF PasswordAuthPending, Go, task, shared, database, operator, Quiet,
       SessionsTypeOK, Stage, Idle
<1>20. CASE \E c \in Conn, d \in Device : RevokeOwnDevice(c, d)
    BY <1>20 DEF RevokeOwnDevice, Go, task, shared, database, operator, Revoked, Quiet,
       SessionsTypeOK, Stage, Idle
<1>21. CASE \E c \in Conn, d \in Device : ActivateDevice(c, d)
    BY <1>21 DEF ActivateDevice, Go, task, shared, database, operator, Activated, Quiet,
       SessionsTypeOK, Stage, Idle
<1>22. CASE \E state \in {"active", "disabled"} : SetUserState(state)
    BY <1>22 DEF SetUserState, Go, task, shared, database, operator, Command, Quiet,
       SessionsTypeOK, Stage, Idle
<1>23. CASE \E d \in Device : AdminRevokeDevice(d)
    BY <1>23 DEF AdminRevokeDevice, Go, task, shared, database, operator, Command, Revoked,
       Quiet, SessionsTypeOK, Stage, Idle
<1>24. CASE \E c \in Conn : KickSession(c)
    BY <1>24 DEF KickSession, Go, task, shared, database, operator, Command, SignalAll,
       Quiet, SessionsTypeOK, Stage, Idle
<1>25. CASE ResetDevices
    BY <1>25 DEF ResetDevices, Go, task, shared, database, operator, Command, Revoked,
       Quiet, SessionsTypeOK, Stage, Idle
<1>26. CASE DeleteUser
    BY <1>26 DEF DeleteUser, Go, task, shared, database, operator, Command, SignalAll,
       Quiet, SessionsTypeOK, Stage, Idle
<1>27. CASE DeleteRecords
    BY <1>27 DEF DeleteRecords, Go, task, shared, database, operator, Quiet, SessionsTypeOK,
       Stage, Idle
<1>28. CASE KickAccount
    BY <1>28 DEF KickAccount, Go, task, shared, database, operator, SignalAll, Quiet,
       SessionsTypeOK, Stage, Idle
<1>29. CASE KickDevice
    BY <1>29 DEF KickDevice, Go, task, shared, database, operator, SignalAll, OnDevice,
       Quiet, SessionsTypeOK, Stage, Idle
<1>30. CASE OrderLost
    BY <1>30 DEF OrderLost, Go, task, shared, database, operator, Quiet, SessionsTypeOK,
       Stage, Idle
<1>31. CASE UNCHANGED vars
    BY <1>31 DEF vars, task, shared, database, operator, Quiet, SessionsTypeOK, Stage, Idle
<1> QED BY <1>1, <1>2, <1>3, <1>4, <1>5, <1>6, <1>7, <1>8, <1>9, <1>10, <1>11, <1>12, <1>13,
    <1>14, <1>15, <1>16, <1>17, <1>18, <1>19, <1>20, <1>21, <1>22, <1>23, <1>24, <1>25, <1>26,
    <1>27, <1>28, <1>29, <1>30, <1>31, <1>32, <1>33 DEF Next, Task, Administrator

\* A marked task has a session, a connection that is not admitted yet has none, and a
\* handler that registers has a session to register.
SlotsFilled ==
    \A c \in Conn :
        /\ marked[c] => session[c] # {}
        /\ stage[c] = "new" => session[c] = {}
        /\ stage[c] \in {"listing", "greeting"} => claim[c] # {}

\* Every step keeps slots, marks and claims in this agreement.
LEMMA SlotsStep ==
    ASSUME SessionsTypeOK, SlotsFilled, [Next]_vars
    PROVE  SlotsFilled'
<1>1. CASE \E c \in Conn : Admit(c)
    BY <1>1 DEF Admit, Go, task, shared, database, operator, HasRoom, SlotsFilled,
       SessionsTypeOK
<1>2. CASE \E c \in Conn : Upgrade(c)
    BY <1>2 DEF Upgrade, Go, task, shared, database, operator, SlotsFilled, SessionsTypeOK
<1>3. CASE \E c \in Conn : UpgradeFails(c)
    BY <1>3 DEF UpgradeFails, Go, task, shared, database, operator, SlotsFilled, SessionsTypeOK
<1>4. CASE \E c \in Conn : Frame(c)
    BY <1>4 DEF Frame, Go, task, shared, database, operator, SlotsFilled, SessionsTypeOK
<1>5. CASE \E c \in Conn : Hear(c)
    BY <1>5 DEF Hear, Go, task, shared, database, operator, SlotsFilled, SessionsTypeOK
<1>6. CASE \E c \in Conn : Hangup(c)
    BY <1>6 DEF Hangup, Go, task, shared, database, operator, SlotsFilled, SessionsTypeOK
<1>32. CASE \E c \in Conn : Skip(c)
    BY <1>32 DEF Skip, Go, task, shared, database, operator, SlotsFilled, SessionsTypeOK
<1>33. CASE \E c \in Conn : Skipped(c)
    BY <1>33 DEF Skipped, Go, task, shared, database, operator, SlotsFilled, SessionsTypeOK
<1>7. CASE \E c \in Conn : Serve(c)
    BY <1>7 DEF Serve, Go, task, shared, database, operator, SlotsFilled, SessionsTypeOK
<1>8. CASE \E c \in Conn : Return(c)
    BY <1>8 DEF Return, Go, task, shared, database, operator, SlotsFilled, SessionsTypeOK
<1>9. CASE \E c \in Conn : Bootstrap(c)
  <2> PICK c \in Conn : Bootstrap(c)
    BY <1>9
  <2>1. stage[c] = "serving" /\ session[c] # {} /\ session'[c] # {} /\ claim'[c] # {}
    <3> PICK s \in session[c], pending \in BOOLEAN :
              /\ session' = [session EXCEPT ![c] = {[s EXCEPT !.pending = pending]}]
              /\ claim' = [claim EXCEPT ![c] = {[s EXCEPT !.pending = pending]}]
      BY DEF Bootstrap
    <3> DEFINE r == [s EXCEPT !.pending = pending]
    <3> HIDE DEF r
    <3>1. session'[c] = {r} /\ claim'[c] = {r}
      BY DEF SessionsTypeOK, r
    <3> QED BY <3>1 DEF Bootstrap, Go
  <2>2. /\ stage' = [stage EXCEPT ![c] = "claiming"] /\ marked' = marked
        /\ \A e \in Conn : e # c => session'[e] = session[e] /\ claim'[e] = claim[e]
    BY DEF Bootstrap, Go, SessionsTypeOK
  <2> QED BY <2>1, <2>2 DEF SlotsFilled, SessionsTypeOK
<1>10. CASE \E c \in Conn : RegisterConnection(c)
    BY <1>10 DEF RegisterConnection, Go, task, shared, database, operator, SlotsFilled,
       SessionsTypeOK
<1>11. CASE \E c \in Conn : RegisterSession(c)
    BY <1>11 DEF RegisterSession, Go, task, shared, database, operator, SlotsFilled,
       SessionsTypeOK
<1>12. CASE \E c \in Conn : Greet(c)
    BY <1>12 DEF Greet, Go, task, shared, database, operator, SlotsFilled, SessionsTypeOK
<1>13. CASE \E c \in Conn : GreetFails(c)
    BY <1>13 DEF GreetFails, Go, task, shared, database, operator, SlotsFilled, SessionsTypeOK
<1>14. CASE \E c \in Conn : KickRevoked(c)
    BY <1>14 DEF KickRevoked, Go, task, shared, database, operator, SignalAll, OnDevice,
       SlotsFilled, SessionsTypeOK
<1>15. CASE \E c \in Conn : Unregister(c)
    BY <1>15 DEF Unregister, Go, task, shared, database, operator, Unregistered,
       SlotsFilled, SessionsTypeOK
<1>16. CASE \E c \in Conn : Release(c)
    BY <1>16 DEF Release, Go, task, shared, database, operator, SlotsFilled, SessionsTypeOK
<1>17. CASE \E c \in Conn, d \in Device : DeviceAuth(c, d)
    BY <1>17 DEF DeviceAuth, Go, task, shared, database, operator, SlotsFilled, SessionsTypeOK
<1>18. CASE \E c \in Conn, d \in Device : PasswordAuthNew(c, d)
    BY <1>18 DEF PasswordAuthNew, Go, task, shared, database, operator, SlotsFilled,
       SessionsTypeOK
<1>19. CASE \E c \in Conn, d \in Device : PasswordAuthPending(c, d)
    BY <1>19 DEF PasswordAuthPending, Go, task, shared, database, operator, SlotsFilled,
       SessionsTypeOK
<1>20. CASE \E c \in Conn, d \in Device : RevokeOwnDevice(c, d)
    BY <1>20 DEF RevokeOwnDevice, Go, task, shared, database, operator, Revoked,
       SlotsFilled, SessionsTypeOK
<1>21. CASE \E c \in Conn, d \in Device : ActivateDevice(c, d)
    BY <1>21 DEF ActivateDevice, Go, task, shared, database, operator, Activated,
       SlotsFilled, SessionsTypeOK
<1>22. CASE \E state \in {"active", "disabled"} : SetUserState(state)
    BY <1>22 DEF SetUserState, Go, task, shared, database, operator, Command, SlotsFilled,
       SessionsTypeOK
<1>23. CASE \E d \in Device : AdminRevokeDevice(d)
    BY <1>23 DEF AdminRevokeDevice, Go, task, shared, database, operator, Command, Revoked,
       SlotsFilled, SessionsTypeOK
<1>24. CASE \E c \in Conn : KickSession(c)
    BY <1>24 DEF KickSession, Go, task, shared, database, operator, Command, SignalAll,
       SlotsFilled, SessionsTypeOK
<1>25. CASE ResetDevices
    BY <1>25 DEF ResetDevices, Go, task, shared, database, operator, Command, Revoked,
       SlotsFilled, SessionsTypeOK
<1>26. CASE DeleteUser
    BY <1>26 DEF DeleteUser, Go, task, shared, database, operator, Command, SignalAll,
       SlotsFilled, SessionsTypeOK
<1>27. CASE DeleteRecords
    BY <1>27 DEF DeleteRecords, Go, task, shared, database, operator, SlotsFilled,
       SessionsTypeOK
<1>28. CASE KickAccount
    BY <1>28 DEF KickAccount, Go, task, shared, database, operator, SignalAll, SlotsFilled,
       SessionsTypeOK
<1>29. CASE KickDevice
    BY <1>29 DEF KickDevice, Go, task, shared, database, operator, SignalAll, OnDevice,
       SlotsFilled, SessionsTypeOK
<1>30. CASE OrderLost
    BY <1>30 DEF OrderLost, Go, task, shared, database, operator, SlotsFilled, SessionsTypeOK
<1>31. CASE UNCHANGED vars
    BY <1>31 DEF vars, task, shared, database, operator, SlotsFilled, SessionsTypeOK
<1> QED BY <1>1, <1>2, <1>3, <1>4, <1>5, <1>6, <1>7, <1>8, <1>9, <1>10, <1>11, <1>12, <1>13,
    <1>14, <1>15, <1>16, <1>17, <1>18, <1>19, <1>20, <1>21, <1>22, <1>23, <1>24, <1>25, <1>26,
    <1>27, <1>28, <1>29, <1>30, <1>31, <1>32, <1>33 DEF Next, Task, Administrator

Anonymous(i) == {c \in HeldFrom(i) : ~marked[c]}
CountersExact == IsFiniteSet(Held) /\ AdmissionExact

\* The connections counted for an address are finitely many.
LEMMA HeldFinite ==
    ASSUME IsFiniteSet(Held), NEW i
    PROVE  /\ IsFiniteSet(HeldFrom(i)) /\ IsFiniteSet(Anonymous(i))
           /\ Anonymous(i) \subseteq HeldFrom(i) /\ HeldFrom(i) \subseteq Held
<1>1. HeldFrom(i) \subseteq Held /\ Anonymous(i) \subseteq HeldFrom(i)
    BY DEF HeldFrom, Anonymous
<1> QED BY <1>1, FS_Subset

\* One element less is one less.
LEMMA OneLess ==
    ASSUME NEW S, IsFiniteSet(S), NEW x \in S
    PROVE  Cardinality(S \ {x}) = Less(Cardinality(S))
<1>1. Cardinality(S \ {x}) = Cardinality(S) - 1 /\ Cardinality(S \ {x}) \in Nat
    BY FS_RemoveElement, FS_CardinalityType
<1>2. Cardinality(S) \in Nat
    BY FS_CardinalityType
<1> QED BY <1>1, <1>2 DEF Less

\* Every step keeps the three counters equal to what they count.
LEMMA CountersStep ==
    ASSUME SessionsTypeOK, SlotsFilled, CountersExact, [Next]_vars
    PROVE  CountersExact'
<1> USE DEF CountersExact
<1>1. CASE Quiet
  <2>1. Held' = Held
    BY <1>1 DEF Held, Quiet, Idle
  <2>2. \A i \in Ip : HeldFrom(i)' = HeldFrom(i) /\ Anonymous(i)' = Anonymous(i)
    BY <1>1, <2>1 DEF HeldFrom, Anonymous, Quiet
  <2> QED BY <1>1, <2>1, <2>2 DEF AdmissionExact, Anonymous, Quiet
<1>2. CASE \E c \in Conn : Admit(c)
  <2> PICK c \in Conn : Admit(c)
    BY <1>2
  <2> DEFINE j == IpOf[c]
  <2>1. j \in Ip /\ stage[c] = "new" /\ ~marked[c] /\ marked' = marked
    BY IpAssumption DEF Admit, Go, SlotsFilled, SessionsTypeOK
  <2>2. c \notin Held /\ Held' = Held \cup {c}
    BY DEF Admit, Go, Held, SessionsTypeOK
  <2>3. /\ HeldFrom(j)' = HeldFrom(j) \cup {c} /\ Anonymous(j)' = Anonymous(j) \cup {c}
        /\ c \notin HeldFrom(j) /\ c \notin Anonymous(j)
    BY <2>1, <2>2 DEF HeldFrom, Anonymous
  <2>4. \A i \in Ip : i # j => HeldFrom(i)' = HeldFrom(i) /\ Anonymous(i)' = Anonymous(i)
    BY <2>1, <2>2 DEF HeldFrom, Anonymous
  <2>5. /\ Cardinality(Held') = Cardinality(Held) + 1 /\ IsFiniteSet(Held')
        /\ Cardinality(HeldFrom(j)') = Cardinality(HeldFrom(j)) + 1
        /\ Cardinality(Anonymous(j)') = Cardinality(Anonymous(j)) + 1
    BY <2>2, <2>3, HeldFinite, FS_AddElement
  <2>6. /\ admission'.total = admission.total + 1
        /\ admission'.by_ip[j] = admission.by_ip[j] + 1
        /\ admission'.unauthenticated_by_ip[j] = admission.unauthenticated_by_ip[j] + 1
        /\ \A i \in Ip : i # j =>
              /\ admission'.by_ip[i] = admission.by_ip[i]
              /\ admission'.unauthenticated_by_ip[i] = admission.unauthenticated_by_ip[i]
    BY <2>1 DEF Admit, SessionsTypeOK, Admission
  <2> HIDE DEF j
  <2> QED BY <2>1, <2>4, <2>5, <2>6 DEF AdmissionExact, Anonymous
<1>3. CASE \E c \in Conn : Return(c)
  <2> PICK c \in Conn : Return(c)
    BY <1>3
  <2> DEFINE j == IpOf[c]
  <2>1. j \in Ip /\ stage[c] = "handled" /\ Held' = Held
    BY IpAssumption DEF Return, Go, Held, SessionsTypeOK
  <2>2. CASE session[c] = {} \/ marked[c]
    <3>1. UNCHANGED <<admission, marked>>
      BY <2>2 DEF Return
    <3>2. \A i \in Ip : HeldFrom(i)' = HeldFrom(i) /\ Anonymous(i)' = Anonymous(i)
      BY <3>1, <2>1 DEF HeldFrom, Anonymous
    <3> QED BY <3>1, <3>2, <2>1 DEF AdmissionExact, Anonymous
  <2>3. CASE ~(session[c] = {} \/ marked[c])
    <3>1. c \in Anonymous(j)
      BY <2>1, <2>3 DEF Anonymous, HeldFrom, Held
    <3>2. marked' = [marked EXCEPT ![c] = TRUE]
      BY <2>3 DEF Return
    <3>3. \A i \in Ip : HeldFrom(i)' = HeldFrom(i)
      BY <2>1 DEF HeldFrom
    <3>4. Anonymous(j)' = Anonymous(j) \ {c}
      BY <2>1, <3>2, <3>3 DEF Anonymous, HeldFrom, Held, SessionsTypeOK
    <3>5. \A i \in Ip : i # j => Anonymous(i)' = Anonymous(i)
      BY <2>1, <3>2, <3>3 DEF Anonymous, HeldFrom, Held, SessionsTypeOK
    <3>6. Cardinality(Anonymous(j)') = Less(Cardinality(Anonymous(j)))
      BY <3>1, <3>4, HeldFinite, OneLess
    <3>7. /\ admission'.total = admission.total /\ admission'.by_ip = admission.by_ip
          /\ admission'.unauthenticated_by_ip[j] = Less(admission.unauthenticated_by_ip[j])
          /\ \A i \in Ip : i # j =>
                admission'.unauthenticated_by_ip[i] = admission.unauthenticated_by_ip[i]
      BY <2>1, <2>3 DEF Return, SessionsTypeOK, Admission
    <3> HIDE DEF j
    <3> QED BY <2>1, <3>3, <3>5, <3>6, <3>7 DEF AdmissionExact, Anonymous
  <2> QED BY <2>2, <2>3
<1>4. CASE \E c \in Conn : Release(c)
  <2> PICK c \in Conn : Release(c)
    BY <1>4
  <2> DEFINE j == IpOf[c]
  <2>1. j \in Ip /\ stage[c] = "releasing" /\ marked' = marked
    BY IpAssumption DEF Release, Go
  <2>2. c \in Held /\ Held' = Held \ {c}
    BY <2>1 DEF Release, Go, Held, SessionsTypeOK
  <2>3. c \in HeldFrom(j) /\ HeldFrom(j)' = HeldFrom(j) \ {c}
    BY <2>2 DEF HeldFrom
  <2>4. \A i \in Ip : i # j => HeldFrom(i)' = HeldFrom(i) /\ Anonymous(i)' = Anonymous(i)
    BY <2>1, <2>2 DEF HeldFrom, Anonymous
  <2>5. Cardinality(Anonymous(j)')
          = IF marked[c] THEN Cardinality(Anonymous(j)) ELSE Less(Cardinality(Anonymous(j)))
    <3>1. CASE marked[c]
      <4>1. Anonymous(j)' = Anonymous(j)
        BY <3>1, <2>1, <2>3 DEF Anonymous
      <4> QED BY <4>1, <3>1
    <3>2. CASE ~marked[c]
      <4>1. Anonymous(j)' = Anonymous(j) \ {c} /\ c \in Anonymous(j)
        BY <3>2, <2>1, <2>3 DEF Anonymous
      <4> QED BY <4>1, <3>2, HeldFinite, OneLess
    <3> QED BY <3>1, <3>2
  <2>6. /\ Cardinality(Held') = Less(Cardinality(Held)) /\ IsFiniteSet(Held')
        /\ Cardinality(HeldFrom(j)') = Less(Cardinality(HeldFrom(j)))
    BY <2>2, <2>3, HeldFinite, OneLess, FS_RemoveElement
  <2>7. /\ admission'.total = Less(admission.total)
        /\ admission'.by_ip[j] = Less(admission.by_ip[j])
        /\ admission'.unauthenticated_by_ip[j]
              = IF marked[c] THEN admission.unauthenticated_by_ip[j]
                ELSE Less(admission.unauthenticated_by_ip[j])
        /\ \A i \in Ip : i # j =>
              /\ admission'.by_ip[i] = admission.by_ip[i]
              /\ admission'.unauthenticated_by_ip[i] = admission.unauthenticated_by_ip[i]
    BY <2>1 DEF Release, SessionsTypeOK, Admission
  <2> HIDE DEF j
  <2> QED BY <2>1, <2>4, <2>5, <2>6, <2>7 DEF AdmissionExact, Anonymous
<1> QED BY <1>1, <1>2, <1>3, <1>4, CountingSteps

\* The inductive invariant of the counters holds in every reachable state.
LEMMA CountersCorrect == Spec => [](SlotsFilled /\ CountersExact)
<1>1. Init => SlotsFilled /\ CountersExact
  <2> SUFFICES ASSUME Init PROVE SlotsFilled /\ CountersExact
    OBVIOUS
  <2>1. Held = {} /\ \A i \in Ip : HeldFrom(i) = {} /\ Anonymous(i) = {}
    BY DEF Init, Held, HeldFrom, Anonymous
  <2>2. IsFiniteSet({}) /\ Cardinality({}) = 0
    BY FS_EmptySet
  <2>3. CountersExact
    BY <2>1, <2>2 DEF Init, CountersExact, AdmissionExact, Anonymous
  <2> QED BY <2>3 DEF Init, SlotsFilled
<1>2. SessionsTypeOK /\ SlotsFilled /\ CountersExact /\ [Next]_vars
        => (SlotsFilled /\ CountersExact)'
    BY SlotsStep, CountersStep
<1> QED BY <1>1, <1>2, SessionsTypeCorrect, PTL DEF Spec

\* The counters of admission never drift from the connections that exist.
THEOREM AdmissionIsExact == Spec => []AdmissionExact
<1>1. CountersExact => AdmissionExact
    BY DEF CountersExact
<1> QED BY <1>1, CountersCorrect, PTL

\* Neither all connections nor those of an address nor the unauthenticated ones of an
\* address are ever more than their limit.
THEOREM LimitsAreRespected == Spec => []LimitsRespected
<1>1. SessionsTypeOK /\ SlotsFilled /\ CountersExact => LimitsRespected
  <2> SUFFICES ASSUME SessionsTypeOK, SlotsFilled, CountersExact PROVE LimitsRespected
    OBVIOUS
  <2>1. admission.total <= MaxTotal
    BY LimitAssumption DEF SessionsTypeOK, Admission
  <2>2. \A i \in Ip : /\ admission.by_ip[i] <= MaxPerIp
                      /\ admission.unauthenticated_by_ip[i] <= MaxUnauthenticated
    BY LimitAssumption DEF SessionsTypeOK, Admission
  <2>3. ASSUME NEW i \in Ip
        PROVE  Cardinality({c \in HeldFrom(i) : session[c] = {}}) <= MaxUnauthenticated
    <3> DEFINE waiting == {c \in HeldFrom(i) : session[c] = {}}
    <3>1. waiting \subseteq Anonymous(i)
      BY DEF SlotsFilled, Anonymous, HeldFrom, Held
    <3>2. IsFiniteSet(Anonymous(i))
      BY HeldFinite DEF CountersExact
    <3>3. Cardinality(waiting) <= Cardinality(Anonymous(i))
      BY <3>1, <3>2, FS_Subset
    <3>4. Cardinality(waiting) \in Nat /\ Cardinality(Anonymous(i)) \in Nat
      BY <3>1, <3>2, FS_Subset, FS_CardinalityType
    <3>5. Cardinality(Anonymous(i)) <= MaxUnauthenticated
      BY <2>2 DEF CountersExact, AdmissionExact, Anonymous
    <3> QED BY <3>3, <3>4, <3>5, LimitAssumption
  <2> QED BY <2>1, <2>2, <2>3 DEF CountersExact, AdmissionExact, LimitsRespected
<1> QED BY <1>1, SessionsTypeCorrect, CountersCorrect, PTL

(***************************************************************************)
(* The two maps                                                            *)
(***************************************************************************)

Registering == {"claiming", "listing", "greeting"}
Holds(c, d) == signalled[c] \/ connections[d] = {c}

\* A slot and a claim hold one session at most; while a handler registers what is in
\* the slot already, both agree; and whoever is listed without a session is still being
\* greeted or has left the loop.
SlotShape ==
    \A c \in Conn :
        /\ \A s, t \in session[c] : s = t
        /\ \A s, t \in claim[c] : s = t
        /\ claim[c] # {} => stage[c] \in Registering
        /\ claim[c] # {} /\ session[c] # {} => session[c] = claim[c]
        /\ c \in sessions /\ session[c] = {} =>
              stage[c] \in {"greeting", "leaving", "releasing", "ended"}

\* A connection keeps its place from the moment it enters the first map.
PlaceKept ==
    \A c \in Conn :
        /\ c \in sessions => \A s \in session[c] : Holds(c, s.device)
        /\ stage[c] \in {"listing", "greeting"} => \A s \in claim[c] : Holds(c, s.device)

\* Both maps name connections that will still unregister.
MapsLive ==
    /\ \A d \in Device : \A c \in connections[d] :
          \/ stage[c] \in {"listing", "greeting"} /\ \E s \in claim[c] : s.device = d
          \/ stage[c] \notin {"releasing", "ended"} /\ \E s \in session[c] : s.device = d
    /\ \A c \in sessions :
          \/ stage[c] = "greeting"
          \/ stage[c] \notin {"releasing", "ended"} /\ session[c] # {}

\* What the handlers of authentication do to slot and claim.
LEMMA ClaimEffect ==
    ASSUME SessionsTypeOK, NEW c \in Conn, NEW d \in Device,
           DeviceAuth(c, d) \/ PasswordAuthPending(c, d)
    PROVE  \E r \in Session :
              /\ claim' = [claim EXCEPT ![c] = {r}]
              /\ session[c] = {} /\ session' = session
              /\ stage[c] = "serving" /\ stage' = [stage EXCEPT ![c] = "claiming"]
              /\ UNCHANGED <<signalled, connections, sessions>>
<1>1. CASE DeviceAuth(c, d)
  <2> [device |-> d, pending |-> FALSE] \in Session
    BY DEF Session
  <2> WITNESS [device |-> d, pending |-> FALSE] \in Session
  <2> QED BY <1>1 DEF DeviceAuth, Go, shared
<1>2. CASE PasswordAuthPending(c, d)
  <2> [device |-> d, pending |-> TRUE] \in Session
    BY DEF Session
  <2> WITNESS [device |-> d, pending |-> TRUE] \in Session
  <2> QED BY <1>2 DEF PasswordAuthPending, Go, shared
<1> QED BY <1>1, <1>2

\* What the first password of an unknown device does to slot and claim.
LEMMA NewDeviceEffect ==
    ASSUME SessionsTypeOK, NEW c \in Conn, NEW d \in Device, PasswordAuthNew(c, d)
    PROVE  \E r \in Session :
              /\ session[c] = {} /\ session' = [session EXCEPT ![c] = {r}]
              /\ claim' = claim
              /\ stage[c] = "serving" /\ stage' = [stage EXCEPT ![c] = "handled"]
              /\ UNCHANGED <<signalled, connections, sessions>>
<1> [device |-> d, pending |-> TRUE] \in Session
    BY DEF Session
<1> WITNESS [device |-> d, pending |-> TRUE] \in Session
<1> QED BY DEF PasswordAuthNew, Go, shared

\* What a bootstrap does to slot and claim: both get one session of the same device.
LEMMA BootstrapEffect ==
    ASSUME SessionsTypeOK, NEW c \in Conn, Bootstrap(c)
    PROVE  \E s \in session[c], r \in Session :
              /\ r.device = s.device
              /\ session' = [session EXCEPT ![c] = {r}]
              /\ claim' = [claim EXCEPT ![c] = {r}]
              /\ stage[c] = "serving" /\ stage' = [stage EXCEPT ![c] = "claiming"]
              /\ UNCHANGED <<signalled, connections, sessions>>
<1>1. PICK s \in session[c], pending \in BOOLEAN :
           /\ session' = [session EXCEPT ![c] = {[s EXCEPT !.pending = pending]}]
           /\ claim' = [claim EXCEPT ![c] = {[s EXCEPT !.pending = pending]}]
    BY DEF Bootstrap
<1>2. s \in Session
    BY DEF SessionsTypeOK
<1> /\ [s EXCEPT !.pending = pending] \in Session
    /\ [s EXCEPT !.pending = pending].device = s.device
    BY <1>2 DEF Session
<1> WITNESS s \in session[c], [s EXCEPT !.pending = pending] \in Session
<1> QED BY <1>1 DEF Bootstrap, Go, shared

\* Every step keeps the shape of slots and claims.
LEMMA SlotShapeStep ==
    ASSUME SessionsTypeOK, SlotsFilled, SlotShape, [Next]_vars
    PROVE  SlotShape'
<1>1. CASE \E c \in Conn : Admit(c)
    BY <1>1 DEF Admit, Go, task, shared, database, operator, HasRoom, SlotShape,
       Registering, SlotsFilled, SessionsTypeOK
<1>2. CASE \E c \in Conn : Upgrade(c)
    BY <1>2 DEF Upgrade, Go, task, shared, database, operator, SlotShape, Registering,
       SlotsFilled, SessionsTypeOK
<1>3. CASE \E c \in Conn : UpgradeFails(c)
    BY <1>3 DEF UpgradeFails, Go, task, shared, database, operator, SlotShape, Registering,
       SlotsFilled, SessionsTypeOK
<1>4. CASE \E c \in Conn : Frame(c)
    BY <1>4 DEF Frame, Go, task, shared, database, operator, SlotShape, Registering,
       SlotsFilled, SessionsTypeOK
<1>5. CASE \E c \in Conn : Hear(c)
    BY <1>5 DEF Hear, Go, task, shared, database, operator, SlotShape, Registering,
       SlotsFilled, SessionsTypeOK
<1>6. CASE \E c \in Conn : Hangup(c)
    BY <1>6 DEF Hangup, Go, task, shared, database, operator, SlotShape, Registering,
       SlotsFilled, SessionsTypeOK
<1>32. CASE \E c \in Conn : Skip(c)
    BY <1>32 DEF Skip, Go, task, shared, database, operator, SlotShape, Registering,
       SlotsFilled, SessionsTypeOK
<1>33. CASE \E c \in Conn : Skipped(c)
    BY <1>33 DEF Skipped, Go, task, shared, database, operator, SlotShape, Registering,
       SlotsFilled, SessionsTypeOK
<1>7. CASE \E c \in Conn : Serve(c)
    BY <1>7 DEF Serve, Go, task, shared, database, operator, SlotShape, Registering,
       SlotsFilled, SessionsTypeOK
<1>8. CASE \E c \in Conn : Return(c)
    BY <1>8 DEF Return, Go, task, shared, database, operator, SlotShape, Registering,
       SlotsFilled, SessionsTypeOK
<1>9. CASE \E c \in Conn : Bootstrap(c)
  <2> PICK c \in Conn : Bootstrap(c)
    BY <1>9
  <2>1. PICK s \in session[c], r \in Session :
             /\ r.device = s.device
             /\ session' = [session EXCEPT ![c] = {r}]
             /\ claim' = [claim EXCEPT ![c] = {r}]
             /\ stage[c] = "serving" /\ stage' = [stage EXCEPT ![c] = "claiming"]
             /\ UNCHANGED <<signalled, connections, sessions>>
    BY BootstrapEffect
  <2> QED BY <2>1 DEF SlotShape, Registering, SlotsFilled, SessionsTypeOK
<1>10. CASE \E c \in Conn : RegisterConnection(c)
    BY <1>10 DEF RegisterConnection, Go, task, shared, database, operator, SlotShape,
       Registering, SlotsFilled, SessionsTypeOK
<1>11. CASE \E c \in Conn : RegisterSession(c)
    BY <1>11 DEF RegisterSession, Go, task, shared, database, operator, SlotShape,
       Registering, SlotsFilled, SessionsTypeOK
<1>12. CASE \E c \in Conn : Greet(c)
    BY <1>12 DEF Greet, Go, task, shared, database, operator, SlotShape, Registering,
       SlotsFilled, SessionsTypeOK
<1>13. CASE \E c \in Conn : GreetFails(c)
    BY <1>13 DEF GreetFails, Go, task, shared, database, operator, SlotShape, Registering,
       SlotsFilled, SessionsTypeOK
<1>14. CASE \E c \in Conn : KickRevoked(c)
    BY <1>14 DEF KickRevoked, Go, task, shared, database, operator, SignalAll, OnDevice,
       SlotShape, Registering, SlotsFilled, SessionsTypeOK
<1>15. CASE \E c \in Conn : Unregister(c)
    BY <1>15 DEF Unregister, Go, task, shared, database, operator, Unregistered, SlotShape,
       Registering, SlotsFilled, SessionsTypeOK
<1>16. CASE \E c \in Conn : Release(c)
    BY <1>16 DEF Release, Go, task, shared, database, operator, SlotShape, Registering,
       SlotsFilled, SessionsTypeOK
<1>17. CASE \E c \in Conn, d \in Device : DeviceAuth(c, d)
  <2> PICK c \in Conn, d \in Device : DeviceAuth(c, d)
    BY <1>17
  <2>1. PICK r \in Session :
             /\ claim' = [claim EXCEPT ![c] = {r}]
             /\ session[c] = {} /\ session' = session
             /\ stage[c] = "serving" /\ stage' = [stage EXCEPT ![c] = "claiming"]
             /\ UNCHANGED <<signalled, connections, sessions>>
    BY ClaimEffect
  <2> QED BY <2>1 DEF SlotShape, Registering, SlotsFilled, SessionsTypeOK
<1>18. CASE \E c \in Conn, d \in Device : PasswordAuthNew(c, d)
  <2> PICK c \in Conn, d \in Device : PasswordAuthNew(c, d)
    BY <1>18
  <2>1. PICK r \in Session :
             /\ session[c] = {} /\ session' = [session EXCEPT ![c] = {r}]
             /\ claim' = claim
             /\ stage[c] = "serving" /\ stage' = [stage EXCEPT ![c] = "handled"]
             /\ UNCHANGED <<signalled, connections, sessions>>
    BY NewDeviceEffect
  <2> QED BY <2>1 DEF SlotShape, Registering, SlotsFilled, SessionsTypeOK
<1>19. CASE \E c \in Conn, d \in Device : PasswordAuthPending(c, d)
  <2> PICK c \in Conn, d \in Device : PasswordAuthPending(c, d)
    BY <1>19
  <2>1. PICK r \in Session :
             /\ claim' = [claim EXCEPT ![c] = {r}]
             /\ session[c] = {} /\ session' = session
             /\ stage[c] = "serving" /\ stage' = [stage EXCEPT ![c] = "claiming"]
             /\ UNCHANGED <<signalled, connections, sessions>>
    BY ClaimEffect
  <2> QED BY <2>1 DEF SlotShape, Registering, SlotsFilled, SessionsTypeOK
<1>20. CASE \E c \in Conn, d \in Device : RevokeOwnDevice(c, d)
    BY <1>20 DEF RevokeOwnDevice, Go, task, shared, database, operator, Revoked, SlotShape,
       Registering, SlotsFilled, SessionsTypeOK
<1>21. CASE \E c \in Conn, d \in Device : ActivateDevice(c, d)
    BY <1>21 DEF ActivateDevice, Go, task, shared, database, operator, Activated, SlotShape,
       Registering, SlotsFilled, SessionsTypeOK
<1>22. CASE \E state \in {"active", "disabled"} : SetUserState(state)
    BY <1>22 DEF SetUserState, Go, task, shared, database, operator, Command, SlotShape,
       Registering, SlotsFilled, SessionsTypeOK
<1>23. CASE \E d \in Device : AdminRevokeDevice(d)
    BY <1>23 DEF AdminRevokeDevice, Go, task, shared, database, operator, Command, Revoked,
       SlotShape, Registering, SlotsFilled, SessionsTypeOK
<1>24. CASE \E c \in Conn : KickSession(c)
    BY <1>24 DEF KickSession, Go, task, shared, database, operator, Command, SignalAll,
       SlotShape, Registering, SlotsFilled, SessionsTypeOK
<1>25. CASE ResetDevices
    BY <1>25 DEF ResetDevices, Go, task, shared, database, operator, Command, Revoked,
       SlotShape, Registering, SlotsFilled, SessionsTypeOK
<1>26. CASE DeleteUser
    BY <1>26 DEF DeleteUser, Go, task, shared, database, operator, Command, SignalAll,
       SlotShape, Registering, SlotsFilled, SessionsTypeOK
<1>27. CASE DeleteRecords
    BY <1>27 DEF DeleteRecords, Go, task, shared, database, operator, SlotShape,
       Registering, SlotsFilled, SessionsTypeOK
<1>28. CASE KickAccount
    BY <1>28 DEF KickAccount, Go, task, shared, database, operator, SignalAll, SlotShape,
       Registering, SlotsFilled, SessionsTypeOK
<1>29. CASE KickDevice
    BY <1>29 DEF KickDevice, Go, task, shared, database, operator, SignalAll, OnDevice,
       SlotShape, Registering, SlotsFilled, SessionsTypeOK
<1>30. CASE OrderLost
    BY <1>30 DEF OrderLost, Go, task, shared, database, operator, SlotShape, Registering,
       SlotsFilled, SessionsTypeOK
<1>31. CASE UNCHANGED vars
    BY <1>31 DEF vars, task, shared, database, operator, SlotShape, Registering,
       SlotsFilled, SessionsTypeOK
<1> QED BY <1>1, <1>2, <1>3, <1>4, <1>5, <1>6, <1>7, <1>8, <1>9, <1>10, <1>11, <1>12, <1>13,
    <1>14, <1>15, <1>16, <1>17, <1>18, <1>19, <1>20, <1>21, <1>22, <1>23, <1>24, <1>25, <1>26,
    <1>27, <1>28, <1>29, <1>30, <1>31, <1>32, <1>33 DEF Next, Task, Administrator

\* Every step leaves a registered connection in its place or tells it to leave.
LEMMA PlaceStep ==
    ASSUME SessionsTypeOK, SlotsFilled, SlotShape, PlaceKept, [Next]_vars
    PROVE  PlaceKept'
<1>1. CASE \E c \in Conn : Admit(c)
  <2>1. PICK c \in Conn : stage' = [stage EXCEPT ![c] = "upgrading"]
    BY <1>1 DEF Admit, Go
  <2>2. UNCHANGED <<session, claim, signalled, connections, sessions>>
    BY <1>1 DEF Admit
  <2> QED BY <2>1, <2>2 DEF PlaceKept, Holds, SessionsTypeOK
<1>2. CASE \E c \in Conn : Upgrade(c)
    BY <1>2 DEF Upgrade, Go, task, shared, database, operator, SlotShape, Registering,
       SlotsFilled, PlaceKept, Holds, SessionsTypeOK
<1>3. CASE \E c \in Conn : UpgradeFails(c)
    BY <1>3 DEF UpgradeFails, Go, task, shared, database, operator, SlotShape, Registering,
       SlotsFilled, PlaceKept, Holds, SessionsTypeOK
<1>4. CASE \E c \in Conn : Frame(c)
    BY <1>4 DEF Frame, Go, task, shared, database, operator, SlotShape, Registering,
       SlotsFilled, PlaceKept, Holds, SessionsTypeOK
<1>5. CASE \E c \in Conn : Hear(c)
    BY <1>5 DEF Hear, Go, task, shared, database, operator, SlotShape, Registering,
       SlotsFilled, PlaceKept, Holds, SessionsTypeOK
<1>6. CASE \E c \in Conn : Hangup(c)
    BY <1>6 DEF Hangup, Go, task, shared, database, operator, SlotShape, Registering,
       SlotsFilled, PlaceKept, Holds, SessionsTypeOK
<1>32. CASE \E c \in Conn : Skip(c)
    BY <1>32 DEF Skip, Go, task, shared, database, operator, SlotShape, Registering,
       SlotsFilled, PlaceKept, Holds, SessionsTypeOK
<1>33. CASE \E c \in Conn : Skipped(c)
    BY <1>33 DEF Skipped, Go, task, shared, database, operator, SlotShape, Registering,
       SlotsFilled, PlaceKept, Holds, SessionsTypeOK
<1>7. CASE \E c \in Conn : Serve(c)
    BY <1>7 DEF Serve, Go, task, shared, database, operator, SlotShape, Registering,
       SlotsFilled, PlaceKept, Holds, SessionsTypeOK
<1>8. CASE \E c \in Conn : Return(c)
    BY <1>8 DEF Return, Go, task, shared, database, operator, SlotShape, Registering,
       SlotsFilled, PlaceKept, Holds, SessionsTypeOK
<1>9. CASE \E c \in Conn : Bootstrap(c)
  <2> PICK c \in Conn : Bootstrap(c)
    BY <1>9
  <2>1. PICK s \in session[c], r \in Session :
             /\ r.device = s.device
             /\ session' = [session EXCEPT ![c] = {r}]
             /\ claim' = [claim EXCEPT ![c] = {r}]
             /\ stage[c] = "serving" /\ stage' = [stage EXCEPT ![c] = "claiming"]
             /\ UNCHANGED <<signalled, connections, sessions>>
    BY BootstrapEffect
  <2>2. session'[c] = {r} /\ claim'[c] = {r} /\ stage'[c] = "claiming"
    BY <2>1 DEF SessionsTypeOK
  <2>3. c \in sessions => Holds(c, s.device)
    BY <2>1 DEF PlaceKept
  <2>4. \A e \in Conn : e # c =>
           session'[e] = session[e] /\ claim'[e] = claim[e] /\ stage'[e] = stage[e]
    BY <2>1 DEF SessionsTypeOK
  <2> QED BY <2>1, <2>2, <2>3, <2>4 DEF PlaceKept, Holds
<1>10. CASE \E c \in Conn : RegisterConnection(c)
  <2> PICK c \in Conn : RegisterConnection(c)
    BY <1>10
  <2>1. PICK s \in claim[c] :
             /\ stage' = [stage EXCEPT ![c] = "listing"]
             /\ connections' = [connections EXCEPT ![s.device] = {c}]
             /\ signalled' = [e \in Conn |-> signalled[e] \/ e \in connections[s.device]]
             /\ UNCHANGED <<session, claim, sessions>>
    BY DEF RegisterConnection, Go
  <2>2. s \in Session /\ s.device \in Device
    BY DEF SessionsTypeOK, Session
  <2>3. \A t \in claim[c] \cup session[c] : t = s
    BY DEF SlotShape
  <2>4. connections'[s.device] = {c}
    BY <2>1, <2>2 DEF SessionsTypeOK
  <2>5. ASSUME NEW e \in Conn, NEW t \in Session, e # c, Holds(e, t.device)
        PROVE  Holds(e, t.device)'
    <3>1. CASE signalled[e]
      BY <3>1, <2>1 DEF Holds
    <3>2. CASE t.device = s.device /\ connections[t.device] = {e}
      BY <3>2, <2>1 DEF Holds
    <3>3. CASE t.device # s.device /\ connections[t.device] = {e}
      <4>1. t.device \in Device
        BY DEF Session
      <4> QED BY <3>3, <4>1, <2>1 DEF Holds, SessionsTypeOK
    <3> QED BY <2>5, <3>1, <3>2, <3>3 DEF Holds
  <2>6. ASSUME NEW e \in Conn, NEW t \in Session, e # c
        PROVE  /\ e \in sessions' /\ t \in session'[e] => Holds(e, t.device)'
               /\ stage'[e] \in {"listing", "greeting"} /\ t \in claim'[e] => Holds(e, t.device)'
    <3>1. stage'[e] = stage[e]
      BY <2>1, <2>6 DEF SessionsTypeOK
    <3> QED BY <3>1, <2>1, <2>5, <2>6 DEF PlaceKept
  <2>7. \A t \in claim'[c] \cup session'[c] : Holds(c, t.device)'
    BY <2>1, <2>3, <2>4 DEF Holds
  <2>8. \A e \in Conn : session'[e] \subseteq Session /\ claim'[e] \subseteq Session
    BY <2>1 DEF SessionsTypeOK
  <2> QED BY <2>6, <2>7, <2>8 DEF PlaceKept
<1>11. CASE \E c \in Conn : RegisterSession(c)
    BY <1>11 DEF RegisterSession, Go, task, shared, database, operator, SlotShape,
       Registering, SlotsFilled, PlaceKept, Holds, SessionsTypeOK
<1>12. CASE \E c \in Conn : Greet(c)
  <2> PICK c \in Conn : Greet(c)
    BY <1>12
  <2>1. /\ stage[c] = "greeting" /\ stage' = [stage EXCEPT ![c] = "handled"]
        /\ session' = [session EXCEPT ![c] = claim[c]]
        /\ claim' = [claim EXCEPT ![c] = {}]
        /\ UNCHANGED <<signalled, connections, sessions>>
    BY DEF Greet, Go, shared
  <2>2. /\ session'[c] = claim[c] /\ claim'[c] = {}
        /\ \A e \in Conn : e # c =>
              session'[e] = session[e] /\ claim'[e] = claim[e] /\ stage'[e] = stage[e]
    BY <2>1 DEF SessionsTypeOK
  <2>3. \A s \in claim[c] : Holds(c, s.device)
    BY <2>1 DEF PlaceKept
  <2>4. \A e \in Conn : \A d : Holds(e, d)' <=> Holds(e, d)
    BY <2>1 DEF Holds
  <2> QED BY <2>1, <2>2, <2>3, <2>4 DEF PlaceKept
<1>13. CASE \E c \in Conn : GreetFails(c)
    BY <1>13 DEF GreetFails, Go, task, shared, database, operator, SlotShape, Registering,
       SlotsFilled, PlaceKept, Holds, SessionsTypeOK
<1>14. CASE \E c \in Conn : KickRevoked(c)
    BY <1>14 DEF KickRevoked, Go, task, shared, database, operator, SignalAll, OnDevice,
       SlotShape, Registering, SlotsFilled, PlaceKept, Holds, SessionsTypeOK
<1>15. CASE \E c \in Conn : Unregister(c)
  <2> PICK c \in Conn : Unregister(c)
    BY <1>15
  <2>1. /\ stage' = [stage EXCEPT ![c] = "releasing"]
        /\ UNCHANGED <<session, claim, signalled>>
    BY DEF Unregister, Go
  <2>2. stage'[c] = "releasing" /\ \A e \in Conn : e # c => stage'[e] = stage[e]
    BY <2>1 DEF SessionsTypeOK
  <2>3. CASE session[c] = {} /\ UNCHANGED <<connections, sessions>>
    BY <2>1, <2>2, <2>3 DEF PlaceKept, Holds
  <2>4. CASE \E s \in session[c] : /\ connections' = Unregistered(c, s.device)
                                  /\ sessions' = sessions \ {c}
    <3>1. PICK s \in session[c] : /\ connections' = Unregistered(c, s.device)
                                 /\ sessions' = sessions \ {c}
      BY <2>4
    <3>2. \A d \in Device : connections'[d] \in {connections[d], connections[d] \ {c}}
      BY <3>1 DEF Unregistered, SessionsTypeOK
    <3>3. \A e \in Conn, d \in Device : e # c /\ Holds(e, d) => Holds(e, d)'
      BY <3>2, <2>1 DEF Holds
    <3>4. \A e \in Conn : \A t \in session[e] \cup claim[e] : t.device \in Device
      BY DEF SessionsTypeOK, Session
    <3>5. \A e \in Conn : e \in sessions' => e # c /\ e \in sessions
      BY <3>1
    <3> QED BY <2>1, <2>2, <3>3, <3>4, <3>5 DEF PlaceKept
  <2> QED BY <2>3, <2>4 DEF Unregister
<1>16. CASE \E c \in Conn : Release(c)
    BY <1>16 DEF Release, Go, task, shared, database, operator, SlotShape, Registering,
       SlotsFilled, PlaceKept, Holds, SessionsTypeOK
<1>17. CASE \E c \in Conn, d \in Device : DeviceAuth(c, d)
  <2> PICK c \in Conn, d \in Device : DeviceAuth(c, d)
    BY <1>17
  <2>1. PICK r \in Session :
             /\ claim' = [claim EXCEPT ![c] = {r}]
             /\ session[c] = {} /\ session' = session
             /\ stage[c] = "serving" /\ stage' = [stage EXCEPT ![c] = "claiming"]
             /\ UNCHANGED <<signalled, connections, sessions>>
    BY ClaimEffect
  <2> QED BY <2>1 DEF PlaceKept, Holds, SlotShape, SessionsTypeOK
<1>18. CASE \E c \in Conn, d \in Device : PasswordAuthNew(c, d)
  <2> PICK c \in Conn, d \in Device : PasswordAuthNew(c, d)
    BY <1>18
  <2>1. PICK r \in Session :
             /\ session[c] = {} /\ session' = [session EXCEPT ![c] = {r}]
             /\ claim' = claim
             /\ stage[c] = "serving" /\ stage' = [stage EXCEPT ![c] = "handled"]
             /\ UNCHANGED <<signalled, connections, sessions>>
    BY NewDeviceEffect
  <2> QED BY <2>1 DEF PlaceKept, Holds, SlotShape, SessionsTypeOK
<1>19. CASE \E c \in Conn, d \in Device : PasswordAuthPending(c, d)
  <2> PICK c \in Conn, d \in Device : PasswordAuthPending(c, d)
    BY <1>19
  <2>1. PICK r \in Session :
             /\ claim' = [claim EXCEPT ![c] = {r}]
             /\ session[c] = {} /\ session' = session
             /\ stage[c] = "serving" /\ stage' = [stage EXCEPT ![c] = "claiming"]
             /\ UNCHANGED <<signalled, connections, sessions>>
    BY ClaimEffect
  <2> QED BY <2>1 DEF PlaceKept, Holds, SlotShape, SessionsTypeOK
<1>20. CASE \E c \in Conn, d \in Device : RevokeOwnDevice(c, d)
    BY <1>20 DEF RevokeOwnDevice, Go, task, shared, database, operator, Revoked, SlotShape,
       Registering, SlotsFilled, PlaceKept, Holds, SessionsTypeOK
<1>21. CASE \E c \in Conn, d \in Device : ActivateDevice(c, d)
  <2> PICK c \in Conn, d \in Device : ActivateDevice(c, d)
    BY <1>21
  <2>1. /\ stage[c] = "serving" /\ stage' = [stage EXCEPT ![c] = "handled"]
        /\ UNCHANGED <<session, claim, signalled, connections, sessions>>
    BY DEF ActivateDevice, Go, shared
  <2> QED BY <2>1 DEF PlaceKept, Holds, SessionsTypeOK
<1>22. CASE \E state \in {"active", "disabled"} : SetUserState(state)
    BY <1>22 DEF SetUserState, Go, task, shared, database, operator, Command, SlotShape,
       Registering, SlotsFilled, PlaceKept, Holds, SessionsTypeOK
<1>23. CASE \E d \in Device : AdminRevokeDevice(d)
  <2>1. UNCHANGED <<stage, session, claim, signalled, connections, sessions>>
    BY <1>23 DEF AdminRevokeDevice, task, shared
  <2> QED BY <2>1 DEF PlaceKept, Holds
<1>24. CASE \E c \in Conn : KickSession(c)
    BY <1>24 DEF KickSession, Go, task, shared, database, operator, Command, SignalAll,
       SlotShape, Registering, SlotsFilled, PlaceKept, Holds, SessionsTypeOK
<1>25. CASE ResetDevices
    BY <1>25 DEF ResetDevices, Go, task, shared, database, operator, Command, Revoked,
       SlotShape, Registering, SlotsFilled, PlaceKept, Holds, SessionsTypeOK
<1>26. CASE DeleteUser
    BY <1>26 DEF DeleteUser, Go, task, shared, database, operator, Command, SignalAll,
       SlotShape, Registering, SlotsFilled, PlaceKept, Holds, SessionsTypeOK
<1>27. CASE DeleteRecords
    BY <1>27 DEF DeleteRecords, Go, task, shared, database, operator, SlotShape,
       Registering, SlotsFilled, PlaceKept, Holds, SessionsTypeOK
<1>28. CASE KickAccount
    BY <1>28 DEF KickAccount, Go, task, shared, database, operator, SignalAll, SlotShape,
       Registering, SlotsFilled, PlaceKept, Holds, SessionsTypeOK
<1>29. CASE KickDevice
    BY <1>29 DEF KickDevice, Go, task, shared, database, operator, SignalAll, OnDevice,
       SlotShape, Registering, SlotsFilled, PlaceKept, Holds, SessionsTypeOK
<1>30. CASE OrderLost
    BY <1>30 DEF OrderLost, Go, task, shared, database, operator, SlotShape, Registering,
       SlotsFilled, PlaceKept, Holds, SessionsTypeOK
<1>31. CASE UNCHANGED vars
    BY <1>31 DEF vars, task, shared, database, operator, SlotShape, Registering,
       SlotsFilled, PlaceKept, Holds, SessionsTypeOK
<1> QED BY <1>1, <1>2, <1>3, <1>4, <1>5, <1>6, <1>7, <1>8, <1>9, <1>10, <1>11, <1>12, <1>13,
    <1>14, <1>15, <1>16, <1>17, <1>18, <1>19, <1>20, <1>21, <1>22, <1>23, <1>24, <1>25, <1>26,
    <1>27, <1>28, <1>29, <1>30, <1>31, <1>32, <1>33 DEF Next, Task, Administrator

\* Without a broken socket during a greeting, every step keeps the maps to the living.
LEMMA MapsStep ==
    ASSUME SessionsTypeOK, SlotsFilled, SlotShape, MapsLive, [Next]_vars, "writer" \notin Faults
    PROVE  MapsLive'
<1>1. CASE \E c \in Conn : Admit(c)
    BY <1>1 DEF Admit, Go, task, shared, database, operator, HasRoom, SlotShape,
       Registering, SlotsFilled, MapsLive, SessionsTypeOK
<1>2. CASE \E c \in Conn : Upgrade(c)
    BY <1>2 DEF Upgrade, Go, task, shared, database, operator, SlotShape, Registering,
       SlotsFilled, MapsLive, SessionsTypeOK
<1>3. CASE \E c \in Conn : UpgradeFails(c)
    BY <1>3 DEF UpgradeFails, Go, task, shared, database, operator, SlotShape, Registering,
       SlotsFilled, MapsLive, SessionsTypeOK
<1>4. CASE \E c \in Conn : Frame(c)
    BY <1>4 DEF Frame, Go, task, shared, database, operator, SlotShape, Registering,
       SlotsFilled, MapsLive, SessionsTypeOK
<1>5. CASE \E c \in Conn : Hear(c)
    BY <1>5 DEF Hear, Go, task, shared, database, operator, SlotShape, Registering,
       SlotsFilled, MapsLive, SessionsTypeOK
<1>6. CASE \E c \in Conn : Hangup(c)
    BY <1>6 DEF Hangup, Go, task, shared, database, operator, SlotShape, Registering,
       SlotsFilled, MapsLive, SessionsTypeOK
<1>32. CASE \E c \in Conn : Skip(c)
    BY <1>32 DEF Skip, Go, task, shared, database, operator, SlotShape, Registering,
       SlotsFilled, MapsLive, SessionsTypeOK
<1>33. CASE \E c \in Conn : Skipped(c)
    BY <1>33 DEF Skipped, Go, task, shared, database, operator, SlotShape, Registering,
       SlotsFilled, MapsLive, SessionsTypeOK
<1>7. CASE \E c \in Conn : Serve(c)
    BY <1>7 DEF Serve, Go, task, shared, database, operator, SlotShape, Registering,
       SlotsFilled, MapsLive, SessionsTypeOK
<1>8. CASE \E c \in Conn : Return(c)
    BY <1>8 DEF Return, Go, task, shared, database, operator, SlotShape, Registering,
       SlotsFilled, MapsLive, SessionsTypeOK
<1>9. CASE \E c \in Conn : Bootstrap(c)
  <2> PICK c \in Conn : Bootstrap(c)
    BY <1>9
  <2>1. PICK s \in session[c], r \in Session :
             /\ r.device = s.device
             /\ session' = [session EXCEPT ![c] = {r}]
             /\ claim' = [claim EXCEPT ![c] = {r}]
             /\ stage[c] = "serving" /\ stage' = [stage EXCEPT ![c] = "claiming"]
             /\ UNCHANGED <<signalled, connections, sessions>>
    BY BootstrapEffect
  <2>2. session'[c] = {r} /\ claim'[c] = {r} /\ stage'[c] = "claiming"
    BY <2>1 DEF SessionsTypeOK
  <2>3. \A t \in session[c] : t = s
    BY <2>1 DEF SlotShape
  <2>4. \A e \in Conn : e # c =>
           session'[e] = session[e] /\ claim'[e] = claim[e] /\ stage'[e] = stage[e]
    BY <2>1 DEF SessionsTypeOK
  <2>5. \A d \in Device : c \in connections[d] => r.device = d
    BY <2>1, <2>3 DEF MapsLive
  <2>6. \A d \in Device : connections[d] \subseteq Conn
    BY DEF SessionsTypeOK
  <2>7. ASSUME NEW d \in Device, NEW e \in connections[d]
        PROVE  \/ stage'[e] \in {"listing", "greeting"} /\ \E t \in claim'[e] : t.device = d
               \/ stage'[e] \notin {"releasing", "ended"} /\ \E t \in session'[e] : t.device = d
    <3>1. CASE e = c
      BY <3>1, <2>2, <2>5
    <3>2. CASE e # c
      BY <3>2, <2>4, <2>6 DEF MapsLive
    <3> QED BY <3>1, <3>2
  <2>8. ASSUME NEW e \in sessions
        PROVE  \/ stage'[e] = "greeting"
               \/ stage'[e] \notin {"releasing", "ended"} /\ session'[e] # {}
    <3>1. e \in Conn
      BY DEF SessionsTypeOK
    <3> QED BY <3>1, <2>2, <2>4 DEF MapsLive
  <2> QED BY <2>1, <2>7, <2>8 DEF MapsLive
<1>10. CASE \E c \in Conn : RegisterConnection(c)
    BY <1>10 DEF RegisterConnection, Go, task, shared, database, operator, SlotShape,
       Registering, SlotsFilled, MapsLive, SessionsTypeOK
<1>11. CASE \E c \in Conn : RegisterSession(c)
    BY <1>11 DEF RegisterSession, Go, task, shared, database, operator, SlotShape,
       Registering, SlotsFilled, MapsLive, SessionsTypeOK
<1>12. CASE \E c \in Conn : Greet(c)
    BY <1>12 DEF Greet, Go, task, shared, database, operator, SlotShape, Registering,
       SlotsFilled, MapsLive, SessionsTypeOK
<1>13. CASE \E c \in Conn : GreetFails(c)
    BY <1>13 DEF GreetFails, Go, task, shared, database, operator, SlotShape, Registering,
       SlotsFilled, MapsLive, SessionsTypeOK
<1>14. CASE \E c \in Conn : KickRevoked(c)
    BY <1>14 DEF KickRevoked, Go, task, shared, database, operator, SignalAll, OnDevice,
       SlotShape, Registering, SlotsFilled, MapsLive, SessionsTypeOK
<1>15. CASE \E c \in Conn : Unregister(c)
    BY <1>15 DEF Unregister, Go, task, shared, database, operator, Unregistered, SlotShape,
       Registering, SlotsFilled, MapsLive, SessionsTypeOK
<1>16. CASE \E c \in Conn : Release(c)
    BY <1>16 DEF Release, Go, task, shared, database, operator, SlotShape, Registering,
       SlotsFilled, MapsLive, SessionsTypeOK
<1>17. CASE \E c \in Conn, d \in Device : DeviceAuth(c, d)
  <2> PICK c \in Conn, d \in Device : DeviceAuth(c, d)
    BY <1>17
  <2>1. PICK r \in Session :
             /\ claim' = [claim EXCEPT ![c] = {r}]
             /\ session[c] = {} /\ session' = session
             /\ stage[c] = "serving" /\ stage' = [stage EXCEPT ![c] = "claiming"]
             /\ UNCHANGED <<signalled, connections, sessions>>
    BY ClaimEffect
  <2> QED BY <2>1 DEF MapsLive, SlotShape, SessionsTypeOK
<1>18. CASE \E c \in Conn, d \in Device : PasswordAuthNew(c, d)
  <2> PICK c \in Conn, d \in Device : PasswordAuthNew(c, d)
    BY <1>18
  <2>1. PICK r \in Session :
             /\ session[c] = {} /\ session' = [session EXCEPT ![c] = {r}]
             /\ claim' = claim
             /\ stage[c] = "serving" /\ stage' = [stage EXCEPT ![c] = "handled"]
             /\ UNCHANGED <<signalled, connections, sessions>>
    BY NewDeviceEffect
  <2> QED BY <2>1 DEF MapsLive, SlotShape, SessionsTypeOK
<1>19. CASE \E c \in Conn, d \in Device : PasswordAuthPending(c, d)
  <2> PICK c \in Conn, d \in Device : PasswordAuthPending(c, d)
    BY <1>19
  <2>1. PICK r \in Session :
             /\ claim' = [claim EXCEPT ![c] = {r}]
             /\ session[c] = {} /\ session' = session
             /\ stage[c] = "serving" /\ stage' = [stage EXCEPT ![c] = "claiming"]
             /\ UNCHANGED <<signalled, connections, sessions>>
    BY ClaimEffect
  <2> QED BY <2>1 DEF MapsLive, SlotShape, SessionsTypeOK
<1>20. CASE \E c \in Conn, d \in Device : RevokeOwnDevice(c, d)
    BY <1>20 DEF RevokeOwnDevice, Go, task, shared, database, operator, Revoked, SlotShape,
       Registering, SlotsFilled, MapsLive, SessionsTypeOK
<1>21. CASE \E c \in Conn, d \in Device : ActivateDevice(c, d)
    BY <1>21 DEF ActivateDevice, Go, task, shared, database, operator, Activated, SlotShape,
       Registering, SlotsFilled, MapsLive, SessionsTypeOK
<1>22. CASE \E state \in {"active", "disabled"} : SetUserState(state)
    BY <1>22 DEF SetUserState, Go, task, shared, database, operator, Command, SlotShape,
       Registering, SlotsFilled, MapsLive, SessionsTypeOK
<1>23. CASE \E d \in Device : AdminRevokeDevice(d)
    BY <1>23 DEF AdminRevokeDevice, Go, task, shared, database, operator, Command, Revoked,
       SlotShape, Registering, SlotsFilled, MapsLive, SessionsTypeOK
<1>24. CASE \E c \in Conn : KickSession(c)
    BY <1>24 DEF KickSession, Go, task, shared, database, operator, Command, SignalAll,
       SlotShape, Registering, SlotsFilled, MapsLive, SessionsTypeOK
<1>25. CASE ResetDevices
    BY <1>25 DEF ResetDevices, Go, task, shared, database, operator, Command, Revoked,
       SlotShape, Registering, SlotsFilled, MapsLive, SessionsTypeOK
<1>26. CASE DeleteUser
    BY <1>26 DEF DeleteUser, Go, task, shared, database, operator, Command, SignalAll,
       SlotShape, Registering, SlotsFilled, MapsLive, SessionsTypeOK
<1>27. CASE DeleteRecords
    BY <1>27 DEF DeleteRecords, Go, task, shared, database, operator, SlotShape,
       Registering, SlotsFilled, MapsLive, SessionsTypeOK
<1>28. CASE KickAccount
    BY <1>28 DEF KickAccount, Go, task, shared, database, operator, SignalAll, SlotShape,
       Registering, SlotsFilled, MapsLive, SessionsTypeOK
<1>29. CASE KickDevice
    BY <1>29 DEF KickDevice, Go, task, shared, database, operator, SignalAll, OnDevice,
       SlotShape, Registering, SlotsFilled, MapsLive, SessionsTypeOK
<1>30. CASE OrderLost
    BY <1>30 DEF OrderLost, Go, task, shared, database, operator, SlotShape, Registering,
       SlotsFilled, MapsLive, SessionsTypeOK
<1>31. CASE UNCHANGED vars
    BY <1>31 DEF vars, task, shared, database, operator, SlotShape, Registering,
       SlotsFilled, MapsLive, SessionsTypeOK
<1> QED BY <1>1, <1>2, <1>3, <1>4, <1>5, <1>6, <1>7, <1>8, <1>9, <1>10, <1>11, <1>12, <1>13,
    <1>14, <1>15, <1>16, <1>17, <1>18, <1>19, <1>20, <1>21, <1>22, <1>23, <1>24, <1>25, <1>26,
    <1>27, <1>28, <1>29, <1>30, <1>31, <1>32, <1>33 DEF Next, Task, Administrator

\* The shape of slots and places holds in every reachable state.
LEMMA PlacesCorrect == Spec => [](SlotShape /\ PlaceKept)
<1>1. Init => SlotShape /\ PlaceKept
    BY DEF Init, SlotShape, PlaceKept
<1>2. SessionsTypeOK /\ SlotsFilled /\ SlotShape /\ PlaceKept /\ [Next]_vars
        => (SlotShape /\ PlaceKept)'
    BY SlotShapeStep, PlaceStep
<1> QED BY <1>1, <1>2, SessionsTypeCorrect, CountersCorrect, PTL DEF Spec

\* The connection of a device that pushes go to is its newest one: whoever is listed and
\* is not it has been told to leave.
THEOREM NewestReachable == Spec => []NewestIsReachable
<1>1. SessionsTypeOK /\ PlaceKept => NewestIsReachable
    BY DEF SessionsTypeOK, PlaceKept, Holds, NewestIsReachable
<1> QED BY <1>1, SessionsTypeCorrect, PlacesCorrect, PTL

\* As long as no socket breaks between the registration and the reply, no entry of
\* either map outlives its connection.
THEOREM OnlineConnected ==
    ASSUME "writer" \notin Faults
    PROVE  Spec => []OnlineIsConnected
<1>1. Init => MapsLive
    BY DEF Init, MapsLive
<1>2. SessionsTypeOK /\ SlotsFilled /\ SlotShape /\ MapsLive /\ [Next]_vars => MapsLive'
    BY MapsStep
<1>3. MapsLive => OnlineIsConnected
    BY DEF MapsLive, OnlineIsConnected
<1> QED BY <1>1, <1>2, <1>3, SessionsTypeCorrect, CountersCorrect, PlacesCorrect, PTL DEF Spec
=============================================================================
