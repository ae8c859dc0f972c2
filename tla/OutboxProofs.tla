---------------------------- MODULE OutboxProofs ----------------------------
(***************************************************************************)
(* The outbox for every set of texts and deletions, every length of the    *)
(* channel and all faults.                                                 *)
(***************************************************************************)
EXTENDS Outbox, Functions, TLAPS

(***************************************************************************)
(* Queues                                                                  *)
(***************************************************************************)

LEMMA RangeOfAppend ==
    ASSUME NEW S, NEW s \in Seq(S), NEW e \in S
    PROVE  /\ Append(s, e) \in Seq(S)
           /\ \A x : x \in Range(Append(s, e)) => x \in Range(s) \/ x = e
           /\ \A x \in Range(s) : x \in Range(Append(s, e))
           /\ e \in Range(Append(s, e))
<1>1. Len(Append(s, e)) = Len(s) + 1 /\ Append(s, e)[Len(s) + 1] = e OBVIOUS
<1>2. \A i \in 1 .. Len(s) : Append(s, e)[i] = s[i] OBVIOUS
<1>3. DOMAIN s = 1 .. Len(s) /\ DOMAIN Append(s, e) = 1 .. Len(s) + 1 /\ Len(s) \in Nat
    OBVIOUS
<1> QED BY <1>1, <1>2, <1>3 DEF Range

LEMMA RangeOfTail ==
    ASSUME NEW S, NEW s \in Seq(S), s # <<>>
    PROVE  /\ Tail(s) \in Seq(S) /\ Head(s) \in S /\ Head(s) \in Range(s)
           /\ \A x \in Range(Tail(s)) : x \in Range(s)
           /\ \A x \in Range(s) : x = Head(s) \/ x \in Range(Tail(s))
<1>1. Len(s) \in Nat /\ Len(s) > 0 /\ DOMAIN s = 1 .. Len(s) OBVIOUS
<1>2. Tail(s) \in Seq(S) /\ Len(Tail(s)) = Len(s) - 1 BY <1>1
<1>3. \A i \in 1 .. Len(s) - 1 : Tail(s)[i] = s[i + 1] BY <1>1
<1>4. Head(s) = s[1] /\ s[1] \in S BY <1>1
<1>5. DOMAIN Tail(s) = 1 .. Len(s) - 1 BY <1>2
<1>6. \A x \in Range(Tail(s)) : x \in Range(s)
  <2> SUFFICES ASSUME NEW i \in 1 .. Len(s) - 1 PROVE Tail(s)[i] \in Range(s)
      BY <1>5 DEF Range
  <2>1. i + 1 \in 1 .. Len(s) BY <1>1
  <2> QED BY <1>1, <1>3, <2>1 DEF Range
<1>7. \A x \in Range(s) : x = Head(s) \/ x \in Range(Tail(s))
  <2> SUFFICES ASSUME NEW i \in 1 .. Len(s), i # 1 PROVE s[i] \in Range(Tail(s))
      BY <1>1, <1>4 DEF Range
  <2>1. i - 1 \in 1 .. Len(s) - 1 /\ (i - 1) + 1 = i BY <1>1
  <2>2. Tail(s)[i - 1] = s[i] BY <1>3, <2>1
  <2> QED BY <1>5, <2>1, <2>2 DEF Range
<1>8. Head(s) \in Range(s) BY <1>1, <1>4 DEF Range
<1> QED BY <1>2, <1>4, <1>6, <1>7, <1>8

LEMMA RangeOfPrefix ==
    ASSUME NEW S, NEW s \in Seq(S), NEW n \in 0 .. Len(s)
    PROVE  SubSeq(s, 1, n) \in Seq(S) /\ \A x \in Range(SubSeq(s, 1, n)) : x \in Range(s)
<1>1. Len(s) \in Nat /\ DOMAIN s = 1 .. Len(s) OBVIOUS
<1>2. SubSeq(s, 1, n) \in Seq(S) /\ Len(SubSeq(s, 1, n)) = n BY <1>1
<1>3. \A i \in 1 .. n : SubSeq(s, 1, n)[i] = s[i] BY <1>1
<1>4. DOMAIN SubSeq(s, 1, n) = 1 .. n BY <1>2
<1>5. \A i \in 1 .. n : s[i] \in Range(s) BY <1>1 DEF Range
<1> QED BY <1>2, <1>3, <1>4, <1>5 DEF Range

(***************************************************************************)
(* Types                                                                   *)
(***************************************************************************)

DiskTypes ==
    /\ queue \subseteq Requests /\ \A f, g \in queue : f.msg = g.msg => f = g
    /\ \A f \in queue : f.msg \in Text => f.id = 0
    /\ status \in [Text -> {"none", "sending", "sent", "delivered", "erased"}]
    /\ tombstone \subseteq [id : Deletion, pending : BOOLEAN]
    /\ \A t, u \in tombstone : t = u
    /\ used \subseteq Deletion

BookTypes ==
    /\ requests \subseteq Requests /\ syncs \subseteq Nat
    /\ waiting \subseteq Message /\ blocked \subseteq Message
    /\ sync_in_flight \in BOOLEAN /\ connected \in BOOLEAN /\ reconnect_in_flight \in BOOLEAN
    /\ subject \subseteq Message /\ \A m, n \in subject : m = n
    /\ budget \in 0 .. Budget

WireTypes ==
    /\ link \in {"none", "up", "broken"}
    /\ up \in Seq(Frames) /\ Len(up) <= QueueSize
    /\ down \in Seq(Replies)
    /\ asked \in Nat /\ stored \subseteq Message /\ acked \subseteq Text

\* What a handler may have to do, and what is left of it.
Plans == {<<>>, <<"resend", "deletions", "sync">>, <<"deletions", "sync">>, <<"sync">>,
          <<"resend", "deletions">>, <<"deletions">>, <<"resend">>,
          <<"remove", "synced", "sent">>, <<"synced", "sent">>, <<"sent">>}

Types == DiskTypes /\ BookTypes /\ WireTypes /\ todo \in Plans

LEMMA PlansEnd == ASSUME NEW p \in Plans, p # <<>> PROVE Tail(p) \in Plans
<1>1. /\ Tail(<<"resend", "deletions", "sync">>) = <<"deletions", "sync">>
      /\ Tail(<<"deletions", "sync">>) = <<"sync">> /\ Tail(<<"sync">>) = <<>>
      /\ Tail(<<"resend", "deletions">>) = <<"deletions">> /\ Tail(<<"deletions">>) = <<>>
      /\ Tail(<<"resend">>) = <<>>
  OBVIOUS
<1>2. /\ Tail(<<"remove", "synced", "sent">>) = <<"synced", "sent">>
      /\ Tail(<<"synced", "sent">>) = <<"sent">> /\ Tail(<<"sent">>) = <<>>
  OBVIOUS
<1> QED BY <1>1, <1>2 DEF Plans

LEMMA PlansStep == ASSUME Types, [Next]_vars PROVE todo' \in Plans
<1>1. ASSUME todo # <<>>, todo' = Tail(todo) PROVE todo' \in Plans
  BY <1>1, PlansEnd DEF Types
<1>2. ASSUME Resend \/ SendDeletion \/ NobodyToTell \/ NoDeletionSent \/ AskSync \/ RemoveOutbox
             \/ MarkSynced \/ ShowSent
      PROVE  todo' \in Plans
  BY <1>1, <1>2 DEF Resend, SendDeletion, NobodyToTell, NoDeletionSent, AskSync, RemoveOutbox,
                    MarkSynced, ShowSent, Begin, Done, Types
<1>3. ASSUME todo' = todo PROVE todo' \in Plans BY <1>3 DEF Types
<1>4. ASSUME NEW m \in Text, SendText(m) \/ PeerAcks(m) PROVE todo' \in Plans
  BY <1>3, <1>4 DEF SendText, PeerAcks, loop
<1>5. ASSUME Receive PROVE todo' \in Plans
  BY <1>3, <1>5 DEF Receive, HandleAccepted, HandleRefused, HandleBatch, HandleSyncRefused,
                    HandleUpdate, HandleClosed, loop, Plans
<1>6. ASSUME NEW f \in requests, Expire(f) PROVE todo' \in Plans BY <1>3, <1>6 DEF Expire, loop
<1>7. ASSUME NEW id \in syncs, ExpireSync(id) PROVE todo' \in Plans
  BY <1>3, <1>7 DEF ExpireSync, loop
<1>8. ASSUME NEW m \in waiting, Elapse(m) PROVE todo' \in Plans BY <1>3, <1>8 DEF Elapse, loop
<1>9. ASSUME NEW m \in Deletion, DeleteConversation(m) PROVE todo' \in Plans
  BY <1>9 DEF DeleteConversation, Work, Plans
<1>10. ASSUME ServiceStep \/ Retry \/ RequestSync \/ VerifyContact \/ Reconnected \/ Start \/ Crash
       PROVE  todo' \in Plans
  BY <1>10 DEF ServiceStep, Retry, RequestSync, VerifyContact, Reconnected, Start, Crash, Work,
               Plans
<1>11. ASSUME LinkBreaks \/ TryReconnect \/ ReconnectFails \/ ServerAccepts
              \/ ServerSyncs \/ ServerRefusesSync \/ UNCHANGED vars
       PROVE  todo' \in Plans
  BY <1>3, <1>11 DEF LinkBreaks, TryReconnect, ReconnectFails, ServerAccepts, ServerSyncs,
                     ServerRefusesSync, vars, loop
<1>12. ASSUME NEW r \in BOOLEAN, ServerRefuses(r) PROVE todo' \in Plans
  BY <1>3, <1>12 DEF ServerRefuses, loop
<1> QED BY <1>2, <1>4, <1>5, <1>6, <1>7, <1>8, <1>9, <1>10, <1>11, <1>12 DEF Next

LEMMA UpdateStatusTypes ==
    ASSUME DiskTypes, NEW S, NEW new \in {"sent", "delivered"}, UpdateStatus(S, new)
    PROVE  status' \in [Text -> {"none", "sending", "sent", "delivered", "erased"}]
BY DEF DiskTypes, UpdateStatus

LEMMA DiskStep == ASSUME Types, [Next]_vars PROVE DiskTypes'
<1> USE DEF Types
<1>0. DiskTypes OBVIOUS
<1>1. ASSUME UNCHANGED disk PROVE DiskTypes' BY <1>0, <1>1 DEF disk, DiskTypes
<1>2. ASSUME NEW m \in Text, SendText(m) PROVE DiskTypes'
  <2>1. Send(m, 0) \in Requests BY DEF Send, Requests, Message
  <2>2. queue' = queue \cup {Send(m, 0)} /\ Send(m, 0).msg = m /\ Send(m, 0).id = 0
    BY <1>2 DEF SendText, Send
  <2>3. ASSUME NEW f \in queue, f.msg = m PROVE f = Send(m, 0)
    <3>1. f.id = 0 /\ f \in Requests BY <2>3 DEF DiskTypes
    <3> QED BY <2>3, <3>1 DEF Requests, Send
  <2>4. UNCHANGED <<tombstone, used>> BY <1>2 DEF SendText
  <2>5. status' \in [Text -> {"none", "sending", "sent", "delivered", "erased"}]
    BY <1>0, <1>2 DEF SendText, DiskTypes
  <2>6. /\ queue' \subseteq Requests /\ \A f, g \in queue' : f.msg = g.msg => f = g
        /\ \A f \in queue' : f.msg \in Text => f.id = 0
    BY <1>0, <2>1, <2>2, <2>3 DEF DiskTypes
  <2> QED BY <1>0, <2>4, <2>5, <2>6 DEF DiskTypes
<1>3. ASSUME SendDeletion PROVE DiskTypes'
  <2>1. PICK t \in Unsynced : queue' = queue \cup {Send(t.id, asked + 1)}
    BY <1>3 DEF SendDeletion
  <2>2. t \in tombstone /\ ~Queued(t.id) /\ t.id \in Deletion BY <1>0, <2>1 DEF Unsynced, DiskTypes
  <2>3. asked + 1 \in Nat BY DEF WireTypes
  <2>4. PICK f : f = Send(t.id, asked + 1) OBVIOUS
  <2>5. f \in Requests /\ f.msg = t.id /\ f.msg \notin Text
    BY <2>2, <2>3, <2>4, MessageAssumption DEF Send, Requests, Message
  <2>6. \A g \in queue : g.msg # f.msg BY <2>2, <2>5 DEF Queued
  <2>7. UNCHANGED <<status, tombstone, used>> BY <1>3 DEF SendDeletion
  <2>8. /\ queue' \subseteq Requests /\ \A g, h \in queue' : g.msg = h.msg => g = h
        /\ \A g \in queue' : g.msg \in Text => g.id = 0
    BY <1>0, <2>1, <2>4, <2>5, <2>6 DEF DiskTypes
  <2> QED BY <1>0, <2>7, <2>8 DEF DiskTypes
<1>4. ASSUME NobodyToTell PROVE DiskTypes'
  <2>1. PICK t \in tombstone : tombstone' = {[t EXCEPT !.pending = FALSE]}
    BY <1>4 DEF NobodyToTell, Unsynced
  <2>2. [t EXCEPT !.pending = FALSE] \in [id : Deletion, pending : BOOLEAN]
    BY <1>0, <2>1 DEF DiskTypes
  <2>3. UNCHANGED <<queue, status, used>> BY <1>4 DEF NobodyToTell
  <2>4. PICK u : u = [t EXCEPT !.pending = FALSE] OBVIOUS
  <2>5. tombstone' = {u} /\ u \in [id : Deletion, pending : BOOLEAN] BY <2>1, <2>2, <2>4
  <2> QED BY <1>0, <2>3, <2>5 DEF DiskTypes
<1>5. ASSUME RemoveOutbox \/ VerifyContact PROVE DiskTypes'
  <2>1. queue' \subseteq queue /\ tombstone' \subseteq tombstone /\ UNCHANGED <<status, used>>
    BY <1>5 DEF RemoveOutbox, VerifyContact
  <2> QED BY <1>0, <2>1 DEF DiskTypes
<1>6. ASSUME MarkSynced PROVE DiskTypes'
  <2>1. tombstone' = {[t EXCEPT !.pending = @ /\ t.id \notin subject] : t \in tombstone}
    BY <1>6 DEF MarkSynced
  <2>2. ASSUME NEW t \in tombstone
        PROVE  [t EXCEPT !.pending = @ /\ t.id \notin subject]
                   \in [id : Deletion, pending : BOOLEAN]
    <3>1. (t.pending /\ t.id \notin subject) \in BOOLEAN OBVIOUS
    <3>2. t \in [id : Deletion, pending : BOOLEAN] BY <1>0 DEF DiskTypes
    <3> QED BY <3>1, <3>2
  <2>3. tombstone' \subseteq [id : Deletion, pending : BOOLEAN] BY <2>1, <2>2
  <2>4. \A t, u \in tombstone' : t = u BY <1>0, <2>1 DEF DiskTypes
  <2>5. UNCHANGED <<queue, status, used>> BY <1>6 DEF MarkSynced
  <2> QED BY <1>0, <2>3, <2>4, <2>5 DEF DiskTypes
<1>7. ASSUME ShowSent \/ HandleBatch \/ HandleUpdate PROVE DiskTypes'
  <2>1. UNCHANGED <<queue, tombstone, used>> BY <1>7 DEF ShowSent, HandleBatch, HandleUpdate
  <2>2. \E S : \E new \in {"sent", "delivered"} : UpdateStatus(S, new)
    BY <1>7 DEF ShowSent, HandleBatch, HandleUpdate
  <2>3. status' \in [Text -> {"none", "sending", "sent", "delivered", "erased"}]
    BY <1>0, <2>2, UpdateStatusTypes
  <2> QED BY <1>0, <2>1, <2>3 DEF DiskTypes
<1>8. ASSUME NEW m \in Deletion, DeleteConversation(m) PROVE DiskTypes'
  <2>1. queue' \subseteq queue /\ used' = used \cup {m} BY <1>8 DEF DeleteConversation
  <2>2. status' \in [Text -> {"none", "sending", "sent", "delivered", "erased"}]
    BY <1>0, <1>8 DEF DeleteConversation, DiskTypes
  <2>3. tombstone' = tombstone \/ tombstone' = {[id |-> m, pending |-> TRUE]}
    BY <1>8 DEF DeleteConversation
  <2>4. PICK u : u = [id |-> m, pending |-> TRUE] OBVIOUS
  <2>5. u \in [id : Deletion, pending : BOOLEAN] BY <2>4
  <2>6. \A t, v \in tombstone' : t = v BY <1>0, <2>3, <2>4 DEF DiskTypes
  <2>7. tombstone' \subseteq [id : Deletion, pending : BOOLEAN]
    <3>1. tombstone \subseteq [id : Deletion, pending : BOOLEAN] BY <1>0 DEF DiskTypes
    <3>2. tombstone' = tombstone \/ tombstone' = {u} BY <2>3, <2>4
    <3> QED BY <2>5, <3>1, <3>2
  <2> QED BY <1>0, <2>1, <2>2, <2>6, <2>7 DEF DiskTypes
<1>9. ASSUME Resend \/ NoDeletionSent \/ AskSync PROVE DiskTypes'
  BY <1>1, <1>9 DEF Resend, NoDeletionSent, AskSync
<1>10. ASSUME HandleAccepted \/ HandleRefused \/ HandleSyncRefused \/ HandleClosed PROVE DiskTypes'
  BY <1>1, <1>10 DEF HandleAccepted, HandleRefused, HandleSyncRefused, HandleClosed
<1>11. ASSUME NEW f \in requests, Expire(f) PROVE DiskTypes' BY <1>1, <1>11 DEF Expire
<1>12. ASSUME NEW id \in syncs, ExpireSync(id) PROVE DiskTypes' BY <1>1, <1>12 DEF ExpireSync
<1>13. ASSUME NEW m \in waiting, Elapse(m) PROVE DiskTypes' BY <1>1, <1>13 DEF Elapse
<1>14. ASSUME ServiceStep \/ Retry \/ RequestSync \/ LinkBreaks \/ TryReconnect PROVE DiskTypes'
  BY <1>1, <1>14 DEF ServiceStep, Retry, RequestSync, LinkBreaks, TryReconnect
<1>15. ASSUME ReconnectFails \/ Reconnected \/ Start \/ Crash PROVE DiskTypes'
  BY <1>1, <1>15 DEF ReconnectFails, Reconnected, Start, Crash
<1>16. ASSUME ServerAccepts \/ ServerSyncs \/ ServerRefusesSync PROVE DiskTypes'
  BY <1>1, <1>16 DEF ServerAccepts, ServerSyncs, ServerRefusesSync
<1>17. ASSUME NEW r \in BOOLEAN, ServerRefuses(r) PROVE DiskTypes'
  BY <1>1, <1>17 DEF ServerRefuses
<1>18. ASSUME NEW m \in Text, PeerAcks(m) PROVE DiskTypes' BY <1>1, <1>18 DEF PeerAcks
<1>19. ASSUME UNCHANGED vars PROVE DiskTypes' BY <1>1, <1>19 DEF vars
<1> QED
  BY <1>2, <1>3, <1>4, <1>5, <1>6, <1>7, <1>8, <1>9, <1>10, <1>11, <1>12, <1>13, <1>14, <1>15,
     <1>16, <1>17, <1>18, <1>19 DEF Next, Receive

\* What an answer was given for is a request.
LEMMA ReplyTypes ==
    ASSUME NEW d \in Replies
    PROVE  /\ d.kind \in {"accepted", "refused"} => d.of \in Requests
           /\ d.kind \in {"batch", "update"} => d.updates \subseteq Text
BY DEF Replies, Closed

LEMMA RequestTypes ==
    ASSUME NEW f \in Frames
    PROVE  /\ f.kind = "send" => f \in Requests
           /\ f.kind = "sync" => f.id \in Nat
           /\ f.kind \in {"send", "sync"}
BY DEF Frames, Requests

LEMMA FirstReply ==
    ASSUME Types, NEW kind, Arrives(kind)
    PROVE  /\ down # <<>> /\ Head(down) \in Replies /\ Head(down) \in Range(down)
           /\ Head(down).kind = kind /\ down' = Tail(down)
BY RangeOfTail DEF Types, WireTypes, Arrives

LEMMA FirstRequest ==
    ASSUME Types, NEW kind, Serves(kind)
    PROVE  /\ up # <<>> /\ Head(up) \in Frames /\ Head(up) \in Range(up)
           /\ Head(up).kind = kind /\ up' = Tail(up)
BY RangeOfTail DEF Types, WireTypes, Serves

\* What the server may have taken of the requests that were on their way.
LEMMA OvertakenOnTheWay ==
    ASSUME Types, Overtaken
    PROVE  \E S \in SUBSET Message :
              /\ stored' = stored \cup S
              /\ \A m \in S : \E f \in Range(up) : f.kind = "send" /\ f.msg = m
<1>1. PICK S \in SUBSET {up[i].msg : i \in {j \in DOMAIN up : up[j].kind = "send"}} :
          stored' = stored \cup S
  BY DEF Overtaken
<1>2. ASSUME NEW m \in S PROVE \E f \in Range(up) : f.kind = "send" /\ f.msg = m
  <2>1. PICK i \in DOMAIN up : up[i].kind = "send" /\ up[i].msg = m BY <1>1
  <2> QED BY <2>1 DEF Range
<1>3. ASSUME NEW f \in Range(up), f.kind = "send" PROVE f.msg \in Message
  <2>1. f \in Frames BY DEF Types, WireTypes, Range
  <2> QED BY <1>3, <2>1, RequestTypes DEF Requests
<1>4. S \subseteq Message BY <1>2, <1>3
<1> QED BY <1>1, <1>2, <1>4

LEMMA BudgetStep == ASSUME Types, [Next]_vars PROVE budget' \in 0 .. Budget
<1>1. ASSUME NEW f, Spend(f) PROVE budget' \in 0 .. Budget
  BY <1>1, BoundAssumption DEF Spend, Types, BookTypes
<1>2. ASSUME budget' = budget PROVE budget' \in 0 .. Budget BY <1>2 DEF Types, BookTypes
<1>3. ASSUME Resend \/ SendDeletion \/ AskSync \/ RemoveOutbox \/ MarkSynced \/ ShowSent
      PROVE  budget' \in 0 .. Budget
  BY <1>2, <1>3 DEF Resend, SendDeletion, AskSync, RemoveOutbox, MarkSynced, ShowSent
<1>4. ASSUME Receive PROVE budget' \in 0 .. Budget
  BY <1>2, <1>4 DEF Receive, HandleAccepted, HandleRefused, HandleBatch, HandleSyncRefused,
                    HandleUpdate, HandleClosed
<1>5. ASSUME NobodyToTell \/ NoDeletionSent \/ RequestSync \/ LinkBreaks \/ ReconnectFails \/ Crash
             \/ ServerRefusesSync
      PROVE  budget' \in 0 .. Budget
  BY <1>1, <1>2, <1>5 DEF NobodyToTell, NoDeletionSent, RequestSync, LinkBreaks, ReconnectFails,
                          Crash, ServerRefusesSync
<1>6. ASSUME ServiceStep \/ Retry \/ VerifyContact \/ TryReconnect \/ Reconnected \/ Start
             \/ ServerAccepts \/ ServerSyncs \/ UNCHANGED vars
      PROVE  budget' \in 0 .. Budget
  BY <1>2, <1>6 DEF ServiceStep, Retry, VerifyContact, TryReconnect, Reconnected, Start,
                    ServerAccepts, ServerSyncs, vars
<1>7. ASSUME NEW f \in requests, Expire(f) PROVE budget' \in 0 .. Budget
  BY <1>1, <1>2, <1>7 DEF Expire
<1>8. ASSUME NEW id \in syncs, ExpireSync(id) PROVE budget' \in 0 .. Budget
  BY <1>1, <1>2, <1>8 DEF ExpireSync
<1>9. ASSUME NEW m \in waiting, Elapse(m) PROVE budget' \in 0 .. Budget BY <1>2, <1>9 DEF Elapse
<1>10. ASSUME NEW m \in Deletion, DeleteConversation(m) PROVE budget' \in 0 .. Budget
  BY <1>2, <1>10 DEF DeleteConversation
<1>11. ASSUME NEW m \in Text, SendText(m) \/ PeerAcks(m) PROVE budget' \in 0 .. Budget
  BY <1>2, <1>11 DEF SendText, PeerAcks
<1>12. ASSUME NEW r \in BOOLEAN, ServerRefuses(r) PROVE budget' \in 0 .. Budget
  BY <1>1, <1>12 DEF ServerRefuses
<1> QED
  BY <1>3, <1>4, <1>5, <1>6, <1>7, <1>8, <1>9, <1>10, <1>11, <1>12 DEF Next

BookTypesButBudget ==
    /\ requests \subseteq Requests /\ syncs \subseteq Nat
    /\ waiting \subseteq Message /\ blocked \subseteq Message
    /\ sync_in_flight \in BOOLEAN /\ connected \in BOOLEAN /\ reconnect_in_flight \in BOOLEAN
    /\ subject \subseteq Message /\ \A m, n \in subject : m = n

LEMMA BookStep == ASSUME Types, [Next]_vars PROVE BookTypes'
<1> SUFFICES BookTypesButBudget' BY BudgetStep DEF BookTypes, BookTypesButBudget
<1>0. BookTypesButBudget BY DEF Types, BookTypes, BookTypesButBudget
<1>1. ASSUME UNCHANGED <<books, connected, reconnect_in_flight>>, subject' \in {{}, subject}
      PROVE  BookTypesButBudget'
  BY <1>0, <1>1 DEF books, BookTypesButBudget
<1>2. ASSUME NEW f \in Requests, requests' \in {requests, requests \cup {f}},
             connected' \in {connected, FALSE},
             UNCHANGED <<syncs, waiting, blocked, sync_in_flight, reconnect_in_flight, subject>>
      PROVE  BookTypesButBudget'
  BY <1>0, <1>2 DEF BookTypesButBudget
<1>3. ASSUME NEW m \in Text, SendText(m) PROVE BookTypesButBudget'
  <2>1. Send(m, 0) \in Requests BY DEF Send, Requests, Message
  <2> QED BY <1>2, <1>3, <2>1 DEF SendText, Dispatch
<1>4. ASSUME Resend PROVE BookTypesButBudget'
  <2>1. CASE UNCHANGED requests BY <1>1, <1>4, <2>1 DEF Resend, books
  <2>2. CASE \E f \in Eligible : Dispatch(f)
    <3>1. PICK f \in queue : requests' = requests \cup {f} BY <2>2 DEF Eligible, Dispatch
    <3>2. f \in Requests BY DEF Types, DiskTypes
    <3> QED BY <1>2, <1>4, <3>1, <3>2 DEF Resend
  <2> QED BY <1>4, <2>1, <2>2 DEF Resend
<1>5. ASSUME SendDeletion PROVE BookTypesButBudget'
  <2>1. PICK t \in tombstone :
            Dispatch(Send(t.id, asked + 1)) \/ UNCHANGED requests
    BY <1>5 DEF SendDeletion, Unsynced
  <2>2. Send(t.id, asked + 1) \in Requests
    BY <2>1 DEF Types, DiskTypes, WireTypes, Send, Requests, Message
  <2> QED BY <1>2, <1>5, <2>1, <2>2 DEF SendDeletion, Dispatch
<1>6. ASSUME NobodyToTell \/ NoDeletionSent \/ RemoveOutbox \/ MarkSynced \/ ShowSent
      PROVE  BookTypesButBudget'
  BY <1>1, <1>6 DEF NobodyToTell, NoDeletionSent, RemoveOutbox, MarkSynced, ShowSent
<1>7. ASSUME AskSync PROVE BookTypesButBudget'
  <2>1. /\ syncs' \in {syncs, syncs \cup {asked + 1}} /\ sync_in_flight' \in {sync_in_flight, TRUE}
        /\ UNCHANGED <<requests, waiting, blocked, connected, reconnect_in_flight, subject>>
    BY <1>7 DEF AskSync
  <2>2. asked + 1 \in Nat BY DEF Types, WireTypes
  <2> QED BY <1>0, <2>1, <2>2 DEF BookTypesButBudget
<1>8. ASSUME HandleAccepted PROVE BookTypesButBudget'
  <2>1. Head(down) \in Replies /\ Head(down).kind = "accepted"
    BY <1>8, FirstReply DEF HandleAccepted
  <2>2. Head(down).of.msg \in Message BY <2>1, ReplyTypes DEF Requests
  <2>3. requests' \subseteq requests /\ blocked' \subseteq blocked /\ waiting' \subseteq waiting
    BY <1>8 DEF HandleAccepted, Answered
  <2>4. subject' = {Head(down).of.msg}
    BY <1>8 DEF HandleAccepted
  <2>5. UNCHANGED <<syncs, sync_in_flight, connected, reconnect_in_flight>>
    BY <1>8 DEF HandleAccepted
  <2> QED BY <1>0, <2>2, <2>3, <2>4, <2>5 DEF BookTypesButBudget
<1>9. ASSUME HandleRefused PROVE BookTypesButBudget'
  <2>1. Head(down) \in Replies /\ Head(down).kind = "refused"
    BY <1>9, FirstReply DEF HandleRefused
  <2>2. Head(down).of.msg \in Message BY <2>1, ReplyTypes DEF Requests
  <2>3. /\ requests' \subseteq requests
        /\ blocked' \subseteq blocked \cup {Head(down).of.msg}
        /\ waiting' \subseteq waiting \cup {Head(down).of.msg}
    BY <1>9 DEF HandleRefused, Answered
  <2>4. UNCHANGED <<syncs, sync_in_flight, connected, reconnect_in_flight, subject>>
    BY <1>9 DEF HandleRefused, loop
  <2> QED BY <1>0, <2>2, <2>3, <2>4 DEF BookTypesButBudget
<1>10. ASSUME HandleBatch \/ HandleSyncRefused \/ HandleClosed PROVE BookTypesButBudget'
  <2>1. /\ requests' \subseteq requests /\ syncs' \subseteq syncs
        /\ sync_in_flight' \in BOOLEAN /\ connected' \in {connected, FALSE}
        /\ UNCHANGED <<waiting, blocked, reconnect_in_flight, subject>>
    BY <1>10 DEF HandleBatch, HandleSyncRefused, HandleClosed, loop
  <2> QED BY <1>0, <2>1 DEF BookTypesButBudget
<1>11. ASSUME NEW f \in requests, Expire(f) PROVE BookTypesButBudget'
  <2>1. f.msg \in Message BY <1>0 DEF BookTypesButBudget, Requests
  <2>2. /\ requests' \subseteq requests /\ waiting' = waiting \cup {f.msg}
        /\ UNCHANGED <<syncs, blocked, sync_in_flight, connected, reconnect_in_flight, subject>>
    BY <1>11 DEF Expire, Answered, loop
  <2> QED BY <1>0, <2>1, <2>2 DEF BookTypesButBudget
<1>12. ASSUME NEW id \in syncs, ExpireSync(id) PROVE BookTypesButBudget'
  BY <1>0, <1>12 DEF ExpireSync, loop, BookTypesButBudget
<1>13. ASSUME NEW m \in waiting, Elapse(m) PROVE BookTypesButBudget'
  BY <1>0, <1>13 DEF Elapse, loop, BookTypesButBudget
<1>14. ASSUME Retry PROVE BookTypesButBudget'
  BY <1>0, <1>14 DEF Retry, Work, BookTypesButBudget
<1>15. ASSUME ServiceStep \/ RequestSync \/ (\E m \in Deletion : DeleteConversation(m))
       PROVE  BookTypesButBudget'
  BY <1>1, <1>15 DEF ServiceStep, RequestSync, DeleteConversation, Work
<1>16. ASSUME TryReconnect \/ ReconnectFails \/ Reconnected \/ Start \/ Crash
       PROVE  BookTypesButBudget'
  <2>1. CASE TryReconnect \/ ReconnectFails
    <3>1. UNCHANGED <<books, connected, subject>> /\ reconnect_in_flight' \in BOOLEAN
      BY <2>1 DEF TryReconnect, ReconnectFails
    <3> QED BY <1>0, <3>1 DEF books, BookTypesButBudget
  <2>2. CASE Reconnected \/ Start
    <3>1. /\ UNCHANGED <<books, subject>> /\ connected' = TRUE
          /\ reconnect_in_flight' \in {FALSE, reconnect_in_flight}
      BY <2>2 DEF Reconnected, Start, Work
    <3> QED BY <1>0, <3>1 DEF books, BookTypesButBudget
  <2>3. CASE Crash BY <1>0, <2>3 DEF Crash, BookTypesButBudget
  <2> QED BY <1>16, <2>1, <2>2, <2>3
<1>17. ASSUME HandleUpdate \/ VerifyContact \/ LinkBreaks PROVE BookTypesButBudget'
  BY <1>1, <1>17 DEF HandleUpdate, VerifyContact, LinkBreaks, Work, loop
<1>18. ASSUME ServerAccepts \/ ServerSyncs \/ ServerRefusesSync
              \/ (\E r \in BOOLEAN : ServerRefuses(r)) \/ (\E m \in Text : PeerAcks(m))
       PROVE  BookTypesButBudget'
  BY <1>1, <1>18 DEF ServerAccepts, ServerSyncs, ServerRefusesSync, ServerRefuses, PeerAcks, loop
<1>19. ASSUME UNCHANGED vars PROVE BookTypesButBudget' BY <1>1, <1>19 DEF vars, loop
<1> QED
  BY <1>3, <1>4, <1>5, <1>6, <1>7, <1>8, <1>9, <1>10, <1>11, <1>12, <1>13, <1>14, <1>15, <1>16,
     <1>17, <1>18, <1>19 DEF Next, Receive

LEMMA FramesOut ==
    ASSUME Types, NEW f \in Frames, Enqueue(f)
    PROVE  up' \in Seq(Frames) /\ Len(up') <= QueueSize
<1>1. up \in Seq(Frames) /\ Len(up) \in Nat /\ Len(up) <= QueueSize /\ QueueSize \in Nat
  BY BoundAssumption DEF Types, WireTypes
<1>2. CASE up' = Append(up, f) /\ Len(up) < QueueSize
  <2>1. Append(up, f) \in Seq(Frames) BY <1>1
  <2>2. Len(Append(up, f)) = Len(up) + 1 BY <1>1
  <2> QED BY <1>1, <1>2, <2>1, <2>2
<1> QED BY <1>1, <1>2 DEF Enqueue

LEMMA WireStep == ASSUME Types, [Next]_vars PROVE WireTypes'
<1>0. WireTypes /\ up \in Seq(Frames) /\ down \in Seq(Replies) /\ Len(up) \in Nat
  BY DEF Types, WireTypes
<1>1. ASSUME UNCHANGED <<wire, server>> PROVE WireTypes'
  BY <1>0, <1>1 DEF wire, server, WireTypes
<1>2. ASSUME NEW f \in Frames, Enqueue(f) \/ UNCHANGED up, asked' \in {asked, asked + 1},
             UNCHANGED <<link, down, server>>
      PROVE  WireTypes'
  <2>1. up' \in Seq(Frames) /\ Len(up') <= QueueSize BY <1>0, <1>2, FramesOut DEF WireTypes
  <2>2. asked' \in Nat BY <1>0, <1>2 DEF WireTypes
  <2> QED BY <1>0, <1>2, <2>1, <2>2 DEF WireTypes, server
<1>3. ASSUME NEW m \in Message, NEW id \in Nat PROVE Send(m, id) \in Frames /\ Sync(id) \in Frames
  BY DEF Send, Sync, Frames, Requests
<1>4. asked + 1 \in Nat BY <1>0 DEF WireTypes
<1>5. ASSUME NEW m \in Text, SendText(m) PROVE WireTypes'
  <2>1. Enqueue(Send(m, 0)) \/ UNCHANGED up BY <1>5 DEF SendText, Dispatch
  <2>2. asked' = asked /\ UNCHANGED <<link, down, server>> BY <1>5 DEF SendText
  <2>3. Send(m, 0) \in Frames BY <1>3 DEF Message
  <2> QED BY <1>2, <2>1, <2>2, <2>3
<1>6. ASSUME Resend PROVE WireTypes'
  <2>1. CASE UNCHANGED up BY <1>0, <1>6, <2>1 DEF Resend, WireTypes, server
  <2>2. CASE \E f \in Eligible : Dispatch(f)
    <3>1. PICK f \in queue : Enqueue(f) BY <2>2 DEF Eligible, Dispatch
    <3>2. f \in Frames BY DEF Types, DiskTypes, Frames
    <3>3. asked' = asked /\ UNCHANGED <<link, down, server>> BY <1>6 DEF Resend
    <3> QED BY <1>2, <3>1, <3>2, <3>3
  <2> QED BY <1>6, <2>1, <2>2 DEF Resend
<1>7. ASSUME SendDeletion PROVE WireTypes'
  <2>1. PICK t \in tombstone : Enqueue(Send(t.id, asked + 1)) \/ UNCHANGED up
    BY <1>7 DEF SendDeletion, Unsynced, Dispatch
  <2>2. Send(t.id, asked + 1) \in Frames
    BY <1>3, <1>4, <2>1 DEF Types, DiskTypes, Message
  <2>3. asked' = asked + 1 /\ UNCHANGED <<link, down, server>> BY <1>7 DEF SendDeletion
  <2> QED BY <1>2, <2>1, <2>2, <2>3
<1>8. ASSUME AskSync PROVE WireTypes'
  <2>1. Enqueue(Sync(asked + 1)) \/ UNCHANGED up BY <1>8 DEF AskSync
  <2>2. asked' \in {asked, asked + 1} /\ UNCHANGED <<link, down, server>> BY <1>8 DEF AskSync
  <2>3. Sync(asked + 1) \in Frames BY <1>4 DEF Sync, Frames
  <2> QED BY <1>2, <2>1, <2>2, <2>3
<1>9. ASSUME NobodyToTell \/ NoDeletionSent \/ RemoveOutbox \/ MarkSynced \/ ShowSent
      PROVE  WireTypes'
  BY <1>1, <1>9 DEF NobodyToTell, NoDeletionSent, RemoveOutbox, MarkSynced, ShowSent
<1>10. ASSUME NEW kind, Arrives(kind), UNCHANGED <<link, up, asked, server>> PROVE WireTypes'
  <2>1. down' \in Seq(Replies) BY <1>0, <1>10, FirstReply, RangeOfTail
  <2> QED BY <1>0, <1>10, <2>1 DEF WireTypes, server
<1>11. ASSUME Receive PROVE WireTypes'
  <2>1. \E kind : Arrives(kind)
    BY <1>11 DEF Receive, HandleAccepted, HandleRefused, HandleBatch, HandleSyncRefused,
                 HandleUpdate, HandleClosed
  <2>2. UNCHANGED <<link, up, asked, server>>
    BY <1>11 DEF Receive, HandleAccepted, HandleRefused, HandleBatch, HandleSyncRefused,
                 HandleUpdate, HandleClosed
  <2> QED BY <1>10, <2>1, <2>2
<1>12. ASSUME \/ \E f \in requests : Expire(f)
              \/ \E id \in syncs : ExpireSync(id)
              \/ \E m \in waiting : Elapse(m)
              \/ \E m \in Deletion : DeleteConversation(m)
       PROVE  WireTypes'
  BY <1>1, <1>12 DEF Expire, ExpireSync, Elapse, DeleteConversation
<1>13. ASSUME ServiceStep \/ Retry \/ RequestSync \/ VerifyContact \/ TryReconnect
              \/ ReconnectFails \/ UNCHANGED vars
       PROVE  WireTypes'
  BY <1>1, <1>13 DEF ServiceStep, Retry, RequestSync, VerifyContact, TryReconnect, ReconnectFails,
                     vars
<1>14. ASSUME Overtaken PROVE stored' \subseteq Message
  BY <1>0, <1>14, OvertakenOnTheWay DEF WireTypes
<1>15. /\ <<>> \in Seq(Frames) /\ <<>> \in Seq(Replies) /\ Len(<<>>) = 0
       /\ QueueSize \in Nat
  BY BoundAssumption
<1>16. ASSUME LinkBreaks PROVE WireTypes'
  <2>1. PICK n \in 0 .. Len(down) : down' = Append(SubSeq(down, 1, n), Closed)
    BY <1>16 DEF LinkBreaks
  <2>2. SubSeq(down, 1, n) \in Seq(Replies) BY <1>0, <2>1, RangeOfPrefix
  <2>3. Closed \in Replies BY DEF Replies
  <2>4. down' \in Seq(Replies) BY <2>1, <2>2, <2>3, RangeOfAppend
  <2>5. link' = "broken" /\ up' = <<>> /\ UNCHANGED <<asked, acked>> /\ Overtaken
    BY <1>16 DEF LinkBreaks
  <2>6. up' \in Seq(Frames) /\ Len(up') <= QueueSize BY <1>15, <2>5
  <2> QED BY <1>0, <1>14, <2>4, <2>5, <2>6 DEF WireTypes
<1>17. ASSUME Reconnected \/ Crash \/ Start PROVE WireTypes'
  <2>1. /\ link' \in {"up", "none"} /\ up' = <<>> /\ down' = <<>>
        /\ UNCHANGED <<asked, acked>> /\ (Overtaken \/ UNCHANGED stored)
    BY <1>17 DEF Reconnected, Crash, Start, NewTransport, server
  <2>2. stored' \subseteq Message BY <1>0, <1>14, <2>1 DEF WireTypes
  <2>3. up' \in Seq(Frames) /\ Len(up') <= QueueSize /\ down' \in Seq(Replies) BY <1>15, <2>1
  <2> QED BY <1>0, <2>1, <2>2, <2>3 DEF WireTypes
<1>18. ASSUME NEW kind, Serves(kind), NEW d \in Replies, Answers(d),
              stored' \subseteq Message, UNCHANGED <<link, asked, acked>>
       PROVE  WireTypes'
  <2>1. up # <<>> /\ up' = Tail(up) BY <1>18, FirstRequest
  <2>2. up' \in Seq(Frames) /\ Len(up') = Len(up) - 1 BY <1>0, <2>1
  <2>3. Len(up') <= QueueSize BY <1>0, <1>15, <2>2 DEF WireTypes
  <2>4. down' \in Seq(Replies) BY <1>0, <1>18, RangeOfAppend DEF Answers
  <2> QED BY <1>0, <1>18, <2>2, <2>3, <2>4 DEF WireTypes
<1>19. ASSUME ServerAccepts PROVE WireTypes'
  <2>1. Serves("send") /\ Head(up) \in Requests
    BY <1>19, FirstRequest, RequestTypes DEF ServerAccepts
  <2>2. [kind |-> "accepted", of |-> Head(up)] \in Replies BY <2>1 DEF Replies
  <2>3. stored' \subseteq Message BY <1>0, <1>19, <2>1 DEF ServerAccepts, Requests, WireTypes
  <2> QED BY <1>18, <1>19, <2>1, <2>2, <2>3 DEF ServerAccepts
<1>20. ASSUME NEW r \in BOOLEAN, ServerRefuses(r) PROVE WireTypes'
  <2>1. Serves("send") /\ Head(up) \in Requests
    BY <1>20, FirstRequest, RequestTypes DEF ServerRefuses
  <2>2. [kind |-> "refused", of |-> Head(up), retryable |-> r] \in Replies BY <2>1 DEF Replies
  <2>3. stored' \subseteq Message /\ UNCHANGED acked
    BY <1>0, <1>20 DEF ServerRefuses, server, WireTypes
  <2> QED BY <1>18, <1>20, <2>1, <2>2, <2>3 DEF ServerRefuses
<1>21. ASSUME ServerSyncs PROVE WireTypes'
  <2>1. Serves("sync") /\ Head(up).id \in Nat BY <1>21, FirstRequest, RequestTypes DEF ServerSyncs
  <2>2. [kind |-> "batch", id |-> Head(up).id, updates |-> acked] \in Replies
    BY <1>0, <2>1 DEF Replies, WireTypes
  <2>3. stored' \subseteq Message /\ UNCHANGED acked
    BY <1>0, <1>21 DEF ServerSyncs, server, WireTypes
  <2> QED BY <1>18, <1>21, <2>1, <2>2, <2>3 DEF ServerSyncs
<1>22. ASSUME ServerRefusesSync PROVE WireTypes'
  <2>1. Serves("sync") /\ Head(up).id \in Nat
    BY <1>22, FirstRequest, RequestTypes DEF ServerRefusesSync
  <2>2. [kind |-> "unsynced", id |-> Head(up).id] \in Replies BY <2>1 DEF Replies
  <2>3. stored' \subseteq Message /\ UNCHANGED acked
    BY <1>0, <1>22 DEF ServerRefusesSync, server, WireTypes
  <2> QED BY <1>18, <1>22, <2>1, <2>2, <2>3 DEF ServerRefusesSync
<1>23. ASSUME NEW m \in Text, PeerAcks(m) PROVE WireTypes'
  <2>1. [kind |-> "update", updates |-> {m}] \in Replies BY DEF Replies
  <2>2. down' \in Seq(Replies)
    <3>1. PICK d \in Replies : d = [kind |-> "update", updates |-> {m}] BY <2>1
    <3>2. Append(down, d) \in Seq(Replies) BY <1>0, <3>1
    <3> QED BY <1>0, <1>23, <3>1, <3>2 DEF PeerAcks, Answers
  <2>3. acked' = acked \cup {m} /\ UNCHANGED <<link, up, asked, stored>> BY <1>23 DEF PeerAcks
  <2> QED BY <1>0, <2>2, <2>3 DEF WireTypes
<1> QED
  BY <1>5, <1>6, <1>7, <1>8, <1>9, <1>11, <1>12, <1>13, <1>16, <1>17, <1>19, <1>20, <1>21, <1>22,
     <1>23 DEF Next

LEMMA TypesStep == ASSUME Types, [Next]_vars PROVE Types'
BY DiskStep, BookStep, WireStep, PlansStep DEF Types

LEMMA TypesStart == ASSUME Init PROVE Types
<1>1. \A f, g \in queue : f.msg = g.msg => f = g BY DEF Init
<1>2. DiskTypes BY <1>1 DEF Init, DiskTypes
<1>3. BookTypes
  <2>1. budget \in 0 .. Budget BY BoundAssumption DEF Init
  <2>2. subject = {} /\ requests = {} /\ syncs = {} /\ waiting = {} /\ blocked = {} BY DEF Init
  <2>3. sync_in_flight = FALSE /\ connected = FALSE /\ reconnect_in_flight = FALSE BY DEF Init
  <2> QED BY <2>1, <2>2, <2>3 DEF BookTypes
<1>4. WireTypes
  <2>1. up = <<>> /\ down = <<>> BY DEF Init
  <2>2. up \in Seq(Frames) /\ down \in Seq(Replies) /\ Len(up) = 0 BY <2>1
  <2>3. Len(up) <= QueueSize BY <2>2, BoundAssumption
  <2> QED BY <2>2, <2>3 DEF Init, WireTypes
<1>5. todo \in Plans BY DEF Init, Plans
<1> QED BY <1>2, <1>3, <1>4, <1>5 DEF Types

LEMMA TypesAlways == Spec => []Types
<1>1. Init => Types BY TypesStart
<1>2. Types /\ [Next]_vars => Types' BY TypesStep
<1> QED BY <1>1, <1>2, PTL DEF Spec

LEMMA PlansOfSteps == ASSUME NEW p \in Plans PROVE \A i \in DOMAIN p : p[i] \in Steps
<1>1. CASE p = <<>> BY <1>1
<1>2. CASE p = <<"resend", "deletions", "sync">> BY <1>2 DEF Steps
<1>3. CASE p = <<"deletions", "sync">> BY <1>3 DEF Steps
<1>4. CASE p = <<"sync">> \/ p = <<"deletions">>
  <2>1. CASE p = <<"sync">> BY <2>1 DEF Steps
  <2>2. CASE p = <<"deletions">> BY <2>2 DEF Steps
  <2> QED BY <1>4, <2>1, <2>2
<1>8. CASE p = <<"resend">> BY <1>8 DEF Steps
<1>9. CASE p = <<"sent">> BY <1>9 DEF Steps
<1>5. CASE p = <<"resend", "deletions">> BY <1>5 DEF Steps
<1>6. CASE p = <<"remove", "synced", "sent">> BY <1>6 DEF Steps
<1>7. CASE p = <<"synced", "sent">> BY <1>7 DEF Steps
<1> QED BY <1>1, <1>2, <1>3, <1>4, <1>5, <1>6, <1>7, <1>8, <1>9 DEF Plans

\* The client's tables, its books and the frames on their way always have their
\* types: no message has two requests in the outbox, no conversation two
\* tombstones, and the channel to the writer task never holds more than it may
\* (commit_outgoing, dispatch_background, try_send_frame).
THEOREM OutboxTypeCorrect == Spec => []OutboxTypeOK
<1>1. ASSUME Types PROVE OutboxTypeOK
  <2> USE <1>1 DEF Types
  <2>1. status \in [Text -> DOMAIN Rank] BY DEF DiskTypes, Rank
  <2>2. /\ queue \subseteq Requests /\ \A f, g \in queue : f.msg = g.msg => f = g
        /\ tombstone \subseteq [id : Deletion, pending : BOOLEAN]
        /\ (\A t, u \in tombstone : t = u) /\ used \subseteq Deletion
    BY DEF DiskTypes
  <2>3. /\ requests \subseteq Requests /\ syncs \subseteq Nat
        /\ waiting \subseteq Message /\ blocked \subseteq Message
        /\ sync_in_flight \in BOOLEAN /\ connected \in BOOLEAN /\ reconnect_in_flight \in BOOLEAN
        /\ subject \subseteq Message /\ budget \in 0 .. Budget
    BY DEF BookTypes
  <2>4. \A i \in DOMAIN todo : todo[i] \in Steps BY PlansOfSteps
  <2>5. up \in Seq(Frames) /\ down \in Seq(Replies) BY DEF WireTypes
  <2>6. (\A i \in DOMAIN up : up[i] \in Frames) /\ (\A i \in DOMAIN down : down[i] \in Replies)
    BY <2>5
  <2>7. /\ link \in {"none", "up", "broken"} /\ Len(up) <= QueueSize
        /\ asked \in Nat /\ stored \subseteq Message /\ acked \subseteq Text
    BY DEF WireTypes
  <2> QED BY <2>1, <2>2, <2>3, <2>4, <2>6, <2>7 DEF OutboxTypeOK
<1>2. Types => OutboxTypeOK BY <1>1
<1> QED BY <1>2, TypesAlways, PTL

(***************************************************************************)
(* What is written, what the server has, and what is said about it         *)
(***************************************************************************)

\* A request for a text carries the id of the text, and the text was written.
Genuine(f, s) == f.msg \in Text => f.id = 0 /\ s[f.msg] # "none"

\* An answer: the server has the message it accepted, the peer the ones it reports.
Told(d, s, S, A) ==
    /\ d.kind \in {"accepted", "refused"} => Genuine(d.of, s)
    /\ d.kind = "accepted" => d.of.msg \in S
    /\ d.kind \in {"batch", "update"} => d.updates \subseteq A

Sends(u) == {f \in Range(u) : f.kind = "send"}

Real == \A f \in queue \cup requests \cup Sends(up) : Genuine(f, status)
Truthful == \A d \in Range(down) : Told(d, status, stored, acked)
Settled ==
    /\ \A m \in (blocked \cup waiting) \cap Text : status[m] # "none"
    /\ subject \subseteq stored /\ acked \subseteq stored
    /\ \A m \in stored \cap Text : status[m] # "none"

Consistent == Real /\ Truthful /\ Settled

\* Nothing becomes unwritten, and the server forgets nothing.
Kept(old, new) == \A m \in Text : old[m] # "none" => new[m] # "none"

LEMMA Grows ==
    ASSUME Types, [Next]_vars
    PROVE  /\ Kept(status, status')
           /\ stored \subseteq stored' /\ acked \subseteq acked'
<1>0. status \in [Text -> {"none", "sending", "sent", "delivered", "erased"}]
  BY DEF Types, DiskTypes
<1>1. Kept(status, status')
  <2> USE DEF Kept
  <2>1. ASSUME UNCHANGED status PROVE Kept(status, status') BY <2>1
  <2>2. ASSUME NEW m \in Text, SendText(m) PROVE Kept(status, status')
    BY <1>0, <2>2 DEF SendText
  <2>3. ASSUME NEW S, NEW new \in {"sent", "delivered"}, UpdateStatus(S, new)
        PROVE  Kept(status, status')
    BY <1>0, <2>3 DEF UpdateStatus
  <2>4. ASSUME ShowSent \/ HandleBatch \/ HandleUpdate PROVE Kept(status, status')
    BY <2>3, <2>4 DEF ShowSent, HandleBatch, HandleUpdate
  <2>5. ASSUME NEW m \in Deletion, DeleteConversation(m) PROVE Kept(status, status')
    BY <1>0, <2>5 DEF DeleteConversation
  <2>6. ASSUME UNCHANGED disk PROVE UNCHANGED status BY <2>6 DEF disk
  <2>7. ASSUME Resend \/ SendDeletion \/ NobodyToTell \/ NoDeletionSent \/ AskSync \/ RemoveOutbox
               \/ MarkSynced
        PROVE UNCHANGED status
    BY <2>6, <2>7 DEF Resend, SendDeletion, NobodyToTell, NoDeletionSent, AskSync, RemoveOutbox,
                      MarkSynced
  <2>8. ASSUME HandleAccepted \/ HandleRefused \/ HandleSyncRefused \/ HandleClosed
        PROVE UNCHANGED status
    BY <2>6, <2>8 DEF HandleAccepted, HandleRefused, HandleSyncRefused, HandleClosed
  <2>9. ASSUME \/ \E f \in requests : Expire(f)
               \/ \E id \in syncs : ExpireSync(id)
               \/ \E m \in waiting : Elapse(m)
               \/ \E r \in BOOLEAN : ServerRefuses(r)
               \/ \E m \in Text : PeerAcks(m)
        PROVE  UNCHANGED status
    BY <2>6, <2>9 DEF Expire, ExpireSync, Elapse, ServerRefuses, PeerAcks
  <2>10. ASSUME ServiceStep \/ Retry \/ RequestSync \/ VerifyContact \/ LinkBreaks \/ TryReconnect
                \/ ReconnectFails \/ UNCHANGED vars
         PROVE  UNCHANGED status
    BY <2>6, <2>10 DEF ServiceStep, Retry, RequestSync, VerifyContact, LinkBreaks, TryReconnect,
                       ReconnectFails, vars
  <2>11. ASSUME Reconnected \/ Start \/ Crash \/ ServerAccepts \/ ServerSyncs \/ ServerRefusesSync
         PROVE  UNCHANGED status
    BY <2>6, <2>11 DEF Reconnected, Start, Crash, ServerAccepts, ServerSyncs, ServerRefusesSync
  <2> QED
    BY <2>1, <2>2, <2>4, <2>5, <2>7, <2>8, <2>9, <2>10, <2>11 DEF Next, Receive
<1>2. stored \subseteq stored' /\ acked \subseteq acked'
  <2>1. ASSUME UNCHANGED server PROVE stored \subseteq stored' /\ acked \subseteq acked'
    BY <2>1 DEF server
  <2>2. ASSUME Overtaken, UNCHANGED acked PROVE stored \subseteq stored' /\ acked \subseteq acked'
    BY <2>2 DEF Overtaken
  <2>3. ASSUME NEW m \in Text, SendText(m) PROVE stored \subseteq stored' /\ acked \subseteq acked'
    BY <2>1, <2>3 DEF SendText
  <2>4. ASSUME Resend \/ SendDeletion \/ NobodyToTell \/ NoDeletionSent \/ AskSync \/ RemoveOutbox
               \/ MarkSynced \/ ShowSent
        PROVE stored \subseteq stored' /\ acked \subseteq acked'
    BY <2>1, <2>4 DEF Resend, SendDeletion, NobodyToTell, NoDeletionSent, AskSync, RemoveOutbox,
                      MarkSynced, ShowSent
  <2>5. ASSUME Receive PROVE stored \subseteq stored' /\ acked \subseteq acked'
    BY <2>1, <2>5 DEF Receive, HandleAccepted, HandleRefused, HandleBatch, HandleSyncRefused,
                      HandleUpdate, HandleClosed
  <2>6. ASSUME \/ \E f \in requests : Expire(f)
               \/ \E id \in syncs : ExpireSync(id)
               \/ \E m \in waiting : Elapse(m)
               \/ \E r \in BOOLEAN : ServerRefuses(r)
               \/ \E m \in Deletion : DeleteConversation(m)
        PROVE  stored \subseteq stored' /\ acked \subseteq acked'
    BY <2>1, <2>6 DEF Expire, ExpireSync, Elapse, ServerRefuses, DeleteConversation
  <2>7. ASSUME ServiceStep \/ Retry \/ RequestSync \/ VerifyContact \/ TryReconnect
               \/ ReconnectFails \/ Start \/ ServerSyncs \/ ServerRefusesSync \/ UNCHANGED vars
        PROVE  stored \subseteq stored' /\ acked \subseteq acked'
    BY <2>1, <2>7 DEF ServiceStep, Retry, RequestSync, VerifyContact, TryReconnect,
                      ReconnectFails, Start, ServerSyncs, ServerRefusesSync, vars
  <2>8. ASSUME LinkBreaks \/ Reconnected \/ Crash
        PROVE  stored \subseteq stored' /\ acked \subseteq acked'
    BY <2>2, <2>8 DEF LinkBreaks, Reconnected, Crash
  <2>9. ASSUME ServerAccepts \/ (\E m \in Text : PeerAcks(m))
        PROVE  stored \subseteq stored' /\ acked \subseteq acked'
    BY <2>9 DEF ServerAccepts, PeerAcks
  <2> QED BY <2>3, <2>4, <2>5, <2>6, <2>7, <2>8, <2>9 DEF Next
<1> QED BY <1>1, <1>2

LEMMA StillGenuine ==
    ASSUME NEW f \in Requests, NEW s, NEW t, Kept(s, t), Genuine(f, s)
    PROVE  Genuine(f, t)
BY DEF Kept, Genuine, Requests

LEMMA SendsOf ==
    ASSUME Types, NEW f \in Frames, Enqueue(f)
    PROVE  Sends(up') \subseteq Sends(up) \cup {f}
<1>1. up \in Seq(Frames) BY DEF Types, WireTypes
<1>2. up' = up \/ up' = Append(up, f) BY DEF Enqueue
<1>3. \A x \in Range(Append(up, f)) : x \in Range(up) \/ x = f BY <1>1, RangeOfAppend
<1> QED BY <1>2, <1>3 DEF Sends

LEMMA SendsAreRequests == ASSUME Types PROVE Sends(up) \subseteq Requests
<1>1. up \in Seq(Frames) BY DEF Types, WireTypes
<1>2. Range(up) \subseteq Frames BY <1>1 DEF Range
<1> QED BY <1>2, RequestTypes DEF Sends

LEMMA RealCarried ==
    ASSUME Types, Real, [Next]_vars, NEW f, Genuine(f, status'),
           queue' \cup requests' \cup Sends(up')
               \subseteq queue \cup requests \cup Sends(up) \cup {f}
    PROVE  Real'
<1>1. queue \cup requests \cup Sends(up) \subseteq Requests
  BY SendsAreRequests DEF Types, DiskTypes, BookTypes
<1>2. \A g \in queue \cup requests \cup Sends(up) : Genuine(g, status')
  BY <1>1, Grows, StillGenuine DEF Real
<1> QED BY <1>2 DEF Real

LEMMA RealStep == ASSUME Types, Consistent, [Next]_vars PROVE Real'
<1>0. Real BY DEF Consistent
<1>1. ASSUME queue' \cup requests' \cup Sends(up') \subseteq queue \cup requests \cup Sends(up)
      PROVE  Real'
  <2>1. queue \cup requests \cup Sends(up) \subseteq Requests
    BY SendsAreRequests DEF Types, DiskTypes, BookTypes
  <2>2. \A g \in queue \cup requests \cup Sends(up) : Genuine(g, status')
    BY <1>0, <2>1, Grows, StillGenuine DEF Real
  <2> QED BY <1>1, <2>2 DEF Real
<1>2. ASSUME NEW f \in Frames, NEW R \in {requests, requests \cup {f}},
             queue' \subseteq queue \cup {f}, requests' = R, Enqueue(f) \/ UNCHANGED up,
             Genuine(f, status')
      PROVE  Real'
  <2>1. Sends(up') \subseteq Sends(up) \cup {f} BY <1>2, SendsOf
  <2>2. queue' \cup requests' \cup Sends(up') \subseteq queue \cup requests \cup Sends(up) \cup {f}
    BY <1>2, <2>1
  <2> QED BY <1>0, <1>2, <2>2, RealCarried
<1>3. ASSUME NEW m \in Text, SendText(m) PROVE Real'
  <2>1. PICK f \in Frames : f = Send(m, 0) BY DEF Send, Frames, Requests, Message
  <2>2. status'[m] = "sending" BY <1>3 DEF SendText, Types, DiskTypes
  <2>3. Genuine(f, status') BY <2>1, <2>2 DEF Genuine, Send
  <2>4. /\ queue' = queue \cup {f} /\ requests' \in {requests, requests \cup {f}}
        /\ Enqueue(f) \/ UNCHANGED up
    BY <1>3, <2>1 DEF SendText, Dispatch
  <2> QED BY <1>2, <2>3, <2>4
<1>4. ASSUME Resend PROVE Real'
  <2>1. CASE UNCHANGED <<up, requests>> BY <1>1, <1>4, <2>1 DEF Resend, disk
  <2>2. CASE \E f \in Eligible : Dispatch(f)
    <3>1. PICK f \in queue : Enqueue(f) /\ requests' = requests \cup {f}
      BY <2>2 DEF Eligible, Dispatch
    <3>2. f \in Requests /\ f \in Frames BY DEF Types, DiskTypes, Frames
    <3>3. Genuine(f, status') BY <1>0, <3>2, Grows, StillGenuine DEF Real
    <3>4. queue' = queue BY <1>4 DEF Resend, disk
    <3> QED BY <1>2, <3>1, <3>2, <3>3, <3>4
  <2> QED BY <1>4, <2>1, <2>2 DEF Resend
<1>5. ASSUME SendDeletion PROVE Real'
  <2>1. PICK t \in tombstone :
            /\ queue' = queue \cup {Send(t.id, asked + 1)}
            /\ Dispatch(Send(t.id, asked + 1)) \/ UNCHANGED <<up, requests>>
    BY <1>5 DEF SendDeletion, Unsynced
  <2>2. PICK f \in Frames : f = Send(t.id, asked + 1)
    BY <2>1 DEF Types, DiskTypes, WireTypes, Send, Frames, Requests, Message
  <2>3. Genuine(f, status')
    BY <2>1, <2>2, MessageAssumption DEF Genuine, Send, Types, DiskTypes
  <2>4. /\ queue' = queue \cup {f} /\ requests' \in {requests, requests \cup {f}}
        /\ Enqueue(f) \/ UNCHANGED up
    BY <2>1, <2>2 DEF Dispatch
  <2> QED BY <1>2, <2>3, <2>4
<1>6. ASSUME AskSync PROVE Real'
  <2>0. asked + 1 \in Nat BY DEF Types, WireTypes
  <2>1. PICK f \in Frames : f = Sync(asked + 1) BY <2>0 DEF Sync, Frames
  <2>2. Enqueue(f) \/ UNCHANGED up BY <1>6, <2>1 DEF AskSync
  <2>3. Sends(up') \subseteq Sends(up)
    <3>1. Sends(up') \subseteq Sends(up) \cup {f} BY <2>2, SendsOf
    <3>2. \A g \in Sends(up') : g.kind = "send" BY DEF Sends
    <3>3. f.kind # "send" BY <2>1 DEF Sync
    <3> QED BY <3>1, <3>2, <3>3
  <2>4. UNCHANGED <<queue, requests>> BY <1>6 DEF AskSync, disk
  <2> QED BY <1>1, <2>3, <2>4
<1>7. ASSUME queue' \subseteq queue, requests' \subseteq requests, up' = up \/ up' = <<>>
      PROVE  Real'
  <2>1. Range(<<>>) = {} BY DEF Range
  <2>2. Sends(up') \subseteq Sends(up) BY <1>7, <2>1 DEF Sends
  <2> QED BY <1>1, <1>7, <2>2
<1>8. ASSUME NobodyToTell \/ NoDeletionSent \/ RemoveOutbox \/ MarkSynced \/ ShowSent PROVE Real'
  BY <1>7, <1>8 DEF NobodyToTell, NoDeletionSent, RemoveOutbox, MarkSynced, ShowSent, disk, books,
                    wire
<1>9. ASSUME Receive PROVE Real'
  BY <1>7, <1>9 DEF Receive, HandleAccepted, HandleRefused, HandleBatch, HandleSyncRefused,
                    HandleUpdate, HandleClosed, Answered, disk, books
<1>10. ASSUME \/ \E f \in requests : Expire(f)
              \/ \E id \in syncs : ExpireSync(id)
              \/ \E m \in waiting : Elapse(m)
              \/ \E m \in Deletion : DeleteConversation(m)
       PROVE  Real'
  BY <1>7, <1>10 DEF Expire, ExpireSync, Elapse, DeleteConversation, Answered, disk, books, wire
<1>11. ASSUME ServiceStep \/ Retry \/ RequestSync \/ VerifyContact \/ LinkBreaks \/ UNCHANGED vars
       PROVE  Real'
  BY <1>7, <1>11 DEF ServiceStep, Retry, RequestSync, VerifyContact, LinkBreaks, vars, disk, books,
                     wire
<1>12. ASSUME TryReconnect \/ ReconnectFails \/ Reconnected \/ Start \/ Crash PROVE Real'
  BY <1>7, <1>12 DEF TryReconnect, ReconnectFails, Reconnected, Start, Crash, NewTransport, disk,
                     books, wire
<1>13. ASSUME NEW kind, Serves(kind), UNCHANGED <<queue, requests>> PROVE Real'
  <2>1. up # <<>> /\ up' = Tail(up) BY <1>13, FirstRequest
  <2>2. up \in Seq(Frames) BY DEF Types, WireTypes
  <2>3. Sends(up') \subseteq Sends(up) BY <2>1, <2>2, RangeOfTail DEF Sends
  <2> QED BY <1>1, <1>13, <2>3
<1>14. ASSUME ServerAccepts \/ ServerSyncs \/ ServerRefusesSync
              \/ (\E r \in BOOLEAN : ServerRefuses(r))
       PROVE  Real'
  BY <1>13, <1>14 DEF ServerAccepts, ServerSyncs, ServerRefusesSync, ServerRefuses, disk, books
<1>15. ASSUME NEW m \in Text, PeerAcks(m) PROVE Real'
  BY <1>7, <1>15 DEF PeerAcks, disk, books
<1> QED
  BY <1>3, <1>4, <1>5, <1>6, <1>8, <1>9, <1>10, <1>11, <1>12, <1>14, <1>15 DEF Next

LEMMA StillTold ==
    ASSUME NEW d \in Replies, NEW s, NEW t, NEW S, NEW T, NEW A, NEW B,
           Kept(s, t), S \subseteq T, A \subseteq B, Told(d, s, S, A)
    PROVE  Told(d, t, T, B)
BY ReplyTypes, StillGenuine DEF Told

LEMMA TruthfulStep == ASSUME Types, Consistent, [Next]_vars PROVE Truthful'
<1>0. Truthful /\ Real /\ down \in Seq(Replies) BY DEF Consistent, Types, WireTypes
<1>1. \A d \in Range(down) : Told(d, status', stored', acked')
  <2>1. Range(down) \subseteq Replies BY <1>0 DEF Range
  <2> QED BY <1>0, <2>1, Grows, StillTold DEF Truthful
<1>2. ASSUME Range(down') \subseteq Range(down) PROVE Truthful' BY <1>1, <1>2 DEF Truthful
<1>3. ASSUME NEW d \in Replies, down' = Append(down, d), Told(d, status', stored', acked')
      PROVE  Truthful'
  <2>1. \A x \in Range(down') : x \in Range(down) \/ x = d BY <1>0, <1>3, RangeOfAppend
  <2> QED BY <1>1, <1>3, <2>1 DEF Truthful
<1>4. ASSUME UNCHANGED down PROVE Truthful' BY <1>2, <1>4
<1>5. ASSUME Receive PROVE Truthful'
  <2>1. \E kind : Arrives(kind)
    BY <1>5 DEF Receive, HandleAccepted, HandleRefused, HandleBatch, HandleSyncRefused,
                HandleUpdate, HandleClosed
  <2>2. down # <<>> /\ down' = Tail(down) BY <2>1, FirstReply
  <2> QED BY <1>0, <1>2, <2>2, RangeOfTail
<1>6. ASSUME LinkBreaks PROVE Truthful'
  <2>1. PICK n \in 0 .. Len(down) : down' = Append(SubSeq(down, 1, n), Closed)
    BY <1>6 DEF LinkBreaks
  <2>2. SubSeq(down, 1, n) \in Seq(Replies) /\ Closed \in Replies
    BY <1>0, RangeOfPrefix DEF Replies
  <2>3. \A x \in Range(down') : x \in Range(SubSeq(down, 1, n)) \/ x = Closed
    BY <2>1, <2>2, RangeOfAppend
  <2>4. \A x \in Range(down') : x \in Range(down) \/ x = Closed BY <1>0, <2>3, RangeOfPrefix
  <2>5. Told(Closed, status', stored', acked') BY DEF Told, Closed
  <2> QED BY <1>1, <2>4, <2>5 DEF Truthful
<1>7. ASSUME Reconnected \/ Start \/ Crash PROVE Truthful'
  <2>1. down' = <<>> BY <1>7 DEF Reconnected, Start, Crash, NewTransport
  <2> QED BY <1>2, <2>1 DEF Range
<1>8. ASSUME Serves("send")
      PROVE  Head(up) \in Requests /\ Genuine(Head(up), status')
  <2>1. Head(up) \in Requests BY <1>8, FirstRequest, RequestTypes
  <2>2. Head(up) \in Sends(up) BY <1>8, FirstRequest DEF Sends
  <2>3. Genuine(Head(up), status) BY <1>0, <2>2 DEF Real
  <2> QED BY <2>1, <2>3, Grows, StillGenuine
<1>9. ASSUME ServerAccepts PROVE Truthful'
  <2>1. Head(up) \in Requests /\ Genuine(Head(up), status') BY <1>8, <1>9 DEF ServerAccepts
  <2>2. PICK d \in Replies : d = [kind |-> "accepted", of |-> Head(up)] BY <2>1 DEF Replies
  <2>3. down' = Append(down, d) /\ Head(up).msg \in stored'
    BY <1>9, <2>2 DEF ServerAccepts, Answers
  <2>4. Told(d, status', stored', acked') BY <2>1, <2>2, <2>3 DEF Told
  <2> QED BY <1>3, <2>3, <2>4
<1>10. ASSUME NEW r \in BOOLEAN, ServerRefuses(r) PROVE Truthful'
  <2>1. Head(up) \in Requests /\ Genuine(Head(up), status') BY <1>8, <1>10 DEF ServerRefuses
  <2>2. PICK d \in Replies : d = [kind |-> "refused", of |-> Head(up), retryable |-> r]
    BY <2>1 DEF Replies
  <2>3. down' = Append(down, d) BY <1>10, <2>2 DEF ServerRefuses, Answers
  <2>4. Told(d, status', stored', acked') BY <2>1, <2>2 DEF Told
  <2> QED BY <1>3, <2>3, <2>4
<1>11. ASSUME ServerSyncs PROVE Truthful'
  <2>1. Head(up).id \in Nat BY <1>11, FirstRequest, RequestTypes DEF ServerSyncs
  <2>2. PICK d \in Replies : d = [kind |-> "batch", id |-> Head(up).id, updates |-> acked]
    BY <2>1 DEF Replies, Types, WireTypes
  <2>3. down' = Append(down, d) BY <1>11, <2>2 DEF ServerSyncs, Answers
  <2>4. Told(d, status', stored', acked') BY <2>2, Grows DEF Told
  <2> QED BY <1>3, <2>3, <2>4
<1>12. ASSUME ServerRefusesSync PROVE Truthful'
  <2>1. Head(up).id \in Nat BY <1>12, FirstRequest, RequestTypes DEF ServerRefusesSync
  <2>2. PICK d \in Replies : d = [kind |-> "unsynced", id |-> Head(up).id] BY <2>1 DEF Replies
  <2>3. down' = Append(down, d) BY <1>12, <2>2 DEF ServerRefusesSync, Answers
  <2>4. Told(d, status', stored', acked') BY <2>2 DEF Told
  <2> QED BY <1>3, <2>3, <2>4
<1>13. ASSUME NEW m \in Text, PeerAcks(m) PROVE Truthful'
  <2>1. PICK d \in Replies : d = [kind |-> "update", updates |-> {m}] BY DEF Replies
  <2>2. acked' = acked \cup {m} /\ (down' = Append(down, d) \/ UNCHANGED down)
    BY <1>13, <2>1 DEF PeerAcks, Answers
  <2>3. Told(d, status', stored', acked') BY <2>1, <2>2 DEF Told
  <2> QED BY <1>3, <1>4, <2>2, <2>3
<1>14. ASSUME Resend \/ SendDeletion \/ NobodyToTell \/ NoDeletionSent \/ AskSync \/ RemoveOutbox
              \/ MarkSynced \/ ShowSent
       PROVE  Truthful'
  BY <1>4, <1>14 DEF Resend, SendDeletion, NobodyToTell, NoDeletionSent, AskSync, RemoveOutbox,
                     MarkSynced, ShowSent, wire
<1>15. ASSUME \/ \E f \in requests : Expire(f)
              \/ \E id \in syncs : ExpireSync(id)
              \/ \E m \in waiting : Elapse(m)
              \/ \E m \in Deletion : DeleteConversation(m)
              \/ \E m \in Text : SendText(m)
       PROVE  Truthful'
  BY <1>4, <1>15 DEF Expire, ExpireSync, Elapse, DeleteConversation, SendText, wire
<1>16. ASSUME ServiceStep \/ Retry \/ RequestSync \/ VerifyContact \/ TryReconnect
              \/ ReconnectFails \/ UNCHANGED vars
       PROVE  Truthful'
  BY <1>4, <1>16 DEF ServiceStep, Retry, RequestSync, VerifyContact, TryReconnect, ReconnectFails,
                     vars, wire
<1> QED
  BY <1>5, <1>6, <1>7, <1>9, <1>10, <1>11, <1>12, <1>13, <1>14, <1>15, <1>16 DEF Next

LEMMA SettledStep == ASSUME Types, Consistent, [Next]_vars PROVE Settled'
<1>0. Real /\ Truthful /\ Settled BY DEF Consistent
<1>g. Kept(status, status') /\ stored \subseteq stored' /\ acked \subseteq acked' BY Grows
<1>1. ASSUME NEW f \in Requests, Genuine(f, status),
             blocked' \subseteq blocked \cup {f.msg}, waiting' \subseteq waiting \cup {f.msg}
      PROVE  \A m \in (blocked' \cup waiting') \cap Text : status'[m] # "none"
  BY <1>0, <1>1, <1>g DEF Settled, Genuine, Kept
<1>2. ASSUME blocked' \subseteq blocked, waiting' \subseteq waiting
      PROVE  \A m \in (blocked' \cup waiting') \cap Text : status'[m] # "none"
  BY <1>0, <1>2, <1>g DEF Settled, Kept
<1>3. \A m \in (blocked' \cup waiting') \cap Text : status'[m] # "none"
  <2>1. ASSUME HandleRefused PROVE \A m \in (blocked' \cup waiting') \cap Text : status'[m] # "none"
    <3>1. /\ Head(down) \in Replies /\ Head(down) \in Range(down)
          /\ Head(down).kind = "refused"
      BY <2>1, FirstReply DEF HandleRefused
    <3>2. PICK f \in Requests : f = Head(down).of BY <3>1, ReplyTypes
    <3>3. Genuine(f, status) BY <1>0, <3>1, <3>2 DEF Truthful, Told
    <3>4. blocked' \subseteq blocked \cup {f.msg} /\ waiting' \subseteq waiting \cup {f.msg}
      BY <2>1, <3>2 DEF HandleRefused
    <3> QED BY <1>1, <3>3, <3>4
  <2>2. ASSUME NEW f \in requests, Expire(f)
        PROVE  \A m \in (blocked' \cup waiting') \cap Text : status'[m] # "none"
    <3>1. f \in Requests /\ Genuine(f, status) BY <1>0 DEF Real, Types, BookTypes
    <3>2. blocked' \subseteq blocked \cup {f.msg} /\ waiting' \subseteq waiting \cup {f.msg}
      BY <2>2 DEF Expire
    <3> QED BY <1>1, <3>1, <3>2
  <2>3. ASSUME \/ Resend \/ SendDeletion \/ NobodyToTell \/ NoDeletionSent \/ AskSync
               \/ RemoveOutbox \/ MarkSynced \/ ShowSent
        PROVE  blocked' \subseteq blocked /\ waiting' \subseteq waiting
    BY <2>3 DEF Resend, SendDeletion, NobodyToTell, NoDeletionSent, AskSync, RemoveOutbox,
                MarkSynced, ShowSent, books
  <2>4. ASSUME HandleAccepted \/ HandleBatch \/ HandleSyncRefused \/ HandleUpdate \/ HandleClosed
        PROVE  blocked' \subseteq blocked /\ waiting' \subseteq waiting
    BY <2>4 DEF HandleAccepted, HandleBatch, HandleSyncRefused, HandleUpdate, HandleClosed, books
  <2>5. ASSUME \/ \E id \in syncs : ExpireSync(id)
               \/ \E m \in waiting : Elapse(m)
               \/ \E m \in Deletion : DeleteConversation(m)
               \/ \E m \in Text : SendText(m) \/ PeerAcks(m)
               \/ \E r \in BOOLEAN : ServerRefuses(r)
        PROVE  blocked' \subseteq blocked /\ waiting' \subseteq waiting
    BY <2>5 DEF ExpireSync, Elapse, DeleteConversation, SendText, PeerAcks, ServerRefuses, books
  <2>6. ASSUME ServiceStep \/ Retry \/ RequestSync \/ VerifyContact \/ TryReconnect
               \/ ReconnectFails \/ UNCHANGED vars
        PROVE  blocked' \subseteq blocked /\ waiting' \subseteq waiting
    BY <2>6 DEF ServiceStep, Retry, RequestSync, VerifyContact, TryReconnect, ReconnectFails,
                vars, books
  <2>7. ASSUME LinkBreaks \/ Reconnected \/ Start \/ Crash \/ ServerAccepts \/ ServerSyncs
               \/ ServerRefusesSync
        PROVE  blocked' \subseteq blocked /\ waiting' \subseteq waiting
    BY <2>7 DEF LinkBreaks, Reconnected, Start, Crash, ServerAccepts, ServerSyncs,
                ServerRefusesSync, books
  <2> QED
    BY <1>2, <2>1, <2>2, <2>3, <2>4, <2>5, <2>6, <2>7 DEF Next, Receive
<1>4. subject' \subseteq stored'
  <2>1. ASSUME subject' \subseteq subject PROVE subject' \subseteq stored'
    BY <1>0, <1>g, <2>1 DEF Settled
  <2>2. ASSUME HandleAccepted PROVE subject' \subseteq stored'
    <3>1. Head(down) \in Range(down) /\ Head(down).kind = "accepted"
      BY <2>2, FirstReply DEF HandleAccepted
    <3>2. Head(down).of.msg \in stored BY <1>0, <3>1 DEF Truthful, Told
    <3>3. subject' = {Head(down).of.msg} BY <2>2 DEF HandleAccepted
    <3> QED BY <1>g, <3>2, <3>3
  <2>3. ASSUME \/ Resend \/ SendDeletion \/ NobodyToTell \/ NoDeletionSent \/ AskSync
               \/ RemoveOutbox \/ MarkSynced \/ ShowSent
        PROVE  subject' \subseteq subject
    BY <2>3 DEF Resend, SendDeletion, NobodyToTell, NoDeletionSent, AskSync, RemoveOutbox,
                MarkSynced, ShowSent
  <2>4. ASSUME HandleRefused \/ HandleBatch \/ HandleSyncRefused \/ HandleUpdate \/ HandleClosed
        PROVE  subject' \subseteq subject
    BY <2>4 DEF HandleRefused, HandleBatch, HandleSyncRefused, HandleUpdate, HandleClosed, loop
  <2>5. ASSUME \/ \E f \in requests : Expire(f)
               \/ \E id \in syncs : ExpireSync(id)
               \/ \E m \in waiting : Elapse(m)
               \/ \E m \in Deletion : DeleteConversation(m)
               \/ \E m \in Text : SendText(m) \/ PeerAcks(m)
               \/ \E r \in BOOLEAN : ServerRefuses(r)
        PROVE  subject' \subseteq subject
    BY <2>5 DEF Expire, ExpireSync, Elapse, DeleteConversation, SendText, PeerAcks, ServerRefuses,
                loop, Work
  <2>6. ASSUME ServiceStep \/ Retry \/ RequestSync \/ VerifyContact \/ TryReconnect
               \/ ReconnectFails \/ UNCHANGED vars
        PROVE  subject' \subseteq subject
    BY <2>6 DEF ServiceStep, Retry, RequestSync, VerifyContact, TryReconnect, ReconnectFails,
                vars, loop, Work
  <2>7. ASSUME LinkBreaks \/ Reconnected \/ Start \/ Crash \/ ServerAccepts \/ ServerSyncs
               \/ ServerRefusesSync
        PROVE  subject' \subseteq subject
    BY <2>7 DEF LinkBreaks, Reconnected, Start, Crash, ServerAccepts, ServerSyncs,
                ServerRefusesSync, loop, Work
  <2> QED BY <2>1, <2>2, <2>3, <2>4, <2>5, <2>6, <2>7 DEF Next, Receive
<1>5. acked' \subseteq stored'
  <2>1. CASE \E m \in Text : PeerAcks(m) BY <1>0, <1>g, <2>1 DEF Settled, PeerAcks
  <2>2. CASE UNCHANGED acked BY <1>0, <1>g, <2>2 DEF Settled
  <2>3. ASSUME \/ Resend \/ SendDeletion \/ NobodyToTell \/ NoDeletionSent \/ AskSync
               \/ RemoveOutbox \/ MarkSynced \/ ShowSent \/ Receive
        PROVE  UNCHANGED acked
    BY <2>3 DEF Resend, SendDeletion, NobodyToTell, NoDeletionSent, AskSync, RemoveOutbox,
                MarkSynced, ShowSent, Receive, HandleAccepted, HandleRefused, HandleBatch,
                HandleSyncRefused, HandleUpdate, HandleClosed, server
  <2>4. ASSUME \/ \E f \in requests : Expire(f)
               \/ \E id \in syncs : ExpireSync(id)
               \/ \E m \in waiting : Elapse(m)
               \/ \E m \in Deletion : DeleteConversation(m)
               \/ \E m \in Text : SendText(m)
               \/ \E r \in BOOLEAN : ServerRefuses(r)
        PROVE  UNCHANGED acked
    BY <2>4 DEF Expire, ExpireSync, Elapse, DeleteConversation, SendText, ServerRefuses, server
  <2>5. ASSUME ServiceStep \/ Retry \/ RequestSync \/ VerifyContact \/ TryReconnect
               \/ ReconnectFails \/ UNCHANGED vars
        PROVE  UNCHANGED acked
    BY <2>5 DEF ServiceStep, Retry, RequestSync, VerifyContact, TryReconnect, ReconnectFails,
                vars, server
  <2>6. ASSUME LinkBreaks \/ Reconnected \/ Start \/ Crash \/ ServerAccepts \/ ServerSyncs
               \/ ServerRefusesSync
        PROVE  UNCHANGED acked
    BY <2>6 DEF LinkBreaks, Reconnected, Start, Crash, ServerAccepts, ServerSyncs,
                ServerRefusesSync, server
  <2> QED BY <2>1, <2>2, <2>3, <2>4, <2>5, <2>6 DEF Next
\* Whatever the server newly has is what it was sent.
<1>6. \A m \in stored' \cap Text : status'[m] # "none"
  <2>1. ASSUME NEW S, stored' = stored \cup S,
               \A m \in S : \E f \in Sends(up) : f.msg = m
        PROVE  \A m \in stored' \cap Text : status'[m] # "none"
    <3>1. \A m \in S \cap Text : status[m] # "none" BY <1>0, <2>1 DEF Real, Genuine
    <3> QED BY <1>0, <1>g, <2>1, <3>1 DEF Settled, Kept
  <2>2. ASSUME Overtaken PROVE \A m \in stored' \cap Text : status'[m] # "none"
    <3>1. PICK S \in SUBSET Message :
              /\ stored' = stored \cup S
              /\ \A m \in S : \E f \in Range(up) : f.kind = "send" /\ f.msg = m
      BY <2>2, OvertakenOnTheWay
    <3>2. \A m \in S : \E f \in Sends(up) : f.msg = m BY <3>1 DEF Sends
    <3> QED BY <2>1, <3>1, <3>2
  <2>3. ASSUME ServerAccepts PROVE \A m \in stored' \cap Text : status'[m] # "none"
    <3>1. PICK f \in Sends(up) : f = Head(up) BY <2>3, FirstRequest DEF ServerAccepts, Sends
    <3>2. PICK S : S = {f.msg} OBVIOUS
    <3>3. stored' = stored \cup S BY <2>3, <3>1, <3>2 DEF ServerAccepts
    <3>4. \A m \in S : \E g \in Sends(up) : g.msg = m BY <3>2
    <3> QED BY <2>1, <3>3, <3>4
  <2>4. ASSUME UNCHANGED stored PROVE \A m \in stored' \cap Text : status'[m] # "none"
    BY <1>0, <1>g, <2>4 DEF Settled, Kept
  <2>5. ASSUME \/ Resend \/ SendDeletion \/ NobodyToTell \/ NoDeletionSent \/ AskSync
               \/ RemoveOutbox \/ MarkSynced \/ ShowSent \/ Receive
        PROVE  UNCHANGED stored
    BY <2>5 DEF Resend, SendDeletion, NobodyToTell, NoDeletionSent, AskSync, RemoveOutbox,
                MarkSynced, ShowSent, Receive, HandleAccepted, HandleRefused, HandleBatch,
                HandleSyncRefused, HandleUpdate, HandleClosed, server
  <2>6. ASSUME \/ \E f \in requests : Expire(f)
               \/ \E id \in syncs : ExpireSync(id)
               \/ \E m \in waiting : Elapse(m)
               \/ \E m \in Deletion : DeleteConversation(m)
               \/ \E m \in Text : SendText(m) \/ PeerAcks(m)
               \/ \E r \in BOOLEAN : ServerRefuses(r)
        PROVE  UNCHANGED stored
    BY <2>6 DEF Expire, ExpireSync, Elapse, DeleteConversation, SendText, PeerAcks, ServerRefuses,
                server
  <2>7. ASSUME ServiceStep \/ Retry \/ RequestSync \/ VerifyContact \/ TryReconnect
               \/ ReconnectFails \/ UNCHANGED vars
        PROVE  UNCHANGED stored
    BY <2>7 DEF ServiceStep, Retry, RequestSync, VerifyContact, TryReconnect, ReconnectFails,
                vars, server
  <2>8. ASSUME Start \/ ServerSyncs \/ ServerRefusesSync PROVE UNCHANGED stored
    BY <2>8 DEF Start, ServerSyncs, ServerRefusesSync, server
  <2>9. ASSUME LinkBreaks \/ Reconnected \/ Crash PROVE Overtaken
    BY <2>9 DEF LinkBreaks, Reconnected, Crash
  <2> QED BY <2>2, <2>3, <2>4, <2>5, <2>6, <2>7, <2>8, <2>9 DEF Next
<1> QED BY <1>3, <1>4, <1>5, <1>6 DEF Settled

LEMMA ConsistentStart == ASSUME Init PROVE Consistent
<1>1. Range(<<>>) = {} BY DEF Range
<1> QED BY <1>1 DEF Init, Consistent, Real, Truthful, Settled, Sends

LEMMA ConsistentAlways == Spec => []Consistent
<1>1. Init => Consistent BY ConsistentStart
<1>2. Types /\ Consistent /\ [Next]_vars => Consistent'
  BY RealStep, TruthfulStep, SettledStep DEF Consistent
<1> QED BY <1>1, <1>2, TypesAlways, PTL DEF Spec

(***************************************************************************)
(* Nothing is lost                                                         *)
(***************************************************************************)

LEMMA NothingLostStep ==
    ASSUME Types, Consistent, NothingLost, [Next]_vars PROVE NothingLost'
<1>0. status \in [Text -> {"none", "sending", "sent", "delivered", "erased"}]
  BY DEF Types, DiskTypes
<1>1. ASSUME \A m \in Text : status'[m] = "sending" => status[m] = "sending",
             \A m \in Text : Queued(m) => Queued(m)' \/ m \in stored
      PROVE  NothingLost'
  BY <1>1, Grows DEF NothingLost
<1>2. ASSUME UNCHANGED status, queue \subseteq queue' PROVE NothingLost'
  BY <1>1, <1>2 DEF Queued
<1>3. ASSUME NEW m \in Text, SendText(m) PROVE NothingLost'
  <2>1. queue' = queue \cup {Send(m, 0)} /\ Send(m, 0).msg = m BY <1>3 DEF SendText, Send
  <2>2. Queued(m)' BY <2>1 DEF Queued
  <2>3. \A n \in Text : n # m /\ status'[n] = "sending" => status[n] = "sending"
    BY <1>0, <1>3 DEF SendText
  <2>4. \A n \in Text : Queued(n) => Queued(n)' BY <2>1 DEF Queued
  <2> QED BY <2>2, <2>3, <2>4, Grows DEF NothingLost
<1>4. ASSUME RemoveOutbox PROVE NothingLost'
  <2>1. queue' = {f \in queue : f.msg \notin subject} /\ UNCHANGED status BY <1>4 DEF RemoveOutbox
  <2>2. subject \subseteq stored BY DEF Consistent, Settled
  <2>3. \A m \in Text : Queued(m) => Queued(m)' \/ m \in stored BY <2>1, <2>2 DEF Queued
  <2> QED BY <1>1, <2>1, <2>3
<1>5. ASSUME NEW S, NEW new \in {"sent", "delivered"}, UpdateStatus(S, new), UNCHANGED queue
      PROVE  NothingLost'
  <2>1. \A m \in Text : status'[m] = "sending" => status[m] = "sending"
    BY <1>0, <1>5 DEF UpdateStatus
  <2> QED BY <1>1, <1>5, <2>1 DEF Queued
<1>6. ASSUME ShowSent \/ HandleBatch \/ HandleUpdate PROVE NothingLost'
  BY <1>5, <1>6 DEF ShowSent, HandleBatch, HandleUpdate
<1>7. ASSUME NEW m \in Deletion, DeleteConversation(m) PROVE NothingLost'
  BY <1>0, <1>7 DEF DeleteConversation, NothingLost
<1>8. ASSUME VerifyContact PROVE NothingLost'
  <2>1. queue' = {f \in queue : \A t \in tombstone : f.msg # t.id} /\ UNCHANGED status
    BY <1>8 DEF VerifyContact
  <2>2. \A t \in tombstone : t.id \notin Text BY MessageAssumption DEF Types, DiskTypes
  <2>3. \A m \in Text : Queued(m) => Queued(m)' BY <2>1, <2>2 DEF Queued
  <2> QED BY <1>1, <2>1, <2>3
<1>9. ASSUME Resend \/ SendDeletion \/ NobodyToTell \/ NoDeletionSent \/ AskSync \/ MarkSynced
      PROVE  NothingLost'
  BY <1>2, <1>9 DEF Resend, SendDeletion, NobodyToTell, NoDeletionSent, AskSync, MarkSynced, disk
<1>10. ASSUME HandleAccepted \/ HandleRefused \/ HandleSyncRefused \/ HandleClosed
       PROVE  NothingLost'
  BY <1>2, <1>10 DEF HandleAccepted, HandleRefused, HandleSyncRefused, HandleClosed, disk
<1>11. ASSUME \/ \E f \in requests : Expire(f)
              \/ \E id \in syncs : ExpireSync(id)
              \/ \E m \in waiting : Elapse(m)
              \/ \E m \in Text : PeerAcks(m)
              \/ \E r \in BOOLEAN : ServerRefuses(r)
       PROVE  NothingLost'
  BY <1>2, <1>11 DEF Expire, ExpireSync, Elapse, PeerAcks, ServerRefuses, disk
<1>12. ASSUME ServiceStep \/ Retry \/ RequestSync \/ TryReconnect \/ ReconnectFails
              \/ UNCHANGED vars
       PROVE  NothingLost'
  BY <1>2, <1>12 DEF ServiceStep, Retry, RequestSync, TryReconnect, ReconnectFails, vars, disk
<1>13. ASSUME LinkBreaks \/ Reconnected \/ Start \/ Crash \/ ServerAccepts \/ ServerSyncs
              \/ ServerRefusesSync
       PROVE  NothingLost'
  BY <1>2, <1>13 DEF LinkBreaks, Reconnected, Start, Crash, ServerAccepts, ServerSyncs,
                     ServerRefusesSync, disk
<1> QED
  BY <1>3, <1>4, <1>6, <1>7, <1>8, <1>9, <1>10, <1>11, <1>12, <1>13 DEF Next, Receive

\* README:48, the persistent outbox: whatever is shown as being sent is in the
\* outbox or at the server, for commit_outgoing writes both in one transaction
\* and only complete_outbox, after an acceptance, takes a text out that is kept.
THEOREM NothingIsLost == Spec => []NothingLost
<1>1. Init => NothingLost BY DEF Init, NothingLost
<1>2. Types /\ Consistent /\ NothingLost /\ [Next]_vars => NothingLost' BY NothingLostStep
<1> QED BY <1>1, <1>2, TypesAlways, ConsistentAlways, PTL DEF Spec

(***************************************************************************)
(* A settled message is forgotten                                          *)
(***************************************************************************)

Free(m, b, w, r) == m \notin b /\ m \notin w /\ \A f \in r : f.msg # m
Has(m, Q) == \E f \in Q : f.msg = m

\* Also while complete_outbox has still to take the request out.
Forgotten ==
    /\ \A m \in Text : Has(m, queue) \/ status[m] = "erased" \/ Free(m, blocked, waiting, requests)
    /\ todo # <<>> /\ Head(todo) = "remove" =>
          \A m \in subject \cap Text : Free(m, blocked, waiting, requests)

LEMMA ForgottenStep ==
    ASSUME Types, Consistent, Forgotten, [Next]_vars PROVE Forgotten'
<1>0. /\ status \in [Text -> {"none", "sending", "sent", "delivered", "erased"}]
      /\ queue \subseteq Requests /\ requests \subseteq Requests /\ Real
  BY DEF Types, DiskTypes, BookTypes, Consistent
<1>1. ASSUME NEW m \in Text, status'[m] # "erased" PROVE status[m] # "erased"
  <2>1. CASE UNCHANGED status BY <1>1, <2>1
  <2>2. ASSUME NEW n \in Text, SendText(n) PROVE status[m] # "erased"
    BY <1>0, <1>1, <2>2 DEF SendText
  <2>3. ASSUME NEW S, NEW new \in {"sent", "delivered"}, UpdateStatus(S, new)
        PROVE  status[m] # "erased"
    BY <1>0, <1>1, <2>3 DEF UpdateStatus, Rank
  <2>4. ASSUME ShowSent \/ HandleBatch \/ HandleUpdate PROVE status[m] # "erased"
    BY <2>3, <2>4 DEF ShowSent, HandleBatch, HandleUpdate
  <2>5. ASSUME NEW x \in Deletion, DeleteConversation(x) PROVE status[m] # "erased"
    BY <1>0, <1>1, <2>5 DEF DeleteConversation
  <2>6. ASSUME Resend \/ SendDeletion \/ NobodyToTell \/ NoDeletionSent \/ AskSync \/ RemoveOutbox
               \/ MarkSynced
        PROVE UNCHANGED status
    BY <2>6 DEF Resend, SendDeletion, NobodyToTell, NoDeletionSent, AskSync, RemoveOutbox,
                MarkSynced, disk
  <2>7. ASSUME HandleAccepted \/ HandleRefused \/ HandleSyncRefused \/ HandleClosed
        PROVE UNCHANGED status
    BY <2>7 DEF HandleAccepted, HandleRefused, HandleSyncRefused, HandleClosed, disk
  <2>8. ASSUME \/ \E f \in requests : Expire(f)
               \/ \E id \in syncs : ExpireSync(id)
               \/ \E n \in waiting : Elapse(n)
               \/ \E r \in BOOLEAN : ServerRefuses(r)
               \/ \E n \in Text : PeerAcks(n)
        PROVE  UNCHANGED status
    BY <2>8 DEF Expire, ExpireSync, Elapse, ServerRefuses, PeerAcks, disk
  <2>9. ASSUME ServiceStep \/ Retry \/ RequestSync \/ VerifyContact \/ TryReconnect
                \/ ReconnectFails \/ UNCHANGED vars
         PROVE  UNCHANGED status
    BY <2>9 DEF ServiceStep, Retry, RequestSync, VerifyContact, TryReconnect, ReconnectFails,
                vars, disk
  <2>10. ASSUME LinkBreaks \/ Reconnected \/ Start \/ Crash \/ ServerAccepts \/ ServerSyncs
                \/ ServerRefusesSync
         PROVE  UNCHANGED status
    BY <2>10 DEF LinkBreaks, Reconnected, Start, Crash, ServerAccepts, ServerSyncs,
                 ServerRefusesSync, disk
  <2> QED BY <2>1, <2>2, <2>4, <2>5, <2>6, <2>7, <2>8, <2>9, <2>10 DEF Next, Receive
\* The handler at work is not complete_outbox.
<1>2. ASSUME \A m \in Text : \/ Has(m, queue') \/ status[m] = "erased"
                             \/ Free(m, blocked', waiting', requests'),
             todo' = <<>> \/ (todo' # <<>> /\ Head(todo') # "remove")
      PROVE  Forgotten'
  BY <1>1, <1>2 DEF Forgotten
\* The books only shrink.
<1>3. ASSUME blocked' \subseteq blocked, waiting' \subseteq waiting, requests' \subseteq requests
      PROVE  \A m \in Text : Free(m, blocked, waiting, requests)
                                => Free(m, blocked', waiting', requests')
  BY <1>3 DEF Free
<1>4. ASSUME blocked' \subseteq blocked, waiting' \subseteq waiting, requests' \subseteq requests,
             queue' = queue, todo' = <<>> \/ (todo' # <<>> /\ Head(todo') # "remove")
      PROVE  Forgotten'
  BY <1>2, <1>3, <1>4 DEF Forgotten
<1>5. ASSUME blocked' \subseteq blocked, waiting' \subseteq waiting, requests' \subseteq requests,
             UNCHANGED <<queue, status, todo, subject>>
      PROVE  Forgotten'
  BY <1>3, <1>5 DEF Forgotten
<1>6. ASSUME NEW step, Begin(step), Done
      PROVE  todo' = <<>> \/ (todo' # <<>> /\ Head(todo') # "remove")
  <2>1. todo \in Plans /\ todo' = Tail(todo) /\ todo # <<>> BY <1>6 DEF Types, Begin, Done
  <2>2. CASE todo = <<"resend", "deletions", "sync">> BY <2>1, <2>2
  <2>3. CASE todo = <<"deletions", "sync">> BY <2>1, <2>3
  <2>4. CASE todo = <<"sync">> BY <2>1, <2>4
  <2>5. CASE todo = <<"resend", "deletions">> BY <2>1, <2>5
  <2>6. CASE todo = <<"deletions">> BY <2>1, <2>6
  <2>7. CASE todo = <<"resend">> BY <2>1, <2>7
  <2>8. CASE todo = <<"remove", "synced", "sent">> BY <2>1, <2>8
  <2>9. CASE todo = <<"synced", "sent">> BY <2>1, <2>9
  <2>10. CASE todo = <<"sent">> BY <2>1, <2>10
  <2> QED BY <2>1, <2>2, <2>3, <2>4, <2>5, <2>6, <2>7, <2>8, <2>9, <2>10 DEF Plans
<1>7. ASSUME NEW f \in Requests, Has(f.msg, queue') \/ f.msg \notin Text,
             requests' \subseteq requests \cup {f}, queue \subseteq queue',
             UNCHANGED <<blocked, waiting>>,
             todo' = <<>> \/ (todo' # <<>> /\ Head(todo') # "remove")
      PROVE  Forgotten'
  <2>1. \A m \in Text : m # f.msg /\ Free(m, blocked, waiting, requests)
                            => Free(m, blocked', waiting', requests')
    BY <1>7 DEF Free
  <2>2. \A m \in Text : Has(m, queue) => Has(m, queue') BY <1>7 DEF Has
  <2> QED BY <1>2, <1>7, <2>1, <2>2 DEF Forgotten
<1>8. ASSUME NEW m \in Text, SendText(m) PROVE Forgotten'
  <2>1. PICK f \in Requests : f = Send(m, 0) BY DEF Send, Requests, Message
  <2>2. /\ queue' = queue \cup {f} /\ requests' \subseteq requests \cup {f}
        /\ UNCHANGED <<blocked, waiting>> /\ todo' = <<>>
    BY <1>8, <2>1 DEF SendText, Dispatch, Idle
  <2>3. Has(f.msg, queue') BY <2>2 DEF Has
  <2> QED BY <1>7, <2>2, <2>3
<1>9. ASSUME Resend PROVE Forgotten'
  <2>1. UNCHANGED <<queue, status, subject, blocked, waiting>> BY <1>9 DEF Resend, disk
  <2>2. CASE Done /\ UNCHANGED requests
    BY <1>4, <1>6, <1>9, <2>1, <2>2 DEF Resend
  <2>3. CASE \E f \in Eligible : Dispatch(f) /\ UNCHANGED todo
    <3>1. PICK f \in queue : requests' = requests \cup {f} /\ UNCHANGED todo
      BY <2>3 DEF Eligible, Dispatch
    <3>2. f \in Requests /\ Has(f.msg, queue') BY <1>0, <2>1, <3>1 DEF Has
    <3>3. todo' # <<>> /\ Head(todo') = "resend" BY <1>9, <3>1 DEF Resend, Begin
    <3> QED BY <1>7, <2>1, <3>1, <3>2, <3>3
  <2> QED BY <1>9, <2>2, <2>3 DEF Resend
<1>10. ASSUME SendDeletion PROVE Forgotten'
  <2>1. PICK t \in tombstone :
            /\ queue' = queue \cup {Send(t.id, asked + 1)}
            /\ Dispatch(Send(t.id, asked + 1)) \/ UNCHANGED requests
    BY <1>10 DEF SendDeletion, Unsynced
  <2>2. asked + 1 \in Nat BY DEF Types, WireTypes
  <2>3. PICK f \in Requests : f = Send(t.id, asked + 1)
    BY <2>1, <2>2 DEF Types, DiskTypes, Send, Requests, Message
  <2>4. f.msg \notin Text BY <2>1, <2>3, MessageAssumption DEF Send, Types, DiskTypes
  <2>5. /\ queue' = queue \cup {f} /\ requests' \subseteq requests \cup {f}
        /\ UNCHANGED <<blocked, waiting>>
    BY <1>10, <2>1, <2>3 DEF SendDeletion, Dispatch
  <2>6. todo' = <<>> \/ (todo' # <<>> /\ Head(todo') # "remove") BY <1>6, <1>10 DEF SendDeletion
  <2> QED BY <1>7, <2>4, <2>5, <2>6
<1>11. ASSUME NobodyToTell \/ NoDeletionSent \/ AskSync \/ MarkSynced \/ ShowSent PROVE Forgotten'
  <2>1. \E step : Begin(step) /\ Done
    BY <1>11 DEF NobodyToTell, NoDeletionSent, AskSync, MarkSynced, ShowSent
  <2>2. UNCHANGED <<queue, blocked, waiting, requests>>
    BY <1>11 DEF NobodyToTell, NoDeletionSent, AskSync, MarkSynced, ShowSent, disk, books
  <2> QED BY <1>4, <1>6, <2>1, <2>2
<1>12. ASSUME RemoveOutbox PROVE Forgotten'
  <2>1. /\ queue' = {f \in queue : f.msg \notin subject}
        /\ UNCHANGED <<blocked, waiting, requests>>
        /\ todo # <<>> /\ Head(todo) = "remove"
    BY <1>12 DEF RemoveOutbox, books, Begin
  <2>2. \A m \in Text : Has(m, queue) /\ m \notin subject => Has(m, queue') BY <2>1 DEF Has
  <2>3. \A m \in Text : Has(m, queue') \/ status[m] = "erased"
                            \/ Free(m, blocked', waiting', requests')
    BY <2>1, <2>2 DEF Forgotten
  <2>4. todo' = <<>> \/ (todo' # <<>> /\ Head(todo') # "remove") BY <1>6, <1>12 DEF RemoveOutbox
  <2> QED BY <1>2, <2>3, <2>4
<1>13. ASSUME HandleAccepted PROVE Forgotten'
  <2>1. /\ Head(down) \in Replies /\ Head(down) \in Range(down)
        /\ Head(down).kind = "accepted"
    BY <1>13, FirstReply DEF HandleAccepted
  <2>2. PICK f \in Requests : f = Head(down).of BY <2>1, ReplyTypes
  <2>3. Genuine(f, status) BY <2>1, <2>2 DEF Consistent, Truthful, Told
  <2>4. /\ requests' = requests \ {f} /\ blocked' = blocked \ {f.msg}
        /\ waiting' = waiting \ {f.msg} /\ subject' = {f.msg} /\ UNCHANGED <<queue, status>>
    BY <1>13, <2>2 DEF HandleAccepted, Answered, disk
  <2>5. ASSUME f.msg \in Text PROVE Free(f.msg, blocked', waiting', requests')
    <3>1. \A g \in requests : g.msg = f.msg => g = f
      <4> TAKE g \in requests
      <4>1. g \in Requests /\ Genuine(g, status) BY <1>0 DEF Real
      <4> HAVE g.msg = f.msg
      <4>2. g.id = 0 /\ f.id = 0 BY <2>3, <2>5, <4>1 DEF Genuine
      <4> QED BY <4>1, <4>2 DEF Requests
    <3> QED BY <2>4, <3>1 DEF Free
  <2>6. \A m \in Text : Has(m, queue') \/ status'[m] = "erased"
                            \/ Free(m, blocked', waiting', requests')
    BY <1>3, <2>4 DEF Forgotten
  <2> QED BY <2>4, <2>5, <2>6 DEF Forgotten
<1>14. ASSUME NEW f \in requests, blocked' \subseteq blocked \cup {f.msg},
              waiting' \subseteq waiting \cup {f.msg}, requests' \subseteq requests,
              queue' = queue, todo' = <<>>
       PROVE  Forgotten'
  <2>1. \A m \in Text : Free(m, blocked, waiting, requests)
                            => Free(m, blocked', waiting', requests')
    BY <1>14 DEF Free
  <2> QED BY <1>2, <1>14, <2>1 DEF Forgotten
<1>15. ASSUME HandleRefused PROVE Forgotten'
  <2>1. queue' = queue /\ todo' = <<>> BY <1>15 DEF HandleRefused, disk, loop, Arrives, Idle
  <2>2. CASE Head(down).of \notin requests
    BY <1>4, <1>15, <2>1, <2>2 DEF HandleRefused
  <2>3. CASE Head(down).of \in requests
    <3>1. PICK f \in requests : f = Head(down).of BY <2>3
    <3>2. /\ blocked' \subseteq blocked \cup {f.msg} /\ waiting' \subseteq waiting \cup {f.msg}
          /\ requests' \subseteq requests
      BY <1>15, <3>1 DEF HandleRefused, Answered
    <3> QED BY <1>14, <2>1, <3>2
  <2> QED BY <2>2, <2>3
<1>16. ASSUME NEW f \in requests, Expire(f) PROVE Forgotten'
  BY <1>14, <1>16 DEF Expire, Answered, Idle, disk, loop
<1>17. ASSUME HandleBatch \/ HandleUpdate \/ HandleSyncRefused \/ HandleClosed PROVE Forgotten'
  <2>1. queue' = queue /\ todo' = <<>>
    BY <1>17 DEF HandleBatch, HandleUpdate, HandleSyncRefused, HandleClosed, disk, loop, Arrives,
                 Idle
  <2>2. requests' \subseteq requests /\ UNCHANGED <<blocked, waiting>>
    BY <1>17 DEF HandleBatch, HandleUpdate, HandleSyncRefused, HandleClosed, books
  <2> QED BY <1>4, <2>1, <2>2
<1>18. ASSUME NEW x \in Deletion, DeleteConversation(x) PROVE Forgotten'
  <2>1. /\ queue' = {f \in queue : f.msg \notin Text} /\ UNCHANGED <<blocked, waiting, requests>>
        /\ todo' = <<"deletions">> \/ todo' = <<>>
    BY <1>18 DEF DeleteConversation, books, Work
  <2>2. \A m \in Text : status'[m] = IF status[m] = "none" THEN "none" ELSE "erased"
    BY <1>18 DEF DeleteConversation
  <2>3. \A m \in Text : status[m] = "none" => ~Has(m, queue)
    BY <1>0 DEF Real, Genuine, Has
  <2>4. \A m \in Text : status'[m] = "erased" \/ Free(m, blocked', waiting', requests')
    BY <2>1, <2>2, <2>3 DEF Forgotten
  <2>5. todo' = <<>> \/ (todo' # <<>> /\ Head(todo') = "deletions") BY <2>1
  <2> QED BY <2>4, <2>5 DEF Forgotten
<1>19. ASSUME VerifyContact PROVE Forgotten'
  <2>1. /\ queue' = {f \in queue : \A t \in tombstone : f.msg # t.id} /\ todo' = <<"sync">>
        /\ UNCHANGED <<status, blocked, waiting, requests>>
    BY <1>19 DEF VerifyContact, Work, books
  <2>2. \A t \in tombstone : t.id \notin Text BY MessageAssumption DEF Types, DiskTypes
  <2>3. \A m \in Text : Has(m, queue) => Has(m, queue') BY <2>1, <2>2 DEF Has
  <2> QED BY <1>2, <2>1, <2>3 DEF Forgotten
<1>20. ASSUME ServiceStep \/ Retry \/ RequestSync \/ TryReconnect \/ ReconnectFails \/ Reconnected
              \/ Start \/ Crash
       PROVE  Forgotten'
  <2>1. blocked' \subseteq blocked /\ waiting' \subseteq waiting /\ requests' \subseteq requests
    BY <1>20 DEF ServiceStep, Retry, RequestSync, TryReconnect, ReconnectFails, Reconnected,
                 Start, Crash, books
  <2>2. queue' = queue
    BY <1>20 DEF ServiceStep, Retry, RequestSync, TryReconnect, ReconnectFails, Reconnected,
                 Start, Crash, disk
  <2>3. todo' \in {<<>>, <<"resend", "deletions">>, <<"resend">>, <<"sync">>,
                   <<"resend", "deletions", "sync">>}
    BY <1>20 DEF ServiceStep, Retry, RequestSync, TryReconnect, ReconnectFails, Reconnected,
                 Start, Crash, Work, Idle
  <2>4. todo' = <<>> \/ (todo' # <<>> /\ Head(todo') # "remove") BY <2>3
  <2> QED BY <1>4, <2>1, <2>2, <2>4
<1>21. ASSUME \/ \E id \in syncs : ExpireSync(id)
              \/ \E m \in waiting : Elapse(m)
              \/ \E m \in Text : PeerAcks(m)
              \/ \E r \in BOOLEAN : ServerRefuses(r)
              \/ LinkBreaks \/ ServerAccepts \/ ServerSyncs \/ ServerRefusesSync \/ UNCHANGED vars
       PROVE  Forgotten'
  BY <1>5, <1>21 DEF ExpireSync, Elapse, PeerAcks, ServerRefuses, LinkBreaks, ServerAccepts,
                     ServerSyncs, ServerRefusesSync, vars, disk, books, loop
<1> QED
  BY <1>8, <1>9, <1>10, <1>11, <1>12, <1>13, <1>15, <1>16, <1>17, <1>18, <1>19, <1>20, <1>21
  DEF Next, Receive

\* A message that has left the outbox is neither pending, waiting nor blocked: an
\* answer to an earlier request, late or repeated, does not bring it back
\* (SendAccepted and Error of handle_frame, complete_outbox).
THEOREM SettledForgotten == Spec => []SettledIsForgotten
<1>1. Init => Forgotten BY DEF Init, Forgotten, Free
<1>2. Types /\ Consistent /\ Forgotten /\ [Next]_vars => Forgotten' BY ForgottenStep
<1>3. Forgotten => SettledIsForgotten
  BY DEF Forgotten, SettledIsForgotten, Has, Free, Queued, Pending
<1> QED BY <1>1, <1>2, <1>3, TypesAlways, ConsistentAlways, PTL DEF Spec

(***************************************************************************)
(* What the sender is promised                                             *)
(***************************************************************************)

LEMMA PromiseStep ==
    ASSUME Types, Consistent, [Next]_vars
    PROVE  [P!Next]_<<status, stored \cap Text, acked>>
<1>0. /\ status \in [Text -> {"none", "sending", "sent", "delivered", "erased"}]
      /\ Real /\ Truthful /\ Settled
  BY DEF Types, DiskTypes, Consistent
<1>1. ASSUME UNCHANGED <<status, stored, acked>> PROVE UNCHANGED <<status, stored \cap Text, acked>>
  BY <1>1
\* Taken by the server: what it was sent.
<1>2. ASSUME NEW S, stored' = stored \cup S, \A m \in S : \E f \in Sends(up) : f.msg = m,
             UNCHANGED <<status, acked>>
      PROVE  P!Next
  <2>1. \A m \in S \cap Text : status[m] # "none" BY <1>0, <1>2 DEF Real, Genuine
  <2>2. (stored \cap Text)' = (stored \cap Text) \cup (S \cap Text) BY <1>2
  <2>3. P!Take(S \cap Text) BY <1>2, <2>1, <2>2 DEF P!Take
  <2> QED BY <2>3 DEF P!Next
<1>3. ASSUME Overtaken, UNCHANGED <<status, acked>> PROVE P!Next
  <2>1. PICK S \in SUBSET Message :
            /\ stored' = stored \cup S
            /\ \A m \in S : \E f \in Range(up) : f.kind = "send" /\ f.msg = m
    BY <1>3, OvertakenOnTheWay
  <2> QED BY <1>2, <1>3, <2>1 DEF Sends
<1>4. ASSUME ServerAccepts PROVE P!Next
  <2>1. PICK f \in Sends(up) : f = Head(up) BY <1>4, FirstRequest DEF ServerAccepts, Sends
  <2>2. PICK S : S = {f.msg} OBVIOUS
  <2>3. stored' = stored \cup S /\ UNCHANGED <<status, acked>>
    BY <1>4, <2>1, <2>2 DEF ServerAccepts, disk
  <2>4. \A m \in S : \E g \in Sends(up) : g.msg = m BY <2>2
  <2> QED BY <1>2, <2>3, <2>4
<1>5. ASSUME LinkBreaks \/ Reconnected \/ Crash PROVE P!Next
  BY <1>3, <1>5 DEF LinkBreaks, Reconnected, Crash, disk
<1>6. ASSUME NEW m \in Text, SendText(m) PROVE P!Next
  <2>1. status[m] = "none" /\ status' = [status EXCEPT ![m] = "sending"]
        /\ UNCHANGED <<stored, acked>>
    BY <1>6 DEF SendText, server
  <2>2. P!Write(m) BY <2>1 DEF P!Write, P!Show
  <2> QED BY <2>2 DEF P!Next
<1>7. ASSUME NEW m \in Text, PeerAcks(m) PROVE P!Next
  <2>1. m \in stored \cap Text /\ acked' = acked \cup {m} /\ UNCHANGED <<status, stored>>
    BY <1>7 DEF PeerAcks, disk
  <2>2. P!Reach(m) BY <2>1 DEF P!Reach
  <2> QED BY <2>2 DEF P!Next
\* complete_outbox shows the one message it is at as sent, if it was not shown
\* as more than that.
<1>8. ASSUME ShowSent PROVE [P!Next]_<<status, stored \cap Text, acked>>
  <2>1. /\ \A m, n \in subject : m = n
        /\ subject \subseteq stored /\ UNCHANGED <<stored, acked>>
    BY <1>0, <1>8 DEF ShowSent, server, Types, BookTypes, Settled
  <2>2. status' = [m \in Text |-> IF m \in subject /\ status[m] # "none"
                                        /\ Rank[status[m]] < Rank["sent"]
                                  THEN "sent" ELSE status[m]]
    BY <1>8 DEF ShowSent, UpdateStatus
  <2>3. \A m \in Text : (status[m] # "none" /\ Rank[status[m]] < Rank["sent"])
                            <=> status[m] = "sending"
    BY <1>0 DEF Rank
  <2>4. status' = [m \in Text |-> IF m \in subject /\ status[m] = "sending"
                                  THEN "sent" ELSE status[m]]
    BY <2>2, <2>3
  <2>5. CASE \E m \in subject \cap Text : status[m] = "sending"
    <3>1. PICK m \in subject \cap Text : status[m] = "sending" BY <2>5
    <3>2. status' = [status EXCEPT ![m] = "sent"] BY <1>0, <2>1, <2>4, <3>1
    <3>3. P!Sent(m) BY <2>1, <3>1, <3>2 DEF P!Sent, P!Show
    <3> QED BY <3>1, <3>3 DEF P!Next
  <2>6. CASE \A m \in subject \cap Text : status[m] # "sending"
    <3>1. status' = status BY <1>0, <2>4, <2>6
    <3> QED BY <2>1, <3>1
  <2> QED BY <2>5, <2>6
<1>9. ASSUME NEW U \in SUBSET acked, UpdateStatus(U, "delivered"), UNCHANGED <<stored, acked>>
      PROVE  P!Next
  <2>1. \A m \in Text : (status[m] # "none" /\ Rank[status[m]] < Rank["delivered"])
                            <=> status[m] \in {"sending", "sent"}
    BY <1>0 DEF Rank
  <2>2. status' = [m \in Text |-> IF m \in U /\ status[m] \in {"sending", "sent"}
                                  THEN "delivered" ELSE status[m]]
    BY <1>9, <2>1 DEF UpdateStatus
  <2>3. P!Delivered(U) BY <1>9, <2>2 DEF P!Delivered
  <2>4. U \in SUBSET Text BY DEF Types, WireTypes
  <2> QED BY <2>3, <2>4 DEF P!Next
<1>10. ASSUME HandleBatch \/ HandleUpdate PROVE P!Next
  <2>1. /\ Head(down) \in Range(down) /\ Head(down).kind \in {"batch", "update"}
    BY <1>10, FirstReply DEF HandleBatch, HandleUpdate
  <2>2. Head(down).updates \subseteq acked BY <1>0, <2>1 DEF Truthful, Told
  <2>3. UpdateStatus(Head(down).updates, "delivered") /\ UNCHANGED <<stored, acked>>
    BY <1>10 DEF HandleBatch, HandleUpdate, server
  <2> QED BY <1>9, <2>2, <2>3
<1>11. ASSUME NEW x \in Deletion, DeleteConversation(x) PROVE P!Next
  <2>1. P!Erase BY <1>11 DEF DeleteConversation, server, P!Erase
  <2> QED BY <2>1 DEF P!Next
<1>12. ASSUME Resend \/ SendDeletion \/ NobodyToTell \/ NoDeletionSent \/ AskSync \/ RemoveOutbox
              \/ MarkSynced
       PROVE  UNCHANGED <<status, stored, acked>>
  BY <1>12 DEF Resend, SendDeletion, NobodyToTell, NoDeletionSent, AskSync, RemoveOutbox,
               MarkSynced, disk, server
<1>13. ASSUME HandleAccepted \/ HandleRefused \/ HandleSyncRefused \/ HandleClosed
       PROVE  UNCHANGED <<status, stored, acked>>
  BY <1>13 DEF HandleAccepted, HandleRefused, HandleSyncRefused, HandleClosed, disk, server
<1>14. ASSUME \/ \E f \in requests : Expire(f)
              \/ \E id \in syncs : ExpireSync(id)
              \/ \E m \in waiting : Elapse(m)
              \/ \E r \in BOOLEAN : ServerRefuses(r)
       PROVE  UNCHANGED <<status, stored, acked>>
  BY <1>14 DEF Expire, ExpireSync, Elapse, ServerRefuses, disk, server
<1>15. ASSUME ServiceStep \/ Retry \/ RequestSync \/ VerifyContact \/ TryReconnect
              \/ ReconnectFails \/ Start \/ ServerSyncs \/ ServerRefusesSync \/ UNCHANGED vars
       PROVE  UNCHANGED <<status, stored, acked>>
  BY <1>15 DEF ServiceStep, Retry, RequestSync, VerifyContact, TryReconnect, ReconnectFails, Start,
               ServerSyncs, ServerRefusesSync, vars, disk, server
<1> QED
  BY <1>1, <1>4, <1>5, <1>6, <1>7, <1>8, <1>10, <1>11, <1>12, <1>13, <1>14, <1>15
  DEF Next, Receive

\* What the sender is shown is true and never goes back (update_status compares
\* the ranks; a status is "sent" only on an acceptance and "delivered" only on an
\* update the server recorded), in whichever order pushes, replies to syncs and
\* answers to repeated requests come.
THEOREM ShowsTruth == Spec => ShowsTheTruth
<1>1. Init => P!Init BY DEF Init, P!Init
<1>2. Types /\ Consistent /\ [Next]_vars => [P!Next]_<<status, stored \cap Text, acked>>
  BY PromiseStep
<1> QED BY <1>1, <1>2, TypesAlways, ConsistentAlways, PTL DEF Spec, ShowsTheTruth, P!Promise

=============================================================================
