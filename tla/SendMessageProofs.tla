-------------------------- MODULE SendMessageProofs --------------------------
(***************************************************************************)
(* What SendMessage guarantees for every set of requests, rooms, devices   *)
(* and answers, and for both values of its configuration flags.            *)
(***************************************************************************)
EXTENDS SendMessage, TLAPS

-----------------------------------------------------------------------------
(* Type correctness.                                                       *)

(* Every action of send_message's coroutine keeps the types.               *)
LEMMA CoroutineType ==
  ASSUME TypeOK, NEW q \in Requests, Coroutine(q)
  PROVE  TypeOK'
<1> USE RoomOfAssumption, NoneAssumption
      DEF TypeOK, Stages, Statuses, Goto, Return, Release, PopQueue, Respond,
          coroutineVars, cryptoVars, roomVars, gateVars, uiVars
<1>1. CASE RejectToken(q)  BY <1>1 DEF RejectToken
<1>2. CASE RejectRoom(q)  BY <1>2 DEF RejectRoom, HasBeenSynced
<1>3. CASE LookupRoom(q)  BY <1>3 DEF LookupRoom
<1>4. CASE RejectBody(q)  BY <1>4 DEF RejectBody
<1>5. CASE ReadBody(q)  BY <1>5 DEF ReadBody
<1>6. CASE Forward(q)  BY <1>6 DEF Forward
<1>7. CASE Acquire(q)  BY <1>7 DEF Acquire
<1>8. CASE FetchMembers(q)  BY <1>8 DEF FetchMembers
<1>9. CASE FetchMembersFails(q)  BY <1>9 DEF FetchMembersFails
<1>10. CASE Send(q)  BY <1>10 DEF Send, ShareSession
<1>11. CASE SendFails(q)  BY <1>11 DEF SendFails
<1>12. CASE SendReturns(q)  BY <1>12 DEF SendReturns
<1>13. CASE Ask(q)  BY <1>13 DEF Ask
<1>14. CASE TakeSendAnyways(q)
  <2>1. Head(queue[q]) \in Message /\ Tail(queue[q]) \in Seq(Message)
    BY <1>14 DEF TakeSendAnyways
  <2>2. Head(queue[q]).id \in Answers  BY <2>1 DEF Message
  <2> QED  BY <1>14, <2>1, <2>2 DEF TakeSendAnyways
<1>15. CASE TakeCancelSending(q)
  <2>1. Head(queue[q]) \in Message /\ Tail(queue[q]) \in Seq(Message)
    BY <1>15 DEF TakeCancelSending
  <2>2. Head(queue[q]).id \in Answers  BY <2>1 DEF Message
  <2> QED  BY <1>15, <2>1, <2>2 DEF TakeCancelSending
<1>16. CASE Timeout(q)  BY <1>16 DEF Timeout
<1>17. CASE SendAnyways(q)  BY <1>17 DEF SendAnyways, ShareSession
<1>18. CASE SendAnywaysFails(q)  BY <1>18 DEF SendAnywaysFails
<1>19. CASE SendAnywaysReturns(q)  BY <1>19 DEF SendAnywaysReturns
<1> QED
  BY <1>1, <1>2, <1>3, <1>4, <1>5, <1>6, <1>7, <1>8, <1>9, <1>10, <1>11, <1>12, <1>13,
     <1>14, <1>15, <1>16, <1>17, <1>18, <1>19 DEF Coroutine

(* So does the router, whichever way an answer goes ...                    *)
LEMMA RouterType ==
  ASSUME TypeOK, Router
  PROVE  TypeOK'
<1> USE DEF TypeOK, coroutineVars, cryptoVars, roomVars, gateVars, uiVars
<1>1. Head(inbox) \in Message /\ Tail(inbox) \in Seq(Message)
  BY DEF Router, RejectAnswer, DeliverAnswer
<1>2. Head(inbox).id \in Answers /\ Head(inbox).room \in Rooms  BY <1>1 DEF Message
<1>3. CASE RejectAnswer  BY <1>1, <1>2, <1>3 DEF RejectAnswer, Respond
<1>4. CASE DeliverAnswer
  <2> DEFINE q == send_decision_queues[Head(inbox).room]
  <2>1. q \in Requests  BY <1>2, <1>4 DEF DeliverAnswer
  <2>2. Append(queue[q], Head(inbox)) \in Seq(Message)  BY <1>1, <2>1
  <2> QED  BY <1>1, <1>2, <1>4, <2>1, <2>2 DEF DeliverAnswer
<1> QED  BY <1>3, <1>4 DEF Router

(* ... and the user, the background sync, and a step of none of these.     *)
LEMMA EnvironmentType ==
  ASSUME TypeOK, User \/ Sync \/ (\E q \in Requests : Disconnect(q)) \/ UNCHANGED vars
  PROVE  TypeOK'
<1> USE RoomOfAssumption DEF TypeOK, coroutineVars, cryptoVars, roomVars, gateVars, uiVars
<1>1. ASSUME NEW a \in Answers, NEW r \in Rooms,
             NEW k \in {"send_anyways", "cancel_sending"}, Answer(a, r, k)
      PROVE  TypeOK'
  <2>1. [id |-> a, room |-> r, kind |-> k] \in Message  BY DEF Message
  <2> QED  BY <1>1, <2>1 DEF Answer
<1>2. ASSUME NEW d \in Devices, DecideDevice(d) \/ UndecideDevice(d)
      PROVE  TypeOK'
  <2>1. \/ trust' = [trust EXCEPT ![d] = "decided"] \/ trust' = [trust EXCEPT ![d] = "unset"]
    BY <1>2 DEF DecideDevice, UndecideDevice
  <2>2. session_shared' \in [Rooms -> BOOLEAN]
    BY <1>2 DEF DecideDevice, UndecideDevice, Invalidate
  <2>3. UNCHANGED <<members_known, room_devices, coroutineVars, roomVars, gateVars, uiVars>>
    BY <1>2 DEF DecideDevice, UndecideDevice
  <2> QED  BY <2>1, <2>2, <2>3
<1>3. ASSUME NEW r \in Rooms, SyncRoom(r) \/ SyncEncryption(r)
      PROVE  TypeOK'
  BY <1>3 DEF SyncRoom, SyncEncryption
<1>4. ASSUME NEW r \in Rooms, NEW d \in Devices, SyncDevice(r, d)
      PROVE  TypeOK'
  BY <1>4 DEF SyncDevice
<1>5. ASSUME NEW q \in Requests, Disconnect(q)
      PROVE  TypeOK'
  BY <1>5 DEF Disconnect, Return, Goto, Release, PopQueue, Stages, Statuses
<1>6. CASE UNCHANGED vars  BY <1>6 DEF vars
<1> QED  BY <1>1, <1>2, <1>3, <1>4, <1>5, <1>6 DEF User, Sync

(* A fresh daemon has the types.                                           *)
LEMMA TypeCorrectInit ==
  ASSUME Init
  PROVE  TypeOK
<1> USE DEF Init
<1>1. pc \in [Requests -> Stages] /\ status \in [Requests -> Statuses]
  BY DEF Stages, Statuses
<1>2. /\ queue \in [Requests -> Seq(Message)] /\ inbox \in Seq(Message)
      /\ encrypt \in [Requests -> BOOLEAN] /\ posted \in [Requests -> Nat]
  OBVIOUS
<1>3. /\ response \in [Requests -> Message \cup {None}]
      /\ semaphore \in [Rooms -> Requests \cup {None}]
      /\ send_decision_queues \in [Rooms -> Requests \cup {None}]
  OBVIOUS
<1>4. /\ members_fetched \in [Rooms -> BOOLEAN] /\ members_known \in [Rooms -> BOOLEAN]
      /\ encrypted \in [Rooms -> BOOLEAN] /\ session_shared \in [Rooms -> BOOLEAN]
      /\ room_devices \in [Rooms -> SUBSET Devices]
  OBVIOUS
<1>5. /\ rooms \subseteq Rooms /\ synced \in BOOLEAN /\ submitted \subseteq Answers
      /\ trust \in [Devices -> {"unset", "decided", "ignored"}]
      /\ reply \in [Answers -> {"none", "m.ok", "m.unknown_request"}]
  OBVIOUS
<1> QED  BY <1>1, <1>2, <1>3, <1>4, <1>5 DEF TypeOK

(* The induction step of TypeCorrect.                                      *)
LEMMA TypeCorrectStep ==
  ASSUME TypeOK, [Next]_vars
  PROVE  TypeOK'
BY CoroutineType, RouterType, EnvironmentType DEF Next

(* Every variable keeps its type in every behaviour.                       *)
THEOREM TypeCorrect == Spec => []TypeOK
<1>1. Init => TypeOK  BY TypeCorrectInit
<1>2. TypeOK /\ [Next]_vars => TypeOK'  BY TypeCorrectStep
<1> QED  BY <1>1, <1>2, PTL DEF Spec

-----------------------------------------------------------------------------
(* The inductive invariant.  Who is inside "async with sem", whose queue   *)
(* is registered and what has been posted are kept by one lemma each; all  *)
(* steps but those of the coroutines leave the three alone.                *)

StageVars == <<pc, status, posted, semaphore, send_decision_queues>>

(* The router, the user and the sync leave alone where coroutines stand,   *)
(* what they posted and who holds a semaphore or has a queue registered.   *)
LEMMA OthersKeepStages ==
  ASSUME Router \/ User \/ Sync \/ UNCHANGED vars
  PROVE  UNCHANGED StageVars /\ UNCHANGED response
BY DEF Router, RejectAnswer, DeliverAnswer, User, Answer, DecideDevice, UndecideDevice,
       Sync, SyncRoom, SyncEncryption, SyncDevice, vars, StageVars,
       coroutineVars, cryptoVars, roomVars, gateVars, uiVars

(* Entering, staying in and leaving the semaphore.                         *)
LEMMA SemaphoreStep ==
  ASSUME TypeOK, SemaphoreExclusive, OnePromptPerRoom,
         NEW q \in Requests, Coroutine(q) \/ Disconnect(q)
  PROVE  SemaphoreExclusive' /\ OnePromptPerRoom'
<1> USE RoomOfAssumption, NoneAssumption
      DEF TypeOK, SemaphoreExclusive, OnePromptPerRoom, Inside, Asking,
          Goto, Return, Release, PopQueue, coroutineVars, gateVars
<1>1. ASSUME \/ RejectToken(q) \/ RejectRoom(q) \/ LookupRoom(q) \/ RejectBody(q)
             \/ ReadBody(q) \/ Forward(q)
      PROVE  SemaphoreExclusive' /\ OnePromptPerRoom'
  <2>1. /\ pc[q] \notin Inside
        /\ \E s \in Stages \ Inside : pc' = [pc EXCEPT ![q] = s]
        /\ UNCHANGED <<semaphore, send_decision_queues>>
    BY <1>1 DEF RejectToken, RejectRoom, LookupRoom, RejectBody, ReadBody, Forward, Stages
  <2> QED  BY <2>1
<1>2. CASE Acquire(q)  BY <1>2 DEF Acquire
<1>3. CASE FetchMembers(q)  BY <1>3 DEF FetchMembers
<1>4. ASSUME Send(q) \/ SendAnyways(q)
      PROVE  SemaphoreExclusive' /\ OnePromptPerRoom'
  <2>1. CASE Send(q)  BY <2>1 DEF Send
  <2>2. CASE SendAnyways(q)  BY <2>2 DEF SendAnyways
  <2> QED  BY <1>4, <2>1, <2>2
<1>5. ASSUME FetchMembersFails(q) \/ SendFails(q) \/ SendReturns(q)
      PROVE  SemaphoreExclusive' /\ OnePromptPerRoom'
  <2>1. /\ pc[q] \in Inside \ Asking
        /\ pc' = [pc EXCEPT ![q] = "done"]
        /\ semaphore' = [semaphore EXCEPT ![RoomOf[q]] = None]
        /\ UNCHANGED send_decision_queues
    BY <1>5 DEF FetchMembersFails, SendFails, SendReturns
  <2> QED  BY <2>1
<1>6. CASE Ask(q)  BY <1>6 DEF Ask
<1>7. CASE TakeSendAnyways(q)  BY <1>7 DEF TakeSendAnyways
<1>8. ASSUME TakeCancelSending(q) \/ Timeout(q) \/ SendAnywaysFails(q) \/ SendAnywaysReturns(q)
      PROVE  SemaphoreExclusive' /\ OnePromptPerRoom'
  <2>1. /\ pc[q] \in Asking
        /\ pc' = [pc EXCEPT ![q] = "done"]
        /\ semaphore' = [semaphore EXCEPT ![RoomOf[q]] = None]
        /\ send_decision_queues' = [send_decision_queues EXCEPT ![RoomOf[q]] = None]
    BY <1>8 DEF TakeCancelSending, Timeout, SendAnywaysFails, SendAnywaysReturns
  <2> QED  BY <2>1
<1>9. CASE Disconnect(q)
  <2>1. CASE pc[q] \in Asking  BY <1>9, <2>1 DEF Disconnect
  <2>2. CASE pc[q] \in Inside \ Asking  BY <1>9, <2>2 DEF Disconnect
  <2>3. CASE pc[q] \notin Inside  BY <1>9, <2>3 DEF Disconnect
  <2> QED  BY <2>1, <2>2, <2>3
<1> QED
  BY <1>1, <1>2, <1>3, <1>4, <1>5, <1>6, <1>7, <1>8, <1>9 DEF Coroutine

(* What a coroutine has posted and returned.                               *)
LEMMA PostedStep ==
  ASSUME TypeOK, StageTellsPosted, PostedAtMostOnce,
         NEW q \in Requests, Coroutine(q) \/ Disconnect(q)
  PROVE  StageTellsPosted' /\ PostedAtMostOnce'
<1> USE DEF TypeOK, StageTellsPosted, PostedAtMostOnce, Goto, Return, coroutineVars
<1>1. ASSUME NEW s \in {"body", "acquire", "forwarding", "members", "ready", "asking", "approved"},
             pc[q] \in {"idle", "body", "acquire", "members", "ready", "asking"},
             pc' = [pc EXCEPT ![q] = s], UNCHANGED <<status, posted>>
      PROVE  StageTellsPosted' /\ PostedAtMostOnce'
  BY <1>1
<1>2. ASSUME NEW s \in Statuses, s # "sent", pc[q] # "done",
             pc[q] \in {"posting", "reposting"} => s \in {"failed", "dropped"},
             pc' = [pc EXCEPT ![q] = "done"], status' = [status EXCEPT ![q] = s],
             UNCHANGED posted
      PROVE  StageTellsPosted' /\ PostedAtMostOnce'
  BY <1>2 DEF Stages
<1>3. ASSUME pc[q] \in {"ready", "approved"}, NEW s \in {"posting", "reposting"},
             pc' = [pc EXCEPT ![q] = s], posted' = [posted EXCEPT ![q] = @ + 1],
             UNCHANGED status
      PROVE  StageTellsPosted' /\ PostedAtMostOnce'
  <2>1. posted[q] = 0 /\ status[q] = "none"  BY <1>3
  <2>2. posted' = [posted EXCEPT ![q] = 1]  BY <1>3, <2>1
  <2> QED  BY <1>3, <2>1, <2>2
<1>4. ASSUME NEW s \in {"sent", "failed"}, pc[q] \in {"posting", "reposting"},
             pc' = [pc EXCEPT ![q] = "done"], status' = [status EXCEPT ![q] = s],
             UNCHANGED posted
      PROVE  StageTellsPosted' /\ PostedAtMostOnce'
  BY <1>4
<1>5. CASE \/ LookupRoom(q) \/ ReadBody(q) \/ Acquire(q) \/ FetchMembers(q)
           \/ Ask(q) \/ TakeSendAnyways(q)
  BY <1>1, <1>5 DEF LookupRoom, ReadBody, Acquire, FetchMembers, Ask, TakeSendAnyways
<1>6. CASE \/ RejectToken(q) \/ RejectRoom(q) \/ RejectBody(q) \/ Forward(q)
           \/ FetchMembersFails(q) \/ SendFails(q) \/ TakeCancelSending(q)
           \/ Timeout(q) \/ SendAnywaysFails(q) \/ Disconnect(q)
  BY <1>2, <1>6 DEF RejectToken, RejectRoom, HasBeenSynced, RejectBody, Forward,
       FetchMembersFails, SendFails, TakeCancelSending, Timeout, SendAnywaysFails,
       Disconnect, Statuses
<1>7. CASE Send(q) \/ SendAnyways(q)  BY <1>3, <1>7 DEF Send, SendAnyways
<1>8. CASE SendReturns(q) \/ SendAnywaysReturns(q)
  BY <1>4, <1>8 DEF SendReturns, SendAnywaysReturns
<1> QED  BY <1>5, <1>6, <1>7, <1>8 DEF Coroutine

(* What lies on a decision queue and what was taken off it.                *)
LEMMA AnswerStep ==
  ASSUME TypeOK, QueuedForRoom, ApprovedByAnswer,
         NEW q \in Requests, Coroutine(q) \/ Disconnect(q)
  PROVE  QueuedForRoom' /\ ApprovedByAnswer'
<1> USE DEF TypeOK, QueuedForRoom, ApprovedByAnswer, Goto, Return, coroutineVars
<1>1. ASSUME NEW s \in Stages, pc' = [pc EXCEPT ![q] = s],
             s \in {"approved", "reposting"} => pc[q] = "approved",
             UNCHANGED <<queue, response>>
      PROVE  QueuedForRoom' /\ ApprovedByAnswer'
  BY <1>1
<1>2. ASSUME \/ RejectToken(q) \/ RejectRoom(q) \/ LookupRoom(q) \/ RejectBody(q)
             \/ ReadBody(q) \/ Forward(q) \/ Acquire(q) \/ FetchMembers(q)
             \/ FetchMembersFails(q) \/ Send(q) \/ SendFails(q) \/ SendReturns(q)
      PROVE  QueuedForRoom' /\ ApprovedByAnswer'
  <2>1. /\ UNCHANGED <<queue, response>>
        /\ \E s \in Stages \ {"approved", "reposting"} : pc' = [pc EXCEPT ![q] = s]
    BY <1>2 DEF RejectToken, RejectRoom, LookupRoom, RejectBody, ReadBody, Forward,
         Acquire, FetchMembers, FetchMembersFails, Send, SendFails, SendReturns, Stages
  <2> QED  BY <1>1, <2>1
<1>3. CASE \/ Timeout(q) \/ SendAnyways(q) \/ SendAnywaysFails(q)
           \/ SendAnywaysReturns(q) \/ Disconnect(q)
  BY <1>1, <1>3 DEF Timeout, SendAnyways, SendAnywaysFails, SendAnywaysReturns,
       Disconnect, Stages
<1>4. CASE Ask(q)
  <2>1. /\ queue' = [queue EXCEPT ![q] = <<>>] /\ UNCHANGED response
        /\ pc' = [pc EXCEPT ![q] = "asking"]
    BY <1>4 DEF Ask
  <2> QED  BY <2>1
<1>5. ASSUME queue[q] # <<>>, queue' = [queue EXCEPT ![q] = Tail(@)]
      PROVE  /\ QueuedForRoom'
             /\ Head(queue[q]) \in Message /\ Head(queue[q]).room = RoomOf[q]
  <2>1. /\ Head(queue[q]) = queue[q][1] /\ Len(queue[q]) \in Nat /\ 1 \in 1..Len(queue[q])
        /\ Head(queue[q]) \in Message
    BY <1>5
  <2>2. Len(queue'[q]) = Len(queue[q]) - 1
    BY <1>5
  <2>3. \A i \in 1..Len(queue'[q]) : queue'[q][i] = queue[q][i + 1] /\ i + 1 \in 1..Len(queue[q])
    BY <1>5, <2>1, <2>2
  <2>4. \A p \in Requests \ {q} : queue'[p] = queue[p]
    BY <1>5
  <2>5. ASSUME NEW i \in 1..Len(queue'[q])
        PROVE  queue'[q][i].room = RoomOf[q]
    <3>1. queue'[q][i] = queue[q][i + 1] /\ i + 1 \in 1..Len(queue[q])  BY <2>3
    <3>2. \A j \in 1..Len(queue[q]) : queue[q][j].room = RoomOf[q]  OBVIOUS
    <3> QED  BY ONLY <3>1, <3>2
  <2>6. \A p \in Requests : \A i \in 1..Len(queue'[p]) : queue'[p][i].room = RoomOf[p]
    BY <2>4, <2>5
  <2> QED  BY <2>1, <2>6
<1>6. CASE TakeSendAnyways(q)  BY <1>5, <1>6 DEF TakeSendAnyways
<1>7. CASE TakeCancelSending(q)  BY <1>5, <1>7 DEF TakeCancelSending
<1> QED  BY <1>2, <1>3, <1>4, <1>6, <1>7 DEF Coroutine

(* The router puts an answer on a queue of the room the answer names.      *)
LEMMA RouterAnswerStep ==
  ASSUME TypeOK, OnePromptPerRoom, QueuedForRoom, Router
  PROVE  QueuedForRoom'
<1> USE DEF TypeOK, QueuedForRoom
<1>1. CASE RejectAnswer  BY <1>1 DEF RejectAnswer, coroutineVars
<1>2. CASE DeliverAnswer
  <2> DEFINE m == Head(inbox)
             q == send_decision_queues[m.room]
  <2>1. m \in Message  BY <1>2 DEF DeliverAnswer
  <2>2. q \in Requests /\ RoomOf[q] = m.room
    BY <1>2, <2>1, NoneAssumption DEF DeliverAnswer, OnePromptPerRoom, Message
  <2>3. queue' = [queue EXCEPT ![q] = Append(@, m)]  BY <1>2 DEF DeliverAnswer
  <2> HIDE DEF m, q
  <2>4. \A p \in Requests \ {q} : queue'[p] = queue[p]  BY <2>3
  <2>5. queue'[q] = Append(queue[q], m)  BY <2>2, <2>3
  <2>6. \A i \in 1..Len(queue'[q]) : queue'[q][i].room = RoomOf[q]
    BY <2>1, <2>2, <2>5
  <2> QED  BY <2>4, <2>6
<1> QED  BY <1>1, <1>2 DEF Router

(* The invariant holds in every behaviour, and with it its parts: one      *)
(* coroutine per semaphore, one registered queue per prompt, one post.     *)
THEOREM Invariance == Spec => []IndInv
<1>1. Init => IndInv
  <2> SUFFICES ASSUME Init PROVE IndInv
    OBVIOUS
  <2>1. SemaphoreExclusive /\ OnePromptPerRoom
    BY NoneAssumption, RoomOfAssumption
       DEF Init, SemaphoreExclusive, OnePromptPerRoom, Inside, Asking
  <2>2. QueuedForRoom /\ ApprovedByAnswer /\ StageTellsPosted /\ PostedAtMostOnce
    BY DEF Init, QueuedForRoom, ApprovedByAnswer, StageTellsPosted, PostedAtMostOnce
  <2> QED  BY <2>1, <2>2, TypeCorrectInit DEF IndInv
<1>2. IndInv /\ [Next]_vars => IndInv'
  <2> SUFFICES ASSUME IndInv, [Next]_vars PROVE IndInv'
    OBVIOUS
  <2>1. TypeOK'  BY TypeCorrectStep DEF IndInv
  <2>2. ASSUME NEW q \in Requests, Coroutine(q) \/ Disconnect(q)
        PROVE  IndInv'
    BY <2>1, <2>2, SemaphoreStep, PostedStep, AnswerStep DEF IndInv
  <2>3. ASSUME Router \/ User \/ Sync \/ UNCHANGED vars
        PROVE  IndInv'
    <3>1. UNCHANGED StageVars /\ UNCHANGED response  BY <2>3, OthersKeepStages
    <3>2. UNCHANGED queue => QueuedForRoom'
      BY DEF IndInv, QueuedForRoom
    <3>3. QueuedForRoom'
      BY <2>3, <3>2, RouterAnswerStep
         DEF IndInv, User, Answer, DecideDevice, UndecideDevice, Sync, SyncRoom,
             SyncEncryption, SyncDevice, vars, coroutineVars
    <3> QED
      BY <2>1, <3>1, <3>3
         DEF IndInv, StageVars, SemaphoreExclusive, OnePromptPerRoom, ApprovedByAnswer,
             StageTellsPosted, PostedAtMostOnce
  <2> QED  BY <2>2, <2>3 DEF Next
<1> QED  BY <1>1, <1>2, PTL DEF Spec

-----------------------------------------------------------------------------
(* Consequences.                                                           *)

(* At any time at most one prompt is open per room, and the registered     *)
(* queue is the one its coroutine waits on.                                *)
THEOREM OnePrompt == Spec => []OnePromptPerRoom
<1>1. IndInv => OnePromptPerRoom  BY DEF IndInv
<1> QED  BY <1>1, Invariance, PTL

(* A message is posted at most once, a cancelled or timed-out one never.   *)
THEOREM PostedOnce == Spec => []PostedAtMostOnce
<1>1. IndInv => PostedAtMostOnce  BY DEF IndInv
<1> QED  BY <1>1, Invariance, PTL

(* Only the two calls of _send share a session, and only the second marks  *)
(* devices as ignored when conf.ignore_verification is off.                *)
LEMMA IgnoredStep ==
  ASSUME IndInv, [Next]_vars, NEW d \in Devices, trust[d] # "ignored", trust'[d] = "ignored"
  PROVE  IgnoreVerification \/ Consented(d)
<1> USE DEF IndInv, TypeOK
<1>1. ASSUME NEW q \in Requests, Send(q)
      PROVE  IgnoreVerification
  <2>1. ~session_shared[RoomOf[q]] /\ d \in Unverified(RoomOf[q])
    BY <1>1 DEF Send, ShareSession
  <2> QED  BY <1>1, <2>1 DEF Send, TrustError
<1>2. ASSUME NEW q \in Requests, SendAnyways(q)
      PROVE  Consented(d)
  <2>1. d \in room_devices[RoomOf[q]]
    BY <1>2 DEF SendAnyways, ShareSession, Unverified
  <2>2. pc[q] = "approved" /\ RoomOf[q] \in Rooms
    BY <1>2, RoomOfAssumption DEF SendAnyways
  <2>3. send_decision_queues[RoomOf[q]] = q
    BY <2>2 DEF OnePromptPerRoom, Asking
  <2>4. response[q].kind = "send_anyways" /\ response[q].room = RoomOf[q]
    BY <2>2 DEF ApprovedByAnswer
  <2>5. response[q] # None
    BY <2>2, NoneAssumption DEF ApprovedByAnswer
  <2> QED  BY <2>1, <2>3, <2>4, <2>5 DEF Consented
<1>3. ASSUME NEW q \in Requests, Coroutine(q), ~Send(q), ~SendAnyways(q)
      PROVE  UNCHANGED trust
  BY <1>3 DEF Coroutine, RejectToken, RejectRoom, LookupRoom, RejectBody, ReadBody, Forward,
       Acquire, FetchMembers, FetchMembersFails, SendFails, SendReturns, Ask, TakeSendAnyways,
       TakeCancelSending, Timeout, SendAnywaysFails, SendAnywaysReturns, cryptoVars
<1>4. ASSUME (\E q \in Requests : Disconnect(q)) \/ Router \/ Sync \/ UNCHANGED vars
      PROVE  UNCHANGED trust
  BY <1>4 DEF Disconnect, Router, RejectAnswer, DeliverAnswer, Sync, SyncRoom, SyncEncryption,
       SyncDevice, vars, cryptoVars
<1>5. ASSUME User
      PROVE  trust'[d] # "ignored"
  BY <1>5 DEF User, Answer, DecideDevice, UndecideDevice, cryptoVars
<1> QED  BY <1>1, <1>2, <1>3, <1>4, <1>5 DEF Next

(* Trust becomes "ignored" only by configuration or by the send-anyways    *)
(* answer to the very prompt of the message that is sent.                  *)
THEOREM Consent == Spec => IgnoredByConsent
<1>1. IndInv /\ [Next]_vars =>
        [\A d \in Devices : trust[d] # "ignored" /\ trust'[d] = "ignored"
                              => IgnoreVerification \/ Consented(d)]_vars
  BY IgnoredStep
<1> QED  BY <1>1, Invariance, PTL DEF Spec, IgnoredByConsent

-----------------------------------------------------------------------------
(* Answers.  Each submitted answer is at one place: in the inbox, on one   *)
(* decision queue, taken by one coroutine, refused or thrown away.         *)

(* Unhandled answers have no reply and no second copy.                     *)
PendingDistinct ==
  /\ \A a \in Answers \ submitted : reply[a] = "none"
  /\ \A i \in 1..Len(inbox) : inbox[i].id \in submitted /\ reply[inbox[i].id] = "none"
  /\ \A i, j \in 1..Len(inbox) : inbox[i].id = inbox[j].id => i = j
  /\ \A q \in Requests : \A i \in 1..Len(queue[q]) :
       /\ queue[q][i].id \in submitted /\ reply[queue[q][i].id] = "none"
       /\ \A j \in 1..Len(inbox) : inbox[j].id # queue[q][i].id
       /\ \A j \in 1..Len(queue[q]) : queue[q][j].id = queue[q][i].id => j = i
       /\ \A p \in Requests \ {q} : \A j \in 1..Len(queue[p]) : queue[p][j].id # queue[q][i].id

(* A taken answer was submitted, and no two coroutines took the same one.  *)
TakenDistinct ==
  \A q \in Requests : response[q] # None =>
    /\ response[q].id \in submitted
    /\ \A p \in Requests \ {q} : response[p] # None => response[p].id # response[q].id

(* A coroutine takes its only answer on leaving the prompt.                *)
NotYetAnswered ==
  \A q \in Requests : pc[q] \notin {"approved", "reposting", "done"} => response[q] = None

AnswerInv == PendingDistinct /\ TakenDistinct /\ NotYetAnswered
               /\ AnswerDecidesOne /\ AnswerLostOnlyAfterDecision

(* The elements of a sequence without its first.                           *)
LEMMA TailAt ==
  ASSUME NEW S, NEW s \in Seq(S), s # <<>>
  PROVE  /\ Head(s) \in S /\ Head(s) = s[1] /\ 1 \in 1..Len(s) /\ Tail(s) \in Seq(S)
         /\ \A i \in 1..Len(Tail(s)) : i + 1 \in 1..Len(s) /\ Tail(s)[i] = s[i + 1] /\ i + 1 # 1
         /\ \A i, j \in 1..Len(Tail(s)) : i + 1 = j + 1 => i = j
OBVIOUS

(* The elements of a sequence with one more at its end.                    *)
LEMMA AppendAt ==
  ASSUME NEW S, NEW s \in Seq(S), NEW e \in S
  PROVE  \A i \in 1..Len(Append(s, e)) :
           \/ i \in 1..Len(s) /\ Append(s, e)[i] = s[i]
           \/ i = Len(s) + 1 /\ i \notin 1..Len(s) /\ Append(s, e)[i] = e
OBVIOUS

(* Whatever is queued, taken or in the inbox has one of the answers' ids.  *)
LEMMA MessageIds ==
  ASSUME TypeOK
  PROVE  /\ \A q \in Requests : \A i \in 1..Len(queue[q]) : queue[q][i].id \in Answers
         /\ \A i \in 1..Len(inbox) : inbox[i].id \in Answers
         /\ \A q \in Requests : response[q] # None => response[q].id \in Answers
<1>1. \A x \in Message : x.id \in Answers  BY DEF Message
<1>2. /\ \A q \in Requests : \A i \in 1..Len(queue[q]) : queue[q][i] \in Message
      /\ \A i \in 1..Len(inbox) : inbox[i] \in Message
  <2>1. \A s \in Seq(Message) : \A i \in 1..Len(s) : s[i] \in Message  OBVIOUS
  <2> QED  BY <2>1 DEF TypeOK
<1> QED  BY <1>1, <1>2 DEF TypeOK

AnswerVars == <<queue, response, inbox, submitted, reply>>

(* A step that moves no answer and ends no unanswered prompt silently.     *)
LEMMA NoAnswerMoves ==
  ASSUME TypeOK, IndInv, AnswerInv, UNCHANGED AnswerVars,
         NEW q \in Requests, NEW s \in Stages, NEW st \in Statuses,
         pc' = [pc EXCEPT ![q] = s], status' = [status EXCEPT ![q] = st],
         pc[q] # "done",
         pc[q] = "asking" => st \in {"timed_out", "dropped"},
         s # "asking",
         s \in {"approved", "reposting"} => pc[q] = "approved",
         s \notin {"reposting", "done"} => pc[q] \notin {"approved", "reposting"}
  PROVE  AnswerInv'
<1>1. PendingDistinct' /\ TakenDistinct' /\ AnswerDecidesOne'
  BY DEF AnswerInv, AnswerVars, PendingDistinct, TakenDistinct, AnswerDecidesOne
<1>2. /\ \A p \in Requests \ {q} : pc'[p] = pc[p] /\ status'[p] = status[p]
      /\ pc'[q] = s /\ status'[q] = st /\ status[q] = "none"
      /\ UNCHANGED <<queue, response>>
  BY DEF IndInv, TypeOK, StageTellsPosted, AnswerVars
<1>3. NotYetAnswered'
  BY <1>2 DEF AnswerInv, NotYetAnswered
<1>4. AnswerLostOnlyAfterDecision'
  BY <1>2 DEF AnswerInv, AnswerLostOnlyAfterDecision
<1> QED  BY <1>1, <1>3, <1>4 DEF AnswerInv

(* The coroutine takes the first answer of its queue and says m.ok.        *)
LEMMA TakeStep ==
  ASSUME IndInv, AnswerInv, NEW q \in Requests, TakeSendAnyways(q) \/ TakeCancelSending(q)
  PROVE  AnswerInv'
<1> DEFINE m == Head(queue[q])
<1>1. /\ pc[q] = "asking" /\ pc'[q] \in {"approved", "done"} /\ queue[q] # <<>>
      /\ response' = [response EXCEPT ![q] = m]
      /\ queue' = [queue EXCEPT ![q] = Tail(queue[q])]
      /\ reply' = [reply EXCEPT ![m.id] = "m.ok"]
      /\ UNCHANGED <<inbox, submitted>>
      /\ \A p \in Requests \ {q} : pc'[p] = pc[p] /\ status'[p] = status[p]
  BY DEF TakeSendAnyways, TakeCancelSending, Respond, Goto, Return, IndInv, TypeOK
<1>2. /\ m \in Message /\ m = queue[q][1] /\ 1 \in 1..Len(queue[q])
      /\ \A i \in 1..Len(Tail(queue[q])) :
           i + 1 \in 1..Len(queue[q]) /\ Tail(queue[q])[i] = queue[q][i + 1] /\ i + 1 # 1
      /\ \A i, j \in 1..Len(Tail(queue[q])) : i + 1 = j + 1 => i = j
  BY <1>1, TailAt DEF IndInv, TypeOK
<1>3. /\ m.id \in submitted /\ reply[m.id] = "none" /\ m.id \in Answers /\ m.room = RoomOf[q]
      /\ m # None
  BY <1>2, NoneAssumption DEF AnswerInv, PendingDistinct, IndInv, QueuedForRoom, Message
<1> HIDE DEF m
<1>4. /\ queue'[q] = Tail(queue[q]) /\ response'[q] = m /\ response[q] = None
      /\ \A p \in Requests \ {q} : queue'[p] = queue[p] /\ response'[p] = response[p]
      /\ reply \in [Answers -> {"none", "m.ok", "m.unknown_request"}]
      /\ \A a \in Answers \ {m.id} : reply'[a] = reply[a]
      /\ reply'[m.id] = "m.ok"
  BY <1>1, <1>3 DEF IndInv, TypeOK, AnswerInv, NotYetAnswered
<1>5. /\ \A p \in Requests : \A i \in 1..Len(queue[p]) : queue[p][i].id \in Answers
      /\ \A i \in 1..Len(inbox) : inbox[i].id \in Answers
      /\ \A p \in Requests : response[p] # None => response[p].id \in Answers
  BY MessageIds DEF IndInv
<1>6. PendingDistinct'
  <2>1. \A i \in 1..Len(inbox) : inbox[i].id # m.id
    BY <1>2 DEF AnswerInv, PendingDistinct
  <2>2. \A p \in Requests \ {q} : \A i \in 1..Len(queue[p]) : queue[p][i].id # m.id
    BY <1>2 DEF AnswerInv, PendingDistinct
  <2>3. \A i \in 1..Len(Tail(queue[q])) : Tail(queue[q])[i].id # m.id
    BY <1>2 DEF AnswerInv, PendingDistinct
  <2>4. \A a \in Answers \ submitted' : reply'[a] = "none"
    BY <1>1, <1>3, <1>4 DEF AnswerInv, PendingDistinct
  <2>5. /\ \A i \in 1..Len(inbox') : inbox'[i].id \in submitted' /\ reply'[inbox'[i].id] = "none"
        /\ \A i, j \in 1..Len(inbox') : inbox'[i].id = inbox'[j].id => i = j
    BY <1>1, <1>4, <1>5, <2>1 DEF AnswerInv, PendingDistinct
  <2>6. \A p \in Requests : \A i \in 1..Len(queue'[p]) :
          \/ p # q /\ i \in 1..Len(queue[p]) /\ queue'[p][i] = queue[p][i]
          \/ p = q /\ i + 1 \in 1..Len(queue[p]) /\ queue'[p][i] = queue[p][i + 1]
    <3>1. ASSUME NEW i \in 1..Len(queue'[q])
          PROVE  i + 1 \in 1..Len(queue[q]) /\ queue'[q][i] = queue[q][i + 1]
      BY <1>2, <1>4
    <3>2. \A p \in Requests : p # q => queue'[p] = queue[p]  BY <1>4
    <3> QED  BY <3>1, <3>2
  <2>7. ASSUME NEW p \in Requests, NEW i \in 1..Len(queue'[p])
        PROVE  /\ queue'[p][i].id \in submitted /\ queue'[p][i].id \in Answers
               /\ queue'[p][i].id # m.id /\ reply[queue'[p][i].id] = "none"
               /\ \A j \in 1..Len(inbox) : inbox[j].id # queue'[p][i].id
    <3>1. CASE p # q
      <4>1. i \in 1..Len(queue[p]) /\ queue'[p][i] = queue[p][i]  BY <2>6, <2>7, <3>1
      <4> QED  BY <1>5, <2>2, <2>7, <3>1, <4>1 DEF AnswerInv, PendingDistinct
    <3>2. CASE p = q
      <4>1. i + 1 \in 1..Len(queue[q]) /\ queue'[p][i] = queue[q][i + 1]  BY <2>6, <2>7, <3>2
      <4>2. queue'[p][i].id # m.id  BY <1>4, <2>3, <2>7, <3>2
      <4> QED  BY <1>5, <3>2, <4>1, <4>2 DEF AnswerInv, PendingDistinct
    <3> QED  BY <3>1, <3>2
  <2>8. ASSUME NEW p \in Requests, NEW i \in 1..Len(queue'[p]), NEW j \in 1..Len(queue'[p]),
               queue'[p][j].id = queue'[p][i].id
        PROVE  j = i
    <3>1. CASE p = q
      <4>1. /\ i + 1 \in 1..Len(queue[q]) /\ queue'[p][i] = queue[q][i + 1]
            /\ j + 1 \in 1..Len(queue[q]) /\ queue'[p][j] = queue[q][j + 1]
        BY <2>6, <2>8, <3>1
      <4>2. i + 1 = j + 1  BY <2>8, <4>1 DEF AnswerInv, PendingDistinct
      <4> QED  BY <1>2, <1>4, <2>8, <3>1, <4>2
    <3>2. CASE p # q
      <4>1. /\ i \in 1..Len(queue[p]) /\ queue'[p][i] = queue[p][i]
            /\ j \in 1..Len(queue[p]) /\ queue'[p][j] = queue[p][j]
        BY <2>6, <2>8, <3>2
      <4> QED  BY <2>8, <4>1 DEF AnswerInv, PendingDistinct
    <3> QED  BY <3>1, <3>2
  <2>9. ASSUME NEW p \in Requests, NEW i \in 1..Len(queue'[p]),
               NEW r \in Requests \ {p}, NEW j \in 1..Len(queue'[r])
        PROVE  queue'[r][j].id # queue'[p][i].id
    <3>1. \E k \in 1..Len(queue[p]) : queue'[p][i] = queue[p][k]  BY <2>6, <2>9
    <3>2. \E k \in 1..Len(queue[r]) : queue'[r][j] = queue[r][k]  BY <2>6, <2>9
    <3> QED  BY <2>9, <3>1, <3>2 DEF AnswerInv, PendingDistinct
  <2>10. \A p \in Requests : \A i \in 1..Len(queue'[p]) : reply'[queue'[p][i].id] = "none"
    BY <1>4, <2>7
  <2> QED
    <3>1. ASSUME NEW p \in Requests, NEW i \in 1..Len(queue'[p])
          PROVE  /\ queue'[p][i].id \in submitted' /\ reply'[queue'[p][i].id] = "none"
                 /\ \A j \in 1..Len(inbox') : inbox'[j].id # queue'[p][i].id
                 /\ \A j \in 1..Len(queue'[p]) : queue'[p][j].id = queue'[p][i].id => j = i
      BY <1>1, <2>7, <2>8, <2>10
    <3>2. ASSUME NEW p \in Requests, NEW i \in 1..Len(queue'[p]), NEW r \in Requests \ {p}
          PROVE  \A j \in 1..Len(queue'[r]) : queue'[r][j].id # queue'[p][i].id
      BY <2>9
    <3> QED  BY <2>4, <2>5, <3>1, <3>2 DEF PendingDistinct
<1>7. ASSUME NEW p \in Requests, p # q, response[p] # None
      PROVE  response[p].id # m.id
  BY <1>3, <1>7 DEF AnswerInv, AnswerDecidesOne
<1>8. TakenDistinct'  BY <1>1, <1>3, <1>4, <1>7 DEF AnswerInv, TakenDistinct
<1>9. AnswerDecidesOne'
  BY <1>1, <1>3, <1>4, <1>5, <1>7 DEF AnswerInv, AnswerDecidesOne
<1>10. NotYetAnswered' /\ AnswerLostOnlyAfterDecision'
  BY <1>1, <1>3, <1>4 DEF AnswerInv, NotYetAnswered, AnswerLostOnlyAfterDecision
<1> QED  BY <1>6, <1>8, <1>9, <1>10 DEF AnswerInv

(* A prompt opens on an empty queue.                                       *)
LEMMA AskStep ==
  ASSUME IndInv, AnswerInv, NEW q \in Requests, Ask(q)
  PROVE  AnswerInv'
<1>1. /\ queue'[q] = <<>> /\ Len(queue'[q]) = 0
      /\ \A p \in Requests \ {q} : queue'[p] = queue[p] /\ pc'[p] = pc[p]
      /\ pc[q] = "ready" /\ pc'[q] = "asking"
      /\ UNCHANGED <<response, inbox, submitted, reply, status>>
  BY DEF Ask, Goto, IndInv, TypeOK, uiVars
<1>2. \A i \in 1..Len(queue'[q]) : FALSE  BY <1>1
<1>3. PendingDistinct'
  <2>1. /\ \A a \in Answers \ submitted' : reply'[a] = "none"
        /\ \A i \in 1..Len(inbox') : inbox'[i].id \in submitted' /\ reply'[inbox'[i].id] = "none"
        /\ \A i, j \in 1..Len(inbox') : inbox'[i].id = inbox'[j].id => i = j
    BY <1>1 DEF AnswerInv, PendingDistinct
  <2>2. ASSUME NEW r \in Requests, NEW i \in 1..Len(queue'[r])
        PROVE  /\ queue'[r][i].id \in submitted' /\ reply'[queue'[r][i].id] = "none"
               /\ \A j \in 1..Len(inbox') : inbox'[j].id # queue'[r][i].id
               /\ \A j \in 1..Len(queue'[r]) : queue'[r][j].id = queue'[r][i].id => j = i
               /\ \A p \in Requests \ {r} : \A j \in 1..Len(queue'[p]) :
                    queue'[p][j].id # queue'[r][i].id
    <3>1. r # q /\ queue'[r] = queue[r]  BY <1>1, <1>2
    <3>2. /\ queue[r][i].id \in submitted /\ reply[queue[r][i].id] = "none"
          /\ \A j \in 1..Len(inbox) : inbox[j].id # queue[r][i].id
          /\ \A j \in 1..Len(queue[r]) : queue[r][j].id = queue[r][i].id => j = i
          /\ \A p \in Requests \ {r} : \A j \in 1..Len(queue[p]) : queue[p][j].id # queue[r][i].id
      BY <3>1 DEF AnswerInv, PendingDistinct
    <3>3. \A p \in Requests \ {r} : \A j \in 1..Len(queue'[p]) : queue'[p][j].id # queue[r][i].id
      <4> TAKE p \in Requests \ {r}
      <4>1. CASE p = q  BY <1>2, <4>1
      <4>2. CASE p # q  BY <1>1, <3>2, <4>2
      <4> QED  BY <4>1, <4>2
    <3> QED  BY <1>1, <3>1, <3>2, <3>3
  <2> QED  BY <2>1, <2>2 DEF PendingDistinct
<1>4. TakenDistinct' /\ AnswerDecidesOne'
  BY <1>1 DEF AnswerInv, TakenDistinct, AnswerDecidesOne
<1>5. NotYetAnswered' /\ AnswerLostOnlyAfterDecision'
  BY <1>1 DEF AnswerInv, NotYetAnswered, AnswerLostOnlyAfterDecision
<1> QED  BY <1>3, <1>4, <1>5 DEF AnswerInv

(* The router refuses the oldest answer of the inbox or puts it on the     *)
(* queue of a coroutine that asks, or has been answered.                   *)
LEMMA RouterStep ==
  ASSUME IndInv, AnswerInv, Router
  PROVE  AnswerInv'
<1> DEFINE m == Head(inbox)
<1>1. inbox # <<>> /\ inbox' = Tail(inbox) /\ UNCHANGED <<pc, response, status, submitted>>
  BY DEF Router, RejectAnswer, DeliverAnswer, coroutineVars
<1>2. /\ m \in Message /\ m = inbox[1] /\ 1 \in 1..Len(inbox)
      /\ \A i \in 1..Len(inbox') :
           i + 1 \in 1..Len(inbox) /\ inbox'[i] = inbox[i + 1] /\ i + 1 # 1
      /\ \A i, j \in 1..Len(inbox') : i + 1 = j + 1 => i = j
  BY <1>1, TailAt DEF IndInv, TypeOK
<1>3. m.id \in submitted /\ reply[m.id] = "none" /\ m.id \in Answers
  BY <1>2 DEF AnswerInv, PendingDistinct, Message
<1>4. /\ \A i \in 1..Len(inbox') : inbox'[i].id # m.id
      /\ \A q \in Requests : \A i \in 1..Len(queue[q]) : queue[q][i].id # m.id
  BY <1>2 DEF AnswerInv, PendingDistinct
<1>5. /\ \A q \in Requests : \A i \in 1..Len(queue[q]) : queue[q][i].id \in Answers
      /\ \A i \in 1..Len(inbox) : inbox[i].id \in Answers
      /\ \A q \in Requests : response[q] # None => response[q].id \in Answers
  BY MessageIds DEF IndInv
<1>6. CASE RejectAnswer
  <2>1. UNCHANGED queue /\ reply' = [reply EXCEPT ![m.id] = "m.unknown_request"]
    BY <1>6 DEF RejectAnswer, Respond, coroutineVars
  <2>2. /\ \A a \in Answers \ {m.id} : reply'[a] = reply[a]
        /\ reply'[m.id] = "m.unknown_request"
    BY <1>3, <2>1 DEF IndInv, TypeOK
  <2> HIDE DEF m
  <2>3. PendingDistinct'
    BY <1>1, <1>2, <1>4, <1>5, <2>1, <2>2 DEF AnswerInv, PendingDistinct
  <2>4. TakenDistinct'  BY <1>1 DEF AnswerInv, TakenDistinct
  <2>5. AnswerDecidesOne'
    BY <1>1, <1>3, <1>5, <2>2 DEF AnswerInv, AnswerDecidesOne
  <2>6. NotYetAnswered' /\ AnswerLostOnlyAfterDecision'
    BY <1>1, <2>1 DEF AnswerInv, NotYetAnswered, AnswerLostOnlyAfterDecision
  <2> QED  BY <2>3, <2>4, <2>5, <2>6 DEF AnswerInv
<1>7. CASE DeliverAnswer
  <2> DEFINE q == send_decision_queues[m.room]
  <2>1. /\ q # None /\ queue' = [queue EXCEPT ![q] = Append(@, m)] /\ UNCHANGED reply
    BY <1>7 DEF DeliverAnswer
  <2>2. q \in Requests /\ pc[q] \in Asking
    BY <1>2, <2>1 DEF IndInv, TypeOK, OnePromptPerRoom, Message
  <2> HIDE DEF m, q
  <2>3. /\ \A p \in Requests \ {q} : queue'[p] = queue[p]
        /\ queue'[q] = Append(queue[q], m)
    BY <2>1, <2>2 DEF IndInv, TypeOK
  <2>4. \A i \in 1..Len(queue'[q]) :
          \/ i \in 1..Len(queue[q]) /\ queue'[q][i] = queue[q][i]
          \/ i = Len(queue[q]) + 1 /\ i \notin 1..Len(queue[q]) /\ queue'[q][i] = m
    <3>1. queue[q] \in Seq(Message)  BY <2>2 DEF IndInv, TypeOK
    <3> QED  BY <1>2, <2>3, <3>1, AppendAt
  <2>5. PendingDistinct'
    <3>1. /\ \A a \in Answers \ submitted' : reply'[a] = "none"
          /\ \A i \in 1..Len(inbox') : inbox'[i].id \in submitted' /\ reply'[inbox'[i].id] = "none"
          /\ \A i, j \in 1..Len(inbox') : inbox'[i].id = inbox'[j].id => i = j
      BY <1>1, <1>2, <2>1 DEF AnswerInv, PendingDistinct
    <3>2. \A p \in Requests : \A i \in 1..Len(queue'[p]) :
            \/ i \in 1..Len(queue[p]) /\ queue'[p][i] = queue[p][i]
            \/ p = q /\ i = Len(queue[q]) + 1 /\ queue'[p][i] = m
      BY <2>3, <2>4
    <3>3. ASSUME NEW p \in Requests, NEW i \in 1..Len(queue'[p])
          PROVE  /\ queue'[p][i].id \in submitted /\ reply[queue'[p][i].id] = "none"
                 /\ \A j \in 1..Len(inbox') : inbox'[j].id # queue'[p][i].id
      <4>1. CASE i \in 1..Len(queue[p]) /\ queue'[p][i] = queue[p][i]
        BY <1>2, <3>3, <4>1 DEF AnswerInv, PendingDistinct
      <4>2. CASE queue'[p][i] = m  BY <1>3, <1>4, <4>2
      <4> QED  BY <3>2, <3>3, <4>1, <4>2
    <3>4. ASSUME NEW p \in Requests, NEW i \in 1..Len(queue'[p]), NEW j \in 1..Len(queue'[p]),
                 queue'[p][j].id = queue'[p][i].id
          PROVE  j = i
      <4>1. CASE i \in 1..Len(queue[p]) /\ queue'[p][i] = queue[p][i]
        <5>1. queue'[p][j] # m  BY <1>4, <3>4, <4>1
        <5>2. j \in 1..Len(queue[p]) /\ queue'[p][j] = queue[p][j]  BY <3>2, <3>4, <5>1
        <5> QED  BY <3>4, <4>1, <5>2 DEF AnswerInv, PendingDistinct
      <4>2. CASE p = q /\ i = Len(queue[q]) + 1 /\ queue'[p][i] = m
        <5>1. ~(j \in 1..Len(queue[p]) /\ queue'[p][j] = queue[p][j])  BY <1>4, <3>4, <4>2
        <5> QED  BY <3>2, <3>4, <4>2, <5>1
      <4> QED  BY <3>2, <3>4, <4>1, <4>2
    <3>5. ASSUME NEW p \in Requests, NEW i \in 1..Len(queue'[p]),
                 NEW r \in Requests \ {p}, NEW j \in 1..Len(queue'[r])
          PROVE  queue'[r][j].id # queue'[p][i].id
      <4>1. \/ \E k \in 1..Len(queue[p]) : queue'[p][i] = queue[p][k]
            \/ p = q /\ queue'[p][i] = m
        BY <3>2, <3>5
      <4>2. \/ \E k \in 1..Len(queue[r]) : queue'[r][j] = queue[r][k]
            \/ r = q /\ queue'[r][j] = m
        BY <3>2, <3>5
      <4>3. CASE p = q /\ queue'[p][i] = m  BY <1>4, <3>5, <4>2, <4>3
      <4>4. CASE r = q /\ queue'[r][j] = m  BY <1>4, <3>5, <4>1, <4>4
      <4>5. ASSUME NEW k \in 1..Len(queue[p]), NEW l \in 1..Len(queue[r])
            PROVE  queue[r][l].id # queue[p][k].id
        BY <3>5 DEF AnswerInv, PendingDistinct
      <4> QED  BY <4>1, <4>2, <4>3, <4>4, <4>5
    <3> QED  BY <1>1, <2>1, <3>1, <3>3, <3>4, <3>5, <1>2 DEF PendingDistinct
  <2>6. TakenDistinct' /\ AnswerDecidesOne' /\ NotYetAnswered'
    BY <1>1, <2>1 DEF AnswerInv, TakenDistinct, AnswerDecidesOne, NotYetAnswered
  <2>7. AnswerLostOnlyAfterDecision'
    <3>1. pc[q] = "asking" \/ response[q] # None
      BY <2>2, NoneAssumption DEF IndInv, ApprovedByAnswer, Asking
    <3> QED
      BY <1>1, <2>3, <3>1 DEF AnswerInv, AnswerLostOnlyAfterDecision
  <2> QED  BY <2>5, <2>6, <2>7 DEF AnswerInv
<1> QED  BY <1>6, <1>7 DEF Router

(* The user submits an answer nobody has seen.                             *)
LEMMA SubmitStep ==
  ASSUME IndInv, AnswerInv, NEW a \in Answers, NEW r \in Rooms,
         NEW k \in {"send_anyways", "cancel_sending"}, Answer(a, r, k)
  PROVE  AnswerInv'
<1> DEFINE m == [id |-> a, room |-> r, kind |-> k]
<1>1. /\ a \notin submitted /\ submitted' = submitted \cup {a} /\ inbox' = Append(inbox, m)
      /\ UNCHANGED <<reply, pc, queue, response, status>>
  BY DEF Answer, coroutineVars
<1>2. m \in Message /\ m.id = a  BY DEF Message
<1> HIDE DEF m
<1>3. \A i \in 1..Len(inbox') :
        \/ i \in 1..Len(inbox) /\ inbox'[i] = inbox[i]
        \/ i = Len(inbox) + 1 /\ i \notin 1..Len(inbox) /\ inbox'[i] = m
  BY <1>1, <1>2, AppendAt DEF IndInv, TypeOK
<1>4. PendingDistinct'  BY <1>1, <1>2, <1>3 DEF AnswerInv, PendingDistinct
<1>5. /\ TakenDistinct' /\ AnswerDecidesOne' /\ NotYetAnswered'
      /\ AnswerLostOnlyAfterDecision'
  BY <1>1 DEF AnswerInv, TakenDistinct, AnswerDecidesOne, NotYetAnswered,
       AnswerLostOnlyAfterDecision
<1> QED  BY <1>4, <1>5 DEF AnswerInv

(* No other step moves an answer.                                          *)
LEMMA AnswerInvStep ==
  ASSUME IndInv, AnswerInv, [Next]_vars
  PROVE  AnswerInv'
<1>1. ASSUME NEW q \in Requests,
             Coroutine(q) \/ Disconnect(q),
             ~Ask(q), ~TakeSendAnyways(q), ~TakeCancelSending(q)
      PROVE  AnswerInv'
  <2> DEFINE Moves(s, st) == pc' = [pc EXCEPT ![q] = s] /\ status' = [status EXCEPT ![q] = st]
  <2>1. UNCHANGED AnswerVars
    BY <1>1 DEF Coroutine, Disconnect, RejectToken, RejectRoom, LookupRoom, RejectBody,
         ReadBody, Forward, Acquire, FetchMembers, FetchMembersFails, Send, SendFails,
         SendReturns, Timeout, SendAnyways, SendAnywaysFails, SendAnywaysReturns,
         AnswerVars, uiVars, Return, Goto
  <2>2. status = [status EXCEPT ![q] = status[q]] /\ status[q] \in Statuses
    BY DEF IndInv, TypeOK
  <2>3. \E s \in Stages, st \in Statuses :
          /\ Moves(s, st) /\ pc[q] # "done"
          /\ pc[q] = "asking" => st \in {"timed_out", "dropped"}
          /\ s # "asking"
          /\ s \in {"approved", "reposting"} => pc[q] = "approved"
          /\ s \notin {"reposting", "done"} => pc[q] \notin {"approved", "reposting"}
    <3> USE <2>2 DEF Return, Goto, Stages, Statuses, coroutineVars
    <3>1. CASE RejectToken(q)  BY <3>1 DEF RejectToken
    <3>2. CASE RejectRoom(q)  BY <3>2 DEF RejectRoom, HasBeenSynced
    <3>3. CASE LookupRoom(q)  BY <3>3 DEF LookupRoom
    <3>4. CASE RejectBody(q)  BY <3>4 DEF RejectBody
    <3>5. CASE ReadBody(q)  BY <3>5 DEF ReadBody
    <3>6. CASE Forward(q)  BY <3>6 DEF Forward
    <3>7. CASE Acquire(q)  BY <3>7 DEF Acquire
    <3>8. CASE FetchMembers(q)  BY <3>8 DEF FetchMembers
    <3>9. CASE FetchMembersFails(q)  BY <3>9 DEF FetchMembersFails
    <3>10. CASE Send(q)  BY <3>10 DEF Send
    <3>11. CASE SendFails(q)  BY <3>11 DEF SendFails
    <3>12. CASE SendReturns(q)  BY <3>12 DEF SendReturns
    <3>13. CASE Timeout(q)  BY <3>13 DEF Timeout
    <3>14. CASE SendAnyways(q)  BY <3>14 DEF SendAnyways
    <3>15. CASE SendAnywaysFails(q)  BY <3>15 DEF SendAnywaysFails
    <3>16. CASE SendAnywaysReturns(q)  BY <3>16 DEF SendAnywaysReturns
    <3>17. CASE Disconnect(q)  BY <3>17 DEF Disconnect
    <3> QED
      BY <1>1, <3>1, <3>2, <3>3, <3>4, <3>5, <3>6, <3>7, <3>8, <3>9, <3>10, <3>11, <3>12,
         <3>13, <3>14, <3>15, <3>16, <3>17 DEF Coroutine
  <2> QED  BY <2>1, <2>3, NoAnswerMoves DEF IndInv
<1>2. ASSUME NEW q \in Requests, Ask(q) \/ TakeSendAnyways(q) \/ TakeCancelSending(q)
      PROVE  AnswerInv'
  BY <1>2, AskStep, TakeStep
<1>3. CASE \E a \in Answers, r \in Rooms, k \in {"send_anyways", "cancel_sending"} : Answer(a, r, k)
  BY <1>3, SubmitStep
<1>4. CASE \/ \E d \in Devices : DecideDevice(d) \/ UndecideDevice(d)
           \/ Sync
           \/ UNCHANGED vars
  <2>1. UNCHANGED AnswerVars /\ UNCHANGED <<pc, status>>
    BY <1>4 DEF DecideDevice, UndecideDevice, Sync, SyncRoom, SyncEncryption, SyncDevice, vars,
         coroutineVars, uiVars, AnswerVars
  <2> QED
    BY <2>1 DEF AnswerVars, AnswerInv, PendingDistinct, TakenDistinct, NotYetAnswered,
         AnswerDecidesOne, AnswerLostOnlyAfterDecision
<1> QED  BY <1>1, <1>2, <1>3, <1>4, RouterStep DEF Next, User

(* Answers stay distinct in every behaviour.                               *)
LEMMA AnswerInvariance == Spec => []AnswerInv
<1>1. Init => AnswerInv
  BY NoneAssumption
     DEF Init, AnswerInv, PendingDistinct, TakenDistinct, NotYetAnswered, AnswerDecidesOne,
         AnswerLostOnlyAfterDecision
<1>2. IndInv /\ AnswerInv /\ [Next]_vars => AnswerInv'  BY AnswerInvStep
<1> QED  BY <1>1, <1>2, Invariance, PTL DEF Spec

(* An answer decides one message, of the room it names, and m.ok is told   *)
(* for exactly the answers that decided one.                               *)
THEOREM OneDecision == Spec => []AnswerDecidesOne
<1>1. AnswerInv => AnswerDecidesOne  BY DEF AnswerInv
<1> QED  BY <1>1, AnswerInvariance, PTL

(* An answer is lost only on the queue of a prompt that had been decided.  *)
THEOREM LostAnswers == Spec => []AnswerLostOnlyAfterDecision
<1>1. AnswerInv => AnswerLostOnlyAfterDecision  BY DEF AnswerInv
<1> QED  BY <1>1, AnswerInvariance, PTL

-----------------------------------------------------------------------------
(* SendMessage implements SendGate.  First what the mapping yields at each *)
(* stage, then that a coroutine changes the verdict of its message only,   *)
(* then one case per kind of verdict change.                               *)

(* The verdict of a message by stage, posts and status, as the facts the   *)
(* proof of a step needs.                                                  *)
LEMMA VerdictValues ==
  ASSUME NEW stage \in Stages, NEW posts \in Nat, NEW answer
  PROVE  LET v == VerdictOf(stage, posts, answer) IN
         /\ posts = 0 /\ stage \notin {"asking", "approved", "done"} => v = "open"
         /\ posts = 0 /\ stage = "asking" => v = "asked"
         /\ posts = 0 /\ stage = "approved" => v = "approved"
         /\ posts = 0 /\ stage = "done" => v = IF answer = "plain" THEN "open" ELSE "refused"
         /\ posts # 0 => v = "out"
BY DEF VerdictOf, Stages

(* No step of a coroutine other than Forward returns "plain".              *)
LEMMA PlainOnlyForwarded ==
  ASSUME TypeOK, NEW q \in Requests, Coroutine(q) \/ Disconnect(q),
         status[q] # "plain", status'[q] = "plain"
  PROVE  pc[q] = "forwarding"
<1> USE DEF TypeOK, Return, coroutineVars
<1>1. CASE Disconnect(q)  BY <1>1 DEF Disconnect
<1>2. CASE \/ RejectToken(q) \/ RejectRoom(q) \/ RejectBody(q) \/ FetchMembersFails(q)
           \/ SendFails(q) \/ TakeCancelSending(q) \/ Timeout(q) \/ SendAnywaysFails(q)
           \/ SendReturns(q) \/ SendAnywaysReturns(q)
  BY <1>2 DEF RejectToken, RejectRoom, HasBeenSynced, RejectBody, FetchMembersFails, SendFails,
       TakeCancelSending, Timeout, SendAnywaysFails, SendReturns, SendAnywaysReturns
<1>3. CASE \/ LookupRoom(q) \/ ReadBody(q) \/ Acquire(q) \/ FetchMembers(q) \/ Send(q)
           \/ Ask(q) \/ TakeSendAnyways(q) \/ SendAnyways(q)
  BY <1>3 DEF LookupRoom, ReadBody, Acquire, FetchMembers, Send, Ask, TakeSendAnyways, SendAnyways
<1>4. CASE Forward(q)  BY <1>4 DEF Forward
<1> QED  BY <1>1, <1>2, <1>3, <1>4 DEF Coroutine

(* A step that changes the stage, posts and status of one request only     *)
(* changes no verdict but its own.                                         *)
LEMMA OneVerdict ==
  ASSUME TypeOK, NEW q \in Requests, Coroutine(q) \/ Disconnect(q)
  PROVE  verdict' = [verdict EXCEPT ![q] = verdict'[q]]
<1>1. \A p \in Requests \ {q} :
        pc'[p] = pc[p] /\ status'[p] = status[p] /\ posted'[p] = posted[p]
  BY DEF TypeOK, Coroutine, Disconnect, RejectToken, RejectRoom, LookupRoom, RejectBody,
         ReadBody, Forward, Acquire, FetchMembers, FetchMembersFails, Send, SendFails,
         SendReturns, Ask, TakeSendAnyways, TakeCancelSending, Timeout, SendAnyways,
         SendAnywaysFails, SendAnywaysReturns, Return, Goto, coroutineVars
<1>2. \A p \in Requests \ {q} : verdict'[p] = verdict[p]  BY <1>1 DEF verdict
<1>3. /\ verdict = [p \in Requests |-> verdict[p]]
      /\ verdict' = [p \in Requests |-> verdict'[p]]
  BY DEF verdict
<1> HIDE DEF verdict
<1> QED  BY ONLY <1>2, <1>3, q \in Requests

(* Of the requests of a room, only the one inside the semaphore can have   *)
(* been put to the user.                                                   *)
LEMMA OnlyHolderUndecided ==
  ASSUME IndInv, NEW q \in Requests, pc[q] \in Inside
  PROVE  Gate!Undecided(RoomOf[q]) \subseteq {q}
<1>1. ASSUME NEW p \in Gate!Undecided(RoomOf[q])
      PROVE  p = q
  <2>1. p \in Requests /\ RoomOf[p] = RoomOf[q] /\ verdict[p] \in {"asked", "approved"}
    BY <1>1 DEF Gate!Undecided
  <2>2. pc[p] \in Stages /\ posted[p] \in Nat  BY <2>1 DEF IndInv, TypeOK
  <2>3. verdict[p] = VerdictOf(pc[p], posted[p], status[p])  BY <2>1 DEF verdict
  <2>4. pc[p] \in {"asking", "approved"}
    BY <2>1, <2>2, <2>3, VerdictValues
  <2> QED  BY <2>1, <2>4 DEF IndInv, SemaphoreExclusive, Inside, Asking
<1> QED  BY <1>1

(* A coroutine's step is a stutter of the gate or one of its four actions. *)
LEMMA GateStep ==
  ASSUME IndInv, TypeOK', NEW q \in Requests, Coroutine(q) \/ Disconnect(q)
  PROVE  Gate!Next \/ UNCHANGED verdict
<1>1. /\ pc \in [Requests -> Stages] /\ pc' \in [Requests -> Stages]
      /\ posted \in [Requests -> Nat] /\ posted' \in [Requests -> Nat]
      /\ status \in [Requests -> Statuses]
  BY DEF IndInv, TypeOK
<1>2. /\ verdict[q] = VerdictOf(pc[q], posted[q], status[q])
      /\ verdict'[q] = VerdictOf(pc'[q], posted'[q], status'[q])
  BY DEF verdict
<1>3. \A v : verdict'[q] = v => Gate!Become(q, v)
  BY OneVerdict DEF IndInv, Gate!Become
<1>4. ASSUME verdict'[q] = verdict[q]
      PROVE  UNCHANGED verdict
  <2>1. verdict' = [verdict EXCEPT ![q] = verdict[q]]  BY <1>4, OneVerdict DEF IndInv
  <2>2. verdict = [p \in Requests |-> verdict[p]]  BY DEF verdict
  <2> QED  BY <2>1, <2>2
<1>5. /\ pc[q] \in {"posting", "reposting"} => posted[q] = 1
      /\ pc[q] \notin {"posting", "reposting", "done"} => posted[q] = 0
      /\ pc[q] # "done" => status[q] = "none"
  BY DEF IndInv, StageTellsPosted
<1> USE DEF Goto, Return, coroutineVars
<1>6. CASE \/ LookupRoom(q) \/ ReadBody(q) \/ Acquire(q) \/ FetchMembers(q)
  <2>1. /\ pc[q] \notin {"asking", "approved", "posting", "reposting", "done"}
        /\ pc'[q] \notin {"asking", "approved", "done"}
        /\ posted'[q] = posted[q]
    BY <1>1, <1>6 DEF LookupRoom, ReadBody, Acquire, FetchMembers
  <2> QED  BY <1>1, <1>2, <1>4, <1>5, <2>1, VerdictValues
<1>7. ASSUME \/ SendReturns(q) \/ SendAnywaysReturns(q)
             \/ (Disconnect(q) /\ pc[q] \in {"posting", "reposting"})
      PROVE  Gate!Next \/ UNCHANGED verdict
  <2>1. posted'[q] = posted[q] /\ posted[q] = 1
    BY <1>1, <1>5, <1>7 DEF SendReturns, SendAnywaysReturns, Disconnect
  <2> QED  BY <1>1, <1>2, <1>4, <2>1, VerdictValues
<1>8. ASSUME \/ RejectToken(q) \/ RejectRoom(q) \/ RejectBody(q) \/ Forward(q)
             \/ FetchMembersFails(q) \/ SendFails(q) \/ TakeCancelSending(q) \/ Timeout(q)
             \/ SendAnywaysFails(q) \/ (Disconnect(q) /\ pc[q] \notin {"posting", "reposting"})
      PROVE  Gate!Next \/ UNCHANGED verdict
  <2>1. /\ pc[q] \notin {"done", "posting", "reposting"}
        /\ pc'[q] = "done" /\ posted'[q] = posted[q]
    BY <1>1, <1>8 DEF RejectToken, RejectRoom, RejectBody, Forward, FetchMembersFails, SendFails,
         TakeCancelSending, Timeout, SendAnywaysFails, Disconnect
  <2>2. posted[q] = 0 /\ posted'[q] = 0 /\ status[q] = "none"  BY <1>5, <2>1
  <2>3. CASE status'[q] = "plain"
    <3>1. pc[q] = "forwarding"  BY <1>8, <2>2, <2>3, PlainOnlyForwarded DEF IndInv
    <3> QED  BY <1>1, <1>2, <1>4, <2>1, <2>2, <2>3, <3>1, VerdictValues
  <2>4. CASE status'[q] # "plain"
    <3>1. verdict[q] \in {"open", "asked", "approved"} /\ verdict'[q] = "refused"
      BY <1>1, <1>2, <2>1, <2>2, <2>4, VerdictValues
    <3> QED  BY <1>3, <3>1 DEF Gate!Next, Gate!Refuse
  <2> QED  BY <2>3, <2>4
<1>9. ASSUME Send(q) \/ SendAnyways(q)
      PROVE  Gate!Next \/ UNCHANGED verdict
  <2>1. pc[q] \in {"ready", "approved"} /\ posted[q] = 0 /\ posted'[q] = 1
    BY <1>1, <1>5, <1>9 DEF Send, SendAnyways
  <2>2. verdict[q] \in {"open", "approved"} /\ verdict'[q] = "out"
    BY <1>1, <1>2, <2>1, VerdictValues
  <2>3. Gate!Undecided(RoomOf[q]) \subseteq {q}
    BY <2>1, OnlyHolderUndecided DEF Inside, Asking
  <2> QED  BY <1>3, <2>2, <2>3 DEF Gate!Next, Gate!Emit
<1>10. CASE Ask(q)
  <2>1. /\ pc[q] = "ready" /\ pc'[q] = "asking" /\ posted[q] = 0 /\ posted'[q] = 0
    BY <1>1, <1>5, <1>10 DEF Ask
  <2>2. verdict[q] = "open" /\ verdict'[q] = "asked"
    BY <1>1, <1>2, <2>1, VerdictValues
  <2>3. Gate!Undecided(RoomOf[q]) = {}
    <3>1. Gate!Undecided(RoomOf[q]) \subseteq {q}
      BY <2>1, OnlyHolderUndecided DEF Inside, Asking
    <3>2. q \notin Gate!Undecided(RoomOf[q])  BY <2>2 DEF Gate!Undecided
    <3> QED  BY <3>1, <3>2
  <2> QED  BY <1>3, <2>2, <2>3 DEF Gate!Next, Gate!Ask
<1>11. CASE TakeSendAnyways(q)
  <2>1. pc[q] = "asking" /\ pc'[q] = "approved" /\ posted[q] = 0 /\ posted'[q] = 0
    BY <1>1, <1>5, <1>11 DEF TakeSendAnyways
  <2>2. verdict[q] = "asked" /\ verdict'[q] = "approved"
    BY <1>1, <1>2, <2>1, VerdictValues
  <2> QED  BY <1>3, <2>2 DEF Gate!Next, Gate!Approve
<1>12. CASE Coroutine(q)
  BY <1>6, <1>7, <1>8, <1>9, <1>10, <1>11, <1>12 DEF Coroutine
<1>13. CASE Disconnect(q)
  BY <1>7, <1>8, <1>13, Zenon
<1> QED
  BY <1>12, <1>13

(* Every behaviour of the coroutines, the router, the user and the sync is *)
(* a behaviour of the gate: prompts of a room are decided one at a time,   *)
(* an asked message leaves only when approved, and verdicts are final.     *)
THEOREM Implementation == Spec => GateSpec
<1>1. Init => Gate!Init
  <2> SUFFICES ASSUME Init PROVE verdict = [q \in Requests |-> "open"]
    BY DEF Gate!Init
  <2>1. ASSUME NEW q \in Requests PROVE VerdictOf(pc[q], posted[q], status[q]) = "open"
    BY VerdictValues DEF Init, Stages
  <2> QED  BY <2>1 DEF verdict
<1>2. IndInv /\ TypeOK' /\ [Next]_vars => [Gate!Next]_verdict
  <2> SUFFICES ASSUME IndInv, TypeOK', [Next]_vars PROVE Gate!Next \/ UNCHANGED verdict
    OBVIOUS
  <2>1. ASSUME NEW q \in Requests, Coroutine(q) \/ Disconnect(q)
        PROVE  Gate!Next \/ UNCHANGED verdict
    BY <2>1, GateStep
  <2>2. ASSUME Router \/ User \/ Sync \/ UNCHANGED vars
        PROVE  UNCHANGED verdict
    BY <2>2, OthersKeepStages DEF StageVars, verdict
  <2> QED  BY <2>1, <2>2 DEF Next
<1> QED
  BY <1>1, <1>2, TypeCorrect, Invariance, PTL DEF Spec, GateSpec, Gate!Spec
=============================================================================
