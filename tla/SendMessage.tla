----------------------------- MODULE SendMessage -----------------------------
(***************************************************************************)
(* ProxyDaemon.send_message: PUT /rooms/{room}/send.  Every request runs   *)
(* in a coroutine of its own; an action below is what such a coroutine     *)
(* does between two awaits.  Beside the coroutines run the router task,    *)
(* which takes the user's answers off the janus queue, the background sync *)
(* of the pan client, which changes rooms and devices, and the user.       *)
(***************************************************************************)
EXTENDS Naturals, Sequences

CONSTANTS Requests,            \* the requests of the Matrix clients
          Rooms,
          Devices,             \* devices of room members
          Answers,             \* ids of send-anyways and cancel-sending messages
          RoomOf,              \* the room a request sends to
          Reactions,           \* the requests whose event type is m.reaction
          IgnoreVerification,  \* conf.ignore_verification
          HandlerCancellation, \* aiohttp cancels a handler whose client is gone
          None

(* An UnverifiedResponse: its message id, its room, and its class.          *)
Message == [id : Answers, room : Rooms, kind : {"send_anyways", "cancel_sending"}]

ASSUME RoomOfAssumption == RoomOf \in [Requests -> Rooms]
ASSUME ReactionsAssumption == Reactions \subseteq Requests
ASSUME FlagsAssumption == IgnoreVerification \in BOOLEAN /\ HandlerCancellation \in BOOLEAN
ASSUME NoneAssumption == None \notin Requests /\ None \notin Message

VARIABLES
  \* the coroutines
  pc,                    \* where each request's coroutine is suspended
  encrypt,               \* its local: encrypt the message?
  queue,                 \* the decision queue it created, a FIFO of answers
  response,              \* the answer it took off that queue
  status,                \* the HTTP answer it returned
  posted,                \* how often its event was handed to the homeserver
  \* the pan client
  rooms,                 \* client.rooms: the rooms the background sync joined
  encrypted,             \* room.encrypted
  synced,                \* last_sync_token is set
  semaphore,             \* send_semaphores: the coroutine inside, or None
  members_fetched,       \* room_members_fetched
  members_known,         \* nio holds the member list of the room
  room_devices,          \* the devices of a room's members
  trust,                 \* what the user decided about a device
  session_shared,        \* nio holds a shared outbound group session
  send_decision_queues,  \* per room: the request whose queue is registered, or None
  \* the UI side
  inbox,                 \* the janus queue from the UI thread to the router
  submitted,             \* answers the user has given
  reply                  \* DaemonResponse sent for an answer

coroutineVars == <<pc, encrypt, queue, response, status, posted>>
cryptoVars    == <<members_known, room_devices, trust, session_shared>>
roomVars      == <<rooms, encrypted, synced>>
gateVars      == <<semaphore, members_fetched, send_decision_queues>>
uiVars        == <<inbox, submitted, reply>>
vars == <<coroutineVars, cryptoVars, roomVars, gateVars, uiVars>>


Stages == {"idle", "body", "forwarding", "acquire", "members", "ready",
           "posting", "asking", "approved", "reposting", "done"}

(* The awaits of the "async with sem" block: the coroutine holds the        *)
(* semaphore of its room.  In the last three its queue is registered.       *)
Asking == {"asking", "approved", "reposting"}
Inside == {"members", "ready", "posting"} \cup Asking

Statuses == {"none", "rejected", "forbidden", "unsynced", "plain", "sent",
             "failed", "cancelled", "timed_out", "dropped"}

Init ==
  /\ pc = [q \in Requests |-> "idle"]
  /\ encrypt = [q \in Requests |-> FALSE]
  /\ queue = [q \in Requests |-> <<>>]
  /\ response = [q \in Requests |-> None]
  /\ status = [q \in Requests |-> "none"]
  /\ posted = [q \in Requests |-> 0]
  /\ rooms = {}
  /\ encrypted = [r \in Rooms |-> FALSE]
  /\ synced = FALSE
  /\ semaphore = [r \in Rooms |-> None]
  /\ members_fetched = [r \in Rooms |-> FALSE]
  /\ members_known = [r \in Rooms |-> FALSE]
  /\ room_devices = [r \in Rooms |-> {}]
  /\ trust = [d \in Devices |-> "unset"]
  /\ session_shared = [r \in Rooms |-> FALSE]
  /\ send_decision_queues = [r \in Rooms |-> None]
  /\ inbox = <<>>
  /\ submitted = {}
  /\ reply = [a \in Answers |-> "none"]

-----------------------------------------------------------------------------
(* Helpers.                                                                *)

Goto(q, stage) == pc' = [pc EXCEPT ![q] = stage]

(* Mistakes in the helpers below, for which the properties are tried: the  *)
(* stage and the status swapped, the queue kept on the way out, the        *)
(* devices of every room ignored.  No specification uses them.             *)
ReturnSwapped(q, s) == Goto(q, s) /\ status' = [status EXCEPT ![q] = "done"]
PopNothing(q) == UNCHANGED send_decision_queues
ShareSessionEverywhere(r) ==
  /\ session_shared' = [session_shared EXCEPT ![r] = TRUE]
  /\ trust' = [d \in Devices |-> IF ~session_shared[r] /\ trust[d] = "unset"
                                   THEN "ignored" ELSE trust[d]]

(* The coroutine returns an HTTP response.                                 *)
Return(q, s) == Goto(q, "done") /\ status' = [status EXCEPT ![q] = s]

(* Leaving "async with sem".                                               *)
Release(q) == semaphore' = [semaphore EXCEPT ![RoomOf[q]] = None]

(* The finally clause: send_decision_queues.pop(room_id).                  *)
PopQueue(q) == send_decision_queues' = [send_decision_queues EXCEPT ![RoomOf[q]] = None]

Respond(a, code) == reply' = [reply EXCEPT ![a] = code]

(* The devices nio would share a session with and has no decision about.   *)
Unverified(r) == {d \in room_devices[r] : members_known[r] /\ trust[d] = "unset"}

(* nio's room_send shares a group session unless one is shared, which      *)
(* marks the devices without a decision as ignored when it may ...         *)
ShareSession(r) ==
  /\ session_shared' = [session_shared EXCEPT ![r] = TRUE]
  /\ trust' = [d \in Devices |-> IF ~session_shared[r] /\ d \in Unverified(r)
                                   THEN "ignored" ELSE trust[d]]

(* ... and raises OlmTrustError when it may not.                            *)
TrustError(r, ignore_unverified) ==
  ~session_shared[r] /\ ~ignore_unverified /\ Unverified(r) # {}

-----------------------------------------------------------------------------
(* Mistakes in the actions below: a semaphore that admits a second         *)
(* coroutine, a queue registered before anything is asked, an error path   *)
(* that keeps the semaphore, a retry of a message that may have gone out,  *)
(* an answer acknowledged when it is queued.                               *)
AcquireUnguarded(q) ==
  /\ pc[q] = "acquire"
  /\ semaphore' = [semaphore EXCEPT ![RoomOf[q]] = q]
  /\ Goto(q, "members")
  /\ UNCHANGED <<encrypt, queue, response, status, posted, members_fetched,
                 send_decision_queues, cryptoVars, roomVars, uiVars>>

AcquireRegistering(q) ==
  /\ pc[q] = "acquire"
  /\ semaphore[RoomOf[q]] = None
  /\ semaphore' = [semaphore EXCEPT ![RoomOf[q]] = q]
  /\ send_decision_queues' = [send_decision_queues EXCEPT ![RoomOf[q]] = q]
  /\ Goto(q, "members")
  /\ UNCHANGED <<encrypt, queue, response, status, posted, members_fetched,
                 cryptoVars, roomVars, uiVars>>

FetchMembersFailsHolding(q) ==
  /\ pc[q] = "members"
  /\ ~members_fetched[RoomOf[q]]
  /\ Return(q, "failed")
  /\ UNCHANGED <<encrypt, queue, response, posted, gateVars, cryptoVars, roomVars, uiVars>>

SendReturnsRetrying(q) ==
  /\ pc[q] = "posting"
  /\ \/ Return(q, "sent") /\ Release(q)
     \/ Goto(q, "ready") /\ UNCHANGED <<status, semaphore>>
  /\ UNCHANGED <<encrypt, queue, response, posted, members_fetched,
                 send_decision_queues, cryptoVars, roomVars, uiVars>>

DeliverAnswerAcknowledging ==
  /\ inbox # <<>>
  /\ LET q == send_decision_queues[Head(inbox).room] IN
       /\ q # None
       /\ queue' = [queue EXCEPT ![q] = Append(@, Head(inbox))]
  /\ Respond(Head(inbox).id, "m.ok")
  /\ inbox' = Tail(inbox)
  /\ UNCHANGED <<pc, encrypt, response, status, posted, submitted,
                 cryptoVars, roomVars, gateVars>>

-----------------------------------------------------------------------------
(* The coroutine of request q.                                             *)

(* The access token is missing or unknown.                                 *)
RejectToken(q) ==
  /\ pc[q] = "idle"
  /\ Return(q, "rejected")
  /\ UNCHANGED <<encrypt, queue, response, posted, cryptoVars, roomVars, gateVars, uiVars>>

(* PanClient.has_been_synced evaluates its comparison and returns nothing. *)
HasBeenSynced == FALSE

(* The room is not among client.rooms.                                     *)
RejectRoom(q) ==
  /\ pc[q] = "idle"
  /\ RoomOf[q] \notin rooms
  /\ Return(q, IF HasBeenSynced THEN "forbidden" ELSE "unsynced")
  /\ UNCHANGED <<encrypt, queue, response, posted, cryptoVars, roomVars, gateVars, uiVars>>

(* encrypt = room.encrypted, then await request.json().                    *)
LookupRoom(q) ==
  /\ pc[q] = "idle"
  /\ RoomOf[q] \in rooms
  /\ encrypt' = [encrypt EXCEPT ![q] = encrypted[RoomOf[q]] /\ q \notin Reactions]
  /\ Goto(q, "body")
  /\ UNCHANGED <<queue, response, status, posted, cryptoVars, roomVars, gateVars, uiVars>>

RejectBody(q) ==
  /\ pc[q] = "body"
  /\ Return(q, "rejected")
  /\ UNCHANGED <<encrypt, queue, response, posted, cryptoVars, roomVars, gateVars, uiVars>>

ReadBody(q) ==
  /\ pc[q] = "body"
  /\ Goto(q, IF encrypt[q] THEN "acquire" ELSE "forwarding")
  /\ UNCHANGED <<encrypt, queue, response, status, posted,
                 cryptoVars, roomVars, gateVars, uiVars>>

(* The unencrypted path: the media URL is replaced by one of decrypted     *)
(* content where pan has it, and the event goes out as it is.              *)
Forward(q) ==
  /\ pc[q] = "forwarding"
  /\ \E s \in {"plain", "failed"} : Return(q, s)
  /\ UNCHANGED <<encrypt, queue, response, posted, cryptoVars, roomVars, gateVars, uiVars>>

(* async with sem.  Which waiting coroutine is woken first is left open.   *)
Acquire(q) ==
  /\ pc[q] = "acquire"
  /\ semaphore[RoomOf[q]] = None
  /\ semaphore' = [semaphore EXCEPT ![RoomOf[q]] = q]
  /\ Goto(q, "members")
  /\ UNCHANGED <<encrypt, queue, response, status, posted, members_fetched,
                 send_decision_queues, cryptoVars, roomVars, uiVars>>

(* await client.joined_members(room_id): nio returns an error object for   *)
(* an HTTP error, after which the flag is set all the same.                *)
FetchMembers(q) ==
  /\ pc[q] = "members"
  /\ LET r == RoomOf[q] IN
       /\ \/ members_fetched[r] /\ UNCHANGED <<members_fetched, members_known>>
          \/ /\ ~members_fetched[r]
             /\ members_fetched' = [members_fetched EXCEPT ![r] = TRUE]
             /\ \E ok \in BOOLEAN :
                  members_known' = [members_known EXCEPT ![r] = ok \/ @]
  /\ Goto(q, "ready")
  /\ UNCHANGED <<encrypt, queue, response, status, posted, semaphore, send_decision_queues,
                 room_devices, trust, session_shared, roomVars, uiVars>>

(* ClientConnectionError from joined_members.                              *)
FetchMembersFails(q) ==
  /\ pc[q] = "members"
  /\ ~members_fetched[RoomOf[q]]
  /\ Return(q, "failed")
  /\ Release(q)
  /\ UNCHANGED <<encrypt, queue, response, posted, members_fetched,
                 send_decision_queues, cryptoVars, roomVars, uiVars>>

(* _send(self.conf.ignore_verification) up to the PUT of the event.        *)
Send(q) ==
  /\ pc[q] = "ready"
  /\ ~TrustError(RoomOf[q], IgnoreVerification)
  /\ ShareSession(RoomOf[q])
  /\ posted' = [posted EXCEPT ![q] = @ + 1]
  /\ Goto(q, "posting")
  /\ UNCHANGED <<encrypt, queue, response, status, members_known, room_devices,
                 roomVars, gateVars, uiVars>>

(* _send returns 500 or 503, or raises, before the event is handed over.   *)
SendFails(q) ==
  /\ pc[q] = "ready"
  /\ Return(q, "failed")
  /\ Release(q)
  /\ UNCHANGED <<encrypt, queue, response, posted, members_fetched,
                 send_decision_queues, cryptoVars, roomVars, uiVars>>

(* The homeserver's response, or ClientConnectionError or SendRetryError.  *)
SendReturns(q) ==
  /\ pc[q] = "posting"
  /\ \E s \in {"sent", "failed"} : Return(q, s)
  /\ Release(q)
  /\ UNCHANGED <<encrypt, queue, response, posted, members_fetched,
                 send_decision_queues, cryptoVars, roomVars, uiVars>>

(* except OlmTrustError: register a fresh queue, signal the UI, and wait   *)
(* for an answer or for unverified_send_timeout.                           *)
Ask(q) ==
  /\ pc[q] = "ready"
  /\ TrustError(RoomOf[q], IgnoreVerification)
  /\ queue' = [queue EXCEPT ![q] = <<>>]
  /\ send_decision_queues' = [send_decision_queues EXCEPT ![RoomOf[q]] = q]
  /\ Goto(q, "asking")
  /\ UNCHANGED <<encrypt, response, status, posted, semaphore, members_fetched,
                 cryptoVars, roomVars, uiVars>>

(* queue.get() returned a SendAnywaysMessage: m.ok goes to the UI first.   *)
TakeSendAnyways(q) ==
  /\ pc[q] = "asking"
  /\ queue[q] # <<>>
  /\ Head(queue[q]).kind = "send_anyways"
  /\ response' = [response EXCEPT ![q] = Head(queue[q])]
  /\ queue' = [queue EXCEPT ![q] = Tail(@)]
  /\ Respond(Head(queue[q]).id, "m.ok")
  /\ Goto(q, "approved")
  /\ UNCHANGED <<encrypt, status, posted, inbox, submitted,
                 cryptoVars, roomVars, gateVars>>

(* queue.get() returned a CancelSendingMessage.                            *)
TakeCancelSending(q) ==
  /\ pc[q] = "asking"
  /\ queue[q] # <<>>
  /\ Head(queue[q]).kind = "cancel_sending"
  /\ response' = [response EXCEPT ![q] = Head(queue[q])]
  /\ queue' = [queue EXCEPT ![q] = Tail(@)]
  /\ Respond(Head(queue[q]).id, "m.ok")
  /\ Return(q, "cancelled")
  /\ PopQueue(q)
  /\ Release(q)
  /\ UNCHANGED <<encrypt, posted, members_fetched, inbox, submitted, cryptoVars, roomVars>>

(* asyncio.TimeoutError.  wait_for may cancel queue.get() after an answer  *)
(* was put and before the coroutine ran: the answer stays in the queue.    *)
Timeout(q) ==
  /\ pc[q] = "asking"
  /\ Return(q, "timed_out")
  /\ PopQueue(q)
  /\ Release(q)
  /\ UNCHANGED <<encrypt, queue, response, posted, members_fetched,
                 cryptoVars, roomVars, uiVars>>

(* _send(True) up to the PUT: every device without a decision by now is    *)
(* ignored.                                                                *)
SendAnyways(q) ==
  /\ pc[q] = "approved"
  /\ ShareSession(RoomOf[q])
  /\ posted' = [posted EXCEPT ![q] = @ + 1]
  /\ Goto(q, "reposting")
  /\ UNCHANGED <<encrypt, queue, response, status, members_known, room_devices,
                 roomVars, gateVars, uiVars>>

SendAnywaysFails(q) ==
  /\ pc[q] = "approved"
  /\ Return(q, "failed")
  /\ PopQueue(q)
  /\ Release(q)
  /\ UNCHANGED <<encrypt, queue, response, posted, members_fetched,
                 cryptoVars, roomVars, uiVars>>

SendAnywaysReturns(q) ==
  /\ pc[q] = "reposting"
  /\ \E s \in {"sent", "failed"} : Return(q, s)
  /\ PopQueue(q)
  /\ Release(q)
  /\ UNCHANGED <<encrypt, queue, response, posted, members_fetched,
                 cryptoVars, roomVars, uiVars>>

(* The Matrix client hung up and aiohttp cancels the coroutine at its      *)
(* await: finally clauses and the semaphore's __aexit__ run.               *)
Disconnect(q) ==
  /\ HandlerCancellation
  /\ pc[q] \notin {"idle", "done"}
  /\ Return(q, "dropped")
  /\ IF pc[q] \in Inside THEN Release(q) ELSE UNCHANGED semaphore
  /\ IF pc[q] \in Asking THEN PopQueue(q) ELSE UNCHANGED send_decision_queues
  /\ UNCHANGED <<encrypt, queue, response, posted, members_fetched,
                 cryptoVars, roomVars, uiVars>>

-----------------------------------------------------------------------------
(* The user, the router task and the background sync.                      *)

(* panctl or the notification: an answer names a room, not a prompt.       *)
Answer(a, r, k) ==
  /\ a \notin submitted
  /\ submitted' = submitted \cup {a}
  /\ inbox' = Append(inbox, [id |-> a, room |-> r, kind |-> k])
  /\ UNCHANGED <<reply, coroutineVars, cryptoVars, roomVars, gateVars>>

(* receive_message, UnverifiedResponse branch: no prompt open in the room. *)
RejectAnswer ==
  /\ inbox # <<>>
  /\ send_decision_queues[Head(inbox).room] = None
  /\ Respond(Head(inbox).id, "m.unknown_request")
  /\ inbox' = Tail(inbox)
  /\ UNCHANGED <<submitted, coroutineVars, cryptoVars, roomVars, gateVars>>

(* receive_message: put the answer on the registered queue, say nothing.   *)
DeliverAnswer ==
  /\ inbox # <<>>
  /\ LET q == send_decision_queues[Head(inbox).room] IN
       /\ q # None
       /\ queue' = [queue EXCEPT ![q] = Append(@, Head(inbox))]
  /\ inbox' = Tail(inbox)
  /\ UNCHANGED <<pc, encrypt, response, status, posted, submitted, reply,
                 cryptoVars, roomVars, gateVars>>

(* The outbound session of every room with the device is dropped.          *)
Invalidate(d) ==
  session_shared' = [r \in Rooms |-> session_shared[r] /\ d \notin room_devices[r]]

(* Verify or blacklist; unverify or unblacklist.                           *)
DecideDevice(d) ==
  /\ trust[d] # "decided"
  /\ trust' = [trust EXCEPT ![d] = "decided"]
  /\ Invalidate(d)
  /\ UNCHANGED <<members_known, room_devices, coroutineVars, roomVars, gateVars, uiVars>>

UndecideDevice(d) ==
  /\ trust[d] = "decided"
  /\ trust' = [trust EXCEPT ![d] = "unset"]
  /\ Invalidate(d)
  /\ UNCHANGED <<members_known, room_devices, coroutineVars, roomVars, gateVars, uiVars>>

(* The first sync of pan's own stream that carries the room.               *)
SyncRoom(r) ==
  /\ r \notin rooms
  /\ rooms' = rooms \cup {r}
  /\ synced' = TRUE
  /\ UNCHANGED <<encrypted, coroutineVars, cryptoVars, gateVars, uiVars>>

(* m.room.encryption arrives on pan's stream.                              *)
SyncEncryption(r) ==
  /\ r \in rooms
  /\ ~encrypted[r]
  /\ encrypted' = [encrypted EXCEPT ![r] = TRUE]
  /\ UNCHANGED <<rooms, synced, coroutineVars, cryptoVars, gateVars, uiVars>>

(* A member logs in with a new device: the session must be shared anew.    *)
SyncDevice(r, d) ==
  /\ r \in rooms
  /\ d \notin room_devices[r]
  /\ room_devices' = [room_devices EXCEPT ![r] = @ \cup {d}]
  /\ session_shared' = [session_shared EXCEPT ![r] = FALSE]
  /\ UNCHANGED <<members_known, trust, coroutineVars, roomVars, gateVars, uiVars>>

-----------------------------------------------------------------------------
Coroutine(q) ==
  \/ RejectToken(q) \/ RejectRoom(q) \/ LookupRoom(q) \/ RejectBody(q) \/ ReadBody(q)
  \/ Forward(q) \/ Acquire(q) \/ FetchMembers(q) \/ FetchMembersFails(q)
  \/ Send(q) \/ SendFails(q) \/ SendReturns(q) \/ Ask(q)
  \/ TakeSendAnyways(q) \/ TakeCancelSending(q) \/ Timeout(q)
  \/ SendAnyways(q) \/ SendAnywaysFails(q) \/ SendAnywaysReturns(q)

Router == RejectAnswer \/ DeliverAnswer

User == \/ \E a \in Answers, r \in Rooms, k \in {"send_anyways", "cancel_sending"} :
             Answer(a, r, k)
        \/ \E d \in Devices : DecideDevice(d) \/ UndecideDevice(d)

Sync == \E r \in Rooms : \/ SyncRoom(r)
                         \/ SyncEncryption(r)
                         \/ \E d \in Devices : SyncDevice(r, d)

Next == (\E q \in Requests : Coroutine(q) \/ Disconnect(q)) \/ Router \/ User \/ Sync

Spec == Init /\ [][Next]_vars

(* Once its request has arrived, the event loop runs a coroutine that can  *)
(* run, its timer fires when due, and the homeserver answers or the        *)
(* connection fails.  Nothing obliges the user, the clients or the sync.   *)
FairSpec == /\ Spec
            /\ \A q \in Requests : WF_vars(pc[q] # "idle" /\ Coroutine(q))
            /\ WF_vars(Router)

-----------------------------------------------------------------------------
(* Properties.                                                             *)

(* Every variable of the daemon and of the coroutines keeps its type.      *)
TypeOK ==
  /\ pc \in [Requests -> Stages]
  /\ encrypt \in [Requests -> BOOLEAN]
  /\ queue \in [Requests -> Seq(Message)]
  /\ response \in [Requests -> Message \cup {None}]
  /\ status \in [Requests -> Statuses]
  /\ posted \in [Requests -> Nat]
  /\ rooms \subseteq Rooms
  /\ encrypted \in [Rooms -> BOOLEAN]
  /\ synced \in BOOLEAN
  /\ semaphore \in [Rooms -> Requests \cup {None}]
  /\ members_fetched \in [Rooms -> BOOLEAN]
  /\ members_known \in [Rooms -> BOOLEAN]
  /\ room_devices \in [Rooms -> SUBSET Devices]
  /\ trust \in [Devices -> {"unset", "decided", "ignored"}]
  /\ session_shared \in [Rooms -> BOOLEAN]
  /\ send_decision_queues \in [Rooms -> Requests \cup {None}]
  /\ inbox \in Seq(Message)
  /\ submitted \subseteq Answers
  /\ reply \in [Answers -> {"none", "m.ok", "m.unknown_request"}]

(* The semaphore of a room is held by exactly the coroutine that is        *)
(* suspended inside "async with sem", through every error, timeout and     *)
(* cancellation path out of the block.                                     *)
SemaphoreExclusive ==
  \A q \in Requests : pc[q] \in Inside <=> semaphore[RoomOf[q]] = q

(* "Acquire a semaphore here so we only send out one                       *)
(* UnverifiedDevicesSignal": a decision queue is registered for a room     *)
(* exactly while one coroutine waits for or acts on an answer, and it is   *)
(* that coroutine's own queue that the router would put an answer on.      *)
OnePromptPerRoom ==
  \A r \in Rooms, q \in Requests :
    send_decision_queues[r] = q <=> RoomOf[q] = r /\ pc[q] \in Asking

(* Though _send is called again after a prompt, a message is handed to the *)
(* homeserver at most once, and never when its client was told that it was *)
(* cancelled or that the prompt timed out.                                 *)
PostedAtMostOnce ==
  \A q \in Requests :
    /\ posted[q] <= 1
    /\ status[q] \in {"rejected", "unsynced", "plain", "cancelled", "timed_out"} => posted[q] = 0
    /\ status[q] = "sent" => posted[q] = 1

(* A device's trust only becomes "ignored" because conf.ignore_verification*)
(* says so or in the room whose open prompt the user answered with         *)
(* send-anyways: no message of another request or room spends the answer.  *)
Consented(d) ==
  \E q \in Requests :
    /\ response[q] # None
    /\ response[q].kind = "send_anyways"
    /\ response[q].room = RoomOf[q]
    /\ send_decision_queues[RoomOf[q]] = q
    /\ d \in room_devices[RoomOf[q]]

IgnoredByConsent ==
  [][\A d \in Devices : trust[d] # "ignored" /\ trust'[d] = "ignored"
                          => IgnoreVerification \/ Consented(d)]_vars

(* An answer decides one message, of the room it names, and the user is    *)
(* told m.ok for exactly the answers that decided one.                     *)
AnswerDecidesOne ==
  /\ \A q \in Requests :
       response[q] # None => /\ response[q].room = RoomOf[q]
                             /\ reply[response[q].id] = "m.ok"
  /\ \A a \in Answers :
       reply[a] = "m.ok" =>
         \E q \in Requests :
           /\ response[q] # None /\ response[q].id = a
           /\ \A p \in Requests \ {q} : response[p] # None => response[p].id # a

(* The one way an answer is lost without a reply: it was put on a queue    *)
(* whose coroutine had taken another answer, timed out or was cancelled.   *)
AnswerLostOnlyAfterDecision ==
  \A q \in Requests :
    /\ queue[q] # <<>> /\ response[q] = None
         => pc[q] = "asking" \/ status[q] \in {"timed_out", "dropped"}
    /\ pc[q] = "asking" => response[q] = None

(* The parts of the inductive invariant that no property above states:     *)
(* an answer is put on the queue of the room it names ...                  *)
QueuedForRoom ==
  \A q \in Requests : \A i \in 1..Len(queue[q]) : queue[q][i].room = RoomOf[q]

(* ... a coroutine sends again only on a send-anyways of its own room ...  *)
ApprovedByAnswer ==
  \A q \in Requests : pc[q] \in {"approved", "reposting"} =>
    /\ response[q] \in Message
    /\ response[q].kind = "send_anyways"
    /\ response[q].room = RoomOf[q]

(* ... and where a coroutine stands tells what it has posted and returned. *)
StageTellsPosted ==
  \A q \in Requests :
    /\ pc[q] \in {"posting", "reposting"} => posted[q] = 1
    /\ pc[q] \notin {"posting", "reposting", "done"} => posted[q] = 0
    /\ pc[q] # "done" => status[q] = "none"

(* Inductive: holds initially, is preserved by every step, and implies the *)
(* invariants above; a queue, a semaphore and a stage of the coroutine     *)
(* never disagree about who decides in a room.                             *)
IndInv == /\ TypeOK
          /\ SemaphoreExclusive
          /\ OnePromptPerRoom
          /\ QueuedForRoom
          /\ ApprovedByAnswer
          /\ StageTellsPosted
          /\ PostedAtMostOnce

(* Every request that has arrived is answered: no prompt, error or         *)
(* cancelled coroutine keeps a later one of the room waiting for ever.     *)
EveryRequestAnswered ==
  \A q \in Requests : pc[q] # "idle" ~> pc[q] = "done"

-----------------------------------------------------------------------------
(* SendMessage implements SendGate.                                        *)
VerdictOf(stage, posts, answer) ==
  CASE posts > 0 -> "out"
    [] posts = 0 /\ stage = "asking" -> "asked"
    [] posts = 0 /\ stage = "approved" -> "approved"
    [] posts = 0 /\ stage = "done" /\ answer # "plain" -> "refused"
    [] OTHER -> "open"

verdict == [q \in Requests |-> VerdictOf(pc[q], posted[q], status[q])]

Gate == INSTANCE SendGate WITH verdict <- verdict

(* Per room one message at a time is decided, a message that was put to    *)
(* the user leaves only after approval, and a decision is never revised.   *)
GateSpec == Gate!Spec

-----------------------------------------------------------------------------
(* A disagreement of the code with what its documentation says.            *)

(* README.md: messages are transparently encrypted.  A message other than  *)
(* a reaction takes the unencrypted path only while pan does not know the  *)
(* room as encrypted; the flag was read before the await of the body.      *)
PlainOnlyIfUnencrypted ==
  [][\A q \in Requests \ Reactions :
       pc[q] # "forwarding" /\ pc'[q] = "forwarding" => ~encrypted[RoomOf[q]]]_vars

=============================================================================
