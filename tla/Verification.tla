------------------------------ MODULE Verification ------------------------------
(***************************************************************************)
(* Interactive verification of another device by short authentication      *)
(* string.  The user's commands reach PanClient's start_sas, accept_sas,   *)
(* confirm_sas and cancel_sas one after the other through the router task; *)
(* the other device's to-device messages arrive with the background sync,  *)
(* which runs whenever a handler awaits the homeserver, and end in         *)
(* key_verification_cb.  Both sides report to the UI thread.               *)
(***************************************************************************)
EXTENDS Naturals, Sequences, FiniteSets

CONSTANTS OurTransactions,    \* bound: verifications our user starts
          TheirTransactions,  \* bound: those the other device starts
          MaxCommands,        \* bound: commands issued
          None

Transactions == OurTransactions \cup TheirTransactions

ASSUME TransactionsAssumption == OurTransactions \cap TheirTransactions = {}
ASSUME NoneAssumption == None \notin Transactions
ASSUME MaxCommandsAssumption == MaxCommands \in Nat

VARIABLES
  \* nio's Sas objects, all with one and the same device
  state,         \* how far a transaction is
  sas_accepted,  \* transactions whose string our user confirmed
  created,       \* transactions in the order of their creation
  lost,          \* transactions the other side does not follow
  verified,      \* the device store: the device is verified
  \* the router task
  router,        \* "waiting", the await it is suspended in, or "dead"
  current,       \* the id of the command it handles
  sas,           \* the local of the handler: a transaction
  \* the UI thread
  message_id,    \* commands issued
  ui_queue,      \* commands under way
  pan_queue,     \* messages under way to the UI thread
  device_list,   \* its copy of "verified"
  answers,       \* Response or SasDone signals that answered a command
  sas_done,      \* SasDone signals emitted for a transaction
  unreported     \* verified by a confirmation that failed or was overtaken

sasVars == <<state, sas_accepted, created, lost, verified>>
routerVars == <<router, current, sas>>
uiVars == <<device_list, answers, sas_done>>
vars == <<sasVars, routerVars, message_id, ui_queue, pan_queue, uiVars, unreported>>

Kinds == {"start", "accept", "confirm", "cancel"}
Awaits == {"starting", "accepting", "confirming", "cancelling"}
States == {"none", "started", "accepted", "key_received", "mac_received", "canceled"}
Ids == 0..(MaxCommands - 1)

Response(code) == [type |-> "response", id |-> current, code |-> code]
Update == [type |-> "devices", verified |-> TRUE]
SasDone(t, id) == [type |-> "sas_done", sas |-> t, id |-> id]
NoId == MaxCommands

Init ==
  /\ state = [t \in Transactions |-> "none"]
  /\ sas_accepted = {} /\ created = <<>> /\ lost = {}
  /\ verified = FALSE
  /\ router = "waiting" /\ current = NoId /\ sas = None
  /\ message_id = 0 /\ ui_queue = <<>> /\ pan_queue = <<>>
  /\ device_list = FALSE
  /\ answers = [i \in Ids |-> 0]
  /\ sas_done = [t \in Transactions |-> 0]
  /\ unreported = FALSE

-----------------------------------------------------------------------------
(* What the handlers use of nio.                                           *)

Verified(t) == state[t] = "mac_received" /\ t \in sas_accepted

Active == {i \in 1..Len(created) : state[created[i]] # "canceled"}

(* get_active_sas: the newest transaction that is not canceled.            *)
ActiveSas == IF Active = {} THEN None
             ELSE created[CHOOSE i \in Active : \A j \in Active : j <= i]

(* LocalProtocolError of accept_key_verification and of                    *)
(* confirm_short_auth_string.                                              *)
AcceptOutOfOrder(t) == t \in OurTransactions \/ state[t] # "started"
ConfirmOutOfOrder(t) == state[t] \notin {"key_received", "mac_received"}

-----------------------------------------------------------------------------
(* The UI thread.                                                          *)

(* A method of Devices: StartKeyVerification and its siblings.             *)
Unstarted == {t \in OurTransactions : state[t] = "none"}
StartsQueued == {i \in 1..Len(ui_queue) : ui_queue[i].kind = "start"}

Issue(k) ==
  /\ message_id < MaxCommands
  /\ k = "start" => Cardinality(StartsQueued) < Cardinality(Unstarted)
  /\ ui_queue' = Append(ui_queue, [id |-> message_id, kind |-> k])
  /\ message_id' = message_id + 1
  /\ UNCHANGED <<sasVars, routerVars, pan_queue, uiVars, unreported>>

(* message_callback: a device update, a response, or a SasDone signal.     *)
ShowMessage ==
  /\ pan_queue # <<>>
  /\ LET m == Head(pan_queue) IN
       /\ device_list' = IF m.type = "devices" THEN m.verified ELSE device_list
       /\ answers' = IF m.type # "devices" /\ m.id # NoId
                       THEN [answers EXCEPT ![m.id] = @ + 1] ELSE answers
       /\ sas_done' = IF m.type = "sas_done" THEN [sas_done EXCEPT ![m.sas] = @ + 1]
                        ELSE sas_done
  /\ pan_queue' = Tail(pan_queue)
  /\ UNCHANGED <<sasVars, routerVars, message_id, ui_queue, unreported>>

-----------------------------------------------------------------------------
(* The router task: what a handler does up to its await ...                *)

Receive(k) == /\ router = "waiting"
              /\ ui_queue # <<>> /\ Head(ui_queue).kind = k
              /\ ui_queue' = Tail(ui_queue)

(* A mistake: the kind of a command taken for the await.                   *)
AwaitKind(stage, t) ==
  router' = Head(ui_queue).kind /\ current' = Head(ui_queue).id /\ sas' = t

Await(stage, t) == router' = stage /\ current' = Head(ui_queue).id /\ sas' = t

(* start_sas: nio creates the transaction and sends the start message.     *)
StartSas(t) ==
  /\ Receive("start")
  /\ t \in OurTransactions /\ state[t] = "none"
  /\ state' = [state EXCEPT ![t] = "started"]
  /\ created' = Append(created, t)
  /\ Await("starting", t)
  /\ UNCHANGED <<sas_accepted, lost, verified, message_id, pan_queue, uiVars, unreported>>

(* No transaction, or a step out of order: an error goes to the UI.        *)
RejectSas ==
  /\ \/ \E k \in {"accept", "confirm", "cancel"} : Receive(k) /\ ActiveSas = None
     \/ Receive("accept") /\ ActiveSas # None /\ AcceptOutOfOrder(ActiveSas)
  /\ pan_queue' = Append(pan_queue, [type |-> "response", id |-> Head(ui_queue).id,
                                     code |-> "m.error"])
  /\ UNCHANGED <<sasVars, routerVars, message_id, uiVars, unreported>>

AcceptSas ==
  /\ Receive("accept")
  /\ ActiveSas # None /\ ~AcceptOutOfOrder(ActiveSas)
  /\ state' = [state EXCEPT ![ActiveSas] = "accepted"]
  /\ Await("accepting", ActiveSas)
  /\ UNCHANGED <<sas_accepted, created, lost, verified, message_id,
                 pan_queue, uiVars, unreported>>

(* confirm_sas: the device is verified at once if the other side's MAC is  *)
(* here.                                                                   *)
ConfirmSas ==
  /\ Receive("confirm")
  /\ LET t == ActiveSas IN
       /\ t # None /\ ~ConfirmOutOfOrder(t)
       /\ sas_accepted' = sas_accepted \cup {t}
       /\ verified' = (verified \/ state[t] = "mac_received")
       /\ Await("confirming", t)
  /\ UNCHANGED <<state, created, lost, message_id, pan_queue, uiVars, unreported>>

(* confirm_sas does not catch the LocalProtocolError that accept_sas does: *)
(* it ends the router task.                                                *)
ConfirmTooEarly ==
  /\ Receive("confirm")
  /\ ActiveSas # None /\ ConfirmOutOfOrder(ActiveSas)
  /\ router' = "dead"
  /\ UNCHANGED <<sasVars, current, sas, message_id, pan_queue, uiVars, unreported>>

CancelSas ==
  /\ Receive("cancel")
  /\ ActiveSas # None
  /\ state' = [state EXCEPT ![ActiveSas] = "canceled"]
  /\ Await("cancelling", ActiveSas)
  /\ UNCHANGED <<sas_accepted, created, lost, verified, message_id,
                 pan_queue, uiVars, unreported>>

-----------------------------------------------------------------------------
(* ... and what it does once the homeserver has answered, or has not.      *)

Answered == router' = "waiting" /\ current' = NoId /\ sas' = None

(* Mistakes in the actions below: an error that is not answered; a         *)
(* confirmation that does not update the device, or answers m.ok in any    *)
(* case.                                                                   *)
SendFailsSilently ==
  /\ router \in Awaits
  /\ Answered
  /\ UNCHANGED <<sasVars, message_id, ui_queue, pan_queue, uiVars, unreported>>

ConfirmReturnsNoUpdate ==
  /\ router = "confirming"
  /\ pan_queue' = Append(pan_queue, IF Verified(sas) THEN SasDone(sas, current)
                                       ELSE Response("m.ok"))
  /\ Answered
  /\ UNCHANGED <<sasVars, message_id, ui_queue, uiVars, unreported>>

ConfirmReturnsTwice ==
  /\ router = "confirming"
  /\ pan_queue' = pan_queue \o (IF Verified(sas) THEN <<Update, SasDone(sas, current)>> ELSE <<>>)
                             \o <<Response("m.ok")>>
  /\ Answered
  /\ UNCHANGED <<sasVars, message_id, ui_queue, uiVars, unreported>>

SendFails ==
  /\ router \in Awaits
  /\ pan_queue' = Append(pan_queue, Response("m.connection_error"))
  /\ lost' = IF router \in {"starting", "accepting"} THEN lost \cup {sas} ELSE lost
  /\ unreported' = (unreported \/ (router = "confirming" /\ Verified(sas)))
  /\ Answered
  /\ UNCHANGED <<state, sas_accepted, created, verified, message_id,
                 ui_queue, uiVars>>

SendReturns ==
  /\ router \in {"starting", "accepting", "cancelling"}
  /\ pan_queue' = Append(pan_queue, Response("m.ok"))
  /\ Answered
  /\ UNCHANGED <<sasVars, message_id, ui_queue, uiVars, unreported>>

(* confirm_sas reads sas.verified after the await: a SasDone signal is the *)
(* only answer to a confirmation that completes the verification.          *)
ConfirmReturns ==
  /\ router = "confirming"
  /\ pan_queue' = pan_queue \o (IF Verified(sas) THEN <<Update, SasDone(sas, current)>>
                                  ELSE <<Response("m.ok")>>)
  /\ unreported' = (unreported /\ ~Verified(sas))
  /\ Answered
  /\ UNCHANGED <<sasVars, message_id, ui_queue, uiVars>>

-----------------------------------------------------------------------------
(* The background sync: to-device messages of the other side.              *)

(* A new start message cancels the transaction that is active.             *)
ReceiveStart(t) ==
  /\ t \in TheirTransactions /\ state[t] = "none"
  /\ state' = [s \in Transactions |-> IF s = t THEN "started"
                                      ELSE IF s = ActiveSas THEN "canceled" ELSE state[s]]
  /\ created' = Append(created, t)
  /\ unreported' = (unreported \/ (router = "confirming" /\ sas = ActiveSas /\ Verified(sas)))
  /\ UNCHANGED <<sas_accepted, lost, verified, routerVars, message_id,
                 ui_queue, pan_queue, uiVars>>

ReceiveAccept(t) ==
  /\ t \in OurTransactions /\ t \notin lost /\ state[t] = "started"
  /\ state' = [state EXCEPT ![t] = "accepted"]
  /\ UNCHANGED <<sas_accepted, created, lost, verified, routerVars,
                 message_id, ui_queue, pan_queue, uiVars, unreported>>

(* key_verification_cb shows the string, which changes nothing here.       *)
ReceiveKey(t) ==
  /\ t \notin lost /\ state[t] = "accepted"
  /\ state' = [state EXCEPT ![t] = "key_received"]
  /\ UNCHANGED <<sas_accepted, created, lost, verified, routerVars,
                 message_id, ui_queue, pan_queue, uiVars, unreported>>

(* The device is verified if our user has confirmed, and then              *)
(* key_verification_cb tells the UI: SasDone before the device update.     *)
ReceiveMac(t) ==
  /\ state[t] = "key_received"
  /\ state' = [state EXCEPT ![t] = "mac_received"]
  /\ IF t \in sas_accepted
       THEN /\ verified' = TRUE
            /\ pan_queue' = pan_queue \o <<SasDone(t, NoId), Update>>
            /\ unreported' = FALSE
       ELSE UNCHANGED <<verified, pan_queue, unreported>>
  /\ UNCHANGED <<sas_accepted, created, lost, routerVars, message_id,
                 ui_queue, uiVars>>

(* The other side cancels, or the transaction is too old.  Nothing keeps   *)
(* it from canceling one that both have confirmed: confirm_sas then finds  *)
(* it not verified after its await, and answers "Waiting to confirm".      *)
ReceiveCancel(t) ==
  /\ state[t] \notin {"none", "canceled"}
  /\ state' = [state EXCEPT ![t] = "canceled"]
  /\ unreported' = (unreported \/ (router = "confirming" /\ sas = t /\ Verified(t)))
  /\ UNCHANGED <<sas_accepted, created, lost, verified, routerVars, message_id,
                 ui_queue, pan_queue, uiVars>>

-----------------------------------------------------------------------------
Router == \/ \E t \in Transactions : StartSas(t)
          \/ RejectSas \/ AcceptSas \/ ConfirmSas \/ ConfirmTooEarly \/ CancelSas
          \/ SendFails \/ SendReturns \/ ConfirmReturns

Sync == \E t \in Transactions :
          \/ ReceiveStart(t) \/ ReceiveAccept(t) \/ ReceiveKey(t)
          \/ ReceiveMac(t) \/ ReceiveCancel(t)

Next == (\E k \in Kinds : Issue(k)) \/ ShowMessage \/ Router \/ Sync

Spec == Init /\ [][Next]_vars

(* The UI thread's timer fires, the router takes what is queued, and its   *)
(* requests to the homeserver end.  The other side owes nothing.           *)
FairSpec == Spec /\ WF_vars(ShowMessage) /\ WF_vars(Router)

-----------------------------------------------------------------------------
(* Properties.                                                             *)

(* Every variable keeps its type.                                         *)
TypeOK ==
  /\ state \in [Transactions -> States]
  /\ sas_accepted \subseteq Transactions
  /\ created \in Seq(Transactions)
  /\ lost \subseteq Transactions
  /\ verified \in BOOLEAN /\ device_list \in BOOLEAN /\ unreported \in BOOLEAN
  /\ router \in {"waiting", "dead"} \cup Awaits
  /\ current \in Ids \cup {NoId}
  /\ sas \in Transactions \cup {None}
  /\ message_id \in 0..MaxCommands
  /\ \A i \in 1..Len(pan_queue) : pan_queue[i].type \in {"devices", "response", "sas_done"}
  /\ answers \in [Ids -> Nat]
  /\ sas_done \in [Transactions -> Nat]

Queued(Test(_)) == \E i \in 1..Len(pan_queue) : Test(pan_queue[i])

(* What the user is told and what the device store says agree.  Whichever  *)
(* of the two confirmations comes last, and whatever runs during the       *)
(* awaits, the UI thread hears that the device is verified - with three    *)
(* exceptions, in which the store says verified and nothing else does: the *)
(* confirmation that completed it could not be sent, or, while it was      *)
(* being sent, the other side started anew or canceled.  And a             *)
(* verification is reported as done only when both sides confirmed that    *)
(* very transaction.                                                       *)
VerifiedIsReported ==
  /\ verified /\ ~unreported =>
       \/ device_list
       \/ Queued(LAMBDA m : m.type = "devices")
       \/ router = "confirming" /\ Verified(sas)
  /\ \A t \in Transactions :
       sas_done[t] > 0 \/ Queued(LAMBDA m : m.type = "sas_done" /\ m.sas = t)
         => verified /\ t \in sas_accepted /\ state[t] \in {"mac_received", "canceled"}

Answering(i) == {j \in 1..Len(pan_queue) : pan_queue[j].type # "devices" /\ pan_queue[j].id = i}

(* A command gets one answer: one response, or the SasDone signal of the   *)
(* confirmation that completed the verification.                           *)
CommandAnsweredOnce ==
  \A i \in Ids :
    answers[i] + Cardinality(Answering(i)) + (IF current = i THEN 1 ELSE 0)
      <= (IF \E j \in 1..Len(ui_queue) : ui_queue[j].id = i THEN 0 ELSE 1)

(* Every command is answered by a response or a SasDone signal, unless a   *)
(* confirmation out of order has ended the router task.                    *)
EveryCommandHandled ==
  \A i \in Ids : i < message_id ~> router = "dead" \/ answers[i] = 1
=============================================================================
