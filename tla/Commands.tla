------------------------------- MODULE Commands -------------------------------
(***************************************************************************)
(* The way of a user's command: a D-Bus method of the UI thread numbers it *)
(* and puts it on a janus queue, the router task of the event loop hands   *)
(* it to the proxy of its pan user, and responses and device updates come  *)
(* back over a second queue, of which the UI thread's timer takes one      *)
(* message at a time.  The UI thread keeps a copy of the device list that  *)
(* only those updates change.  The commands of key verification and key    *)
(* sharing are in Verification, the answers to a prompt in SendMessage.    *)
(***************************************************************************)
EXTENDS Naturals, Sequences, FiniteSets

CONSTANTS Users,        \* the users a command may name
          PanUsers,     \* those a proxy has a pan client for
          Devices,      \* devices in a client's device store
          MaxCommands,  \* bound: commands issued
          MaxChanges    \* bound: changes to devices that no command makes

ASSUME PanUsersAssumption == PanUsers \subseteq Users
ASSUME BoundsAssumption == MaxCommands \in Nat /\ MaxChanges \in Nat

VARIABLES
  message_id,   \* IdCounter: the next command's id
  ui_queue,     \* commands from the UI thread
  router,       \* the router task: waiting for a command, working on one, dead
  current,      \* the command whose handler the router awaits
  pan_queue,    \* messages to the UI thread
  trust,        \* the device store: trust state of a known device
  deleted,      \* devices the server no longer lists
  owed,         \* sets of devices some coroutine is about to send an update of
  unreported,   \* devices a message ignored and no update will follow
  device_list,  \* the UI thread's copy: trust state, or "absent"
  responses,    \* how often a Response signal was emitted for a command
  changes       \* counts MaxChanges

vars == <<message_id, ui_queue, router, current, pan_queue, trust, deleted,
          owed, unreported, device_list, responses, changes>>

DeviceKinds == {"verify", "unverify", "blacklist", "unblacklist"}
Ids == 0..(MaxCommands - 1)
Trust == {"unset", "verified", "blacklisted", "ignored"}
Command == [id : Ids, kind : DeviceKinds \cup {"keys"}, user : Users, device : Devices]

(* UpdateDevicesMessage: the state of some devices when it was built.      *)
Update(u, f) == [type |-> "devices", user |-> u, devices |-> f]
Response(id, u, code) == [type |-> "response", id |-> id, user |-> u, code |-> code]
NoCommand == [id |-> MaxCommands]
PanMessage ==
  [type : {"response"}, id : Ids, user : Users,
   code : {"m.ok", "m.os_error", "m.unknown_client", "m.unknown_device"}]
    \cup UNION {[type : {"devices"}, user : PanUsers, devices : [S -> Trust \cup {"absent"}]] :
                  S \in SUBSET Devices}

Init ==
  /\ message_id = 0 /\ ui_queue = <<>> /\ router = "waiting" /\ current = NoCommand
  /\ pan_queue = <<>>
  /\ trust = [u \in PanUsers |-> [d \in Devices |-> "absent"]]
  /\ deleted = [u \in PanUsers |-> {}]
  /\ owed = [u \in PanUsers |-> {}]
  /\ unreported = [u \in PanUsers |-> {}]
  /\ device_list = [u \in PanUsers |-> [d \in Devices |-> "absent"]]
  /\ responses = [i \in Ids |-> 0]
  /\ changes = 0

storeVars == <<trust, deleted, owed, unreported, changes>>
uiVars == <<device_list, responses>>

-----------------------------------------------------------------------------
(* The UI thread.                                                          *)

(* A method of Control or Devices.                                         *)
Issue(k, u, d) ==
  /\ message_id < MaxCommands
  /\ ui_queue' = Append(ui_queue, [id |-> message_id, kind |-> k, user |-> u, device |-> d])
  /\ message_id' = message_id + 1
  /\ UNCHANGED <<router, current, pan_queue, storeVars, uiVars>>

(* A mistake: the devices of an update replace the list.                   *)
ShowUpdateReplacing ==
  /\ pan_queue # <<>>
  /\ Head(pan_queue).type = "devices"
  /\ LET m == Head(pan_queue) IN
       device_list' = [device_list EXCEPT ![m.user] =
         [d \in Devices |-> IF d \in DOMAIN m.devices THEN m.devices[d] ELSE "absent"]]
  /\ pan_queue' = Tail(pan_queue)
  /\ UNCHANGED <<message_id, ui_queue, router, current, storeVars, responses>>

(* Devices.update_devices: deleted devices leave the list.                 *)
ShowUpdate ==
  /\ pan_queue # <<>>
  /\ Head(pan_queue).type = "devices"
  /\ LET m == Head(pan_queue) IN
       device_list' = [device_list EXCEPT ![m.user] =
         [d \in Devices |-> IF d \in DOMAIN m.devices THEN m.devices[d] ELSE @[d]]]
  /\ pan_queue' = Tail(pan_queue)
  /\ UNCHANGED <<message_id, ui_queue, router, current, storeVars, responses>>

(* Control.Response is emitted on the bus.                                 *)
EmitResponse ==
  /\ pan_queue # <<>>
  /\ Head(pan_queue).type = "response"
  /\ responses' = [responses EXCEPT ![Head(pan_queue).id] = @ + 1]
  /\ pan_queue' = Tail(pan_queue)
  /\ UNCHANGED <<message_id, ui_queue, router, current, storeVars, device_list>>

-----------------------------------------------------------------------------
(* The event loop.                                                         *)

(* What the UI thread is to show of a device.                              *)
View(u, d) == IF d \in deleted[u] THEN "absent" ELSE trust[u][d]

(* A mistake: the state that undoing a decision leaves has no such name.   *)
NewTrustUnverified(kind, t) ==
  CASE kind = "verify" -> "verified"
    [] kind = "blacklist" -> "blacklisted"
    [] OTHER -> "unverified"

(* nio's verify_device and its siblings change the store or return False.  *)
NewTrust(kind, t) ==
  CASE kind = "verify" -> "verified"
    [] kind = "blacklist" -> "blacklisted"
    [] kind = "unverify" /\ t = "verified" -> "unset"
    [] kind = "unblacklist" /\ t = "blacklisted" -> "unset"
    [] OTHER -> t

NextCommand == /\ router = "waiting"
               /\ ui_queue # <<>>
               /\ ui_queue' = Tail(ui_queue)

(* Mistakes in the actions below: an error and a success for one command,  *)
(* no answer after an error.                                               *)
FinishKeysTwice ==
  /\ router = "working"
  /\ pan_queue' = pan_queue \o <<Response(current.id, current.user, "m.os_error"),
                                 Response(current.id, current.user, "m.ok")>>
  /\ router' = "waiting"
  /\ current' = NoCommand
  /\ UNCHANGED <<message_id, ui_queue, storeVars, uiVars>>

FinishKeysSilently ==
  /\ router = "working"
  /\ router' = "waiting"
  /\ current' = NoCommand
  /\ UNCHANGED <<message_id, ui_queue, pan_queue, storeVars, uiVars>>

(* message_router: no proxy has the user.  A response is sent and the      *)
(* message is handed to the missing proxy all the same, which ends the     *)
(* task.                                                                   *)
RouteUnknownUser ==
  /\ NextCommand
  /\ Head(ui_queue).user \notin PanUsers
  /\ pan_queue' = Append(pan_queue,
                         Response(Head(ui_queue).id, Head(ui_queue).user, "m.unknown_client"))
  /\ router' = "dead"
  /\ UNCHANGED <<message_id, current, storeVars, uiVars>>

RouteUnknownDevice ==
  /\ NextCommand
  /\ LET m == Head(ui_queue) IN
       /\ m.user \in PanUsers /\ m.kind \in DeviceKinds
       /\ trust[m.user][m.device] = "absent"
       /\ pan_queue' = Append(pan_queue, Response(m.id, m.user, "m.unknown_device"))
  /\ UNCHANGED <<message_id, router, current, storeVars, uiVars>>

(* _verify_device and its siblings: the update first, then the response;   *)
(* no update when nothing changed.                                         *)
RouteDevice ==
  /\ NextCommand
  /\ LET m == Head(ui_queue)
         u == m.user
         new == NewTrust(m.kind, trust[u][m.device])
         view == IF m.device \in deleted[u] THEN "absent" ELSE new
         update == IF new = trust[u][m.device] THEN <<>>
                     ELSE <<Update(u, [d \in {m.device} |-> view])>>
     IN /\ u \in PanUsers /\ m.kind \in DeviceKinds
        /\ trust[u][m.device] # "absent"
        /\ trust' = [trust EXCEPT ![u][m.device] = new]
        /\ unreported' = IF update = <<>> THEN unreported
                           ELSE [unreported EXCEPT ![u] = @ \ {m.device}]
        /\ pan_queue' = pan_queue \o update \o <<Response(m.id, u, "m.ok")>>
  /\ UNCHANGED <<message_id, router, current, deleted, owed, changes, uiVars>>

(* export_keys or import_keys runs in an executor, the router waits for it *)
RouteKeys ==
  /\ NextCommand
  /\ Head(ui_queue).user \in PanUsers /\ Head(ui_queue).kind = "keys"
  /\ router' = "working"
  /\ current' = Head(ui_queue)
  /\ UNCHANGED <<message_id, pan_queue, storeVars, uiVars>>

(* ... and answers, also when the file or the passphrase was no good.      *)
FinishKeys ==
  /\ router = "working"
  /\ \E code \in {"m.ok", "m.os_error"} :
       pan_queue' = Append(pan_queue, Response(current.id, current.user, code))
  /\ router' = "waiting"
  /\ current' = NoCommand
  /\ UNCHANGED <<message_id, ui_queue, storeVars, uiVars>>

Router == \/ RouteUnknownUser \/ RouteUnknownDevice \/ RouteDevice
          \/ RouteKeys \/ FinishKeys

(* A keys query of the sync loop finds a new device or misses a known one; *)
(* the callback that sends the update runs after it.                       *)
KeysQuery(u, d) ==
  /\ changes < MaxChanges
  /\ d \notin deleted[u]
  /\ \/ trust[u][d] = "absent" /\ trust' = [trust EXCEPT ![u][d] = "unset"] /\ UNCHANGED deleted
     \/ trust[u][d] # "absent" /\ deleted' = [deleted EXCEPT ![u] = @ \cup {d}] /\ UNCHANGED trust
  /\ owed' = [owed EXCEPT ![u] = @ \cup {{d}}]
  /\ changes' = changes + 1
  /\ UNCHANGED <<message_id, ui_queue, router, current, pan_queue, unreported, uiVars>>

(* A message is sent to devices nothing is decided about.  After a         *)
(* send-anyways answer an update of the room follows once the message is   *)
(* out; with ignore_verification, or when the send raises, none does.      *)
IgnoreDevices(u, S) ==
  /\ changes < MaxChanges
  /\ S # {} /\ \A d \in S : trust[u][d] = "unset" /\ d \notin deleted[u]
  /\ trust' = [trust EXCEPT ![u] = [d \in Devices |-> IF d \in S THEN "ignored" ELSE @[d]]]
  /\ \/ owed' = [owed EXCEPT ![u] = @ \cup {S}] /\ UNCHANGED unreported
     \/ unreported' = [unreported EXCEPT ![u] = @ \cup S] /\ UNCHANGED owed
  /\ changes' = changes + 1
  /\ UNCHANGED <<message_id, ui_queue, router, current, pan_queue, deleted, uiVars>>

(* send_update_devices: the devices as they are now, in one message.       *)
SendUpdate(u, S) ==
  /\ S \in owed[u]
  /\ owed' = [owed EXCEPT ![u] = @ \ {S}]
  /\ unreported' = [unreported EXCEPT ![u] = @ \ S]
  /\ pan_queue' = Append(pan_queue, Update(u, [d \in S |-> View(u, d)]))
  /\ UNCHANGED <<message_id, ui_queue, router, current, trust, deleted, changes, uiVars>>

User == \E k \in DeviceKinds \cup {"keys"}, u \in Users, d \in Devices : Issue(k, u, d)

Store == \E u \in PanUsers :
           \/ \E d \in Devices : KeysQuery(u, d)
           \/ \E S \in SUBSET Devices : IgnoreDevices(u, S)

Updates == \E u \in PanUsers : \E S \in owed[u] : SendUpdate(u, S)

Next == User \/ ShowUpdate \/ EmitResponse \/ Router \/ Store \/ Updates

Spec == Init /\ [][Next]_vars

(* The timer of the UI thread fires, the event loop runs what can run.     *)
FairSpec == Spec /\ WF_vars(ShowUpdate \/ EmitResponse) /\ WF_vars(Router) /\ WF_vars(Updates)

-----------------------------------------------------------------------------
(* Properties.                                                             *)

(* Every variable of the two threads keeps its type.                       *)
TypeOK ==
  /\ message_id \in 0..MaxCommands
  /\ ui_queue \in Seq(Command)
  /\ router \in {"waiting", "working", "dead"}
  /\ current \in Command \cup {NoCommand}
  /\ pan_queue \in Seq(PanMessage)
  /\ trust \in [PanUsers -> [Devices -> Trust \cup {"absent"}]]
  /\ deleted \in [PanUsers -> SUBSET Devices]
  /\ owed \in [PanUsers -> SUBSET SUBSET Devices]
  /\ unreported \in [PanUsers -> SUBSET Devices]
  /\ device_list \in [PanUsers -> [Devices -> Trust \cup {"absent"}]]
  /\ responses \in [Ids -> Nat]
  /\ changes \in 0..MaxChanges

(* What the UI thread will show of a device once it has taken the messages *)
(* that are queued now.                                                    *)
Carrying(u, d) == {i \in 1..Len(pan_queue) : /\ pan_queue[i].type = "devices"
                                             /\ pan_queue[i].user = u
                                             /\ d \in DOMAIN pan_queue[i].devices}
ShownNext(u, d) ==
  IF Carrying(u, d) = {} THEN device_list[u][d]
  ELSE pan_queue[CHOOSE i \in Carrying(u, d) : \A j \in Carrying(u, d) : j <= i].devices[d]

(* The device list of the UI thread converges to the store although both   *)
(* the router and the coroutines of the event loop change the store and    *)
(* update the UI at other moments: unless an update is still owed, or the  *)
(* device was ignored behind the user's back, the last update under way    *)
(* carries the device as it is.                                            *)
DeviceListConverges ==
  \A u \in PanUsers, d \in Devices :
    d \notin (UNION owed[u]) \cup unreported[u] => ShownNext(u, d) = View(u, d)

(* A command is answered at most once, under the id its caller was given,  *)
(* whatever branch of receive_message handled it.                          *)
AnsweredOnce ==
  \A i \in Ids :
    responses[i] + Cardinality({j \in 1..Len(pan_queue) :
                                  pan_queue[j].type = "response" /\ pan_queue[j].id = i})
      + Cardinality({j \in 1..Len(ui_queue) : ui_queue[j].id = i})
      + (IF current.id = i THEN 1 ELSE 0)
    = (IF i < message_id THEN 1 ELSE 0)

(* As long as the router task lives, every command is answered, whatever   *)
(* the others do meanwhile to the store and to the queues.                 *)
AnsweredWhileRouterLives ==
  \A i \in Ids : i < message_id ~> responses[i] = 1 \/ router = "dead"

-----------------------------------------------------------------------------
(* A disagreement of the code with what its documentation says.            *)

(* message_router: "Find the recipient of a message and forward it to the  *)
(* right proxy", in a loop without end: every command is answered.         *)
EveryCommandAnswered ==
  \A i \in Ids : i < message_id ~> responses[i] = 1
=============================================================================
