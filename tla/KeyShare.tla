------------------------------- MODULE KeyShare -------------------------------
(***************************************************************************)
(* Room key requests: a device of the user asks for room keys; unless it   *)
(* is verified the request waits in nio until the user, with panctl, lets  *)
(* it continue or cancels it, or the device takes it back.  The key leaves *)
(* in a to-device message, sent by the handler of the command or, when     *)
(* that fails, by the sync loop.  Commands and responses take the way of   *)
(* Panctl.                                                                 *)
(***************************************************************************)
EXTENDS Panctl

CONSTANTS Devices, KeyRequests, DeviceOf,
          MaxFailures   \* bound: failed sends

ASSUME DeviceOfAssumption == DeviceOf \in [KeyRequests -> Devices]
ASSUME FailuresAssumption == MaxFailures \in Nat

VARIABLES
  verified,    \* devices
  waiting,     \* nio's key_request_from_untrusted
  outgoing,    \* nio's outgoing_to_device_messages: requests whose key they carry
  in_flight,   \* sends under way: who awaits them, and the request
  handling,    \* the command whose handler awaits its sends, in a set
  sent,        \* requests whose key reached the homeserver
  failures     \* counts MaxFailures

sharing == <<waiting, outgoing, in_flight, handling>>
vars == <<panctlVars, sharing, verified, sent, failures>>

Command == [kind : {"continue", "cancel"}, device : Devices]

Init ==
  /\ PanctlInit
  /\ verified = {} /\ waiting = {} /\ outgoing = {}
  /\ in_flight = {} /\ handling = {} /\ sent = {} /\ failures = 0

-----------------------------------------------------------------------------
(* The sync brings a request, or once more one that was lost: a verified   *)
(* device gets its key, of another key_request_cb tells the UI thread.     *)
(* Or it brings the cancellation of one that waits.                        *)
DeviceRequests(k) ==
  /\ k \notin waiting \cup outgoing \cup sent
  /\ IF DeviceOf[k] \in verified
     THEN outgoing' = outgoing \cup {k} /\ UNCHANGED waiting
     ELSE waiting' = waiting \cup {k} /\ UNCHANGED outgoing
  /\ UNCHANGED <<panctlVars, in_flight, handling, verified, sent, failures>>

DeviceCancels(k) ==
  /\ k \in waiting
  /\ waiting' = waiting \ {k}
  /\ UNCHANGED <<panctlVars, outgoing, in_flight, handling, verified, sent, failures>>

\* The user verifies a device or takes that back.
SetTrust(d) ==
  /\ verified' = (verified \ {d}) \cup ({d} \ verified)
  /\ UNCHANGED <<panctlVars, sharing, sent, failures>>

-----------------------------------------------------------------------------
(* handle_key_request_message, for the command the router has taken.       *)
Active(d) == {k \in waiting : DeviceOf[k] = d}

\* The command at the head of the router's queue; it takes none while it
\* awaits a handler.
Routed(kind, d) == handling = {} /\ Take /\ Head(to_router).command = [kind |-> kind, device |-> d]

\* No request waits, or the device is not verified: an error.
ContinueRefused(d) ==
  /\ Routed("continue", d)
  /\ Active(d) = {} \/ d \notin verified
  /\ Respond(Head(to_router))
  /\ UNCHANGED <<run, message_id, calling, memory, sharing, verified, sent,
                 failures>>

\* A mistake: the requests that were continued go on waiting.
ContinueWaiting(d) ==
  /\ Routed("continue", d)
  /\ Active(d) # {} /\ d \in verified
  /\ outgoing' = outgoing \cup Active(d)
  /\ in_flight' = in_flight \cup ({"router"} \X outgoing')
  /\ handling' = {Head(to_router)}
  /\ UNCHANGED <<run, message_id, to_ui, calling, memory, waiting, verified, sent,
                 failures>>

\* The keys are queued as to-device messages, all that are queued are sent.
Continue(d) ==
  /\ Routed("continue", d)
  /\ Active(d) # {} /\ d \in verified
  /\ waiting' = waiting \ Active(d)
  /\ outgoing' = outgoing \cup Active(d)
  /\ in_flight' = in_flight \cup ({"router"} \X outgoing')
  /\ handling' = {Head(to_router)}
  /\ UNCHANGED <<run, message_id, to_ui, calling, memory, verified, sent,
                 failures>>

\* send_to_device_messages is over, well or not.
Continued ==
  /\ {f \in in_flight : f[1] = "router"} = {}
  /\ \E m \in handling : Respond(m)
  /\ handling' = {}
  /\ UNCHANGED <<run, message_id, to_router, calling, memory, waiting, outgoing,
                 in_flight, verified, sent, failures>>

Cancel(d) ==
  /\ Routed("cancel", d)
  /\ waiting' = waiting \ Active(d)
  /\ Respond(Head(to_router))
  /\ UNCHANGED <<run, message_id, calling, memory, outgoing, in_flight, handling,
                 verified, sent, failures>>

-----------------------------------------------------------------------------
(* sync_forever sends what is queued, whoever else is sending it.          *)
SyncSends ==
  /\ outgoing # {} /\ {f \in in_flight : f[1] = "sync"} = {}
  /\ in_flight' = in_flight \cup ({"sync"} \X outgoing)
  /\ UNCHANGED <<panctlVars, waiting, outgoing, handling, verified, sent, failures>>

\* A message that was sent is taken off the queue.
SendReturns(f) ==
  /\ f \in in_flight
  /\ in_flight' = in_flight \ {f}
  /\ sent' = sent \cup {f[2]} /\ outgoing' = outgoing \ {f[2]}
  /\ UNCHANGED <<panctlVars, waiting, handling, verified, failures>>

\* A mistake: a message is taken off the queue although it was not sent.
SendFailsOnce(f) ==
  /\ f \in in_flight /\ failures < MaxFailures
  /\ failures' = failures + 1
  /\ in_flight' = in_flight \ {f} /\ outgoing' = outgoing \ {f[2]}
  /\ UNCHANGED <<panctlVars, waiting, handling, verified, sent>>

\* A connection error ends the wait for the others; they go on by themselves.
SendFails(f) ==
  /\ f \in in_flight /\ failures < MaxFailures
  /\ failures' = failures + 1
  /\ in_flight' = {IF g[1] = f[1] THEN <<"nobody", g[2]>> ELSE g : g \in in_flight \ {f}}
  /\ UNCHANGED <<panctlVars, waiting, outgoing, handling, verified, sent>>

-----------------------------------------------------------------------------
(* What waits, and what is to be sent, is only in memory.                  *)
Restart ==
  /\ RestartDaemon
  /\ waiting' = {} /\ outgoing' = {} /\ in_flight' = {} /\ handling' = {}
  /\ UNCHANGED <<verified, sent, failures>>

Sends == {"router", "sync", "nobody"} \X KeyRequests

(* The steps of panctl and of the UI thread.                               *)
Interface ==
  /\ \/ \E p \in Panctls, c \in Command : CallMethod(p, c)
     \/ \E p \in Panctls : RecordId(p) \/ ReceiveResponse(p)
     \/ EmitResponse
  /\ UNCHANGED <<sharing, verified, sent, failures>>

Handler == Continued \/ \E d \in Devices : ContinueRefused(d) \/ Continue(d) \/ Cancel(d)
Send(f) == SendReturns(f) \/ SendFails(f)

Next == \/ Interface \/ Handler \/ SyncSends \/ Restart
        \/ \E k \in KeyRequests : DeviceRequests(k) \/ DeviceCancels(k)
        \/ \E d \in Devices : SetTrust(d)
        \/ \E f \in Sends : Send(f)

(* The sync loop goes on, and the requests to the homeserver return or     *)
(* fail: while there is something to send or to wait for, one of the two   *)
(* happens.  That much is enough, since every send that fails is counted.  *)
Fairness == WF_vars(SyncSends \/ \E f \in Sends : Send(f))

Spec == Init /\ [][Next]_vars
FairSpec == Spec /\ Fairness

-----------------------------------------------------------------------------
(* Properties.                                                             *)

\* Every variable has its type; a request waits, or its key is on its way.
TypeOK ==
  /\ PanctlTypeOK
  /\ verified \subseteq Devices
  /\ waiting \subseteq KeyRequests /\ outgoing \subseteq KeyRequests
  /\ waiting \cap (outgoing \cup sent) = {}
  /\ in_flight \subseteq Sends /\ sent \subseteq KeyRequests /\ failures \in 0 .. MaxFailures
  /\ \A m \in Range(to_router) \cup handling : m.command \in Command
  /\ \A m, n \in handling : m = n

\* A key the user let go on reaches the homeserver, however often a send
\* fails and whether the handler or the sync loop sends it: "this will be
\* retried after the next sync".  (Of the last run: a restart forgets it.)
ContinuedIsSent ==
  \A k \in KeyRequests : (run = MaxRuns /\ k \in outgoing) ~> k \in sent
=============================================================================
