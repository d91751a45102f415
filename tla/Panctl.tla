-------------------------------- MODULE Panctl --------------------------------
(***************************************************************************)
(* panctl, the command line client, and the part of the UI thread it talks *)
(* to over D-Bus.  A method returns the number the daemon gave the command;*)
(* the response comes later as a signal that every panctl receives, each   *)
(* in a thread of its own and in its own time, and is shown by the one     *)
(* that remembers the number.  The daemon counts from 0 again after a      *)
(* restart, panctl keeps running.                                          *)
(***************************************************************************)
EXTENDS Naturals, Sequences, SequencesExt

CONSTANTS Panctls,
          MaxRuns,      \* bound: runs of the daemon
          MaxCommands,  \* bound: commands in each run
          None

ASSUME BoundsAssumption == MaxRuns \in Nat \ {0} /\ MaxCommands \in [1 .. MaxRuns -> Nat]

\* What panctl knows of a call is its number; the run serves the properties.
Calls == [id : Nat, run : 1 .. MaxRuns]
ASSUME NoneAssumption == None \notin Calls

VARIABLES
  run,             \* the run of the daemon, counted for the properties
  message_id,      \* IdCounter
  to_router,       \* the queue of commands
  to_ui,           \* the queue of responses
  calling,         \* per panctl: the call whose number is not yet recorded, or None
  own_message_ids, \* per panctl: the calls whose response it waits for, in order
  signals,         \* per panctl: the Response signals it has not handled yet
  mistaken         \* per panctl: the numbers it showed another's response for,
                   \* kept for the properties

memory == <<own_message_ids, signals, mistaken>>
panctlVars == <<run, message_id, to_router, to_ui, calling, memory>>

Call(m) == [id |-> m.id, run |-> m.run]

PanctlInit ==
  /\ run = 1 /\ message_id = 0
  /\ to_router = <<>> /\ to_ui = <<>>
  /\ calling = [p \in Panctls |-> None]
  /\ own_message_ids = [p \in Panctls |-> <<>>]
  /\ signals = [p \in Panctls |-> <<>>]
  /\ mistaken = [p \in Panctls |-> {}]

\* A D-Bus method: the message is queued, its number goes back to the caller.
CallMethod(p, command) ==
  LET m == [id |-> message_id, run |-> run, by |-> p, command |-> command]
  IN /\ calling[p] = None /\ message_id < MaxCommands[run]
     /\ message_id' = message_id + 1
     /\ to_router' = Append(to_router, m)
     /\ calling' = [calling EXCEPT ![p] = Call(m)]
     /\ UNCHANGED <<run, to_ui, memory>>

\* The call has returned in panctl's main thread, which appends the number.
RecordId(p) ==
  /\ calling[p] # None
  /\ own_message_ids' = [own_message_ids EXCEPT ![p] = Append(@, calling[p])]
  /\ calling' = [calling EXCEPT ![p] = None]
  /\ UNCHANGED <<run, message_id, to_router, to_ui, signals, mistaken>>

\* A mistake: every panctl shows the response.
ForgetId(ids, m) == IF ids = <<>> THEN ids ELSE Tail(ids)

\* show_response: a number that is not its own is ignored, the first of its
\* own that is equal is removed.
ShowResponse(ids, m) == RemoveFirstMatch(ids, LAMBDA c : c.id = m.id)

\* The UI thread's timer takes a response off the queue and emits Response.
EmitResponse ==
  /\ to_ui # <<>>
  /\ to_ui' = Tail(to_ui)
  /\ signals' = [p \in Panctls |-> Append(signals[p], Head(to_ui))]
  /\ UNCHANGED <<run, message_id, to_router, calling, own_message_ids, mistaken>>

\* panctl's signal thread handles a signal.
ReceiveResponse(p) ==
  /\ signals[p] # <<>>
  /\ signals' = [signals EXCEPT ![p] = Tail(@)]
  /\ LET m == Head(signals[p])
         ids == ShowResponse(own_message_ids[p], m)
     IN /\ own_message_ids' = [own_message_ids EXCEPT ![p] = ids]
        /\ mistaken' = [mistaken EXCEPT ![p] =
                          IF m.by # p /\ ids # own_message_ids[p] THEN @ \cup {m.id} ELSE @]
  /\ UNCHANGED <<run, message_id, to_router, to_ui, calling>>

\* The router hands over the message at the head of its queue; the daemon
\* answers one.
Take == to_router # <<>> /\ to_router' = Tail(to_router)
Respond(m) == to_ui' = Append(to_ui, [id |-> m.id, run |-> m.run, by |-> m.by])

\* The daemon stops and starts again; the signals it has emitted are still
\* received.  A call that had not returned raises in panctl, which ends;
\* another is started in its place.
RestartDaemon ==
  /\ run < MaxRuns
  /\ run' = run + 1 /\ message_id' = 0
  /\ to_router' = <<>> /\ to_ui' = <<>>
  /\ \E broken \in SUBSET {p \in Panctls : calling[p] # None} :
       LET Kept(f, anew) == [p \in Panctls |-> IF p \in broken THEN anew ELSE f[p]]
       IN /\ calling' = Kept(calling, None)
          /\ own_message_ids' = Kept(own_message_ids, <<>>)
          /\ signals' = Kept(signals, <<>>)
          /\ mistaken' = Kept(mistaken, {})

-----------------------------------------------------------------------------
(* Properties.                                                             *)
PanctlTypeOK ==
  /\ run \in 1 .. MaxRuns /\ message_id \in 0 .. MaxCommands[run]
  /\ \A m \in Range(to_router) \cup Range(to_ui) : Call(m) \in Calls /\ m.by \in Panctls
  /\ calling \in [Panctls -> Calls \cup {None}]
  /\ own_message_ids \in [Panctls -> Seq(Calls)]
  /\ \A p \in Panctls : \A m \in Range(signals[p]) : Call(m) \in Calls /\ m.by \in Panctls
  /\ mistaken \in [Panctls -> SUBSET Nat]

\* A panctl shows the response to its own command when the signal comes,
\* unless it comes before the number is recorded or the number was used up:
\* by another's response, which it shows only when it waits for the response
\* to a call with the same number that it made to another run of the daemon
\* - an earlier one, or, if the signal was under way over the restart, a
\* later one.
Shows(p) == Len(own_message_ids'[p]) < Len(own_message_ids[p])

AnswersFindTheirPanctl ==
  [][\A p \in Panctls : run' = run /\ Len(signals'[p]) < Len(signals[p]) =>
       LET m == Head(signals[p])
       IN IF m.by = p
          THEN Shows(p) \/ calling[p] = Call(m) \/ m.id \in mistaken[p]
          ELSE Shows(p) => \E c \in Range(own_message_ids[p]) :
                             c.id = m.id /\ c.run # m.run]_panctlVars
=============================================================================
