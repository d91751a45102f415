------------------------------ MODULE SendGate ------------------------------
(***************************************************************************)
(* What the encrypted send path of pantalaimon promises, with nothing of   *)
(* how: a room decides about one message at a time, a message that was put *)
(* to the user goes out only after the user approved that very message's   *)
(* prompt, and a decision is final.  SendMessage implements this           *)
(* specification: see SendMessage!Gate.                                    *)
(***************************************************************************)
CONSTANTS Requests,   \* the PUT /rooms/.../send requests of the Matrix clients
          Rooms,
          RoomOf      \* the room each request sends to

VARIABLE verdict      \* what has been decided about the message of a request

Verdicts == {"open", "asked", "approved", "out", "refused"}

Init == verdict = [q \in Requests |-> "open"]

Undecided(r) == {q \in Requests : RoomOf[q] = r /\ verdict[q] \in {"asked", "approved"}}

Become(q, v) == verdict' = [verdict EXCEPT ![q] = v]

(* The user is asked about a message: no other one of the room is pending. *)
Ask(q) == /\ verdict[q] = "open"
          /\ Undecided(RoomOf[q]) = {}
          /\ Become(q, "asked")

Approve(q) == verdict[q] = "asked" /\ Become(q, "approved")

(* The message leaves the daemon, with no question or after approval, and  *)
(* never while another message of the room waits for its decision.         *)
Emit(q) == /\ verdict[q] \in {"open", "approved"}
           /\ Undecided(RoomOf[q]) \subseteq {q}
           /\ Become(q, "out")

Refuse(q) == verdict[q] \in {"open", "asked", "approved"} /\ Become(q, "refused")

Next == \E q \in Requests : Ask(q) \/ Approve(q) \/ Emit(q) \/ Refuse(q)

Spec == Init /\ [][Next]_verdict
=============================================================================
