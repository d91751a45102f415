---------------------------- MODULE MCSendMessage ----------------------------
(* Instances of SendMessage: two messages to one room, and a third message, *)
(* a reaction or one to a second room, where a run has the place for it.    *)
EXTENDS SendMessage, TLC

CONSTANTS q1, q2, r1, r2

MCRoomOf == [q \in Requests |-> IF q \in {q1, q2} THEN r1 ELSE r2]

Symmetry == Permutations({q1, q2}) \cup Permutations(Answers)
=============================================================================
