----------------------------- MODULE MCSyncDecrypt -----------------------------
(* Instances of SyncDecrypt: a sync and a /messages request, two events of  *)
(* sessions that a device has in one room, and one filter.                  *)
EXTENDS SyncDecrypt

CONSTANTS r1, d1

MCRoomOf == [e \in Events |-> r1]
MCSenderOf == [e \in Events |-> d1]

(* not_types, with each entry as often as given.                            *)
Excluding(type, wildcard, other) ==
  [p \in Pattern |-> CASE p = "m.room.encrypted" -> type
                       [] p = "wildcard" -> wildcard
                       [] p = "other" -> other]

(* One whose part for everything is sanitized, while that for timelines     *)
(* slips through: it has the type twice.                                   *)
MCFilters == {[sub |-> [types |-> {"other"}, not_types |-> Excluding(1, 0, 1)],
               timeline |-> [types |-> Missing, not_types |-> Excluding(2, 0, 0)]]}
=============================================================================
