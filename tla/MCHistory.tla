------------------------------ MODULE MCHistory ------------------------------
(* History with bounds: the last event is of a type that is not indexed.    *)
EXTENDS History
EventsIndexed == 1 .. MaxEvents - 1
=============================================================================
