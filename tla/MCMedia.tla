------------------------------- MODULE MCMedia -------------------------------
(* Media with bounds: the URIs other than the received ones are alike.      *)
EXTENDS Media, TLC
Symmetry == Permutations(Requests) \cup Permutations(Uris \ Received)
=============================================================================
