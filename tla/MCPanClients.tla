----------------------------- MODULE MCPanClients -----------------------------
(* Instances of PanClients: logins of two users, two or three of one.      *)
EXTENDS PanClients, TLC

CONSTANTS u1, u2, l4

MCUserOf == [l \in Logins |-> IF l = l4 THEN u2 ELSE u1]

Symmetry == Permutations(Logins \ {l4})
=============================================================================
