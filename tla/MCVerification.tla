---------------------------- MODULE MCVerification ----------------------------
(* Instances of Verification: two transactions, and as many commands as a   *)
(* verification takes, with one to spare for a mistake or a second try.     *)
EXTENDS Verification
=============================================================================
