------------------------------ MODULE MCCommands ------------------------------
(* Instances of Commands: one pan user, two devices, two or three commands.  *)
EXTENDS Commands
=============================================================================
