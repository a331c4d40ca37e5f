------------------------------ MODULE MCCommands ------------------------------
(* Instances of Commands for TLC; the cfg files give the constants. *)
EXTENDS Commands
================================================================================
