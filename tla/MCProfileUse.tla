------------------------------ MODULE MCProfileUse ------------------------------
(* Instances of ProfileUse for TLC; the cfg files give the constants. *)
EXTENDS ProfileUse
================================================================================
