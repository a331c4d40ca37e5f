-------------------------- MODULE MCRabbitConnection --------------------------
(* Instances of RabbitConnection for TLC; the cfg files give the constants. *)
EXTENDS RabbitConnection
================================================================================
