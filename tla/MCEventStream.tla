----------------------------- MODULE MCEventStream -----------------------------
(* Instances of EventStream for TLC; the cfg files give the constants. *)
EXTENDS EventStream
================================================================================
