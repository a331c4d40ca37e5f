--------------------------- MODULE MCSandboxLifecycle ---------------------------
(* Instances of SandboxLifecycle for TLC; the cfg files give the constants. *)
EXTENDS SandboxLifecycle
================================================================================
