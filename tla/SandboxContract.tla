---------------------------- MODULE SandboxContract ----------------------------
(***************************************************************************)
(* What a reader of a sandbox's status may rely on, whatever the queue, the*)
(* worker and the backends do:                                             *)
(*   - a sandbox is terminated only when its time is over;                 *)
(*   - "provisioning" is written by an attempt as it begins, "ready" and   *)
(*     "error" by an attempt as it ends, once per attempt; the API writes  *)
(*     "error" at most once, as it answers the request that made the row;  *)
(*   - so a terminated sandbox comes back only by an attempt.              *)
(***************************************************************************)
CONSTANTS Sandbox, Attempt

VARIABLES
  status,   \* [Sandbox -> status of the row, or "absent"]
  over,     \* [Sandbox -> BOOLEAN]: its time is over
  answered, \* [Sandbox -> BOOLEAN]: the create request was answered or lost
  phase     \* [Sandbox -> [Attempt -> {"idle", "open", "closed"}]]

vars == <<status, over, answered, phase>>

Init ==
  /\ status = [s \in Sandbox |-> "absent"]
  /\ over = [s \in Sandbox |-> FALSE]
  /\ answered = [s \in Sandbox |-> FALSE]
  /\ phase = [s \in Sandbox |-> [a \in Attempt |-> "idle"]]

Request(s) ==
  /\ status[s] = "absent"
  /\ status' = [status EXCEPT ![s] = "requested"]
  /\ UNCHANGED <<over, answered, phase>>

Answer(s) ==
  /\ ~answered[s]
  /\ answered' = [answered EXCEPT ![s] = TRUE]
  /\ status' \in {status, [status EXCEPT ![s] = "error"]}
  /\ UNCHANGED <<over, phase>>

TimeOver(s) ==
  /\ over' = [over EXCEPT ![s] = TRUE]
  /\ UNCHANGED <<status, answered, phase>>

Begin(s, a) ==
  /\ phase[s][a] = "idle"
  /\ phase' = [phase EXCEPT ![s][a] = "open"]
  /\ status' = [status EXCEPT ![s] = "provisioning"]
  /\ UNCHANGED <<over, answered>>

Conclude(s, a) ==
  /\ phase[s][a] = "open"
  /\ phase' = [phase EXCEPT ![s][a] = "closed"]
  /\ \E outcome \in {"ready", "error"} :
       status' = [status EXCEPT ![s] = outcome]
  /\ UNCHANGED <<over, answered>>

Terminate(s) ==
  /\ over[s]
  /\ status' = [status EXCEPT ![s] = "terminated"]
  /\ UNCHANGED <<over, answered, phase>>

\* Attempts may be lost, all at once, before they conclude.
Lose ==
  /\ phase' \in [Sandbox -> [Attempt -> {"idle", "open", "closed"}]]
  /\ \A s \in Sandbox, a \in Attempt : phase'[s][a] \in {phase[s][a], "closed"}
  /\ UNCHANGED <<status, over, answered>>

Next ==
  \/ \E s \in Sandbox :
       \/ Request(s) \/ Answer(s) \/ TimeOver(s) \/ Terminate(s)
       \/ \E a \in Attempt : Begin(s, a) \/ Conclude(s, a)
  \/ Lose

Spec == Init /\ [][Next]_vars
================================================================================
