------------------------------- MODULE Commands -------------------------------
(***************************************************************************)
(* Browser commands of one sandbox: the endpoints of                       *)
(* sandboxes/commands.py check that the sandbox is ready, publish a job    *)
(* and a "queued" event; worker.handle_command checks again, announces     *)
(* "running", runs the command in an executor thread, which registers      *)
(* artifacts under a cap per run, and announces the outcome.  The broker   *)
(* delivers a job again when the worker dies or its connection is lost.    *)
(***************************************************************************)
EXTENDS Naturals, FiniteSets

CONSTANTS
  Command,       \* commands; a client that tries again sends another one
  Strict,        \* commands whose success names the last artifact they register
  Produces,      \* artifacts of a run
  RunCap,        \* MAX_ARTIFACTS_PER_RUN, 0 for none
  Prefetch,      \* RABBITMQ_PREFETCH
  BrokerFails,   \* publishing may fail
  MayTerminate,  \* the sandbox may be terminated meanwhile
  MaxCrashes,    \* bound: deaths of the worker
  MaxDrops       \* bound: connections of the worker lost and restored

ASSUME CommandAssumption ==
  /\ Strict \subseteq Command
  /\ Strict # {} => Produces > 0
  /\ {Produces, RunCap, MaxCrashes, MaxDrops} \subseteq Nat
  /\ Prefetch \in Nat \ {0}
  /\ {BrokerFails, MayTerminate} \subseteq BOOLEAN

Attempt == 1 .. (1 + MaxCrashes + MaxDrops)

\* The n-th artifact of a delivery; a set of them has none (None) or one.
Artifact == Attempt \X (1 .. Produces)

VARIABLES
  ready,     \* the sandbox row says "ready"
  request,   \* [Command -> position of its request]
  job,       \* [Command -> where its message is]
  attempts,  \* [Command -> deliveries so far]
  handler,   \* [Command -> [Attempt -> position of handle_command]]
  made,      \* [Command -> [Attempt -> artifacts done with in the thread]]
  result,    \* [Command -> [Attempt -> what its last registration returned]]
  rows,      \* [Command -> artifact rows with this run_id]
  log,       \* [Command -> command_status events on the exchange, and outcomes
             \*  whose event the broker refused ("unsaid")]
  starved,   \* commands that the cap has made fail
  crashes,
  drops

vars == <<ready, request, job, attempts, handler, made, result, rows, log, starved,
          crashes, drops>>
runVars == <<made, result, rows, starved>>
faultVars == <<crashes, drops>>

RequestPC == {"none", "checked", "sent", "accepted", "refused", "conflict"}
HandlerPC == {"none", "delivered", "refusing", "starting", "running", "registering",
              "completed", "failed", "reported", "returned", "dead"}
Outcome == {"completed", "failed"}
Status == [status : {"queued", "running", "unsaid"} \cup Outcome, names : SUBSET Artifact]
Active(pc) == pc \notin {"none", "returned", "dead"}

TypeOK ==
  /\ ready \in BOOLEAN
  /\ request \in [Command -> RequestPC]
  /\ job \in [Command -> {"none", "queued", "unacked", "done"}]
  /\ attempts \in [Command -> 0 .. 1 + MaxCrashes + MaxDrops]
  /\ handler \in [Command -> [Attempt -> HandlerPC]]
  /\ made \in [Command -> [Attempt -> 0 .. Produces]]
  /\ result \in [Command -> [Attempt -> SUBSET Artifact]]
  /\ rows \in [Command -> SUBSET Artifact]
  /\ log \in [Command -> SUBSET Status]
  /\ starved \subseteq Command
  /\ crashes \in 0 .. MaxCrashes
  /\ drops \in 0 .. MaxDrops

Init ==
  /\ ready = TRUE
  /\ request = [c \in Command |-> "none"]
  /\ job = [c \in Command |-> "none"]
  /\ attempts = [c \in Command |-> 0]
  /\ handler = [c \in Command |-> [a \in Attempt |-> "none"]]
  /\ made = [c \in Command |-> [a \in Attempt |-> 0]]
  /\ result = [c \in Command |-> [a \in Attempt |-> {}]]
  /\ rows = [c \in Command |-> {}]
  /\ log = [c \in Command |-> {}]
  /\ starved = {}
  /\ crashes = 0
  /\ drops = 0

\* publish_event: the event goes out, or the failure is logged and forgotten.
Logged(c, s, names) == log' = [log EXCEPT ![c] = @ \cup {[status |-> s, names |-> names]}]
Announce(c, s, names) ==
  \/ Logged(c, s, names)
  \/ BrokerFails /\ s \in Outcome /\ Logged(c, "unsaid", {})
  \/ BrokerFails /\ s \notin Outcome /\ UNCHANGED log

--------------------------------------------------------------------------------
(* The endpoint: get_sandbox, enqueue_command *)

CheckReady(c) ==
  /\ request[c] = "none"
  /\ request' = [request EXCEPT ![c] = IF ready THEN "checked" ELSE "conflict"]
  /\ UNCHANGED <<ready, job, attempts, handler, runVars, log, faultVars>>

PublishJob(c) ==
  /\ request[c] = "checked"
  /\ request' = [request EXCEPT ![c] = "sent"]
  /\ job' = [job EXCEPT ![c] = "queued"]
  /\ UNCHANGED <<ready, attempts, handler, runVars, log, faultVars>>

\* The publish raises, though the broker may have the message: 503.
PublishJobFails(c) ==
  /\ BrokerFails /\ request[c] = "checked"
  /\ request' = [request EXCEPT ![c] = "refused"]
  /\ \E arrived \in BOOLEAN : job' = IF arrived THEN [job EXCEPT ![c] = "queued"] ELSE job
  /\ UNCHANGED <<ready, attempts, handler, runVars, log, faultVars>>

PublishQueued(c) ==
  /\ request[c] = "sent"
  /\ request' = [request EXCEPT ![c] = "accepted"]
  /\ Logged(c, "queued", {})
  /\ UNCHANGED <<ready, job, attempts, handler, runVars, faultVars>>

\* The event fails after the job went out: the same 503.
PublishQueuedFails(c) ==
  /\ BrokerFails /\ request[c] = "sent"
  /\ request' = [request EXCEPT ![c] = "refused"]
  /\ UNCHANGED <<ready, job, attempts, handler, runVars, log, faultVars>>

--------------------------------------------------------------------------------
(* The broker and the worker's connection to it *)

Deliver(c) ==
  /\ job[c] = "queued"
  /\ Cardinality({d \in Command : job[d] = "unacked"}) < Prefetch
  /\ job' = [job EXCEPT ![c] = "unacked"]
  /\ attempts' = [attempts EXCEPT ![c] = @ + 1]
  /\ handler' = [handler EXCEPT ![c][attempts[c] + 1] = "delivered"]
  /\ UNCHANGED <<ready, request, runVars, log, faultVars>>

Requeue(j) == IF j = "unacked" THEN "queued" ELSE j

\* Coroutines and executor threads die together.
Crash ==
  /\ crashes < MaxCrashes
  /\ crashes' = crashes + 1
  /\ handler' = [c \in Command |-> [a \in Attempt |->
       IF Active(handler[c][a]) THEN "dead" ELSE handler[c][a]]]
  /\ job' = [c \in Command |-> Requeue(job[c])]
  /\ UNCHANGED <<ready, request, attempts, runVars, log, drops>>

\* The threads go on; their messages are delivered again.
ConnectionLost ==
  /\ drops < MaxDrops
  /\ \E c \in Command : job[c] = "unacked"
  /\ drops' = drops + 1
  /\ job' = [c \in Command |-> Requeue(job[c])]
  /\ UNCHANGED <<ready, request, attempts, handler, runVars, log, crashes>>

\* enforce_ttl: set_terminated and the purge of the artifacts, without an await.
Terminate ==
  /\ MayTerminate /\ ready
  /\ ready' = FALSE
  /\ rows' = [c \in Command |-> {}]
  /\ UNCHANGED <<request, job, attempts, handler, made, result, log, starved, faultVars>>

--------------------------------------------------------------------------------
(* handle_command *)

Goto(c, a, pc) == handler' = [handler EXCEPT ![c][a] = pc]

\* The row is read again; what the endpoint saw may be over.
Begin(c, a) ==
  /\ handler[c][a] = "delivered"
  /\ Goto(c, a, IF ready THEN "starting" ELSE "refusing")
  /\ UNCHANGED <<ready, request, job, attempts, runVars, log, faultVars>>

Refuse(c, a) ==
  /\ handler[c][a] = "refusing"
  /\ Goto(c, a, "reported")
  /\ Announce(c, "failed", {})
  /\ UNCHANGED <<ready, request, job, attempts, runVars, faultVars>>

Start(c, a) ==
  /\ handler[c][a] = "starting"
  /\ Goto(c, a, "running")
  /\ Announce(c, "running", {})
  /\ UNCHANGED <<ready, request, job, attempts, runVars, faultVars>>

\* register_artifact_file: rows of the run are counted, then one is added; at the
\* cap it returns None, which is fatal where the caller uses the result.
OverCap(c) == RunCap > 0 /\ Cardinality(rows[c]) > RunCap
AtCap(c) == RunCap > 0 /\ Cardinality(rows[c]) >= RunCap
UsesResult(c, a) == c \in Strict /\ made[c][a] + 1 = Produces

SkipGoesOn(c, a) ==
  /\ handler[c][a] = "running" /\ made[c][a] < Produces
  /\ AtCap(c)
  /\ result' = [result EXCEPT ![c][a] = {}]
  /\ made' = [made EXCEPT ![c][a] = @ + 1]
  /\ UNCHANGED <<ready, request, job, attempts, handler, rows, starved, log, faultVars>>
Skip(c, a) ==
  /\ handler[c][a] = "running" /\ made[c][a] < Produces
  /\ AtCap(c)
  /\ result' = [result EXCEPT ![c][a] = {}]
  /\ \/ /\ UsesResult(c, a)
        /\ Goto(c, a, "failed")
        /\ starved' = starved \cup {c}
        /\ UNCHANGED made
     \/ /\ ~UsesResult(c, a)
        /\ made' = [made EXCEPT ![c][a] = @ + 1]
        /\ UNCHANGED <<handler, starved>>
  /\ UNCHANGED <<ready, request, job, attempts, rows, log, faultVars>>

PassCap(c, a) ==
  /\ handler[c][a] = "running" /\ made[c][a] < Produces
  /\ ~AtCap(c)
  /\ Goto(c, a, "registering")
  /\ UNCHANGED <<ready, request, job, attempts, runVars, log, faultVars>>

Register(c, a) ==
  /\ handler[c][a] = "registering"
  /\ Goto(c, a, "running")
  /\ made' = [made EXCEPT ![c][a] = @ + 1]
  /\ LET new == {<<a, made[c][a] + 1>>}
     IN  rows' = [rows EXCEPT ![c] = @ \cup new] /\ result' = [result EXCEPT ![c][a] = new]
  /\ UNCHANGED <<ready, request, job, attempts, starved, log, faultVars>>

Complete(c, a) ==
  /\ handler[c][a] = "running" /\ made[c][a] = Produces
  /\ Goto(c, a, "completed")
  /\ UNCHANGED <<ready, request, job, attempts, runVars, log, faultVars>>

\* The browser is gone, a step fails, the disk is full.
RaiseUnreported(c, a) ==
  /\ handler[c][a] \in {"running", "registering"}
  /\ Goto(c, a, "reported")
  /\ UNCHANGED <<ready, request, job, attempts, runVars, log, faultVars>>
Raise(c, a) ==
  /\ handler[c][a] \in {"running", "registering"}
  /\ Goto(c, a, "failed")
  /\ UNCHANGED <<ready, request, job, attempts, runVars, log, faultVars>>

\* The result of the thread goes into the event of a success.
Names(c, a) == IF handler[c][a] = "completed" /\ c \in Strict THEN result[c][a] ELSE {}
Report(c, a) ==
  /\ handler[c][a] \in Outcome
  /\ Announce(c, handler[c][a], Names(c, a))
  /\ Goto(c, a, "reported")
  /\ UNCHANGED <<ready, request, job, attempts, runVars, faultVars>>

\* message.process() acknowledges, whatever the outcome, if the channel the message
\* came on is still there.
Acks(c, a) == job[c] = "unacked" /\ a = attempts[c]
Return(c, a) ==
  /\ handler[c][a] = "reported"
  /\ Goto(c, a, "returned")
  /\ job' = IF Acks(c, a) THEN [job EXCEPT ![c] = "done"] ELSE job
  /\ UNCHANGED <<ready, request, attempts, runVars, log, faultVars>>

--------------------------------------------------------------------------------
RequestStep(c) ==
  PublishJob(c) \/ PublishJobFails(c) \/ PublishQueued(c) \/ PublishQueuedFails(c)

HandlerStep(c, a) ==
  \/ Begin(c, a) \/ Refuse(c, a) \/ Start(c, a)
  \/ Skip(c, a) \/ PassCap(c, a) \/ Register(c, a) \/ Complete(c, a) \/ Raise(c, a)
  \/ Report(c, a) \/ Return(c, a)

Next ==
  \/ \E c \in Command :
       \/ CheckReady(c) \/ RequestStep(c) \/ Deliver(c)
       \/ \E a \in Attempt : HandlerStep(c, a)
  \/ Crash \/ ConnectionLost \/ Terminate

Spec == Init /\ [][Next]_vars

\* Awaited calls return or raise, browser commands end (RunEnds of StepRunner and
\* CommandsEnd of Recording, if the calls into the browser do), the FIFO queue
\* passes no job over for ever.
FairSpec ==
  /\ Spec
  /\ \A c \in Command :
       /\ WF_vars(RequestStep(c)) /\ SF_vars(Deliver(c))
       /\ \A a \in Attempt : WF_vars(HandlerStep(c, a))

--------------------------------------------------------------------------------
(* Properties. *)

Statuses(c) == {s.status : s \in log[c]}

\* artifacts.py:364 "per-run artifact cap": also a run that is delivered again
\* keeps to it, unless two deliveries run side by side.
CapIsKept ==
  RunCap > 0 /\ drops = 0 => \A c \in Command : Cardinality(rows[c]) <= RunCap

\* The same, whatever happens to the connection.
CapIsAlwaysKept == RunCap > 0 => \A c \in Command : Cardinality(rows[c]) <= RunCap

\* A success that is to name an artifact names one, and its row is there until the
\* purge: what one delivery announces is neither the None of a registration that
\* the cap refused nor an artifact that only another delivery has a row of.
SuccessIsBacked ==
  ready =>
    \A c \in Strict : \A s \in log[c] :
      s.status = "completed" => s.names # {} /\ s.names \subseteq rows[c]

\* artifacts.py:364 "skip + log when exceeded": the cap makes no command fail.
CapOnlySkips == starved = {}

\* commands.py:97 "Queue unavailable. Try again later.": a command that was refused
\* is not run as well.
RefusedIsNotRun ==
  \A c \in Command : request[c] = "refused" => "running" \notin Statuses(c)

\* A command that was accepted leaves the queue in the end, and its client has been
\* told an outcome by then, or the broker has refused the event that tells one:
\* whatever becomes of the worker, its connection, the sandbox and the command itself.
AcceptedIsAnswered ==
  \A c \in Command :
    request[c] = "accepted" ~>
      job[c] = "done" /\ Statuses(c) \cap (Outcome \cup {"unsaid"}) # {}
================================================================================
