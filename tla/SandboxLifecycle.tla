---------------------------- MODULE SandboxLifecycle ----------------------------
(***************************************************************************)
(* The life of a sandbox across the three processes that write it:         *)
(*   - the API creates the row and publishes the provision job             *)
(*     (api/routes/sandboxes.py, sandboxes/orchestrator.py);               *)
(*   - the worker consumes the job, provisions a backend and starts one    *)
(*     TTL task per delivery (worker.py);                                  *)
(*   - RabbitMQ keeps the job until the worker acknowledges it and         *)
(*     delivers it again after a crash or a lost connection.               *)
(* One worker process runs all handlers and TTL tasks as coroutines of one *)
(* event loop: an action is the code between two awaits, so the database   *)
(* writes in it are atomic with respect to the other coroutines.  The API  *)
(* is another process; each of its actions holds one database commit.      *)
(***************************************************************************)
EXTENDS Naturals, FiniteSets, Provisioners

CONSTANTS
  Sandbox,         \* sandbox ids
  Prefetch,        \* RABBITMQ_PREFETCH
  MaxCrashes,      \* bound: crashes of the worker process
  MaxDrops,        \* bound: losses of the worker's broker connection
  PublishFaults,   \* how publish_job may fail: "lost", "unconfirmed"
  ApiMayCrash,     \* the API process may die inside create_sandbox
  CreateFaults,    \* how creating a backend may fail: "clean", "leftover"
  FailingProbes,   \* the backends whose probes may fail on what is live
  StopMayFail,     \* provisioner.stop may raise
  LogLevels        \* levels of the worker's log: "INFO" under main(), "WARNING"
                   \* under the tests, which configure none

ASSUME LifecycleAssumption ==
  /\ Prefetch \in Nat \ {0}
  /\ MaxCrashes \in Nat
  /\ MaxDrops \in Nat
  /\ PublishFaults \subseteq {"lost", "unconfirmed"}
  /\ CreateFaults \subseteq {"clean", "leftover"}
  /\ {ApiMayCrash, StopMayFail} \subseteq BOOLEAN
  /\ LogLevels \subseteq {"INFO", "WARNING"}

\* A sandbox has one provision job; its deliveries are numbered.  Each crash or
\* lost connection returns it to the queue at most once.
Attempt == 1 .. (1 + MaxCrashes + MaxDrops)

ASSUME NoRefAssumption == NoRef \notin Nat

VARIABLES
  status,    \* [Sandbox -> Status]: column SandboxRow.status
  ref,       \* [Sandbox -> Attempt or NoRef]: column SandboxRow.backend_ref
  expired,   \* [Sandbox -> BOOLEAN]: the clock has passed SandboxRow.expires_at
  request,   \* [Sandbox -> RequestPC]: where create_sandbox stands
  job,       \* [Sandbox -> JobState]: the ProvisionJob in the broker
  attempts,  \* [Sandbox -> Nat]: deliveries of the job so far
  handler,   \* [Sandbox -> [Attempt -> HandlerPC]]: handle_provision, by delivery
  ttl,       \* [Sandbox -> [Attempt -> TtlPC]]: enforce_ttl, by delivery
  stopRef,   \* [Sandbox -> [Attempt -> Attempt or NoRef]]: latest.backend_ref
  live,      \* [Sandbox -> SUBSET Attempt]: backend resources that exist
  announced, \* [Sandbox -> SUBSET Status]: statuses published as events
  crashes,   \* worker crashes so far
  drops      \* lost broker connections so far

vars == <<status, ref, expired, request, job, attempts, handler, ttl, stopRef,
          live, announced, crashes, drops, backend>>

Status == {"requested", "provisioning", "ready", "error", "terminated"}
RequestPC == {"none", "committed", "failing", "accepted", "refused", "lost"}
JobState == {"none", "queued", "unacked", "done"}
HandlerPC == {"none", "delivered", "started", "creating", "probing",
              "provisioned", "failing", "ready", "failed", "returned", "dead"}
TtlPC == {"none", "sleeping", "stopping", "stopped", "announcing", "done",
          "raised", "dead"}

\* The handler has set "provisioning" and has not yet stored an outcome.
Working(pc) ==
  pc \in {"started", "creating", "probing", "provisioned", "failing"}
\* The handler is still a coroutine of the running worker.
InFlight(pc) == pc \in {"delivered", "ready", "failed"} \/ Working(pc)

TypeOK ==
  /\ status \in [Sandbox -> Status \cup {"absent"}]
  /\ ref \in [Sandbox -> Attempt \cup {NoRef}]
  /\ expired \in [Sandbox -> BOOLEAN]
  /\ request \in [Sandbox -> RequestPC]
  /\ job \in [Sandbox -> JobState]
  /\ attempts \in [Sandbox -> Nat]
  /\ handler \in [Sandbox -> [Attempt -> HandlerPC]]
  /\ ttl \in [Sandbox -> [Attempt -> TtlPC]]
  /\ stopRef \in [Sandbox -> [Attempt -> Attempt \cup {NoRef}]]
  /\ live \in [Sandbox -> SUBSET Attempt]
  /\ announced \in [Sandbox -> SUBSET Status]
  /\ crashes \in 0 .. MaxCrashes
  /\ drops \in 0 .. MaxDrops
  /\ backend \in Backends
  /\ \A s \in Sandbox : attempts[s] \in 0 .. (1 + MaxCrashes + MaxDrops)

Init ==
  /\ status = [s \in Sandbox |-> "absent"]
  /\ ref = [s \in Sandbox |-> NoRef]
  /\ expired = [s \in Sandbox |-> FALSE]
  /\ request = [s \in Sandbox |-> "none"]
  /\ job = [s \in Sandbox |-> "none"]
  /\ attempts = [s \in Sandbox |-> 0]
  /\ handler = [s \in Sandbox |-> [a \in Attempt |-> "none"]]
  /\ ttl = [s \in Sandbox |-> [a \in Attempt |-> "none"]]
  /\ stopRef = [s \in Sandbox |-> [a \in Attempt |-> NoRef]]
  /\ live = [s \in Sandbox |-> {}]
  /\ announced = [s \in Sandbox |-> {}]
  /\ crashes = 0
  /\ drops = 0
  /\ backend \in Backends

--------------------------------------------------------------------------------
(* The API: POST /sandboxes. *)

\* The row is committed before the job is published.
CreateRow(s) ==
  /\ request[s] = "none"
  /\ request' = [request EXCEPT ![s] = "committed"]
  /\ status' = [status EXCEPT ![s] = "requested"]
  /\ UNCHANGED <<ref, expired, job, attempts, handler, ttl, stopRef, live,
                 announced, crashes, drops>>

\* The broker confirms the persistent message; the client gets 201.
PublishJob(s) ==
  /\ request[s] = "committed"
  /\ request' = [request EXCEPT ![s] = "accepted"]
  /\ job' = [job EXCEPT ![s] = "queued"]
  /\ UNCHANGED <<status, ref, expired, attempts, handler, ttl, stopRef, live,
                 announced, crashes, drops>>

\* publish_job raises; the message may have reached the queue without its
\* confirmation reaching the API.
PublishFails(s) ==
  /\ request[s] = "committed"
  /\ request' = [request EXCEPT ![s] = "failing"]
  /\ \E fault \in PublishFaults :
       job' = [job EXCEPT ![s] = IF fault = "unconfirmed" THEN "queued" ELSE @]
  /\ UNCHANGED <<status, ref, expired, attempts, handler, ttl, stopRef, live,
                 announced, crashes, drops>>

\* set_error("Queue error") and 503, whatever the row holds by now.
RefuseRequest(s) ==
  /\ request[s] = "failing"
  /\ request' = [request EXCEPT ![s] = "refused"]
  /\ status' = [status EXCEPT ![s] = "error"]
  /\ UNCHANGED <<ref, expired, job, attempts, handler, ttl, stopRef, live,
                 announced, crashes, drops>>

\* The API process dies between two steps of create_sandbox.
ApiCrash(s) ==
  /\ ApiMayCrash
  /\ request[s] \in {"committed", "failing"}
  /\ request' = [request EXCEPT ![s] = "lost"]
  /\ UNCHANGED <<status, ref, expired, job, attempts, handler, ttl, stopRef,
                 live, announced, crashes, drops>>

\* The clock passes expires_at.
Expire(s) ==
  /\ status[s] # "absent"
  /\ ~expired[s]
  /\ expired' = [expired EXCEPT ![s] = TRUE]
  /\ UNCHANGED <<status, ref, request, job, attempts, handler, ttl, stopRef,
                 live, announced, crashes, drops>>

--------------------------------------------------------------------------------
(* The broker and the worker process. *)

\* The broker hands out at most Prefetch unacknowledged messages.
Deliver(s) ==
  /\ job[s] = "queued"
  /\ Cardinality({r \in Sandbox : job[r] = "unacked"}) < Prefetch
  /\ job' = [job EXCEPT ![s] = "unacked"]
  /\ attempts' = [attempts EXCEPT ![s] = @ + 1]
  /\ handler' = [handler EXCEPT ![s][attempts[s] + 1] = "delivered"]
  /\ UNCHANGED <<status, ref, expired, request, ttl, stopRef, live, announced,
                 crashes, drops>>

\* Unacknowledged messages return to the queue when their channel closes.
Requeue(j) == IF j = "unacked" THEN "queued" ELSE j

\* The worker dies with its coroutines; the backend resources stay.
Crash ==
  /\ crashes < MaxCrashes
  /\ crashes' = crashes + 1
  /\ handler' = [s \in Sandbox |-> [a \in Attempt |->
       IF InFlight(handler[s][a]) THEN "dead" ELSE handler[s][a]]]
  /\ ttl' = [s \in Sandbox |-> [a \in Attempt |->
       IF ttl[s][a] \in {"sleeping", "stopping", "stopped", "announcing"}
       THEN "dead" ELSE ttl[s][a]]]
  /\ job' = [s \in Sandbox |-> Requeue(job[s])]
  /\ UNCHANGED <<status, ref, expired, request, attempts, stopRef, live,
                 announced, drops>>

\* The robust connection is lost and restored: the coroutines go on, their
\* messages are delivered again.
ConnectionLost ==
  /\ drops < MaxDrops
  /\ \E s \in Sandbox : job[s] = "unacked"
  /\ drops' = drops + 1
  /\ job' = [s \in Sandbox |-> Requeue(job[s])]
  /\ UNCHANGED <<status, ref, expired, request, attempts, handler, ttl, stopRef,
                 live, announced, crashes>>

--------------------------------------------------------------------------------
(* handle_provision, one coroutine per delivery. *)

\* set_status("provisioning") whatever the row holds, then publish.
AcksBeforeWork(s, a) ==
  /\ handler[s][a] = "delivered"
  /\ handler' = [handler EXCEPT ![s][a] = "started"]
  /\ status' = [status EXCEPT ![s] = "provisioning"]
  /\ job' = [job EXCEPT ![s] = "done"]
  /\ UNCHANGED <<ref, expired, request, attempts, ttl, stopRef, live, announced,
                 crashes, drops>>
StartProvision(s, a) ==
  /\ handler[s][a] = "delivered"
  /\ handler' = [handler EXCEPT ![s][a] = "started"]
  /\ status' = [status EXCEPT ![s] = "provisioning"]
  /\ UNCHANGED <<ref, expired, request, job, attempts, ttl, stopRef, live,
                 announced, crashes, drops>>

\* The event is out; create_task(enforce_ttl), then the provisioner is called.
StartTtl(s, a) ==
  /\ handler[s][a] = "started"
  /\ handler' = [handler EXCEPT ![s][a] = "creating"]
  /\ announced' = [announced EXCEPT ![s] = @ \cup {"provisioning"}]
  /\ ttl' = [ttl EXCEPT ![s][a] = "sleeping"]
  /\ UNCHANGED <<status, ref, expired, request, job, attempts, stopRef, live,
                 crashes, drops>>

CreateBackend(s, a) ==
  /\ handler[s][a] = "creating"
  /\ CanCreate(live[s])
  /\ handler' = [handler EXCEPT ![s][a] = "probing"]
  /\ live' = [live EXCEPT ![s] = AfterCreate(@, a)]
  /\ UNCHANGED <<status, ref, expired, request, job, attempts, ttl, stopRef,
                 announced, crashes, drops>>

\* The create call raises: because of the name conflict, or after it took
\* effect (a container that does not start, a lost response).  There is no
\* cleanup on this path.
CreateFails(s, a) ==
  /\ handler[s][a] = "creating"
  /\ \/ /\ ~CanCreate(live[s])
        /\ UNCHANGED live
     \/ /\ CanCreate(live[s])
        /\ \E fault \in CreateFaults :
             live' = [live EXCEPT ![s] =
               IF fault = "leftover" THEN AfterCreate(@, a) ELSE @]
  /\ handler' = [handler EXCEPT ![s][a] = "failing"]
  /\ UNCHANGED <<status, ref, expired, request, job, attempts, ttl, stopRef,
                 announced, crashes, drops>>

Probe(s, a) ==
  /\ handler[s][a] = "probing"
  /\ ProbesAlive(live[s], a)
  /\ handler' = [handler EXCEPT ![s][a] = "provisioned"]
  /\ UNCHANGED <<status, ref, expired, request, job, attempts, ttl, stopRef,
                 live, announced, crashes, drops>>

\* The probes fail or time out: provision() cleans up as far as it does (an
\* exception of its stop is logged only) and raises.
GiveUp(s, a) ==
  /\ handler[s][a] = "probing"
  /\ backend \in FailingProbes \/ ~ProbesAlive(live[s], a)
  /\ handler' = [handler EXCEPT ![s][a] = "failing"]
  /\ \/ live' = [live EXCEPT ![s] = AfterGiveUp(@)]
     \/ StopMayFail /\ UNCHANGED live
  /\ UNCHANGED <<status, ref, expired, request, job, attempts, ttl, stopRef,
                 announced, crashes, drops>>

\* The handler catches the exception: set_error, whatever the row holds by now.
SetError(s, a) ==
  /\ handler[s][a] = "failing"
  /\ handler' = [handler EXCEPT ![s][a] = "failed"]
  /\ status' = [status EXCEPT ![s] = "error"]
  /\ UNCHANGED <<ref, expired, request, job, attempts, ttl, stopRef, live,
                 announced, crashes, drops>>

\* set_ready stores backend_ref; like every write of the repository it does
\* not look at the status it replaces.
SetReady(s, a) ==
  /\ handler[s][a] = "provisioned"
  /\ handler' = [handler EXCEPT ![s][a] = "ready"]
  /\ status' = [status EXCEPT ![s] = "ready"]
  /\ ref' = [ref EXCEPT ![s] = a]
  /\ UNCHANGED <<expired, request, job, attempts, ttl, stopRef, live, announced,
                 crashes, drops>>

\* message.process() acknowledges after a handler that returned, on the channel
\* the message came from: a delivery whose channel is gone settles nothing.
Acks(s, a) == job[s] = "unacked" /\ attempts[s] = a

\* The outcome is published and the handler returns.
ReturnStoresAgain(s, a) ==
  /\ handler[s][a] \in {"ready", "failed"}
  /\ handler' = [handler EXCEPT ![s][a] = "returned"]
  /\ announced' = [announced EXCEPT ![s] =
       @ \cup {IF handler[s][a] = "ready" THEN "ready" ELSE "error"}]
  /\ status' = [status EXCEPT ![s] =
       IF handler[s][a] = "ready" THEN "ready" ELSE "error"]
  /\ job' = IF Acks(s, a) THEN [job EXCEPT ![s] = "done"] ELSE job
  /\ UNCHANGED <<ref, expired, request, attempts, ttl, stopRef, live, crashes,
                 drops>>
Return(s, a) ==
  /\ handler[s][a] \in {"ready", "failed"}
  /\ handler' = [handler EXCEPT ![s][a] = "returned"]
  /\ announced' = [announced EXCEPT ![s] =
       @ \cup {IF handler[s][a] = "ready" THEN "ready" ELSE "error"}]
  /\ job' = IF Acks(s, a) THEN [job EXCEPT ![s] = "done"] ELSE job
  /\ UNCHANGED <<status, ref, expired, request, attempts, ttl, stopRef, live,
                 crashes, drops>>

--------------------------------------------------------------------------------
(* enforce_ttl, one coroutine per delivery. *)

\* asyncio.sleep(max(expires_at - now, 0)) returns no earlier than expires_at.
WakesEarly(s) == TRUE
DelayOver(s) == expired[s]

\* The purge of the sandbox's artifacts ends in logger.info(..., sandbox_id=...)
\* on a standard-library logger: a TypeError if INFO is enabled, and another
\* from the warning in the except branch, which leaves the coroutine.
AfterPurgeLog ==
  {IF level = "INFO" THEN "raised" ELSE "announcing" : level \in LogLevels}

\* The row is read again after the sleep.  A terminated one ends the task;
\* otherwise its backend_ref goes to provisioner.stop, and if that does not
\* suspend the task goes on to set_terminated in the same step.
TtlWake(s, a) ==
  /\ ttl[s][a] = "sleeping"
  /\ DelayOver(s)
  /\ \/ /\ status[s] = "terminated"
        /\ ttl' = [ttl EXCEPT ![s][a] = "done"]
        /\ UNCHANGED <<status, stopRef>>
     \/ /\ status[s] # "terminated" /\ StopSuspends(ref[s])
        /\ ttl' = [ttl EXCEPT ![s][a] = "stopping"]
        /\ stopRef' = [stopRef EXCEPT ![s][a] = ref[s]]
        /\ UNCHANGED status
     \/ /\ status[s] # "terminated" /\ ~StopSuspends(ref[s])
        /\ \E end \in AfterPurgeLog : ttl' = [ttl EXCEPT ![s][a] = end]
        /\ status' = [status EXCEPT ![s] = "terminated"]
        /\ UNCHANGED stopRef
  /\ UNCHANGED <<ref, expired, request, job, attempts, handler, live, announced,
                 crashes, drops>>

\* An exception of stop is logged and the task goes on.
StopFailureEndsTask(s, a) ==
  /\ ttl[s][a] = "stopping"
  /\ \/ /\ ttl' = [ttl EXCEPT ![s][a] = "stopped"]
        /\ live' = [live EXCEPT ![s] = AfterStop(@, stopRef[s][a])]
     \/ /\ StopMayFail
        /\ ttl' = [ttl EXCEPT ![s][a] = "raised"]
        /\ UNCHANGED live
  /\ UNCHANGED <<status, ref, expired, request, job, attempts, handler, stopRef,
                 announced, crashes, drops>>
TtlStop(s, a) ==
  /\ ttl[s][a] = "stopping"
  /\ ttl' = [ttl EXCEPT ![s][a] = "stopped"]
  /\ \/ live' = [live EXCEPT ![s] = AfterStop(@, stopRef[s][a])]
     \/ StopMayFail /\ UNCHANGED live
  /\ UNCHANGED <<status, ref, expired, request, job, attempts, handler, stopRef,
                 announced, crashes, drops>>

\* set_terminated, whatever the row holds by now, and the purge.
TtlTerminate(s, a) ==
  /\ ttl[s][a] = "stopped"
  /\ \E end \in AfterPurgeLog : ttl' = [ttl EXCEPT ![s][a] = end]
  /\ status' = [status EXCEPT ![s] = "terminated"]
  /\ UNCHANGED <<ref, expired, request, job, attempts, handler, stopRef, live,
                 announced, crashes, drops>>

TtlAnnounce(s, a) ==
  /\ ttl[s][a] = "announcing"
  /\ ttl' = [ttl EXCEPT ![s][a] = "done"]
  /\ announced' = [announced EXCEPT ![s] = @ \cup {"terminated"}]
  /\ UNCHANGED <<status, ref, expired, request, job, attempts, handler, stopRef,
                 live, crashes, drops>>

--------------------------------------------------------------------------------
ApiStep(s) == PublishJob(s) \/ PublishFails(s) \/ RefuseRequest(s)

HandlerStep(s, a) ==
  \/ StartProvision(s, a) \/ StartTtl(s, a)
  \/ CreateBackend(s, a) \/ CreateFails(s, a)
  \/ Probe(s, a) \/ GiveUp(s, a)
  \/ SetReady(s, a) \/ SetError(s, a) \/ Return(s, a)

TtlStep(s, a) ==
  TtlWake(s, a) \/ TtlStop(s, a) \/ TtlTerminate(s, a) \/ TtlAnnounce(s, a)

Step ==
  \/ \E s \in Sandbox :
       \/ CreateRow(s) \/ ApiStep(s) \/ ApiCrash(s) \/ Expire(s) \/ Deliver(s)
       \/ \E a \in Attempt : HandlerStep(s, a) \/ TtlStep(s, a)
  \/ Crash
  \/ ConnectionLost

Next == Step /\ UNCHANGED backend

Spec == Init /\ [][Next]_vars

(***************************************************************************)
(* Fairness: time passes; the event loops run every coroutine that is not  *)
(* waiting, and the calls it awaits return (probes and HTTP calls carry    *)
(* timeouts; docker commands do not, and are assumed to end); the broker   *)
(* delivers what it may deliver.  The queue is FIFO, so a job that can be  *)
(* delivered again and again is delivered (SF).  Clients, crashes and lost *)
(* connections are not fair.                                               *)
(***************************************************************************)
Runs(A) == A /\ UNCHANGED backend
Fairness ==
  \A s \in Sandbox :
    /\ WF_vars(Runs(ApiStep(s)))
    /\ WF_vars(Runs(Expire(s)))
    /\ SF_vars(Runs(Deliver(s)))
    /\ \A a \in Attempt :
         WF_vars(Runs(HandlerStep(s, a))) /\ WF_vars(Runs(TtlStep(s, a)))

FairSpec == Spec /\ Fairness

--------------------------------------------------------------------------------
(* Properties. *)

Working_(s) == \E a \in Attempt : Working(handler[s][a])
Watched(s) == \E a \in Attempt : ttl[s][a] = "sleeping"
InFlight_(s) == \E a \in Attempt : InFlight(handler[s][a])
Pending(s) == job[s] \in {"queued", "unacked"}

\* No sandbox is left in "provisioning": someone works on it, or its job will be
\* delivered again.  It survives crashes because the job is acknowledged only
\* after the handler stored its outcome; a lost connection AND a crash together
\* break it (a delivery whose job another delivery settled has no job left).
ProvisioningIsOwned ==
  ~(crashes > 0 /\ drops > 0) =>
    \A s \in Sandbox : status[s] = "provisioning" => Working_(s) \/ Pending(s)

\* A ready sandbox that has time left has a TTL task asleep that will end it, as
\* long as the worker has not crashed (the tasks live in its memory only).
ReadyIsWatched ==
  crashes = 0 =>
    \A s \in Sandbox : status[s] = "ready" /\ ~expired[s] => Watched(s)

\* No backend call fails in a way that leaves a resource behind by itself.
BackendCallsClean ==
  /\ "leftover" \notin CreateFaults
  /\ ~StopMayFail
  /\ backend = "browserbase" => backend \notin FailingProbes

\* With Browserbase, once the row says "terminated" and no delivery is under way
\* the session is released, although the TTL task may have read backend_ref
\* before the handler stored it: stop(None) does not suspend, so the handler's
\* set_ready cannot fall between that stop and set_terminated.
TerminatedReleasesSession ==
  backend = "browserbase" /\ crashes = 0 /\ drops = 0 /\ BackendCallsClean =>
    \A s \in Sandbox :
      status[s] = "terminated" /\ ~InFlight_(s) => live[s] = {}

\* When no delivery is under way, a stop with the stored backend_ref would remove
\* every backend the sandbox has.  With docker the worker may even have crashed once:
\* the container name leads to what the row
\* does not know.
StopReachesAll ==
  BackendCallsClean /\ drops = 0 /\ crashes <= (IF backend = "docker" THEN 1 ELSE 0) =>
    \A s \in Sandbox :
      ~InFlight_(s) => AfterStop(live[s], ref[s]) = {}

\* README.md:5 "request -> provision -> ready -> terminated" and README.md:26 "TTL
\* enforcement auto-terminates expired sandboxes": a terminated sandbox is never
\* offered as ready again.
NoResurrection ==
  [][\A s \in Sandbox : status[s] = "terminated" => status'[s] # "ready"]_vars

\* tests/test_worker.py:471 expects an event from an enforce_ttl that terminated
\* a sandbox: subscribers learn of every termination, unless the worker dies.
TerminationAnnounced ==
  \A s \in Sandbox :
    (status[s] = "terminated") ~> ("terminated" \in announced[s] \/ crashes > 0)

\* A provision that began comes to an outcome.
ProvisioningEnds ==
  \A s \in Sandbox : (status[s] = "provisioning") ~> (status[s] # "provisioning")

\* README.md:26 "TTL enforcement auto-terminates expired sandboxes": one that is
\* ready with time left is terminated eventually, unless the worker dies and its
\* TTL tasks with it.
ReadyIsTerminated ==
  \A s \in Sandbox :
    (status[s] = "ready" /\ ~expired[s]) ~> (status[s] = "terminated" \/ crashes > 0)

--------------------------------------------------------------------------------
(* The contract the status keeps. *)

AttemptPhase(pc) ==
  CASE pc \in {"none", "delivered"} -> "idle"
    [] Working(pc)                  -> "open"
    [] OTHER                        -> "closed"

Contract == INSTANCE SandboxContract WITH
  over     <- expired,
  answered <- [s \in Sandbox |-> request[s] \in {"accepted", "refused", "lost"}],
  phase    <- [s \in Sandbox |-> [a \in Attempt |-> AttemptPhase(handler[s][a])]]

\* Every status a reader sees is explained by SandboxContract.
KeepsContract == Contract!Spec

================================================================================
