# SandboxGrid in TLA+

This directory models the control plane of SandboxGrid: the API that hands out
browser sandboxes, the worker that provisions and terminates them, the RabbitMQ
exchange between the two, and the stores beside them. `tlc` checks the models on
small instances; `tlapm` proves the main invariants for every value of the
constants. Paths below are relative to `src/` and, where it is clear, to
`src/sandbox_api/`.

## The system

Two processes share one SQL database and one RabbitMQ broker.

* The **API** (`main.py`, `api/app.py`, `api/routes/sandboxes.py`, and the routers
  of `sandboxes/commands.py`, `artifacts.py`, `dashboards/router.py`,
  `share_session.py`) creates rows, publishes jobs, and fans status events out to
  SSE subscribers through an in-process `EventBus`.
* The **worker** (`worker.py`) consumes jobs with `RABBITMQ_PREFETCH`
  unacknowledged messages, provisions backends, runs browser commands and agents,
  terminates expired sandboxes and sweeps old artifacts. It is one asyncio event
  loop: everything between two `await`s is atomic within the process.

| Part | State | Operations | Interacts through | What is hard |
|---|---|---|---|---|
| Lifecycle: `orchestrator.py`, `storage.py`, `routes/sandboxes.py`, `worker.handle_provision`, `worker.enforce_ttl` | row: status, backend_ref, expires_at; one job; a TTL task per delivery | create, set_status, set_ready, set_error, set_terminated | database, job queue | writes never look at the status they replace; TTL races provisioning; redelivery after crash or lost connection; TTL tasks live in memory |
| Provisioners: `provisioner.py`, `browserbase.py` | containers, sessions | provision, stop | docker CLI, HTTP | a failed call that took effect; container name conflicts; cleanup by name |
| Event bus and SSE: `core/events.py`, `routes/sandboxes.py`, `api/app.py` | buffer of 500 events, sequence, subscriber queues of 100 | publish, subscribe, unsubscribe, stream | broker fan-out, HTTP | full queues, reconnect with Last-Event-ID, restart of the numbering |
| RabbitMQ client: `core/rabbitmq.py` | connection, channel, exchanges | connect, close, publish, consume | broker | lazy connect raced by two coroutines, connect cancelled half way |
| Commands: `sandboxes/commands.py`, `worker.handle_command`, `worker.dispatch_job` | command id, job, events | enqueue, run, announce | job queue, events | publish of job and event can fail one without the other; ready check is stale by the time the command runs |
| Steps: `worker._execute_steps` and helpers, `agent_planner.py` | locators, page state | resolve, act, retry, skip | Playwright | retry and fallback order, partial results |
| Artifacts: `artifacts.py`, purge and sweep in `worker.py` | rows, blob files, derivations | register, upload, download, delete, derive, purge, sweep | database, file system | two stores without a transaction; purge races uploads |
| Profiles: `worker._resolve_profile_path`, `run_artifact.BrowserRunner.attach` | a path resolved from `profile_artifact_id` | resolve, open a context | file system, browser | the file is checked by one step and read by a later one |
| Share sessions: `share_session.py` | an artifact row, its file | check token and hosts, map cookies, store | database, file system | row, file and pointer in three steps |
| Internal auth: `core/internal_auth.py` | none | verify headers, clock, body hash | HTTP | none: a function of the request |
| Dashboards: `dashboards/`, `worker.handle_dashboard_update` | snapshot file, charts, `artifacts_path` of the row | post, read, store, announce, render | job queue, file system, events, chart renderers | updates are jobs; the provision job moves the directory; output told by a file being there |
| Recorder: `run_artifact.py` | recorded actions, session directory, bundle | record, menu, save, export, import, replay | Playwright, the user of the page | listeners run only inside calls; four saves on the way out; runs share page and directory |
| Lineage: `artifacts.py` derive, listing, manifest | link rows | derive, list parents | database | links outlive what they link |

What makes each part correct, in a sentence:

* *Lifecycle*: whatever is provisioned has somebody who will release it, and a status
  is what last happened to the sandbox.
* *Provisioners*: `stop` reaches every backend that `provision` may have made.
* *Event bus*: a client that reconnects misses only what it is told it may miss.
* *RabbitMQ client*: one connection, and a refusal that passes.
* *Commands*: an accepted command is answered, a refused one does not run, a
  redelivered one keeps to the limits of its run.
* *Steps*: a step acts once, fails only for a reason, and what it leaves on disk is
  what the artifact rows say.
* *Artifacts*: a row serves the body it describes; a deleted artifact leaves nothing.
* *Profiles, share sessions*: a command runs with the profile it named, or fails.
* *Dashboards*: the newest accepted update is shown, and charts show its data.
* *Recorder*: what was recorded is on disk when the command says so, in the order in
  which it happened, and a replay ends.
* *Lineage*: every link joins two artifacts of one owner.
* *Internal auth*: a request is accepted exactly when its headers, its clock and
  its body agree.

## The modules

| Module | Models |
|---|---|
| `Provisioners` | what `provision` and `stop` do to the containers or sessions of a sandbox |
| `SandboxLifecycle` | the create request, the provision job, its deliveries, and the TTL tasks |
| `SandboxContract` | the abstract specification of a sandbox's status |
| `Commands` | the command endpoints, the command job, `handle_command`, the artifact cap of a run |
| `StepRunner` | the thread of a steps or agent command |
| `ArtifactBlobs` | artifact rows and their files: upload, registration, deletion, purge, sweep |
| `ProfileUse` | commands with a stored profile and `POST /share-session`, over `ArtifactBlobs` |
| `Recording` | record, replay, run and import of browser sessions, with the menu and the user |
| `Dashboard` | updates of a dashboard as jobs, the snapshot and its reader, the charts |
| `EventStream` | the event bus, the SSE streams and their clients |
| `RabbitConnection` | the lazily shared broker connection of the API |
| `MC*` | instances of each for TLC |
| `SandboxLifecycle_proofs`, `Commands_proofs`, `StepRunner_proofs`, `EventStream_proofs`, `RabbitConnection_proofs`, `Recording_proofs`, `Dashboard_proofs`, `ArtifactBlobs_proofs` | theorems |

`SandboxLifecycle` extends `Provisioners`, whose variable `backend` is one of the constant
`Backends` and never changes: one run covers several provisioners. It implements
`SandboxContract`. `ProfileUse` extends `ArtifactBlobs`: every step of the artifact store is
one of its steps, beside the reader of the file and a third writer. The other modules stand
side by side, each with the neighbour it needs reduced to what it may do: `Commands` has a
sandbox that may be terminated at any time, which is what `SandboxLifecycle` says of it;
`StepRunner` is the inside of the step `Commands` calls "running"; `ArtifactBlobs` has
threads that register files, which is what `StepRunner` and `Commands` do; `Dashboard` has
the provision job as the job that changes the directory; `EventStream` takes events in
whatever order the broker has them.
An action is the code between two points at which another coroutine, thread or process
can run: an `await`, a database commit, a call out of the process. Two definitions of the
same action stand side by side in places (`StartProvision` and `AcksBeforeWork`): the
second is a variant with a plausible mistake, is used by no specification, and serves to
show that the properties notice.

### SandboxLifecycle

An action is the code between two awaits. `status`, `ref` and `expired` are the
columns of `SandboxRow`; `request` is the position of `create_sandbox`, `handler`
and `ttl` those of `handle_provision` and `enforce_ttl`, one of each per delivery of
the job, because each delivery starts its own (`worker.py:1297`). A backend resource
is named by the delivery that made it. `job` is the message: queued, unacknowledged,
settled.

| Action | Code |
|---|---|
| `CreateRow`, `PublishJob`, `PublishFails`, `RefuseRequest`, `ApiCrash` | `create_sandbox`: the commit, the publish, its failure (the broker may have the message all the same), `set_error` and 503, death in between |
| `Deliver`, `Requeue`, `Crash`, `ConnectionLost` | the broker under `basic.qos`, the worker's death, a reconnect of `connect_robust` |
| `StartProvision`, `StartTtl` | `set_status(provisioning)`, the event, `create_task(enforce_ttl)` |
| `CreateBackend`, `CreateFails`, `Probe`, `GiveUp` | the provisioner, with `Provisioners` saying what each backend does |
| `SetReady`, `SetError`, `Return` | the outcome, its event, and `message.process()` acknowledging |
| `TtlWake`, `TtlStop`, `TtlTerminate`, `TtlAnnounce` | `enforce_ttl`: the second read of the row, `stop`, `set_terminated` with the purge, the event |

`stop(None)` of Browserbase returns without suspending the coroutine, so for it
`TtlWake` goes on to `set_terminated` in the same step. That is what keeps a handler
from storing its session between the two, and `TerminatedReleasesSession` depends on it.
`LogLevels` is how the worker may have configured its log: its loggers are the standard
library's and are called with keywords they do not take, so a call that is enabled raises,
and so does the one that reports it. `main()` configures INFO (`worker.py:1667`), at which
the task ends after the purge, without the event.

`SandboxContract` says what a reader of the status may rely on: terminated only
after the time is over, "provisioning" once per attempt at its beginning,
"ready" or "error" once per attempt at its end, one "error" from the API, and a
terminated sandbox comes back only by an attempt. `KeepsContract` is
`SandboxContract!Spec` under the mapping from a handler's position to its phase.

### Commands

`request` is the position of a command endpoint, `job` its message, `handler` and
`made` the position of `handle_command` and of its executor thread, one per delivery. An
artifact is known by its delivery and its number: `rows` are those that have a row with the
command's `run_id`, and `result` what the last registration of a delivery returned, the
empty set for None. `log` is what reached the exchange, a success with the artifact it
names, and that an outcome was refused by the broker.

| Action | Code |
|---|---|
| `CheckReady`, `PublishJob`, `PublishJobFails`, `PublishQueued`, `PublishQueuedFails` | `get_sandbox` and `enqueue_command`: two publishes in one `try` |
| `Deliver`, `Requeue`, `Crash`, `ConnectionLost` | the broker and the worker's death |
| `Begin`, `Refuse`, `Start` | the two early returns of `handle_command`, and "running" |
| `Skip`, `PassCap`, `Register` | `register_artifact_file`: the cap is counted in one transaction, the row added in another |
| `Complete`, `Raise`, `Report`, `Return` | the outcome and the acknowledgement |
| `Terminate` | `enforce_ttl` ends the sandbox meanwhile |

What a thread does between two registrations is not in this module. `Strict` are the
commands that dereference what `register_artifact_file` returned
(`capture_profile`, `run_browser`, `agent`): they fail when it is None, and their success
names the last artifact they registered.

### StepRunner

One command, its deliveries (`Run`), the directory they share, the page they share when
no profile is given, and the artifact rows of the `run_id`. A step is its kind and the
fields its control looks at: `click`, `type` and `wait_for_selector` are one kind
(`_perform_locator_action`), `goto`, `wait` and `type_rce` another, the four drawing
actions a third. `tries` is retries times locators. A file is known by its extension and
the name that `_safe_filename` is given (the step's own, or the label of the step);
`PathOf` is where that leads on disk, through the constant `SafeName`, which maps several
names to one: "a b" and "a_b", a step named as the label of another, a JSON snapshot named
as the agent's plan. `content` is the version at a path, `sum` the one a row was
registered with.

| Action | Code |
|---|---|
| `Deliver`, `Crash` | a delivery starts; the worker dies |
| `Attach`, `CaptureState`, `PlanSteps` | `_run_steps`, `_run_agent` up to the first step; `plan_steps` with its fallbacks and `max_steps` |
| `Register`, `Checksum`, `RegisterFails` | `register_artifact_file`, row and checksum in two transactions; the cap's count is part of the first here, and apart from it in `Commands` |
| `BeginStep`, `ScopeFails`, `TryLocator`, `TryRaises`, `GiveUp` | skip selector, frame, retries over the locators, `optional` |
| `ActPlain`, `Press`, `Release`, `DrawRaises`, `ActPageState`, `Screenshot`, `Snapshot` | the branches of `_execute_steps` |
| `Finish`, `Link`, `LinkFails` | the return, `_link_derived_artifacts` |

A browser call returns, raises before its effect, or raises after it. The four files of
a page state are written in one step: no reader sees them before they are registered.
Coordinates, the CDP fallback of the pointer and the caches keyed by `id(page)` are left
out, and so is a profile's page of its own, which nobody else can reach.

### ArtifactBlobs

`art` are the rows with their `blob_path`, checksum and presigned link, `dir` the files
of the store, `data` the content of each upload's file, `reg` the position of a worker
thread in `register_artifact_file`, `clean` the deletion loop each process is in. An
upload opens the file with truncation, awaits every chunk, and then commits; the
deletion loops do not await, but the other process and the threads run beside them.
`InfoEnabled` is whether the worker logs at INFO: its loggers are the standard library's
and are called with keywords they do not take, so a call that is enabled raises. It is
TRUE in every run, as `main()` configures it.

### ProfileUse

`use` is what a command knows of its profile: the path it resolved, what it found there,
and what its context was made of. `Resolve` is `_resolve_profile_path` (row, `blob_path`,
file, in a thread of the worker), `OpenContext` is `BrowserRunner.attach`, which has the
browser read the file later and falls back to the default context without a word when
`new_context` or `new_page` raises: because the file is gone or is not one whole storage
state ("default"), or for any other reason ("raised"). `State` are the bodies that are
storage states; an upload may store one that is not, which is accepted all the same.
`ShareRow`, `ShareFile` and `SharePointer` are the three steps of
`share_session`; its handler is synchronous inside one coroutine, so the API does nothing
else meanwhile (`sharing`), but the worker does.

### Recording

A session is named by the run whose recorder made it. `page` numbers what has happened on
the page since somebody watches it, and an action in a recording carries the number of
the effect it repeats; `seen` is how much of the page the listeners of a run were told.
`call` is the call into the browser that the menu of a run is in. Listeners come in only
inside such a call, and one that the menu itself makes is recorded by the menu after they
have: a click that navigates is recorded by its listener, then the navigation, then the
click once more.

| Action | Code |
|---|---|
| `BeginRecord`, `BeginBrowser`, `BeginReplay`, `BeginImport`, `Attach` | the four commands up to their page; `load_session`; `tarfile.open` |
| `Navigate`, `Shoot`, `ShootOnce`, `ShootFails`, `TimeIsUp` | `record_session`: the navigation is recorded before it is made; periodic screenshots; the duration |
| `Save`, `SaveNow`, `FinishSave`, `Export`, `ExportNow`, `FinishExport`, `Extract` | `session.json` is emptied and then filled, and so is the bundle; each of the two may raise before and after it has emptied the file, which the menu swallows and the rest of the command does not; `extractall` |
| `Play`, `Played` | `_execute_action`, which swallows what raises and repeats a click that did |
| `Watch`, `RecordOn`, `Leave` | `start_monitoring`, "record on", and the end of the menu, whose `finally` saves |
| `BeginCall`, `CallActs`, `Listen`, `EndCall` | a menu command in steps: the call begins, has its effect, listeners are told what is due, it returns and a click, an input or a screenshot is recorded, or it raises |
| `PageActs`, `Crash`, `Register` | the user of the page or the page itself, the death of the host, the artifact row |

### Dashboard

An update is known by its place among the jobs published, so a larger number is a later
update; job 0 is the provision job of the sandbox, which gives the row its
`artifacts_path` (`home`). `queue` and `unacked` are in the order of the broker, which
returns a job to its place.

| Action | Code |
|---|---|
| `Post` | `set_dashboard_data`; the reader (`get_dashboard_data`) is the expression `View` |
| `Take`, `Requeue`, `Crash`, `ConnectionLost`, `Settle` | the broker and the worker's death |
| `Provision`, `Provisioned` | `handle_provision` as far as it changes the directory |
| `Store`, `StoreFails`, `Announce`, `Return` | `handle_dashboard_update`: the snapshot is written before its first await, then the event |
| `DrawChart`, `Rendered`, `RenderFailed` | `render_charts` in a thread, one directory per delivery: an image that is there counts as output |

### EventStream

`published` numbers the events of one sandbox, `buffer`, `sequence` and `queue` are the
fields of `EventBus`, `pc`, `backlog` and `emitted` the generator of `sandbox_events`,
and `received`, `lastId` and `dropped` what a client has seen and what full queues
refused it. Every bus operation is one step of the API's event loop; a client may go
between any two frames, and take an event that was already out of its queue with it.

### RabbitConnection

`pc` is where a caller is inside `connect()` or, for the startup hook, `consume_events()`,
whose awaits are one step each: `_connection` is set before the channel exists, and
`_channel` before `_events`. `BeginConsuming` has the assertions of `rabbitmq.py:86-87`,
`AwaitConsuming` the awaits behind them. The startup hook may be cancelled by its timeout
between any two of its steps, and any await may raise; the application then starts without
a consumer, and `abandoned` says that somebody has left `connect()` half way. `HalfOpen` is
a client whose connection is set and whose channel or exchange is not: a caller that needs
what is missing fails an assertion, a publish of a job or of a status with 503,
`publish_agent_event` with 500.

## The runs

| Run | Instance | Shows |
|---|---|---|
| `lifecycle` | 1 sandbox on each of the 3 backends, 1 crash, 1 lost connection, all API faults, failing docker probes | `ProvisioningIsOwned`, `ReadyIsWatched`, `StopReachesAll`, `TerminatedReleasesSession`, refinement of `SandboxContract` (`KeepsContract`) |
| `lifecycle_live` | 1 sandbox on each backend, 1 crash, every failing call of broker and backend, the log at INFO | `ProvisioningEnds`, `ReadyIsTerminated` under fairness |
| `lifecycle_resurrected` | 1 sandbox, no fault | counterexample to `NoResurrection` |
| `commands` | 1 command that names its last artifact, 2 artifacts, cap 2, 1 crash, 1 lost connection, failing publishes, a termination | `CapIsKept`, `SuccessIsBacked`; `AcceptedIsAnswered` under fairness |
| `steps_one` | 1 delivery, every kind of step alone and in pairs, names that meet, cap 3, plans cut to 1 | `ActsOnce`, `ChecksumStands`; `RunEnds` under fairness |
| `steps_shared` | 2 deliveries, a crash or an overlap, 3 kinds of step | `CompletedIsLinked`, `FileHasItsRow`, `ReportsItsArtifacts`, `ButtonIsReleased` |
| `blobs_uploads` | 1 artifact, posted or captured, 2 uploads of up to 2 chunks, 1 crash, symmetric | `BlobIsServed`, `OrphansAreExplained` |
| `profiles` | 1 command, 1 posted, captured or shared profile, 2 uploads of which 1 is no storage state, sweep, deletes, 1 crash | `ProfileWasAccepted`, `FallbackIsEarned` |
| `recording` | 2 runs: one records, from the start or from its menu, the other replays or imports; 2 effects, 1 action of the menu's own, failing saves and exports, 1 crash | `RecordedIsKept`, `TornIsExplained`, `FollowsThePage`, `SavedOnlyGrows`; `CommandsEnd` under fairness |
| `dashboard` | 2 updates beside the provision job, a chart that both have, failing writes and publishes, 1 crash, 1 lost connection | `ChartsShowTheirData`, `ReaderNeverGoesBack`, `EventsNeverGoBack`; `AcceptedIsShown` under fairness |
| `stream` | 1 client, 2 connections, 4 events, buffer 3, queue 1, a limit of 2 or none, a supplied number, 1 restart | `ReplayHasNoGap`, `NothingOutOfReach`, `NumbersAreFresh`; `SubscriptionReleased` under fairness |
| `rabbit` | 2 requests that publish a job and 1 that publishes an event, the startup hook, 2 outages, a timeout, every await may fail | `OneConnection`, `HalfOpenIsExplained`; `ServedUnlessAbandoned` under fairness |

The type invariants (`TypeOK`, `ProfileTypeOK`) of all components are proved, so no run
spends time on them.

Bounds. Sandboxes meet only in the prefetch window of the worker, which delays a
delivery and does nothing else; a job may be delivered late in every run, so one sandbox
is enough. Each crash or lost connection adds one delivery: with one crash and one lost
connection a sandbox has three handlers and three TTL tasks, which covers a redelivery
during each phase of an earlier delivery. `StopReachesAll` is claimed for no lost
connection, and for one crash with docker only; with two crashes, or a lost connection,
`docker run` of a later delivery can leave a container that the stored `backend_ref` does
not name, and with Browserbase a crash already does.

Clients of a stream do not meet except in the bus, which treats them alike, so one
client is enough; four events fill a buffer of three and evict one, and overflow a queue
of one. Two uploads are the fewest that share a file, and two chunks are the fewest that
another request can come between and go over the limit in the middle of a body. A
profile of one chunk is whole or not there, and its body is a storage state or is not,
which is all its reader tells apart; it needs two uploads to be rewritten by one while the
other is what was checked. A command's
deliveries share only its rows and its directory: one command with two or three
deliveries shows what they do to each other. With a cap of two and two artifacts the first
life of a run may fill the cap and end well, and the second then meets it, at an artifact
it can do without and at the one it must name. Steps do not look at the steps before
them, except through the names of their files: pairs of steps are enough for that, and
two tries are the fewest that are retried. Two runs on a page are the fewest that meet:
the first records, with the menu or without, and the second replays its session on its
page or unpacks its bundle; two effects are the fewest that have an order (a click and the
navigation it leads to), and one action of the menu's own, beside all that the listeners
record, is the fewest that comes after them. Two updates are the fewest
that can change places, and with the provision job between them they can be stored in
different directories. Three requests beside the startup hook let two race inside
`connect_robust` while a third finds its result.

Fairness. Time passes; the event loops run every coroutine that can go on; probes, HTTP
and database calls return (the first two carry timeouts), and so do docker commands, which
carry none (`_run_docker_command`, `provisioner.py:431`): one that hangs would keep its
sandbox in "provisioning"; the broker delivers what the
prefetch window lets it, strongly, because the queue is FIFO and a job cannot be
passed over for ever. Clients, users, uploads, crashes and lost connections are not fair.
In `steps_one` the calls into the browser return or raise; the locator, navigation and
screenshot calls carry timeouts, `page.evaluate` does not, and a page whose script never
returns would hold the thread for ever. In `recording` a run that is not interactive goes
on. In `rabbit` a client that was refused tries again and the broker comes back.

What the liveness properties leave out, they say: `ReadyIsTerminated` ends with the
worker's first crash, because its TTL tasks die with it; `AcceptedIsAnswered` promises that
the client is told an outcome unless the broker refused the event that tells it, and that
the job is settled in any case; `ServedUnlessAbandoned` promises nothing once a `connect()`
has been abandoned half way; `CommandsEnd` is about commands that are not interactive.
Deadlock is not checked where every request, job and task may have ended.

### Disagreements found

One is a run:

* **A terminated sandbox becomes ready again** (`lifecycle_resurrected`,
  `NoResurrection`). `enforce_ttl` is started before `provision` is awaited. If the job
  waited in the queue, or the backend is slow, the TTL task terminates the row and ends,
  and `set_ready` then overwrites it: `README.md:26` ("TTL enforcement auto-terminates
  expired sandboxes") no longer holds, because no task is left.

The others are states and steps of the models that were found while they were written.
The modules state what the code's own text promises, under the names given here; none of
these is a property of a run. Naming one in the configuration of its module, with the
constants given where they differ, shows its counterexample: `lifecycle_live.cfg`,
`lifecycle_resurrected.cfg`, `commands.cfg`, `steps_one.cfg`, `blobs_uploads.cfg`,
`stream.cfg` or `rabbit.cfg`.

* **A connection that was cancelled half way is never completed** (`TryAgainHelps` of
  `RabbitConnection`): `connect()` finds `_connection` set and returns, and every later
  publish fails its assertion, although clients are told to try again.
* **The end of a sandbox is not announced** (`TerminationAnnounced`, under `FairSpec`, in
  `lifecycle_live.cfg`, or without any fault in `lifecycle_resurrected.cfg`). The purge
  ends in `logger.info(..., sandbox_id=...)` on a standard-library logger
  (`worker.py:1256`), which raises `TypeError` when INFO is enabled, as `main()`
  configures; the `except` branch raises again. `tests/test_worker.py:471` expects the
  event, and passes because INFO is not enabled there.
* **A restart forgets every TTL** (why `ReadyIsTerminated` ends with a crash):
  `worker.py:1297` is the only place that starts a task.
* **The retention sweep ends after its first success** (`OldArtifactsGo`, under `FairSpec`,
  with two posted artifacts, no upload and no symmetry): its log call (`worker.py:1656`) raises, and so
  does the one that reports it, although it is to delete "periodically" (`worker.py:1638`).
* **A refused command runs** (`RefusedIsNotRun`). The job is out
  before the "queued" event; when the event fails the client is told "Queue unavailable.
  Try again later."
* **The artifact cap fails commands** (`CapOnlySkips`) that need what it skipped, an agent
  after its last step. **It is passed** (`CapIsAlwaysKept`) when two
  deliveries count before either adds.
* **A second capture overwrites the first** (`ArtifactsKeepTheirContent`, steps of kind
  `page_state`). File names depend on the `run_id` or the step's name; the row of the
  first keeps its checksum.
* **Artifacts of an agent that fails are not linked to its plan**
  (`AgentArtifactsAreLinked`): the links come after the last step.
* **A request's own steps do not help against an empty answer of the model**
  (`StepsSurviveThePlanner`): it is refused outside the `try`
  (`agent_planner.py:148`).
* **A deleted artifact leaves a file** (`DeleteRemovesBlob`) if an upload to it was
  rejected or is under way.
* **A purged sandbox has artifacts** (`PurgedStaysPurged`) that a thread registers later.
* **A replaying stream sends one frame too many** (`LimitIsKept`): the replay compares with
  `>` after it has sent (`routes/sandboxes.py:96`), the loop with `>=` before, although
  `README.md:25` promises "bounded streams".
* **A dropped event stays out of reach** (`DropsAreReplayable`): the next event moves the
  client's Last-Event-ID past it.

Of the recorder, the dashboards and the profiles no text promises enough to disagree with.
What their models show of the code, and their properties leave room for:

* One `session.json` that is half written makes `list_sessions` raise for all sessions: one
  that a dead run left, or one whose save failed, which the menu swallows
  (`TornIsExplained` says which files those are). No save is atomic: one that is cut off or
  fails takes the version before it away (`SavedOnlyGrows`).
* What a user does while the menu waits for a line reaches the recorder at its next call
  into the browser, and never if there is none (`FollowsThePage` allows a missing end);
  a click or an input made by the menu is recorded by the listener and by the menu, the
  second time perhaps after the navigation it led to.
* The menu's own save replaces the metadata of the first; the actions only grow
  (`SavedOnlyGrows`).
* A profile that cannot be read, is accepted though it is no storage state, or meets any
  other error of the browser gives the default context, silently (`FallbackIsEarned` says
  when the file can be the reason).
* An update stored before `set_ready` gives the row another `artifacts_path` is not found
  in the new place (`AcceptedIsShown` has it as an exception after a lost connection;
  without one the queue keeps the provision job first).
* Two charts of an update whose ids differ only in characters that are replaced share one
  image file (`DistinctNames` in `ChartsShowTheirData`).

## The proofs

Each `_proofs` module proves its theorems for every value of the constants, from the named
assumptions of its component alone. An invariant of a run is seldom inductive; what is
added to it, and why, is said here. Every invariant and every action property of a
passing run is a theorem, and so is the type invariant of every component.

`SandboxLifecycle_proofs`, from `BackendAssumption`, `LifecycleAssumption` and
`NoRefAssumption`:

* `TypeCorrect`: `TypeOK`. The range of `attempts` is not inductive by itself; the
  strengthening `DeliveriesCounted` says that the deliveries so far are at most the
  crashes plus the lost connections, plus one if the job is out.
* `ProvisioningNotAbandoned`: `ProvisioningIsOwned`. It splits on the fault. Without a
  crash, whoever wrote "provisioning" is still a coroutine that will replace it
  (`OwnedWithoutCrash`). Without a lost connection, a running handler is the one that
  holds the message (`HandlerHoldsJob`), so a crash that ends it also requeues its job
  (`OwnedWithoutDrop`). `UndeliveredIdle` says that a delivery that has not happened has
  no handler.
* `ReadyAlwaysWatched`: `ReadyIsWatched`, from `HandlerIsWatched`: the TTL task starts
  before the provisioner is called and sleeps until the time is over.
* `NothingIsLost`: `StopReachesAll`, from `StopInv`. What exists in a backend and is not
  stored yet belongs to the one handler that is `Holding` it, between the call that
  created it and the transaction that stores it or the call that gives it up; everything
  else, the stored `backend_ref` leads to. `OwnNames` says that resources and the stored
  name come from deliveries that have happened, so no later delivery meets its own name.
* `SessionIsReleased`: `TerminatedReleasesSession`, from `StopInv` and `ReleaseInv`. Once a
  `backend_ref` is stored its handler creates nothing more; a TTL task that is stopping
  stops the stored one; and a terminated row beside a live session still has a handler
  that is `Holding` it. It rests on `stop(None)` not suspending.
* `ContractKept`: `KeepsContract`, the refinement of `SandboxContract`. Each action is
  mapped to the action of the contract it performs or to a stutter. Besides the
  invariants above, the mapping needs `RowInv`: nothing happens to a sandbox before its
  row exists, and a TTL task that is past its sleep has an expired sandbox, because the
  clock does not go back. `PhaseMoves` says what a handler's step does to the mapped phase.

`Commands_proofs`, from `CommandAssumption`:

* `TypeCorrect`: `TypeOK`, with `DeliveriesCounted` as above.
* `CapHolds`: `CapIsKept`. The count and the insertion are two transactions, so the cap
  is not inductive: a thread that has passed the count may stand before its insertion.
  `RoomForOne` says that while it does, one row fits; `OneWorks` that without a lost
  connection only one delivery is alive, and `RegistersInTurn` that it is the last.
* `SuccessHasItsRow`: `SuccessIsBacked`, from `AllBacked`. The claim is about the end of a
  chain, so each link of it is in the invariant (`Backed`): until the purge that ends
  "ready", what the last registration of a delivery returned has its row, a thread that
  must name it is not done when that was None, and a success in the log names what its own
  delivery registered.

`StepRunner_proofs`, from `StepAssumption`. `Shapes` classifies every step of a run as one
of five: it moves on, it writes files, it registers one, it completes a checksum, or it
links; the invariants about artifacts are proved once per shape.

* `TypeCorrect`: `TypeOK`, with `PosInv`: a run that walks its plan is within it.
* `FilesHaveRows`: `FileHasItsRow`, which is inductive together with `QueueInv` and
  `IdsInv`: what is queued for registration is on disk, a row without a checksum is of
  the file at the head of its run's queue, and what a run reports are the rows it
  completed.
* `ReportIsComplete`, `CompletedLinks`: `ReportsItsArtifacts` and `CompletedIsLinked`, from
  `IdsInv`, `EndInv` and `LinkInv`: nothing is left to register at the end of a run, and
  links exist only for artifacts of a run that completed.
* `ButtonReleased`: `ButtonIsReleased`, inductive by itself over the types: `ButtonFrame` says that
  no step but a press puts the button down, and none changes where a run ended.
* `EffectsCounted`: `ActsOnce`, from `CountInv`, which ties the effects of a step to the
  tries that raised after their effect, over retries, fallback locators and frames.
* `ChecksumIsOfItsFile`: `ChecksumStands`, from `SumInv` (a checksum is of the version on
  disk or of an older one) and `SoloInv`: while only one delivery has begun, each version
  at a path is the work of a place of its own in the plan (`WrittenOnce`, with `Paths` and
  `PathsWritten` for what `_safe_filename` lets meet), so the version a row was made for is
  the last.

`EventStream_proofs`, from `StreamAssumption`:

* `NumbersStayFresh`: `NumbersAreFresh`, from `NumberInv`: the counter of the bus is not
  behind any number in its buffer, which is what a publish relies on.
* `TypeCorrect`: `TypeOK`. `Ranks` and `ItemsAtType` say what the items at a set of places
  of a buffer are; `Backlog` is written with `ItemsAt`, the places that pass the test of
  the comprehension in `subscribe`, in order, because the library states nothing about a
  `SelectSeq` without an operator for a parameter.
* `ReplayIsGapless`, `NothingIsOutOfReach`: `ReplayHasNoGap` and `NothingOutOfReach`, from
  `ReachInv`. A subscription is seen as one line, its backlog and then its queue (`Line`).
  `Flow` says that the line is rising, comes after what the client received, and leaves out
  no event after the first that is received or in the line, but those that a full queue
  dropped or the buffer let go (`Excused`).
  Four lemmas say how it changes: `FlowBegins` (a subscription takes the backlog),
  `FlowGrows` (a publish is queued), `FlowSkips` (it is dropped) and `FlowMoves` (a frame
  goes out). `BusInv` gives what the buffer holds, and `BacklogIsLater` that what is
  replayed comes after the number the client named. The streams and the bus of a server
  that numbers all of its events are meant; `FreshInv` holds without that.

`RabbitConnection_proofs`, from `RabbitAssumption`:

* `OneConnectionHolds`: `OneConnection`. `OpensAlone` ties the number of connections to
  whether any caller is between its check and `connect_robust`'s return.
* `HalfOpenExplained`: `HalfOpenIsExplained`. The parts of the client are set in one order
  (`PartsInOrder`), and whoever is in the middle of setting them is at the step that says
  which (`OutsideStep`): what is missing is somebody's next step, or was somebody's who
  left.
* `TypeCorrect`: `TypeOK`, for finitely many callers. How many connections are made is
  bounded by `CountInv`: once there is one, nobody begins to open another.

`Recording_proofs`, from `RecordingAssumption`:

* `TypeCorrect`: `TypeOK`.
* `TornExplained`: `TornIsExplained`, from `TornInv`, with `ImportsExtract`: a run that
  imports does nothing else, and nobody else unpacks. `FileStep` says who may empty a
  `session.json`, and `MayBeTorn` where its run can be from then on, saves that fail
  included. `Recorders` says which runs have a recorder at which places.
* `SavedGrows`: `SavedOnlyGrows`. What a recorder has extends what is on disk
  (`SavedInv`), because actions are only appended after a save (`GrowStep`) and only the
  recorder of a session, or an import, writes its file (`SaveStep`).
* `RecordedKept`: `RecordedIsKept`. `RecordedInv` holds it in halves from the moment a
  run is past its last save (`Late`): the file first, the bundle once it is exported.
  `LateStep` says that nothing but an import touches either after that, and `ListsInv`
  that a recording lists only screenshots that were taken.
* `RecordingFollowsThePage`: `FollowsThePage`, from `FollowInv`. A recorder is compared
  with the page up to what its listeners have been told (`Follows`): the first occurrences
  of the effects it would repeat are in the page's order, a second one is the menu's own
  click or input, and from its first effect on none is missing. `Pending` says what the
  menu's call under way has done, relative to what was delivered. A record command misses
  none at all (`HasAll`). The page only grows at its end (`PageGrows`).

`Dashboard_proofs`, from `DashboardAssumption`:

* `TypeCorrect`: `TypeOK`.
* `ChartsShow`: `ChartsShowTheirData`. `DrawnInv` says that an image that is there was
  drawn by this delivery, at an index it is done with, and every other name of the
  delivery's directory is still free; `Unposted` that charts do not change once their
  job is out.
* `NoOlderSnapshot`, `NoOlderEvent`: `ReaderNeverGoesBack` and `EventsNeverGoBack`, from
  `OrderInv`. With one message at a time (`OneAtATime`) the unacknowledged job and then
  the queue are one line that rises, no stored snapshot is later than a job still to
  come, and until a connection is lost nothing later has been told and the job in hand is
  the first of the line.

`ArtifactBlobs_proofs`, from `BlobAssumption` and, for the profiles of `ProfileUse`,
`ProfileAssumption` (what the share page stores is a posted artifact; an upload may have a
chunk; the storage states are among the bodies of uploads and what a capture writes; no
upload is called "captured", "default" or "raised"):

* `TypeCorrect`: `TypeOK`.
* `OrphansExplained`: `OrphansAreExplained`, for the files of the store and for captured
  ones. A file of the store that no pointer leads to belongs to an upload under way or
  refused (`FileIsUploaded`); a captured file has the thread that registers it
  (`CaptureHasThread`) or was left by an upload that moved the pointer (`PathsAreEarned`);
  one that a deleted row points to is in the hands of a loop (`PointedIsPending`), which
  holds one file at a time and none when it is idle (`OnePending`).
* `BlobServed`: `BlobIsServed`. Inodes stay with the artifact they were made for
  (`InodesAreOwned`, `FilesAreOwned`), so a flush reaches no other artifact; whoever
  opened a file last and shared it with nobody is the only writer (`Alone`), also after it
  has been accepted; and its file is exactly what it has flushed (`FileIsFlushed`) for as
  long as the row lives, because loops delete rows before files (`LoopsDeleteFirst`) and a
  row that has gone is not made again (`CapturesAreKept`).
* `ProfileTypeCorrect`: `ProfileTypeOK`. `ProfileSteps` says that every step of
  `ProfileUse` is, for the store, a step of `ArtifactBlobs` or the write of a shared
  profile, so the invariants of the store are kept by what was proved of its own steps.
* `ProfilesWereAccepted`: `ProfileWasAccepted`, from `AcceptedInv`: a path in the object
  store was earned by an upload that was accepted (`PathsAreEarned`), a
  command that knows such a path, or runs with an upload's body, has that upload behind it
  (`UseIsEarned`), and what was accepted stays so while the row and the file change.
* `FallbacksAreEarned`: `FallbackIsEarned`, from `WholeInv`. An upload that ended well left
  a whole file (`EndsWhole`), one under way has what it flushed (`Holds`), and every file
  has somebody who opened it (`FilesHaveOpeners`). `FoundFirst` says that a command that
  has its path found a file there, so an absent or incomplete one was spoilt since; and a
  whole one that gives no context has a body that is no storage state.

Only model-checked are the liveness properties (`ProvisioningEnds`, `ReadyIsTerminated`,
`AcceptedIsAnswered`, `RunEnds`, `CommandsEnd`, `AcceptedIsShown`, `SubscriptionReleased`,
`ServedUnlessAbandoned`): they need fairness and
`ENABLED`, which is out of the prover's reach. The counterexample to `NoResurrection` is
TLC's as well.

## What is not modelled

* Lineage (`derive_artifact`, parents of a listing, the manifest): link rows are added,
  never removed, and read. What a deletion does to a link depends on whether the database
  behind `DATABASE_URL` enforces foreign keys, which nothing in `src/` says. The links of
  an agent's run are in `StepRunner`.
* The decisions of `share_session.py` (lines 23 to 314: token, hosts, mapping of cookies)
  and `core/internal_auth.py`: functions of one request, its environment and the clock.
* Schemas (`command_models.py`, `core/jobs.py`, `dashboards/models.py`): pydantic
  validation without state. Requests in the models are those it lets through.
* `core/database.py`, `core/paths.py`, `core/env.py`: start-up I/O. Each transaction is
  one atomic step.
* `InternalSandboxOps` (`worker.py:124`): the command paths without a queue; only tests
  call it. The same holds for `SandboxOrchestrator._provision_async` and `_enforce_ttl`.
* The thread lock of `EventBus`: every caller runs on the event loop.
* How a chart is drawn, templates, the overlay; `interactive_mode` and `list` from the
  shell, which use the same menu and only read.
* The coordinates of the pointer, the caches keyed by `id(page)`, the planner's prompt.
* The mock Browserbase client, examples, scripts and `.github`.

## Plan

1. Composition: `Commands` over `SandboxLifecycle` (a command during termination) and
   `StepRunner` as the inside of a running command.
2. Proofs: as safety, what the liveness properties rest on: until a promise is kept there
   is somebody who can still keep it (a job in the queue or a handler at work, a sleeping
   TTL task, a subscription with its reader).
3. `ArtifactLineage`, once the database's treatment of foreign keys is fixed by the code.
4. Several sandboxes in the queue of `Dashboard`, with a prefetch above one.
