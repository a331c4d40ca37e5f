------------------------------- MODULE Dashboard -------------------------------
(***************************************************************************)
(* The dashboard of one sandbox.  The API publishes every update as a job  *)
(* (dashboards/router.py); the worker stores its payload as the snapshot,  *)
(* announces it, and renders its charts in a thread (worker.handle_        *)
(* dashboard_update, dashboards/charts_renderer.py); the API reads the     *)
(* snapshot from the directory that the sandbox row names.  The provision  *)
(* job of the sandbox goes through the same queue and changes that row.    *)
(*                                                                         *)
(* Job 0 is the provision job; an update is known by its place among the   *)
(* jobs published, so that a larger number is a later update.              *)
(***************************************************************************)
EXTENDS Naturals, SequencesExt

CONSTANTS
  MaxUpdates,   \* bound: updates posted
  Charts,       \* what the charts of an update may be: sequences of safe names
  Renderer,     \* CHARTS_RENDERER
  Prefetch,     \* RABBITMQ_PREFETCH
  BrokerFails,  \* publishing may fail
  DiskFails,    \* writing the snapshot may fail
  MaxCrashes,   \* bound: deaths of the worker
  MaxDrops      \* bound: connections of the worker lost and restored

Name == UNION {{cs[i] : i \in DOMAIN cs} : cs \in Charts}

ASSUME DashboardAssumption ==
  /\ Charts \subseteq Seq(Name)
  /\ {MaxUpdates, MaxCrashes, MaxDrops} \subseteq Nat
  /\ Prefetch \in Nat \ {0}
  /\ Renderer \in {"disabled", "docker", "node", "html"}
  /\ {BrokerFails, DiskFails} \subseteq BOOLEAN

Job == 0 .. MaxUpdates
Attempt == 1 .. (1 + MaxCrashes + MaxDrops)

Picture == Job \X Nat
NoPicture == <<0, 0>>

FolderOfSandbox(u, a) == <<0, 1>>

\* run_id: every delivery renders in a directory of its own.
Folder(u, a) == <<u, a>>

\* SANDBOX_ARTIFACTS_ROOT, and the artifacts_path of the sandbox.
Place == {"root", "own"}

VARIABLES
  posted,    \* updates that have got as far as the broker
  accepted,  \* updates answered with 202
  charts,    \* [Job -> charts of the update]
  queue,     \* jobs in the broker, in the order of delivery
  unacked,   \* jobs delivered on the present connection, in that order
  attempts,  \* [Job -> deliveries so far]
  handler,   \* [Job -> [Attempt -> position of the handler]]
  drawn,     \* [Job -> [Attempt -> charts done with in the thread]]
  rows,      \* [Job -> [Attempt -> charts that have an artifact row]]
  images,    \* [Folder -> [Name -> <<update, chart>> the image there is of]]
  home,      \* the place that row.artifacts_path stands for
  snapshot,  \* [Place -> update stored there, 0 for none]
  told,      \* the update that the last dashboard_data event carried
  crashes,
  drops

faultVars == <<crashes, drops>>
brokerVars == <<queue, unacked, attempts>>
apiVars == <<posted, accepted, charts>>
chartVars == <<drawn, rows, images>>
diskVars == <<home, snapshot>>
vars == <<apiVars, brokerVars, handler, chartVars, diskVars, told, faultVars>>

HandlerPC ==
  {"none", "provisioning", "announcing", "rendering", "returned", "raised", "dead"}
Active(pc) == pc \notin {"none", "returned", "raised", "dead"}

TypeOK ==
  /\ posted \in Job /\ accepted \subseteq Job
  /\ charts \in [Job -> Charts \cup {<<>>}]
  /\ queue \in Seq(Job) /\ unacked \in Seq(Job)
  /\ attempts \in [Job -> Nat]
  /\ handler \in [Job -> [Attempt -> HandlerPC]]
  /\ drawn \in [Job -> [Attempt -> Nat]]
  /\ rows \in [Job -> [Attempt -> SUBSET Nat]]
  /\ images \in [Job \X Attempt -> [Name -> Picture]]
  /\ home \in Place
  /\ snapshot \in [Place -> Job]
  /\ told \in Job
  /\ crashes \in 0 .. MaxCrashes /\ drops \in 0 .. MaxDrops

Init ==
  /\ posted = 0 /\ accepted = {}
  /\ charts = [u \in Job |-> <<>>]
  /\ queue = <<0>> /\ unacked = <<>>
  /\ attempts = [u \in Job |-> 0]
  /\ handler = [u \in Job |-> [a \in Attempt |-> "none"]]
  /\ drawn = [u \in Job |-> [a \in Attempt |-> 0]]
  /\ rows = [u \in Job |-> [a \in Attempt |-> {}]]
  /\ images = [f \in Job \X Attempt |-> [n \in Name |-> NoPicture]]
  /\ home = "root"
  /\ snapshot = [p \in Place |-> 0]
  /\ told = 0
  /\ crashes = 0 /\ drops = 0

Goto(u, a, pc) == handler' = [handler EXCEPT ![u][a] = pc]

--------------------------------------------------------------------------------
(* set_dashboard_data, get_dashboard_data *)

PostUnconfirmed ==
  /\ posted < MaxUpdates
  /\ posted' = posted + 1
  /\ \E cs \in Charts : charts' = [charts EXCEPT ![posted + 1] = cs]
  /\ queue' \in {queue, Append(queue, posted + 1)}
  /\ accepted' = accepted \cup {posted + 1}
  /\ UNCHANGED <<unacked, attempts, handler, chartVars, diskVars, told, faultVars>>

\* The sandbox need not be ready.  A publish that raises is answered with 503,
\* although the broker may have the job.
Post ==
  /\ posted < MaxUpdates
  /\ posted' = posted + 1
  /\ \E cs \in Charts : charts' = [charts EXCEPT ![posted + 1] = cs]
  /\ queue' = Append(queue, posted + 1)
  /\ \/ accepted' = accepted \cup {posted + 1}
     \/ BrokerFails /\ UNCHANGED accepted
  /\ UNCHANGED <<unacked, attempts, handler, chartVars, diskVars, told, faultVars>>

\* What get_dashboard_data answers, 0 for "Waiting for data": the row is read,
\* and the file is there as a whole or not at all (written aside, then renamed).
View == snapshot[home]

--------------------------------------------------------------------------------
(* The broker *)

\* Handlers start in the order of their messages, and none of them awaits
\* anything before its first effect: a delivery and that effect are one step.
Take(u) ==
  /\ queue # <<>> /\ u = Head(queue)
  /\ Len(unacked) < Prefetch
  /\ queue' = Tail(queue)
  /\ attempts' = [attempts EXCEPT ![u] = @ + 1]

Requeue ==
  /\ queue' = unacked \o queue
  /\ unacked' = <<>>

Crash ==
  /\ crashes < MaxCrashes
  /\ crashes' = crashes + 1
  /\ Requeue
  /\ handler' = [u \in Job |-> [a \in Attempt |->
       IF Active(handler[u][a]) THEN "dead" ELSE handler[u][a]]]
  /\ UNCHANGED <<apiVars, attempts, chartVars, diskVars, told, drops>>

\* The handlers go on; what they settle later the new connection does not know.
ConnectionLost ==
  /\ drops < MaxDrops /\ unacked # <<>>
  /\ drops' = drops + 1
  /\ Requeue
  /\ UNCHANGED <<apiVars, attempts, handler, chartVars, diskVars, told, crashes>>

\* message.process(): acknowledged after a return, rejected without requeueing
\* after an exception; either way the job is gone.
Settle(u, a) ==
  LET held == {i \in DOMAIN unacked : a = attempts[u] /\ unacked[i] = u} IN
  unacked' \in IF held = {} THEN {unacked} ELSE {RemoveAt(unacked, i) : i \in held}

--------------------------------------------------------------------------------
(* handle_provision, as far as the dashboard is concerned *)

Provision ==
  /\ Take(0)
  /\ unacked' = Append(unacked, 0)
  /\ Goto(0, attempts[0] + 1, "provisioning")
  /\ UNCHANGED <<apiVars, chartVars, diskVars, told, faultVars>>

\* set_ready with a path, or without one, or set_error; the event; the return.
Provisioned(a) ==
  /\ handler[0][a] = "provisioning"
  /\ Goto(0, a, "returned")
  /\ home' \in {home, "own"}
  /\ Settle(0, a)
  /\ UNCHANGED <<apiVars, queue, attempts, chartVars, snapshot, told, faultVars>>

--------------------------------------------------------------------------------
(* handle_dashboard_update *)

StoreUnacknowledged(u) ==
  /\ u > 0 /\ Take(u)
  /\ UNCHANGED unacked
  /\ snapshot' = [snapshot EXCEPT ![home] = u]
  /\ Goto(u, attempts[u] + 1, "announcing")
  /\ UNCHANGED <<apiVars, chartVars, home, told, faultVars>>

Store(u) ==
  /\ u > 0 /\ Take(u)
  /\ unacked' = Append(unacked, u)
  /\ snapshot' = [snapshot EXCEPT ![home] = u]
  /\ Goto(u, attempts[u] + 1, "announcing")
  /\ UNCHANGED <<apiVars, chartVars, home, told, faultVars>>

\* The file written aside is not complete; the snapshot stays what it was, and the
\* message is rejected without requeueing.
StoreFails(u) ==
  /\ DiskFails
  /\ u > 0 /\ Take(u)
  /\ Goto(u, attempts[u] + 1, "raised")
  /\ UNCHANGED <<apiVars, unacked, chartVars, diskVars, told, faultVars>>

AnnounceAndSave(u, a) ==
  /\ handler[u][a] = "announcing"
  /\ Goto(u, a, "rendering")
  /\ told' = u
  /\ snapshot' = [snapshot EXCEPT ![home] = u]
  /\ UNCHANGED <<apiVars, brokerVars, chartVars, home, faultVars>>

Announce(u, a) ==
  /\ handler[u][a] = "announcing"
  /\ Goto(u, a, "rendering")
  /\ told' \in {u} \cup IF BrokerFails THEN {told} ELSE {}
  /\ UNCHANGED <<apiVars, brokerVars, chartVars, diskVars, faultVars>>

Draws == Renderer # "disabled"
MoreCharts(u, a) == Draws /\ drawn[u][a] < Len(charts[u])

\* What is at the output path once the renderer is done with chart i: its image;
\* or, when the command ended well without writing one, what was there before.
Output(u, a, i) ==
  {<<u, i>>} \cup IF Renderer = "html" THEN {} ELSE {images[Folder(u, a)][charts[u][i]]}

\* A row for the chart if there is an image, unless the run has its fill of rows.
Rendered(u, a, i) == \E p \in Output(u, a, i) :
  /\ images' = [images EXCEPT ![Folder(u, a)][charts[u][i]] = p]
  /\ rows' \in {rows} \cup
       IF p = NoPicture THEN {} ELSE {[rows EXCEPT ![u][a] = @ \cup {i}]}

\* The command ended with an error: logged, and on to the next chart.
RenderFailed == Renderer # "html" /\ UNCHANGED <<rows, images>>

DrawChart(u, a) ==
  /\ handler[u][a] = "rendering" /\ MoreCharts(u, a)
  /\ drawn' = [drawn EXCEPT ![u][a] = @ + 1]
  /\ Rendered(u, a, drawn[u][a] + 1) \/ RenderFailed
  /\ UNCHANGED <<apiVars, brokerVars, handler, diskVars, told, faultVars>>

\* The charts are done, or one raised what the loop does not catch (there is no
\* docker, the database refuses the row).
Return(u, a) ==
  /\ handler[u][a] = "rendering"
  /\ Goto(u, a, "returned")
  /\ Settle(u, a)
  /\ UNCHANGED <<apiVars, queue, attempts, chartVars, diskVars, told, faultVars>>

HandlerStep(u, a) ==
  \/ u = 0 /\ Provisioned(a)
  \/ Announce(u, a) \/ DrawChart(u, a) \/ Return(u, a)

Delivery == Provision \/ \E u \in Job : Store(u) \/ StoreFails(u)

Next ==
  \/ Post \/ Delivery \/ Crash \/ ConnectionLost
  \/ \E u \in Job, a \in Attempt : HandlerStep(u, a)

Spec == Init /\ [][Next]_vars

\* Awaited calls return or raise, renderers end, the broker delivers.
FairSpec ==
  /\ Spec
  /\ WF_vars(Delivery)
  /\ \A u \in Job, a \in Attempt : WF_vars(HandlerStep(u, a))

--------------------------------------------------------------------------------
(* Properties *)

\* With one message at a time a reader never gets an older update, or none, after
\* a newer one, also when updates are delivered again (a handler stores before it
\* first waits, and the broker returns a job to its place).  Only a lost
\* connection lets an update overtake the provision job, which then moves the
\* reader to another directory.
ReaderNeverGoesBack ==
  [][Prefetch = 1 => View' >= View \/ (drops > 0 /\ home' # home)]_vars

\* The event stream does not go back either, unless a handler that lost its
\* connection announces late.
EventsNeverGoBack == [][Prefetch = 1 /\ drops' = 0 => told' >= told]_vars

\* An update that was accepted is read in the end, or a later one is, whatever
\* becomes of the worker; or the disk refused it; or it was stored where the reader
\* looked before the provision job overtaken by it.
AcceptedIsShown ==
  \A u \in Job : u \in accepted ~>
    \/ View >= u
    \/ drops > 0 /\ home = "own" /\ snapshot["root"] >= u
    \/ \E a \in Attempt : handler[u][a] = "raised"

\* The image that a chart artifact points to is of that chart and of that update,
\* though output is told from no output by whether the file is there, charts keep
\* their names from update to update, and updates are rendered again and side by
\* side.  Two charts of one update whose ids have the same safe form share a file.
DistinctNames(cs) == \A i, j \in DOMAIN cs : cs[i] = cs[j] => i = j
ChartsShowTheirData ==
  \A u \in Job, a \in Attempt : DistinctNames(charts[u]) =>
    \A i \in rows[u][a] : images[Folder(u, a)][charts[u][i]] = <<u, i>>
================================================================================
