------------------------------ MODULE Provisioners ------------------------------
(***************************************************************************)
(* What the three provisioners of sandboxes/provisioner.py do to the       *)
(* resources that back ONE sandbox: containers of the docker host, or      *)
(* sessions of the Browserbase service.  A resource is named by the        *)
(* delivery (attempt) of the provision job that created it; "live" is the  *)
(* set of the sandbox's resources that exist.                              *)
(***************************************************************************)
CONSTANTS
  Backends,  \* bound: the provisioners looked at
  NoRef      \* backend_ref = None

ASSUME BackendAssumption == Backends \subseteq {"local", "docker", "browserbase"}

VARIABLE backend  \* SANDBOX_PROVISIONER of the worker, read once when it starts

\* Every container of a sandbox is named cua_<sandbox_id>: `docker run --name`
\* fails while one exists.  create_session has no such check.
CanCreate(live) == backend = "docker" => live = {}

\* LocalProvisioner creates nothing.
AfterCreate(live, r) == IF backend = "local" THEN live ELSE live \cup {r}

\* The probes after creation (port and CDP of the container, live view of the
\* session) succeed only on a resource that still exists.
ProbesAlive(live, r) == backend = "local" \/ r \in live

\* provision() gives up after the probes failed: docker removes BY NAME, whoever
\* created that container; browserbase only raises.
AfterGiveUp(live) == IF backend = "docker" THEN {} ELSE live

\* stop(sandbox_id, backend_ref): docker removes the container with that id, or
\* the one with the sandbox's name if there is no id; browserbase releases the
\* session with that id and returns at once if there is none.
RemoveByIdOnly(live, r) == live \ {r}
AfterStop(live, r) ==
  CASE backend = "local"       -> live
    [] backend = "docker"      -> IF r = NoRef THEN {} ELSE live \ {r}
    [] OTHER                   -> live \ {r}

\* stop awaits a docker process or an HTTP call; otherwise it returns without
\* giving the event loop a turn.
SuspendsAlways(r) == backend # "local"
StopSuspends(r) == backend = "docker" \/ (backend = "browserbase" /\ r # NoRef)
================================================================================
