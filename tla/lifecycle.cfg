\* The local stub, docker containers or Browserbase sessions, a worker crash and a lost
\* connection, every API fault; a session that was created answers its probes.
SPECIFICATION Spec
CONSTANTS
  Backends = {"local", "docker", "browserbase"}
  NoRef = NoRef
  Sandbox = {s1}
  Prefetch = 1
  MaxCrashes = 1
  MaxDrops = 1
  PublishFaults = {"lost", "unconfirmed"}
  ApiMayCrash = TRUE
  CreateFaults = {"clean"}
  FailingProbes = {"docker"}
  StopMayFail = FALSE
  LogLevels = {"INFO", "WARNING"}
\* The system may stop: every request answered, every job and task ended.
CHECK_DEADLOCK FALSE
INVARIANTS ProvisioningIsOwned ReadyIsWatched StopReachesAll TerminatedReleasesSession
PROPERTIES KeepsContract
