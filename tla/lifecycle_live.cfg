\* Every provisioner, one crash, every failure but a lost connection; the log as main()
\* configures it.
SPECIFICATION FairSpec
CONSTANTS
  Backends = {"local", "docker", "browserbase"}
  NoRef = NoRef
  Sandbox = {s1}
  Prefetch = 1
  MaxCrashes = 1
  MaxDrops = 0
  PublishFaults = {"lost", "unconfirmed"}
  ApiMayCrash = FALSE
  CreateFaults = {"clean", "leftover"}
  FailingProbes = {"docker", "browserbase"}
  StopMayFail = TRUE
  LogLevels = {"INFO"}
\* The system may stop: every request answered, every job and task ended.
CHECK_DEADLOCK FALSE
PROPERTIES ProvisioningEnds ReadyIsTerminated
