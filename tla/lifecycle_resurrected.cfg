\* No fault at all.
SPECIFICATION Spec
CONSTANTS
  Backends = {"browserbase"}
  NoRef = NoRef
  Sandbox = {s1}
  Prefetch = 1
  MaxCrashes = 0
  MaxDrops = 0
  PublishFaults = {}
  ApiMayCrash = FALSE
  CreateFaults = {}
  FailingProbes = {}
  StopMayFail = FALSE
  LogLevels = {"INFO"}
PROPERTIES NoResurrection
\* The system may stop: every request answered, every job and task ended.
CHECK_DEADLOCK FALSE
