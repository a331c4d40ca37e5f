\* One command with two artifacts and a cap of two; a crash, a lost connection,
\* every failure.
SPECIFICATION FairSpec
CONSTANTS
  Command = {c1}
  Strict = {c1}
  Produces = 2
  RunCap = 2
  Prefetch = 1
  BrokerFails = TRUE
  MayTerminate = TRUE
  MaxCrashes = 1
  MaxDrops = 1
CHECK_DEADLOCK FALSE
INVARIANTS CapIsKept SuccessIsBacked
PROPERTIES AcceptedIsAnswered
