\* Two job requests and an event request, every failure.
SPECIFICATION FairSpec
CONSTANTS
  JobRequest = {j1, j2}
  EventRequest = {e1}
  Startup = Startup
  TimeoutFires = TRUE
  FailsLate = TRUE
  MaxOutages = 2
\* Every request may have been accepted.
CHECK_DEADLOCK FALSE
INVARIANTS OneConnection HalfOpenIsExplained
PROPERTIES ServedUnlessAbandoned
