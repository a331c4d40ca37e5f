\* Two deliveries of a command on one page, in one directory.
SPECIFICATION Spec
CONSTANTS
  spaced = spaced
  underlined = underlined
  labelled = labelled
  planned = planned
  Name = {spaced, underlined, labelled, planned}
  NoName = NoName
  Base <- Names
  SafeName <- Safe
  PlanName <- AgentPlan
  Step <- SharedKinds
  MaxSteps = 1
  PlanLimit = 2
  StateParts = 1
  Llm = FALSE
  RunCap = 0
  Deliveries = 2
  Overlap = TRUE
  MayCrash = TRUE
\* Every run ends.
CHECK_DEADLOCK FALSE
INVARIANTS
  CompletedIsLinked
  FileHasItsRow
  ReportsItsArtifacts
  ButtonIsReleased
