\* One delivery of a command with steps of every kind, a language model, a cap.
SPECIFICATION FairSpec
CONSTANTS
  spaced = spaced
  underlined = underlined
  labelled = labelled
  planned = planned
  Name = {spaced, underlined, labelled, planned}
  NoName = NoName
  Base <- Names
  SafeName <- Safe
  PlanName <- AgentPlan
  Step <- EveryKind
  MaxSteps = 2
  PlanLimit = 1
  StateParts = 2
  Llm = TRUE
  RunCap = 3
  Deliveries = 1
  Overlap = FALSE
  MayCrash = TRUE
\* Every run ends.
CHECK_DEADLOCK FALSE
INVARIANTS ActsOnce ChecksumStands
PROPERTIES RunEnds
