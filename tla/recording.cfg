\* A command that records, interactive or not, one that replays or imports what
\* it makes, a user on the page, and a crash.
SPECIFICATION FairSpec
CONSTANTS
  r1 = r1
  r2 = r2
  Run = {r1, r2}
  Effect = {"navigate", "click"}
  Given <- RecordThenUse
  MaxEffects = 2
  MaxActions = 1
  Shots = 0
  MayCrash = TRUE
\* Every run ends.
CHECK_DEADLOCK FALSE
INVARIANTS
  RecordedIsKept
  TornIsExplained
  FollowsThePage
PROPERTIES
  SavedOnlyGrows
  CommandsEnd
