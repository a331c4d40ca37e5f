\* A posted, captured or shared profile, two uploads that rewrite it, one of them with a body that
\* is no storage state, deletes, a sweep, one command with the profile and one crash.
SPECIFICATION ProfileSpec
CONSTANTS
  Posted = {p1}
  Captured = {p1}
  Scoped = {p1}
  Presigned = {}
  Upload = {u1, u2}
  UploadLimit = 0
  BatchLimit = 1
  InfoEnabled = TRUE
  MaxChunks = 1
  MaxCrashes = 1
  NoFile = NoFile
  NoBody = NoBody
  State = {u1, "captured"}
  Command = {x1}
  Shareable = {p1}
INVARIANTS ProfileWasAccepted
PROPERTIES FallbackIsEarned
CHECK_DEADLOCK FALSE
