\* Two uploads of up to two chunks to one artifact, posted or captured.
SPECIFICATION Spec
CONSTANTS
  Posted = {c1}
  Captured = {c1}
  Scoped = {c1}
  Presigned = {c1}
  Upload = {u1, u2}
  UploadLimit = 2
  BatchLimit = 1
  InfoEnabled = TRUE
  MaxChunks = 2
  MaxCrashes = 1
  NoFile = NoFile
  NoBody = NoBody
SYMMETRY UploadSymmetry
INVARIANTS BlobIsServed OrphansAreExplained
CHECK_DEADLOCK FALSE
