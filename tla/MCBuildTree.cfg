SPECIFICATION Spec
CONSTANTS
  MaxAttempts = 3
  Crashes = 2
  Losses = 1
  Ages = 1
CHECK_DEADLOCK FALSE
INVARIANTS TypeOK PreviewFree UnsignedRelease OwnMode ArtifactKept Leftover
