SPECIFICATION Spec
CONSTANTS
  MaxAttempts = 2
  Crashes = 0
  Losses = 1
  Ages = 0
CHECK_DEADLOCK FALSE
INVARIANTS ArtifactStays
