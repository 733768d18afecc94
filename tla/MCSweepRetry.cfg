SPECIFICATION Spec
CONSTANTS
  MaxAttempts = 2
  Crashes = 1
  Losses = 0
  Ages = 1
CHECK_DEADLOCK FALSE
PROPERTIES RetryMeasured
