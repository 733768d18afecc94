SPECIFICATION Spec
CONSTANTS
  MaxAttempts = 2
  Crashes = 0
  Losses = 0
  Ages = 0
CHECK_DEADLOCK FALSE
PROPERTIES AvailableServes
