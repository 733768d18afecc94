SPECIFICATION Spec
CONSTANTS
  Jobs = {j1}
  Workers = {w1}
  NoJob = NoJob
  NoWorker = NoWorker
  MaxAttempts = 2
  FaultLimit <- OneCrash
  FaultAt <- Anywhere
PROPERTIES TerminalStands
