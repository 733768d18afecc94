SPECIFICATION Spec
CONSTANTS
  Jobs = {j1}
  Workers = {w1, w2}
  NoJob = NoJob
  NoWorker = NoWorker
  MaxAttempts = 2
  FaultLimit <- Races
  FaultAt <- Anywhere
SYMMETRY Symmetry
INVARIANTS TypeOK QueueOnce PaidBuild HonestOutcome
