SPECIFICATION Spec
CONSTANTS
  Jobs = {j1}
  Workers = {w1, w2}
  NoJob = NoJob
  NoWorker = NoWorker
  MaxAttempts = 2
  FaultLimit <- OneOverlap
  FaultAt <- Nowhere
INVARIANTS OneBuilder
