SPECIFICATION Spec
CONSTANTS
  Jobs = {j1, j2}
  Workers = {w1}
  NoJob = NoJob
  NoWorker = NoWorker
  MaxAttempts = 2
  FaultLimit <- Mixed
  FaultAt <- BeforeResult
INVARIANTS NeverLost AttemptsBounded
PROPERTIES ImplementsLifecycle
