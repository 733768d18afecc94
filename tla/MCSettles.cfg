SPECIFICATION FairSpec
CONSTANTS
  Jobs = {j1}
  Workers = {w1, w2}
  NoJob = NoJob
  NoWorker = NoWorker
  MaxAttempts = 1
  FaultLimit <- CrashRace
  FaultAt <- Anywhere
PROPERTIES OverlapEnds EventuallySettled
