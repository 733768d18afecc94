SPECIFICATION FairSpec
CONSTANTS
  Requests = {r1, r2}
  Auths = {a1}
  Processes = {p1, p2}
  None = None
  Deployments <- Everywhere
  Before <- BeforeOne
  Skew = 2
  Grace = 1
  Retries = 2
  Horizon = 3
  FaultLimit = 1
CHECK_DEADLOCK FALSE
INVARIANTS
  TypeOK
  SpentOnce
  PaidFor
  OneBuild
PROPERTIES
  Answered
