SPECIFICATION FairSpec
CONSTANTS
  Requests = {r1}
  Auths = {a1}
  Processes = {p1}
  None = None
  Deployments <- SharedChain
  Before <- BeforeOne
  Skew = 0
  Grace = 1
  Retries = 2
  Horizon = 0
  FaultLimit = 0
CHECK_DEADLOCK FALSE
PROPERTIES RefusedIsUncharged
