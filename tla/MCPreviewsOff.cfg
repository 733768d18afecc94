SPECIFICATION Spec
CONSTANTS
  c1 = c1
  c2 = c2
  p1 = p1
  p2 = p2
  Requests = {1, 2}
  Processes = {p1, p2}
  Callers = {c1, c2}
  NoOne = NoOne
  Deployments <- Environments
  Menu <- Requested
  Limit <- NoBudget
  Window <- Windows
  Pool = 1
  Horizon = 1
  Crashes = 1
  Errors = 1
CHECK_DEADLOCK FALSE
INVARIANT PreviewsOff
