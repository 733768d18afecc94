SPECIFICATION Spec
CONSTANTS
  Requests = {r1,r2}
  Auths = {a1,a2}
  Processes = {p1}
  None = None
  Deployments <- SharedChain
  Before <- BeforeOne
  Skew = 0
  Grace = 1
  Retries = 0
  Horizon = 0
  FaultLimit = 0
CHECK_DEADLOCK FALSE
INVARIANTS ReceiptIsOwn
