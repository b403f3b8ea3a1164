SPECIFICATION Spec
CONSTANTS
  r1 = r1
  r2 = r2
  r3 = r3
  paid1 = paid1
  paid2 = paid2
  free1 = free1
  free2 = free2
  Runs = {r1}
  Requests = {paid1}
  FreeRequests = {}
  FreeLimit = 1
  Price = 2
  Deposited = 2
  ChatCharges = {}
  Days <- OneRun
INVARIANT CapturedRowsCompleted
CHECK_DEADLOCK FALSE
