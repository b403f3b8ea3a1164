SPECIFICATION FairSpec
CONSTANTS
  r1 = r1
  r2 = r2
  r3 = r3
  paid1 = paid1
  paid2 = paid2
  free1 = free1
  free2 = free2
  Runs = {r1, r2, r3}
  Requests = {paid1, paid2, free1, free2}
  FreeRequests = {free1, free2}
  FreeLimit = 1
  Price = 2
  Deposited = 5
  ChatCharges = {3}
  Days <- MCDays
INVARIANTS
  ChargedOnlyIfDelivered
  ReservedIsOpen
  FreeBucketHolds
PROPERTY HoldsSettle
CHECK_DEADLOCK FALSE
