SPECIFICATION FairSpec
CONSTANTS
  a = a
  b = b
  c = c
  u1 = u1
  u2 = u2
  Calls = {a, b, c}
  Users = {u1, u2}
  UserOf <- MCUserOf
  Purpose <- MCPurpose
  Prewarmed = {b}
  Disowned = {c}
  NoCall = NoCall
  Limit = 1
  MaxRetries = 3
  MaxFaults = 1
INVARIANTS
  AcceptedStays
  SentOnce
  NoGap
  NoIdlePlace
PROPERTY EverySendEnds
CHECK_DEADLOCK FALSE
