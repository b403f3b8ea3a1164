SPECIFICATION FairSpec
CONSTANTS
  Intents = {i1}
  Workers = {w1, w2}
  MaxRetry = 1
  MaxLapses = 1
  MaxFaults = 1
INVARIANTS
  OneSeller
  ConfirmedIsClosed
  
 
CHECK_DEADLOCK FALSE
