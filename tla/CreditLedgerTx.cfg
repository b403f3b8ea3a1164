SPECIFICATION FairSpec
CONSTANTS
  Deposits = {1, 2}
  Worth <- MCWorth
  MinTopUp = 4
  Cost <- MCCost
  Calls <- MCCalls
  Loads <- MCLoads
INVARIANTS
  EntryPerKey
  SerialIsExact
  SpendersNeverDeadlock
PROPERTY CallsEnd
CHECK_DEADLOCK FALSE
