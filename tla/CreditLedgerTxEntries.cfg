SPECIFICATION Spec
CONSTANTS
  Deposits = {1, 2}
  Worth <- MCWorth
  MinTopUp = 1
  Cost <- MCCost
  Calls <- MCCalls
  Loads <- TwoNotices
INVARIANT EveryMutationHasEntry
CHECK_DEADLOCK FALSE
