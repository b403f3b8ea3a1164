SPECIFICATION FairSpec
CONSTANTS
  Transfers = {1, 2}
  Amount <- MCAmount
  MinTopUp = 3
  Runs = {p1, p2}
  Overlap = 1
  Backfill = 6
  PageLimit = 1
  Situations <- MCSituations
  MaxBlock = 3
  LastDeposit = 2
  MaxNotices = 1
  MaxFaults = 1
INVARIANTS
  TypeOK
  
  NeverEarly
  
PROPERTY EveryDepositCounts
