SPECIFICATION Spec
CONSTANTS
  Deposits = {1, 2}
  Messages = {m1}
  ImageRequests = {r1}
  StableAssets = {"USDC"}
  BonusAssets = {"KIKO"}
  Amounts <- MCAmounts
  Prices = {2}
  MinTopUp = 4
  Charges = {3}
INVARIANTS
  TypeOK
  AccountMatchesLots
  LedgerReplays
  LotsReplayLedger
  EntryPerKey
  PaidHoldsCovered
  RefundsReturnUnusedPaid
  HoldsAreBacked
  HoldsEndOnce
 
CHECK_DEADLOCK FALSE
