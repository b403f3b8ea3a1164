SPECIFICATION Spec
CONSTANTS
  Deposits = {1, 2}
  Messages = {}
  ImageRequests = {}
  StableAssets = {"USDC"}
  BonusAssets = {}
  Amounts = {4}
  Prices = {1}
  MinTopUp = 4
  Charges = {3}
INVARIANT ReservedIsHeld
CHECK_DEADLOCK FALSE
