SPECIFICATION DrainSpec
CONSTANTS
  MaxLots = 4
  Purchases <- MCPurchases
  Spendings = {2, 3, 5, 10}
INVARIANTS
  LoopIsProportional
  OnlySpentLotsOverdrawn
PROPERTIES
  ChargeIsExact
CHECK_DEADLOCK FALSE
