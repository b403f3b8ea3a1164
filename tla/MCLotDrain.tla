---------------------------- MODULE MCLotDrain ----------------------------
EXTENDS LotDrain

MCPurchases == {[paid |-> 5, bonus |-> 1], [paid |-> 7, bonus |-> 0], [paid |-> 1, bonus |-> 0]}
=============================================================================
