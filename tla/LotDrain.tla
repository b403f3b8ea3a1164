------------------------------ MODULE LotDrain ------------------------------
(***************************************************************************)
(* The lots of one user under a long run of charges: deposits append lots,  *)
(* charges take what AllocateAcrossLots says from them (the lot side of     *)
(* settleChatUsageCharge).  It is where the rounding of the allocation      *)
(* accumulates.                                                             *)
(***************************************************************************)
EXTENDS LotAllocation

CONSTANTS
  MaxLots,      \* bound: how many deposits are credited
  Purchases,    \* the balances [paid, bonus] a credited deposit may have
  Spendings     \* the amounts a usage charge may have

ASSUME LotDrainAssumption ==
  /\ MaxLots \in Nat \ {0}
  /\ \A d \in Purchases : d.paid \in Nat \ {0} /\ d.bonus \in Nat
  /\ Spendings \subseteq Nat \ {0}

VARIABLE balances   \* remaining [paid, bonus] of every deposit, oldest first

DrainInit == balances = << >>

(***************************************************************************)
(* What the loaded rows let a charge spend: getSpendablePaid and            *)
(* getSpendableBonus never count a side as less than 0.  A row loadOpenLots *)
(* does not load, with neither side above 0, has nothing to spend.          *)
(***************************************************************************)
OpenLots(rows) ==
  [i \in DOMAIN rows |-> [paid  |-> Positive(rows[i].paid),
                          bonus |-> Positive(rows[i].bonus)]]

CreditLot(d) ==
  /\ Len(balances) < MaxLots
  /\ balances' = Append(balances, [paid |-> d.paid, bonus |-> d.bonus])

\* updateLotsForSpend: each allocation is subtracted from its deposit's row.
TakeFrom(rows, taken) ==
  [i \in DOMAIN rows |-> [paid  |-> rows[i].paid - taken[i].paid,
                          bonus |-> rows[i].bonus - taken[i].bonus]]

Charge(amount) ==
  /\ CanAllocate(OpenLots(balances), amount)
  /\ balances' = TakeFrom(balances, AllocateAcrossLots(OpenLots(balances), amount))

DrainNext == \/ \E d \in Purchases : CreditLot(d)
             \/ \E amount \in Spendings : Charge(amount)

DrainSpec == DrainInit /\ [][DrainNext]_balances
-----------------------------------------------------------------------------
(***************************************************************************)
(* The loop computes the proportional allocation: for every charge the open *)
(* lots can pay, allocateAcrossLots gives each lot exactly its share in the *)
(* closed form the ledger is specified with, and the others nothing.        *)
(***************************************************************************)
LoopIsProportional ==
  \A amount \in Spendings :
    LET open       == OpenLots(balances)
        candidates == [i \in SpendableLots(open) |-> open[i]]
        total      == TotalBalance(open)
        last       == CHOOSE i \in SpendableLots(open) : IsLast(open, i)
        rest       == RestOfCharge(candidates, total, last, amount)
        shares     == ProportionalAllocation(candidates, total, last, rest, amount)
    IN  CanAllocate(open, amount) =>
          /\ rest \in 0..amount
          /\ AllocateAcrossLots(open, amount)
               = [i \in DOMAIN balances |->
                    IF i \in SpendableLots(open) THEN shares[i] ELSE NoCredits]

(***************************************************************************)
(* No sequence of charges takes more paid credits from a deposit than were  *)
(* bought with it: the paid side, the only one a refund pays out, is exact  *)
(* whatever the rounding does to the bonus side.  And a lot whose bonus     *)
(* side was overdrawn by the leftover of a charge is spent: it is never     *)
(* opened again, and its overdraft never grows.                             *)
(***************************************************************************)
OnlySpentLotsOverdrawn ==
  \A i \in DOMAIN balances :
    /\ balances[i].paid >= 0
    /\ balances[i].bonus < 0 => balances[i].paid = 0

Remaining(rows) == SumOver(DOMAIN rows, LAMBDA i : Balance(rows[i]))

(***************************************************************************)
(* A charge takes exactly its amount from the lots, whatever was lost to    *)
(* rounding on the way, and what it takes from one lot beyond its balance   *)
(* is dust: fewer units than there are lots.                                *)
(***************************************************************************)
ChargeIsExact ==
  [][Len(balances') = Len(balances) =>
       /\ Remaining(balances) - Remaining(balances') \in Spendings
       /\ \A i \in DOMAIN balances :
            balances'[i].bonus > Lesser(balances[i].bonus, 0) - Len(balances)]_balances
=============================================================================
