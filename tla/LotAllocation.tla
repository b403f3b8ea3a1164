--------------------------- MODULE LotAllocation ---------------------------
(***************************************************************************)
(* How a credit charge is spread over the user's open deposit lots         *)
(* (kiko-api/src/services/creditBillingService.ts).  An amount is a whole   *)
(* number of 1e-8 credits, the scale CREDIT_DECIMAL_PLACES fixes, so        *)
(* roundCredits is the identity on sums and floorCredits of a quotient is   *)
(* \div.  A lot, here, is the part of a deposit that may be spent:          *)
(* [paid, bonus], both balances at least 0.  The loaded lots are a sequence, *)
(* oldest first, in which a lot's position stands for its id, and an         *)
(* allocation list is a function from the positions to what is taken there:  *)
(* NoCredits where the list has no entry.                                    *)
(*                                                                          *)
(* AllocateAcrossLots is the loop of the source.  ProportionalAllocation    *)
(* says in closed form what the loop computes, and the ledger uses it;      *)
(* LotDrain checks that the two agree, CreditLedgerProofs proves it.        *)
(***************************************************************************)
EXTENDS Integers, SequencesExt

Balance(lot) == lot.paid + lot.bonus

Positive(n) == IF n > 0 THEN n ELSE 0

Lesser(m, n) == IF m <= n THEN m ELSE n

NoCredits == [paid |-> 0, bonus |-> 0]

SumOver(S, value(_)) == SumFunctionOnSet([x \in S |-> value(x)], S)

(***************************************************************************)
(* A charge of `total` on one lot keeps the lot's paid : bonus ratio, the   *)
(* paid part rounded down.                                                  *)
(***************************************************************************)
SplitLotProportionally(lot, total) ==
  LET paid == IF Balance(lot) <= 0 THEN 0
              ELSE (total * lot.paid) \div Balance(lot)
  IN  [paid |-> paid, bonus |-> total - paid]

SpendableLots(lots) == {i \in DOMAIN lots : Balance(lots[i]) > 0}

TotalBalance(lots) == SumOver(SpendableLots(lots), LAMBDA i : Balance(lots[i]))

IsLast(lots, i) == \A j \in SpendableLots(lots) : j <= i

(***************************************************************************)
(* The body of candidateLots.forEach: every lot but the last is asked for   *)
(* its rounded-down share, the last for whatever is left, and no lot for    *)
(* more than it has.                                                        *)
(***************************************************************************)
\* (mutation) shares of what is left instead of shares of the charge
AllocateLotOfRemaining(lots, amount, acc, i) ==
  LET share == IF IsLast(lots, i) THEN acc.remaining
               ELSE (acc.remaining * Balance(lots[i])) \div TotalBalance(lots)
      split == SplitLotProportionally(
                 lots[i], Lesser(Balance(lots[i]), Lesser(acc.remaining, share)))
  IN  IF acc.remaining <= 0 \/ i \notin SpendableLots(lots) THEN acc
      ELSE [remaining |-> acc.remaining - split.paid - split.bonus,
            last      |-> i,
            taken     |-> [acc.taken EXCEPT ![i] = split]]

AllocateLot(lots, amount, acc, i) ==
  LET share == IF IsLast(lots, i) THEN acc.remaining
               ELSE (amount * Balance(lots[i])) \div TotalBalance(lots)
      split == SplitLotProportionally(
                 lots[i], Lesser(Balance(lots[i]), Lesser(acc.remaining, share)))
  IN  IF acc.remaining <= 0 \/ i \notin SpendableLots(lots) THEN acc
      ELSE [remaining |-> acc.remaining - split.paid - split.bonus,
            last      |-> i,
            taken     |-> [acc.taken EXCEPT ![i] = split]]

NothingTaken(lots, amount) ==
  [remaining |-> amount, last |-> 0, taken |-> [i \in DOMAIN lots |-> NoCredits]]

\* The whole loop: what it has reached after each lot, and after the last.
AllocateEachLot(lots, amount) ==
  LET after[i \in 0..Len(lots)] ==
        IF i = 0 THEN NothingTaken(lots, amount)
        ELSE AllocateLot(lots, amount, after[i - 1], i)
  IN  after[Len(lots)]

(***************************************************************************)
(* What the loop leaves unallocated goes to the last lot it reached: to the *)
(* paid balance of that lot while there is some, then to the bonus side,    *)
(* without looking at the lot's bonus balance.                              *)
(***************************************************************************)
\* (mutations) the rest is dropped; goes to the paid side only
DropRest(lots, acc) == acc.taken

GiveRestToPaid(lots, acc) ==
  IF acc.remaining > 0 /\ acc.last # 0
  THEN [acc.taken EXCEPT ![acc.last].paid = @ + acc.remaining]
  ELSE acc.taken

GiveRestToLast(lots, acc) ==
  LET headroom == Positive(lots[acc.last].paid - acc.taken[acc.last].paid)
      extra    == Lesser(acc.remaining, headroom)
  IN  IF acc.remaining > 0 /\ acc.last # 0
      THEN [acc.taken EXCEPT
              ![acc.last] = [paid  |-> @.paid + extra,
                             bonus |-> @.bonus + (acc.remaining - extra)]]
      ELSE acc.taken

NormalizeAllocationList(taken) ==
  [i \in DOMAIN taken |->
     IF taken[i].paid > 0 \/ taken[i].bonus > 0 THEN taken[i] ELSE NoCredits]

CanAllocate(lots, amount) == TotalBalance(lots) >= amount

(***************************************************************************)
(* The allocations of a charge; defined when CanAllocate holds (otherwise   *)
(* the source throws INSUFFICIENT_CREDITS).                                 *)
(***************************************************************************)
AllocateAcrossLots(lots, amount) ==
  NormalizeAllocationList(GiveRestToLast(lots, AllocateEachLot(lots, amount)))

(***************************************************************************)
(* The same allocation in closed form, for a function `lots` from the ids   *)
(* of the candidate lots to their balances, of which `last` is the newest:  *)
(* `total` is the sum of the balances, and `rest` what the rounded-down     *)
(* shares of the other lots leave to the last one.                          *)
(***************************************************************************)
FloorShare(lots, total, amount, d) ==
  (amount * Balance(lots[d])) \div total

RestOfCharge(lots, total, last, amount) ==
  amount - SumOver(DOMAIN lots \ {last},
                   LAMBDA d : FloorShare(lots, total, amount, d))

LastShare(lot, rest) ==
  LET split == SplitLotProportionally(lot, Lesser(Balance(lot), rest))
  IN  [split EXCEPT !.bonus = @ + (rest - Lesser(Balance(lot), rest))]

ProportionalAllocation(lots, total, last, rest, amount) ==
  [d \in DOMAIN lots |->
     IF d = last
     THEN LastShare(lots[d], rest)
     ELSE SplitLotProportionally(lots[d],
                                 FloorShare(lots, total, amount, d))]
=============================================================================
