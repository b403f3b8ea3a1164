------------------------- MODULE CreditLedgerProofs -------------------------
(***************************************************************************)
(* The safety of the prepaid ledger for every set of deposits, messages and *)
(* image requests, in five parts: what an allocation takes from the lots;   *)
(* types, replay, idempotency and the cover of paid holds; the books, which *)
(* balance; that the ledger implements PrepaidAccount; and, for every run   *)
(* of deposits and charges, what the loop of the source takes from the lots, *)
(* which is what the ledger's own charges take.                              *)
(***************************************************************************)
EXTENDS CreditLedger, LotDrain, SumTheorems

(***************************************************************************)
(* Allocation. A lot is never given a negative amount, and never more paid  *)
(* credits than it has, whatever the rounding leaves over; and what the     *)
(* lots are given together is the amount.                                   *)
(***************************************************************************)
LotBalances == [paid : Nat, bonus : Nat]

\* A quotient is at most k when the dividend is at most k divisors.
LEMMA QuotientBound ==
  ASSUME NEW x \in Nat, NEW y \in Nat \ {0}, NEW k \in Nat, x <= k * y
  PROVE  x \div y \in Nat /\ x \div y <= k
<1>1. x \div y \in Int /\ x % y \in 0 .. (y - 1)
      /\ x = y * (x \div y) + (x % y)
  OBVIOUS
<1> QED
  BY <1>1

\* splitLotProportionally cuts a share the lot can pay into two parts that
\* are not negative, the paid part within the lot's paid balance.
LEMMA SplitBound ==
  ASSUME NEW lot \in LotBalances, NEW total \in Nat, total <= Balance(lot)
  PROVE  /\ SplitLotProportionally(lot, total) \in LotBalances
         /\ SplitLotProportionally(lot, total).paid <= lot.paid
<1> DEFINE b == Balance(lot)
           q == (total * lot.paid) \div b
<1>1. lot.paid \in Nat /\ lot.bonus \in Nat /\ b = lot.paid + lot.bonus
  BY DEF LotBalances, Balance
<1>2. CASE b <= 0
  BY <1>1, <1>2 DEF SplitLotProportionally, LotBalances
<1>3. CASE b > 0
  <2>1. total * lot.paid \in Nat /\ b \in Nat \ {0}
    BY <1>1, <1>3
  <2>2. total * lot.paid <= lot.paid * b
    BY <1>1
  <2>3. total * lot.paid <= total * b
    BY <1>1
  <2>4. q \in Nat /\ q <= lot.paid
    BY <1>1, <2>1, <2>2, QuotientBound
  <2>5. q <= total
    BY <2>1, <2>3, QuotientBound
  <2> QED
    BY <1>1, <1>3, <2>4, <2>5 DEF SplitLotProportionally, LotBalances
<1> QED
  BY <1>1, <1>2, <1>3

\* A rounded-down share of a charge the lots can pay is within its lot.
LEMMA FloorShareBound ==
  ASSUME NEW S, NEW open \in [S -> LotBalances], NEW d \in S,
         NEW total \in Nat \ {0}, NEW amount \in Nat, amount <= total
  PROVE  /\ FloorShare(open, total, amount, d) \in Nat
         /\ FloorShare(open, total, amount, d) <= Balance(open[d])
<1>1. Balance(open[d]) \in Nat
  BY DEF Balance, LotBalances
<1>2. amount * Balance(open[d]) \in Nat
      /\ amount * Balance(open[d]) <= Balance(open[d]) * total
  BY <1>1
<1> QED
  BY <1>1, <1>2, QuotientBound DEF FloorShare

\* The last lot takes the rest: from its balance first, and beyond it only on
\* the bonus side.
LEMMA LastShareBound ==
  ASSUME NEW lot \in LotBalances, NEW rest \in Nat
  PROVE  /\ LastShare(lot, rest) \in LotBalances
         /\ LastShare(lot, rest).paid <= lot.paid
<1> DEFINE n == Lesser(Balance(lot), rest)
           s == SplitLotProportionally(lot, n)
<1>1. Balance(lot) \in Nat
  BY DEF Balance, LotBalances
<1>2. n \in Nat /\ n <= Balance(lot) /\ n <= rest
  BY <1>1 DEF Lesser
<1>3. s \in LotBalances /\ s.paid <= lot.paid
  BY <1>2, SplitBound
<1>4. LastShare(lot, rest) = [s EXCEPT !.bonus = @ + (rest - n)]
  BY DEF LastShare
<1> QED
  BY <1>2, <1>3, <1>4 DEF LotBalances

\* The allocation of a charge takes from each lot, on each side, an amount
\* that is not negative, and on the paid side at most what the lot has.
THEOREM ProportionalAllocationBound ==
  ASSUME NEW S, NEW open \in [S -> LotBalances], NEW last \in S,
         NEW total \in Nat \ {0}, NEW amount \in Nat, amount <= total,
         NEW rest \in Nat, NEW d \in S
  PROVE  LET a == ProportionalAllocation(open, total, last, rest, amount)
         IN  a[d] \in LotBalances /\ a[d].paid <= open[d].paid
<1> DEFINE a == ProportionalAllocation(open, total, last, rest, amount)
<1>0. open[d] \in LotBalances /\ DOMAIN open = S
  OBVIOUS
<1>1. CASE d = last
  <2>1. a[d] = LastShare(open[d], rest)
    BY <1>0, <1>1 DEF ProportionalAllocation
  <2> QED
    BY <1>0, <2>1, LastShareBound
<1>2. CASE d # last
  <2>1. a[d] = SplitLotProportionally(open[d], FloorShare(open, total, amount, d))
    BY <1>0, <1>2 DEF ProportionalAllocation
  <2> QED
    BY <1>0, <2>1, FloorShareBound, SplitBound
<1> QED
  BY <1>1, <1>2
-----------------------------------------------------------------------------
\* An allocation's two sides together, and a lot's balance, are numbers.
LEMMA BalanceType ==
  ASSUME NEW lot \in LotBalances
  PROVE  Balance(lot) \in Nat
  BY DEF Balance, LotBalances

\* What the lots of S have together, and what their rounded-down shares are.
TotalOf(S, open) == SumOver(S, LAMBDA d : Balance(open[d]))

SharesOf(S, open, total, amount) ==
  SumOver(S, LAMBDA d : FloorShare(open, total, amount, d))

\* The rounded-down shares of the other lots never exceed the charge: what is
\* left for the last one is not negative.
LEMMA RestBound ==
  ASSUME NEW S, IsFiniteSet(S), NEW open \in [S -> LotBalances], NEW last \in S,
         NEW amount \in Nat \ {0}, NEW total \in Nat,
         amount <= total, total = TotalOf(S, open)
  PROVE  /\ RestOfCharge(open, total, last, amount) \in 0 .. amount
         /\ RestOfCharge(open, total, last, amount)
              = amount - SharesOf(S \ {last}, open, total, amount)
<1> DEFINE O == S \ {last}
           balance == [d \in S |-> Balance(open[d])]
           share == [d \in O |-> FloorShare(open, total, amount, d)]
<1>1. \A d \in S : balance[d] \in Nat
  BY BalanceType
<1>2. total = SumFunctionOnSet(balance, S)
  BY DEF TotalOf, SumOver
<1>3. \A d \in O : share[d] = (amount * balance[d]) \div total
  BY DEF FloorShare
<1>4. RestOfCharge(open, total, last, amount) = amount - SumFunctionOnSet(share, O)
      /\ SharesOf(O, open, total, amount) = SumFunctionOnSet(share, O)
  BY DOMAIN open = S DEF RestOfCharge, SharesOf, SumOver
<1> HIDE DEF balance, share
<1>5. SumFunctionOnSet(share, O) \in 0 .. amount
  BY <1>1, <1>2, <1>3, FloorSharesBound
<1> QED
  BY <1>4, <1>5

\* splitLotProportionally loses nothing of what it splits.
LEMMA SplitTotal ==
  ASSUME NEW lot \in LotBalances, NEW total \in Nat, total <= Balance(lot)
  PROVE  Balance(SplitLotProportionally(lot, total)) = total
<1> DEFINE s == SplitLotProportionally(lot, total)
<1>1. s \in LotBalances
  BY SplitBound
<1>2. s.bonus = total - s.paid
  BY DEF SplitLotProportionally
<1>3. s.paid \in Nat /\ s.bonus \in Nat
  BY <1>1 DEF LotBalances
<1> HIDE DEF s
<1>4. s.paid + s.bonus = total
  BY <1>2, <1>3
<1> QED
  BY <1>4 DEF Balance, s

LEMMA LastShareTotal ==
  ASSUME NEW lot \in LotBalances, NEW rest \in Nat
  PROVE  Balance(LastShare(lot, rest)) = rest
<1> DEFINE n == Lesser(Balance(lot), rest)
           s == SplitLotProportionally(lot, n)
<1>1. Balance(lot) \in Nat
  BY BalanceType
<1>2. n \in Nat /\ n <= Balance(lot) /\ n <= rest
  BY <1>1 DEF Lesser
<1>3. s \in LotBalances /\ Balance(s) = n
  BY <1>2, SplitBound, SplitTotal
<1>4. LastShare(lot, rest) = [s EXCEPT !.bonus = @ + (rest - n)]
  BY DEF LastShare
<1> HIDE DEF n, s
<1>5. s.paid \in Nat /\ s.bonus \in Nat /\ s.paid + s.bonus = n
  BY <1>3 DEF LotBalances, Balance
<1>6. /\ LastShare(lot, rest).paid = s.paid
      /\ LastShare(lot, rest).bonus = s.bonus + (rest - n)
  BY <1>3, <1>4 DEF LotBalances
<1> QED
  BY <1>2, <1>5, <1>6 DEF Balance

\* The allocation of a charge the lots can pay adds up to the charge: the
\* rounded-down shares and the rest the last lot takes lose nothing.
THEOREM ProportionalAllocationTotal ==
  ASSUME NEW S, IsFiniteSet(S), NEW open \in [S -> LotBalances], NEW last \in S,
         NEW amount \in Nat \ {0}, NEW total \in Nat, amount <= total,
         total = TotalOf(S, open),
         NEW rest, rest = RestOfCharge(open, total, last, amount),
         NEW given,
         \A d \in S : given[d] =
           Balance(ProportionalAllocation(open, total, last, rest, amount)[d])
  PROVE  SumFunctionOnSet(given, S) = amount
<1> DEFINE a == ProportionalAllocation(open, total, last, rest, amount)
           O == S \ {last}
           share == [d \in O |-> FloorShare(open, total, amount, d)]
           F == SumFunctionOnSet(share, O)
<1>1. rest \in 0 .. amount /\ rest = amount - F
  <2>1. rest \in 0 .. amount /\ rest = amount - SharesOf(O, open, total, amount)
    BY RestBound
  <2> QED
    BY <2>1 DEF SharesOf, SumOver
<1>2. DOMAIN open = S /\ total \in Nat \ {0} /\ rest \in Nat
  BY <1>1
<1>3. ASSUME NEW d \in O
      PROVE  given[d] = share[d] /\ share[d] \in Int
  <2>1. a[d] = SplitLotProportionally(open[d], FloorShare(open, total, amount, d))
    BY <1>2 DEF ProportionalAllocation
  <2>2. /\ FloorShare(open, total, amount, d) \in Nat
        /\ FloorShare(open, total, amount, d) <= Balance(open[d])
    BY <1>2, FloorShareBound
  <2>3. Balance(a[d]) = FloorShare(open, total, amount, d)
    BY <2>1, <2>2, SplitTotal
  <2> QED
    BY <2>2, <2>3
<1>4. given[last] = rest
  <2>1. a[last] = LastShare(open[last], rest)
    BY <1>2 DEF ProportionalAllocation
  <2> QED
    BY <1>2, <2>1, LastShareTotal
<1> HIDE DEF a, share
<1>5. \A d \in S : given[d] \in Int
  BY <1>2, <1>3, <1>4
<1>6. IsFiniteSet(O)
  BY FS_Subset
<1>7. SumFunctionOnSet(given, O) = F
  BY <1>3, <1>6, SumCongruence
<1>8. F \in Int
  BY <1>3, <1>6, SumType
<1>9. SumFunctionOnSet(given, S) = given[last] + SumFunctionOnSet(given, S \ {last})
  BY <1>5, SumRemove
<1> HIDE DEF F
<1> QED
  BY <1>1, <1>4, <1>7, <1>8, <1>9
-----------------------------------------------------------------------------
(***************************************************************************)
(* The ledger. LedgerReplays is not inductive alone. createLedgerEntry      *)
(* writes nothing under a key that exists, so replay needs that no          *)
(* operation reaches applyCreditMutation with a key already used; for       *)
(* deposits and refunds, which do not look their key up, that is because    *)
(* their row's status records it (StatusRecordsEntries).                    *)
(***************************************************************************)
StatusRecordsEntries ==
  /\ \A d \in Deposits :
       /\ HasEntry("credit", d) => lots[d].status = "credited"
       /\ d \in crediting.deposits => lots[d].status # "credited"
       /\ HasEntry("refund_hold", d) => refunds[d].status # "none"
       /\ HasEntry("refund_debit", d) => refunds[d].status = "settled"
       /\ HasEntry("refund_release", d) => refunds[d].status = "rejected"
  /\ \A r \in ImageRequests : HasEntry("release", r) =>
       task[r] = "failed" /\ ~HasEntry("capture", r)

IInv ==
  /\ TypeOK
  /\ LedgerReplays
  /\ EntryPerKey
  /\ StatusRecordsEntries
  /\ PaidHoldsCovered
-----------------------------------------------------------------------------
\* Balances after a mutation that applyCreditMutation lets through.
LEMMA MutationBalances ==
  ASSUME TypeOK, NEW op \in LedgerOps, NEW amount \in Nat, CanApply(op, amount)
  PROVE  /\ available + AvailableDelta(op, amount) \in Nat
         /\ reserved + ReservedDelta(op, amount) \in Nat
  BY DEF TypeOK, LedgerOps, CanApply, Covers, AvailableDelta, ReservedDelta,
         DrawsAvailable, DrawsReserved

\* A mutation under a new key appends one entry to the ledger: the ledger
\* stays typed, keyed and replayable, and has exactly one key more.
LEMMA MutationStep ==
  ASSUME TypeOK, LedgerReplays, EntryPerKey,
         NEW op \in LedgerOps, NEW source \in Sources, NEW amount \in Nat,
         NEW a \in [Deposits -> Credits],
         ApplyCreditMutation(op, source, amount, a), ~HasEntry(op, source)
  PROVE  /\ available' \in Nat /\ reserved' \in Nat /\ ledger' \in Seq(Entries)
         /\ LedgerReplays' /\ EntryPerKey'
         /\ \A o, s : HasEntry(o, s)' <=> HasEntry(o, s) \/ (o = op /\ s = source)
<1> DEFINE new == [op |-> op, source |-> source, amount |-> amount,
                   availableAfter |-> available + AvailableDelta(op, amount),
                   reservedAfter |-> reserved + ReservedDelta(op, amount),
                   allocations |-> a]
           n == Len(ledger)
<1>1. new \in Entries
  BY MutationBalances DEF Entries, ApplyCreditMutation
<1>2. ledger' = Append(ledger, new)
  BY DEF ApplyCreditMutation, CreateLedgerEntry
<1>3. available' = new.availableAfter /\ reserved' = new.reservedAfter
  BY DEF ApplyCreditMutation
<1>4. ledger \in Seq(Entries) /\ n \in Nat /\ DOMAIN ledger = 1 .. n
  BY DEF TypeOK
<1> HIDE DEF new
<1>5. /\ ledger' \in Seq(Entries) /\ DOMAIN ledger' = 1 .. (n + 1)
      /\ Len(ledger') = n + 1 /\ ledger'[n + 1] = new
      /\ \A i \in 1 .. n : ledger'[i] = ledger[i]
  BY <1>1, <1>2, <1>4
<1>6. available' \in Nat /\ reserved' \in Nat
  BY <1>1, <1>3 DEF Entries
<1>7. new.op = op /\ new.source = source /\ new.amount = amount
      /\ new.availableAfter = available + AvailableDelta(op, amount)
      /\ new.reservedAfter = reserved + ReservedDelta(op, amount)
  BY DEF new
<1>8. \A o, s : HasEntry(o, s) <=> \E i \in 1 .. n : ledger[i].op = o /\ ledger[i].source = s
  BY <1>4 DEF HasEntry, LedgerEntries, IsEntry
<1>9. \A o, s : HasEntry(o, s)' <=> \E i \in 1 .. (n + 1) :
                                      ledger'[i].op = o /\ ledger'[i].source = s
  BY <1>5 DEF HasEntry, LedgerEntries, IsEntry
<1>10. \A o, s : HasEntry(o, s)' <=> HasEntry(o, s) \/ (o = op /\ s = source)
  <2>1. 1 .. (n + 1) = (1 .. n) \union {n + 1}
    BY <1>4
  <2> QED
    BY <1>5, <1>7, <1>8, <1>9, <2>1
<1>11. EntryPerKey'
  <2> SUFFICES ASSUME NEW i \in 1 .. (n + 1), NEW j \in 1 .. (n + 1),
                      ledger'[i].op = ledger'[j].op,
                      ledger'[i].source = ledger'[j].source
               PROVE  i = j
    BY <1>5 DEF EntryPerKey
  <2>1. CASE i \in 1 .. n /\ j \in 1 .. n
    BY <1>4, <1>5, <2>1 DEF EntryPerKey
  <2>2. CASE i \in 1 .. n /\ j = n + 1
    BY <1>5, <1>7, <1>8, <2>2
  <2>3. CASE i = n + 1 /\ j \in 1 .. n
    BY <1>5, <1>7, <1>8, <2>3
  <2> QED
    BY <1>4, <2>1, <2>2, <2>3
<1>12. LedgerReplays'
  <2>1. /\ available' = ledger'[Len(ledger')].availableAfter
        /\ reserved' = ledger'[Len(ledger')].reservedAfter
        /\ ledger' # << >>
    BY <1>3, <1>5
  <2>2. /\ available = IF n = 0 THEN 0 ELSE ledger[n].availableAfter
        /\ reserved = IF n = 0 THEN 0 ELSE ledger[n].reservedAfter
    BY <1>4 DEF LedgerReplays
  <2>3. ASSUME NEW i \in 1 .. (n + 1)
        PROVE  /\ ledger'[i].availableAfter =
                    (IF i = 1 THEN 0 ELSE ledger'[i - 1].availableAfter)
                      + AvailableDelta(ledger'[i].op, ledger'[i].amount)
               /\ ledger'[i].reservedAfter =
                    (IF i = 1 THEN 0 ELSE ledger'[i - 1].reservedAfter)
                      + ReservedDelta(ledger'[i].op, ledger'[i].amount)
    <3>1. CASE i = n + 1
      <4>1. CASE n = 0
        BY <1>5, <1>7, <2>2, <3>1, <4>1
      <4>2. CASE n # 0
        <5>1. i # 1 /\ i - 1 = n /\ n \in 1 .. n
          BY <1>4, <3>1, <4>2
        <5> QED
          BY <1>5, <1>7, <2>2, <3>1, <4>2, <5>1
      <4> QED
        BY <4>1, <4>2
    <3>2. CASE i \in 1 .. n
      <4>1. i = 1 \/ i - 1 \in 1 .. n
        BY <1>4, <3>2
      <4> QED
        BY <1>4, <1>5, <3>2, <4>1 DEF LedgerReplays
    <3> QED
      BY <1>4, <3>1, <3>2
  <2> QED
    BY <1>5, <2>1, <2>3 DEF LedgerReplays
<1> QED
  BY <1>5, <1>6, <1>10, <1>11, <1>12
-----------------------------------------------------------------------------
\* The spendable part of a lot: never negative, and exactly what is not held
\* when less is held than remains.
LEMMA SpendableLotType ==
  ASSUME TypeOK, PaidHoldsCovered, NEW d \in Deposits
  PROVE  /\ SpendableLot(d) \in Credits
         /\ SpendableLot(d).paid = lots[d].remainingPaid - lots[d].heldPaid
<1>1. lots[d] \in LotRows
  BY DEF TypeOK
<1>2. lots[d].remainingPaid \in Int /\ lots[d].heldPaid \in Int
      /\ lots[d].remainingBonus \in Int /\ lots[d].heldBonus \in Int
  BY <1>1 DEF LotRows
<1> QED
  BY <1>2 DEF SpendableLot, Positive, Credits, PaidHoldsCovered

\* The lots a charge may draw on, and the allocations of it.
LEMMA AllocationParts ==
  ASSUME TypeOK, PaidHoldsCovered, NEW amount \in Nat \ {0},
         NEW a \in Allocations(amount)
  PROVE  \E candidates \in [CandidateLots -> LotBalances], last \in CandidateLots,
            total \in Nat, rest \in 0 .. amount :
           /\ CandidateLots \subseteq Deposits /\ IsFiniteSet(CandidateLots)
           /\ \A d \in CandidateLots : candidates[d] = SpendableLot(d)
           /\ total = TotalOf(CandidateLots, candidates) /\ amount <= total
           /\ rest = RestOfCharge(candidates, total, last, amount)
           /\ a = [d \in Deposits |->
                     IF d \in CandidateLots
                     THEN ProportionalAllocation(candidates, total, last, rest, amount)[d]
                     ELSE NoCredits]
<1> DEFINE candidates == [d \in CandidateLots |-> SpendableLot(d)]
           total == SumOver(CandidateLots, LAMBDA d : Balance(candidates[d]))
           rest(last) == RestOfCharge(candidates, total, last, amount)
<1>1. CandidateLots \subseteq Deposits /\ IsFiniteSet(CandidateLots)
  BY CreditLedgerAssumption, FS_Subset DEF CandidateLots
<1>2. candidates \in [CandidateLots -> LotBalances]
  BY <1>1, SpendableLotType DEF LotBalances, Credits
<1>3. PICK last \in CandidateLots :
        total >= amount /\ a = AllocationWith(last, total, rest(last), amount)
  BY DEF Allocations
<1>4. a = [d \in Deposits |->
             IF d \in CandidateLots
             THEN ProportionalAllocation(candidates, total, last, rest(last), amount)[d]
             ELSE NoCredits]
  BY <1>3 DEF AllocationWith
<1>5. \A d \in CandidateLots : candidates[d] = SpendableLot(d)
  OBVIOUS
<1>6. total = TotalOf(CandidateLots, candidates)
  BY DEF TotalOf
<1>7. total \in Nat
  <2> DEFINE w == [d \in CandidateLots |-> Balance(candidates[d])]
  <2>1. \A d \in CandidateLots : w[d] \in Nat
    BY <1>2, BalanceType
  <2> HIDE DEF w
  <2>2. SumFunctionOnSet(w, CandidateLots) \in Nat
    BY <1>1, <2>1, SumNat
  <2> QED
    BY <2>2 DEF w, SumOver
<1> HIDE DEF candidates, total
<1>8. amount <= total
  BY <1>3, <1>7
<1>9. rest(last) \in 0 .. amount
  BY <1>1, <1>2, <1>3, <1>6, <1>7, <1>8, RestBound
<1> QED
  BY <1>1, <1>2, <1>3, <1>4, <1>5, <1>6, <1>7, <1>8, <1>9

\* The allocation of a charge takes nothing negative, from no deposit more
\* paid credits than may be spent, and altogether the amount of the charge.
LEMMA AllocationsBound ==
  ASSUME TypeOK, PaidHoldsCovered, NEW amount \in Nat \ {0},
         NEW a \in Allocations(amount)
  PROVE  /\ a \in [Deposits -> Credits]
         /\ \A d \in Deposits : a[d].paid <= SpendableLot(d).paid
         /\ TotalOf(Deposits, a) = amount
<1>1. PICK candidates \in [CandidateLots -> LotBalances], last \in CandidateLots,
           total \in Nat, rest \in 0 .. amount :
        /\ CandidateLots \subseteq Deposits /\ IsFiniteSet(CandidateLots)
        /\ \A d \in CandidateLots : candidates[d] = SpendableLot(d)
        /\ total = TotalOf(CandidateLots, candidates) /\ amount <= total
        /\ rest = RestOfCharge(candidates, total, last, amount)
        /\ a = [d \in Deposits |->
                  IF d \in CandidateLots
                  THEN ProportionalAllocation(candidates, total, last, rest, amount)[d]
                  ELSE NoCredits]
  BY AllocationParts
<1>2. rest \in Nat /\ total \in Nat \ {0}
  BY <1>1
<1> DEFINE shares == ProportionalAllocation(candidates, total, last, rest, amount)
<1>3. ASSUME NEW d \in CandidateLots
      PROVE  shares[d] \in LotBalances /\ shares[d].paid <= candidates[d].paid
  BY <1>1, <1>2, ProportionalAllocationBound
<1>4. a = [d \in Deposits |-> IF d \in CandidateLots THEN shares[d] ELSE NoCredits]
  BY <1>1
<1> DEFINE given == [d \in Deposits |-> Balance(a[d])]
<1>5. SumFunctionOnSet(given, CandidateLots) = amount
  <2>1. \A d \in CandidateLots : given[d] = Balance(shares[d])
    BY <1>1, <1>4
  <2> HIDE DEF given
  <2> QED
    BY <1>1, <2>1, ProportionalAllocationTotal
<1> HIDE DEF shares
<1>6. ASSUME NEW d \in Deposits
      PROVE  /\ a[d] \in Credits /\ a[d].paid <= SpendableLot(d).paid
             /\ d \notin CandidateLots => given[d] = 0
  <2>1. CASE d \in CandidateLots
    BY <1>1, <1>3, <1>4, <2>1 DEF LotBalances, Credits
  <2>2. CASE d \notin CandidateLots
    <3>1. a[d] = NoCredits
      BY <1>4, <2>2
    <3> QED
      BY <3>1, SpendableLotType DEF NoCredits, Credits, Balance
  <2> QED
    BY <2>1, <2>2
<1>7. \A d \in Deposits : given[d] \in Int
  BY <1>6, BalanceType DEF LotBalances, Credits
<1>8. TotalOf(Deposits, a) = SumFunctionOnSet(given, Deposits)
  BY DEF TotalOf, SumOver
<1> HIDE DEF given
<1>9. SumFunctionOnSet(given, Deposits) = SumFunctionOnSet(given, CandidateLots)
  <2>1. IsFiniteSet(Deposits) /\ CandidateLots \in SUBSET Deposits
    BY <1>1, CreditLedgerAssumption
  <2>2. \A d \in Deposits \ CandidateLots : given[d] = 0
    BY <1>6
  <2> QED
    BY <1>7, <2>1, <2>2, SumSupport
<1> QED
  BY <1>4, <1>5, <1>6, <1>8, <1>9

LotsKept == /\ lots' \in [Deposits -> LotRows]
            /\ PaidHoldsCovered'
            /\ \A d \in Deposits : lots'[d].status = lots[d].status

\* A lot whose remaining moves by dx and held by dy stays covered when the
\* move does not exceed its slack.
LEMMA CoverKept ==
  ASSUME NEW r \in Int, NEW h \in Int, NEW bought \in Int,
         NEW dx \in Int, NEW dy \in Int,
         dx <= 0, dy - dx <= r - h, r <= bought
  PROVE  h + dy <= r + dx /\ r + dx <= bought
  OBVIOUS

\* Lots stay covered under any adjustment that moves what is held no further
\* up, relative to what remains, than the lot's spendable paid credits.
LEMMA AdjustLotsKeeps ==
  ASSUME TypeOK, PaidHoldsCovered, NEW a \in [Deposits -> Credits],
         NEW x \in {-1, 0}, NEW y \in {-1, 0, 1},
         \A d \in Deposits : (y - x) * a[d].paid <= SpendableLot(d).paid,
         AdjustLots(a, x, y)
  PROVE  LotsKept
<1>1. ASSUME NEW d \in Deposits
      PROVE  /\ lots'[d] \in LotRows
             /\ lots'[d].status = lots[d].status
             /\ lots'[d].heldPaid <= lots'[d].remainingPaid
             /\ lots'[d].remainingPaid <= lots'[d].paidCredits
  <2> DEFINE l == lots[d]
             p == a[d].paid
             b == a[d].bonus
  <2>1. /\ l \in LotRows /\ p \in Nat /\ b \in Nat
        /\ l.heldPaid <= l.remainingPaid /\ l.remainingPaid <= l.paidCredits
        /\ (y - x) * p <= l.remainingPaid - l.heldPaid
    BY SpendableLotType DEF TypeOK, Credits, PaidHoldsCovered
  <2>2. /\ l.remainingPaid \in Int /\ l.remainingBonus \in Int
        /\ l.heldPaid \in Int /\ l.heldBonus \in Int /\ l.paidCredits \in Nat
    BY <2>1 DEF LotRows
  <2>3. /\ x * p \in Int /\ x * b \in Int /\ y * p \in Int /\ y * b \in Int
        /\ x * p <= 0 /\ y * p - x * p = (y - x) * p /\ (y - x) * p \in Int
    <3>1. p \in Nat /\ b \in Nat /\ x \in Int /\ y \in Int
      BY <2>1
    <3>2. x = 0 \/ x = -1
      OBVIOUS
    <3>3. y = 0 \/ y = -1 \/ y = 1
      OBVIOUS
    <3> HIDE DEF p, b
    <3> QED
      BY <3>1, <3>2, <3>3, SMTT(30)
  <2> DEFINE rp == l.remainingPaid + x * p
             rb == l.remainingBonus + x * b
             hp == l.heldPaid + y * p
             hb == l.heldBonus + y * b
  <2>4. lots'[d] = [l EXCEPT !.remainingPaid = rp, !.remainingBonus = rb,
                             !.heldPaid = hp, !.heldBonus = hb]
    BY DEF AdjustLots
  <2> HIDE DEF l, p, b
  <2>5. rp \in Int /\ rb \in Int /\ hp \in Int /\ hb \in Int
        /\ hp <= rp /\ rp <= l.paidCredits
    <3>1. rp \in Int /\ rb \in Int /\ hp \in Int /\ hb \in Int
      BY <2>2, <2>3
    <3>2. x * p \in Int /\ y * p \in Int /\ x * p <= 0
          /\ y * p - x * p <= l.remainingPaid - l.heldPaid
          /\ l.remainingPaid <= l.paidCredits
      BY <2>1, <2>3
    <3> QED
      BY <2>2, <3>1, <3>2, CoverKept
  <2> HIDE DEF rp, rb, hp, hb
  <2>6. /\ lots'[d] \in LotRows
        /\ lots'[d].remainingPaid = rp /\ lots'[d].heldPaid = hp
        /\ lots'[d].status = l.status /\ lots'[d].paidCredits = l.paidCredits
    <3> DEFINE m == [l EXCEPT !.remainingPaid = rp, !.remainingBonus = rb,
                              !.heldPaid = hp, !.heldBonus = hb]
    <3>1. l \in LotRows /\ rp \in Int /\ rb \in Int /\ hp \in Int /\ hb \in Int
      BY <2>1, <2>5
    <3>2. /\ m \in LotRows /\ m.remainingPaid = rp /\ m.heldPaid = hp
          /\ m.status = l.status /\ m.paidCredits = l.paidCredits
      BY <3>1 DEF LotRows
    <3> QED
      BY <2>4, <3>2
  <2> QED
    BY <2>5, <2>6 DEF l
<1>2. lots' = [d \in Deposits |-> lots'[d]]
  BY DEF AdjustLots
<1> QED
  BY <1>1, <1>2 DEF LotsKept, PaidHoldsCovered

\* Spending or holding what is spendable keeps the holds covered; so does
\* undoing or spending a hold, which moves held and remaining together.
LEMMA LotUpdates ==
  ASSUME TypeOK, PaidHoldsCovered, NEW a \in [Deposits -> Credits]
  PROVE  /\ (\A d \in Deposits : a[d].paid <= SpendableLot(d).paid) =>
              /\ UpdateLotsForSpend(a) => LotsKept
              /\ UpdateLotsForHold(a) => LotsKept
         /\ UpdateLotsForRelease(a) => LotsKept
         /\ UpdateLotsForCapture(a) => LotsKept
<1>1. \A d \in Deposits : a[d].paid \in Nat /\ SpendableLot(d).paid \in Nat
  BY SpendableLotType DEF Credits
<1>2. ASSUME \A d \in Deposits : a[d].paid <= SpendableLot(d).paid,
             UpdateLotsForSpend(a)
      PROVE  LotsKept
  <2>1. \A d \in Deposits : (0 - (-1)) * a[d].paid <= SpendableLot(d).paid
    BY <1>1, <1>2
  <2> QED
    BY <1>2, <2>1, AdjustLotsKeeps DEF UpdateLotsForSpend
<1>3. ASSUME \A d \in Deposits : a[d].paid <= SpendableLot(d).paid,
             UpdateLotsForHold(a)
      PROVE  LotsKept
  <2>1. \A d \in Deposits : (1 - 0) * a[d].paid <= SpendableLot(d).paid
    BY <1>1, <1>3
  <2> QED
    BY <1>3, <2>1, AdjustLotsKeeps DEF UpdateLotsForHold
<1>4. ASSUME UpdateLotsForRelease(a) PROVE LotsKept
  <2>1. \A d \in Deposits : (-1 - 0) * a[d].paid <= SpendableLot(d).paid
    BY <1>1
  <2> QED
    BY <1>4, <2>1, AdjustLotsKeeps DEF UpdateLotsForRelease
<1>5. ASSUME UpdateLotsForCapture(a) PROVE LotsKept
  <2>1. \A d \in Deposits : (-1 - (-1)) * a[d].paid <= SpendableLot(d).paid
    BY <1>1
  <2> QED
    BY <1>5, <2>1, AdjustLotsKeeps DEF UpdateLotsForCapture
<1> QED
  BY <1>2, <1>3, <1>4, <1>5
-----------------------------------------------------------------------------
\* A step that leaves the account and the ledger alone.
LEMMA LedgerKept ==
  ASSUME LedgerReplays, EntryPerKey, UNCHANGED <<available, reserved, ledger>>
  PROVE  /\ LedgerReplays' /\ EntryPerKey'
         /\ \A o, s : HasEntry(o, s)' <=> HasEntry(o, s)
  BY DEF LedgerReplays, EntryPerKey, HasEntry, LedgerEntries, IsEntry

LEMMA InitIInv == Init => IInv
<1> SUFFICES ASSUME Init PROVE IInv
  OBVIOUS
<1>1. ledger = << >> /\ DOMAIN ledger = {}
  BY DEF Init
<1>2. \A o, s : ~HasEntry(o, s)
  BY <1>1 DEF HasEntry, LedgerEntries
<1>3. NoLot \in LotRows
  BY DEF NoLot, LotRows, LotStatus
<1>4. TypeOK
  BY <1>3 DEF Init, TypeOK, Refunds, RefundStatus
<1>5. LedgerReplays /\ EntryPerKey
  BY <1>1 DEF Init, LedgerReplays, EntryPerKey
<1>6. StatusRecordsEntries
  BY <1>2 DEF Init, StatusRecordsEntries
<1>7. PaidHoldsCovered
  BY DEF Init, PaidHoldsCovered, NoLot
<1> QED
  BY <1>4, <1>5, <1>6, <1>7 DEF IInv

\* A deposit that is not credited yet may be recorded or change its status.
LEMMA RecordTransferType ==
  ASSUME TypeOK, PaidHoldsCovered, NEW d \in Deposits,
         NEW asset \in Assets, NEW amount \in Amounts,
         NEW status \in LotStatus
  PROVE  LET row == [RecordTransfer(d, asset, amount) EXCEPT !.status = status]
         IN  /\ row \in LotRows /\ row.status = status
             /\ row.heldPaid <= row.remainingPaid
             /\ row.remainingPaid <= row.paidCredits
<1>1. lots[d] \in LotRows /\ amount \in Nat
  BY CreditLedgerAssumption DEF TypeOK
<1>2. lots[d].heldPaid <= lots[d].remainingPaid /\ lots[d].remainingPaid <= lots[d].paidCredits
  BY DEF PaidHoldsCovered
<1> DEFINE old == RecordTransfer(d, asset, amount)
<1>3. old \in LotRows /\ old.heldPaid <= old.remainingPaid
      /\ old.remainingPaid <= old.paidCredits
  <2>1. CASE lots[d].status = "absent"
    <3>1. old = [NoLot EXCEPT !.asset = asset, !.amount = amount]
      BY <2>1 DEF RecordTransfer
    <3> HIDE DEF old
    <3>2. old = [status |-> "absent", asset |-> asset, amount |-> amount,
                 paidCredits |-> 0, bonusCredits |-> 0,
                 remainingPaid |-> 0, remainingBonus |-> 0,
                 heldPaid |-> 0, heldBonus |-> 0, creditedAt |-> 0]
      BY <3>1 DEF NoLot
    <3>3. amount \in Nat /\ asset \in Assets \union {"none"} /\ "absent" \in LotStatus
      BY <1>1 DEF LotStatus
    <3> QED
      BY <3>2, <3>3 DEF LotRows
  <2>2. CASE lots[d].status # "absent"
    BY <1>1, <1>2, <2>2 DEF RecordTransfer
  <2> QED
    BY <2>1, <2>2
<1> HIDE DEF old
<1>4. LET row == [old EXCEPT !.status = status]
      IN  /\ row \in LotRows /\ row.status = status
          /\ row.heldPaid <= row.remainingPaid
          /\ row.remainingPaid <= row.paidCredits
  BY <1>3 DEF LotRows
<1> QED
  BY <1>4 DEF old

\* Only the status of rows that are not credited changes, and none of the rows
\* to credit next is credited.
LEMMA IngestKeeps ==
  ASSUME IInv, NEW pool \in SUBSET Deposits,
         lots' \in [Deposits -> LotRows], PaidHoldsCovered',
         \A c \in Deposits : c \notin pool => lots'[c] = lots[c],
         \A c \in pool : lots[c].status # "credited" /\ lots'[c].status # "credited",
         crediting' \in [deposits : SUBSET pool, price : Nat],
         UNCHANGED <<available, reserved, ledger, refunds, task>>
  PROVE  IInv'
<1>1. /\ LedgerReplays' /\ EntryPerKey'
      /\ \A o, s : HasEntry(o, s)' <=> HasEntry(o, s)
  BY LedgerKept DEF IInv
<1>2. TypeOK'
  BY DEF IInv, TypeOK
<1>3. StatusRecordsEntries'
  BY <1>1 DEF IInv, StatusRecordsEntries
<1> QED
  BY <1>1, <1>2, <1>3 DEF IInv

LEMMA IngestUnconfirmedKeeps ==
  ASSUME IInv, NEW d \in Deposits, NEW asset \in Assets, NEW amount \in Amounts,
         lots[d].status # "credited", IngestUnconfirmed(d, asset, amount)
  PROVE  IInv'
<1> DEFINE row == [RecordTransfer(d, asset, amount) EXCEPT !.status = "confirming"]
<1>1. /\ row \in LotRows /\ row.status = "confirming"
      /\ row.heldPaid <= row.remainingPaid /\ row.remainingPaid <= row.paidCredits
  BY RecordTransferType DEF IInv, LotStatus
<1>2. lots \in [Deposits -> LotRows] /\ crediting \in [deposits : SUBSET Deposits, price : Nat]
  BY DEF IInv, TypeOK
<1>3. lots' = [lots EXCEPT ![d] = row]
  BY DEF IngestUnconfirmed
<1> HIDE DEF row
<1>4. lots' \in [Deposits -> LotRows] /\ lots'[d] = row
      /\ \A c \in Deposits : c \notin {d} => lots'[c] = lots[c]
  BY <1>1, <1>2, <1>3
<1>5. PaidHoldsCovered'
  BY <1>1, <1>4 DEF IInv, PaidHoldsCovered
<1>6. crediting' \in [deposits : SUBSET {d}, price : Nat]
  BY <1>2 DEF IngestUnconfirmed, NoOpenTransaction
<1>7. UNCHANGED <<available, reserved, ledger, refunds, task>>
  BY DEF IngestUnconfirmed
<1>8. /\ {d} \in SUBSET Deposits
      /\ \A c \in {d} : lots[c].status # "credited" /\ lots'[c].status # "credited"
  BY <1>1, <1>4
<1> QED
  BY <1>4, <1>5, <1>6, <1>7, <1>8, IngestKeeps

LEMMA IngestConfirmedKeeps ==
  ASSUME IInv, NEW d \in Deposits, NEW asset \in Assets, NEW amount \in Amounts,
         NEW price \in Prices \union {1},
         lots[d].status # "credited", IngestConfirmed(d, asset, amount, price)
  PROVE  IInv'
<1> DEFINE mine == [RecordTransfer(d, asset, amount) EXCEPT !.status = "confirmed"]
           pool == {d} \union {c \in Deposits : lots[c].status \in {"confirmed", "below_minimum"}
                                                /\ lots[c].asset = mine.asset}
           row(c) == IF c = d THEN mine ELSE lots[c]
           totalUsd == SumOver(pool, LAMBDA c : row(c).amount * price)
           status == IF totalUsd < MinTopUp THEN "below_minimum" ELSE "confirmed"
<1>1. /\ mine \in LotRows
      /\ mine.heldPaid <= mine.remainingPaid /\ mine.remainingPaid <= mine.paidCredits
  BY RecordTransferType DEF IInv, LotStatus
<1>2. lots \in [Deposits -> LotRows] /\ crediting \in [deposits : SUBSET Deposits, price : Nat]
  BY DEF IInv, TypeOK
<1>3. lots' = [c \in Deposits |-> IF c \in pool
                                  THEN [row(c) EXCEPT !.status = status]
                                  ELSE lots[c]]
  BY DEF IngestConfirmed
<1>4. crediting' = IF totalUsd < MinTopUp
                   THEN crediting
                   ELSE [deposits |-> pool, price |-> price]
  BY DEF IngestConfirmed
<1>5. pool \subseteq Deposits /\ \A c \in pool : lots[c].status # "credited"
  OBVIOUS
<1>6. status \in {"below_minimum", "confirmed"}
  OBVIOUS
<1>7. ASSUME NEW c \in Deposits
      PROVE  /\ row(c) \in LotRows
             /\ row(c).heldPaid <= row(c).remainingPaid
             /\ row(c).remainingPaid <= row(c).paidCredits
  BY <1>1, <1>2 DEF IInv, PaidHoldsCovered
<1>8. price \in Nat /\ crediting.deposits = {}
  <2>1. price \in Nat
    BY CreditLedgerAssumption
  <2>2. crediting.deposits = {}
    BY DEF IngestConfirmed, NoOpenTransaction
  <2> QED
    BY <2>1, <2>2
<1> HIDE DEF mine, pool, row, totalUsd, status
<1>9. ASSUME NEW c \in Deposits
      PROVE  /\ lots'[c] \in LotRows
             /\ lots'[c].heldPaid <= lots'[c].remainingPaid
             /\ lots'[c].remainingPaid <= lots'[c].paidCredits
             /\ c \in pool => lots'[c].status # "credited"
             /\ c \notin pool => lots'[c] = lots[c]
  <2>1. CASE c \in pool
    <3>1. lots'[c] = [row(c) EXCEPT !.status = status]
      BY <1>3, <2>1
    <3> QED
      BY <1>6, <1>7, <2>1, <3>1 DEF LotRows, LotStatus
  <2>2. CASE c \notin pool
    BY <1>2, <1>3, <2>2 DEF IInv, PaidHoldsCovered
  <2> QED
    BY <2>1, <2>2
<1>10. lots' \in [Deposits -> LotRows]
  BY <1>3, <1>9
<1>11. PaidHoldsCovered'
  BY <1>9 DEF PaidHoldsCovered
<1>12. crediting' \in [deposits : SUBSET pool, price : Nat]
  BY <1>2, <1>4, <1>8
<1>13. UNCHANGED <<available, reserved, ledger, refunds, task>>
  BY DEF IngestConfirmed
<1> QED
  BY <1>5, <1>9, <1>10, <1>11, <1>12, <1>13, IngestKeeps
-----------------------------------------------------------------------------
\* Every operation that writes the ledger keeps the invariant, given that it
\* keeps the lots covered and the statuses in step with the new entry.
LEMMA MutationKeeps ==
  ASSUME IInv, NEW op \in LedgerOps, NEW source \in Sources, NEW amount \in Nat,
         NEW a \in [Deposits -> Credits],
         ApplyCreditMutation(op, source, amount, a), ~HasEntry(op, source),
         lots' \in [Deposits -> LotRows], PaidHoldsCovered',
         crediting' \in [deposits : SUBSET Deposits, price : Nat],
         refunds' \in [Deposits -> Refunds],
         task' \in [ImageRequests -> {"idle", "running", "failed"}],
         (\A o, s : HasEntry(o, s)' <=> HasEntry(o, s) \/ (o = op /\ s = source))
            => StatusRecordsEntries'
  PROVE  IInv'
<1>1. /\ available' \in Nat /\ reserved' \in Nat /\ ledger' \in Seq(Entries)
      /\ LedgerReplays' /\ EntryPerKey'
      /\ \A o, s : HasEntry(o, s)' <=> HasEntry(o, s) \/ (o = op /\ s = source)
  BY MutationStep DEF IInv
<1>2. TypeOK'
  BY <1>1 DEF TypeOK
<1> QED
  BY <1>1, <1>2 DEF IInv

LEMMA OnDepositType ==
  ASSUME NEW d \in Deposits, NEW c \in Credits
  PROVE  /\ OnDeposit(d, c) \in [Deposits -> Credits]
         /\ \A e \in Deposits : OnDeposit(d, c)[e] = IF e = d THEN c ELSE NoCredits
  BY DEF OnDeposit, NoCredits, Credits

LEMMA CreditCandidateKeeps ==
  ASSUME IInv, NEW d \in Deposits, CreditCandidate(d)
  PROVE  IInv'
<1> DEFINE paid == lots[d].amount * crediting.price
           bonus == BonusFor(lots[d].asset, paid)
           credit == [paid |-> paid, bonus |-> bonus]
           at == Len(ledger) + 1
           row == [status |-> "credited",
                   asset |-> lots[d].asset, amount |-> lots[d].amount,
                   paidCredits |-> paid, bonusCredits |-> bonus,
                   remainingPaid |-> paid, remainingBonus |-> bonus,
                   heldPaid |-> 0, heldBonus |-> 0, creditedAt |-> at]
<1>1. /\ d \in crediting.deposits
      /\ crediting' = [crediting EXCEPT !.deposits = @ \ {d}]
      /\ lots' = [lots EXCEPT ![d] = row]
      /\ ApplyCreditMutation("credit", d, paid + bonus, OnDeposit(d, credit))
      /\ UNCHANGED <<refunds, task>>
  BY DEF CreditCandidate
<1>2. /\ lots \in [Deposits -> LotRows] /\ lots[d] \in LotRows
      /\ crediting \in [deposits : SUBSET Deposits, price : Nat]
      /\ refunds \in [Deposits -> Refunds]
      /\ task \in [ImageRequests -> {"idle", "running", "failed"}]
      /\ at \in Nat
  BY DEF IInv, TypeOK
<1>3. paid \in Nat
  <2>1. lots[d].amount \in Nat /\ crediting.price \in Nat
    BY <1>2 DEF LotRows
  <2> QED
    BY <2>1
<1> HIDE DEF paid
<1>4. bonus \in Nat
  BY <1>3 DEF BonusFor
<1> HIDE DEF bonus, at
<1>5. credit \in Credits /\ paid + bonus \in Nat
  BY <1>3, <1>4 DEF Credits
<1>6. /\ row \in LotRows /\ row.status = "credited"
      /\ row.heldPaid <= row.remainingPaid /\ row.remainingPaid <= row.paidCredits
  <2>1. "credited" \in LotStatus
    BY DEF LotStatus
  <2> QED
    BY <1>2, <1>3, <1>4, <2>1 DEF LotRows
<1> HIDE DEF row, credit
<1>7. /\ lots' \in [Deposits -> LotRows] /\ lots'[d] = row
      /\ \A c \in Deposits : c # d => lots'[c] = lots[c]
  BY <1>1, <1>2, <1>6
<1>8. PaidHoldsCovered'
  BY <1>6, <1>7 DEF IInv, PaidHoldsCovered
<1>9. crediting' \in [deposits : SUBSET Deposits, price : Nat]
      /\ crediting'.deposits = crediting.deposits \ {d}
  BY <1>1, <1>2
<1>10. lots[d].status # "credited" /\ ~HasEntry("credit", d)
  BY <1>1 DEF IInv, StatusRecordsEntries
<1>11. ASSUME \A o, s : HasEntry(o, s)' <=> HasEntry(o, s) \/ (o = "credit" /\ s = d)
       PROVE  StatusRecordsEntries'
  BY <1>1, <1>6, <1>7, <1>9, <1>11 DEF IInv, StatusRecordsEntries
<1>12. "credit" \in LedgerOps /\ d \in Sources
  BY DEF LedgerOps, Sources
<1>13. OnDeposit(d, credit) \in [Deposits -> Credits]
  BY <1>5, OnDepositType
<1> QED
  BY <1>1, <1>2, <1>5, <1>7, <1>8, <1>9, <1>10, <1>11, <1>12, <1>13, MutationKeeps

LEMMA SettleChatUsageChargeKeeps ==
  ASSUME IInv, NEW m \in Messages, NEW amount \in Charges,
         SettleChatUsageCharge(m, amount)
  PROVE  IInv'
<1>1. PICK a \in Allocations(amount) :
        UpdateLotsForSpend(a) /\ ApplyCreditMutation("debit", m, amount, a)
  BY DEF SettleChatUsageCharge
<1>2. ~HasEntry("debit", m) /\ UNCHANGED <<crediting, refunds, task>>
  BY DEF SettleChatUsageCharge
<1>3. amount \in Nat \ {0} /\ "debit" \in LedgerOps /\ m \in Sources
  BY CreditLedgerAssumption DEF LedgerOps, Sources
<1>4. a \in [Deposits -> Credits] /\ \A d \in Deposits : a[d].paid <= SpendableLot(d).paid
  BY <1>3, AllocationsBound DEF IInv
<1>5. LotsKept
  BY <1>1, <1>4, LotUpdates DEF IInv
<1>6. ASSUME \A o, s : HasEntry(o, s)' <=> HasEntry(o, s) \/ (o = "debit" /\ s = m)
      PROVE  StatusRecordsEntries'
  BY <1>2, <1>5, <1>6 DEF IInv, StatusRecordsEntries, LotsKept
<1>7. /\ crediting' \in [deposits : SUBSET Deposits, price : Nat]
      /\ refunds' \in [Deposits -> Refunds]
      /\ task' \in [ImageRequests -> {"idle", "running", "failed"}]
  BY <1>2 DEF IInv, TypeOK
<1> QED
  BY <1>1, <1>2, <1>3, <1>4, <1>5, <1>6, <1>7, MutationKeeps DEF LotsKept
-----------------------------------------------------------------------------
LEMMA ReserveImageCreditsKeeps ==
  ASSUME IInv, NEW r \in ImageRequests, NEW amount \in Charges,
         ReserveImageCredits(r, amount)
  PROVE  IInv'
<1>1. PICK a \in Allocations(amount) :
        UpdateLotsForHold(a) /\ ApplyCreditMutation("reserve", r, amount, a)
  BY DEF ReserveImageCredits
<1>2. /\ ~HasEntry("reserve", r) /\ UNCHANGED <<crediting, refunds>>
      /\ task[r] = "idle" /\ task' = [task EXCEPT ![r] = "running"]
  BY DEF ReserveImageCredits
<1>3. amount \in Nat \ {0} /\ "reserve" \in LedgerOps /\ r \in Sources
  BY CreditLedgerAssumption DEF LedgerOps, Sources
<1>4. a \in [Deposits -> Credits] /\ \A d \in Deposits : a[d].paid <= SpendableLot(d).paid
  BY <1>3, AllocationsBound DEF IInv
<1>5. LotsKept
  BY <1>1, <1>4, LotUpdates DEF IInv
<1>6. /\ crediting' \in [deposits : SUBSET Deposits, price : Nat]
      /\ refunds' \in [Deposits -> Refunds]
      /\ task' \in [ImageRequests -> {"idle", "running", "failed"}]
      /\ \A q \in ImageRequests : q # r => task'[q] = task[q]
  BY <1>2 DEF IInv, TypeOK
<1>7. ASSUME \A o, s : HasEntry(o, s)' <=> HasEntry(o, s) \/ (o = "reserve" /\ s = r)
      PROVE  StatusRecordsEntries'
  BY <1>2, <1>5, <1>6, <1>7 DEF IInv, StatusRecordsEntries, LotsKept
<1> QED
  BY <1>1, <1>2, <1>3, <1>4, <1>5, <1>6, <1>7, MutationKeeps DEF LotsKept

LEMMA EntryType ==
  ASSUME TypeOK, NEW e \in LedgerEntries
  PROVE  e.amount \in Nat /\ e.allocations \in [Deposits -> Credits]
<1>1. e \in Entries
  BY DEF TypeOK, LedgerEntries
<1> QED
  BY <1>1 DEF Entries

LEMMA CaptureReservedImageCreditsKeeps ==
  ASSUME IInv, NEW r \in ImageRequests, CaptureReservedImageCredits(r)
  PROVE  IInv'
<1>1. PICK e \in LedgerEntries :
        /\ UpdateLotsForCapture(e.allocations)
        /\ ApplyCreditMutation("capture", r, e.amount, e.allocations)
  BY DEF CaptureReservedImageCredits
<1>2. /\ ~HasEntry("capture", r) /\ task[r] = "running"
      /\ UNCHANGED <<crediting, refunds, task>>
  BY DEF CaptureReservedImageCredits
<1>3. /\ e.amount \in Nat /\ e.allocations \in [Deposits -> Credits]
      /\ "capture" \in LedgerOps /\ r \in Sources
  BY EntryType DEF IInv, LedgerOps, Sources
<1>4. LotsKept
  BY <1>1, <1>3, LotUpdates DEF IInv
<1>5. /\ crediting' \in [deposits : SUBSET Deposits, price : Nat]
      /\ refunds' \in [Deposits -> Refunds]
      /\ task' \in [ImageRequests -> {"idle", "running", "failed"}]
  BY <1>2 DEF IInv, TypeOK
<1>6. ASSUME \A o, s : HasEntry(o, s)' <=> HasEntry(o, s) \/ (o = "capture" /\ s = r)
      PROVE  StatusRecordsEntries'
  BY <1>2, <1>4, <1>6 DEF IInv, StatusRecordsEntries, LotsKept
<1> QED
  BY <1>1, <1>2, <1>3, <1>4, <1>5, <1>6, MutationKeeps DEF LotsKept

LEMMA ReleaseReservedImageCreditsKeeps ==
  ASSUME IInv, NEW r \in ImageRequests, ReleaseReservedImageCredits(r)
  PROVE  IInv'
<1>1. /\ task' = [task EXCEPT ![r] = "failed"] /\ UNCHANGED <<crediting, refunds>>
  BY DEF ReleaseReservedImageCredits
<1>2. /\ crediting' \in [deposits : SUBSET Deposits, price : Nat]
      /\ refunds' \in [Deposits -> Refunds]
      /\ task' \in [ImageRequests -> {"idle", "running", "failed"}]
      /\ task'[r] = "failed"
      /\ \A q \in ImageRequests : q # r => task'[q] = task[q]
  BY <1>1 DEF IInv, TypeOK
<1>3. CASE HasEntry("release", r) \/ HasEntry("capture", r)
  <2>1. UNCHANGED <<lots, available, reserved, ledger>>
    BY <1>3 DEF ReleaseReservedImageCredits
  <2>2. /\ LedgerReplays' /\ EntryPerKey'
        /\ \A o, s : HasEntry(o, s)' <=> HasEntry(o, s)
    BY <2>1, LedgerKept DEF IInv
  <2>3. TypeOK'
    BY <1>2, <2>1 DEF IInv, TypeOK
  <2>4. StatusRecordsEntries'
    BY <1>1, <1>2, <2>1, <2>2 DEF IInv, StatusRecordsEntries
  <2>5. PaidHoldsCovered'
    BY <2>1 DEF IInv, PaidHoldsCovered
  <2> QED
    BY <2>2, <2>3, <2>4, <2>5 DEF IInv
<1>4. CASE ~(HasEntry("release", r) \/ HasEntry("capture", r))
  <2>1. PICK e \in LedgerEntries :
          /\ UpdateLotsForRelease(e.allocations)
          /\ ApplyCreditMutation("release", r, e.amount, e.allocations)
    BY <1>4 DEF ReleaseReservedImageCredits
  <2>2. /\ e.amount \in Nat /\ e.allocations \in [Deposits -> Credits]
        /\ "release" \in LedgerOps /\ r \in Sources
    BY EntryType DEF IInv, LedgerOps, Sources
  <2>3. LotsKept
    BY <2>1, <2>2, LotUpdates DEF IInv
  <2>4. ASSUME \A o, s : HasEntry(o, s)' <=> HasEntry(o, s) \/ (o = "release" /\ s = r)
        PROVE  StatusRecordsEntries'
    BY <1>1, <1>2, <1>4, <2>3, <2>4 DEF IInv, StatusRecordsEntries, LotsKept
  <2> QED
    BY <1>2, <1>4, <2>1, <2>2, <2>3, <2>4, MutationKeeps DEF LotsKept
<1> QED
  BY <1>3, <1>4
-----------------------------------------------------------------------------
\* The allocation of a refund and its total are those of its row.
LEMMA RefundTypes ==
  ASSUME TypeOK, NEW d \in Deposits
  PROVE  RefundTotal(d) \in Nat /\ RefundAllocation(d) \in [Deposits -> Credits]
<1>1. refunds[d].paid \in Nat /\ refunds[d].bonus \in Nat
  BY DEF TypeOK, Refunds
<1>2. [paid |-> refunds[d].paid, bonus |-> refunds[d].bonus] \in Credits
  BY <1>1 DEF Credits
<1> QED
  BY <1>1, <1>2, OnDepositType DEF RefundTotal, RefundAllocation

\* The refund row of one deposit moves on; the others stay.
LEMMA RefundMoves ==
  ASSUME TypeOK, NEW d \in Deposits, NEW status \in RefundStatus,
         refunds' = [refunds EXCEPT ![d].status = status]
  PROVE  /\ refunds' \in [Deposits -> Refunds] /\ refunds'[d].status = status
         /\ \A c \in Deposits : c # d => refunds'[c] = refunds[c]
<1>1. refunds \in [Deposits -> Refunds] /\ refunds[d] \in Refunds
  BY DEF TypeOK
<1> DEFINE row == [refunds[d] EXCEPT !.status = status]
<1>2. row \in Refunds /\ row.status = status
  BY <1>1 DEF Refunds
<1>3. refunds' = [refunds EXCEPT ![d] = row]
  OBVIOUS
<1> HIDE DEF row
<1> QED
  BY <1>1, <1>2, <1>3

LEMMA CreateRefundRequestKeeps ==
  ASSUME IInv, NEW d \in Deposits, CreateRefundRequest(d)
  PROVE  IInv'
<1> DEFINE refundable == SpendableLot(d)
           a == OnDeposit(d, refundable)
           row == [status |-> "pending", paid |-> refundable.paid,
                   bonus |-> refundable.bonus]
<1>1. /\ refunds[d].status = "none"
      /\ UpdateLotsForHold(a)
      /\ ApplyCreditMutation("refund_hold", d, Balance(refundable), a)
      /\ refunds' = [refunds EXCEPT ![d] = row]
      /\ UNCHANGED <<crediting, task>>
  BY DEF CreateRefundRequest
<1>2. refundable \in Credits
  BY SpendableLotType DEF IInv
<1>3. Balance(refundable) \in Nat
  BY <1>2 DEF Balance, Credits
<1>4. row \in Refunds /\ row.status = "pending"
  BY <1>2 DEF Credits, Refunds, RefundStatus
<1>5. a \in [Deposits -> Credits] /\ \A c \in Deposits : a[c].paid <= SpendableLot(c).paid
  <2>1. \A c \in Deposits : SpendableLot(c).paid \in Nat
    BY SpendableLotType DEF IInv, Credits
  <2>2. a \in [Deposits -> Credits]
        /\ \A c \in Deposits : a[c] = IF c = d THEN refundable ELSE NoCredits
    BY <1>2, OnDepositType
  <2> HIDE DEF a
  <2> QED
    BY <2>1, <2>2 DEF NoCredits
<1> HIDE DEF a, row, refundable
<1>6. LotsKept
  BY <1>1, <1>5, LotUpdates DEF IInv
<1>7. /\ crediting' \in [deposits : SUBSET Deposits, price : Nat]
      /\ refunds' \in [Deposits -> Refunds] /\ refunds'[d].status = "pending"
      /\ \A c \in Deposits : c # d => refunds'[c] = refunds[c]
      /\ task' \in [ImageRequests -> {"idle", "running", "failed"}]
  BY <1>1, <1>4 DEF IInv, TypeOK
<1>8. ~HasEntry("refund_hold", d) /\ ~HasEntry("refund_debit", d) /\ ~HasEntry("refund_release", d)
  BY <1>1 DEF IInv, StatusRecordsEntries
<1>9. ASSUME \A o, s : HasEntry(o, s)' <=> HasEntry(o, s) \/ (o = "refund_hold" /\ s = d)
      PROVE  StatusRecordsEntries'
  BY <1>1, <1>6, <1>7, <1>8, <1>9 DEF IInv, StatusRecordsEntries, LotsKept
<1>10. "refund_hold" \in LedgerOps /\ d \in Sources
  BY DEF LedgerOps, Sources
<1> QED
  BY <1>1, <1>3, <1>5, <1>6, <1>7, <1>8, <1>9, <1>10, MutationKeeps DEF LotsKept

LEMMA ApproveRefundRequestKeeps ==
  ASSUME IInv, NEW d \in Deposits, ApproveRefundRequest(d)
  PROVE  IInv'
<1>1. /\ refunds[d].status = "pending"
      /\ refunds' = [refunds EXCEPT ![d].status = "approved"]
      /\ UNCHANGED <<available, reserved, lots, crediting, ledger, task>>
  BY DEF ApproveRefundRequest
<1>2. "approved" \in RefundStatus
  BY DEF RefundStatus
<1>3. /\ refunds' \in [Deposits -> Refunds] /\ refunds'[d].status = "approved"
      /\ \A c \in Deposits : c # d => refunds'[c] = refunds[c]
  BY <1>1, <1>2, RefundMoves DEF IInv
<1>4. /\ LedgerReplays' /\ EntryPerKey'
      /\ \A o, s : HasEntry(o, s)' <=> HasEntry(o, s)
  BY <1>1, LedgerKept DEF IInv
<1>5. TypeOK'
  BY <1>1, <1>3 DEF IInv, TypeOK
<1>6. StatusRecordsEntries'
  BY <1>1, <1>3, <1>4 DEF IInv, StatusRecordsEntries
<1>7. PaidHoldsCovered'
  BY <1>1 DEF IInv, PaidHoldsCovered
<1> QED
  BY <1>4, <1>5, <1>6, <1>7 DEF IInv

LEMMA SettleRefundRequestKeeps ==
  ASSUME IInv, NEW d \in Deposits, SettleRefundRequest(d)
  PROVE  IInv'
<1>1. /\ refunds[d].status \in {"pending", "approved"}
      /\ UpdateLotsForCapture(RefundAllocation(d))
      /\ ApplyCreditMutation("refund_debit", d, RefundTotal(d), RefundAllocation(d))
      /\ refunds' = [refunds EXCEPT ![d].status = "settled"]
      /\ UNCHANGED <<crediting, task>>
  BY DEF SettleRefundRequest, IsActionable
<1>2. RefundTotal(d) \in Nat /\ RefundAllocation(d) \in [Deposits -> Credits]
  BY RefundTypes DEF IInv
<1>3. LotsKept
  BY <1>1, <1>2, LotUpdates DEF IInv
<1>4. "settled" \in RefundStatus /\ "refund_debit" \in LedgerOps /\ d \in Sources
  BY DEF RefundStatus, LedgerOps, Sources
<1>5. /\ refunds' \in [Deposits -> Refunds] /\ refunds'[d].status = "settled"
      /\ \A c \in Deposits : c # d => refunds'[c] = refunds[c]
  BY <1>1, <1>4, RefundMoves DEF IInv
<1>6. /\ crediting' \in [deposits : SUBSET Deposits, price : Nat]
      /\ task' \in [ImageRequests -> {"idle", "running", "failed"}]
  BY <1>1 DEF IInv, TypeOK
<1>7. ~HasEntry("refund_debit", d) /\ ~HasEntry("refund_release", d)
  BY <1>1 DEF IInv, StatusRecordsEntries
<1>8. ASSUME \A o, s : HasEntry(o, s)' <=> HasEntry(o, s) \/ (o = "refund_debit" /\ s = d)
      PROVE  StatusRecordsEntries'
  BY <1>1, <1>3, <1>5, <1>7, <1>8 DEF IInv, StatusRecordsEntries, LotsKept
<1> QED
  BY <1>1, <1>2, <1>3, <1>4, <1>5, <1>6, <1>7, <1>8, MutationKeeps DEF LotsKept

LEMMA RejectRefundRequestKeeps ==
  ASSUME IInv, NEW d \in Deposits, RejectRefundRequest(d)
  PROVE  IInv'
<1>1. /\ refunds[d].status \in {"pending", "approved"}
      /\ UpdateLotsForRelease(RefundAllocation(d))
      /\ ApplyCreditMutation("refund_release", d, RefundTotal(d), RefundAllocation(d))
      /\ refunds' = [refunds EXCEPT ![d].status = "rejected"]
      /\ UNCHANGED <<crediting, task>>
  BY DEF RejectRefundRequest, IsActionable
<1>2. RefundTotal(d) \in Nat /\ RefundAllocation(d) \in [Deposits -> Credits]
  BY RefundTypes DEF IInv
<1>3. LotsKept
  BY <1>1, <1>2, LotUpdates DEF IInv
<1>4. "rejected" \in RefundStatus /\ "refund_release" \in LedgerOps /\ d \in Sources
  BY DEF RefundStatus, LedgerOps, Sources
<1>5. /\ refunds' \in [Deposits -> Refunds] /\ refunds'[d].status = "rejected"
      /\ \A c \in Deposits : c # d => refunds'[c] = refunds[c]
  BY <1>1, <1>4, RefundMoves DEF IInv
<1>6. /\ crediting' \in [deposits : SUBSET Deposits, price : Nat]
      /\ task' \in [ImageRequests -> {"idle", "running", "failed"}]
  BY <1>1 DEF IInv, TypeOK
<1>7. ~HasEntry("refund_debit", d) /\ ~HasEntry("refund_release", d)
  BY <1>1 DEF IInv, StatusRecordsEntries
<1>8. ASSUME \A o, s : HasEntry(o, s)' <=> HasEntry(o, s) \/ (o = "refund_release" /\ s = d)
      PROVE  StatusRecordsEntries'
  BY <1>1, <1>3, <1>5, <1>7, <1>8 DEF IInv, StatusRecordsEntries, LotsKept
<1> QED
  BY <1>1, <1>2, <1>3, <1>4, <1>5, <1>6, <1>7, <1>8, MutationKeeps DEF LotsKept
-----------------------------------------------------------------------------
LEMMA StepIInv == IInv /\ [Next]_vars => IInv'
<1> SUFFICES ASSUME IInv, [Next]_vars PROVE IInv'
  OBVIOUS
<1>1. CASE UNCHANGED vars
  <2>1. /\ LedgerReplays' /\ EntryPerKey'
        /\ \A o, s : HasEntry(o, s)' <=> HasEntry(o, s)
    BY <1>1, LedgerKept DEF IInv, vars
  <2>2. TypeOK' /\ PaidHoldsCovered'
    BY <1>1 DEF IInv, vars, TypeOK, PaidHoldsCovered
  <2>3. StatusRecordsEntries'
    BY <1>1, <2>1 DEF IInv, vars, StatusRecordsEntries
  <2> QED
    BY <2>1, <2>2, <2>3 DEF IInv
<1>2. ASSUME NEW d \in Deposits, DepositStep(d) PROVE IInv'
  <2>1. CASE IngestCreditDeposit(d)
    <3>1. PICK asset \in Assets, amount \in Amounts :
            /\ lots[d].status # "credited"
            /\ \/ IngestUnconfirmed(d, asset, amount)
               \/ \E price \in Prices \union {1} : IngestConfirmed(d, asset, amount, price)
      BY <2>1 DEF IngestCreditDeposit
    <3> QED
      BY <3>1, IngestUnconfirmedKeeps, IngestConfirmedKeeps
  <2>2. CASE CreditCandidate(d)
    BY <2>2, CreditCandidateKeeps
  <2> QED
    BY <1>2, <2>1, <2>2 DEF DepositStep
<1>3. ASSUME NEW d \in Deposits, RefundStep(d) PROVE IInv'
  BY <1>3, CreateRefundRequestKeeps, ApproveRefundRequestKeeps,
     SettleRefundRequestKeeps, RejectRefundRequestKeeps DEF RefundStep
<1>4. ASSUME NEW m \in Messages, NEW amount \in Charges, SettleChatUsageCharge(m, amount)
      PROVE  IInv'
  BY <1>4, SettleChatUsageChargeKeeps
<1>5. ASSUME NEW r \in ImageRequests, ImageStep(r) PROVE IInv'
  BY <1>5, ReserveImageCreditsKeeps, CaptureReservedImageCreditsKeeps,
     ReleaseReservedImageCreditsKeeps DEF ImageStep
<1> QED
  BY <1>1, <1>2, <1>3, <1>4, <1>5 DEF Next

\* The inductive invariant holds in every reachable state of the ledger.
THEOREM InvariantHolds == Spec => []IInv
<1> QED
  BY InitIInv, StepIInv, PTL DEF Spec

\* Balances, rows and entries keep their types: no balance of an account is
\* ever negative, whatever charges, reservations and refunds are mixed.
THEOREM TypeCorrect == Spec => []TypeOK
<1>1. IInv => TypeOK
  BY DEF IInv
<1> QED
  BY <1>1, InvariantHolds, PTL

\* applyCreditMutation and createLedgerEntry: replaying the ledger gives the
\* account its balances, after any history.
THEOREM LedgerReplaysAlways == Spec => []LedgerReplays
<1>1. IInv => LedgerReplays
  BY DEF IInv
<1> QED
  BY <1>1, InvariantHolds, PTL

\* No idempotency key is ever entered twice, however calls are repeated.
THEOREM EntryPerKeyAlways == Spec => []EntryPerKey
<1>1. IInv => EntryPerKey
  BY DEF IInv
<1> QED
  BY <1>1, InvariantHolds, PTL

\* The paid credits held on a deposit, by reservations and by a refund, are
\* always still there to be captured or paid out.
THEOREM PaidHoldsCoveredAlways == Spec => []PaidHoldsCovered
<1>1. IInv => PaidHoldsCovered
  BY DEF IInv
<1> QED
  BY <1>1, InvariantHolds, PTL

\* A reservation is captured or released and a refund settled or rejected,
\* never both: the statuses that guard the operations exclude each other.
THEOREM HoldsEndOnceAlways == Spec => []HoldsEndOnce
<1>1. IInv => HoldsEndOnce
  BY DEF IInv, StatusRecordsEntries, HoldsEndOnce
<1> QED
  BY <1>1, InvariantHolds, PTL
-----------------------------------------------------------------------------
(***************************************************************************)
(* The books: what the rows, the entries and the account say of each other. *)
(* They balance because every mutation moves the account, the lots and the  *)
(* ledger by one allocation that adds up to its amount (EntriesBalance); a  *)
(* lot that is still to be credited holds nothing that crediting would      *)
(* overwrite (UncreditedAreEmpty); a hold is ended by the entry that placed *)
(* it (EndsHaveReservations); and what a settled refund paid out is what    *)
(* the refund row says (RefundsArePaidOut).                                 *)
(***************************************************************************)
EntriesBalance ==
  \A i \in DOMAIN ledger : ledger[i].amount = TotalOf(Deposits, ledger[i].allocations)

UncreditedAreEmpty ==
  \A d \in Deposits : lots[d].status # "credited" =>
    /\ lots[d].remainingPaid = 0 /\ lots[d].remainingBonus = 0
    /\ lots[d].heldPaid = 0 /\ lots[d].heldBonus = 0
    /\ lots[d].paidCredits = 0

EndsHaveReservations ==
  \A r : HasEntry("capture", r) \/ HasEntry("release", r) => HasEntry("reserve", r)

PaidBy(ops, d) == AllocatedBy(ops, d, LAMBDA a : a.paid)

BonusBy(ops, d) == AllocatedBy(ops, d, LAMBDA a : a.bonus)

CreditsAreBought == \A d \in Deposits : PaidBy({"credit"}, d) = lots[d].paidCredits

RefundsArePaidOut ==
  \A d \in Deposits :
    PaidBy({"refund_debit"}, d) = IF refunds[d].status = "settled" THEN refunds[d].paid ELSE 0

Books ==
  /\ EntriesBalance
  /\ UncreditedAreEmpty
  /\ EndsHaveReservations
  /\ CreditsAreBought
  /\ RefundsArePaidOut
  /\ AccountMatchesLots
  /\ LotsReplayLedger
  /\ HoldsAreBacked
-----------------------------------------------------------------------------
\* How often each kind of mutation adds its allocation to what remains of the
\* lots, and to what they hold.
RemainingMove(op) ==
  IF op = "credit" THEN 1 ELSE IF op \in SpendingOps THEN -1 ELSE 0

HeldMove(op) ==
  IF op \in {"reserve", "refund_hold"} THEN 1
  ELSE IF op \in {"capture", "release", "refund_debit", "refund_release"} THEN -1 ELSE 0

LotsMove(a, x, y) ==
  \A d \in Deposits :
    /\ lots'[d].remainingPaid = lots[d].remainingPaid + x * a[d].paid
    /\ lots'[d].remainingBonus = lots[d].remainingBonus + x * a[d].bonus
    /\ lots'[d].heldPaid = lots[d].heldPaid + y * a[d].paid
    /\ lots'[d].heldBonus = lots[d].heldBonus + y * a[d].bonus

\* One entry more, written by applyCreditMutation under a new key.
NewEntry(op, source, amount, a) ==
  [op |-> op, source |-> source, amount |-> amount,
   availableAfter |-> available + AvailableDelta(op, amount),
   reservedAfter |-> reserved + ReservedDelta(op, amount),
   allocations |-> a]

Mutates(op, source, amount, a) ==
  /\ op \in LedgerOps /\ source \in Sources /\ amount \in Nat
  /\ a \in [Deposits -> Credits]
  /\ amount = TotalOf(Deposits, a)
  /\ ~HasEntry(op, source)
  /\ ApplyCreditMutation(op, source, amount, a)

\* What the ledger is after a mutation.
LEMMA MutationLedger ==
  ASSUME TypeOK, NEW op, NEW source, NEW amount, NEW a, Mutates(op, source, amount, a)
  PROVE  LET n == Len(ledger)
             new == NewEntry(op, source, amount, a)
         IN  /\ n \in Nat /\ DOMAIN ledger = 1 .. n
             /\ new.op = op /\ new.source = source /\ new.amount = amount
             /\ new.allocations = a
             /\ new \in Entries /\ ledger' \in Seq(Entries)
             /\ DOMAIN ledger' = 1 .. (n + 1) /\ ledger'[n + 1] = new
             /\ \A i \in 1 .. n : ledger'[i] = ledger[i] /\ ledger[i] \in Entries
             /\ \A o, s : HasEntry(o, s)' <=> HasEntry(o, s) \/ (o = op /\ s = source)
<1> DEFINE n == Len(ledger)
           new == NewEntry(op, source, amount, a)
<1>1. /\ op \in LedgerOps /\ source \in Sources /\ amount \in Nat
      /\ a \in [Deposits -> Credits] /\ CanApply(op, amount)
  BY DEF Mutates, ApplyCreditMutation
<1>2. new \in Entries
  BY <1>1, MutationBalances DEF Entries, NewEntry
<1>3. ledger' = Append(ledger, new)
  BY DEF Mutates, ApplyCreditMutation, CreateLedgerEntry, NewEntry
<1>4. ledger \in Seq(Entries) /\ n \in Nat /\ DOMAIN ledger = 1 .. n
  BY DEF TypeOK
<1>5. /\ new.op = op /\ new.source = source /\ new.amount = amount
      /\ new.allocations = a
  BY DEF NewEntry
<1> HIDE DEF new
<1>6. /\ ledger' \in Seq(Entries) /\ DOMAIN ledger' = 1 .. (n + 1)
      /\ ledger'[n + 1] = new
      /\ \A i \in 1 .. n : ledger'[i] = ledger[i] /\ ledger[i] \in Entries
  BY <1>2, <1>3, <1>4
<1>7. \A o, s : HasEntry(o, s)' <=> HasEntry(o, s) \/ (o = op /\ s = source)
  <2>1. \A o, s : HasEntry(o, s) <=> \E i \in 1 .. n : ledger[i].op = o /\ ledger[i].source = s
    BY <1>4 DEF HasEntry, LedgerEntries, IsEntry
  <2>2. \A o, s : HasEntry(o, s)' <=> \E i \in 1 .. (n + 1) :
                                        ledger'[i].op = o /\ ledger'[i].source = s
    BY <1>6 DEF HasEntry, LedgerEntries, IsEntry
  <2>3. 1 .. (n + 1) = (1 .. n) \union {n + 1}
    BY <1>4
  <2> QED
    BY <1>5, <1>6, <2>1, <2>2, <2>3
<1> QED
  BY <1>2, <1>4, <1>5, <1>6, <1>7 DEF new

\* The sum of weights over some entries, after one entry more.
LEMMA LongerSum ==
  ASSUME NEW n \in Nat, NEW K \in SUBSET (1 .. n), NEW L,
         L = K \/ L = K \union {n + 1}, NEW w, NEW v,
         \A i \in K : w[i] \in Int /\ v[i] = w[i],
         n + 1 \in L => v[n + 1] \in Int
  PROVE  /\ SumFunctionOnSet(w, K) \in Int
         /\ n + 1 \in L =>
              SumFunctionOnSet(v, L) = SumFunctionOnSet(w, K) + v[n + 1]
         /\ n + 1 \notin L => SumFunctionOnSet(v, L) = SumFunctionOnSet(w, K)
<1>1. IsFiniteSet(K) /\ n + 1 \notin K
  <2>1. IsFiniteSet(1 .. n)
    BY FS_Interval
  <2>2. IsFiniteSet(K)
    BY <2>1, FS_Subset, Zenon
  <2>3. n + 1 \notin K
    OBVIOUS
  <2> QED
    BY <2>2, <2>3
<1>2. SumFunctionOnSet(v, K) = SumFunctionOnSet(w, K)
  BY <1>1, SumCongruence
<1>3. SumFunctionOnSet(w, K) \in Int
  BY <1>1, SumType
<1>4. CASE L = K
  BY <1>1, <1>2, <1>3, <1>4
<1>5. CASE L = K \union {n + 1}
  <2>1. \A i \in K : v[i] \in Int
    OBVIOUS
  <2>2. SumFunctionOnSet(v, K \union {n + 1}) = v[n + 1] + SumFunctionOnSet(v, K)
    BY <1>1, <1>5, <2>1, SumInsert
  <2> QED
    BY <1>2, <1>3, <1>5, <2>2
<1> QED
  BY <1>4, <1>5

\* What some kinds of entries allocated to a deposit grows by the allocation
\* of a new entry of one of these kinds.
LEMMA AllocatedMoves ==
  ASSUME TypeOK, NEW op, NEW source, NEW amount, NEW a, Mutates(op, source, amount, a),
         NEW ops, NEW d \in Deposits
  PROVE  /\ PaidBy(ops, d) \in Int /\ BonusBy(ops, d) \in Int
         /\ a[d].paid \in Nat /\ a[d].bonus \in Nat
         /\ PaidBy(ops, d)' = PaidBy(ops, d) + (IF op \in ops THEN a[d].paid ELSE 0)
         /\ BonusBy(ops, d)' = BonusBy(ops, d) + (IF op \in ops THEN a[d].bonus ELSE 0)
<1> DEFINE n == Len(ledger)
           new == NewEntry(op, source, amount, a)
           K == {i \in DOMAIN ledger : ledger[i].op \in ops}
           L == {i \in DOMAIN ledger' : ledger'[i].op \in ops}
           pw == [i \in K |-> ledger[i].allocations[d].paid]
           pv == [i \in L |-> ledger'[i].allocations[d].paid]
           bw == [i \in K |-> ledger[i].allocations[d].bonus]
           bv == [i \in L |-> ledger'[i].allocations[d].bonus]
<1>1. /\ n \in Nat /\ DOMAIN ledger = 1 .. n
      /\ new.op = op /\ new.allocations = a
      /\ DOMAIN ledger' = 1 .. (n + 1) /\ ledger'[n + 1] = new
      /\ \A i \in 1 .. n : ledger'[i] = ledger[i] /\ ledger[i] \in Entries
  BY MutationLedger
<1>2. a[d].paid \in Nat /\ a[d].bonus \in Nat
  BY DEF Mutates, Credits
<1>3. \A i \in 1 .. n : ledger[i].allocations[d].paid \in Int
                        /\ ledger[i].allocations[d].bonus \in Int
  BY <1>1 DEF Entries, Credits
<1> HIDE DEF n, new
<1>4. 1 .. (n + 1) = (1 .. n) \union {n + 1}
  BY <1>1
<1>5. K \in SUBSET (1 .. n) /\ (L = K \/ L = K \union {n + 1})
  BY <1>1, <1>4
<1>6. n + 1 \in L <=> op \in ops
  BY <1>1, <1>4
<1>7. /\ \A i \in K : pw[i] \in Int /\ pv[i] = pw[i] /\ bw[i] \in Int /\ bv[i] = bw[i]
      /\ n + 1 \in L => pv[n + 1] = a[d].paid /\ bv[n + 1] = a[d].bonus
      /\ n + 1 \in L => pv[n + 1] \in Int /\ bv[n + 1] \in Int
  <2>1. \A i \in K : i \in L /\ ledger'[i] = ledger[i]
    BY <1>1, <1>5
  <2>2. \A i \in K : pw[i] \in Int /\ bw[i] \in Int
    BY <1>3, <1>5
  <2>3. \A i \in K : pv[i] = pw[i] /\ bv[i] = bw[i]
    BY <2>1
  <2>4. n + 1 \in L => pv[n + 1] = a[d].paid /\ bv[n + 1] = a[d].bonus
    BY <1>1
  <2> HIDE DEF K, L, pw, pv, bw, bv
  <2> QED
    BY <1>2, <2>2, <2>3, <2>4
<1>8. /\ PaidBy(ops, d) = SumFunctionOnSet(pw, K)
      /\ PaidBy(ops, d)' = SumFunctionOnSet(pv, L)
      /\ BonusBy(ops, d) = SumFunctionOnSet(bw, K)
      /\ BonusBy(ops, d)' = SumFunctionOnSet(bv, L)
  BY DEF PaidBy, BonusBy, AllocatedBy, SumOver
<1> HIDE DEF K, L, pw, pv, bw, bv
<1>9. /\ SumFunctionOnSet(pw, K) \in Int
      /\ n + 1 \in L => SumFunctionOnSet(pv, L) = SumFunctionOnSet(pw, K) + pv[n + 1]
      /\ n + 1 \notin L => SumFunctionOnSet(pv, L) = SumFunctionOnSet(pw, K)
  <2>1. \A i \in K : pw[i] \in Int /\ pv[i] = pw[i]
    BY <1>7
  <2>2. n + 1 \in L => pv[n + 1] \in Int
    BY <1>7
  <2>3. n \in Nat
    BY <1>1
  <2> QED
    BY <1>5, <2>1, <2>2, <2>3, LongerSum
<1>10. /\ SumFunctionOnSet(bw, K) \in Int
       /\ n + 1 \in L => SumFunctionOnSet(bv, L) = SumFunctionOnSet(bw, K) + bv[n + 1]
       /\ n + 1 \notin L => SumFunctionOnSet(bv, L) = SumFunctionOnSet(bw, K)
  <2>1. \A i \in K : bw[i] \in Int /\ bv[i] = bw[i]
    BY <1>7
  <2>2. n + 1 \in L => bv[n + 1] \in Int
    BY <1>7
  <2>3. n \in Nat
    BY <1>1
  <2> QED
    BY <1>5, <2>1, <2>2, <2>3, LongerSum
<1> QED
  BY <1>2, <1>6, <1>7, <1>8, <1>9, <1>10
-----------------------------------------------------------------------------
\* A new entry balances like the others.
LEMMA EntriesStillBalance ==
  ASSUME TypeOK, EntriesBalance,
         NEW op, NEW source, NEW amount, NEW a, Mutates(op, source, amount, a)
  PROVE  EntriesBalance'
<1> DEFINE n == Len(ledger)
           new == NewEntry(op, source, amount, a)
<1>1. /\ n \in Nat /\ DOMAIN ledger = 1 .. n
      /\ new.amount = amount /\ new.allocations = a
      /\ DOMAIN ledger' = 1 .. (n + 1) /\ ledger'[n + 1] = new
      /\ \A i \in 1 .. n : ledger'[i] = ledger[i]
  BY MutationLedger
<1> HIDE DEF n, new
<1>2. ASSUME NEW i \in 1 .. (n + 1)
      PROVE  ledger'[i].amount = TotalOf(Deposits, ledger'[i].allocations)
  <2>1. CASE i = n + 1
    BY <1>1, <2>1 DEF Mutates
  <2>2. CASE i # n + 1
    <3>1. i \in 1 .. n
      BY <1>1, <2>2
    <3> QED
      BY <1>1, <3>1 DEF EntriesBalance
  <2> QED
    BY <2>1, <2>2
<1>3. EntriesBalance' <=> \A i \in DOMAIN ledger' :
                            ledger'[i].amount = TotalOf(Deposits, ledger'[i].allocations)
  BY DEF EntriesBalance
<1> QED
  BY <1>1, <1>2, <1>3

\* What remains of the lots together moves by the amount of the entry, as
\* often as the kind of entry says.
LEMMA RemainingMoves ==
  ASSUME TypeOK, NEW op, NEW source, NEW amount, NEW a, Mutates(op, source, amount, a),
         NEW y, LotsMove(a, RemainingMove(op), y)
  PROVE  LET old == SumOfLots(LAMBDA l : l.remainingPaid + l.remainingBonus)
             new == SumOver(Deposits, LAMBDA d : lots'[d].remainingPaid + lots'[d].remainingBonus)
         IN  old \in Int /\ amount \in Nat /\ new = RemainingMove(op) * amount + old
<1> DEFINE x == RemainingMove(op)
           w == [d \in Deposits |-> lots[d].remainingPaid + lots[d].remainingBonus]
           v == [d \in Deposits |-> Balance(a[d])]
           u == [d \in Deposits |-> lots'[d].remainingPaid + lots'[d].remainingBonus]
<1>1. x \in Int /\ (x = 1 \/ x = 0 \/ x = -1)
  BY DEF RemainingMove
<1>2. ASSUME NEW d \in Deposits
      PROVE  w[d] \in Int /\ v[d] \in Int /\ u[d] = x * v[d] + w[d]
  <2>1. /\ lots[d].remainingPaid \in Int /\ lots[d].remainingBonus \in Int
    BY DEF TypeOK, LotRows
  <2>2. a[d].paid \in Nat /\ a[d].bonus \in Nat
    BY DEF Mutates, Credits
  <2>3. /\ lots'[d].remainingPaid = lots[d].remainingPaid + x * a[d].paid
        /\ lots'[d].remainingBonus = lots[d].remainingBonus + x * a[d].bonus
    BY DEF LotsMove
  <2> HIDE DEF x
  <2>4. v[d] = a[d].paid + a[d].bonus
    BY DEF Balance
  <2>5. u[d] = lots'[d].remainingPaid + lots'[d].remainingBonus
        /\ w[d] = lots[d].remainingPaid + lots[d].remainingBonus
    OBVIOUS
  <2> HIDE DEF u, v, w
  <2>6. x * v[d] = x * a[d].paid + x * a[d].bonus
        /\ x * a[d].paid \in Int /\ x * a[d].bonus \in Int
    BY <1>1, <2>2, <2>4
  <2> QED
    BY <2>1, <2>2, <2>3, <2>4, <2>5, <2>6
<1>3. /\ SumOfLots(LAMBDA l : l.remainingPaid + l.remainingBonus) = SumFunctionOnSet(w, Deposits)
      /\ SumOver(Deposits, LAMBDA d : lots'[d].remainingPaid + lots'[d].remainingBonus)
           = SumFunctionOnSet(u, Deposits)
      /\ TotalOf(Deposits, a) = SumFunctionOnSet(v, Deposits)
  BY DEF SumOfLots, SumOver, TotalOf
<1> HIDE DEF x, u, v, w
<1>4. SumFunctionOnSet(w, Deposits) \in Int
  BY <1>2, CreditLedgerAssumption, SumType
<1>5. SumFunctionOnSet(u, Deposits)
        = x * SumFunctionOnSet(v, Deposits) + SumFunctionOnSet(w, Deposits)
  <2>1. IsFiniteSet(Deposits)
    BY CreditLedgerAssumption
  <2>2. \A d \in Deposits : v[d] \in Int /\ w[d] \in Int /\ u[d] = x * v[d] + w[d]
    BY <1>2
  <2> QED
    BY <1>1, <2>1, <2>2, SumLinear
<1>6. amount \in Nat /\ amount = TotalOf(Deposits, a)
  BY DEF Mutates
<1> QED
  BY <1>3, <1>4, <1>5, <1>6 DEF x

\* applyCreditMutation moves the account as the lots are moved.
LEMMA AccountStillMatchesLots ==
  ASSUME TypeOK, AccountMatchesLots,
         NEW op, NEW source, NEW amount, NEW a, Mutates(op, source, amount, a),
         NEW y, LotsMove(a, RemainingMove(op), y)
  PROVE  AccountMatchesLots'
<1> DEFINE old == SumOfLots(LAMBDA l : l.remainingPaid + l.remainingBonus)
           new == SumOver(Deposits, LAMBDA d : lots'[d].remainingPaid + lots'[d].remainingBonus)
<1>1. old \in Int /\ amount \in Nat /\ new = RemainingMove(op) * amount + old
  BY RemainingMoves
<1>2. AccountMatchesLots' <=> available' + reserved' = new
  BY DEF AccountMatchesLots, SumOfLots, SumOver
<1>3. available + reserved = old
  BY DEF AccountMatchesLots
<1> HIDE DEF old, new
<1>4. op \in LedgerOps /\ available' = available + AvailableDelta(op, amount)
      /\ reserved' = reserved + ReservedDelta(op, amount)
  BY DEF Mutates, ApplyCreditMutation
<1>5. available \in Nat /\ reserved \in Nat
  BY DEF TypeOK
<1>6. /\ AvailableDelta(op, amount) \in Int /\ ReservedDelta(op, amount) \in Int
      /\ AvailableDelta(op, amount) + ReservedDelta(op, amount) = RemainingMove(op) * amount
  BY <1>1, <1>4 DEF LedgerOps, AvailableDelta, ReservedDelta, DrawsAvailable, DrawsReserved,
                    RemainingMove, SpendingOps
<1> QED
  BY <1>1, <1>2, <1>3, <1>4, <1>5, <1>6

\* A lot moves as the entry's allocation to it, which replaying the ledger
\* counts.
LEMMA LotsStillReplayLedger ==
  ASSUME TypeOK, LotsReplayLedger,
         NEW op, NEW source, NEW amount, NEW a, Mutates(op, source, amount, a),
         NEW y, LotsMove(a, RemainingMove(op), y)
  PROVE  LotsReplayLedger'
<1>1. LotsReplayLedger <=> \A d \in Deposits :
        /\ lots[d].remainingPaid = PaidBy({"credit"}, d) - PaidBy(SpendingOps, d)
        /\ lots[d].remainingBonus = BonusBy({"credit"}, d) - BonusBy(SpendingOps, d)
  BY DEF LotsReplayLedger, PaidBy, BonusBy
<1>2. LotsReplayLedger' <=> \A d \in Deposits :
        /\ lots'[d].remainingPaid = PaidBy({"credit"}, d)' - PaidBy(SpendingOps, d)'
        /\ lots'[d].remainingBonus = BonusBy({"credit"}, d)' - BonusBy(SpendingOps, d)'
  BY DEF LotsReplayLedger, PaidBy, BonusBy
<1>3. ASSUME NEW d \in Deposits
      PROVE  /\ lots'[d].remainingPaid = PaidBy({"credit"}, d)' - PaidBy(SpendingOps, d)'
             /\ lots'[d].remainingBonus = BonusBy({"credit"}, d)' - BonusBy(SpendingOps, d)'
  <2> DEFINE c == {"credit"}
             s == SpendingOps
             x == RemainingMove(op)
  <2>1. ASSUME NEW ops
        PROVE  /\ PaidBy(ops, d) \in Int /\ BonusBy(ops, d) \in Int
               /\ a[d].paid \in Nat /\ a[d].bonus \in Nat
               /\ PaidBy(ops, d)' = PaidBy(ops, d) + (IF op \in ops THEN a[d].paid ELSE 0)
               /\ BonusBy(ops, d)' = BonusBy(ops, d) + (IF op \in ops THEN a[d].bonus ELSE 0)
    BY AllocatedMoves
  <2>2. x = IF op \in c THEN 1 ELSE IF op \in s THEN -1 ELSE 0
    BY DEF RemainingMove
  <2>3. /\ lots'[d].remainingPaid = lots[d].remainingPaid + x * a[d].paid
        /\ lots'[d].remainingBonus = lots[d].remainingBonus + x * a[d].bonus
    BY DEF LotsMove
  <2>4. ~(op \in c /\ op \in s)
    BY DEF SpendingOps
  <2>5. /\ lots[d].remainingPaid = PaidBy(c, d) - PaidBy(s, d)
        /\ lots[d].remainingBonus = BonusBy(c, d) - BonusBy(s, d)
    BY <1>1
  <2>6. a[d].paid \in Nat /\ a[d].bonus \in Nat
        /\ PaidBy(c, d) \in Int /\ PaidBy(s, d) \in Int
        /\ BonusBy(c, d) \in Int /\ BonusBy(s, d) \in Int
    BY <2>1
  <2>7. /\ PaidBy(c, d)' = PaidBy(c, d) + (IF op \in c THEN a[d].paid ELSE 0)
        /\ BonusBy(c, d)' = BonusBy(c, d) + (IF op \in c THEN a[d].bonus ELSE 0)
    BY <2>1
  <2>8. /\ PaidBy(s, d)' = PaidBy(s, d) + (IF op \in s THEN a[d].paid ELSE 0)
        /\ BonusBy(s, d)' = BonusBy(s, d) + (IF op \in s THEN a[d].bonus ELSE 0)
    BY <2>1
  <2> HIDE DEF c, s, x
  <2>9. CASE op \in c
    <3>1. x = 1 /\ op \notin s
      BY <2>2, <2>4, <2>9
    <3> QED
      BY <2>3, <2>5, <2>6, <2>7, <2>8, <2>9, <3>1 DEF c, s
  <2>10. CASE op \in s
    <3>1. x = -1 /\ op \notin c
      BY <2>2, <2>4, <2>10
    <3> QED
      BY <2>3, <2>5, <2>6, <2>7, <2>8, <2>10, <3>1 DEF c, s
  <2>11. CASE op \notin c /\ op \notin s
    <3>1. x = 0
      BY <2>2, <2>11
    <3> QED
      BY <2>3, <2>5, <2>6, <2>7, <2>8, <2>11, <3>1 DEF c, s
  <2> QED
    BY <2>9, <2>10, <2>11
<1> QED
  BY <1>2, <1>3
-----------------------------------------------------------------------------
\* What is held on a deposit, by a refund and by the open reservations.
OnRefund(d) == IF IsActionable(d) THEN refunds[d] ELSE NoCredits

PaidIn(E, d) == SumOver(E, LAMBDA e : e.allocations[d].paid)

BonusIn(E, d) == SumOver(E, LAMBDA e : e.allocations[d].bonus)

\* The open reservations are finitely many entries.
LEMMA OpenReservationsType ==
  ASSUME TypeOK
  PROVE  /\ IsFiniteSet(OpenReservations)
         /\ \A e \in OpenReservations : e \in Entries
         /\ \A e \in OpenReservations, d \in Deposits :
              e.allocations[d].paid \in Nat /\ e.allocations[d].bonus \in Nat
<1>1. ledger \in Seq(Entries) /\ DOMAIN ledger = 1 .. Len(ledger) /\ Len(ledger) \in Nat
  BY DEF TypeOK
<1>2. IsFiniteSet(1 .. Len(ledger))
  BY <1>1, FS_Interval
<1>3. IsFiniteSet(LedgerEntries)
  BY <1>1, <1>2, FiniteImage DEF LedgerEntries
<1>4. OpenReservations \in SUBSET LedgerEntries
  BY DEF OpenReservations
<1>5. IsFiniteSet(OpenReservations)
  BY <1>3, <1>4, FS_Subset
<1>6. \A e \in OpenReservations : e \in Entries
  BY <1>1, <1>4 DEF LedgerEntries
<1> QED
  BY <1>5, <1>6 DEF Entries, Credits

\* What some entries allocate to a deposit together, and what they do with
\* one entry more.
LEMMA AllocatedInSets ==
  ASSUME NEW E, IsFiniteSet(E), NEW d,
         \A e \in E : e.allocations[d].paid \in Nat /\ e.allocations[d].bonus \in Nat
  PROVE  /\ PaidIn(E, d) \in Nat /\ BonusIn(E, d) \in Nat
         /\ \A e \in E :
              /\ PaidIn(E, d) = e.allocations[d].paid + PaidIn(E \ {e}, d)
              /\ BonusIn(E, d) = e.allocations[d].bonus + BonusIn(E \ {e}, d)
<1> DEFINE p == [e \in E |-> e.allocations[d].paid]
           b == [e \in E |-> e.allocations[d].bonus]
<1>1. \A e \in E : /\ p[e] \in Nat /\ b[e] \in Nat /\ p[e] \in Int /\ b[e] \in Int
                   /\ p[e] = e.allocations[d].paid /\ b[e] = e.allocations[d].bonus
  OBVIOUS
<1>2. PaidIn(E, d) = SumFunctionOnSet(p, E) /\ BonusIn(E, d) = SumFunctionOnSet(b, E)
  BY DEF PaidIn, BonusIn, SumOver
<1>3. ASSUME NEW e \in E
      PROVE  /\ PaidIn(E \ {e}, d) = SumFunctionOnSet(p, E \ {e})
             /\ BonusIn(E \ {e}, d) = SumFunctionOnSet(b, E \ {e})
  <2> DEFINE R == E \ {e}
             q == [f \in R |-> f.allocations[d].paid]
             c == [f \in R |-> f.allocations[d].bonus]
  <2>1. IsFiniteSet(R)
    BY FS_Subset
  <2>2. \A f \in R : q[f] = p[f] /\ c[f] = b[f]
    OBVIOUS
  <2>3. PaidIn(R, d) = SumFunctionOnSet(q, R) /\ BonusIn(R, d) = SumFunctionOnSet(c, R)
    BY DEF PaidIn, BonusIn, SumOver
  <2> HIDE DEF R, q, c, p, b
  <2>4. SumFunctionOnSet(q, R) = SumFunctionOnSet(p, R)
        /\ SumFunctionOnSet(c, R) = SumFunctionOnSet(b, R)
    BY <2>1, <2>2, SumCongruence
  <2> QED
    BY <2>3, <2>4 DEF R
<1> HIDE DEF p, b
<1>4. SumFunctionOnSet(p, E) \in Nat /\ SumFunctionOnSet(b, E) \in Nat
  BY <1>1, SumNat
<1>5. ASSUME NEW e \in E
      PROVE  /\ SumFunctionOnSet(p, E) = p[e] + SumFunctionOnSet(p, E \ {e})
             /\ SumFunctionOnSet(b, E) = b[e] + SumFunctionOnSet(b, E \ {e})
  BY <1>1, SumRemove
<1> QED
  BY <1>1, <1>2, <1>3, <1>4, <1>5

\* Which reservations are open after a mutation: a reservation opens one, its
\* capture or its release closes it, other mutations leave them alone.
LEMMA OpenAfter ==
  ASSUME TypeOK, EntryPerKey, EndsHaveReservations,
         NEW op, NEW source, NEW amount, NEW a, Mutates(op, source, amount, a)
  PROVE  /\ op \notin {"reserve", "capture", "release"} =>
              OpenReservations' = OpenReservations
         /\ op = "reserve" =>
              \E new : /\ new.allocations = a /\ new \notin OpenReservations
                       /\ OpenReservations' = OpenReservations \union {new}
         /\ op \in {"capture", "release"} =>
              \A e \in OpenReservations : e.source = source =>
                OpenReservations' = OpenReservations \ {e}
<1> DEFINE n == Len(ledger)
           new == NewEntry(op, source, amount, a)
<1>1. /\ n \in Nat /\ DOMAIN ledger = 1 .. n
      /\ new.op = op /\ new.source = source /\ new.allocations = a
      /\ DOMAIN ledger' = 1 .. (n + 1) /\ ledger'[n + 1] = new
      /\ \A i \in 1 .. n : ledger'[i] = ledger[i]
      /\ \A o, s : HasEntry(o, s)' <=> HasEntry(o, s) \/ (o = op /\ s = source)
  BY MutationLedger
<1> HIDE DEF n, new
<1>2. 1 .. (n + 1) = (1 .. n) \union {n + 1}
  BY <1>1
<1>3. LedgerEntries' = LedgerEntries \union {new}
  <2>1. LedgerEntries = {ledger[i] : i \in 1 .. n}
        /\ LedgerEntries' = {ledger'[i] : i \in 1 .. (n + 1)}
    BY <1>1 DEF LedgerEntries
  <2> QED
    BY <1>1, <1>2, <2>1
<1>4. \A e : e \in OpenReservations <=>
        /\ e \in LedgerEntries /\ e.op = "reserve"
        /\ ~HasEntry("capture", e.source) /\ ~HasEntry("release", e.source)
  BY DEF OpenReservations
<1>5. \A e : e \in OpenReservations' <=>
        /\ e \in LedgerEntries' /\ e.op = "reserve"
        /\ ~HasEntry("capture", e.source)' /\ ~HasEntry("release", e.source)'
  BY DEF OpenReservations
<1>6. \A e \in LedgerEntries : HasEntry(e.op, e.source)
  BY DEF HasEntry, IsEntry
<1>7. ~HasEntry(op, source)
  BY DEF Mutates
<1>8. CASE op \notin {"reserve", "capture", "release"}
  BY <1>1, <1>3, <1>4, <1>5, <1>8
<1>9. CASE op = "reserve"
  <2>1. ~HasEntry("capture", source) /\ ~HasEntry("release", source)
    BY <1>7, <1>9 DEF EndsHaveReservations
  <2>2. new \notin OpenReservations
    BY <1>1, <1>4, <1>6, <1>7
  <2>3. OpenReservations' = OpenReservations \union {new}
    BY <1>1, <1>3, <1>4, <1>5, <1>9, <2>1
  <2> QED
    BY <1>1, <1>9, <2>2, <2>3
<1>10. CASE op \in {"capture", "release"}
  <2>1. ASSUME NEW e \in OpenReservations, e.source = source
        PROVE  OpenReservations' = OpenReservations \ {e}
    <3>1. ASSUME NEW f \in OpenReservations, f.source = source PROVE f = e
      <4>1. PICK i \in DOMAIN ledger : e = ledger[i]
        BY <1>4 DEF LedgerEntries
      <4>2. PICK j \in DOMAIN ledger : f = ledger[j]
        BY <1>4 DEF LedgerEntries
      <4> QED
        BY <1>4, <2>1, <3>1, <4>1, <4>2 DEF EntryPerKey
    <3> QED
      BY <1>1, <1>3, <1>4, <1>5, <1>10, <2>1, <3>1
  <2> QED
    BY <1>10, <2>1
<1> QED
  BY <1>8, <1>9, <1>10

\* What the open reservations hold on a deposit moves with the reservation
\* that a mutation opens or closes.
ReservedMove(op) ==
  IF op = "reserve" THEN 1 ELSE IF op \in {"capture", "release"} THEN -1 ELSE 0

LEMMA ReservedMoves ==
  ASSUME TypeOK, EntryPerKey, EndsHaveReservations,
         NEW op, NEW source, NEW amount, NEW a, Mutates(op, source, amount, a),
         op \in {"capture", "release"} =>
           \E e \in OpenReservations : e.source = source /\ e.allocations = a,
         NEW d \in Deposits
  PROVE  /\ PaidIn(OpenReservations, d) \in Nat /\ BonusIn(OpenReservations, d) \in Nat
         /\ a[d].paid \in Nat /\ a[d].bonus \in Nat
         /\ PaidIn(OpenReservations', d)
              = PaidIn(OpenReservations, d) + ReservedMove(op) * a[d].paid
         /\ BonusIn(OpenReservations', d)
              = BonusIn(OpenReservations, d) + ReservedMove(op) * a[d].bonus
<1> DEFINE O == OpenReservations
           P == OpenReservations'
<1>1. /\ IsFiniteSet(O)
      /\ \A e \in O : e.allocations[d].paid \in Nat /\ e.allocations[d].bonus \in Nat
  BY OpenReservationsType
<1>2. a[d].paid \in Nat /\ a[d].bonus \in Nat
  BY DEF Mutates, Credits
<1>3. /\ op \notin {"reserve", "capture", "release"} => P = O
      /\ op = "reserve" =>
           \E new : new.allocations = a /\ new \notin O /\ P = O \union {new}
      /\ op \in {"capture", "release"} => \A e \in O : e.source = source => P = O \ {e}
  BY OpenAfter
<1> HIDE DEF O, P
<1>4. PaidIn(O, d) \in Nat /\ BonusIn(O, d) \in Nat
  BY <1>1, AllocatedInSets
<1>5. CASE op \notin {"reserve", "capture", "release"}
  <2>1. P = O /\ ReservedMove(op) = 0
    BY <1>3, <1>5 DEF ReservedMove
  <2> QED
    BY <1>2, <1>4, <2>1 DEF O, P
<1>6. CASE op = "reserve"
  <2>1. PICK new : new.allocations = a /\ new \notin O /\ P = O \union {new}
    BY <1>3, <1>6
  <2>2. /\ IsFiniteSet(P) /\ new \in P /\ P \ {new} = O
        /\ \A e \in P : e.allocations[d].paid \in Nat /\ e.allocations[d].bonus \in Nat
    <3>1. IsFiniteSet(P)
      BY <1>1, <2>1, FS_AddElement
    <3> QED
      BY <1>1, <1>2, <2>1, <3>1
  <2>3. /\ PaidIn(P, d) = new.allocations[d].paid + PaidIn(P \ {new}, d)
        /\ BonusIn(P, d) = new.allocations[d].bonus + BonusIn(P \ {new}, d)
    BY <2>2, AllocatedInSets
  <2>4. /\ PaidIn(P, d) = a[d].paid + PaidIn(O, d)
        /\ BonusIn(P, d) = a[d].bonus + BonusIn(O, d)
    BY <2>1, <2>2, <2>3
  <2>5. ReservedMove(op) = 1
    BY <1>6 DEF ReservedMove
  <2> QED
    BY <1>2, <1>4, <2>4, <2>5 DEF O, P
<1>7. CASE op \in {"capture", "release"}
  <2>1. PICK e \in O : e.source = source /\ e.allocations = a
    BY <1>7 DEF O
  <2>2. P = O \ {e}
    BY <1>3, <1>7, <2>1
  <2>3. /\ PaidIn(O, d) = e.allocations[d].paid + PaidIn(O \ {e}, d)
        /\ BonusIn(O, d) = e.allocations[d].bonus + BonusIn(O \ {e}, d)
    BY <1>1, AllocatedInSets
  <2>4. IsFiniteSet(P)
        /\ \A f \in P : f.allocations[d].paid \in Nat /\ f.allocations[d].bonus \in Nat
    BY <1>1, <2>2, FS_Subset
  <2>5. PaidIn(P, d) \in Nat /\ BonusIn(P, d) \in Nat
    BY <2>4, AllocatedInSets
  <2>6. /\ PaidIn(O, d) = a[d].paid + PaidIn(P, d)
        /\ BonusIn(O, d) = a[d].bonus + BonusIn(P, d)
    BY <2>1, <2>2, <2>3
  <2>7. ReservedMove(op) = -1
    BY <1>7 DEF ReservedMove
  <2> QED
    BY <1>2, <1>4, <2>5, <2>6, <2>7 DEF O, P
<1> QED
  BY <1>5, <1>6, <1>7

\* A mutation moves the refund rows as it moves the lots: a hold that is not
\* a reservation's is a refund's, and a refund paid out is the allocation.
PaidOut(d) == IF refunds[d].status = "settled" THEN refunds[d].paid ELSE 0

RefundsMove(op, a) ==
  \A d \in Deposits :
    /\ OnRefund(d)'.paid = OnRefund(d).paid + (HeldMove(op) - ReservedMove(op)) * a[d].paid
    /\ OnRefund(d)'.bonus = OnRefund(d).bonus + (HeldMove(op) - ReservedMove(op)) * a[d].bonus
    /\ PaidOut(d)' = PaidOut(d) + (IF op = "refund_debit" THEN a[d].paid ELSE 0)

\* A capture or a release ends an open reservation with its allocation.
EndsReservation(op, source, a) ==
  op \in {"capture", "release"} =>
    \E e \in OpenReservations : e.source = source /\ e.allocations = a

\* The lots hold what is held on them when the holds move as the lots do.
LEMMA HoldsStillBacked ==
  ASSUME TypeOK, EntryPerKey, EndsHaveReservations, HoldsAreBacked,
         NEW op, NEW source, NEW amount, NEW a, Mutates(op, source, amount, a),
         EndsReservation(op, source, a), RefundsMove(op, a),
         NEW x, LotsMove(a, x, HeldMove(op))
  PROVE  HoldsAreBacked'
<1>1. HoldsAreBacked <=> \A d \in Deposits :
        /\ lots[d].heldPaid = OnRefund(d).paid + PaidIn(OpenReservations, d)
        /\ lots[d].heldBonus = OnRefund(d).bonus + BonusIn(OpenReservations, d)
  BY DEF HoldsAreBacked, OnRefund, PaidIn, BonusIn
<1>2. HoldsAreBacked' <=> \A d \in Deposits :
        /\ lots'[d].heldPaid = OnRefund(d)'.paid + PaidIn(OpenReservations', d)
        /\ lots'[d].heldBonus = OnRefund(d)'.bonus + BonusIn(OpenReservations', d)
  BY DEF HoldsAreBacked, OnRefund, PaidIn, BonusIn, SumOver
<1>3. ASSUME NEW d \in Deposits
      PROVE  /\ lots'[d].heldPaid = OnRefund(d)'.paid + PaidIn(OpenReservations', d)
             /\ lots'[d].heldBonus = OnRefund(d)'.bonus + BonusIn(OpenReservations', d)
  <2> DEFINE y == HeldMove(op)
             r == ReservedMove(op)
             p == a[d].paid
             b == a[d].bonus
             rp == PaidIn(OpenReservations, d)
             rb == BonusIn(OpenReservations, d)
             op1 == OnRefund(d).paid
             ob1 == OnRefund(d).bonus
             np == OnRefund(d)'.paid
             nb == OnRefund(d)'.bonus
  <2>1. /\ rp \in Nat /\ rb \in Nat /\ p \in Nat /\ b \in Nat
        /\ PaidIn(OpenReservations', d) = rp + r * p
        /\ BonusIn(OpenReservations', d) = rb + r * b
    BY ReservedMoves DEF EndsReservation
  <2>2. y \in {-1, 0, 1} /\ r \in {-1, 0, 1}
    BY DEF HeldMove, ReservedMove
  <2>3. op1 \in Int /\ ob1 \in Int
    BY DEF OnRefund, TypeOK, Refunds, NoCredits
  <2>4. /\ lots'[d].heldPaid = lots[d].heldPaid + y * p
        /\ lots'[d].heldBonus = lots[d].heldBonus + y * b
    BY DEF LotsMove
  <2>5. lots[d].heldPaid = op1 + rp /\ lots[d].heldBonus = ob1 + rb
    BY <1>1
  <2>6. np = op1 + (y - r) * p /\ nb = ob1 + (y - r) * b
    BY DEF RefundsMove
  <2> HIDE DEF y, r, p, b, rp, rb, op1, ob1
  <2>7. /\ (y - r) * p = y * p - r * p /\ y * p \in Int /\ r * p \in Int
        /\ (y - r) * b = y * b - r * b /\ y * b \in Int /\ r * b \in Int
    BY <2>1, <2>2
  <2> HIDE DEF np, nb
  <2>8. /\ lots'[d].heldPaid = np + PaidIn(OpenReservations', d)
        /\ lots'[d].heldBonus = nb + BonusIn(OpenReservations', d)
    BY <2>1, <2>3, <2>4, <2>5, <2>6, <2>7
  <2> QED
    BY <2>8 DEF np, nb
<1> QED
  BY <1>2, <1>3

\* The books still balance after a mutation of the lots, the account, the
\* ledger and the refunds by one allocation.
LEMMA BooksKept ==
  ASSUME IInv, Books, NEW op, NEW source, NEW amount, NEW a,
         Mutates(op, source, amount, a), EndsReservation(op, source, a),
         LotsMove(a, RemainingMove(op), HeldMove(op)), RefundsMove(op, a),
         \A d \in Deposits :
           lots'[d].paidCredits = lots[d].paidCredits
                                  + (IF op = "credit" THEN a[d].paid ELSE 0),
         UncreditedAreEmpty'
  PROVE  Books'
<1>1. /\ TypeOK /\ EntryPerKey /\ EntriesBalance /\ EndsHaveReservations
      /\ CreditsAreBought /\ RefundsArePaidOut /\ AccountMatchesLots
      /\ LotsReplayLedger /\ HoldsAreBacked
  BY DEF IInv, Books
<1>2. EntriesBalance'
  BY <1>1, EntriesStillBalance
<1>3. AccountMatchesLots'
  BY <1>1, AccountStillMatchesLots
<1>4. LotsReplayLedger'
  BY <1>1, LotsStillReplayLedger
<1>5. HoldsAreBacked'
  BY <1>1, HoldsStillBacked
<1>6. EndsHaveReservations'
  <2>1. \A o, s : HasEntry(o, s)' <=> HasEntry(o, s) \/ (o = op /\ s = source)
    BY <1>1, MutationLedger
  <2>2. op \in {"capture", "release"} => HasEntry("reserve", source)
    BY DEF EndsReservation, OpenReservations, HasEntry, IsEntry
  <2> QED
    BY <1>1, <2>1, <2>2 DEF EndsHaveReservations
<1>7. ASSUME NEW ops, NEW d \in Deposits
      PROVE  PaidBy(ops, d)' = PaidBy(ops, d) + (IF op \in ops THEN a[d].paid ELSE 0)
  BY <1>1, AllocatedMoves
<1>8. CreditsAreBought'
  <2>1. ASSUME NEW d \in Deposits
        PROVE  PaidBy({"credit"}, d)' = lots'[d].paidCredits
    <3>1. PaidBy({"credit"}, d)'
            = PaidBy({"credit"}, d) + (IF op \in {"credit"} THEN a[d].paid ELSE 0)
      BY <1>7
    <3>2. PaidBy({"credit"}, d) = lots[d].paidCredits
      BY <1>1 DEF CreditsAreBought
    <3>3. op \in {"credit"} <=> op = "credit"
      OBVIOUS
    <3> QED
      BY <3>1, <3>2, <3>3, Zenon
  <2> QED
    BY <2>1 DEF CreditsAreBought
<1>9. RefundsArePaidOut'
  <2>1. RefundsArePaidOut <=> \A d \in Deposits : PaidBy({"refund_debit"}, d) = PaidOut(d)
    BY DEF RefundsArePaidOut, PaidOut
  <2>2. RefundsArePaidOut' <=> \A d \in Deposits : PaidBy({"refund_debit"}, d)' = PaidOut(d)'
    BY DEF RefundsArePaidOut, PaidOut
  <2>3. ASSUME NEW d \in Deposits
        PROVE  PaidBy({"refund_debit"}, d)' = PaidOut(d)'
    <3>1. PaidBy({"refund_debit"}, d)'
            = PaidBy({"refund_debit"}, d) + (IF op \in {"refund_debit"} THEN a[d].paid ELSE 0)
      BY <1>7
    <3>2. PaidBy({"refund_debit"}, d) = PaidOut(d)
      BY <1>1, <2>1
    <3>3. op \in {"refund_debit"} <=> op = "refund_debit"
      OBVIOUS
    <3>4. PaidOut(d)' = PaidOut(d) + (IF op = "refund_debit" THEN a[d].paid ELSE 0)
      BY DEF RefundsMove
    <3> QED
      BY <3>1, <3>2, <3>3, <3>4, Zenon
  <2> QED
    BY <2>2, <2>3
<1> QED
  BY <1>2, <1>3, <1>4, <1>5, <1>6, <1>8, <1>9 DEF Books

\* Where the allocation is to credited lots only, and moves them as
\* updateLotsForSpend and updateLotsForHold do.
LEMMA AdjustedBooks ==
  ASSUME IInv, Books, NEW op, op # "credit", NEW source, NEW amount, NEW a,
         Mutates(op, source, amount, a), EndsReservation(op, source, a),
         AdjustLots(a, RemainingMove(op), HeldMove(op)), RefundsMove(op, a),
         \A d \in Deposits : lots[d].status # "credited" =>
                               a[d].paid = 0 /\ a[d].bonus = 0
  PROVE  Books'
<1> DEFINE x == RemainingMove(op)
           y == HeldMove(op)
<1>1. x \in Int /\ y \in Int
  BY DEF RemainingMove, HeldMove
<1>2. AdjustLots(a, x, y)
  OBVIOUS
<1> HIDE DEF x, y
<1>3. ASSUME NEW d \in Deposits
      PROVE  /\ lots'[d].remainingPaid = lots[d].remainingPaid + x * a[d].paid
             /\ lots'[d].remainingBonus = lots[d].remainingBonus + x * a[d].bonus
             /\ lots'[d].heldPaid = lots[d].heldPaid + y * a[d].paid
             /\ lots'[d].heldBonus = lots[d].heldBonus + y * a[d].bonus
             /\ lots'[d].status = lots[d].status
             /\ lots'[d].paidCredits = lots[d].paidCredits
             /\ lots[d].paidCredits \in Nat
  <2> DEFINE l == lots[d]
             rp == l.remainingPaid + x * a[d].paid
             rb == l.remainingBonus + x * a[d].bonus
             hp == l.heldPaid + y * a[d].paid
             hb == l.heldBonus + y * a[d].bonus
  <2>1. l \in LotRows
    BY DEF IInv, TypeOK
  <2>2. lots'[d] = [l EXCEPT !.remainingPaid = rp, !.remainingBonus = rb,
                             !.heldPaid = hp, !.heldBonus = hb]
    BY <1>2 DEF AdjustLots
  <2>3. /\ rp = lots[d].remainingPaid + x * a[d].paid
        /\ rb = lots[d].remainingBonus + x * a[d].bonus
        /\ hp = lots[d].heldPaid + y * a[d].paid
        /\ hb = lots[d].heldBonus + y * a[d].bonus
        /\ l = lots[d]
    OBVIOUS
  <2> HIDE DEF l, rp, rb, hp, hb
  <2>4. /\ lots'[d].remainingPaid = rp /\ lots'[d].remainingBonus = rb
        /\ lots'[d].heldPaid = hp /\ lots'[d].heldBonus = hb
        /\ lots'[d].status = l.status /\ lots'[d].paidCredits = l.paidCredits
        /\ l.paidCredits \in Nat
    BY <2>1, <2>2 DEF LotRows
  <2> QED
    BY <2>3, <2>4
<1>4. LotsMove(a, x, y)
  BY <1>3 DEF LotsMove
<1>5. UncreditedAreEmpty'
  <2>1. ASSUME NEW d \in Deposits, lots'[d].status # "credited"
        PROVE  /\ lots'[d].remainingPaid = 0 /\ lots'[d].remainingBonus = 0
               /\ lots'[d].heldPaid = 0 /\ lots'[d].heldBonus = 0
               /\ lots'[d].paidCredits = 0
    <3>1. lots[d].status # "credited" /\ a[d].paid = 0 /\ a[d].bonus = 0
      BY <1>3, <2>1
    <3>2. /\ lots[d].remainingPaid = 0 /\ lots[d].remainingBonus = 0
          /\ lots[d].heldPaid = 0 /\ lots[d].heldBonus = 0
          /\ lots[d].paidCredits = 0
      BY <3>1 DEF Books, UncreditedAreEmpty
    <3>3. x * 0 = 0 /\ y * 0 = 0
      BY <1>1
    <3> QED
      BY <1>3, <3>1, <3>2, <3>3
  <2> QED
    BY <2>1 DEF UncreditedAreEmpty
<1>6. \A d \in Deposits :
        lots'[d].paidCredits = lots[d].paidCredits + (IF op = "credit" THEN a[d].paid ELSE 0)
  BY <1>3
<1> QED
  BY <1>4, <1>5, <1>6, BooksKept DEF x, y
-----------------------------------------------------------------------------
LEMMA InitBooks == Init => Books
<1> SUFFICES ASSUME Init PROVE Books
  OBVIOUS
<1>1. ledger = << >> /\ DOMAIN ledger = {}
  BY DEF Init
<1>2. \A o, s : ~HasEntry(o, s)
  BY <1>1 DEF HasEntry, LedgerEntries
<1>3. EntriesBalance /\ UncreditedAreEmpty /\ EndsHaveReservations
  BY <1>1, <1>2 DEF Init, EntriesBalance, UncreditedAreEmpty, EndsHaveReservations, NoLot
<1>4. ASSUME NEW ops, NEW d
      PROVE  PaidBy(ops, d) = 0 /\ BonusBy(ops, d) = 0
  <2> DEFINE K == {i \in DOMAIN ledger : ledger[i].op \in ops}
             p == [i \in K |-> ledger[i].allocations[d].paid]
             b == [i \in K |-> ledger[i].allocations[d].bonus]
  <2>1. K = {}
    BY <1>1
  <2>2. PaidBy(ops, d) = SumFunctionOnSet(p, K) /\ BonusBy(ops, d) = SumFunctionOnSet(b, K)
    BY DEF PaidBy, BonusBy, AllocatedBy, SumOver
  <2> HIDE DEF K, p, b
  <2> QED
    BY <2>1, <2>2, SumEmpty
<1>5. CreditsAreBought /\ RefundsArePaidOut
  BY <1>4 DEF Init, CreditsAreBought, RefundsArePaidOut, NoLot
<1>6. AccountMatchesLots
  <2> DEFINE w == [d \in Deposits |-> lots[d].remainingPaid + lots[d].remainingBonus]
  <2>1. \A d \in Deposits : w[d] = 0
    BY DEF Init, NoLot
  <2>2. AccountMatchesLots <=> available + reserved = SumFunctionOnSet(w, Deposits)
    BY DEF AccountMatchesLots, SumOfLots, SumOver
  <2> HIDE DEF w
  <2>3. SumFunctionOnSet(w, Deposits) = 0
    BY <2>1, SumZero, CreditLedgerAssumption
  <2> QED
    BY <2>2, <2>3 DEF Init
<1>7. LotsReplayLedger
  <2>1. LotsReplayLedger <=> \A d \in Deposits :
          /\ lots[d].remainingPaid = PaidBy({"credit"}, d) - PaidBy(SpendingOps, d)
          /\ lots[d].remainingBonus = BonusBy({"credit"}, d) - BonusBy(SpendingOps, d)
    BY DEF LotsReplayLedger, PaidBy, BonusBy
  <2> QED
    BY <1>4, <2>1 DEF Init, NoLot
<1>8. HoldsAreBacked
  <2>1. OpenReservations = {}
    BY <1>1 DEF OpenReservations, LedgerEntries
  <2>2. ASSUME NEW d PROVE PaidIn({}, d) = 0 /\ BonusIn({}, d) = 0
    <3> DEFINE p == [e \in {} |-> e.allocations[d].paid]
               b == [e \in {} |-> e.allocations[d].bonus]
    <3>1. PaidIn({}, d) = SumFunctionOnSet(p, {}) /\ BonusIn({}, d) = SumFunctionOnSet(b, {})
      BY DEF PaidIn, BonusIn, SumOver
    <3> HIDE DEF p, b
    <3> QED
      BY <3>1, SumEmpty
  <2>3. HoldsAreBacked <=> \A d \in Deposits :
          /\ lots[d].heldPaid = OnRefund(d).paid + PaidIn(OpenReservations, d)
          /\ lots[d].heldBonus = OnRefund(d).bonus + BonusIn(OpenReservations, d)
    BY DEF HoldsAreBacked, OnRefund, PaidIn, BonusIn
  <2>4. \A d \in Deposits : /\ lots[d].heldPaid = 0 /\ lots[d].heldBonus = 0
                            /\ OnRefund(d).paid = 0 /\ OnRefund(d).bonus = 0
    BY DEF Init, NoLot, OnRefund, IsActionable, NoCredits
  <2> QED
    BY <2>1, <2>2, <2>3, <2>4
<1> QED
  BY <1>3, <1>5, <1>6, <1>7, <1>8 DEF Books
-----------------------------------------------------------------------------
\* A step that moves no balance leaves the books balanced: it may record a
\* transfer, park or clear a deposit, or approve a refund.
LEMMA RowsBalance ==
  ASSUME Books, UNCHANGED <<available, reserved, ledger>>,
         \A d \in Deposits :
           /\ OnRefund(d)'.paid = OnRefund(d).paid
           /\ OnRefund(d)'.bonus = OnRefund(d).bonus
           /\ PaidOut(d)' = PaidOut(d),
         \A d \in Deposits :
           /\ lots'[d].remainingPaid = lots[d].remainingPaid
           /\ lots'[d].remainingBonus = lots[d].remainingBonus
           /\ lots'[d].heldPaid = lots[d].heldPaid
           /\ lots'[d].heldBonus = lots[d].heldBonus
           /\ lots'[d].paidCredits = lots[d].paidCredits
           /\ lots[d].status = "credited" => lots'[d].status = "credited"
  PROVE  Books'
<1>1. \A o, s : HasEntry(o, s)' <=> HasEntry(o, s)
  BY DEF HasEntry, LedgerEntries
<1>2. ASSUME NEW ops, NEW d
      PROVE  PaidBy(ops, d)' = PaidBy(ops, d) /\ BonusBy(ops, d)' = BonusBy(ops, d)
  BY DEF PaidBy, BonusBy, AllocatedBy, SumOver
<1>3. EntriesBalance' /\ UncreditedAreEmpty'
  BY DEF Books, EntriesBalance, UncreditedAreEmpty
<1>4. EndsHaveReservations' /\ CreditsAreBought'
  BY <1>1, <1>2 DEF Books, EndsHaveReservations, CreditsAreBought
<1>8. RefundsArePaidOut'
  <2>1. RefundsArePaidOut <=> \A d \in Deposits : PaidBy({"refund_debit"}, d) = PaidOut(d)
    BY DEF RefundsArePaidOut, PaidOut
  <2>2. RefundsArePaidOut' <=> \A d \in Deposits : PaidBy({"refund_debit"}, d)' = PaidOut(d)'
    BY DEF RefundsArePaidOut, PaidOut
  <2> QED
    BY <1>2, <2>1, <2>2 DEF Books
<1>5. AccountMatchesLots'
  <2> DEFINE w == [d \in Deposits |-> lots[d].remainingPaid + lots[d].remainingBonus]
             v == [d \in Deposits |-> lots'[d].remainingPaid + lots'[d].remainingBonus]
  <2>1. v = w
    OBVIOUS
  <2>2. AccountMatchesLots <=> available + reserved = SumFunctionOnSet(w, Deposits)
    BY DEF AccountMatchesLots, SumOfLots, SumOver
  <2>3. AccountMatchesLots' <=> available' + reserved' = SumFunctionOnSet(v, Deposits)
    BY DEF AccountMatchesLots, SumOfLots, SumOver
  <2> HIDE DEF w, v
  <2> QED
    BY <2>1, <2>2, <2>3 DEF Books
<1>6. LotsReplayLedger'
  <2>1. LotsReplayLedger <=> \A d \in Deposits :
          /\ lots[d].remainingPaid = PaidBy({"credit"}, d) - PaidBy(SpendingOps, d)
          /\ lots[d].remainingBonus = BonusBy({"credit"}, d) - BonusBy(SpendingOps, d)
    BY DEF LotsReplayLedger, PaidBy, BonusBy
  <2>2. LotsReplayLedger' <=> \A d \in Deposits :
          /\ lots'[d].remainingPaid = PaidBy({"credit"}, d)' - PaidBy(SpendingOps, d)'
          /\ lots'[d].remainingBonus = BonusBy({"credit"}, d)' - BonusBy(SpendingOps, d)'
    BY DEF LotsReplayLedger, PaidBy, BonusBy
  <2> QED
    BY <1>2, <2>1, <2>2 DEF Books
<1>7. HoldsAreBacked'
  <2>1. OpenReservations' = OpenReservations
    BY DEF OpenReservations, LedgerEntries, HasEntry
  <2>3. HoldsAreBacked <=> \A d \in Deposits :
          /\ lots[d].heldPaid = OnRefund(d).paid + PaidIn(OpenReservations, d)
          /\ lots[d].heldBonus = OnRefund(d).bonus + BonusIn(OpenReservations, d)
    BY DEF HoldsAreBacked, OnRefund, PaidIn, BonusIn
  <2>4. HoldsAreBacked' <=> \A d \in Deposits :
          /\ lots'[d].heldPaid = OnRefund(d)'.paid + PaidIn(OpenReservations', d)
          /\ lots'[d].heldBonus = OnRefund(d)'.bonus + BonusIn(OpenReservations', d)
    BY DEF HoldsAreBacked, OnRefund, PaidIn, BonusIn, SumOver
  <2> QED
    BY <2>1, <2>3, <2>4 DEF Books
<1> QED
  BY <1>3, <1>4, <1>5, <1>6, <1>7, <1>8 DEF Books

LEMMA BooksStand ==
  ASSUME Books, UNCHANGED <<lots, available, reserved, ledger, refunds>>
  PROVE  Books'
<1>1. \A d \in Deposits : OnRefund(d)' = OnRefund(d) /\ PaidOut(d)' = PaidOut(d)
  BY DEF OnRefund, PaidOut, IsActionable
<1> QED
  BY <1>1, RowsBalance

\* Operations that touch no refund.
LEMMA RefundsStand ==
  ASSUME TypeOK, NEW op \in {"credit", "debit", "reserve", "capture", "release"},
         NEW a \in [Deposits -> Credits], UNCHANGED refunds
  PROVE  RefundsMove(op, a)
<1>1. HeldMove(op) = ReservedMove(op) /\ HeldMove(op) \in Int
  BY DEF HeldMove, ReservedMove
<1>2. ASSUME NEW d \in Deposits
      PROVE  /\ OnRefund(d)'.paid = OnRefund(d).paid + (HeldMove(op) - ReservedMove(op)) * a[d].paid
             /\ OnRefund(d)'.bonus = OnRefund(d).bonus + (HeldMove(op) - ReservedMove(op)) * a[d].bonus
             /\ PaidOut(d)' = PaidOut(d) + (IF op = "refund_debit" THEN a[d].paid ELSE 0)
  <2>1. OnRefund(d)' = OnRefund(d) /\ PaidOut(d)' = PaidOut(d)
    BY DEF OnRefund, IsActionable, PaidOut
  <2>2. OnRefund(d).paid \in Nat /\ OnRefund(d).bonus \in Nat /\ PaidOut(d) \in Nat
    BY DEF TypeOK, Refunds, OnRefund, PaidOut, NoCredits
  <2>3. a[d].paid \in Nat /\ a[d].bonus \in Nat
    BY DEF Credits
  <2>4. HeldMove(op) - ReservedMove(op) = 0
    BY <1>1
  <2> QED
    BY <2>1, <2>2, <2>3, <2>4
<1> QED
  BY <1>2 DEF RefundsMove

\* A charge allocates its amount to lots with credits left, which are credited.
LEMMA ChargeAllocates ==
  ASSUME IInv, UncreditedAreEmpty, NEW amount \in Charges, NEW a \in Allocations(amount)
  PROVE  /\ amount \in Nat /\ a \in [Deposits -> Credits] /\ amount = TotalOf(Deposits, a)
         /\ \A d \in Deposits : lots[d].status # "credited" =>
                                  a[d].paid = 0 /\ a[d].bonus = 0
<1>1. amount \in Nat \ {0}
  BY CreditLedgerAssumption
<1>2. TypeOK /\ PaidHoldsCovered
  BY DEF IInv
<1>3. a \in [Deposits -> Credits] /\ amount = TotalOf(Deposits, a)
  BY <1>1, <1>2, AllocationsBound
<1>4. ASSUME NEW d \in Deposits, lots[d].status # "credited"
      PROVE  a[d].paid = 0 /\ a[d].bonus = 0
  <2>1. d \notin CandidateLots
    BY <1>4 DEF CandidateLots, UncreditedAreEmpty
  <2>2. a[d] = NoCredits
    BY <1>1, <1>2, <2>1, AllocationParts
  <2> QED
    BY <2>2 DEF NoCredits
<1> QED
  BY <1>1, <1>3, <1>4

LEMMA SettleChatUsageChargeBalances ==
  ASSUME IInv, Books, NEW m \in Messages, NEW amount \in Charges,
         SettleChatUsageCharge(m, amount)
  PROVE  Books'
<1>1. PICK a \in Allocations(amount) :
        UpdateLotsForSpend(a) /\ ApplyCreditMutation("debit", m, amount, a)
  BY DEF SettleChatUsageCharge
<1>2. ~HasEntry("debit", m) /\ UNCHANGED refunds
  BY DEF SettleChatUsageCharge
<1>3. /\ amount \in Nat /\ a \in [Deposits -> Credits] /\ amount = TotalOf(Deposits, a)
      /\ \A d \in Deposits : lots[d].status # "credited" =>
                               a[d].paid = 0 /\ a[d].bonus = 0
  BY ChargeAllocates DEF Books
<1>4. Mutates("debit", m, amount, a)
  BY <1>1, <1>2, <1>3 DEF Mutates, LedgerOps, Sources
<1>5. AdjustLots(a, RemainingMove("debit"), HeldMove("debit"))
  BY <1>1 DEF UpdateLotsForSpend, RemainingMove, HeldMove, SpendingOps
<1>6. RefundsMove("debit", a) /\ EndsReservation("debit", m, a)
  BY <1>2, <1>3, RefundsStand DEF EndsReservation, IInv
<1> QED
  BY <1>3, <1>4, <1>5, <1>6, AdjustedBooks

LEMMA ReserveImageCreditsBalances ==
  ASSUME IInv, Books, NEW r \in ImageRequests, NEW amount \in Charges,
         ReserveImageCredits(r, amount)
  PROVE  Books'
<1>1. PICK a \in Allocations(amount) :
        UpdateLotsForHold(a) /\ ApplyCreditMutation("reserve", r, amount, a)
  BY DEF ReserveImageCredits
<1>2. ~HasEntry("reserve", r) /\ UNCHANGED refunds
  BY DEF ReserveImageCredits
<1>3. /\ amount \in Nat /\ a \in [Deposits -> Credits] /\ amount = TotalOf(Deposits, a)
      /\ \A d \in Deposits : lots[d].status # "credited" =>
                               a[d].paid = 0 /\ a[d].bonus = 0
  BY ChargeAllocates DEF Books
<1>4. Mutates("reserve", r, amount, a)
  BY <1>1, <1>2, <1>3 DEF Mutates, LedgerOps, Sources
<1>5. AdjustLots(a, RemainingMove("reserve"), HeldMove("reserve"))
  BY <1>1 DEF UpdateLotsForHold, RemainingMove, HeldMove, SpendingOps
<1>6. RefundsMove("reserve", a) /\ EndsReservation("reserve", r, a)
  BY <1>2, <1>3, RefundsStand DEF EndsReservation, IInv
<1> QED
  BY <1>3, <1>4, <1>5, <1>6, AdjustedBooks

\* A reservation that is still open has the amount its entry says, and lies
\* on credited lots, as nothing is held on the others.
LEMMA OpenReservationAllocates ==
  ASSUME IInv, Books, NEW e \in OpenReservations
  PROVE  /\ e.amount \in Nat /\ e.allocations \in [Deposits -> Credits]
         /\ e.amount = TotalOf(Deposits, e.allocations)
         /\ \A d \in Deposits : lots[d].status # "credited" =>
              e.allocations[d].paid = 0 /\ e.allocations[d].bonus = 0
<1>1. e \in LedgerEntries
  BY DEF OpenReservations
<1>2. e.amount \in Nat /\ e.allocations \in [Deposits -> Credits]
  BY <1>1, EntryType DEF IInv
<1>3. e.amount = TotalOf(Deposits, e.allocations)
  BY <1>1 DEF Books, EntriesBalance, LedgerEntries
<1>4. ASSUME NEW d \in Deposits, lots[d].status # "credited"
      PROVE  e.allocations[d].paid = 0 /\ e.allocations[d].bonus = 0
  <2> DEFINE O == OpenReservations
  <2>1. lots[d].heldPaid = 0 /\ lots[d].heldBonus = 0
    BY <1>4 DEF Books, UncreditedAreEmpty
  <2>2. /\ lots[d].heldPaid = OnRefund(d).paid + PaidIn(OpenReservations, d)
        /\ lots[d].heldBonus = OnRefund(d).bonus + BonusIn(OpenReservations, d)
    BY DEF Books, HoldsAreBacked, OnRefund, PaidIn, BonusIn
  <2>3. /\ IsFiniteSet(O) /\ IsFiniteSet(O \ {e})
        /\ \A f \in O : f.allocations[d].paid \in Nat /\ f.allocations[d].bonus \in Nat
    BY OpenReservationsType, FS_Subset DEF IInv
  <2>4. OnRefund(d).paid \in Nat /\ OnRefund(d).bonus \in Nat
    BY DEF IInv, TypeOK, Refunds, OnRefund, NoCredits
  <2> HIDE DEF O
  <2>5. PaidIn(O \ {e}, d) \in Nat /\ BonusIn(O \ {e}, d) \in Nat
    BY <2>3, AllocatedInSets
  <2>6. e \in O
    BY DEF O
  <2>7. /\ PaidIn(O, d) = e.allocations[d].paid + PaidIn(O \ {e}, d)
        /\ BonusIn(O, d) = e.allocations[d].bonus + BonusIn(O \ {e}, d)
    BY <2>3, <2>6, AllocatedInSets
  <2>8. lots[d].heldPaid = OnRefund(d).paid + PaidIn(O, d)
        /\ lots[d].heldBonus = OnRefund(d).bonus + BonusIn(O, d)
    BY <2>2 DEF O
  <2> DEFINE p == e.allocations[d].paid
             b == e.allocations[d].bonus
             rp == OnRefund(d).paid
             rb == OnRefund(d).bonus
  <2>9. p \in Nat /\ b \in Nat /\ rp \in Nat /\ rb \in Nat
    BY <2>3, <2>4, <2>6
  <2>10. /\ 0 = rp + (p + PaidIn(O \ {e}, d))
         /\ 0 = rb + (b + BonusIn(O \ {e}, d))
    BY <2>1, <2>7, <2>8
  <2> HIDE DEF p, b, rp, rb
  <2>11. p = 0 /\ b = 0
    BY <2>5, <2>9, <2>10
  <2> QED
    BY <2>11 DEF p, b
<1> QED
  BY <1>2, <1>3, <1>4

LEMMA EndReservationBalances ==
  ASSUME IInv, Books, NEW op \in {"capture", "release"}, NEW r \in ImageRequests,
         NEW e \in OpenReservations, e.source = r, ~HasEntry(op, r),
         AdjustLots(e.allocations, RemainingMove(op), -1),
         ApplyCreditMutation(op, r, e.amount, e.allocations), UNCHANGED refunds
  PROVE  Books'
<1>1. /\ e.amount \in Nat /\ e.allocations \in [Deposits -> Credits]
      /\ e.amount = TotalOf(Deposits, e.allocations)
      /\ \A d \in Deposits : lots[d].status # "credited" =>
           e.allocations[d].paid = 0 /\ e.allocations[d].bonus = 0
  BY OpenReservationAllocates
<1>2. Mutates(op, r, e.amount, e.allocations)
  BY <1>1 DEF Mutates, LedgerOps, Sources
<1>3. HeldMove(op) = -1 /\ op # "credit"
  BY DEF HeldMove
<1>4. RefundsMove(op, e.allocations) /\ EndsReservation(op, r, e.allocations)
  BY <1>1, RefundsStand DEF EndsReservation, IInv
<1> QED
  BY <1>1, <1>2, <1>3, <1>4, AdjustedBooks

LEMMA CaptureReservedImageCreditsBalances ==
  ASSUME IInv, Books, NEW r \in ImageRequests, CaptureReservedImageCredits(r)
  PROVE  Books'
<1>1. PICK e \in LedgerEntries :
        /\ IsEntry(e, "reserve", r)
        /\ UpdateLotsForCapture(e.allocations)
        /\ ApplyCreditMutation("capture", r, e.amount, e.allocations)
  BY DEF CaptureReservedImageCredits
<1>2. task[r] = "running" /\ ~HasEntry("capture", r) /\ UNCHANGED refunds
  BY DEF CaptureReservedImageCredits
<1>3. ~HasEntry("release", r)
  BY <1>2 DEF IInv, StatusRecordsEntries
<1>4. e \in OpenReservations /\ e.source = r
  BY <1>1, <1>2, <1>3 DEF OpenReservations, IsEntry
<1>5. AdjustLots(e.allocations, RemainingMove("capture"), -1)
  BY <1>1 DEF UpdateLotsForCapture, RemainingMove, SpendingOps
<1> QED
  BY <1>1, <1>2, <1>4, <1>5, EndReservationBalances

LEMMA ReleaseReservedImageCreditsBalances ==
  ASSUME IInv, Books, NEW r \in ImageRequests, ReleaseReservedImageCredits(r)
  PROVE  Books'
<1>1. UNCHANGED refunds
  BY DEF ReleaseReservedImageCredits
<1>2. CASE HasEntry("release", r) \/ HasEntry("capture", r)
  BY <1>1, <1>2, BooksStand DEF ReleaseReservedImageCredits
<1>3. CASE ~(HasEntry("release", r) \/ HasEntry("capture", r))
  <2>1. PICK e \in LedgerEntries :
          /\ IsEntry(e, "reserve", r)
          /\ UpdateLotsForRelease(e.allocations)
          /\ ApplyCreditMutation("release", r, e.amount, e.allocations)
    BY <1>3 DEF ReleaseReservedImageCredits
  <2>2. e \in OpenReservations /\ e.source = r
    BY <1>3, <2>1 DEF OpenReservations, IsEntry
  <2>3. AdjustLots(e.allocations, RemainingMove("release"), -1)
    BY <2>1 DEF UpdateLotsForRelease, RemainingMove, SpendingOps
  <2> QED
    BY <1>1, <1>3, <2>1, <2>2, <2>3, EndReservationBalances
<1> QED
  BY <1>2, <1>3
-----------------------------------------------------------------------------
\* A transfer that is recorded has no balances, new or not.
LEMMA RecordedRow ==
  ASSUME IInv, Books, NEW d \in Deposits, lots[d].status # "credited",
         NEW asset, NEW amount, NEW status \in {"confirming", "confirmed"}
  PROVE  LET row == [RecordTransfer(d, asset, amount) EXCEPT !.status = status]
         IN  /\ row.remainingPaid = 0 /\ row.remainingBonus = 0
             /\ row.heldPaid = 0 /\ row.heldBonus = 0 /\ row.paidCredits = 0
<1>1. lots[d] \in LotRows
  BY DEF IInv, TypeOK
<1>2. /\ lots[d].remainingPaid = 0 /\ lots[d].remainingBonus = 0
      /\ lots[d].heldPaid = 0 /\ lots[d].heldBonus = 0
      /\ lots[d].paidCredits = 0
  BY DEF Books, UncreditedAreEmpty
<1>3. CASE lots[d].status = "absent"
  BY <1>3 DEF RecordTransfer, NoLot
<1>4. CASE lots[d].status # "absent"
  BY <1>1, <1>2, <1>4 DEF RecordTransfer, LotRows
<1> QED
  BY <1>3, <1>4

LEMMA IngestUnconfirmedBalances ==
  ASSUME IInv, Books, NEW d \in Deposits, NEW asset \in Assets, NEW amount \in Amounts,
         lots[d].status # "credited", IngestUnconfirmed(d, asset, amount)
  PROVE  Books'
<1> DEFINE row == [RecordTransfer(d, asset, amount) EXCEPT !.status = "confirming"]
<1>1. /\ row.remainingPaid = 0 /\ row.remainingBonus = 0
      /\ row.heldPaid = 0 /\ row.heldBonus = 0 /\ row.paidCredits = 0
  BY RecordedRow
<1>2. lots \in [Deposits -> LotRows] /\ lots' = [lots EXCEPT ![d] = row]
  BY DEF IngestUnconfirmed, IInv, TypeOK
<1>3. UNCHANGED <<available, reserved, ledger, refunds>>
  BY DEF IngestUnconfirmed
<1>4. /\ lots[d].remainingPaid = 0 /\ lots[d].remainingBonus = 0
      /\ lots[d].heldPaid = 0 /\ lots[d].heldBonus = 0
      /\ lots[d].paidCredits = 0
  BY DEF Books, UncreditedAreEmpty
<1> HIDE DEF row
<1>5. \A c \in Deposits :
        /\ lots'[c].remainingPaid = lots[c].remainingPaid
        /\ lots'[c].remainingBonus = lots[c].remainingBonus
        /\ lots'[c].heldPaid = lots[c].heldPaid
        /\ lots'[c].heldBonus = lots[c].heldBonus
        /\ lots'[c].paidCredits = lots[c].paidCredits
        /\ lots[c].status = "credited" => lots'[c].status = "credited"
  BY <1>1, <1>2, <1>4
<1>6. \A c \in Deposits : OnRefund(c)' = OnRefund(c) /\ PaidOut(c)' = PaidOut(c)
  BY <1>3 DEF OnRefund, PaidOut, IsActionable
<1> QED
  BY <1>3, <1>5, <1>6, RowsBalance

LEMMA IngestConfirmedBalances ==
  ASSUME IInv, Books, NEW d \in Deposits, NEW asset \in Assets, NEW amount \in Amounts,
         NEW price \in Prices \union {1},
         lots[d].status # "credited", IngestConfirmed(d, asset, amount, price)
  PROVE  Books'
<1> DEFINE mine == [RecordTransfer(d, asset, amount) EXCEPT !.status = "confirmed"]
           pool == {d} \union {c \in Deposits : lots[c].status \in {"confirmed", "below_minimum"}
                                                /\ lots[c].asset = mine.asset}
           row(c) == IF c = d THEN mine ELSE lots[c]
           totalUsd == SumOver(pool, LAMBDA c : row(c).amount * price)
           status == IF totalUsd < MinTopUp THEN "below_minimum" ELSE "confirmed"
<1>1. /\ mine \in LotRows
      /\ mine.remainingPaid = 0 /\ mine.remainingBonus = 0
      /\ mine.heldPaid = 0 /\ mine.heldBonus = 0 /\ mine.paidCredits = 0
  <2>1. mine \in LotRows
    BY RecordTransferType DEF IInv, LotStatus
  <2> QED
    BY <2>1, RecordedRow
<1>2. lots \in [Deposits -> LotRows]
  BY DEF IInv, TypeOK
<1>3. lots' = [c \in Deposits |-> IF c \in pool
                                  THEN [row(c) EXCEPT !.status = status]
                                  ELSE lots[c]]
  BY DEF IngestConfirmed
<1>4. UNCHANGED <<available, reserved, ledger, refunds>>
  BY DEF IngestConfirmed
<1>5. \A c \in pool : lots[c].status # "credited"
  OBVIOUS
<1>6. /\ lots[d].remainingPaid = 0 /\ lots[d].remainingBonus = 0
      /\ lots[d].heldPaid = 0 /\ lots[d].heldBonus = 0
      /\ lots[d].paidCredits = 0
  BY DEF Books, UncreditedAreEmpty
<1> HIDE DEF mine, pool, totalUsd, status
<1>7. ASSUME NEW c \in Deposits
      PROVE  /\ lots'[c].remainingPaid = lots[c].remainingPaid
             /\ lots'[c].remainingBonus = lots[c].remainingBonus
             /\ lots'[c].heldPaid = lots[c].heldPaid
             /\ lots'[c].heldBonus = lots[c].heldBonus
             /\ lots'[c].paidCredits = lots[c].paidCredits
             /\ lots[c].status = "credited" => lots'[c].status = "credited"
  <2>1. CASE c \in pool
    <3>1. lots'[c] = [row(c) EXCEPT !.status = status]
      BY <1>3, <2>1
    <3>2. CASE c = d
      BY <1>1, <1>5, <1>6, <2>1, <3>1, <3>2 DEF LotRows
    <3>3. CASE c # d
      BY <1>2, <1>5, <2>1, <3>1, <3>3 DEF LotRows
    <3> QED
      BY <3>2, <3>3
  <2>2. CASE c \notin pool
    BY <1>3, <2>2
  <2> QED
    BY <2>1, <2>2
<1>8. \A c \in Deposits : OnRefund(c)' = OnRefund(c) /\ PaidOut(c)' = PaidOut(c)
  BY <1>4 DEF OnRefund, PaidOut, IsActionable
<1> QED
  BY <1>4, <1>7, <1>8, RowsBalance

\* An allocation to one deposit adds up to what it gives to it.
LEMMA OnDepositTotal ==
  ASSUME NEW d \in Deposits, NEW c \in Credits
  PROVE  TotalOf(Deposits, OnDeposit(d, c)) = Balance(c)
<1> DEFINE w == [e \in Deposits |-> Balance(OnDeposit(d, c)[e])]
<1>1. Balance(c) \in Nat
  BY DEF Balance, Credits
<1>2. w[d] = Balance(c) /\ \A e \in Deposits : w[e] \in Int /\ (e # d => w[e] = 0)
  BY <1>1 DEF OnDeposit, NoCredits, Balance
<1>3. TotalOf(Deposits, OnDeposit(d, c)) = SumFunctionOnSet(w, Deposits)
  BY DEF TotalOf, SumOver
<1> HIDE DEF w
<1>4. IsFiniteSet(Deposits) /\ IsFiniteSet(Deposits \ {d})
  BY CreditLedgerAssumption, FS_Subset
<1>5. SumFunctionOnSet(w, Deposits) = w[d] + SumFunctionOnSet(w, Deposits \ {d})
  BY <1>2, <1>4, SumRemove
<1>6. SumFunctionOnSet(w, Deposits \ {d}) = 0
  <2>1. \A e \in Deposits \ {d} : w[e] = 0
    BY <1>2
  <2> QED
    BY <1>4, <2>1, SumZero
<1> QED
  BY <1>1, <1>2, <1>3, <1>5, <1>6

LEMMA CreditCandidateBalances ==
  ASSUME IInv, Books, NEW d \in Deposits, CreditCandidate(d)
  PROVE  Books'
<1> DEFINE paid == lots[d].amount * crediting.price
           bonus == BonusFor(lots[d].asset, paid)
           credit == [paid |-> paid, bonus |-> bonus]
           a == OnDeposit(d, credit)
           at == Len(ledger) + 1
           row == [status |-> "credited",
                   asset |-> lots[d].asset, amount |-> lots[d].amount,
                   paidCredits |-> paid, bonusCredits |-> bonus,
                   remainingPaid |-> paid, remainingBonus |-> bonus,
                   heldPaid |-> 0, heldBonus |-> 0, creditedAt |-> at]
<1>1. /\ d \in crediting.deposits
      /\ lots' = [lots EXCEPT ![d] = row]
      /\ ApplyCreditMutation("credit", d, paid + bonus, a)
      /\ UNCHANGED refunds
  BY DEF CreditCandidate
<1>2. /\ lots \in [Deposits -> LotRows] /\ lots[d] \in LotRows
      /\ crediting \in [deposits : SUBSET Deposits, price : Nat]
  BY DEF IInv, TypeOK
<1>3. paid \in Nat
  <2>1. lots[d].amount \in Nat /\ crediting.price \in Nat
    BY <1>2 DEF LotRows
  <2> QED
    BY <2>1
<1> HIDE DEF paid
<1>4. bonus \in Nat
  BY <1>3 DEF BonusFor
<1> HIDE DEF bonus
<1>5. credit \in Credits /\ Balance(credit) = paid + bonus /\ paid + bonus \in Nat
      /\ credit.paid = paid /\ credit.bonus = bonus
  BY <1>3, <1>4 DEF Credits, Balance
<1>6. /\ lots'[d].status = "credited" /\ lots'[d].paidCredits = paid
      /\ lots'[d].remainingPaid = paid /\ lots'[d].remainingBonus = bonus
      /\ lots'[d].heldPaid = 0 /\ lots'[d].heldBonus = 0
      /\ \A c \in Deposits : c # d => lots'[c] = lots[c]
  BY <1>1, <1>2
<1> HIDE DEF row, credit
<1>7. a \in [Deposits -> Credits]
      /\ \A c \in Deposits : a[c] = IF c = d THEN credit ELSE NoCredits
  BY <1>5, OnDepositType
<1>8. TotalOf(Deposits, a) = paid + bonus
  BY <1>5, OnDepositTotal
<1> HIDE DEF a
<1>9. lots[d].status # "credited" /\ ~HasEntry("credit", d)
  BY <1>1 DEF IInv, StatusRecordsEntries
<1>10. Mutates("credit", d, paid + bonus, a)
  BY <1>1, <1>5, <1>7, <1>8, <1>9 DEF Mutates, LedgerOps, Sources
<1>11. RefundsMove("credit", a) /\ EndsReservation("credit", d, a)
  BY <1>1, <1>7, RefundsStand DEF EndsReservation, IInv
<1>12. /\ lots[d].remainingPaid = 0 /\ lots[d].remainingBonus = 0
       /\ lots[d].heldPaid = 0 /\ lots[d].heldBonus = 0
       /\ lots[d].paidCredits = 0
  BY <1>9 DEF Books, UncreditedAreEmpty
<1>13. ASSUME NEW c \in Deposits
       PROVE  /\ lots'[c].remainingPaid = lots[c].remainingPaid + 1 * a[c].paid
              /\ lots'[c].remainingBonus = lots[c].remainingBonus + 1 * a[c].bonus
              /\ lots'[c].heldPaid = lots[c].heldPaid + 0 * a[c].paid
              /\ lots'[c].heldBonus = lots[c].heldBonus + 0 * a[c].bonus
              /\ lots'[c].paidCredits = lots[c].paidCredits + a[c].paid
  <2>1. CASE c = d
    <3>1. a[c].paid = paid /\ a[c].bonus = bonus
      BY <1>5, <1>7, <2>1
    <3> QED
      BY <1>3, <1>4, <1>6, <1>12, <2>1, <3>1
  <2>2. CASE c # d
    <3>1. a[c].paid = 0 /\ a[c].bonus = 0 /\ lots'[c] = lots[c]
      BY <1>6, <1>7, <2>2 DEF NoCredits
    <3>2. /\ lots[c].remainingPaid \in Int /\ lots[c].remainingBonus \in Int
          /\ lots[c].heldPaid \in Int /\ lots[c].heldBonus \in Int
          /\ lots[c].paidCredits \in Int
      BY <1>2 DEF LotRows
    <3> QED
      BY <3>1, <3>2
  <2> QED
    BY <2>1, <2>2
<1>14. LotsMove(a, RemainingMove("credit"), HeldMove("credit"))
  BY <1>13 DEF LotsMove, RemainingMove, HeldMove
<1>15. UncreditedAreEmpty'
  BY <1>6 DEF Books, UncreditedAreEmpty
<1> QED
  BY <1>10, <1>11, <1>13, <1>14, <1>15, BooksKept
-----------------------------------------------------------------------------
\* What the refund of one deposit says moves with the one allocation to it.
LEMMA RefundAlone ==
  ASSUME IInv, NEW op \in {"refund_hold", "refund_debit", "refund_release"},
         NEW d \in Deposits, NEW c \in Credits,
         \A e \in Deposits : e # d => refunds'[e] = refunds[e],
         OnRefund(d)'.paid = OnRefund(d).paid + HeldMove(op) * c.paid,
         OnRefund(d)'.bonus = OnRefund(d).bonus + HeldMove(op) * c.bonus,
         PaidOut(d)' = PaidOut(d) + (IF op = "refund_debit" THEN c.paid ELSE 0)
  PROVE  RefundsMove(op, OnDeposit(d, c))
<1> DEFINE a == OnDeposit(d, c)
           k == HeldMove(op) - ReservedMove(op)
<1>1. k \in Int /\ k = HeldMove(op) /\ k * 0 = 0
  BY DEF HeldMove, ReservedMove
<1>2. ASSUME NEW e \in Deposits
      PROVE  /\ OnRefund(e)'.paid = OnRefund(e).paid + k * a[e].paid
             /\ OnRefund(e)'.bonus = OnRefund(e).bonus + k * a[e].bonus
             /\ PaidOut(e)' = PaidOut(e) + (IF op = "refund_debit" THEN a[e].paid ELSE 0)
  <2>1. CASE e = d
    <3>1. a[e] = c
      BY <2>1, OnDepositType
    <3> QED
      BY <1>1, <2>1, <3>1
  <2>2. CASE e # d
    <3>1. a[e].paid = 0 /\ a[e].bonus = 0
      BY <2>2, OnDepositType DEF NoCredits
    <3>2. OnRefund(e)' = OnRefund(e) /\ PaidOut(e)' = PaidOut(e)
      BY <2>2 DEF OnRefund, IsActionable, PaidOut
    <3>3. OnRefund(e).paid \in Nat /\ OnRefund(e).bonus \in Nat /\ PaidOut(e) \in Nat
      BY DEF IInv, TypeOK, Refunds, OnRefund, PaidOut, NoCredits
    <3> HIDE DEF k
    <3> QED
      BY <1>1, <3>1, <3>2, <3>3
  <2> QED
    BY <2>1, <2>2
<1> QED
  BY <1>2 DEF RefundsMove

LEMMA CreateRefundRequestBalances ==
  ASSUME IInv, Books, NEW d \in Deposits, CreateRefundRequest(d)
  PROVE  Books'
<1> DEFINE refundable == SpendableLot(d)
           a == OnDeposit(d, refundable)
           row == [status |-> "pending", paid |-> refundable.paid,
                   bonus |-> refundable.bonus]
<1>1. /\ refunds[d].status = "none" /\ lots[d].status = "credited"
      /\ UpdateLotsForHold(a)
      /\ ApplyCreditMutation("refund_hold", d, Balance(refundable), a)
      /\ refunds' = [refunds EXCEPT ![d] = row]
  BY DEF CreateRefundRequest
<1>2. refundable \in Credits
  BY SpendableLotType DEF IInv
<1> HIDE DEF refundable
<1>3. Balance(refundable) \in Nat /\ TotalOf(Deposits, a) = Balance(refundable)
  BY <1>2, OnDepositTotal DEF Balance, Credits
<1>4. a \in [Deposits -> Credits]
      /\ \A c \in Deposits : a[c] = IF c = d THEN refundable ELSE NoCredits
  BY <1>2, OnDepositType
<1>5. ~HasEntry("refund_hold", d)
  BY <1>1 DEF IInv, StatusRecordsEntries
<1>6. Mutates("refund_hold", d, Balance(refundable), a)
  BY <1>1, <1>3, <1>4, <1>5 DEF Mutates, LedgerOps, Sources
<1>7. RefundsMove("refund_hold", a)
  <2>1. refunds \in [Deposits -> Refunds]
    BY DEF IInv, TypeOK
  <2>2. refunds'[d] = row /\ \A e \in Deposits : e # d => refunds'[e] = refunds[e]
    BY <1>1, <2>1
  <2>3. /\ OnRefund(d)'.paid = refundable.paid /\ OnRefund(d)'.bonus = refundable.bonus
        /\ OnRefund(d).paid = 0 /\ OnRefund(d).bonus = 0
        /\ PaidOut(d)' = 0 /\ PaidOut(d) = 0
    BY <1>1, <2>2 DEF OnRefund, IsActionable, PaidOut, NoCredits
  <2>4. HeldMove("refund_hold") = 1 /\ refundable.paid \in Nat /\ refundable.bonus \in Nat
    BY <1>2 DEF HeldMove, Credits
  <2> QED
    BY <1>2, <2>2, <2>3, <2>4, RefundAlone
<1> HIDE DEF a
<1>8. AdjustLots(a, RemainingMove("refund_hold"), HeldMove("refund_hold"))
  BY <1>1 DEF UpdateLotsForHold, RemainingMove, HeldMove, SpendingOps
<1>9. \A c \in Deposits : lots[c].status # "credited" => a[c].paid = 0 /\ a[c].bonus = 0
  BY <1>1, <1>4 DEF NoCredits
<1>10. EndsReservation("refund_hold", d, a)
  BY DEF EndsReservation
<1> QED
  BY <1>6, <1>7, <1>8, <1>9, <1>10, AdjustedBooks

LEMMA ApproveRefundRequestBalances ==
  ASSUME IInv, Books, NEW d \in Deposits, ApproveRefundRequest(d)
  PROVE  Books'
<1>1. /\ refunds[d].status = "pending"
      /\ refunds' = [refunds EXCEPT ![d].status = "approved"]
      /\ UNCHANGED <<available, reserved, lots, ledger>>
  BY DEF ApproveRefundRequest
<1>2. ASSUME NEW c \in Deposits
      PROVE  /\ OnRefund(c)'.paid = OnRefund(c).paid /\ OnRefund(c)'.bonus = OnRefund(c).bonus
             /\ PaidOut(c)' = PaidOut(c)
  <2>1. refunds \in [Deposits -> Refunds] /\ refunds[d] \in Refunds
    BY DEF IInv, TypeOK
  <2>2. CASE c = d
    <3>1. /\ refunds'[d].status = "approved" /\ refunds'[d].paid = refunds[d].paid
          /\ refunds'[d].bonus = refunds[d].bonus
      BY <1>1, <2>1 DEF Refunds
    <3> QED
      BY <1>1, <2>2, <3>1 DEF OnRefund, IsActionable, PaidOut
  <2>3. CASE c # d
    <3>1. refunds'[c] = refunds[c]
      BY <1>1, <2>1, <2>3
    <3> QED
      BY <3>1 DEF OnRefund, IsActionable, PaidOut
  <2> QED
    BY <2>2, <2>3
<1> QED
  BY <1>1, <1>2, RowsBalance

\* A refund that may still be resolved holds its row's credits on its lot.
LEMMA RefundAllocates ==
  ASSUME IInv, Books, NEW d \in Deposits, IsActionable(d)
  PROVE  /\ [paid |-> refunds[d].paid, bonus |-> refunds[d].bonus] \in Credits
         /\ RefundTotal(d) \in Nat /\ RefundAllocation(d) \in [Deposits -> Credits]
         /\ RefundTotal(d) = TotalOf(Deposits, RefundAllocation(d))
         /\ \A c \in Deposits : lots[c].status # "credited" =>
              RefundAllocation(d)[c].paid = 0 /\ RefundAllocation(d)[c].bonus = 0
<1> DEFINE credits == [paid |-> refunds[d].paid, bonus |-> refunds[d].bonus]
<1>1. refunds[d].paid \in Nat /\ refunds[d].bonus \in Nat
  BY DEF IInv, TypeOK, Refunds
<1>2. credits \in Credits /\ Balance(credits) = RefundTotal(d)
      /\ credits.paid = refunds[d].paid /\ credits.bonus = refunds[d].bonus
  BY <1>1 DEF Credits, Balance, RefundTotal
<1>3. RefundAllocation(d) = OnDeposit(d, credits)
  BY DEF RefundAllocation
<1> HIDE DEF credits
<1>4. /\ OnDeposit(d, credits) \in [Deposits -> Credits]
      /\ \A c \in Deposits : OnDeposit(d, credits)[c] = IF c = d THEN credits ELSE NoCredits
      /\ TotalOf(Deposits, OnDeposit(d, credits)) = Balance(credits)
  BY <1>2, OnDepositType, OnDepositTotal
<1>5. lots[d].status # "credited" => refunds[d].paid = 0 /\ refunds[d].bonus = 0
  <2> SUFFICES ASSUME lots[d].status # "credited"
               PROVE  refunds[d].paid = 0 /\ refunds[d].bonus = 0
    OBVIOUS
  <2> DEFINE O == OpenReservations
  <2>1. lots[d].heldPaid = 0 /\ lots[d].heldBonus = 0
    BY DEF Books, UncreditedAreEmpty
  <2>2. /\ lots[d].heldPaid = refunds[d].paid + PaidIn(O, d)
        /\ lots[d].heldBonus = refunds[d].bonus + BonusIn(O, d)
    BY DEF Books, HoldsAreBacked, PaidIn, BonusIn
  <2>3. /\ IsFiniteSet(O)
        /\ \A f \in O : f.allocations[d].paid \in Nat /\ f.allocations[d].bonus \in Nat
    BY OpenReservationsType DEF IInv
  <2> HIDE DEF O
  <2>4. PaidIn(O, d) \in Nat /\ BonusIn(O, d) \in Nat
    BY <2>3, AllocatedInSets
  <2> QED
    BY <1>1, <2>1, <2>2, <2>4
<1>6. \A c \in Deposits : lots[c].status # "credited" =>
        RefundAllocation(d)[c].paid = 0 /\ RefundAllocation(d)[c].bonus = 0
  BY <1>2, <1>3, <1>4, <1>5 DEF NoCredits
<1>7. RefundTotal(d) \in Nat
  BY <1>1 DEF RefundTotal
<1> QED
  BY <1>2, <1>3, <1>4, <1>6, <1>7 DEF credits

LEMMA ResolveRefundBalances ==
  ASSUME IInv, Books, NEW d \in Deposits, IsActionable(d),
         NEW op, NEW status,
         \/ op = "refund_debit" /\ status = "settled"
         \/ op = "refund_release" /\ status = "rejected",
         AdjustLots(RefundAllocation(d), RemainingMove(op), -1),
         ApplyCreditMutation(op, d, RefundTotal(d), RefundAllocation(d)),
         refunds' = [refunds EXCEPT ![d].status = status]
  PROVE  Books'
<1> DEFINE credits == [paid |-> refunds[d].paid, bonus |-> refunds[d].bonus]
           a == OnDeposit(d, credits)
<1>1. a = RefundAllocation(d)
  BY DEF RefundAllocation
<1>2. /\ credits \in Credits /\ RefundTotal(d) \in Nat
      /\ RefundAllocation(d) \in [Deposits -> Credits]
      /\ RefundTotal(d) = TotalOf(Deposits, RefundAllocation(d))
      /\ \A c \in Deposits : lots[c].status # "credited" =>
           RefundAllocation(d)[c].paid = 0 /\ RefundAllocation(d)[c].bonus = 0
  BY RefundAllocates
<1>3. refunds[d].status \in {"pending", "approved"}
  BY DEF IsActionable
<1>4. ~HasEntry(op, d)
  BY <1>3 DEF IInv, StatusRecordsEntries
<1>5. Mutates(op, d, RefundTotal(d), RefundAllocation(d))
  BY <1>2, <1>4 DEF Mutates, LedgerOps, Sources
<1>6. HeldMove(op) = -1 /\ op # "credit"
      /\ op \in {"refund_hold", "refund_debit", "refund_release"}
  BY DEF HeldMove
<1>7. RefundsMove(op, a)
  <2>1. refunds \in [Deposits -> Refunds] /\ refunds[d] \in Refunds
    BY DEF IInv, TypeOK
  <2>2. /\ refunds'[d].status = status /\ refunds'[d].paid = refunds[d].paid
        /\ refunds'[d].bonus = refunds[d].bonus
    BY <2>1 DEF Refunds
  <2>3. \A e \in Deposits : e # d => refunds'[e] = refunds[e]
    BY <2>1
  <2>4. refunds[d].paid \in Nat /\ refunds[d].bonus \in Nat
    BY <2>1 DEF Refunds
  <2>5. /\ OnRefund(d)'.paid = 0 /\ OnRefund(d)'.bonus = 0
        /\ OnRefund(d).paid = refunds[d].paid /\ OnRefund(d).bonus = refunds[d].bonus
        /\ PaidOut(d) = 0
        /\ PaidOut(d)' = IF op = "refund_debit" THEN refunds[d].paid ELSE 0
    BY <1>3, <2>2 DEF OnRefund, IsActionable, PaidOut, NoCredits
  <2>6. credits.paid = refunds[d].paid /\ credits.bonus = refunds[d].bonus
    OBVIOUS
  <2> HIDE DEF credits
  <2>7. /\ OnRefund(d)'.paid = OnRefund(d).paid + HeldMove(op) * credits.paid
        /\ OnRefund(d)'.bonus = OnRefund(d).bonus + HeldMove(op) * credits.bonus
    BY <1>6, <2>4, <2>5, <2>6
  <2>8. PaidOut(d)' = PaidOut(d) + (IF op = "refund_debit" THEN credits.paid ELSE 0)
    BY <2>4, <2>5, <2>6
  <2> QED
    BY <1>2, <1>6, <2>3, <2>7, <2>8, RefundAlone DEF credits
<1> HIDE DEF a
<1>8. EndsReservation(op, d, RefundAllocation(d))
  BY <1>6 DEF EndsReservation
<1> QED
  BY <1>1, <1>2, <1>5, <1>6, <1>7, <1>8, AdjustedBooks

LEMMA SettleRefundRequestBalances ==
  ASSUME IInv, Books, NEW d \in Deposits, SettleRefundRequest(d)
  PROVE  Books'
<1>1. AdjustLots(RefundAllocation(d), RemainingMove("refund_debit"), -1)
  BY DEF SettleRefundRequest, UpdateLotsForCapture, RemainingMove, SpendingOps
<1> QED
  BY <1>1, ResolveRefundBalances DEF SettleRefundRequest

LEMMA RejectRefundRequestBalances ==
  ASSUME IInv, Books, NEW d \in Deposits, RejectRefundRequest(d)
  PROVE  Books'
<1>1. AdjustLots(RefundAllocation(d), RemainingMove("refund_release"), -1)
  BY DEF RejectRefundRequest, UpdateLotsForRelease, RemainingMove, SpendingOps
<1> QED
  BY <1>1, ResolveRefundBalances DEF RejectRefundRequest
-----------------------------------------------------------------------------
LEMMA StepBooks == IInv /\ Books /\ [Next]_vars => Books'
<1> SUFFICES ASSUME IInv, Books, [Next]_vars PROVE Books'
  OBVIOUS
<1>1. CASE UNCHANGED vars
  BY <1>1, BooksStand DEF vars
<1>2. ASSUME NEW d \in Deposits, DepositStep(d) PROVE Books'
  <2>1. CASE IngestCreditDeposit(d)
    <3>1. PICK asset \in Assets, amount \in Amounts :
            /\ lots[d].status # "credited"
            /\ \/ IngestUnconfirmed(d, asset, amount)
               \/ \E price \in Prices \union {1} : IngestConfirmed(d, asset, amount, price)
      BY <2>1 DEF IngestCreditDeposit
    <3> QED
      BY <3>1, IngestUnconfirmedBalances, IngestConfirmedBalances
  <2>2. CASE CreditCandidate(d)
    BY <2>2, CreditCandidateBalances
  <2> QED
    BY <1>2, <2>1, <2>2 DEF DepositStep
<1>3. ASSUME NEW d \in Deposits, RefundStep(d) PROVE Books'
  BY <1>3, CreateRefundRequestBalances, ApproveRefundRequestBalances,
     SettleRefundRequestBalances, RejectRefundRequestBalances DEF RefundStep
<1>4. ASSUME NEW m \in Messages, NEW amount \in Charges, SettleChatUsageCharge(m, amount)
      PROVE  Books'
  BY <1>4, SettleChatUsageChargeBalances
<1>5. ASSUME NEW r \in ImageRequests, ImageStep(r) PROVE Books'
  BY <1>5, ReserveImageCreditsBalances, CaptureReservedImageCreditsBalances,
     ReleaseReservedImageCreditsBalances DEF ImageStep
<1> QED
  BY <1>1, <1>2, <1>3, <1>4, <1>5 DEF Next

\* The books balance in every reachable state of the ledger.
THEOREM BooksBalance == Spec => []Books
<1> QED
  BY InitIInv, StepIInv, InitBooks, StepBooks, PTL DEF Spec

\* The account owns exactly what is left of its deposits, through every mix of
\* charges, reservations, rounding leftovers and refunds.
THEOREM AccountMatchesLotsAlways == Spec => []AccountMatchesLots
<1>1. Books => AccountMatchesLots
  BY DEF Books
<1> QED
  BY <1>1, BooksBalance, PTL

\* Replaying the allocations of the ledger gives what remains of each deposit.
THEOREM LotsReplayLedgerAlways == Spec => []LotsReplayLedger
<1>1. Books => LotsReplayLedger
  BY DEF Books
<1> QED
  BY <1>1, BooksBalance, PTL

\* What is held on a deposit is exactly the image reservations and the refund
\* still open on it: no hold outlives its end and none is undone twice.
THEOREM HoldsAreBackedAlways == Spec => []HoldsAreBacked
<1>1. Books => HoldsAreBacked
  BY DEF Books
<1> QED
  BY <1>1, BooksBalance, PTL

\* The paid side of a deposit: bought, less charged, less paid out, is what
\* remains, and what remains is at least what is held.
LEMMA RefundBound ==
  ASSUME IInv, Books
  PROVE  RefundsReturnUnusedPaid
<1>1. ASSUME NEW d \in Deposits, refunds[d].status = "settled"
      PROVE  refunds[d].paid + PaidBy({"debit", "capture"}, d) <= lots[d].paidCredits
  <2> DEFINE charged == PaidBy({"debit", "capture"}, d)
             out == PaidBy({"refund_debit"}, d)
             spent == PaidBy(SpendingOps, d)
             O == OpenReservations
  <2>1. lots[d].remainingPaid = PaidBy({"credit"}, d) - spent
    BY DEF Books, LotsReplayLedger, PaidBy
  <2>2. PaidBy({"credit"}, d) = lots[d].paidCredits /\ lots[d].paidCredits \in Nat
    BY DEF Books, CreditsAreBought, IInv, TypeOK, LotRows
  <2>3. out = refunds[d].paid
    BY <1>1 DEF Books, RefundsArePaidOut
  <2>4. /\ IsFiniteSet(O)
        /\ \A f \in O : f.allocations[d].paid \in Nat /\ f.allocations[d].bonus \in Nat
    BY OpenReservationsType DEF IInv
  <2>5. PaidIn(O, d) \in Nat
    BY <2>4, AllocatedInSets
  <2>6. lots[d].heldPaid = OnRefund(d).paid + PaidIn(O, d)
    BY DEF Books, HoldsAreBacked, OnRefund, PaidIn, BonusIn
  <2>7. OnRefund(d).paid \in Nat /\ lots[d].heldPaid <= lots[d].remainingPaid
        /\ lots[d].remainingPaid \in Int
    BY DEF IInv, TypeOK, Refunds, OnRefund, NoCredits, PaidHoldsCovered, LotRows
  <2>8. charged \in Int /\ out \in Int /\ spent = charged + out
    <3> DEFINE K == {i \in DOMAIN ledger : ledger[i].op \in {"debit", "capture"}}
               L == {i \in DOMAIN ledger : ledger[i].op \in {"refund_debit"}}
               M == {i \in DOMAIN ledger : ledger[i].op \in SpendingOps}
               w == [i \in DOMAIN ledger |-> ledger[i].allocations[d].paid]
               k == [i \in K |-> ledger[i].allocations[d].paid]
               l == [i \in L |-> ledger[i].allocations[d].paid]
               m == [i \in M |-> ledger[i].allocations[d].paid]
    <3>1. /\ charged = SumFunctionOnSet(k, K) /\ out = SumFunctionOnSet(l, L)
          /\ spent = SumFunctionOnSet(m, M)
      BY DEF PaidBy, AllocatedBy, SumOver
    <3>2. ledger \in Seq(Entries) /\ DOMAIN ledger = 1 .. Len(ledger) /\ Len(ledger) \in Nat
      BY DEF IInv, TypeOK
    <3>3. IsFiniteSet(DOMAIN ledger)
      BY <3>2, FS_Interval
    <3>4. IsFiniteSet(K) /\ IsFiniteSet(L)
      BY <3>3, FS_Subset
    <3>5. \A i \in DOMAIN ledger : w[i] \in Int
      <4>1. ASSUME NEW i \in DOMAIN ledger PROVE w[i] \in Int
        <5>1. ledger[i] \in Entries
          BY <3>2
        <5>2. w[i] = ledger[i].allocations[d].paid
          OBVIOUS
        <5> QED
          BY <5>1, <5>2 DEF Entries, Credits
      <4> QED
        BY <4>1
    <3>6. /\ \A i \in K : k[i] = w[i]
          /\ \A i \in L : l[i] = w[i]
          /\ \A i \in M : m[i] = w[i]
          /\ K \intersect L = {} /\ M = K \union L
          /\ M \subseteq DOMAIN ledger
      BY DEF SpendingOps
    <3> HIDE DEF charged, out, spent, K, L, M, w, k, l, m
    <3>7. IsFiniteSet(M)
      BY <3>4, <3>6, FS_Union
    <3>8. /\ SumFunctionOnSet(k, K) = SumFunctionOnSet(w, K)
          /\ SumFunctionOnSet(l, L) = SumFunctionOnSet(w, L)
          /\ SumFunctionOnSet(m, M) = SumFunctionOnSet(w, M)
      BY <3>4, <3>6, <3>7, SumCongruence
    <3>9. \A i \in K \union L : w[i] \in Int
      BY <3>5, <3>6
    <3>10. SumFunctionOnSet(w, K \union L) = SumFunctionOnSet(w, K) + SumFunctionOnSet(w, L)
      BY <3>4, <3>6, <3>9, SumDisjoint
    <3>11. SumFunctionOnSet(w, K) \in Int /\ SumFunctionOnSet(w, L) \in Int
      BY <3>4, <3>9, SumType
    <3> QED
      BY <3>1, <3>6, <3>8, <3>10, <3>11
  <2> HIDE DEF charged, out, spent, O
  <2>9. out + charged <= lots[d].paidCredits
    BY <2>1, <2>2, <2>5, <2>6, <2>7, <2>8
  <2> QED
    BY <2>3, <2>9 DEF charged
<1>2. RefundsReturnUnusedPaid <=> \A d \in Deposits : refunds[d].status = "settled" =>
        refunds[d].paid + PaidBy({"debit", "capture"}, d) <= lots[d].paidCredits
  BY DEF RefundsReturnUnusedPaid, PaidBy
<1> QED
  BY <1>1, <1>2

\* What was paid out for a deposit and what its paid side was charged never
\* exceed what it bought.
THEOREM RefundsReturnUnusedPaidAlways == Spec => []RefundsReturnUnusedPaid
<1> QED
  BY InvariantHolds, BooksBalance, RefundBound, PTL
-----------------------------------------------------------------------------
(***************************************************************************)
(* The refinement of PrepaidAccount. The step simulation needs one fact     *)
(* more than IInv: that the amount a refund row will pay out or give back   *)
(* is the amount its hold entered in the ledger (RefundsAreHeld), since     *)
(* settling and rejecting read it from the row and the promise is about the *)
(* hold.                                                                    *)
(***************************************************************************)
RefundsAreHeld ==
  \A d \in Deposits : refunds[d].status # "none" =>
    \E e \in LedgerEntries :
      e.op = "refund_hold" /\ e.source = d /\ e.amount = RefundTotal(d)
-----------------------------------------------------------------------------
\* Every entry shows in the account as a call.
LEMMA EntryHasEffect ==
  ASSUME NEW e \in LedgerEntries
  PROVE  \E c \in Effects : c.kind = e.op /\ c.source = e.source /\ c.amount = e.amount
<1> DEFINE c == [kind |-> e.op, source |-> e.source, amount |-> e.amount]
<1>1. c \in Effects
  BY DEF Effects
<1>2. c.kind = e.op /\ c.source = e.source /\ c.amount = e.amount
  OBVIOUS
<1> QED
  BY <1>1, <1>2

\* A key is done in the account exactly when it is in the ledger.
LEMMA DoneIsEntered ==
  ASSUME NEW op, NEW source
  PROVE  Account!IsDone(op, source) <=> HasEntry(op, source)
<1>1. ASSUME NEW c \in Effects
      PROVE  \E e \in LedgerEntries : c.kind = e.op /\ c.source = e.source
  BY DEF Effects
<1> QED
  BY <1>1, EntryHasEffect DEF Account!IsDone, HasEntry, IsEntry

\* A mutation that passes its checks under a new key is one call of the
\* account taking effect, and adds one entry to the ledger.
LEMMA CallTakesEffect ==
  ASSUME TypeOK, NEW op \in LedgerOps, NEW source \in Sources, NEW amount \in Nat,
         NEW a \in [Deposits -> Credits],
         ApplyCreditMutation(op, source, amount, a), ~HasEntry(op, source)
  PROVE  /\ Account!TakesEffect(op, source, amount)
         /\ available' = available + AvailableDelta(op, amount)
         /\ reserved' = reserved + ReservedDelta(op, amount)
         /\ LedgerEntries \subseteq LedgerEntries'
         /\ \E e \in LedgerEntries' : e.op = op /\ e.source = source /\ e.amount = amount
<1> DEFINE new == [op |-> op, source |-> source, amount |-> amount,
                   availableAfter |-> available + AvailableDelta(op, amount),
                   reservedAfter |-> reserved + ReservedDelta(op, amount),
                   allocations |-> a]
<1>1. ledger' = Append(ledger, new)
  BY DEF ApplyCreditMutation, CreateLedgerEntry
<1>2. new.op = op /\ new.source = source /\ new.amount = amount
  OBVIOUS
<1>3. /\ available' = available + AvailableDelta(op, amount) /\ available' \in Nat
      /\ reserved' = reserved + ReservedDelta(op, amount) /\ reserved' \in Nat
  BY MutationBalances DEF ApplyCreditMutation
<1>4. new \in Entries
  BY MutationBalances DEF Entries, ApplyCreditMutation
<1> HIDE DEF new
<1>5. LedgerEntries' = LedgerEntries \union {new}
  <2>1. ledger \in Seq(Entries)
    BY DEF TypeOK
  <2>2. DOMAIN ledger' = (DOMAIN ledger) \union {Len(ledger) + 1}
    BY <1>1, <1>4, <2>1
  <2>3. ledger'[Len(ledger) + 1] = new /\ \A i \in DOMAIN ledger : ledger'[i] = ledger[i]
    BY <1>1, <1>4, <2>1
  <2> QED
    BY <2>2, <2>3 DEF LedgerEntries
<1>6. Effects' = Effects \union {Account!Call(op, source, amount)}
  BY <1>2, <1>5 DEF Effects, Account!Call
<1> QED
  BY <1>2, <1>3, <1>5, <1>6, DoneIsEntered DEF Account!TakesEffect

\* Where the ledger and the refunds stay, so do the holds behind the refunds.
LEMMA RefundsStayHeld ==
  ASSUME RefundsAreHeld, LedgerEntries \subseteq LedgerEntries', refunds' = refunds
  PROVE  RefundsAreHeld'
  BY DEF RefundsAreHeld, RefundTotal

\* A change of a refund's status leaves its amount, and so its hold.
LEMMA StatusChangeKeepsHold ==
  ASSUME IInv, RefundsAreHeld, LedgerEntries \subseteq LedgerEntries',
         NEW d \in Deposits, refunds[d].status # "none",
         NEW status \in RefundStatus,
         refunds' = [refunds EXCEPT ![d].status = status]
  PROVE  RefundsAreHeld'
<1>1. refunds \in [Deposits -> Refunds] /\ refunds[d] \in Refunds
  BY DEF IInv, TypeOK
<1>2. /\ refunds'[d].paid = refunds[d].paid /\ refunds'[d].bonus = refunds[d].bonus
      /\ \A c \in Deposits : c # d => refunds'[c] = refunds[c]
  BY <1>1 DEF Refunds
<1>3. ASSUME NEW c \in Deposits, refunds'[c].status # "none"
      PROVE  /\ refunds[c].status # "none"
             /\ refunds'[c].paid + refunds'[c].bonus = RefundTotal(c)
  BY <1>2, <1>3 DEF RefundTotal
<1> QED
  BY <1>3 DEF RefundsAreHeld, RefundTotal

Simulates == [Account!Next]_Account!vars /\ RefundsAreHeld'

\* A step that leaves balances and ledger is a stutter of the account.
LEMMA RowsOnly ==
  ASSUME IInv, UNCHANGED <<available, reserved, ledger>>
  PROVE  /\ UNCHANGED Account!vars
         /\ LedgerEntries \subseteq LedgerEntries'
  BY DEF Account!vars, Effects, LedgerEntries
-----------------------------------------------------------------------------
LEMMA DepositSimulates ==
  ASSUME IInv, RefundsAreHeld, NEW d \in Deposits, DepositStep(d)
  PROVE  Simulates
<1>1. CASE IngestCreditDeposit(d)
  <2>0. PICK asset \in Assets, amount \in Amounts :
          \/ IngestUnconfirmed(d, asset, amount)
          \/ \E price \in Prices \union {1} : IngestConfirmed(d, asset, amount, price)
    BY <1>1 DEF IngestCreditDeposit
  <2>1. UNCHANGED <<available, reserved, ledger, refunds>>
    <3>1. CASE IngestUnconfirmed(d, asset, amount)
      BY <3>1 DEF IngestUnconfirmed
    <3>2. CASE \E price \in Prices \union {1} : IngestConfirmed(d, asset, amount, price)
      BY <3>2 DEF IngestConfirmed
    <3> QED
      BY <2>0, <3>1, <3>2
  <2> QED
    BY <2>1, RowsOnly, RefundsStayHeld DEF Simulates
<1>2. CASE CreditCandidate(d)
  <2> DEFINE paid == lots[d].amount * crediting.price
             bonus == BonusFor(lots[d].asset, paid)
             credit == [paid |-> paid, bonus |-> bonus]
  <2>1. /\ d \in crediting.deposits /\ refunds' = refunds
        /\ ApplyCreditMutation("credit", d, paid + bonus, OnDeposit(d, credit))
    BY <1>2 DEF CreditCandidate
  <2>2. lots[d].amount \in Nat /\ crediting.price \in Nat
    BY DEF IInv, TypeOK, LotRows
  <2>3. paid \in Nat
    BY <2>2
  <2> HIDE DEF paid
  <2>4. bonus \in Nat
    BY <2>3 DEF BonusFor
  <2> HIDE DEF bonus
  <2>5. OnDeposit(d, credit) \in [Deposits -> Credits] /\ paid + bonus \in Nat
    BY <2>3, <2>4, OnDepositType DEF Credits
  <2>6. ~HasEntry("credit", d) /\ "credit" \in LedgerOps /\ d \in Sources
    BY <2>1 DEF IInv, StatusRecordsEntries, LedgerOps, Sources
  <2> DEFINE amount == paid + bonus
  <2>7. /\ Account!TakesEffect("credit", d, amount)
        /\ available' = available + AvailableDelta("credit", amount)
        /\ reserved' = reserved + ReservedDelta("credit", amount)
        /\ LedgerEntries \subseteq LedgerEntries'
    BY <2>1, <2>5, <2>6, CallTakesEffect DEF IInv
  <2> HIDE DEF amount
  <2>8. amount \in Nat /\ available \in Nat /\ reserved \in Nat
    BY <2>5 DEF amount, IInv, TypeOK
  <2>9. available' = available + amount /\ reserved' = reserved
    BY <2>7, <2>8 DEF AvailableDelta, ReservedDelta, DrawsAvailable, DrawsReserved
  <2>10. available' >= available /\ available' - available = amount
    BY <2>8, <2>9
  <2>11. Account!Fund(d)
    BY <2>7, <2>9, <2>10 DEF Account!Fund
  <2> QED
    BY <2>1, <2>7, <2>11, RefundsStayHeld DEF Simulates, Account!Next
<1> QED
  BY <1>1, <1>2 DEF DepositStep

LEMMA ChargeSimulates ==
  ASSUME IInv, RefundsAreHeld, NEW m \in Messages, NEW amount \in Charges,
         SettleChatUsageCharge(m, amount)
  PROVE  Simulates
<1>1. PICK a \in Allocations(amount) : ApplyCreditMutation("debit", m, amount, a)
  BY DEF SettleChatUsageCharge
<1>2. ~HasEntry("debit", m) /\ refunds' = refunds
  BY DEF SettleChatUsageCharge
<1>3. amount \in Nat \ {0} /\ "debit" \in LedgerOps /\ m \in Sources
  BY CreditLedgerAssumption DEF LedgerOps, Sources
<1>4. a \in [Deposits -> Credits]
  BY <1>3, AllocationsBound DEF IInv
<1>5. /\ Account!TakesEffect("debit", m, amount)
      /\ available' = available + AvailableDelta("debit", amount)
      /\ reserved' = reserved + ReservedDelta("debit", amount)
      /\ LedgerEntries \subseteq LedgerEntries'
  BY <1>1, <1>2, <1>3, <1>4, CallTakesEffect DEF IInv
<1>6. available \in Nat /\ reserved \in Nat
  BY DEF IInv, TypeOK
<1>7. /\ available' = available - amount /\ reserved' = reserved
  BY <1>3, <1>5, <1>6 DEF AvailableDelta, ReservedDelta, DrawsAvailable, DrawsReserved
<1>8. available' <= available /\ available - available' = amount
  BY <1>3, <1>6, <1>7
<1>9. Account!Charge(m)
  BY <1>5, <1>7, <1>8 DEF Account!Charge
<1> QED
  BY <1>2, <1>5, <1>9, RefundsStayHeld DEF Simulates, Account!Next

\* Holding: an image reservation and a refund request do the same to the account.
LEMMA HoldSimulates ==
  ASSUME IInv, NEW kind \in {"reserve", "refund_hold"}, NEW s \in Sources,
         NEW amount \in Nat, NEW a \in [Deposits -> Credits],
         ApplyCreditMutation(kind, s, amount, a), ~HasEntry(kind, s)
  PROVE  /\ Account!Hold(kind, s)
         /\ LedgerEntries \subseteq LedgerEntries'
         /\ \E e \in LedgerEntries' : e.op = kind /\ e.source = s /\ e.amount = amount
<1>1. kind \in LedgerOps
  BY DEF LedgerOps
<1>2. /\ Account!TakesEffect(kind, s, amount)
      /\ available' = available + AvailableDelta(kind, amount)
      /\ reserved' = reserved + ReservedDelta(kind, amount)
      /\ LedgerEntries \subseteq LedgerEntries'
      /\ \E e \in LedgerEntries' : e.op = kind /\ e.source = s /\ e.amount = amount
  BY <1>1, CallTakesEffect DEF IInv
<1>3. available \in Nat /\ reserved \in Nat
  BY DEF IInv, TypeOK
<1>4. available' = available - amount /\ reserved' = reserved + amount
  BY <1>2, <1>3 DEF AvailableDelta, ReservedDelta, DrawsAvailable, DrawsReserved
<1>5. /\ available' <= available /\ available - available' = amount
      /\ reserved' = reserved + (available - available')
  BY <1>3, <1>4
<1> QED
  BY <1>2, <1>5 DEF Account!Hold

\* Ending a hold with the amount it was entered with.
LEMMA EndSimulates ==
  ASSUME IInv, NEW s \in Sources, NEW hold, NEW other,
         NEW kind \in {"capture", "release", "refund_debit", "refund_release"},
         NEW amount \in Nat, NEW a \in [Deposits -> Credits],
         ApplyCreditMutation(kind, s, amount, a),
         ~HasEntry(kind, s), ~HasEntry(other, s),
         \E e \in LedgerEntries : e.op = hold /\ e.source = s /\ e.amount = amount
  PROVE  /\ Account!Ends(hold, kind, other, s)
         /\ LedgerEntries \subseteq LedgerEntries'
<1>1. kind \in LedgerOps
  BY DEF LedgerOps
<1>2. /\ Account!TakesEffect(kind, s, amount)
      /\ available' = available + AvailableDelta(kind, amount)
      /\ reserved' = reserved + ReservedDelta(kind, amount)
      /\ LedgerEntries \subseteq LedgerEntries'
  BY <1>1, CallTakesEffect DEF IInv
<1>3. PICK c \in Effects : c.kind = hold /\ c.source = s /\ c.amount = amount
  BY EntryHasEffect
<1>4. ~Account!IsDone(other, s)
  BY DoneIsEntered
<1>5. available \in Nat /\ reserved \in Nat
  BY DEF IInv, TypeOK
<1> DEFINE Moves == CASE kind = "capture" ->
                           available' = available /\ reserved' + amount = reserved
                      [] kind = "refund_debit" ->
                           available' + amount = available /\ reserved' = reserved
                      [] OTHER ->
                           available' = available + amount /\ reserved' + amount = reserved
<1>6. Moves
  <2>1. CASE kind = "capture"
    <3>1. available' = available /\ reserved' = reserved - amount
      BY <1>2, <1>5, <2>1 DEF AvailableDelta, ReservedDelta, DrawsAvailable, DrawsReserved
    <3>2. reserved' + amount = reserved
      BY <1>5, <3>1
    <3> QED
      BY <2>1, <3>1, <3>2
  <2>2. CASE kind = "refund_debit"
    <3>1. available' = available - amount /\ reserved' = reserved
      BY <1>2, <1>5, <2>2 DEF AvailableDelta, ReservedDelta, DrawsAvailable, DrawsReserved
    <3>2. available' + amount = available
      BY <1>5, <3>1
    <3> QED
      BY <2>2, <3>1, <3>2
  <2>3. CASE kind \in {"release", "refund_release"}
    <3>1. available' = available + amount /\ reserved' = reserved - amount
      BY <1>2, <1>5, <2>3 DEF AvailableDelta, ReservedDelta, DrawsAvailable, DrawsReserved
    <3>2. reserved' + amount = reserved
      BY <1>5, <3>1
    <3> QED
      BY <2>3, <3>1, <3>2
  <2> QED
    BY <2>1, <2>2, <2>3
<1> QED
  BY <1>2, <1>3, <1>4, <1>6 DEF Account!Ends
-----------------------------------------------------------------------------
LEMMA ImageSimulates ==
  ASSUME IInv, RefundsAreHeld, NEW r \in ImageRequests, ImageStep(r)
  PROVE  Simulates
<1>1. r \in Sources /\ refunds' = refunds
  BY DEF Sources, ImageStep, ReserveImageCredits, CaptureReservedImageCredits,
         ReleaseReservedImageCredits
<1>2. ASSUME NEW amount \in Charges, ReserveImageCredits(r, amount) PROVE Simulates
  <2>1. PICK a \in Allocations(amount) : ApplyCreditMutation("reserve", r, amount, a)
    BY <1>2 DEF ReserveImageCredits
  <2>2. ~HasEntry("reserve", r) /\ amount \in Nat \ {0}
    BY <1>2, CreditLedgerAssumption DEF ReserveImageCredits
  <2>3. a \in [Deposits -> Credits]
    BY <2>2, AllocationsBound DEF IInv
  <2>4. Account!Hold("reserve", r) /\ LedgerEntries \subseteq LedgerEntries'
    BY <1>1, <2>1, <2>2, <2>3, HoldSimulates
  <2> QED
    BY <1>1, <2>4, RefundsStayHeld DEF Simulates, Account!Next, Account!ImageCall
<1>3. CASE CaptureReservedImageCredits(r)
  <2>1. PICK e \in LedgerEntries :
          IsEntry(e, "reserve", r) /\ ApplyCreditMutation("capture", r, e.amount, e.allocations)
    BY <1>3 DEF CaptureReservedImageCredits
  <2>2. ~HasEntry("capture", r) /\ task[r] = "running"
    BY <1>3 DEF CaptureReservedImageCredits
  <2>3. ~HasEntry("release", r)
    BY <2>2 DEF IInv, StatusRecordsEntries
  <2>4. e.amount \in Nat /\ e.allocations \in [Deposits -> Credits]
    BY EntryType DEF IInv
  <2>5. \E x \in LedgerEntries : x.op = "reserve" /\ x.source = r /\ x.amount = e.amount
    BY <2>1 DEF IsEntry
  <2>6. /\ Account!Ends("reserve", "capture", "release", r)
        /\ LedgerEntries \subseteq LedgerEntries'
    BY <1>1, <2>1, <2>2, <2>3, <2>4, <2>5, EndSimulates
  <2> QED
    BY <1>1, <2>6, RefundsStayHeld DEF Simulates, Account!Next, Account!ImageCall
<1>4. CASE ReleaseReservedImageCredits(r)
  <2>1. CASE HasEntry("release", r) \/ HasEntry("capture", r)
    <3>1. UNCHANGED <<available, reserved, ledger>>
      BY <1>4, <2>1 DEF ReleaseReservedImageCredits
    <3> QED
      BY <1>1, <3>1, RowsOnly, RefundsStayHeld DEF Simulates
  <2>2. CASE ~(HasEntry("release", r) \/ HasEntry("capture", r))
    <3>1. PICK e \in LedgerEntries :
            IsEntry(e, "reserve", r) /\ ApplyCreditMutation("release", r, e.amount, e.allocations)
      BY <1>4, <2>2 DEF ReleaseReservedImageCredits
    <3>2. e.amount \in Nat /\ e.allocations \in [Deposits -> Credits]
      BY EntryType DEF IInv
    <3>3. \E x \in LedgerEntries : x.op = "reserve" /\ x.source = r /\ x.amount = e.amount
      BY <3>1 DEF IsEntry
    <3>4. /\ Account!Ends("reserve", "release", "capture", r)
          /\ LedgerEntries \subseteq LedgerEntries'
      BY <1>1, <2>2, <3>1, <3>2, <3>3, EndSimulates
    <3> QED
      BY <1>1, <3>4, RefundsStayHeld DEF Simulates, Account!Next, Account!ImageCall
  <2> QED
    BY <2>1, <2>2
<1> QED
  BY <1>2, <1>3, <1>4 DEF ImageStep

LEMMA RefundSimulates ==
  ASSUME IInv, RefundsAreHeld, NEW d \in Deposits, RefundStep(d)
  PROVE  Simulates
<1>1. d \in Sources
  BY DEF Sources
<1>2. CASE CreateRefundRequest(d)
  <2> DEFINE refundable == SpendableLot(d)
             a == OnDeposit(d, refundable)
             row == [status |-> "pending", paid |-> refundable.paid,
                     bonus |-> refundable.bonus]
             amount == Balance(refundable)
  <2>1. /\ refunds[d].status = "none"
        /\ ApplyCreditMutation("refund_hold", d, amount, a)
        /\ refunds' = [refunds EXCEPT ![d] = row]
    BY <1>2 DEF CreateRefundRequest
  <2>2. refundable \in Credits
    BY SpendableLotType DEF IInv
  <2>3. amount \in Nat /\ a \in [Deposits -> Credits] /\ amount = row.paid + row.bonus
    BY <2>2, OnDepositType DEF Balance, Credits
  <2>4. ~HasEntry("refund_hold", d)
    BY <2>1 DEF IInv, StatusRecordsEntries
  <2> HIDE DEF a, amount, row
  <2>5. /\ Account!Hold("refund_hold", d)
        /\ LedgerEntries \subseteq LedgerEntries'
        /\ \E e \in LedgerEntries' : e.op = "refund_hold" /\ e.source = d /\ e.amount = amount
    BY <1>1, <2>1, <2>3, <2>4, HoldSimulates
  <2>6. refunds'[d] = row /\ \A c \in Deposits : c # d => refunds'[c] = refunds[c]
    BY <2>1 DEF IInv, TypeOK
  <2>7. RefundsAreHeld'
    <3> SUFFICES ASSUME NEW c \in Deposits, refunds'[c].status # "none"
                 PROVE  \E e \in LedgerEntries' :
                          /\ e.op = "refund_hold" /\ e.source = c
                          /\ e.amount = refunds'[c].paid + refunds'[c].bonus
      BY DEF RefundsAreHeld, RefundTotal
    <3>1. CASE c = d
      BY <2>3, <2>5, <2>6, <3>1
    <3>2. CASE c # d
      BY <2>5, <2>6, <3>2 DEF RefundsAreHeld, RefundTotal
    <3> QED
      BY <3>1, <3>2
  <2> QED
    BY <2>5, <2>7 DEF Simulates, Account!Next, Account!RefundCall
<1>3. CASE ApproveRefundRequest(d)
  <2>1. /\ UNCHANGED <<available, reserved, ledger>>
        /\ refunds[d].status # "none" /\ "approved" \in RefundStatus
        /\ refunds' = [refunds EXCEPT ![d].status = "approved"]
    BY <1>3 DEF ApproveRefundRequest, RefundStatus
  <2> QED
    BY <2>1, RowsOnly, StatusChangeKeepsHold DEF Simulates
<1>4. CASE SettleRefundRequest(d) \/ RejectRefundRequest(d)
  <2>1. IsActionable(d) /\ refunds[d].status # "none"
    BY <1>4 DEF SettleRefundRequest, RejectRefundRequest, IsActionable
  <2>2. ~HasEntry("refund_debit", d) /\ ~HasEntry("refund_release", d)
    BY <2>1 DEF IInv, StatusRecordsEntries, IsActionable
  <2>3. RefundTotal(d) \in Nat /\ RefundAllocation(d) \in [Deposits -> Credits]
    BY RefundTypes DEF IInv
  <2>4. \E e \in LedgerEntries :
          e.op = "refund_hold" /\ e.source = d /\ e.amount = RefundTotal(d)
    BY <2>1 DEF RefundsAreHeld
  <2>5. ASSUME NEW kind \in {"refund_debit", "refund_release"},
               NEW other \in {"refund_debit", "refund_release"},
               NEW status \in RefundStatus,
               kind # other,
               ApplyCreditMutation(kind, d, RefundTotal(d), RefundAllocation(d)),
               refunds' = [refunds EXCEPT ![d].status = status]
        PROVE  Simulates
    <3>1. kind \in {"capture", "release", "refund_debit", "refund_release"}
      OBVIOUS
    <3>2. ~HasEntry(kind, d) /\ ~HasEntry(other, d)
      BY <2>2
    <3>3. /\ Account!Ends("refund_hold", kind, other, d)
          /\ LedgerEntries \subseteq LedgerEntries'
      BY <1>1, <2>3, <2>4, <2>5, <3>1, <3>2, EndSimulates
    <3>4. RefundsAreHeld'
      BY <2>1, <2>5, <3>3, StatusChangeKeepsHold
    <3>5. Account!RefundCall(d)
      BY <2>5, <3>3 DEF Account!RefundCall
    <3> QED
      BY <3>4, <3>5 DEF Simulates, Account!Next
  <2>6. CASE SettleRefundRequest(d)
    <3>1. /\ ApplyCreditMutation("refund_debit", d, RefundTotal(d), RefundAllocation(d))
          /\ refunds' = [refunds EXCEPT ![d].status = "settled"]
          /\ "settled" \in RefundStatus
      BY <2>6 DEF SettleRefundRequest, RefundStatus
    <3> QED
      BY <2>5, <3>1
  <2>7. CASE RejectRefundRequest(d)
    <3>1. /\ ApplyCreditMutation("refund_release", d, RefundTotal(d), RefundAllocation(d))
          /\ refunds' = [refunds EXCEPT ![d].status = "rejected"]
          /\ "rejected" \in RefundStatus
      BY <2>7 DEF RejectRefundRequest, RefundStatus
    <3> QED
      BY <2>5, <3>1
  <2> QED
    BY <1>4, <2>6, <2>7
<1> QED
  BY <1>2, <1>3, <1>4 DEF RefundStep
-----------------------------------------------------------------------------
LEMMA InitSimulates == Init => Account!Init /\ RefundsAreHeld
<1> SUFFICES ASSUME Init PROVE Account!Init /\ RefundsAreHeld
  OBVIOUS
<1>1. Effects = {}
  BY DEF Init, Effects, LedgerEntries
<1> QED
  BY <1>1 DEF Init, Account!Init, RefundsAreHeld

LEMMA StepSimulates == IInv /\ RefundsAreHeld /\ [Next]_vars => Simulates
<1> SUFFICES ASSUME IInv, RefundsAreHeld, [Next]_vars PROVE Simulates
  OBVIOUS
<1>1. CASE UNCHANGED vars
  <2>1. UNCHANGED <<available, reserved, ledger, refunds>>
    BY <1>1 DEF vars
  <2> QED
    BY <2>1, RowsOnly, RefundsStayHeld DEF Simulates
<1>2. CASE Next
  BY <1>2, DepositSimulates, RefundSimulates, ChargeSimulates, ImageSimulates DEF Next
<1> QED
  BY <1>1, <1>2

\* Every transaction of the credit service, over any deposits, messages and
\* image requests, is one call of the prepaid account or no call at all: the
\* promise PrepaidAccount states is kept through lots, rounding, pooling,
\* retries and refunds.
THEOREM LedgerImplementsAccount == Spec => ImplementsAccount
<1>1. Init => Account!Init /\ RefundsAreHeld
  BY InitSimulates
<1>2. IInv /\ RefundsAreHeld /\ [Next]_vars
        => [Account!Next]_Account!vars /\ RefundsAreHeld'
  BY StepSimulates DEF Simulates
<1> QED
  BY <1>1, <1>2, InvariantHolds, PTL DEF Spec, ImplementsAccount, Account!Spec
-----------------------------------------------------------------------------
(***************************************************************************)
(* The allocation loop. For any lots and any charge they can pay, the loop  *)
(* of allocateAcrossLots computes the closed form the ledger is specified   *)
(* with; and a run of deposits and charges overdraws only spent lots.       *)
(***************************************************************************)
\* Induction up to a number, for a property given by the set of the numbers
\* that have it.
LEMMA RangeInduction ==
  ASSUME NEW n \in Nat, NEW Good, 0 \in Good,
         \A i \in 1 .. n : i - 1 \in Good => i \in Good
  PROVE  \A i \in 0 .. n : i \in Good
<1> DEFINE Bad == {T \in SUBSET (1 .. n) : \E i \in 0 .. n : i \notin Good /\ T = 1 .. i}
<1>1. SUFFICES ASSUME Bad # {} PROVE FALSE
  <2> SUFFICES ASSUME NEW i \in 0 .. n, i \notin Good PROVE Bad # {}
    OBVIOUS
  <2>1. 1 .. i \in SUBSET (1 .. n)
    OBVIOUS
  <2> QED
    BY <2>1
<1>2. PICK T \in Bad : \A U \in SUBSET T : U # T => U \notin Bad
  <2>1. IsFiniteSet(1 .. n) /\ Bad \subseteq SUBSET (1 .. n)
    BY FS_Interval
  <2> HIDE DEF Bad
  <2> DEFINE R == 1 .. n
  <2>2. IsFiniteSet(R) /\ Bad \subseteq SUBSET R /\ Bad # {}
    BY <1>1, <2>1
  <2> HIDE DEF R
  <2>3. \E T \in Bad : \A U \in SUBSET T : U # T => U \notin Bad
    BY <2>2, SmallestSet
  <2> QED
    BY <2>3
<1>3. PICK k \in 0 .. n : k \notin Good /\ T = 1 .. k
  BY <1>2
<1>4. k \in 1 .. n
  BY <1>3
<1>5. 1 .. (k - 1) \in SUBSET T /\ 1 .. (k - 1) # T
  <2>1. k \in T /\ k \notin 1 .. (k - 1)
    BY <1>3, <1>4
  <2>2. 1 .. (k - 1) \subseteq 1 .. k
    BY <1>4
  <2> QED
    BY <1>3, <2>1, <2>2
<1>6. 1 .. (k - 1) \notin Bad
  BY <1>2, <1>5
<1>7. 1 .. (k - 1) \in SUBSET (1 .. n)
  BY <1>4
<1>8. k - 1 \in Good
  BY <1>4, <1>6, <1>7
<1> QED
  BY <1>3, <1>4, <1>8

\* The states of the loop after each of the first n lots.
IsLoopTo(g, L, amount, n) ==
  g = [i \in 0 .. n |-> IF i = 0 THEN NothingTaken(L, amount)
                        ELSE AllocateLot(L, amount, g[i - 1], i)]

\* The recursive function of AllocateEachLot exists: some function on the
\* positions of the lots obeys its equation.
LEMMA LoopExists ==
  ASSUME NEW L, NEW amount, NEW n \in Nat
  PROVE  \E g : IsLoopTo(g, L, amount, n)
<1> DEFINE Good == {i \in 0 .. n : \E g : IsLoopTo(g, L, amount, i)}
<1>1. 0 \in Good
  <2> DEFINE g == [i \in 0 .. 0 |-> NothingTaken(L, amount)]
  <2>1. g = [i \in 0 .. 0 |-> IF i = 0 THEN NothingTaken(L, amount)
                              ELSE AllocateLot(L, amount, g[i - 1], i)]
    OBVIOUS
  <2>2. IsLoopTo(g, L, amount, 0)
    BY <2>1 DEF IsLoopTo
  <2> QED
    BY <2>2
<1>2. ASSUME NEW i \in 1 .. n, i - 1 \in Good
      PROVE  i \in Good
  <2>1. PICK g : IsLoopTo(g, L, amount, i - 1)
    BY <1>2
  <2> DEFINE h == [j \in 0 .. i |-> IF j = i THEN AllocateLot(L, amount, g[i - 1], i)
                                    ELSE g[j]]
             e == [j \in 0 .. i |-> IF j = 0 THEN NothingTaken(L, amount)
                                    ELSE AllocateLot(L, amount, h[j - 1], j)]
  <2>2. ASSUME NEW j \in 0 .. i
        PROVE  h[j] = e[j]
    <3>1. CASE j = i
      BY <3>1
    <3>2. CASE j # i
      <4>1. j \in 0 .. (i - 1) /\ h[j] = g[j]
        BY <3>2
      <4>2. g[j] = IF j = 0 THEN NothingTaken(L, amount)
                   ELSE AllocateLot(L, amount, g[j - 1], j)
        BY <2>1, <4>1 DEF IsLoopTo
      <4>3. j # 0 => h[j - 1] = g[j - 1]
        BY <4>1
      <4> QED
        BY <4>1, <4>2, <4>3
    <3> QED
      BY <3>1, <3>2
  <2>3. h = e
    BY <2>2
  <2>4. IsLoopTo(h, L, amount, i)
    BY <2>3 DEF IsLoopTo
  <2> QED
    BY <2>4
<1> HIDE DEF Good
<1>3. n \in Good
  BY <1>1, <1>2, RangeInduction
<1> QED
  BY <1>3 DEF Good

\* What the loop has reached after the last lot, by the rounds that lead there.
LEMMA LoopUnfolds ==
  ASSUME NEW L, NEW amount, Len(L) \in Nat
  PROVE  \E g : IsLoopTo(g, L, amount, Len(L)) /\ AllocateEachLot(L, amount) = g[Len(L)]
<1> DEFINE g == CHOOSE g : IsLoopTo(g, L, amount, Len(L))
<1>1. IsLoopTo(g, L, amount, Len(L))
  BY LoopExists
<1>2. AllocateEachLot(L, amount) = g[Len(L)]
  BY Zenon DEF AllocateEachLot, IsLoopTo
<1> QED
  BY <1>1, <1>2

\* What a lot is asked for: the last lot for the rest, the others for their
\* rounded-down shares.
Asked(L, amount, acc, i) ==
  IF IsLast(L, i) THEN acc.remaining
  ELSE (amount * Balance(L[i])) \div TotalBalance(L)

\* A round of the loop that takes `want` from lot i: before it, and after it.
MayTake(L, amount, acc, i, want) ==
  /\ i \in SpendableLots(L) /\ L[i] \in LotBalances
  /\ acc.remaining \in Nat
  /\ want \in Nat /\ want <= Balance(L[i])
  /\ want = Lesser(Balance(L[i]), Lesser(acc.remaining, Asked(L, amount, acc, i)))
  /\ acc.remaining = 0 => want = 0
  /\ acc.taken = [acc.taken EXCEPT ![i] = NoCredits]

Takes(L, acc, i, want, r) ==
  /\ r.remaining = acc.remaining - want
  /\ r.taken = [acc.taken EXCEPT ![i] = SplitLotProportionally(L[i], want)]
  /\ r.remaining > 0 => r.last = i

\* One round of the loop takes what the lot is asked for, within its balance
\* and what is left; a round that finds nothing left would take nothing.
LEMMA AllocateLotTakes ==
  ASSUME NEW L, NEW amount, NEW acc, NEW i, NEW want, MayTake(L, amount, acc, i, want)
  PROVE  Takes(L, acc, i, want, AllocateLot(L, amount, acc, i))
<1> DEFINE r == AllocateLot(L, amount, acc, i)
           split == SplitLotProportionally(L[i], want)
           m == acc.remaining
<1>0. /\ i \in SpendableLots(L) /\ L[i] \in LotBalances
      /\ m \in Nat
      /\ want \in Nat /\ want <= Balance(L[i])
      /\ want = Lesser(Balance(L[i]), Lesser(m, Asked(L, amount, acc, i)))
      /\ m = 0 => want = 0
      /\ acc.taken = [acc.taken EXCEPT ![i] = NoCredits]
  BY DEF MayTake
<1>1. r = IF m <= 0 THEN acc
          ELSE [remaining |-> m - split.paid - split.bonus,
                last      |-> i,
                taken     |-> [acc.taken EXCEPT ![i] = split]]
  BY <1>0 DEF AllocateLot, Asked
<1>2. split \in LotBalances /\ Balance(split) = want
  BY <1>0, SplitBound, SplitTotal
<1>3. split.paid \in Nat /\ split.bonus \in Nat /\ split.paid + split.bonus = want
  BY <1>2 DEF LotBalances, Balance
<1>4. CASE m <= 0
  <2>1. m = 0 /\ want = 0
    BY <1>0, <1>4
  <2>2. split.paid = 0 /\ split.bonus = 0
    BY <1>3, <2>1
  <2>3. split = NoCredits
    BY <1>2, <2>2 DEF LotBalances, NoCredits
  <2>4. r = acc
    BY <1>1, <1>4
  <2> HIDE DEF r, split
  <2>5. r.remaining = m - want /\ ~(r.remaining > 0)
    BY <2>1, <2>4
  <2>6. r.taken = [acc.taken EXCEPT ![i] = split]
    BY <1>0, <2>3, <2>4, Zenon
  <2> QED
    BY <2>5, <2>6 DEF r, split, Takes
<1>5. CASE m > 0
  <2>1. r = [remaining |-> m - split.paid - split.bonus,
             last      |-> i,
             taken     |-> [acc.taken EXCEPT ![i] = split]]
    BY <1>0, <1>1, <1>5
  <2> HIDE DEF r, split
  <2>2. m - split.paid - split.bonus = m - want
    BY <1>0, <1>3
  <2>3. r.remaining = m - want /\ r.taken = [acc.taken EXCEPT ![i] = split] /\ r.last = i
    BY <2>1, <2>2
  <2> QED
    BY <2>3 DEF r, split, Takes
<1> QED
  BY <1>0, <1>4, <1>5

\* What the loop takes, over all its rounds: from the last lot what the others
\* leave, within its balance, from the others their rounded-down shares.
LoopTakes(L, last, shares, rest) ==
  [j \in DOMAIN L |->
     IF j \notin SpendableLots(L) THEN NoCredits
     ELSE SplitLotProportionally(L[j], IF j = last THEN Lesser(Balance(L[last]), rest)
                                       ELSE shares[j])]

\* The rounded-down shares of the lots O, each within its lot.
SharesFit(L, amount, O, shares) ==
  \A j \in O : /\ shares[j] \in Nat
               /\ shares[j] <= Balance(L[j])
               /\ shares[j] = (amount * Balance(L[j])) \div TotalBalance(L)

\* What the loop starts from, and what it ends with.
LoopStart(L, n, amount, last, O, shares, rest) ==
  /\ n \in Nat /\ L \in [1 .. n -> LotBalances] /\ amount \in Nat
  /\ last \in SpendableLots(L) /\ IsLast(L, last) /\ O = SpendableLots(L) \ {last}
  /\ SharesFit(L, amount, O, shares)
  /\ rest \in Nat /\ rest = amount - SumFunctionOnSet(shares, O)

LoopEnd(L, last, given, rest, acc) ==
  /\ acc.remaining = rest - Lesser(Balance(L[last]), rest)
  /\ acc.taken = given
  /\ acc.remaining > 0 => acc.last = last

\* The rounds of the loop, given the rounded-down shares of the lots before the
\* last one and what those leave of the charge.
LEMMA LoopRounds ==
  ASSUME NEW L, NEW n, NEW amount, NEW last, NEW O, NEW shares, NEW rest,
         LoopStart(L, n, amount, last, O, shares, rest),
         NEW g, IsLoopTo(g, L, amount, n)
  PROVE  LoopEnd(L, last, LoopTakes(L, last, shares, rest), rest, g[n])
<1> n \in Nat /\ L \in [1 .. n -> LotBalances] /\ amount \in Nat
  BY DEF LoopStart
<1> last \in SpendableLots(L) /\ IsLast(L, last) /\ O = SpendableLots(L) \ {last}
  BY DEF LoopStart
<1> SharesFit(L, amount, O, shares)
  BY DEF LoopStart
<1> rest \in Nat /\ rest = amount - SumFunctionOnSet(shares, O)
  BY DEF LoopStart
<1> DEFINE Upto(i) == {j \in O : j <= i}
           left(i) == IF i < last THEN amount - SumFunctionOnSet(shares, Upto(i))
                      ELSE rest - Lesser(Balance(L[last]), rest)
           given == LoopTakes(L, last, shares, rest)
           Given(i) == [j \in 1 .. n |-> IF j <= i THEN given[j] ELSE NoCredits]
           Reached(i) == /\ g[i].remaining = left(i)
                         /\ g[i].taken = Given(i)
                         /\ i >= last /\ g[i].remaining > 0 => g[i].last = last
           Good == {i \in 0 .. n : Reached(i)}
<1> HIDE DEF Upto, left, given, Given, Reached
<1>1. /\ DOMAIN L = 1 .. n
      /\ SpendableLots(L) \subseteq 1 .. n
      /\ O \subseteq 1 .. n
      /\ last \in 1 .. n
      /\ IsFiniteSet(O)
  <2>1. SpendableLots(L) \subseteq 1 .. n /\ DOMAIN L = 1 .. n
    BY DEF SpendableLots
  <2>2. O \in SUBSET (1 .. n)
    BY <2>1
  <2>3. IsFiniteSet(1 .. n)
    BY FS_Interval
  <2>4. IsFiniteSet(O)
    BY <2>2, <2>3, FS_Subset, Zenon
  <2> QED
    BY <2>1, <2>2, <2>4
<1>2. \A j \in O : shares[j] \in Nat /\ shares[j] \in Int
  BY DEF SharesFit
<1>3. Balance(L[last]) \in Nat
  BY <1>1, BalanceType
<1>4. /\ g[0] = NothingTaken(L, amount)
      /\ \A i \in 1 .. n : g[i] = AllocateLot(L, amount, g[i - 1], i)
  BY DEF IsLoopTo
<1>5. \A i \in 0 .. n : SumFunctionOnSet(shares, Upto(i)) \in Nat
  <2> TAKE i \in 0 .. n
  <2>1. IsFiniteSet(Upto(i)) /\ \A j \in Upto(i) : shares[j] \in Nat
    BY <1>1, <1>2, FS_Subset DEF Upto
  <2> QED
    BY <2>1, SumNat
<1>6. Reached(0)
  <2>1. Upto(0) = {}
    BY <1>1 DEF Upto
  <2>2. SumFunctionOnSet(shares, Upto(0)) = 0
    BY <2>1, SumEmpty
  <2>3. left(0) = amount
    BY <1>1, <2>2 DEF left
  <2>4. Given(0) = [i \in DOMAIN L |-> NoCredits]
    BY <1>1 DEF Given
  <2>5. g[0].remaining = left(0) /\ g[0].taken = Given(0) /\ ~(0 >= last)
    BY <1>1, <1>4, <2>3, <2>4 DEF NothingTaken
  <2> QED
    BY <2>5 DEF Reached
<1>7. ASSUME NEW i \in 1 .. n, Reached(i - 1)
      PROVE  Reached(i)
  <2> DEFINE acc == g[i - 1]
  <2>1. /\ acc.remaining = left(i - 1)
        /\ acc.taken = Given(i - 1)
        /\ i - 1 >= last /\ acc.remaining > 0 => acc.last = last
        /\ g[i] = AllocateLot(L, amount, acc, i)
    BY <1>4, <1>7 DEF Reached
  <2> HIDE DEF acc
  <2>2. CASE i \notin SpendableLots(L)
    <3>1. g[i] = acc
      BY <2>1, <2>2 DEF AllocateLot
    <3>2. given[i] = NoCredits
      BY <1>1, <2>2 DEF LoopTakes, given
    <3>3. Given(i) = Given(i - 1)
      BY <3>2 DEF Given
    <3>4. Upto(i) = Upto(i - 1) /\ i # last
      BY <1>1, <2>2 DEF Upto
    <3>5. left(i) = left(i - 1)
      BY <1>1, <3>4 DEF left
    <3>6. i >= last => i - 1 >= last
      BY <1>1, <3>4
    <3> QED
      BY <2>1, <3>1, <3>3, <3>5, <3>6 DEF Reached
  <2>3. ASSUME NEW want \in Nat, i \in SpendableLots(L), want <= Balance(L[i]),
               want = Lesser(Balance(L[i]), Lesser(left(i - 1), Asked(L, amount, acc, i))),
               left(i - 1) \in Nat, left(i - 1) = 0 => want = 0,
               left(i) = left(i - 1) - want, given[i] = SplitLotProportionally(L[i], want),
               i <= last
        PROVE  Reached(i)
    <3>1. Given(i) = [Given(i - 1) EXCEPT ![i] = given[i]]
      <4> DEFINE X == [Given(i - 1) EXCEPT ![i] = given[i]]
      <4>1. \A j \in 1 .. n : j <= i <=> j <= i - 1 \/ j = i
        OBVIOUS
      <4>2. \A j \in 1 .. n : Given(i)[j] = X[j]
        BY <4>1 DEF Given
      <4>3. DOMAIN Given(i) = 1 .. n /\ DOMAIN X = 1 .. n
        BY DEF Given
      <4>4. Given(i) = [j \in 1 .. n |-> Given(i)[j]] /\ X = [j \in 1 .. n |-> X[j]]
        BY DEF Given
      <4> QED
        BY <4>2, <4>4
    <3>2. Given(i - 1) = [Given(i - 1) EXCEPT ![i] = NoCredits]
      BY DEF Given
    <3>3. L[i] \in LotBalances
      OBVIOUS
    <3>4. /\ acc.remaining = left(i - 1) /\ acc.remaining \in Nat
          /\ acc.remaining = 0 => want = 0
          /\ want = Lesser(Balance(L[i]), Lesser(acc.remaining, Asked(L, amount, acc, i)))
      BY <2>1, <2>3
    <3>5. acc.taken = [acc.taken EXCEPT ![i] = NoCredits]
      BY <2>1, <3>2, Zenon
    <3>6. /\ g[i].remaining = acc.remaining - want
          /\ g[i].taken = [acc.taken EXCEPT ![i] = SplitLotProportionally(L[i], want)]
          /\ g[i].remaining > 0 => g[i].last = i
      <4>1. MayTake(L, amount, acc, i, want)
        BY <2>3, <3>3, <3>4, <3>5 DEF MayTake
      <4>2. Takes(L, acc, i, want, g[i])
        BY <2>1, <4>1, AllocateLotTakes
      <4> QED
        BY <4>2 DEF Takes
    <3>7. g[i].remaining = left(i)
      BY <2>3, <3>4, <3>6
    <3>8. g[i].taken = Given(i)
      BY <2>1, <2>3, <3>1, <3>6, Zenon
    <3>9. i >= last => i = last
      BY <1>1, <2>3
    <3> QED
      BY <3>6, <3>7, <3>8, <3>9 DEF Reached
  <2>4. CASE i \in O /\ i < last
    <3> DEFINE want == shares[i]
               P == SumFunctionOnSet(shares, Upto(i - 1))
               Q == SumFunctionOnSet(shares, Upto(i))
               F == SumFunctionOnSet(shares, O)
    <3> HIDE DEF want, P, Q, F
    <3>1. want \in Nat /\ want <= Balance(L[i]) /\ Balance(L[i]) \in Nat
      <4>1. L[i] \in LotBalances
        OBVIOUS
      <4> QED
        BY <2>4, <4>1, BalanceType DEF SharesFit, want
    <3>2. Asked(L, amount, acc, i) = want
      <4>1. ~IsLast(L, i)
        BY <1>1, <2>4 DEF IsLast
      <4>2. want = (amount * Balance(L[i])) \div TotalBalance(L)
        BY <2>4 DEF SharesFit, want
      <4> QED
        BY <4>1, <4>2 DEF Asked
    <3>3. Q = want + P
      <4>1. Upto(i) = Upto(i - 1) \union {i} /\ i \notin Upto(i - 1)
            /\ Upto(i - 1) \in SUBSET O
        BY <1>1, <2>4 DEF Upto
      <4>2. IsFiniteSet(Upto(i - 1)) /\ \A j \in Upto(i - 1) : shares[j] \in Int
        BY <1>1, <1>2, <4>1, FS_Subset
      <4>3. shares[i] \in Int
        BY <1>2, <2>4
      <4> QED
        BY <4>1, <4>2, <4>3, SumInsert DEF P, Q, want
    <3>4. Q <= F
      <4>1. Upto(i) \in SUBSET O
        BY DEF Upto
      <4> QED
        BY <1>1, <1>2, <4>1, SumMonotone DEF Q, F
    <3>5. F \in Int /\ rest = amount - F
      BY <1>1, <1>2, SumType DEF F
    <3>6. P \in Nat /\ Q \in Nat /\ Q <= amount
      <4>1. P \in Nat /\ Q \in Nat
        BY <1>5 DEF P, Q
      <4> QED
        BY <3>4, <3>5, <4>1
    <3>7. left(i - 1) = amount - P /\ left(i) = amount - Q
      BY <1>1, <2>4 DEF left, P, Q
    <3>8. given[i] = SplitLotProportionally(L[i], want)
      BY <1>1, <2>4 DEF LoopTakes, given, want
    <3>9. i \in SpendableLots(L) /\ i <= last
      BY <1>1, <2>4
    <3>10. /\ left(i - 1) \in Nat /\ (left(i - 1) = 0 => want = 0)
           /\ left(i) = left(i - 1) - want /\ want <= left(i - 1)
      BY <3>1, <3>3, <3>6, <3>7
    <3>11. want = Lesser(Balance(L[i]), Lesser(left(i - 1), Asked(L, amount, acc, i)))
      BY <3>1, <3>2, <3>10 DEF Lesser
    <3> QED
      BY <2>3, <3>1, <3>8, <3>9, <3>10, <3>11
  <2>5. CASE i = last
    <3> DEFINE want == Lesser(Balance(L[last]), rest)
    <3>1. Upto(i - 1) = O
      BY <1>1, <2>5 DEF IsLast, Upto
    <3>2. left(i - 1) = rest /\ left(i) = rest - want
      <4>1. i - 1 < last /\ ~(i < last)
        BY <1>1, <2>5
      <4> QED
        BY <3>1, <4>1 DEF left
    <3>3. Asked(L, amount, acc, i) = rest
      BY <2>1, <2>5, <3>2 DEF Asked
    <3>4. given[i] = SplitLotProportionally(L[i], want)
      BY <1>1, <2>5 DEF LoopTakes, given
    <3>5. want \in Nat /\ want <= Balance(L[i]) /\ (rest = 0 => want = 0)
      BY <1>3, <2>5 DEF Lesser
    <3>6. Lesser(rest, rest) = rest
      BY DEF Lesser
    <3>7. i \in SpendableLots(L) /\ i <= last
      BY <1>1, <2>5
    <3>8. want = Lesser(Balance(L[i]), Lesser(left(i - 1), Asked(L, amount, acc, i)))
      BY <2>5, <3>2, <3>3, <3>6
    <3> HIDE DEF want
    <3> QED
      BY <2>3, <3>2, <3>4, <3>5, <3>7, <3>8
  <2>6. i \in SpendableLots(L) => i = last \/ (i \in O /\ i < last)
    BY <1>1 DEF IsLast
  <2> QED
    BY <2>2, <2>4, <2>5, <2>6
<1>8. Reached(n)
  <2>1. 0 \in Good
    BY <1>6
  <2>2. \A i \in 1 .. n : i - 1 \in Good => i \in Good
    BY <1>7
  <2> HIDE DEF Good
  <2>3. \A i \in 0 .. n : i \in Good
    BY <2>1, <2>2, RangeInduction
  <2> QED
    BY <2>3 DEF Good
<1>9. left(n) = rest - Lesser(Balance(L[last]), rest) /\ n >= last
  BY <1>1 DEF left
<1>10. Given(n) = given
  BY <1>1 DEF LoopTakes, Given, given
<1> QED
  BY <1>8, <1>9, <1>10 DEF Reached, given, LoopEnd

\* A multiple of a number divided by it.
LEMMA ExactQuotient ==
  ASSUME NEW y \in Nat, y > 0, NEW k \in Nat
  PROVE  (y * k) \div y = k
<1> DEFINE x == y * k
           q == x \div y
<1>1. x \in Nat /\ y \in Nat \ {0} /\ x <= k * y
  OBVIOUS
<1>2. q \in Nat /\ q <= k
  <2> HIDE DEF x
  <2> QED
    BY <1>1, QuotientBound
<1>3. x % y \in 0 .. (y - 1) /\ x = y * q + (x % y)
  <2> HIDE DEF x
  <2> QED
    BY <1>1
<1>4. ASSUME q <= k - 1 PROVE FALSE
  <2>1. y * q <= y * (k - 1)
    <3> HIDE DEF q
    <3> QED
      BY <1>2, <1>4
  <2>2. y * (k - 1) = x - y
    OBVIOUS
  <2>3. y * q \in Int
    BY <1>2
  <2> DEFINE z == y * q
             m == x % y
  <2> HIDE DEF z, m, x, q
  <2> QED
    BY <1>1, <1>3, <2>1, <2>2, <2>3 DEF z, m
<1> QED
  BY <1>2, <1>4

\* Splitting a whole lot takes all of it.
LEMMA WholeSplit ==
  ASSUME NEW lot \in LotBalances, Balance(lot) > 0
  PROVE  /\ SplitLotProportionally(lot, Balance(lot)).paid = lot.paid
         /\ SplitLotProportionally(lot, Balance(lot)).bonus = lot.bonus
<1> DEFINE p == lot.paid
           b == lot.bonus
           w == p + b
<1>1. p \in Nat /\ b \in Nat /\ Balance(lot) = w /\ w > 0
  BY DEF LotBalances, Balance
<1> HIDE DEF p, b
<1> DEFINE q == (w * p) \div w
<1>4. q = p
  BY <1>1, ExactQuotient
<1>5. SplitLotProportionally(lot, Balance(lot)) = [paid |-> q, bonus |-> w - q]
  BY <1>1 DEF SplitLotProportionally, p
<1> HIDE DEF q
<1>6. w - q = b
  BY <1>1, <1>4
<1> QED
  BY <1>4, <1>5, <1>6 DEF p, b

\* The lots `given` something, the last one its part of the rest.
LastGiven(L, n, last, given, rest) ==
  /\ n \in Nat /\ L \in [1 .. n -> LotBalances] /\ last \in SpendableLots(L) /\ rest \in Nat
  /\ given = [j \in 1 .. n |-> given[j]]
  /\ given[last] = SplitLotProportionally(L[last], Lesser(Balance(L[last]), rest))

\* What the loop leaves unallocated is more than the last lot had: it is left
\* to the bonus side of that lot.
LEMMA RestGoesToLast ==
  ASSUME NEW n, NEW L, NEW last, NEW rest, NEW acc, NEW given,
         LastGiven(L, n, last, given, rest), LoopEnd(L, last, given, rest, acc)
  PROVE  GiveRestToLast(L, acc) = [given EXCEPT ![last] = LastShare(L[last], rest)]
<1> DEFINE lot == L[last]
           w == Balance(lot)
           k == Lesser(w, rest)
           split == SplitLotProportionally(lot, k)
<1> acc.taken = given /\ acc.remaining = rest - k /\ (acc.remaining > 0 => acc.last = last)
  BY DEF LoopEnd
<1> n \in Nat /\ L \in [1 .. n -> LotBalances] /\ last \in SpendableLots(L) /\ rest \in Nat
  BY DEF LastGiven
<1> given = [j \in 1 .. n |-> given[j]] /\ given[last] = split
  BY DEF LastGiven
<1>1. last \in 1 .. n /\ lot \in LotBalances /\ w \in Nat /\ w > 0
  BY BalanceType DEF SpendableLots
<1>2. k \in Nat /\ k <= w /\ k <= rest
  BY <1>1 DEF Lesser
<1>3. split \in LotBalances
  BY <1>1, <1>2, SplitBound
<1>4. LastShare(lot, rest) = [paid |-> split.paid, bonus |-> split.bonus + (rest - k)]
  BY <1>3 DEF LastShare, LotBalances
<1>5. split.paid \in Nat /\ split.bonus \in Nat /\ lot.paid \in Nat
  BY <1>1, <1>3 DEF LotBalances
<1>6. CASE rest - k = 0
  <2>1. GiveRestToLast(L, acc) = given
    BY <1>6 DEF GiveRestToLast
  <2>2. LastShare(lot, rest) = split
    BY <1>3, <1>4, <1>5, <1>6 DEF LotBalances
  <2>3. given = [given EXCEPT ![last] = given[last]]
    OBVIOUS
  <2> QED
    BY <2>1, <2>2, <2>3
<1>7. CASE rest - k > 0
  <2>1. k = w
    BY <1>1, <1>7 DEF Lesser
  <2>2. split.paid = lot.paid
    BY <1>1, <2>1, WholeSplit
  <2>3. acc.last = last /\ last # 0 /\ acc.remaining = rest - k
    BY <1>1, <1>7
  <2>4. given[last] = split
    OBVIOUS
  <2>5. GiveRestToLast(L, acc) =
          LET extra == Lesser(rest - k, Positive(lot.paid - split.paid))
          IN  [given EXCEPT ![last] = [paid  |-> split.paid + extra,
                                       bonus |-> split.bonus + ((rest - k) - extra)]]
    <3> HIDE DEF k, split, lot
    <3> QED
      BY <1>7, <2>3, <2>4 DEF GiveRestToLast, lot
  <2>6. Lesser(rest - k, Positive(lot.paid - split.paid)) = 0
    BY <1>2, <1>5, <1>7, <2>2 DEF Lesser, Positive
  <2> HIDE DEF k, split, lot
  <2>7. split.paid + 0 = split.paid /\ (rest - k) - 0 = rest - k
    BY <1>2, <1>5
  <2> QED
    BY <1>4, <2>5, <2>6, <2>7 DEF lot
<1> QED
  BY <1>2, <1>6, <1>7

\* Dropping the entries that take nothing changes nothing.
LEMMA NormalizedIsSame ==
  ASSUME NEW I, NEW taken \in [I -> LotBalances]
  PROVE  NormalizeAllocationList(taken) = taken
<1>1. ASSUME NEW i \in I, ~(taken[i].paid > 0 \/ taken[i].bonus > 0)
      PROVE  taken[i] = NoCredits
  <2>1. taken[i].paid = 0 /\ taken[i].bonus = 0 /\ taken[i] \in LotBalances
    BY <1>1 DEF LotBalances
  <2> QED
    BY <2>1 DEF LotBalances, NoCredits
<1> QED
  BY <1>1 DEF NormalizeAllocationList

\* The spendable lots are finitely many, and each is one of the lots.
LEMMA SpendableType ==
  ASSUME NEW L \in Seq(LotBalances)
  PROVE  /\ Len(L) \in Nat /\ DOMAIN L = 1 .. Len(L) /\ L \in [1 .. Len(L) -> LotBalances]
         /\ SpendableLots(L) \in SUBSET (1 .. Len(L))
         /\ IsFiniteSet(SpendableLots(L))
         /\ [i \in SpendableLots(L) |-> L[i]] \in [SpendableLots(L) -> LotBalances]
         /\ TotalBalance(L) \in Nat
<1>1. Len(L) \in Nat /\ DOMAIN L = 1 .. Len(L) /\ L \in [1 .. Len(L) -> LotBalances]
  OBVIOUS
<1>2. SpendableLots(L) \in SUBSET (1 .. Len(L))
  BY <1>1 DEF SpendableLots
<1>3. IsFiniteSet(1 .. Len(L))
  BY <1>1, FS_Interval
<1>4. IsFiniteSet(SpendableLots(L))
  BY <1>2, <1>3, FS_Subset, Zenon
<1>5. [i \in SpendableLots(L) |-> L[i]] \in [SpendableLots(L) -> LotBalances]
  BY <1>1, <1>2
<1>6. TotalBalance(L) \in Nat
  <2> DEFINE w == [i \in SpendableLots(L) |-> Balance(L[i])]
  <2>1. \A i \in SpendableLots(L) : w[i] \in Nat
    BY <1>1, <1>2, BalanceType
  <2>2. TotalBalance(L) = SumFunctionOnSet(w, SpendableLots(L))
    BY DEF TotalBalance, SumOver
  <2> HIDE DEF w
  <2> QED
    BY <1>4, <2>1, <2>2, SumNat
<1> QED
  BY <1>1, <1>2, <1>4, <1>5, <1>6

\* A charge the lots can pay is paid by some lot, and the last of those.
LEMMA LastExists ==
  ASSUME NEW L \in Seq(LotBalances), NEW amount \in Nat \ {0}, CanAllocate(L, amount)
  PROVE  \E last \in SpendableLots(L) : IsLast(L, last)
<1> DEFINE n == Len(L)
           S == SpendableLots(L)
           After(i) == {j \in 1 .. n : j > i}
           Bad == {After(i) : i \in S}
<1>1. S \in SUBSET (1 .. n) /\ n \in Nat
  BY SpendableType
<1>2. S # {}
  <2> SUFFICES ASSUME S = {} PROVE FALSE
    OBVIOUS
  <2>1. TotalBalance(L) = 0
    BY SumEmpty DEF TotalBalance, SumOver
  <2> QED
    BY <2>1 DEF CanAllocate
<1> HIDE DEF S, n
<1>3. IsFiniteSet(1 .. n)
  BY <1>1, FS_Interval
<1>4. PICK T \in Bad : \A U \in SUBSET T : U # T => U \notin Bad
  <2>1. Bad \subseteq SUBSET (1 .. n) /\ Bad # {}
    BY <1>2
  <2> HIDE DEF Bad
  <2> QED
    BY <1>3, <2>1, SmallestSet
<1>5. PICK last \in S : T = After(last)
  BY <1>4
<1>6. ASSUME NEW j \in S PROVE j <= last
  <2> SUFFICES ASSUME j > last PROVE FALSE
    BY <1>1
  <2>1. After(j) \in SUBSET T /\ After(j) # T
    <3>1. j \in T /\ j \notin After(j)
      BY <1>1, <1>5
    <3>2. After(j) \subseteq After(last)
      BY <1>1
    <3> HIDE DEF After
    <3> QED
      BY <1>5, <3>1, <3>2
  <2>2. After(j) \in Bad
    OBVIOUS
  <2> HIDE DEF Bad, After
  <2> QED
    BY <1>4, <2>1, <2>2
<1> QED
  BY <1>6 DEF IsLast, S

\* The loop of allocateAcrossLots computes the closed form: for any lots and
\* any charge they can pay, the rounds, the leftover given to the last lot and
\* the final filter leave each spendable lot with its proportional share, the
\* last with the rest, and the others with nothing.
THEOREM LoopComputesShares ==
  ASSUME NEW L \in Seq(LotBalances), NEW amount \in Nat \ {0}, CanAllocate(L, amount),
         NEW last \in SpendableLots(L), IsLast(L, last)
  PROVE  LET candidates == [i \in SpendableLots(L) |-> L[i]]
             total      == TotalBalance(L)
             rest       == RestOfCharge(candidates, total, last, amount)
             shares     == ProportionalAllocation(candidates, total, last, rest, amount)
         IN  /\ rest \in 0 .. amount
             /\ AllocateAcrossLots(L, amount)
                  = [i \in DOMAIN L |-> IF i \in SpendableLots(L) THEN shares[i] ELSE NoCredits]
<1> DEFINE n == Len(L)
           S == SpendableLots(L)
           O == S \ {last}
           open == [i \in S |-> L[i]]
           total == TotalBalance(L)
           rest == RestOfCharge(open, total, last, amount)
           shares == ProportionalAllocation(open, total, last, rest, amount)
           floors == [d \in O |-> FloorShare(open, total, amount, d)]
           given == LoopTakes(L, last, floors, rest)
           A == [i \in DOMAIN L |-> IF i \in S THEN shares[i] ELSE NoCredits]
<1>1. /\ n \in Nat /\ DOMAIN L = 1 .. n /\ L \in [1 .. n -> LotBalances]
      /\ S \in SUBSET (1 .. n) /\ IsFiniteSet(S)
      /\ open \in [S -> LotBalances] /\ DOMAIN open = S
      /\ \A i \in S : open[i] = L[i]
      /\ total \in Nat
  BY SpendableType
<1>2. amount <= total /\ total \in Nat \ {0}
  BY <1>1 DEF CanAllocate
<1>3. total = TotalOf(S, open)
  <2>1. [i \in S |-> Balance(L[i])] = [i \in S |-> Balance(open[i])]
    BY <1>1
  <2> QED
    BY <2>1 DEF TotalBalance, TotalOf, SumOver
<1> HIDE DEF n, open, total
<1>4. /\ rest \in 0 .. amount
      /\ rest = amount - SumFunctionOnSet(floors, O)
  <2>1. rest \in 0 .. amount /\ rest = amount - SharesOf(O, open, total, amount)
    BY <1>1, <1>2, <1>3, RestBound
  <2> QED
    BY <2>1 DEF SharesOf, SumOver
<1>5. rest \in Nat
  BY <1>4
<1> HIDE DEF rest
<1>6. SharesFit(L, amount, O, floors)
  <2> SUFFICES ASSUME NEW d \in O
               PROVE  /\ floors[d] \in Nat /\ floors[d] <= Balance(L[d])
                      /\ floors[d] = (amount * Balance(L[d])) \div TotalBalance(L)
    BY DEF SharesFit
  <2>1. floors[d] = FloorShare(open, total, amount, d) /\ open[d] = L[d]
    BY <1>1
  <2>2. floors[d] \in Nat /\ floors[d] <= Balance(open[d])
    <3>1. d \in S /\ amount \in Nat
      OBVIOUS
    <3>2. /\ FloorShare(open, total, amount, d) \in Nat
          /\ FloorShare(open, total, amount, d) <= Balance(open[d])
      BY <1>1, <1>2, <3>1, FloorShareBound
    <3> HIDE DEF floors
    <3> QED
      BY <2>1, <3>2
  <2> QED
    BY <2>1, <2>2 DEF FloorShare, total
<1> HIDE DEF floors
<1>7. PICK g : IsLoopTo(g, L, amount, n) /\ AllocateEachLot(L, amount) = g[n]
  BY <1>1, LoopUnfolds DEF n
<1>8. LoopEnd(L, last, given, rest, g[n])
  <2>1. LoopStart(L, n, amount, last, O, floors, rest)
    BY <1>1, <1>4, <1>5, <1>6 DEF LoopStart
  <2> QED
    BY <1>7, <2>1, LoopRounds
<1>9. given = [j \in 1 .. n |-> given[j]]
  BY <1>1 DEF LoopTakes
<1>10. given[last] = SplitLotProportionally(L[last], Lesser(Balance(L[last]), rest))
  BY <1>1 DEF LoopTakes
<1>11. GiveRestToLast(L, g[n]) = [given EXCEPT ![last] = LastShare(L[last], rest)]
  <2> DEFINE acc == g[n]
  <2> HIDE DEF given, acc
  <2>1. LoopEnd(L, last, given, rest, acc)
    BY <1>8 DEF acc
  <2>2. LastGiven(L, n, last, given, rest)
    BY <1>1, <1>5, <1>9, <1>10 DEF LastGiven
  <2>3. GiveRestToLast(L, acc) = [given EXCEPT ![last] = LastShare(L[last], rest)]
    BY <2>1, <2>2, RestGoesToLast
  <2> QED
    BY <2>3 DEF acc
<1>12. [given EXCEPT ![last] = LastShare(L[last], rest)] = A
  <2> DEFINE X == [given EXCEPT ![last] = LastShare(L[last], rest)]
  <2>1. ASSUME NEW i \in 1 .. n
        PROVE  X[i] = A[i]
    <3>1. CASE i = last
      BY <1>1, <1>9, <3>1 DEF ProportionalAllocation
    <3>2. CASE i \notin S
      BY <1>1, <1>9, <3>2 DEF LoopTakes
    <3>3. CASE i \in O
      <4>1. given[i] = SplitLotProportionally(L[i], floors[i])
        BY <1>1, <3>3 DEF LoopTakes
      <4>2. shares[i] = SplitLotProportionally(L[i], floors[i])
        BY <1>1, <3>3 DEF ProportionalAllocation, floors
      <4> HIDE DEF given, shares
      <4> QED
        BY <1>1, <1>9, <3>3, <4>1, <4>2
    <3> QED
      BY <3>1, <3>2, <3>3
  <2>2. X = [i \in 1 .. n |-> X[i]] /\ A = [i \in 1 .. n |-> A[i]]
    BY <1>1, <1>9
  <2> HIDE DEF X, A
  <2> QED
    BY <2>1, <2>2 DEF X
<1>13. A \in [DOMAIN L -> LotBalances]
  <2> SUFFICES ASSUME NEW i \in DOMAIN L PROVE A[i] \in LotBalances
    OBVIOUS
  <2>1. CASE i \in S
    <3>1. shares[i] \in LotBalances
      BY <1>1, <1>2, <1>5, <2>1, ProportionalAllocationBound
    <3> HIDE DEF shares
    <3> QED
      BY <2>1, <3>1
  <2>2. CASE i \notin S
    <3>1. NoCredits \in LotBalances
      BY DEF NoCredits, LotBalances
    <3> QED
      BY <2>2, <3>1
  <2> QED
    BY <2>1, <2>2
<1>14. AllocateAcrossLots(L, amount) = A
  <2> HIDE DEF A, given
  <2>1. AllocateAcrossLots(L, amount) = NormalizeAllocationList(A)
    BY <1>7, <1>11, <1>12 DEF AllocateAcrossLots
  <2> QED
    BY <1>13, <2>1, NormalizedIsSame
<1> QED
  BY <1>4, <1>14 DEF rest, open, total

-----------------------------------------------------------------------------
(***************************************************************************)
(* The lots under a run of charges. That only spent lots are overdrawn is   *)
(* inductive, over rows of whole numbers.                                   *)
(***************************************************************************)
Remains == [paid : Int, bonus : Int]

DrainInv == balances \in Seq(Remains) /\ OnlySpentLotsOverdrawn

\* What an allocation leaves of the bonus side: nothing of a lot is overdrawn
\* unless all of its paid side is taken.
TakesPaidFirst(lot, share) ==
  /\ share \in LotBalances
  /\ share.paid <= lot.paid
  /\ share.bonus <= lot.bonus \/ share.paid = lot.paid

\* A dividend of at least k divisors has a quotient of at least k.
LEMMA QuotientAbove ==
  ASSUME NEW x \in Nat, NEW y \in Nat \ {0}, NEW k \in Nat, y * k <= x
  PROVE  k <= x \div y
<1> DEFINE q == x \div y
<1>1. q \in Nat /\ x % y \in 0 .. (y - 1) /\ x = y * q + (x % y)
  OBVIOUS
<1> HIDE DEF q
<1>2. ASSUME q <= k - 1 PROVE FALSE
  <2>1. y * q <= y * (k - 1)
    BY <1>1, <1>2
  <2>2. y * (k - 1) = y * k - y
    OBVIOUS
  <2> DEFINE z == y * q
             v == y * k
             m == x % y
  <2>3. z \in Int /\ v \in Int
    BY <1>1
  <2> HIDE DEF z, v, m
  <2>4. v <= x
    BY DEF v
  <2>5. m \in 0 .. (y - 1) /\ x = z + m /\ z <= v - y
    BY <1>1, <2>1, <2>2 DEF z, v, m
  <2> QED
    BY <2>3, <2>4, <2>5
<1> QED
  BY <1>1, <1>2 DEF q

\* The bonus part of a share a lot can pay is within the lot's bonus.
LEMMA SplitBonusBound ==
  ASSUME NEW lot \in LotBalances, NEW t \in Nat, t <= Balance(lot)
  PROVE  /\ TakesPaidFirst(lot, SplitLotProportionally(lot, t))
         /\ SplitLotProportionally(lot, t).bonus <= lot.bonus
<1> DEFINE split == SplitLotProportionally(lot, t)
<1>1. split \in LotBalances /\ split.paid <= lot.paid
  BY SplitBound
<1>2. split.bonus <= lot.bonus
  <2> DEFINE p == lot.paid
             b == lot.bonus
             w == p + b
             x == t * p
             k == t - b
  <2>1. p \in Nat /\ b \in Nat /\ Balance(lot) = w /\ t <= w
    BY DEF LotBalances, Balance
  <2> HIDE DEF p, b
  <2>2. CASE k <= 0
    <3>1. split.bonus = t - split.paid /\ split.paid \in Nat
      BY <1>1 DEF SplitLotProportionally, LotBalances
    <3> HIDE DEF split
    <3> QED
      BY <2>1, <2>2, <3>1 DEF b
  <2>3. CASE k > 0
    <3>1. k \in Nat /\ w \in Nat \ {0} /\ x \in Nat
      BY <2>1, <2>3
    <3>2. w * k <= x
      <4>1. x - w * k = b * (w - t)
        BY <2>1
      <4>2. b * (w - t) >= 0
        BY <2>1
      <4> DEFINE u == b * (w - t)
                 y == w * k
      <4>3. u \in Int /\ y \in Int
        BY <2>1
      <4> HIDE DEF u, y, x, w, k
      <4> QED
        BY <3>1, <4>1, <4>2, <4>3 DEF u, y
    <3>3. split = [paid |-> x \div w, bonus |-> t - (x \div w)]
      BY <2>1, <3>1 DEF SplitLotProportionally, p
    <3> HIDE DEF x, w, k
    <3>4. k <= x \div w
      BY <3>1, <3>2, QuotientAbove
    <3>5. split.bonus = t - (x \div w)
      BY <3>3
    <3>6. x \div w \in Int
      BY <3>1
    <3> HIDE DEF split
    <3> QED
      BY <2>1, <3>4, <3>5, <3>6 DEF k, b
  <2> QED
    BY <2>1, <2>2, <2>3
<1> QED
  BY <1>1, <1>2 DEF TakesPaidFirst

\* What the last lot is given on the bonus side is within its bonus, or beyond
\* it by no more than the rest exceeds the lot.
LEMMA LastBonusBound ==
  ASSUME NEW lot \in LotBalances, NEW rest \in Nat, Balance(lot) > 0
  PROVE  /\ TakesPaidFirst(lot, LastShare(lot, rest))
         /\ LastShare(lot, rest).bonus <= lot.bonus
              \/ LastShare(lot, rest).bonus = lot.bonus + (rest - Balance(lot))
<1> DEFINE w == Balance(lot)
           k == Lesser(w, rest)
           split == SplitLotProportionally(lot, k)
           s == LastShare(lot, rest)
<1>1. w \in Nat
  BY BalanceType
<1>2. k \in Nat /\ k <= w
  BY <1>1 DEF Lesser
<1>3. TakesPaidFirst(lot, split) /\ split \in LotBalances /\ split.bonus <= lot.bonus
  BY <1>2, SplitBonusBound DEF TakesPaidFirst
<1>4. s = [split EXCEPT !.bonus = @ + (rest - k)] /\ s \in LotBalances /\ s.paid <= lot.paid
  BY LastShareBound DEF LastShare
<1>5. split.bonus \in Nat /\ s.bonus \in Nat /\ s.paid \in Nat
      /\ s.paid = split.paid /\ s.bonus = split.bonus + (rest - k)
  BY <1>3, <1>4 DEF LotBalances
<1>6. CASE rest <= w
  <2>1. k = rest
    BY <1>1, <1>6 DEF Lesser
  <2>2. s.bonus = split.bonus
    BY <1>5, <2>1
  <2> HIDE DEF s, split
  <2> QED
    BY <1>3, <1>4, <1>5, <2>2 DEF TakesPaidFirst, s
<1>7. CASE rest > w
  <2>1. k = w
    BY <1>1, <1>7 DEF Lesser
  <2>2. split.paid = lot.paid /\ split.bonus = lot.bonus
    BY <2>1, WholeSplit
  <2> HIDE DEF s, split, w
  <2> QED
    BY <1>4, <1>5, <2>1, <2>2 DEF TakesPaidFirst, s, w
<1> QED
  BY <1>1, <1>6, <1>7

\* A sum of n ones.
LEMMA SumOfOnes ==
  ASSUME NEW n \in Nat, NEW one, \A i \in 1 .. n : one[i] = 1
  PROVE  SumFunctionOnSet(one, 1 .. n) = n
<1> DEFINE Good == {i \in 0 .. n : SumFunctionOnSet(one, 1 .. i) = i}
<1>1. 0 \in Good
  <2>1. 1 .. 0 = {}
    OBVIOUS
  <2> QED
    BY <2>1, SumEmpty
<1>2. ASSUME NEW i \in 1 .. n, i - 1 \in Good
      PROVE  i \in Good
  <2>1. SumFunctionOnSet(one, 1 .. (i - 1)) = i - 1
    BY <1>2
  <2>2. 1 .. i = 1 .. (i - 1) \union {i} /\ i \notin 1 .. (i - 1)
    OBVIOUS
  <2>3. IsFiniteSet(1 .. (i - 1))
    BY FS_Interval
  <2>4. one[i] = 1 /\ \A j \in 1 .. (i - 1) : one[j] \in Int
    OBVIOUS
  <2> DEFINE T == 1 .. (i - 1)
  <2> HIDE DEF T
  <2>5. SumFunctionOnSet(one, T \union {i}) = one[i] + SumFunctionOnSet(one, T)
    <3>1. IsFiniteSet(T) /\ i \notin T /\ one[i] \in Int /\ \A j \in T : one[j] \in Int
      BY <2>2, <2>3, <2>4 DEF T
    <3> QED
      BY <3>1, SumInsert
  <2>6. SumFunctionOnSet(one, 1 .. i) = 1 + (i - 1)
    BY <2>1, <2>2, <2>4, <2>5 DEF T
  <2> QED
    BY <2>6
<1> HIDE DEF Good
<1>3. n \in Good
  <2>1. \A i \in 0 .. n : i \in Good
    BY <1>1, <1>2, RangeInduction
  <2> QED
    BY <2>1
<1> QED
  BY <1>3 DEF Good

\* The dividend is below the next multiple of the divisor.
LEMMA QuotientNext ==
  ASSUME NEW x \in Nat, NEW y \in Nat \ {0}
  PROVE  x \div y \in Nat /\ x <= y * (x \div y + 1)
<1>1. x \div y \in Int /\ x % y \in 0 .. (y - 1)
      /\ x = y * (x \div y) + (x % y)
  OBVIOUS
<1>2. x \div y \in Nat
  BY QuotientBelow
<1> DEFINE q == x \div y
           z == y * q
           m == x % y
<1>3. y * (q + 1) = z + y /\ z \in Int
  BY <1>2
<1> HIDE DEF q, z, m
<1>4. x <= z + y
  BY <1>1, <1>3 DEF z, m, q
<1> QED
  BY <1>2, <1>3, <1>4 DEF q

\* What rounding down loses: less than one unit for every lot but the last.
LEMMA FloorSharesDust ==
  ASSUME NEW S, IsFiniteSet(S), NEW w, \A x \in S : w[x] \in Nat, NEW last \in S,
         NEW amount \in Nat \ {0}, NEW total \in Nat, amount <= total,
         total = SumFunctionOnSet(w, S),
         NEW share, \A x \in S \ {last} : share[x] = (amount * w[x]) \div total,
         NEW one, \A x \in S : one[x] = 1
  PROVE  amount - SumFunctionOnSet(share, S \ {last})
           <= w[last] + SumFunctionOnSet(one, S \ {last})
<1> DEFINE O == S \ {last}
           next == [x \in O |-> share[x] + one[x]]
           up == [x \in O |-> total * next[x]]
           scaled == [x \in O |-> amount * w[x]]
           F == SumFunctionOnSet(share, O)
           C == SumFunctionOnSet(one, O)
           B == SumFunctionOnSet(w, O)
           N == SumFunctionOnSet(next, O)
<1>1. IsFiniteSet(O) /\ O \subseteq S /\ total \in Nat \ {0}
  BY FS_Subset
<1>2. ASSUME NEW x \in O
      PROVE  /\ share[x] \in Int /\ one[x] \in Int /\ one[x] = 1
             /\ next[x] \in Int /\ next[x] = 1 * share[x] + one[x]
             /\ up[x] = total * next[x] /\ scaled[x] = amount * w[x]
             /\ w[x] \in Int
             /\ scaled[x] \in Int /\ up[x] \in Int /\ scaled[x] <= up[x]
  <2>1. w[x] \in Nat /\ one[x] = 1 /\ share[x] = (amount * w[x]) \div total
    BY <1>1
  <2> DEFINE y == amount * w[x]
  <2>2. y \in Nat
    BY <2>1
  <2> HIDE DEF y
  <2>3. share[x] = y \div total
    BY <2>1 DEF y
  <2>4. share[x] \in Nat /\ y <= total * (share[x] + 1)
    BY <1>1, <2>2, <2>3, QuotientNext
  <2>5. next[x] = share[x] + 1 /\ up[x] = total * (share[x] + 1) /\ scaled[x] = y
    BY <2>1 DEF y
  <2>6. total * (share[x] + 1) \in Int
    BY <2>4
  <2> HIDE DEF next, up, scaled
  <2> QED
    BY <2>1, <2>2, <2>4, <2>5, <2>6 DEF y, next, up
<1> HIDE DEF next, up, scaled, O
<1>3. F \in Int /\ C \in Int /\ B \in Int /\ N \in Int
  BY <1>1, <1>2, SumType
<1>4. N = 1 * F + C
  BY <1>1, <1>2, SumLinear
<1>5. SumFunctionOnSet(up, O) = total * N
  <2>1. \A x \in O : next[x] \in Int /\ up[x] = total * next[x]
    BY <1>2
  <2>2. total \in Int
    BY <1>1
  <2>3. SumFunctionOnSet(up, O) = total * SumFunctionOnSet(next, O)
    BY <1>1, <2>1, <2>2, ScaledSum
  <2> QED
    BY <2>3
<1>6. SumFunctionOnSet(scaled, O) = amount * B
  <2>1. \A x \in O : w[x] \in Int /\ scaled[x] = amount * w[x]
    BY <1>2
  <2>2. amount \in Int
    OBVIOUS
  <2>3. SumFunctionOnSet(scaled, O) = amount * SumFunctionOnSet(w, O)
    BY <1>1, <2>1, <2>2, ScaledSum
  <2> QED
    BY <2>3
<1>7. SumFunctionOnSet(scaled, O) <= SumFunctionOnSet(up, O)
  BY <1>1, <1>2, SumAtMost
<1>8. total = w[last] + B /\ w[last] \in Nat
  <2>1. \A x \in S : w[x] \in Int
    OBVIOUS
  <2> QED
    BY <2>1, SumRemove DEF O
<1> DEFINE l == w[last]
<1> HIDE DEF F, C, B, N, l
<1>9. amount * B <= total * N
  BY <1>5, <1>6, <1>7
<1>10. N = F + C /\ B = total - l /\ l \in Nat
  BY <1>3, <1>4, <1>8 DEF l
<1>11. amount * (total - l) = amount * total - amount * l
  BY <1>1, <1>10
<1>12. amount * l <= total * l
  BY <1>1, <1>10
<1>13. amount * total <= total * N + total * l
  <2> DEFINE p == amount * total
             q == amount * l
             r == total * l
             s == total * N
  <2>1. p \in Int /\ q \in Int /\ r \in Int /\ s \in Int
    BY <1>1, <1>3, <1>10
  <2>2. p - q <= s
    BY <1>9, <1>10, <1>11
  <2>3. q <= r
    BY <1>12
  <2> HIDE DEF p, q, r, s
  <2>4. p <= s + r
    BY <2>1, <2>2, <2>3
  <2> QED
    BY <2>4 DEF p, r, s
<1>14. amount <= N + l
  <2> SUFFICES ASSUME N + l <= amount - 1 PROVE FALSE
    BY <1>3, <1>10
  <2>1. total * (N + l) <= total * (amount - 1)
    BY <1>1, <1>3, <1>10
  <2>2. total * (N + l) = total * N + total * l
    BY <1>1, <1>3, <1>10
  <2>3. total * (amount - 1) = amount * total - total
    BY <1>1
  <2> DEFINE p == amount * total
             r == total * N + total * l
             t == total * (N + l)
  <2>4. p \in Int /\ r \in Int /\ t \in Int /\ total \in Nat \ {0}
    BY <1>1, <1>3, <1>10
  <2>5. p <= r /\ t = r /\ t <= p - total
    BY <1>13, <2>1, <2>2, <2>3
  <2> HIDE DEF p, r, t
  <2> QED
    BY <2>4, <2>5
<1>15. amount - F <= l + C
  BY <1>3, <1>10, <1>14
<1> QED
  BY <1>15 DEF F, l, C, O

\* What an allocation does: it takes the paid side of a lot before it overdraws
\* the bonus side, overdraws that by less than the number of lots, takes
\* nothing from a spent lot, and takes the whole charge.
Pays(L, a, amount) ==
  /\ \A i \in DOMAIN L :
       IF i \in SpendableLots(L)
       THEN TakesPaidFirst(L[i], a[i]) /\ a[i].bonus < L[i].bonus + Len(L)
       ELSE a[i] = NoCredits
  /\ SumFunctionOnSet([i \in DOMAIN L |-> Balance(a[i])], DOMAIN L) = amount

\* The last lot's overdraft is less than the number of lots.
LEMMA RestIsDust ==
  ASSUME NEW L \in Seq(LotBalances), NEW amount \in Nat \ {0}, amount <= TotalBalance(L),
         NEW last \in SpendableLots(L), NEW open, open = [i \in SpendableLots(L) |-> L[i]],
         NEW rest, rest = RestOfCharge(open, TotalBalance(L), last, amount)
  PROVE  rest - Balance(L[last]) < Len(L)
<1> DEFINE n == Len(L)
           S == SpendableLots(L)
           O == S \ {last}
           total == TotalBalance(L)
           w == [i \in S |-> Balance(L[i])]
           one == [i \in 1 .. n |-> 1]
           floors == [d \in O |-> FloorShare(open, total, amount, d)]
           C == SumFunctionOnSet(one, O)
<1>1. /\ n \in Nat /\ L \in [1 .. n -> LotBalances]
      /\ S \in SUBSET (1 .. n) /\ IsFiniteSet(S) /\ total \in Nat
  BY SpendableType
<1>2. rest = amount - SumFunctionOnSet(floors, O)
  BY DOMAIN open = S DEF RestOfCharge, SumOver
<1>3. \A x \in S : w[x] \in Nat
  BY <1>1, BalanceType
<1>4. total = SumFunctionOnSet(w, S)
  BY DEF TotalBalance, SumOver
<1>5. \A x \in O : floors[x] = (amount * w[x]) \div total
  BY DEF FloorShare
<1>6. \A x \in S : one[x] = 1
  BY <1>1
<1>7. \A x \in 1 .. n : one[x] = 1 /\ one[x] \in Nat /\ one[x] \in Int
  OBVIOUS
<1>8. w[last] = Balance(L[last]) /\ w[last] \in Nat
  BY <1>3
<1> HIDE DEF n, S, total, w, one, floors
<1>9. last \in S /\ amount <= total
  BY DEF S, total
<1>10. rest <= w[last] + C
  <2>1. amount - SumFunctionOnSet(floors, S \ {last})
          <= w[last] + SumFunctionOnSet(one, S \ {last})
    BY <1>1, <1>3, <1>4, <1>5, <1>6, <1>9, FloorSharesDust
  <2> QED
    BY <1>2, <2>1
<1>11. C + 1 <= n /\ C \in Int
  <2>1. SumFunctionOnSet(one, S) = one[last] + C
    <3>1. \A x \in S : one[x] \in Int
      BY <1>6
    <3> QED
      BY <1>1, <1>9, <3>1, SumRemove
  <2>2. IsFiniteSet(1 .. n)
    BY <1>1, FS_Interval
  <2>3. SumFunctionOnSet(one, S) <= SumFunctionOnSet(one, 1 .. n)
    BY <1>1, <1>7, <2>2, SumMonotone
  <2>4. SumFunctionOnSet(one, 1 .. n) = n
    BY <1>1, <1>7, SumOfOnes
  <2>5. C \in Int
    <3>1. IsFiniteSet(O) /\ \A x \in O : one[x] \in Int
      BY <1>1, <1>6, FS_Subset
    <3> QED
      BY <3>1, SumType
  <2> HIDE DEF C
  <2> QED
    BY <1>1, <1>6, <1>9, <2>1, <2>3, <2>4, <2>5
<1>12. rest \in Int
  <2>1. IsFiniteSet(O) /\ \A x \in O : floors[x] \in Int
    <3> SUFFICES ASSUME NEW x \in O PROVE floors[x] \in Int
      BY <1>1, FS_Subset
    <3>1. w[x] \in Nat /\ total \in Nat \ {0}
      BY <1>1, <1>3, <1>9
    <3>2. amount * w[x] \in Nat
      BY <3>1
    <3> QED
      BY <1>5, <3>1, <3>2, QuotientBelow
  <2>2. SumFunctionOnSet(floors, O) \in Int
    BY <2>1, SumType
  <2> QED
    BY <1>2, <2>2
<1> HIDE DEF C
<1> QED
  BY <1>1, <1>8, <1>10, <1>11, <1>12 DEF n

\* A charge the open lots can pay takes its amount from them: the paid side of
\* each first, and from the bonus side of each less than its bonus and the dust.
LEMMA ChargePays ==
  ASSUME NEW L \in Seq(LotBalances), NEW amount \in Nat \ {0}, CanAllocate(L, amount)
  PROVE  Pays(L, AllocateAcrossLots(L, amount), amount)
<1> DEFINE n == Len(L)
           S == SpendableLots(L)
           open == [i \in S |-> L[i]]
           total == TotalBalance(L)
           a == AllocateAcrossLots(L, amount)
<1>1. /\ n \in Nat /\ DOMAIN L = 1 .. n /\ L \in [1 .. n -> LotBalances]
      /\ S \in SUBSET (1 .. n) /\ IsFiniteSet(S)
      /\ open \in [S -> LotBalances] /\ DOMAIN open = S
      /\ \A i \in S : open[i] = L[i]
      /\ total \in Nat
  BY SpendableType
<1>2. PICK last \in S : IsLast(L, last)
  BY LastExists
<1> DEFINE rest == RestOfCharge(open, total, last, amount)
           shares == ProportionalAllocation(open, total, last, rest, amount)
<1>3. /\ rest \in 0 .. amount
      /\ a = [i \in DOMAIN L |-> IF i \in S THEN shares[i] ELSE NoCredits]
  BY <1>2, LoopComputesShares
<1>4. amount <= total /\ total \in Nat \ {0}
  BY <1>1 DEF CanAllocate
<1>5. total = TotalOf(S, open)
  <2>1. [i \in S |-> Balance(L[i])] = [i \in S |-> Balance(open[i])]
    BY <1>1
  <2> QED
    BY <2>1 DEF TotalBalance, TotalOf, SumOver
<1>6. rest - Balance(L[last]) < n
  BY <1>2, <1>4, RestIsDust
<1>7. \A i \in S : a[i] = shares[i]
  BY <1>1, <1>3
<1>8. \A i \in DOMAIN L : i \notin S => a[i] = NoCredits
  BY <1>3
<1> HIDE DEF a
<1>9. \A i \in S : a[i] = IF i = last THEN LastShare(L[i], rest)
                          ELSE SplitLotProportionally(L[i], FloorShare(open, total, amount, i))
  BY <1>1, <1>7 DEF ProportionalAllocation
<1>10. ASSUME NEW given, \A i \in S : given[i] = Balance(a[i])
       PROVE  SumFunctionOnSet(given, S) = amount
  <2>1. \A i \in S : given[i] = Balance(shares[i])
    BY <1>7, <1>10
  <2> HIDE DEF S, open, total
  <2> QED
    BY <1>1, <1>2, <1>4, <1>5, <2>1, ProportionalAllocationTotal
<1> HIDE DEF n, S, open, total, rest, shares
<1>11. ASSUME NEW i \in S
       PROVE  TakesPaidFirst(L[i], a[i]) /\ a[i].bonus < L[i].bonus + n
  <2>1. L[i] \in LotBalances /\ Balance(L[i]) \in Nat /\ Balance(L[i]) > 0 /\ i \in 1 .. n
    BY <1>1, BalanceType DEF S, SpendableLots
  <2>2. L[i].bonus \in Nat /\ n > 0
    BY <1>1, <2>1 DEF LotBalances
  <2>3. CASE i = last
    <3>1. a[i] = LastShare(L[i], rest)
      BY <1>9, <2>3
    <3>2. rest \in Nat
      BY <1>3
    <3>3. /\ TakesPaidFirst(L[i], a[i])
          /\ a[i].bonus <= L[i].bonus \/ a[i].bonus = L[i].bonus + (rest - Balance(L[i]))
      BY <2>1, <3>1, <3>2, LastBonusBound
    <3>4. a[i].bonus \in Nat
      BY <3>3 DEF TakesPaidFirst, LotBalances
    <3> QED
      BY <1>1, <1>6, <2>1, <2>2, <2>3, <3>2, <3>3, <3>4
  <2>4. CASE i # last
    <3>1. a[i] = SplitLotProportionally(L[i], FloorShare(open, total, amount, i))
      BY <1>9, <2>4
    <3>2. /\ FloorShare(open, total, amount, i) \in Nat
          /\ FloorShare(open, total, amount, i) <= Balance(L[i])
      <4>1. /\ FloorShare(open, total, amount, i) \in Nat
            /\ FloorShare(open, total, amount, i) <= Balance(open[i])
        BY <1>1, <1>4, FloorShareBound
      <4> QED
        BY <1>1, <4>1
    <3>3. TakesPaidFirst(L[i], a[i]) /\ a[i].bonus <= L[i].bonus
      BY <2>1, <3>1, <3>2, SplitBonusBound
    <3>4. a[i].bonus \in Nat
      BY <3>3 DEF TakesPaidFirst, LotBalances
    <3> QED
      BY <1>1, <2>2, <3>3, <3>4
  <2> QED
    BY <2>3, <2>4
<1>12. SumFunctionOnSet([i \in DOMAIN L |-> Balance(a[i])], DOMAIN L) = amount
  <2> DEFINE given == [i \in DOMAIN L |-> Balance(a[i])]
  <2>1. \A i \in S : given[i] = Balance(a[i])
    BY <1>1
  <2>2. \A i \in DOMAIN L : given[i] \in Int
    <3> SUFFICES ASSUME NEW i \in DOMAIN L PROVE Balance(a[i]) \in Int
      OBVIOUS
    <3>1. a[i] \in LotBalances
      BY <1>8, <1>11 DEF TakesPaidFirst, NoCredits, LotBalances
    <3> QED
      BY <3>1, BalanceType
  <2>3. \A i \in DOMAIN L \ S : given[i] = 0
    BY <1>8 DEF NoCredits, Balance
  <2>4. IsFiniteSet(DOMAIN L) /\ S \in SUBSET DOMAIN L
    BY <1>1, FS_Interval
  <2> HIDE DEF given
  <2>5. SumFunctionOnSet(given, DOMAIN L) = SumFunctionOnSet(given, S)
    BY <2>2, <2>3, <2>4, SumSupport
  <2> QED
    BY <1>10, <2>1, <2>5 DEF given
<1> QED
  BY <1>8, <1>11, <1>12 DEF Pays, a, S, n

-----------------------------------------------------------------------------
\* The rows of the lots, loaded.
LEMMA OpenLotsType ==
  ASSUME NEW rows \in Seq(Remains)
  PROVE  /\ OpenLots(rows) \in Seq(LotBalances)
         /\ DOMAIN OpenLots(rows) = DOMAIN rows /\ Len(OpenLots(rows)) = Len(rows)
         /\ \A i \in DOMAIN rows : /\ OpenLots(rows)[i].paid = Positive(rows[i].paid)
                                   /\ OpenLots(rows)[i].bonus = Positive(rows[i].bonus)
<1>1. Len(rows) \in Nat /\ DOMAIN rows = 1 .. Len(rows)
      /\ \A i \in 1 .. Len(rows) : rows[i] \in Remains
  OBVIOUS
<1>2. ASSUME NEW i \in 1 .. Len(rows)
      PROVE  [paid  |-> Positive(rows[i].paid), bonus |-> Positive(rows[i].bonus)] \in LotBalances
  BY <1>1 DEF Remains, LotBalances, Positive
<1>3. OpenLots(rows) \in [1 .. Len(rows) -> LotBalances]
  BY <1>1, <1>2 DEF OpenLots
<1>4. OpenLots(rows) \in Seq(LotBalances) /\ Len(OpenLots(rows)) = Len(rows)
  BY <1>1, <1>3
<1> QED
  BY <1>1, <1>3, <1>4 DEF OpenLots

\* What a charge does to the rows of the lots.
LEMMA ChargeTakes ==
  ASSUME DrainInv, NEW amount \in Spendings, Charge(amount)
  PROVE  LET L == OpenLots(balances)
             a == AllocateAcrossLots(L, amount)
         IN  /\ amount \in Nat \ {0}
             /\ balances \in Seq(Remains)
             /\ L \in Seq(LotBalances)
             /\ Pays(L, a, amount)
             /\ balances' = TakeFrom(balances, a)
<1>1. amount \in Nat \ {0} /\ balances \in Seq(Remains)
  BY LotDrainAssumption DEF DrainInv
<1>2. OpenLots(balances) \in Seq(LotBalances)
  BY <1>1, OpenLotsType
<1>3. /\ CanAllocate(OpenLots(balances), amount)
      /\ balances' = TakeFrom(balances, AllocateAcrossLots(OpenLots(balances), amount))
  BY DEF Charge
<1>4. Pays(OpenLots(balances), AllocateAcrossLots(OpenLots(balances), amount), amount)
  BY <1>1, <1>2, <1>3, ChargePays
<1> QED
  BY <1>1, <1>2, <1>3, <1>4

\* What a charge does to one row: the paid side stays above zero, and the bonus
\* side falls below it only on a lot whose paid side is gone, by dust.
LEMMA ChargeOnRow ==
  ASSUME NEW row \in Remains, row.paid >= 0, row.bonus < 0 => row.paid = 0,
         NEW lot \in LotBalances, lot.paid = Positive(row.paid), lot.bonus = Positive(row.bonus),
         NEW share, NEW n \in Nat \ {0},
         IF Balance(lot) > 0 THEN TakesPaidFirst(lot, share) /\ share.bonus < lot.bonus + n
         ELSE share = NoCredits
  PROVE  /\ share \in LotBalances
         /\ row.paid - share.paid \in Int /\ row.bonus - share.bonus \in Int
         /\ row.paid - share.paid >= 0
         /\ row.bonus - share.bonus < 0 => row.paid - share.paid = 0
         /\ row.bonus - share.bonus > Lesser(row.bonus, 0) - n
<1>1. /\ row.paid \in Int /\ row.bonus \in Int
      /\ lot.paid \in Nat /\ lot.bonus \in Nat
  BY DEF Remains, LotBalances
<1>2. lot.paid = row.paid
  BY <1>1 DEF Positive
<1>3. CASE Balance(lot) > 0
  <2>1. /\ share \in LotBalances /\ share.paid \in Nat /\ share.bonus \in Nat
        /\ share.paid <= lot.paid
        /\ share.bonus <= lot.bonus \/ share.paid = lot.paid
        /\ share.bonus < lot.bonus + n
    BY <1>3 DEF TakesPaidFirst, LotBalances
  <2>2. row.bonus >= 0 /\ lot.bonus = row.bonus
    <3>1. row.bonus < 0 => lot.bonus = 0 /\ lot.paid = 0
      BY <1>1, <1>2 DEF Positive
    <3>2. ~(row.bonus < 0)
      BY <1>3, <3>1 DEF Balance
    <3> QED
      BY <1>1, <3>2 DEF Positive
  <2>3. Lesser(row.bonus, 0) = 0
    BY <1>1, <2>2 DEF Lesser
  <2> QED
    BY <1>1, <1>2, <2>1, <2>2, <2>3
<1>4. CASE ~(Balance(lot) > 0)
  <2>1. share.paid = 0 /\ share.bonus = 0 /\ share \in LotBalances
    BY <1>4 DEF NoCredits, LotBalances
  <2>2. Lesser(row.bonus, 0) <= row.bonus /\ Lesser(row.bonus, 0) \in Int
    BY <1>1 DEF Lesser
  <2> QED
    BY <1>1, <2>1, <2>2
<1> QED
  BY <1>3, <1>4

\* What a charge does to every row.
LEMMA ChargeOnRows ==
  ASSUME DrainInv, NEW amount \in Spendings, Charge(amount)
  PROVE  /\ DrainInv'
         /\ Len(balances') = Len(balances) /\ DOMAIN balances' = DOMAIN balances
         /\ \A i \in DOMAIN balances :
              balances'[i].bonus > Lesser(balances[i].bonus, 0) - Len(balances)
<1> DEFINE L == OpenLots(balances)
           a == AllocateAcrossLots(L, amount)
           n == Len(balances)
<1>1. /\ balances \in Seq(Remains) /\ L \in Seq(LotBalances)
      /\ Pays(L, a, amount) /\ balances' = TakeFrom(balances, a)
  BY ChargeTakes
<1>2. /\ n \in Nat /\ DOMAIN balances = 1 .. n /\ DOMAIN L = 1 .. n /\ Len(L) = n
      /\ \A i \in 1 .. n : balances[i] \in Remains /\ L[i] \in LotBalances
      /\ \A i \in 1 .. n : /\ L[i].paid = Positive(balances[i].paid)
                           /\ L[i].bonus = Positive(balances[i].bonus)
  BY <1>1, OpenLotsType
<1> HIDE DEF L, a, n
<1>3. balances' = [i \in 1 .. n |-> [paid  |-> balances[i].paid - a[i].paid,
                                     bonus |-> balances[i].bonus - a[i].bonus]]
  BY <1>1, <1>2 DEF TakeFrom
<1>4. ASSUME NEW i \in 1 .. n
      PROVE  /\ balances'[i] \in Remains
             /\ balances'[i].paid >= 0
             /\ balances'[i].bonus < 0 => balances'[i].paid = 0
             /\ balances'[i].bonus > Lesser(balances[i].bonus, 0) - n
  <2> DEFINE row == balances[i]
             lot == L[i]
             share == a[i]
  <2>1. /\ balances'[i] = [paid |-> row.paid - share.paid, bonus |-> row.bonus - share.bonus]
        /\ balances'[i].paid = row.paid - share.paid
        /\ balances'[i].bonus = row.bonus - share.bonus
    BY <1>3
  <2>2. /\ row \in Remains /\ lot \in LotBalances /\ n \in Nat \ {0}
        /\ lot.paid = Positive(row.paid) /\ lot.bonus = Positive(row.bonus)
    BY <1>2
  <2>3. row.paid >= 0 /\ (row.bonus < 0 => row.paid = 0)
    BY <1>2 DEF DrainInv, OnlySpentLotsOverdrawn
  <2>4. IF Balance(lot) > 0 THEN TakesPaidFirst(lot, share) /\ share.bonus < lot.bonus + n
        ELSE share = NoCredits
    BY <1>1, <1>2 DEF Pays, SpendableLots
  <2> HIDE DEF row, lot, share
  <2>5. /\ row.paid - share.paid \in Int /\ row.bonus - share.bonus \in Int
        /\ row.paid - share.paid >= 0
        /\ row.bonus - share.bonus < 0 => row.paid - share.paid = 0
        /\ row.bonus - share.bonus > Lesser(row.bonus, 0) - n
    BY <2>2, <2>3, <2>4, ChargeOnRow
  <2>6. balances'[i] \in Remains
    BY <2>1, <2>5 DEF Remains
  <2> QED
    BY <2>1, <2>5, <2>6 DEF row
<1>5. balances' \in [1 .. n -> Remains]
  BY <1>3, <1>4
<1>6. balances' \in Seq(Remains) /\ Len(balances') = n /\ DOMAIN balances' = 1 .. n
  BY <1>2, <1>5
<1>7. DrainInv'
  BY <1>4, <1>6 DEF DrainInv, OnlySpentLotsOverdrawn
<1> QED
  BY <1>2, <1>4, <1>6, <1>7 DEF n

\* A deposit adds one lot, with nothing overdrawn.
LEMMA CreditLotKeeps ==
  ASSUME DrainInv, NEW d \in Purchases, CreditLot(d)
  PROVE  DrainInv' /\ Len(balances') # Len(balances)
<1> DEFINE r == [paid |-> d.paid, bonus |-> d.bonus]
           n == Len(balances)
<1>1. d.paid \in Nat \ {0} /\ d.bonus \in Nat
  BY LotDrainAssumption
<1>2. r \in Remains /\ r.paid >= 0 /\ r.bonus >= 0
  BY <1>1 DEF Remains
<1>3. balances \in Seq(Remains) /\ n \in Nat /\ balances' = Append(balances, r)
  BY DEF DrainInv, CreditLot
<1>4. /\ balances' \in Seq(Remains) /\ Len(balances') = n + 1
      /\ DOMAIN balances = 1 .. n /\ DOMAIN balances' = 1 .. (n + 1)
      /\ \A i \in 1 .. (n + 1) : balances'[i] = IF i <= n THEN balances[i] ELSE r
  <2> HIDE DEF r
  <2> QED
    BY <1>2, <1>3
<1> HIDE DEF r, n
<1>5. ASSUME NEW i \in 1 .. (n + 1)
      PROVE  /\ balances'[i].paid >= 0
             /\ balances'[i].bonus < 0 => balances'[i].paid = 0
  <2>1. CASE i <= n
    <3>1. i \in DOMAIN balances /\ balances'[i] = balances[i]
      BY <1>3, <1>4, <2>1
    <3> QED
      BY <3>1 DEF DrainInv, OnlySpentLotsOverdrawn
  <2>2. CASE ~(i <= n)
    <3>1. balances'[i] = r
      BY <1>4, <2>2
    <3>2. r.bonus \in Int /\ ~(r.bonus < 0)
      BY <1>2 DEF Remains
    <3> QED
      BY <1>2, <3>1, <3>2
  <2> QED
    BY <2>1, <2>2
<1>6. OnlySpentLotsOverdrawn'
  BY <1>4, <1>5 DEF OnlySpentLotsOverdrawn
<1>7. DrainInv'
  BY <1>4, <1>6 DEF DrainInv
<1>8. Len(balances') # n
  BY <1>3, <1>4
<1> QED
  BY <1>7, <1>8 DEF n

\* A charge takes its amount from the rows.
LEMMA ChargeTakesAmount ==
  ASSUME DrainInv, NEW amount \in Spendings, Charge(amount)
  PROVE  Remaining(balances) - Remaining(balances') = amount
<1> DEFINE L == OpenLots(balances)
           a == AllocateAcrossLots(L, amount)
           D == DOMAIN balances
           given == [i \in D |-> Balance(a[i])]
           before == [i \in D |-> Balance(balances[i])]
           after == [i \in D |-> Balance(balances'[i])]
<1>1. /\ amount \in Nat /\ balances \in Seq(Remains) /\ L \in Seq(LotBalances)
      /\ Pays(L, a, amount) /\ balances' = TakeFrom(balances, a)
  BY ChargeTakes
<1>2. /\ IsFiniteSet(D) /\ DOMAIN L = D /\ DOMAIN balances' = D
      /\ \A i \in D : balances[i] \in Remains
  <2>1. D = 1 .. Len(balances) /\ Len(balances) \in Nat
    BY <1>1
  <2>2. IsFiniteSet(D)
    BY <2>1, FS_Interval
  <2>3. DOMAIN L = D
    BY DEF OpenLots
  <2>4. DOMAIN balances' = D
    BY <1>1 DEF TakeFrom
  <2>5. \A i \in D : balances[i] \in Remains
    BY <1>1, <2>1
  <2> QED
    BY <2>2, <2>3, <2>4, <2>5
<1>3. SumFunctionOnSet(given, D) = amount
  BY <1>1, <1>2 DEF Pays
<1>4. ASSUME NEW i \in D
      PROVE  /\ given[i] \in Int /\ after[i] \in Int
             /\ before[i] = 1 * given[i] + after[i]
  <2>1. a[i] \in LotBalances
    BY <1>1, <1>2 DEF Pays, TakesPaidFirst, NoCredits, LotBalances
  <2>2. /\ balances'[i].paid = balances[i].paid - a[i].paid
        /\ balances'[i].bonus = balances[i].bonus - a[i].bonus
    BY <1>1 DEF TakeFrom
  <2> DEFINE s == a[i]
  <2>3. /\ balances[i].paid \in Int /\ balances[i].bonus \in Int
        /\ s.paid \in Int /\ s.bonus \in Int
    BY <1>2, <2>1 DEF Remains, LotBalances
  <2> HIDE DEF a, s
  <2> QED
    BY <2>2, <2>3 DEF Balance, s
<1>5. Remaining(balances) = SumFunctionOnSet(before, D)
      /\ Remaining(balances') = SumFunctionOnSet(after, D)
  BY <1>2 DEF Remaining, SumOver
<1> HIDE DEF given, before, after, D
<1>6. SumFunctionOnSet(before, D) = 1 * SumFunctionOnSet(given, D) + SumFunctionOnSet(after, D)
  BY <1>2, <1>4, SumLinear
<1>7. SumFunctionOnSet(after, D) \in Int
  BY <1>2, <1>4, SumType
<1> QED
  BY <1>1, <1>3, <1>5, <1>6, <1>7

\* No lot, nothing overdrawn.
LEMMA DrainInit0 == DrainInit => DrainInv
  BY DEF DrainInit, DrainInv, OnlySpentLotsOverdrawn

\* Every deposit and every charge keeps the invariant.
LEMMA DrainStep == DrainInv /\ [DrainNext]_balances => DrainInv'
<1> SUFFICES ASSUME DrainInv, [DrainNext]_balances PROVE DrainInv'
  OBVIOUS
<1>1. CASE UNCHANGED balances
  BY <1>1 DEF DrainInv, OnlySpentLotsOverdrawn
<1>2. CASE DrainNext
  BY <1>2, CreditLotKeeps, ChargeOnRows DEF DrainNext
<1> QED
  BY <1>1, <1>2

\* The rows of the lots are integers, and only spent lots are overdrawn, in
\* every state of every run of deposits and charges.
THEOREM DrainInvariant == DrainSpec => []DrainInv
<1> QED
  BY DrainInit0, DrainStep, PTL DEF DrainSpec

\* No run of deposits and charges, however long and over however many lots,
\* takes more paid credits from a deposit than were bought with it; what the
\* leftover of a charge overdraws is the bonus side of a spent lot.
THEOREM OnlySpentLotsOverdrawnAlways == DrainSpec => []OnlySpentLotsOverdrawn
<1>1. DrainInv => OnlySpentLotsOverdrawn
  BY DEF DrainInv
<1> QED
  BY <1>1, DrainInvariant, PTL

\* In every state of such a run, the allocation loop gives each open lot its
\* share in the closed form the ledger is specified with.
THEOREM LoopIsProportionalAlways == DrainSpec => []LoopIsProportional
<1>1. DrainInv => LoopIsProportional
  <2> SUFFICES ASSUME DrainInv, NEW amount \in Spendings,
                      CanAllocate(OpenLots(balances), amount)
               PROVE  LET open       == OpenLots(balances)
                          candidates == [i \in SpendableLots(open) |-> open[i]]
                          total      == TotalBalance(open)
                          last       == CHOOSE i \in SpendableLots(open) : IsLast(open, i)
                          rest       == RestOfCharge(candidates, total, last, amount)
                          shares     == ProportionalAllocation(candidates, total, last, rest, amount)
                      IN  /\ rest \in 0 .. amount
                          /\ AllocateAcrossLots(open, amount)
                               = [i \in DOMAIN balances |->
                                    IF i \in SpendableLots(open) THEN shares[i] ELSE NoCredits]
    BY DEF LoopIsProportional
  <2> DEFINE L == OpenLots(balances)
             last == CHOOSE i \in SpendableLots(L) : IsLast(L, i)
  <2>1. /\ amount \in Nat \ {0} /\ L \in Seq(LotBalances)
        /\ DOMAIN L = DOMAIN balances /\ CanAllocate(L, amount)
    BY LotDrainAssumption, OpenLotsType DEF DrainInv
  <2> HIDE DEF L
  <2>2. last \in SpendableLots(L) /\ IsLast(L, last)
    BY <2>1, LastExists
  <2> HIDE DEF last
  <2>3. LET candidates == [i \in SpendableLots(L) |-> L[i]]
            total      == TotalBalance(L)
            rest       == RestOfCharge(candidates, total, last, amount)
            shares     == ProportionalAllocation(candidates, total, last, rest, amount)
        IN  /\ rest \in 0 .. amount
            /\ AllocateAcrossLots(L, amount)
                 = [i \in DOMAIN L |-> IF i \in SpendableLots(L) THEN shares[i] ELSE NoCredits]
    BY <2>1, <2>2, LoopComputesShares
  <2> QED
    BY <2>1, <2>3 DEF L, last
<1> QED
  BY <1>1, DrainInvariant, PTL

\* Every charge takes exactly its amount from the lots, and overdraws a lot by
\* fewer units than there are lots.
THEOREM ChargeIsExactAlways == DrainSpec => ChargeIsExact
<1> DEFINE Exact == Len(balances') = Len(balances) =>
             /\ Remaining(balances) - Remaining(balances') \in Spendings
             /\ \A i \in DOMAIN balances :
                  balances'[i].bonus > Lesser(balances[i].bonus, 0) - Len(balances)
<1>1. DrainInv /\ [DrainNext]_balances => [Exact]_balances
  <2> SUFFICES ASSUME DrainInv, DrainNext PROVE Exact
    OBVIOUS
  <2>1. CASE \E d \in Purchases : CreditLot(d)
    BY <2>1, CreditLotKeeps
  <2>2. ASSUME NEW amount \in Spendings, Charge(amount)
        PROVE  Exact
    BY <2>2, ChargeOnRows, ChargeTakesAmount
  <2> QED
    BY <2>1, <2>2 DEF DrainNext
<1> QED
  BY <1>1, DrainInvariant, PTL DEF DrainSpec, ChargeIsExact
-----------------------------------------------------------------------------
(***************************************************************************)
(* The loop in the ledger. The rows loadOpenLots returns are the deposits   *)
(* with credits left, once each, in the order they were credited; deposits  *)
(* credited at one time may come in any order. Whatever it returns, what    *)
(* the loop takes from the rows is an allocation of the ledger's action.    *)
(***************************************************************************)
HasCreditsLeft(d) == lots[d].remainingPaid > 0 \/ lots[d].remainingBonus > 0

IsLoaded(rows) ==
  /\ rows \in Seq(Deposits)
  /\ {rows[i] : i \in DOMAIN rows} = {d \in Deposits : HasCreditsLeft(d)}
  /\ \A i, j \in DOMAIN rows :
       i < j => rows[i] # rows[j] /\ lots[rows[i]].creditedAt <= lots[rows[j]].creditedAt

LoadedLots(rows) == [i \in DOMAIN rows |-> SpendableLot(rows[i])]

TakenFromRows(rows, taken) ==
  [d \in Deposits |->
     IF \E i \in DOMAIN rows : rows[i] = d
     THEN taken[CHOOSE i \in DOMAIN rows : rows[i] = d] ELSE NoCredits]

LoopAllocation(rows, amount) ==
  TakenFromRows(rows, AllocateAcrossLots(LoadedLots(rows), amount))

\* What allocateAcrossLots does with the rows, and where it throws.
ChargesAreLoops ==
  \A rows \in Seq(Deposits), amount \in Charges :
    IsLoaded(rows) =>
      IF CanAllocate(LoadedLots(rows), amount)
      THEN LoopAllocation(rows, amount) \in Allocations(amount)
      ELSE Allocations(amount) = {}

\* The rows that are loaded, and the part of each that may be spent.
LEMMA RowsAreLots ==
  ASSUME TypeOK, NEW rows, IsLoaded(rows)
  PROVE  LET L == LoadedLots(rows)
             S == SpendableLots(L)
         IN  /\ Len(rows) \in Nat /\ DOMAIN rows = 1 .. Len(rows)
             /\ \A i \in DOMAIN rows : rows[i] \in Deposits
             /\ L \in Seq(LotBalances) /\ DOMAIN L = DOMAIN rows
             /\ \A i \in DOMAIN rows : L[i] = SpendableLot(rows[i])
             /\ \A i, j \in DOMAIN rows : rows[i] = rows[j] => i = j
             /\ S \in SUBSET DOMAIN rows
             /\ \A i \in DOMAIN rows : i \in S <=> rows[i] \in CandidateLots
             /\ CandidateLots = {rows[i] : i \in S}
<1> DEFINE L == LoadedLots(rows)
           S == SpendableLots(L)
<1>1. /\ Len(rows) \in Nat /\ DOMAIN rows = 1 .. Len(rows)
      /\ \A i \in DOMAIN rows : rows[i] \in Deposits
  BY DEF IsLoaded
<1>2. /\ DOMAIN L = DOMAIN rows
      /\ \A i \in DOMAIN rows : L[i] = SpendableLot(rows[i])
  BY DEF LoadedLots
<1>3. ASSUME NEW i \in DOMAIN rows PROVE L[i] \in LotBalances
  <2>1. lots[rows[i]] \in LotRows
    BY <1>1 DEF TypeOK
  <2> QED
    BY <1>2, <2>1 DEF SpendableLot, LotRows, Positive, LotBalances
<1>4. L \in Seq(LotBalances)
  <2>1. L = [i \in 1 .. Len(rows) |-> SpendableLot(rows[i])]
    BY <1>1 DEF LoadedLots
  <2>2. L \in [1 .. Len(rows) -> LotBalances]
    BY <1>1, <1>2, <1>3, <2>1
  <2> HIDE DEF L
  <2> QED
    BY <1>1, <2>2
<1>5. \A i, j \in DOMAIN rows : rows[i] = rows[j] => i = j
  <2> SUFFICES ASSUME NEW i \in DOMAIN rows, NEW j \in DOMAIN rows, rows[i] = rows[j], i # j
               PROVE  FALSE
    OBVIOUS
  <2>1. i < j \/ j < i
    BY <1>1
  <2> QED
    BY <2>1 DEF IsLoaded
<1>6. S \in SUBSET DOMAIN rows
  BY <1>2 DEF SpendableLots
<1>7. \A i \in DOMAIN rows : HasCreditsLeft(rows[i])
  BY DEF IsLoaded
<1>8. ASSUME NEW i \in DOMAIN rows PROVE i \in S <=> rows[i] \in CandidateLots
  <2>1. i \in S <=> Balance(SpendableLot(rows[i])) > 0
    BY <1>2 DEF SpendableLots
  <2> QED
    BY <1>1, <1>7, <2>1 DEF CandidateLots, HasCreditsLeft
<1>9. \A d \in CandidateLots : \E i \in DOMAIN rows : d = rows[i]
  BY DEF IsLoaded, CandidateLots, HasCreditsLeft
<1>10. CandidateLots = {rows[i] : i \in S}
  BY <1>6, <1>8, <1>9
<1> QED
  BY <1>1, <1>2, <1>4, <1>5, <1>6, <1>8, <1>10

\* The rows have the total the ledger's candidates have.
LEMMA RowsHaveTotal ==
  ASSUME TypeOK, NEW rows, IsLoaded(rows)
  PROVE  SumFunctionOnSet([d \in CandidateLots |-> Balance(SpendableLot(d))], CandidateLots)
           = TotalBalance(LoadedLots(rows))
<1> DEFINE L == LoadedLots(rows)
           S == SpendableLots(L)
           w == [d \in CandidateLots |-> Balance(SpendableLot(d))]
           v == [i \in S |-> Balance(L[i])]
<1>1. /\ L \in Seq(LotBalances) /\ S \in SUBSET DOMAIN rows
      /\ \A i \in DOMAIN rows : L[i] = SpendableLot(rows[i]) /\ (i \in S <=> rows[i] \in CandidateLots)
      /\ \A i, j \in DOMAIN rows : rows[i] = rows[j] => i = j
      /\ CandidateLots = {rows[i] : i \in S}
  BY RowsAreLots
<1>2. /\ IsFiniteSet(S) /\ \A i \in S : L[i] \in LotBalances
  <2>1. L \in Seq(LotBalances)
    BY <1>1
  <2> HIDE DEF L
  <2> QED
    BY <2>1, SpendableType
<1>3. \A i \in S : v[i] \in Int /\ w[rows[i]] = v[i]
  <2> SUFFICES ASSUME NEW i \in S PROVE v[i] \in Int /\ w[rows[i]] = v[i]
    OBVIOUS
  <2>1. L[i] \in LotBalances /\ rows[i] \in CandidateLots /\ L[i] = SpendableLot(rows[i])
    BY <1>1, <1>2
  <2>2. w[rows[i]] = Balance(L[i]) /\ v[i] = Balance(L[i])
    BY <2>1
  <2> QED
    BY <2>1, <2>2, BalanceType
<1>4. \A i, j \in S : rows[i] = rows[j] => i = j
  BY <1>1
<1>5. TotalBalance(L) = SumFunctionOnSet(v, S)
  BY DEF TotalBalance, SumOver
<1> HIDE DEF w, v, S
<1>6. SumFunctionOnSet(w, {rows[i] : i \in S}) = SumFunctionOnSet(v, S)
  BY <1>2, <1>3, <1>4, SumImage
<1> QED
  BY <1>1, <1>5, <1>6 DEF S, w

\* The rounded-down shares leave the same rest to the last row and to the
\* newest candidate.
LEMMA RowsHaveRest ==
  ASSUME TypeOK, NEW rows, IsLoaded(rows), NEW amount \in Nat, NEW total \in Nat \ {0},
         NEW last \in SpendableLots(LoadedLots(rows)),
         NEW candidates, candidates = [d \in CandidateLots |-> SpendableLot(d)],
         NEW open, open = [i \in SpendableLots(LoadedLots(rows)) |-> LoadedLots(rows)[i]]
  PROVE  RestOfCharge(candidates, total, rows[last], amount)
           = RestOfCharge(open, total, last, amount)
<1> DEFINE L == LoadedLots(rows)
           S == SpendableLots(L)
           O == S \ {last}
           P == CandidateLots \ {rows[last]}
           w == [d \in P |-> FloorShare(candidates, total, amount, d)]
           v == [i \in O |-> FloorShare(open, total, amount, i)]
<1>1. /\ L \in Seq(LotBalances) /\ S \in SUBSET DOMAIN rows
      /\ \A i \in DOMAIN rows : L[i] = SpendableLot(rows[i]) /\ (i \in S <=> rows[i] \in CandidateLots)
      /\ \A i, j \in DOMAIN rows : rows[i] = rows[j] => i = j
      /\ CandidateLots = {rows[i] : i \in S}
  BY RowsAreLots
<1>2. /\ IsFiniteSet(S) /\ \A i \in S : L[i] \in LotBalances
  <2>1. L \in Seq(LotBalances)
    BY <1>1
  <2> HIDE DEF L
  <2> QED
    BY <2>1, SpendableType
<1>3. IsFiniteSet(O)
  BY <1>2, FS_Subset
<1>4. P = {rows[i] : i \in O}
  BY <1>1
<1>5. ASSUME NEW i \in O PROVE v[i] \in Int /\ w[rows[i]] = v[i]
  <2>1. /\ L[i] \in LotBalances /\ rows[i] \in P /\ L[i] = SpendableLot(rows[i])
        /\ open[i] = L[i] /\ candidates[rows[i]] = L[i]
    BY <1>1, <1>2, <1>4
  <2>2. v[i] = (amount * Balance(L[i])) \div total /\ w[rows[i]] = (amount * Balance(L[i])) \div total
    BY <2>1 DEF FloorShare
  <2>3. Balance(L[i]) \in Nat
    BY <2>1, BalanceType
  <2> DEFINE x == amount * Balance(L[i])
  <2>4. x \in Nat
    BY <2>3
  <2> HIDE DEF x
  <2>5. x \div total \in Int
    BY <2>4
  <2> QED
    BY <2>2, <2>5 DEF x
<1>6. \A i, j \in O : rows[i] = rows[j] => i = j
  BY <1>1
<1>7. RestOfCharge(candidates, total, rows[last], amount) = amount - SumFunctionOnSet(w, P)
  BY DEF RestOfCharge, SumOver
<1>8. RestOfCharge(open, total, last, amount) = amount - SumFunctionOnSet(v, O)
  BY DEF RestOfCharge, SumOver
<1> HIDE DEF w, v, O, P
<1>9. SumFunctionOnSet(w, {rows[i] : i \in O}) = SumFunctionOnSet(v, O)
  BY <1>3, <1>5, <1>6, SumImage
<1> QED
  BY <1>4, <1>7, <1>8, <1>9

\* A row's share is the share of its deposit.
LEMMA RowsHaveShares ==
  ASSUME TypeOK, NEW rows, IsLoaded(rows), NEW amount, NEW total, NEW rest,
         NEW last \in SpendableLots(LoadedLots(rows)),
         NEW candidates, candidates = [d \in CandidateLots |-> SpendableLot(d)],
         NEW open, open = [i \in SpendableLots(LoadedLots(rows)) |-> LoadedLots(rows)[i]],
         NEW i \in SpendableLots(LoadedLots(rows))
  PROVE  ProportionalAllocation(candidates, total, rows[last], rest, amount)[rows[i]]
           = ProportionalAllocation(open, total, last, rest, amount)[i]
<1> DEFINE L == LoadedLots(rows)
           S == SpendableLots(L)
<1>1. /\ S \in SUBSET DOMAIN rows
      /\ \A j \in DOMAIN rows : L[j] = SpendableLot(rows[j]) /\ (j \in S <=> rows[j] \in CandidateLots)
      /\ \A j, k \in DOMAIN rows : rows[j] = rows[k] => j = k
  BY RowsAreLots
<1>2. /\ i \in DOMAIN open /\ rows[i] \in DOMAIN candidates
      /\ open[i] = candidates[rows[i]]
  BY <1>1
<1>3. rows[i] = rows[last] <=> i = last
  BY <1>1
<1>4. FloorShare(candidates, total, amount, rows[i]) = FloorShare(open, total, amount, i)
  BY <1>2 DEF FloorShare
<1> QED
  BY <1>2, <1>3, <1>4 DEF ProportionalAllocation

\* The last row that can be spent is a newest candidate.
LEMMA LastRowIsNewest ==
  ASSUME TypeOK, NEW rows, IsLoaded(rows), NEW last \in SpendableLots(LoadedLots(rows)),
         IsLast(LoadedLots(rows), last)
  PROVE  rows[last] \in CandidateLots /\ IsNewest(rows[last])
<1> DEFINE S == SpendableLots(LoadedLots(rows))
<1>1. /\ S \in SUBSET DOMAIN rows /\ DOMAIN rows \subseteq Nat
      /\ \A i \in DOMAIN rows : rows[i] \in Deposits /\ (i \in S <=> rows[i] \in CandidateLots)
      /\ CandidateLots = {rows[i] : i \in S}
  BY RowsAreLots
<1>2. ASSUME NEW c \in CandidateLots
      PROVE  lots[c].creditedAt <= lots[rows[last]].creditedAt
  <2>1. PICK j \in S : c = rows[j]
    BY <1>1
  <2>2. j <= last /\ j \in DOMAIN rows /\ last \in DOMAIN rows
    BY <1>1 DEF IsLast
  <2>3. CASE j = last
    <3>1. lots[c].creditedAt \in Nat
      BY <1>1, <2>1, <2>2 DEF TypeOK, LotRows
    <3> QED
      BY <2>1, <2>3, <3>1
  <2>4. CASE j # last
    <3>1. j < last
      BY <1>1, <2>2, <2>4
    <3> QED
      BY <2>1, <2>2, <3>1 DEF IsLoaded
  <2> QED
    BY <2>3, <2>4
<1> QED
  BY <1>1, <1>2 DEF IsNewest

\* What is taken from the rows, by deposit.
LEMMA TakenByDeposit ==
  ASSUME TypeOK, NEW rows, IsLoaded(rows), NEW taken, NEW shares,
         taken = [i \in DOMAIN rows |-> IF i \in SpendableLots(LoadedLots(rows))
                                        THEN shares[rows[i]] ELSE NoCredits]
  PROVE  TakenFromRows(rows, taken)
           = [d \in Deposits |-> IF d \in CandidateLots THEN shares[d] ELSE NoCredits]
<1> DEFINE S == SpendableLots(LoadedLots(rows))
<1>1. /\ S \in SUBSET DOMAIN rows
      /\ \A i \in DOMAIN rows : i \in S <=> rows[i] \in CandidateLots
      /\ CandidateLots = {rows[i] : i \in S}
  BY RowsAreLots
<1> HIDE DEF S
<1>2. ASSUME NEW d \in Deposits
      PROVE  (IF \E i \in DOMAIN rows : rows[i] = d
              THEN taken[CHOOSE i \in DOMAIN rows : rows[i] = d] ELSE NoCredits)
               = IF d \in CandidateLots THEN shares[d] ELSE NoCredits
  <2>1. CASE \E i \in DOMAIN rows : rows[i] = d
    <3> DEFINE i == CHOOSE i \in DOMAIN rows : rows[i] = d
    <3>1. i \in DOMAIN rows /\ rows[i] = d
      BY <2>1
    <3> HIDE DEF i
    <3>2. taken[i] = IF i \in S THEN shares[rows[i]] ELSE NoCredits
      BY <3>1 DEF S
    <3>3. taken[i] = IF d \in CandidateLots THEN shares[d] ELSE NoCredits
      BY <1>1, <3>1, <3>2
    <3> QED
      BY <2>1, <3>3 DEF i
  <2>2. CASE ~\E i \in DOMAIN rows : rows[i] = d
    <3>1. d \notin CandidateLots
      BY <1>1, <2>2
    <3> QED
      BY <2>2, <3>1
  <2> QED
    BY <2>1, <2>2
<1> QED
  BY <1>2 DEF TakenFromRows

\* The loop, on whatever loadOpenLots returns, takes an allocation of the ledger.
LEMMA LoopIsAllocation ==
  ASSUME TypeOK, NEW rows, IsLoaded(rows), NEW amount \in Nat \ {0}
  PROVE  IF CanAllocate(LoadedLots(rows), amount)
         THEN LoopAllocation(rows, amount) \in Allocations(amount)
         ELSE Allocations(amount) = {}
<1> DEFINE L == LoadedLots(rows)
           S == SpendableLots(L)
           open == [i \in S |-> L[i]]
           candidates == [d \in CandidateLots |-> SpendableLot(d)]
           total == SumOver(CandidateLots, LAMBDA d : Balance(candidates[d]))
<1>1. L \in Seq(LotBalances) /\ DOMAIN L = DOMAIN rows
  BY RowsAreLots
<1>2. total = TotalBalance(L)
  <2> DEFINE w == [d \in CandidateLots |-> Balance(candidates[d])]
             v == [d \in CandidateLots |-> Balance(SpendableLot(d))]
  <2>1. total = SumFunctionOnSet(w, CandidateLots)
    BY DEF SumOver
  <2>2. w = v
    OBVIOUS
  <2>3. SumFunctionOnSet(v, CandidateLots) = TotalBalance(L)
    BY RowsHaveTotal
  <2> HIDE DEF total, w, v, L
  <2> QED
    BY <2>1, <2>2, <2>3
<1>3. TotalBalance(L) \in Nat
  <2> HIDE DEF L
  <2> QED
    BY <1>1, SpendableType
<1>4. Allocations(amount)
        = {AllocationWith(d, total, RestOfCharge(candidates, total, d, amount), amount) :
             d \in {d \in CandidateLots : IsNewest(d) /\ total >= amount}}
  BY DEF Allocations
<1> HIDE DEF total
<1>5. CASE ~CanAllocate(L, amount)
  <2>1. ~(total >= amount)
    BY <1>2, <1>5 DEF CanAllocate
  <2> QED
    BY <1>4, <1>5, <2>1
<1>6. CASE CanAllocate(L, amount)
  <2>1. total >= amount /\ total \in Nat \ {0}
    BY <1>2, <1>3, <1>6 DEF CanAllocate
  <2>2. PICK last \in S : IsLast(L, last)
    <3> HIDE DEF L
    <3> QED
      BY <1>1, <1>6, LastExists
  <2>3. rows[last] \in CandidateLots /\ IsNewest(rows[last])
    BY <2>2, LastRowIsNewest
  <2> DEFINE rest == RestOfCharge(open, total, last, amount)
             given == ProportionalAllocation(open, total, last, rest, amount)
             shares == ProportionalAllocation(candidates, total, rows[last], rest, amount)
             taken == AllocateAcrossLots(L, amount)
  <2>4. taken = [i \in DOMAIN rows |-> IF i \in S THEN given[i] ELSE NoCredits]
    <3>1. CanAllocate(L, amount) /\ IsLast(L, last) /\ last \in SpendableLots(L)
      BY <1>6, <2>2
    <3>2. AllocateAcrossLots(L, amount)
            = [i \in DOMAIN L |->
                 IF i \in SpendableLots(L)
                 THEN ProportionalAllocation(
                        [j \in SpendableLots(L) |-> L[j]], TotalBalance(L), last,
                        RestOfCharge([j \in SpendableLots(L) |-> L[j]], TotalBalance(L),
                                     last, amount), amount)[i]
                 ELSE NoCredits]
      <4> HIDE DEF L
      <4> QED
        BY <1>1, <3>1, LoopComputesShares
    <3> QED
      BY <1>1, <1>2, <3>2
  <2>5. rest = RestOfCharge(candidates, total, rows[last], amount)
    BY <2>1, <2>2, RowsHaveRest
  <2>6. \A i \in S : shares[rows[i]] = given[i]
    <3> HIDE DEF rest
    <3> QED
      BY <2>2, RowsHaveShares
  <2>7. taken = [i \in DOMAIN rows |-> IF i \in S THEN shares[rows[i]] ELSE NoCredits]
    <3> HIDE DEF taken, shares, given, S
    <3> QED
      BY <2>4, <2>6
  <2>8. TakenFromRows(rows, taken)
          = [d \in Deposits |-> IF d \in CandidateLots THEN shares[d] ELSE NoCredits]
    <3> HIDE DEF taken, shares
    <3> QED
      BY <2>7, TakenByDeposit
  <2>9. LoopAllocation(rows, amount) = AllocationWith(rows[last], total, rest, amount)
    BY <2>8 DEF LoopAllocation, AllocationWith
  <2> HIDE DEF rest
  <2> QED
    BY <1>4, <1>6, <2>1, <2>3, <2>5, <2>9
<1> QED
  BY <1>5, <1>6

\* In every state the ledger reaches, a charge or a reservation takes what the
\* loop of allocateAcrossLots takes from the rows loadOpenLots returns, in
\* whatever order it returns those credited at one time, and throws where the
\* loop throws.
THEOREM ChargesAreLoopsAlways == Spec => []ChargesAreLoops
<1>1. IInv => ChargesAreLoops
  <2> SUFFICES ASSUME TypeOK, NEW rows \in Seq(Deposits), NEW amount \in Charges, IsLoaded(rows)
               PROVE  IF CanAllocate(LoadedLots(rows), amount)
                      THEN LoopAllocation(rows, amount) \in Allocations(amount)
                      ELSE Allocations(amount) = {}
    BY DEF IInv, ChargesAreLoops
  <2>1. amount \in Nat \ {0}
    BY CreditLedgerAssumption
  <2> QED
    BY <2>1, LoopIsAllocation
<1> QED
  BY <1>1, InvariantHolds, PTL
=============================================================================
