-------------------------- MODULE MCCreditLedgerTx --------------------------
EXTENDS CreditLedgerTx

Times(op, source, attempts) ==
  {[op |-> op, source |-> source, attempt |-> n] : n \in attempts}

\* A message charged twice at once, against the reservation of an image and
\* then its capture or release, which may take the lots in another order.
SpendingCalls ==
  Times("debit", "m1", {1, 2}) \union Times("reserve", "r1", {1})
    \union Times("capture", "r1", {1}) \union Times("release", "r1", {1})

\* The webhook and the poller on each of two transfers, and a charge.
DepositCalls ==
  Times("credit", 1, {1, 2}) \union Times("credit", 2, {1, 2})
    \union Times("debit", "m1", {1})

MCCalls == SpendingCalls \union DepositCalls

MCLoads == {[calls |-> SpendingCalls, credited |-> {1, 2}],
            [calls |-> DepositCalls, credited |-> {}]}

\* The first deposit is under the minimum alone.
MCWorth == [d \in {1, 2} |-> IF d = 1 THEN 2 ELSE 4]

MCCost == [x \in {"m1", "m2", "r1"} |-> IF x = "m1" THEN 4 ELSE 2]

TwoNotices == {[calls |-> Times("credit", 2, {1, 2}), credited |-> {}]}
=============================================================================
