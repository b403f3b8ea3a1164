---------------------------- MODULE CreditLedger ----------------------------
(***************************************************************************)
(* The prepaid credit account of one user: account balances, the deposit    *)
(* lots behind them, the append-only ledger and the refund requests, as     *)
(* kiko-api/src/services/creditBillingService.ts keeps them in Postgres.    *)
(*                                                                          *)
(* Every operation is one prisma.$transaction and one action here: this     *)
(* module is the ledger as the service means it, with transactions that do  *)
(* not overlap.  (CreditLedgerTx lets them overlap.)  A call that finds its *)
(* idempotency key in the ledger returns without effect, and a call that    *)
(* throws rolls back: both are stuttering steps.  The one loop that writes  *)
(* several ledger entries, the crediting of a batch of deposits, takes one  *)
(* step per iteration, and nothing else happens until it is over.           *)
(***************************************************************************)
EXTENDS LotAllocation, CreditMutation

CONSTANTS
  Deposits,       \* on-chain transfers, numbered as their rows are created
  Messages,       \* assistant messages that are charged
  ImageRequests,  \* generated-image task ids
  StableAssets,   \* assets priced at 1 USD, without bonus
  BonusAssets,    \* assets at market price, with the KIKO bonus
  Amounts,        \* amounts a transfer may carry
  Prices,         \* market prices of the bonus assets, in credits
  MinTopUp,       \* env.credits.minimumTopUpUsd, in credits
  Charges         \* what a message or an image may cost

Assets == StableAssets \union BonusAssets

ASSUME CreditLedgerAssumption ==
  /\ Deposits \subseteq Nat /\ IsFiniteSet(Deposits)
  /\ Amounts \subseteq Nat \ {0}
  /\ Prices \subseteq Nat \ {0}
  /\ Charges \subseteq Nat \ {0}
  /\ MinTopUp \in Nat
  /\ StableAssets \intersect BonusAssets = {}

VARIABLES
  available,  \* credit_accounts.available_credits
  reserved,   \* credit_accounts.reserved_credits
  lots,       \* credit_deposits, by deposit
  crediting,  \* deposits the open ingestion transaction has still to credit,
              \* and the price it credits them at
  ledger,     \* credit_ledger_entries with their allocations, oldest first
  refunds,    \* credit_refund_requests, by deposit (deposit_id is unique)
  task        \* where the single run of each image task stands

vars == <<available, reserved, lots, crediting, ledger, refunds, task>>
-----------------------------------------------------------------------------
Credits == [paid : Nat, bonus : Nat]

LotStatus == {"absent", "confirming", "confirmed", "below_minimum", "credited"}

NoLot == [status |-> "absent", asset |-> "none", amount |-> 0,
          paidCredits |-> 0, bonusCredits |-> 0,
          remainingPaid |-> 0, remainingBonus |-> 0,
          heldPaid |-> 0, heldBonus |-> 0, creditedAt |-> 0]

LotRows == [status : LotStatus, asset : Assets \union {"none"},
            amount : Nat, paidCredits : Nat, bonusCredits : Nat,
            remainingPaid : Int, remainingBonus : Int,
            heldPaid : Int, heldBonus : Int, creditedAt : Nat]

Sources == Deposits \union Messages \union ImageRequests

Entries == [op : LedgerOps, source : Sources, amount : Nat,
            availableAfter : Nat, reservedAfter : Nat,
            allocations : [Deposits -> Credits]]

RefundStatus == {"none", "pending", "approved", "settled", "rejected"}

Refunds == [status : RefundStatus, paid : Nat, bonus : Nat]

LedgerEntries == {ledger[i] : i \in DOMAIN ledger}

IsEntry(e, op, source) == e.op = op /\ e.source = source

\* (mutation) the key is looked up in the newest entry only
HasNewestEntry(op, source) ==
  ledger # << >> /\ IsEntry(ledger[Len(ledger)], op, source)

HasEntry(op, source) == \E e \in LedgerEntries : IsEntry(e, op, source)

Init ==
  /\ available = 0
  /\ reserved = 0
  /\ lots = [d \in Deposits |-> NoLot]
  /\ crediting = [deposits |-> {}, price |-> 1]
  /\ ledger = << >>
  /\ refunds = [d \in Deposits |-> [status |-> "none", paid |-> 0, bonus |-> 0]]
  /\ task = [r \in ImageRequests |-> "idle"]
-----------------------------------------------------------------------------
CanApply(op, amount) == Covers(op, amount, available, reserved)

\* createLedgerEntry returns the entry already under the key, if there is one.
CreateLedgerEntry(op, source, amount, allocations) ==
  ledger' = IF HasEntry(op, source)
            THEN ledger
            ELSE Append(ledger, [op |-> op, source |-> source, amount |-> amount,
                                 availableAfter |-> available + AvailableDelta(op, amount),
                                 reservedAfter |-> reserved + ReservedDelta(op, amount),
                                 allocations |-> allocations])

ApplyCreditMutation(op, source, amount, allocations) ==
  /\ CanApply(op, amount)
  /\ available' = available + AvailableDelta(op, amount)
  /\ reserved' = reserved + ReservedDelta(op, amount)
  /\ CreateLedgerEntry(op, source, amount, allocations)
-----------------------------------------------------------------------------
(***************************************************************************)
(* The lots a charge may draw on and the allocation of a charge: a set with *)
(* the one allocation, or empty where the source throws                     *)
(* INSUFFICIENT_CREDITS.  remaining includes held: holding a credit does    *)
(* not take it out of the lot.                                              *)
(***************************************************************************)
\* (mutation) what is held may be spent again
RemainingLot(d) ==
  [paid  |-> Positive(lots[d].remainingPaid),
   bonus |-> Positive(lots[d].remainingBonus)]

SpendableLot(d) ==
  [paid  |-> Positive(lots[d].remainingPaid - lots[d].heldPaid),
   bonus |-> Positive(lots[d].remainingBonus - lots[d].heldBonus)]

CandidateLots ==
  {d \in Deposits :
     /\ lots[d].remainingPaid > 0 \/ lots[d].remainingBonus > 0
     /\ Balance(SpendableLot(d)) > 0}

IsNewest(d) == \A c \in CandidateLots : lots[c].creditedAt <= lots[d].creditedAt

AllocationWith(last, total, rest, amount) ==
  LET candidates == [d \in CandidateLots |-> SpendableLot(d)]
      shares == ProportionalAllocation(candidates, total, last, rest, amount)
  IN  [d \in Deposits |-> IF d \in CandidateLots THEN shares[d] ELSE NoCredits]

Allocations(amount) ==
  LET candidates == [d \in CandidateLots |-> SpendableLot(d)]
      total == SumOver(CandidateLots, LAMBDA d : Balance(candidates[d]))
      rest(last) == RestOfCharge(candidates, total, last, amount)
  IN  {AllocationWith(last, total, rest(last), amount) :
         last \in {d \in CandidateLots : IsNewest(d) /\ total >= amount}}

OnDeposit(deposit, credits) ==
  [d \in Deposits |-> IF d = deposit THEN credits ELSE NoCredits]

(***************************************************************************)
(* updateLotsForSpend and the modes of updateLotsForHold: how many times    *)
(* the allocation each adds to what remains of a lot and to what it holds.  *)
(***************************************************************************)
AdjustLots(a, remaining, held) ==
  lots' = [d \in Deposits |->
             [lots[d] EXCEPT !.remainingPaid  = @ + remaining * a[d].paid,
                             !.remainingBonus = @ + remaining * a[d].bonus,
                             !.heldPaid       = @ + held * a[d].paid,
                             !.heldBonus      = @ + held * a[d].bonus]]

UpdateLotsForSpend(a) == AdjustLots(a, -1, 0)

\* (mutation) a hold is not written to its lots
UpdateNoLots(a) == AdjustLots(a, 0, 0)

UpdateLotsForHold(a) == AdjustLots(a, 0, 1)

UpdateLotsForRelease(a) == AdjustLots(a, 0, -1)

\* (mutation) a capture takes nothing out of its lots
UpdateLotsForFreeCapture(a) == AdjustLots(a, 0, -1)

UpdateLotsForCapture(a) == AdjustLots(a, -1, -1)
-----------------------------------------------------------------------------
NoOpenTransaction == crediting.deposits = {}

(***************************************************************************)
(* ingestCreditDeposit.  A new row or a repeated notification is recorded;  *)
(* with enough confirmations the deposit is pooled with the user's other    *)
(* confirmed or below-minimum deposits of the asset, and the pool is either *)
(* credited as a whole or, under the minimum, parked as a whole.  The last  *)
(* argument is whether confirmations >= requiredConfirmations.              *)
(***************************************************************************)
RecordTransfer(d, asset, amount) ==
  IF lots[d].status = "absent"
  THEN [NoLot EXCEPT !.asset = asset, !.amount = amount]
  ELSE lots[d]

IngestUnconfirmed(d, asset, amount) ==
  /\ NoOpenTransaction
  /\ lots' = [lots EXCEPT ![d] =
                [RecordTransfer(d, asset, amount) EXCEPT !.status = "confirming"]]
  /\ UNCHANGED <<available, reserved, crediting, ledger, refunds, task>>

IngestConfirmed(d, asset, amount, price) ==
  LET mine == [RecordTransfer(d, asset, amount) EXCEPT !.status = "confirmed"]
      pool == {d} \union {c \in Deposits : lots[c].status \in {"confirmed", "below_minimum"}
                                           /\ lots[c].asset = mine.asset}
      row(c) == IF c = d THEN mine ELSE lots[c]
      totalUsd == SumOver(pool, LAMBDA c : row(c).amount * price)
      status == IF totalUsd < MinTopUp THEN "below_minimum" ELSE "confirmed"
  IN  /\ NoOpenTransaction
      /\ price \in IF mine.asset \in BonusAssets THEN Prices ELSE {1}
      /\ lots' = [c \in Deposits |-> IF c \in pool
                                     THEN [row(c) EXCEPT !.status = status]
                                     ELSE lots[c]]
      /\ crediting' = IF totalUsd < MinTopUp
                      THEN crediting
                      ELSE [deposits |-> pool, price |-> price]
      /\ UNCHANGED <<available, reserved, ledger, refunds, task>>

IngestCreditDeposit(d) ==
  \E asset \in Assets, amount \in Amounts :
    /\ lots[d].status # "credited"
    /\ lots[d].status = "absent" => \A c \in Deposits : c < d => lots[c].status # "absent"
    /\ lots[d].status # "absent" => asset = lots[d].asset /\ amount = lots[d].amount
    /\ \/ IngestUnconfirmed(d, asset, amount)
       \/ \E price \in Prices \union {1} : IngestConfirmed(d, asset, amount, price)

(***************************************************************************)
(* One iteration of the crediting loop, oldest row first.  KIKO earns a     *)
(* bonus of a fifth of the paid credits, rounded half up.                   *)
(***************************************************************************)
BonusFor(asset, paid) ==
  IF asset \in BonusAssets THEN (2 * paid + 5) \div 10 ELSE 0

CreditCandidate(d) ==
  LET paid   == lots[d].amount * crediting.price
      bonus  == BonusFor(lots[d].asset, paid)
      credit == [paid |-> paid, bonus |-> bonus]
  IN  /\ d \in crediting.deposits
      /\ \A c \in crediting.deposits : d <= c
      /\ crediting' = [crediting EXCEPT !.deposits = @ \ {d}]
      /\ lots' = [lots EXCEPT ![d] =
                    [status |-> "credited", asset |-> @.asset, amount |-> @.amount,
                     paidCredits |-> paid, bonusCredits |-> bonus,
                     remainingPaid |-> paid, remainingBonus |-> bonus,
                     heldPaid |-> 0, heldBonus |-> 0,
                     creditedAt |-> Len(ledger) + 1]]
      /\ ApplyCreditMutation("credit", d, paid + bonus, OnDeposit(d, credit))
      /\ UNCHANGED <<refunds, task>>
-----------------------------------------------------------------------------
\* settleChatUsageCharge
SettleChatUsageCharge(m, amount) ==
  /\ NoOpenTransaction
  /\ ~HasEntry("debit", m)
  /\ \E a \in Allocations(amount) :
       /\ UpdateLotsForSpend(a)
       /\ ApplyCreditMutation("debit", m, amount, a)
  /\ UNCHANGED <<crediting, refunds, task>>

(***************************************************************************)
(* reserveImageCredits, captureReservedImageCredits and                     *)
(* releaseReservedImageCredits.  Capture does not look for a release; it is *)
(* the single run of the image task that never completes a request after    *)
(* failing it (runGeneratedImageChatTask: markCompleted in the try,         *)
(* markFailed in the catch, possibly after markCompleted).                  *)
(***************************************************************************)
ReserveImageCredits(r, amount) ==
  /\ NoOpenTransaction
  /\ task[r] = "idle"
  /\ ~HasEntry("reserve", r)
  /\ \E a \in Allocations(amount) :
       /\ UpdateLotsForHold(a)
       /\ ApplyCreditMutation("reserve", r, amount, a)
  /\ task' = [task EXCEPT ![r] = "running"]
  /\ UNCHANGED <<crediting, refunds>>

\* (mutation) a request is completed whatever became of its reservation
CaptureAnyReservation(r) ==
  /\ NoOpenTransaction
  /\ ~HasEntry("capture", r)
  /\ \E e \in LedgerEntries :
       /\ IsEntry(e, "reserve", r)
       /\ UpdateLotsForCapture(e.allocations)
       /\ ApplyCreditMutation("capture", r, e.amount, e.allocations)
  /\ UNCHANGED <<crediting, refunds, task>>

CaptureReservedImageCredits(r) ==
  /\ NoOpenTransaction
  /\ task[r] = "running"
  /\ ~HasEntry("capture", r)
  /\ \E e \in LedgerEntries :
       /\ IsEntry(e, "reserve", r)
       /\ UpdateLotsForCapture(e.allocations)
       /\ ApplyCreditMutation("capture", r, e.amount, e.allocations)
  /\ UNCHANGED <<crediting, refunds, task>>

\* (mutation) a release does not look for a capture
ReleaseUncheckedImageCredits(r) ==
  /\ NoOpenTransaction
  /\ task[r] = "running"
  /\ task' = [task EXCEPT ![r] = "failed"]
  /\ ~HasEntry("release", r)
  /\ \E e \in LedgerEntries :
       /\ IsEntry(e, "reserve", r)
       /\ UpdateLotsForRelease(e.allocations)
       /\ ApplyCreditMutation("release", r, e.amount, e.allocations)
  /\ UNCHANGED <<crediting, refunds>>

ReleaseReservedImageCredits(r) ==
  /\ NoOpenTransaction
  /\ task[r] = "running"
  /\ task' = [task EXCEPT ![r] = "failed"]
  /\ IF HasEntry("release", r) \/ HasEntry("capture", r)
     THEN UNCHANGED <<lots, available, reserved, ledger>>
     ELSE \E e \in LedgerEntries :
            /\ IsEntry(e, "reserve", r)
            /\ UpdateLotsForRelease(e.allocations)
            /\ ApplyCreditMutation("release", r, e.amount, e.allocations)
  /\ UNCHANGED <<crediting, refunds>>
-----------------------------------------------------------------------------
(***************************************************************************)
(* Refunds.  The refund window is wall-clock time: a request inside it may  *)
(* come at any moment, one outside it throws, so no guard stands for it.    *)
(***************************************************************************)
RefundTotal(d) == refunds[d].paid + refunds[d].bonus

RefundAllocation(d) ==
  OnDeposit(d, [paid |-> refunds[d].paid, bonus |-> refunds[d].bonus])

\* (mutation) a refund already resolved may be resolved again
IsRequested(d) == refunds[d].status # "none"

IsActionable(d) == refunds[d].status \in {"pending", "approved"}

CreateRefundRequest(d) ==
  LET refundable == SpendableLot(d)
  IN  /\ NoOpenTransaction
      /\ lots[d].status = "credited"
      /\ refunds[d].status = "none"
      /\ refundable.paid > 0
      /\ UpdateLotsForHold(OnDeposit(d, refundable))
      /\ ApplyCreditMutation("refund_hold", d, Balance(refundable),
                             OnDeposit(d, refundable))
      /\ refunds' = [refunds EXCEPT ![d] = [status |-> "pending",
                                            paid   |-> refundable.paid,
                                            bonus  |-> refundable.bonus]]
      /\ UNCHANGED <<crediting, task>>

ApproveRefundRequest(d) ==
  /\ NoOpenTransaction
  /\ refunds[d].status = "pending"
  /\ refunds' = [refunds EXCEPT ![d].status = "approved"]
  /\ UNCHANGED <<available, reserved, lots, crediting, ledger, task>>

SettleRefundRequest(d) ==
  /\ NoOpenTransaction
  /\ IsActionable(d)
  /\ UpdateLotsForCapture(RefundAllocation(d))
  /\ ApplyCreditMutation("refund_debit", d, RefundTotal(d), RefundAllocation(d))
  /\ refunds' = [refunds EXCEPT ![d].status = "settled"]
  /\ UNCHANGED <<crediting, task>>

RejectRefundRequest(d) ==
  /\ NoOpenTransaction
  /\ IsActionable(d)
  /\ UpdateLotsForRelease(RefundAllocation(d))
  /\ ApplyCreditMutation("refund_release", d, RefundTotal(d), RefundAllocation(d))
  /\ refunds' = [refunds EXCEPT ![d].status = "rejected"]
  /\ UNCHANGED <<crediting, task>>
-----------------------------------------------------------------------------
DepositStep(d) == IngestCreditDeposit(d) \/ CreditCandidate(d)

ImageStep(r) ==
  \/ \E amount \in Charges : ReserveImageCredits(r, amount)
  \/ CaptureReservedImageCredits(r)
  \/ ReleaseReservedImageCredits(r)

RefundStep(d) ==
  \/ CreateRefundRequest(d)
  \/ ApproveRefundRequest(d)
  \/ SettleRefundRequest(d)
  \/ RejectRefundRequest(d)

Next ==
  \/ \E d \in Deposits : DepositStep(d) \/ RefundStep(d)
  \/ \E m \in Messages, amount \in Charges : SettleChatUsageCharge(m, amount)
  \/ \E r \in ImageRequests : ImageStep(r)

Spec == Init /\ [][Next]_vars
-----------------------------------------------------------------------------
TypeOK ==
  /\ available \in Nat
  /\ reserved \in Nat
  /\ lots \in [Deposits -> LotRows]
  /\ crediting \in [deposits : SUBSET Deposits, price : Nat]
  /\ ledger \in Seq(Entries)
  /\ refunds \in [Deposits -> Refunds]
  /\ task \in [ImageRequests -> {"idle", "running", "failed"}]

SumOfLots(value(_)) == SumOver(Deposits, LAMBDA d : value(lots[d]))

(***************************************************************************)
(* "available_credits + reserved_credits must equal the sum of remaining    *)
(* and held balances across open deposits": remaining includes held in this *)
(* code, so the account owns exactly what is left of its deposits, through  *)
(* every mix of charges, reservations, rounding leftovers and refunds.      *)
(***************************************************************************)
AccountMatchesLots ==
  available + reserved = SumOfLots(LAMBDA l : l.remainingPaid + l.remainingBonus)

(***************************************************************************)
(* Replaying the ledger gives the account: each entry's recorded balances   *)
(* are the previous entry's moved by what its own operation does, and the   *)
(* last entry's are the account's.                                          *)
(***************************************************************************)
LedgerReplays ==
  /\ \A i \in DOMAIN ledger :
       /\ ledger[i].availableAfter =
            (IF i = 1 THEN 0 ELSE ledger[i - 1].availableAfter)
              + AvailableDelta(ledger[i].op, ledger[i].amount)
       /\ ledger[i].reservedAfter =
            (IF i = 1 THEN 0 ELSE ledger[i - 1].reservedAfter)
              + ReservedDelta(ledger[i].op, ledger[i].amount)
  /\ available = IF ledger = << >> THEN 0 ELSE ledger[Len(ledger)].availableAfter
  /\ reserved = IF ledger = << >> THEN 0 ELSE ledger[Len(ledger)].reservedAfter

(***************************************************************************)
(* Replaying the allocations gives the lots: what remains of a deposit is   *)
(* what it was credited with less what the entries that spend allocated to  *)
(* it.  "Every mutation writes one ledger entry and matching per-deposit    *)
(* allocations."                                                            *)
(***************************************************************************)
SpendingOps == {"debit", "capture", "refund_debit"}

AllocatedBy(ops, d, side(_)) ==
  SumOver({i \in DOMAIN ledger : ledger[i].op \in ops},
          LAMBDA i : side(ledger[i].allocations[d]))

LotsReplayLedger ==
  \A d \in Deposits :
    /\ lots[d].remainingPaid = AllocatedBy({"credit"}, d, LAMBDA a : a.paid)
                               - AllocatedBy(SpendingOps, d, LAMBDA a : a.paid)
    /\ lots[d].remainingBonus = AllocatedBy({"credit"}, d, LAMBDA a : a.bonus)
                                - AllocatedBy(SpendingOps, d, LAMBDA a : a.bonus)

(***************************************************************************)
(* What is held on a deposit is exactly the holds still open on it: image   *)
(* reservations neither captured nor released and refunds neither settled   *)
(* nor rejected.  No hold outlives its end, none is undone twice.           *)
(***************************************************************************)
OpenReservations ==
  {e \in LedgerEntries :
     /\ e.op = "reserve"
     /\ ~HasEntry("capture", e.source) /\ ~HasEntry("release", e.source)}

HoldsAreBacked ==
  \A d \in Deposits :
    LET onRefund == IF IsActionable(d) THEN refunds[d] ELSE NoCredits
    IN  /\ lots[d].heldPaid = onRefund.paid
             + SumOver(OpenReservations, LAMBDA e : e.allocations[d].paid)
        /\ lots[d].heldBonus = onRefund.bonus
             + SumOver(OpenReservations, LAMBDA e : e.allocations[d].bonus)

(***************************************************************************)
(* An operation takes effect once: the ledger never holds two entries with  *)
(* the same idempotency key, however often a charge, a capture, a release,  *)
(* a deposit or a refund is retried.                                        *)
(***************************************************************************)
EntryPerKey ==
  \A i, j \in DOMAIN ledger :
    ledger[i].op = ledger[j].op /\ ledger[i].source = ledger[j].source => i = j

(***************************************************************************)
(* The paid credits of a deposit are never held beyond what remains of      *)
(* them, nor remain beyond what was bought: a refund, which pays out only   *)
(* paid credits that are not held, pays out credits still unspent.          *)
(***************************************************************************)
PaidHoldsCovered ==
  \A d \in Deposits :
    /\ lots[d].heldPaid <= lots[d].remainingPaid
    /\ lots[d].remainingPaid <= lots[d].paidCredits

(***************************************************************************)
(* "Refunds only return unused paid credits": what was paid out for a       *)
(* deposit and what its paid side was charged never exceed what it bought.  *)
(***************************************************************************)
RefundsReturnUnusedPaid ==
  \A d \in Deposits :
    refunds[d].status = "settled" =>
      refunds[d].paid + AllocatedBy({"debit", "capture"}, d, LAMBDA a : a.paid)
        <= lots[d].paidCredits

(***************************************************************************)
(* An image reservation ends once: the user is either charged for it or     *)
(* gets it back, and a refund is either paid out or given back.             *)
(***************************************************************************)
HoldsEndOnce ==
  /\ \A r \in ImageRequests : ~(HasEntry("capture", r) /\ HasEntry("release", r))
  /\ \A d \in Deposits :
       ~(HasEntry("refund_debit", d) /\ HasEntry("refund_release", d))

(***************************************************************************)
(* The service keeps its promise to callers: every transaction is one call  *)
(* of PrepaidAccount or, when it throws, repeats a key or only moves rows,  *)
(* nothing at all.  In particular a hold, of an image or a refund, ends     *)
(* with exactly the amount it was placed with, once, and in one way.        *)
(***************************************************************************)
Effects ==
  {[kind |-> e.op, source |-> e.source, amount |-> e.amount] : e \in LedgerEntries}

Account == INSTANCE PrepaidAccount
             WITH balance <- available, held <- reserved, done <- Effects

ImplementsAccount == Account!Spec

(***************************************************************************)
(* "Keep account balances, per-deposit remaining balances, and ledger       *)
(* allocations in sync for every credit/debit/reserve/release/refund path": *)
(* what the account reserves is what its deposits hold.                     *)
(***************************************************************************)
ReservedIsHeld == reserved = SumOfLots(LAMBDA l : l.heldPaid + l.heldBonus)
=============================================================================
