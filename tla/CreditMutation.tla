--------------------------- MODULE CreditMutation ---------------------------
(***************************************************************************)
(* applyCreditMutation (kiko-api/src/services/creditBillingService.ts):     *)
(* what each kind of mutation does to the two balances of an account, and   *)
(* the check that throws INSUFFICIENT_CREDITS or                            *)
(* INSUFFICIENT_RESERVED_CREDITS.  A mutation is named by the prefix of its *)
(* idempotency key.  A refund is debited in mode refund_debit, which does   *)
(* what a charge does; a refund rejected is released like a reservation.    *)
(***************************************************************************)
EXTENDS Integers

LedgerOps == {"credit", "debit", "reserve", "capture", "release",
              "refund_hold", "refund_debit", "refund_release"}

DrawsAvailable == {"debit", "refund_debit", "reserve", "refund_hold"}

DrawsReserved == {"capture", "release", "refund_release"}

AvailableDelta(op, amount) ==
  IF op \in DrawsAvailable THEN -amount
  ELSE IF op = "capture" THEN 0 ELSE amount

\* (mutation) a capture leaves the amount reserved on the account
ReservedDeltaUncaptured(op, amount) ==
  IF op \in {"reserve", "refund_hold"} THEN amount
  ELSE IF op \in {"release", "refund_release"} THEN -amount ELSE 0

ReservedDelta(op, amount) ==
  IF op \in {"reserve", "refund_hold"} THEN amount
  ELSE IF op \in DrawsReserved THEN -amount ELSE 0

\* (mutation) a debit does not look at the available balance
CoversReserved(op, amount, available, reserved) ==
  op \in DrawsReserved => reserved >= amount

Covers(op, amount, available, reserved) ==
  /\ op \in DrawsAvailable => available >= amount
  /\ op \in DrawsReserved => reserved >= amount
=============================================================================
