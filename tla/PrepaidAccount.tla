--------------------------- MODULE PrepaidAccount ---------------------------
(***************************************************************************)
(* What the credit service promises to its callers, without lots, rows,     *)
(* statuses or an append-only ledger: a user has a balance and an amount on *)
(* hold, every call takes effect at most once, neither amount ever goes     *)
(* below zero, and a hold ends with the amount it was placed with.          *)
(* CreditLedger implements it (CreditLedger!ImplementsAccount).             *)
(***************************************************************************)
EXTENDS Naturals

CONSTANTS Deposits, Messages, ImageRequests

VARIABLES
  balance,  \* what the user may spend
  held,     \* what is set aside
  done      \* the calls that took effect, each with its amount

vars == <<balance, held, done>>
-----------------------------------------------------------------------------
Call(kind, source, amount) == [kind |-> kind, source |-> source, amount |-> amount]

IsDone(kind, source) == \E c \in done : c.kind = kind /\ c.source = source

\* A call that moves both amounts to where they will be, for the first time.
TakesEffect(kind, source, amount) ==
  /\ ~IsDone(kind, source)
  /\ balance' \in Nat /\ held' \in Nat
  /\ done' = done \union {Call(kind, source, amount)}

Init == balance = 0 /\ held = 0 /\ done = {}

Fund(d) ==
  /\ balance' >= balance /\ held' = held
  /\ TakesEffect("credit", d, balance' - balance)

Charge(m) ==
  /\ balance' <= balance /\ held' = held
  /\ TakesEffect("debit", m, balance - balance')

Hold(kind, s) ==
  /\ balance' <= balance /\ held' = held + (balance - balance')
  /\ TakesEffect(kind, s, balance - balance')

\* A hold placed by one kind of call and not ended by another is ended by a third.
Ends(hold, kind, other, s) ==
  \E c \in done :
    /\ c.kind = hold /\ c.source = s
    /\ ~IsDone(other, s)
    /\ TakesEffect(kind, s, c.amount)
    /\ CASE kind = "capture" ->
              balance' = balance /\ held' + c.amount = held
         [] kind = "refund_debit" ->  \* the payout is drawn from the balance
              balance' + c.amount = balance /\ held' = held
         [] OTHER ->
              balance' = balance + c.amount /\ held' + c.amount = held

ImageCall(r) ==
  \/ Hold("reserve", r)
  \/ Ends("reserve", "capture", "release", r)
  \/ Ends("reserve", "release", "capture", r)

RefundCall(d) ==
  \/ Hold("refund_hold", d)
  \/ Ends("refund_hold", "refund_debit", "refund_release", d)
  \/ Ends("refund_hold", "refund_release", "refund_debit", d)

Next ==
  \/ \E d \in Deposits : Fund(d) \/ RefundCall(d)
  \/ \E m \in Messages : Charge(m)
  \/ \E r \in ImageRequests : ImageCall(r)

Spec == Init /\ [][Next]_vars
=============================================================================
