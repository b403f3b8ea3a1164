--------------------------- MODULE CreditLedgerTx ---------------------------
(***************************************************************************)
(* The credit operations as Postgres runs them.  Each call is one           *)
(* prisma.$transaction at the default isolation level, READ COMMITTED, and  *)
(* one step here is one of its statements: a read sees what is committed at *)
(* that moment, an update waits for the transaction that last wrote the row *)
(* and then writes the columns the service computed from what it had read,  *)
(* and everything a call wrote becomes visible when it commits or vanishes  *)
(* when it aborts.  CreditLedger has the same operations one at a time.     *)
(*                                                                          *)
(* The paid and bonus sides of a lot, whose split CreditLedger and LotDrain *)
(* deal with, are one balance here.                                         *)
(***************************************************************************)
EXTENDS LotAllocation, CreditMutation

CONSTANTS
  Deposits,   \* deposit rows of one user and asset, numbered as they were created
  Worth,      \* the credits each deposit is worth
  MinTopUp,   \* the minimum top-up, in credits
  Cost,       \* the credits a message or an image costs, by its id
  Calls,      \* the calls that may be made: [op, source, attempt]
  Loads       \* situations: which of them are made, and which deposits are
              \* already credited then

Requests == DOMAIN Cost

ASSUME CreditLedgerTxAssumption ==
  /\ Deposits \subseteq Nat /\ IsFiniteSet(Deposits)
  /\ Loads \subseteq [calls : SUBSET Calls, credited : SUBSET Deposits]
  /\ Worth \in [Deposits -> Nat \ {0}]
  /\ Cost \in [Requests -> Nat \ {0}]
  /\ MinTopUp \in Nat
  /\ \A c \in Calls :
       \/ c.op = "credit" /\ c.source \in Deposits
       \/ c.op \in {"debit", "reserve", "capture", "release"} /\ c.source \in Requests

VARIABLES
  account,    \* credit_accounts: [available, reserved]
  rows,       \* credit_deposits: [status, remaining, held], by deposit
  entries,    \* credit_ledger_entries and their allocations
  load,       \* the situation of this history: an element of Loads, constant
  call,       \* where each call stands, what it has read, what it has written
  overlapped  \* history: two calls have been in progress at once

vars == <<account, rows, entries, load, call, overlapped>>
-----------------------------------------------------------------------------
Statuses == {"confirming", "confirmed", "below_minimum", "credited"}

NoPlan == [d \in Deposits |-> 0]

\* A call that holds nothing: at is the row it is working on, read the row or
\* account it last read, rows, account and entries its uncommitted writes.
AtPc(pc) == [pc |-> pc, plan |-> NoPlan, todo |-> {}, at |-> 0, read |-> << >>,
             rows |-> << >>, account |-> {}, entries |-> {}]

Init ==
  /\ load \in Loads
  /\ account = [available |-> SumOver(load.credited, LAMBDA d : Worth[d]), reserved |-> 0]
  /\ rows = [d \in Deposits |->
               IF d \in load.credited
               THEN [status |-> "credited", remaining |-> Worth[d], held |-> 0]
               ELSE [status |-> "confirming", remaining |-> 0, held |-> 0]]
  /\ entries = {[op |-> "credit", source |-> d, amount |-> Worth[d],
                 plan |-> [NoPlan EXCEPT ![d] = Worth[d]], attempt |-> 0] : d \in load.credited}
  /\ call = [c \in Calls |-> AtPc("idle")]
  /\ overlapped = FALSE

Ended(c) == call[c].pc \in {"done", "failed"}

InProgress(c) == call[c].pc # "idle" /\ ~Ended(c)

HasKey(E, op, source) == \E e \in E : e.op = op /\ e.source = source

\* What a call sees: its own writes over what is committed.
MyRow(c, d) == IF d \in DOMAIN call[c].rows THEN call[c].rows[d] ELSE rows[d]

MyAccount(c) == IF call[c].account = {} THEN account
                ELSE CHOOSE a \in call[c].account : TRUE

MyEntries(c) == entries \union call[c].entries

\* The uncommitted rows of a call once it has written more: new is a function
\* from rows to what it wrote, as old is.
Written(new, old) ==
  [d \in DOMAIN new \union DOMAIN old |-> IF d \in DOMAIN new THEN new[d] ELSE old[d]]

OneRow(d, row) == [e \in {d} |-> row]

HoldsRow(c, d) == d \in DOMAIN call[c].rows

RowFree(c, d) == \A b \in Calls \ {c} : ~HoldsRow(b, d)

HoldsAccount(c) == call[c].account # {}

Goto(c, pc) == call' = [call EXCEPT ![c].pc = pc]

Fail(c) == call' = [call EXCEPT ![c] = AtPc("failed")]

KeepData == UNCHANGED <<account, rows, entries>>

Begins(c) ==
  /\ c \in load.calls /\ call[c].pc = "idle"
  /\ UNCHANGED load
  /\ overlapped' = (overlapped \/ \E b \in Calls \ {c} : InProgress(b))

Proceeds(c, pc) == call[c].pc = pc /\ UNCHANGED <<load, overlapped>>
-----------------------------------------------------------------------------
(***************************************************************************)
(* settleChatUsageCharge and reserveImageCredits: the key is looked up, the *)
(* open lots are read and the charge is spread over them.                   *)
(***************************************************************************)
Spends(c) == c.op \in {"debit", "reserve"}

LookUpSpending(c) ==
  /\ Spends(c) /\ Begins(c) /\ KeepData
  /\ Goto(c, IF HasKey(entries, c.op, c.source) THEN "done" ELSE "load")

Spendable(d) == LET n == rows[d].remaining - rows[d].held
                IN  IF rows[d].remaining > 0 /\ n > 0 THEN n ELSE 0

Planned(amount) ==
  LET open == {d \in Deposits : Spendable(d) > 0}
      last == CHOOSE d \in open : \A e \in open : e <= d
      lots == [d \in open |-> [paid |-> Spendable(d), bonus |-> 0]]
      total == SumOver(open, LAMBDA d : Spendable(d))
  IN  [d \in Deposits |->
         IF d \notin open THEN 0
         ELSE IF d = last THEN RestOfCharge(lots, total, last, amount)
         ELSE FloorShare(lots, total, amount, d)]

LoadOpenLots(c) ==
  LET amount == Cost[c.source]
      enough == SumOver(Deposits, LAMBDA d : Spendable(d)) >= amount
      plan   == Planned(amount)
  IN  /\ Proceeds(c, "load") /\ KeepData
      /\ IF enough
         THEN call' = [call EXCEPT ![c] = [call[c] EXCEPT
                         !.pc = "read", !.plan = plan,
                         !.todo = {d \in Deposits : plan[d] > 0}]]
         ELSE Fail(c)

(***************************************************************************)
(* captureReservedImageCredits and releaseReservedImageCredits: the         *)
(* reservation is read, then the keys.  The task that makes these calls     *)
(* makes them one after another, and releases what it did not complete.     *)
(***************************************************************************)
CallsOf(op, source) == {b \in load.calls : b.op = op /\ b.source = source}

TaskIsAt(c) ==
  /\ \A b \in CallsOf("reserve", c.source) : Ended(b)
  /\ \A b \in CallsOf("capture", c.source) \union CallsOf("release", c.source) :
       b # c => ~InProgress(b)
  /\ c.op = "capture" => \A b \in CallsOf("release", c.source) : call[b].pc = "idle"

LookUpReservation(c) ==
  LET mine == {e \in entries : e.op = "reserve" /\ e.source = c.source}
      over == \/ HasKey(entries, c.op, c.source)
              \/ c.op = "release" /\ HasKey(entries, "capture", c.source)
  IN  /\ c.op \in {"capture", "release"} /\ TaskIsAt(c) /\ Begins(c) /\ KeepData
      /\ IF mine = {} \/ over
         THEN Goto(c, "done")
         ELSE \E e \in mine :
                call' = [call EXCEPT ![c] = [call[c] EXCEPT
                           !.pc = "read", !.plan = e.plan,
                           !.todo = {d \in Deposits : e.plan[d] > 0}]]

(***************************************************************************)
(* updateLotsForSpend and updateLotsForHold: each lot of the plan is read,  *)
(* then written.  A spending call takes the lots in the order it loaded     *)
(* them in; the allocations of a reservation come in no given order.  A     *)
(* debit writes only what remains; the others write both columns.           *)
(***************************************************************************)
Lowest(S, d) == \A e \in S : d <= e

\* (mutation) lots are taken in any order
AnyOf(c, d) == d \in call[c].todo

NextLot(c, d) == d \in call[c].todo /\ (Spends(c) => Lowest(call[c].todo, d))

ReadLot(c) ==
  /\ Proceeds(c, "read") /\ KeepData
  /\ \E d \in Deposits :
       /\ NextLot(c, d)
       /\ call' = [call EXCEPT ![c] = [call[c] EXCEPT !.pc = "write", !.at = d, !.read = rows[d]]]

RemainingDelta(op) == IF op \in {"debit", "capture"} THEN -1 ELSE 0

HeldDelta(op) == IF op = "reserve" THEN 1 ELSE IF op = "debit" THEN 0 ELSE -1

Adjusted(c, d) ==
  LET n    == call[c].plan[d]
      read == call[c].read
      held == IF c.op = "debit" THEN rows[d].held ELSE read.held + HeldDelta(c.op) * n
  IN  [rows[d] EXCEPT !.remaining = read.remaining + RemainingDelta(c.op) * n,
                      !.held = held]

WriteLot(c) ==
  LET d    == call[c].at
      rest == call[c].todo \ {d}
  IN  /\ Proceeds(c, "write") /\ KeepData
      /\ RowFree(c, d)
      /\ call' = [call EXCEPT ![c] = [call[c] EXCEPT
                    !.pc = IF rest = {} THEN "balance" ELSE "read",
                    !.todo = rest,
                    !.rows = Written(OneRow(d, Adjusted(c, d)), @)]]
-----------------------------------------------------------------------------
(***************************************************************************)
(* ingestCreditDeposit on a recorded transfer, as the webhook and the       *)
(* reconciliation poller call it.  Setting the status of the row and        *)
(* parking or crediting the pool write no matter what the row has become.   *)
(***************************************************************************)
\* (mutation) a credited deposit is not recognised
LookUpAnyDeposit(c) == c.op = "credit" /\ Begins(c) /\ KeepData /\ Goto(c, "record")

LookUpDeposit(c) ==
  /\ c.op = "credit" /\ Begins(c) /\ KeepData
  /\ Goto(c, IF rows[c.source].status = "credited" THEN "done" ELSE "record")

RecordTransfer(c) ==
  /\ Proceeds(c, "record") /\ KeepData
  /\ RowFree(c, c.source)
  /\ \E status \in {"confirming", "confirmed"} :
       call' = [call EXCEPT ![c] = [call[c] EXCEPT
                  !.pc = IF status = "confirmed" THEN "pool" ELSE "commit",
                  !.rows = Written(OneRow(c.source,
                                          [rows[c.source] EXCEPT !.status = status]), @)]]

PoolCandidates(c) ==
  LET pool == {d \in Deposits : MyRow(c, d).status \in {"confirmed", "below_minimum"}}
  IN  /\ Proceeds(c, "pool") /\ KeepData
      /\ call' = [call EXCEPT ![c] = [call[c] EXCEPT
                    !.pc = IF SumOver(pool, LAMBDA d : Worth[d]) < MinTopUp
                           THEN "park" ELSE "credit",
                    !.todo = pool]]

ParkPool(c) ==
  LET pool == call[c].todo
  IN  /\ Proceeds(c, "park") /\ KeepData
      /\ \A d \in pool : RowFree(c, d)
      /\ call' = [call EXCEPT ![c] = [call[c] EXCEPT
                    !.pc = "commit", !.todo = {},
                    !.rows = Written([d \in pool |->
                                        [MyRow(c, d) EXCEPT !.status = "below_minimum"]], @)]]

CreditRow(c) ==
  /\ Proceeds(c, "credit") /\ KeepData
  /\ \E d \in call[c].todo :
       /\ Lowest(call[c].todo, d)
       /\ RowFree(c, d)
       /\ call' = [call EXCEPT ![c] = [call[c] EXCEPT
                     !.pc = "balance", !.at = d, !.todo = @ \ {d},
                     !.plan = [NoPlan EXCEPT ![d] = Worth[d]],
                     !.rows = Written(OneRow(d, [status |-> "credited",
                                                 remaining |-> Worth[d], held |-> 0]), @)]]
-----------------------------------------------------------------------------
(***************************************************************************)
(* applyCreditMutation: the account is read and checked, then written, then *)
(* createLedgerEntry looks the key up once more and writes no second entry  *)
(* under it.  The account row is locked by then, and every entry is written *)
(* under that lock, so the look-up and the insert are one step.             *)
(***************************************************************************)
Source(c) == IF c.op = "credit" THEN call[c].at ELSE c.source

Amount(c) == IF c.op = "credit" THEN Worth[call[c].at] ELSE Cost[c.source]

ReadAccount(c) ==
  LET read == MyAccount(c)
  IN  /\ Proceeds(c, "balance") /\ KeepData
      /\ IF Covers(c.op, Amount(c), read.available, read.reserved)
         THEN call' = [call EXCEPT ![c] = [call[c] EXCEPT !.pc = "account", !.read = read]]
         ELSE Fail(c)

WriteAccount(c) ==
  LET read == call[c].read
      n    == Amount(c)
  IN  /\ Proceeds(c, "account") /\ KeepData
      /\ \A b \in Calls \ {c} : ~HoldsAccount(b)
      /\ call' = [call EXCEPT ![c] = [call[c] EXCEPT
                    !.pc = "entry",
                    !.account = {[available |-> read.available + AvailableDelta(c.op, n),
                                  reserved  |-> read.reserved + ReservedDelta(c.op, n)]}]]

EntryOf(c) == [op |-> c.op, source |-> Source(c), amount |-> Amount(c),
               plan |-> call[c].plan, attempt |-> c.attempt]

\* (mutation) the key is not looked up again before the entry is written
NewEntryUnchecked(c) == {EntryOf(c)}

NewEntry(c) == IF HasKey(MyEntries(c), c.op, Source(c)) THEN {} ELSE {EntryOf(c)}

CreateLedgerEntry(c) ==
  /\ Proceeds(c, "entry") /\ KeepData
  /\ call' = [call EXCEPT ![c] = [call[c] EXCEPT
                !.pc = IF call[c].todo = {} THEN "commit" ELSE "credit",
                !.entries = @ \union NewEntry(c)]]

Commit(c) ==
  /\ Proceeds(c, "commit")
  /\ rows' = [d \in Deposits |-> MyRow(c, d)]
  /\ account' = MyAccount(c)
  /\ entries' = MyEntries(c)
  /\ call' = [call EXCEPT ![c] = AtPc("done")]

\* A crash, the transaction timeout, or the choice of a deadlock victim.
Abort(c) == InProgress(c) /\ Fail(c) /\ KeepData /\ UNCHANGED <<load, overlapped>>

WaitsFor(c, b) ==
  /\ b # c
  /\ \/ call[c].pc = "write" /\ HoldsRow(b, call[c].at)
     \/ call[c].pc = "record" /\ HoldsRow(b, c.source)
     \/ call[c].pc = "credit" /\ \E d \in call[c].todo :
                                    Lowest(call[c].todo, d) /\ HoldsRow(b, d)
     \/ call[c].pc = "park" /\ \E d \in call[c].todo : HoldsRow(b, d)
     \/ call[c].pc = "account" /\ HoldsAccount(b)

DeadlockedAmong(S) == S # {} /\ \A c \in S : \E b \in S : WaitsFor(c, b)

\* Postgres breaks a cycle of waiting transactions by aborting one of them.

\* (mutation) nothing breaks the cycle
NoVictim(c) == FALSE /\ Abort(c)

DeadlockVictim(c) ==
  /\ InProgress(c)
  /\ \E S \in SUBSET {b \in Calls : InProgress(b)} : c \in S /\ DeadlockedAmong(S)
  /\ Abort(c)

Statement(c) ==
  \/ LookUpSpending(c) \/ LoadOpenLots(c) \/ LookUpReservation(c)
  \/ ReadLot(c) \/ WriteLot(c)
  \/ LookUpDeposit(c) \/ RecordTransfer(c) \/ PoolCandidates(c)
  \/ ParkPool(c) \/ CreditRow(c)
  \/ ReadAccount(c) \/ WriteAccount(c) \/ CreateLedgerEntry(c) \/ Commit(c)

Next == \E c \in Calls : Statement(c) \/ Abort(c)

(***************************************************************************)
(* The event loop runs every transaction on, and Postgres detects           *)
(* deadlocks; nothing else ever aborts a transaction for certain.           *)
(***************************************************************************)
Fairness == \A c \in Calls : WF_vars(Statement(c)) /\ WF_vars(DeadlockVictim(c))

Spec == Init /\ [][Next]_vars

FairSpec == Spec /\ Fairness
-----------------------------------------------------------------------------
(***************************************************************************)
(* However calls interleave, no key is entered twice: createLedgerEntry     *)
(* looks the key up while it holds the account row, which every other call  *)
(* must hold to write an entry.  The unique index is never even hit.        *)
(***************************************************************************)
EntryPerKey ==
  \A e, f \in entries : e.op = f.op /\ e.source = f.source => e = f

(***************************************************************************)
(* Charges and reservations of one user never wait for each other in a      *)
(* cycle: they take their lots in the order of crediting, then the account. *)
(***************************************************************************)
SpendersNeverDeadlock ==
  \A S \in SUBSET {c \in Calls : Spends(c) /\ InProgress(c)} : ~DeadlockedAmong(S)

(***************************************************************************)
(* "available_credits + reserved_credits must equal the sum of remaining    *)
(* and held balances": remaining includes what is held in this code.        *)
(***************************************************************************)
AccountMatchesLots ==
  account.available + account.reserved = SumOver(Deposits, LAMBDA d : rows[d].remaining)

(***************************************************************************)
(* "Every non-idempotent balance mutation writes one ledger entry": the     *)
(* balances of the account are those of its entries.                        *)
(***************************************************************************)
EveryMutationHasEntry ==
  /\ account.available = SumOver(entries, LAMBDA e : AvailableDelta(e.op, e.amount))
  /\ account.reserved = SumOver(entries, LAMBDA e : ReservedDelta(e.op, e.amount))

(***************************************************************************)
(* As long as no two calls of a user have overlapped, aborts at any         *)
(* statement included, the account matches both its lots and its entries.   *)
(***************************************************************************)
SerialIsExact == overlapped \/ (AccountMatchesLots /\ EveryMutationHasEntry)

(***************************************************************************)
(* Every call ends: no wait for a row lasts for ever.  (A call is made      *)
(* once, so sooner or later none is in progress any more.)                  *)
(***************************************************************************)
CallsEnd == <>[](\A c \in Calls : ~InProgress(c))
=============================================================================
