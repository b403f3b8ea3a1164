--------------------------- MODULE DepositWatcher ---------------------------
(***************************************************************************)
(* How on-chain transfers reach the credit ledger: the webhook handler and  *)
(* the reconciliation poller of                                             *)
(* kiko-api/src/services/creditDepositWatcherService.ts, both of which call *)
(* ingestCreditDeposit (creditBillingService.ts, one transaction and one    *)
(* step here; CreditLedger and CreditLedgerTx look inside it).              *)
(*                                                                          *)
(* The chain grows; a transfer is announced by webhooks, any number of      *)
(* times and at any later moment, or never, and listed by the poller, which *)
(* remembers in a cursor how far it has read.  One user and one asset, so   *)
(* one pool of deposits.                                                    *)
(***************************************************************************)
EXTENDS Integers, FiniteSets, Functions

CONSTANTS
  Transfers,    \* transfers to the payment address
  Amount,       \* what each is worth, in credits
  MinTopUp,     \* env.credits.minimumTopUpUsd, in credits
  Runs,         \* reconciliation runs that may be under way at once
  Overlap,      \* env.credits.reconciliationOverlapBlocks
  Backfill,     \* env.credits.reconciliationBackfillBlocks
  PageLimit,    \* maxCount of the list of transfers, 500
  Situations,   \* [required, sameIdentity]: the confirmations an asset needs
                \* and whether both sources compute one log index
  MaxBlock,     \* bound: blocks mined
  LastDeposit,  \* bound: the last block that may hold a transfer
  MaxNotices,   \* bound: webhook deliveries of one transfer
  MaxFaults     \* bound: failures of the poller's calls, and crashes

ASSUME DepositWatcherAssumption ==
  /\ IsFiniteSet(Transfers)
  /\ Amount \in [Transfers -> Nat \ {0}]
  /\ {MinTopUp, Overlap, Backfill, MaxBlock, LastDeposit, MaxNotices, MaxFaults} \subseteq Nat
  /\ PageLimit \in Nat \ {0}
  /\ Situations \subseteq [required : Nat \ {0}, sameIdentity : BOOLEAN]

VARIABLES
  situation,  \* an element of Situations, constant
  head,       \* the latest block
  block,      \* the block of each transfer, 0 before it is mined
  rows,       \* credit_deposits.status, by transfer and log index
  times,      \* how often each transfer has been credited
  cursor,     \* credit_deposit_watcher_state.cursor_block, -1 for none
  run,        \* the reconciliation runs
  notices,    \* webhook deliveries of each transfer so far
  faults,     \* faults so far
  lost        \* history: transfers a delivery of which was dropped or undone

vars == <<situation, head, block, rows, times, cursor, run, notices, faults, lost>>
-----------------------------------------------------------------------------
Sources == {"webhook", "reconcile"}

Status == {"absent", "confirming", "confirmed", "below_minimum", "credited"}

Keys == Transfers \X Sources

\* stableLogIndex: the delivery's own index, or a hash of whatever identifies
\* it, which the two sources spell in the same way or do not.
KeyOf(t, source) == <<t, IF situation.sameIdentity THEN "reconcile" ELSE source>>

Idle == [pc |-> "idle", latest |-> 0, page |-> {}]

Init ==
  /\ situation \in Situations
  /\ head = 0
  /\ block = [t \in Transfers |-> 0]
  /\ rows = [k \in Keys |-> "absent"]
  /\ times = [t \in Transfers |-> 0]
  /\ cursor = -1
  /\ run = [p \in Runs |-> Idle]
  /\ notices = [t \in Transfers |-> 0]
  /\ faults = 0
  /\ lost = {}
-----------------------------------------------------------------------------
Mine ==
  /\ head < MaxBlock
  /\ head' = head + 1
  /\ \E S \in SUBSET {t \in Transfers : block[t] = 0} :
       /\ S # {} => head' <= LastDeposit
       /\ block' = [t \in Transfers |-> IF t \in S THEN head' ELSE block[t]]
  /\ UNCHANGED <<situation, rows, times, cursor, run, notices, faults, lost>>

-----------------------------------------------------------------------------
(***************************************************************************)
(* resolveDepositConfirmations: the webhook handler passes no latest block. *)
(* A transfer whose block the delivery does not tell has none.              *)
(***************************************************************************)
\* (mutation) a transfer in the latest block has two confirmations
ConfirmationsFromNext(t, latest) == IF latest >= block[t] THEN latest - block[t] + 2 ELSE 1

ConfirmationsAt(t, latest) == IF latest >= block[t] THEN latest - block[t] + 1 ELSE 1

WebhookConfirmations == {0, 1}

(***************************************************************************)
(* ingestCreditDeposit with a number of confirmations: a credited row stays *)
(* as it is, any other is set to what this delivery says, and a confirmed   *)
(* one is pooled with the user's other confirmed or parked rows.            *)
(***************************************************************************)
Worth(K) == SumFunctionOnSet([k \in Keys |-> Amount[k[1]]], K)

\* (mutation) parked deposits are not counted again
PoolOfConfirmed(s) == {k \in Keys : s[k] = "confirmed"}

Pool(s) == {k \in Keys : s[k] \in {"confirmed", "below_minimum"}}

\* (mutation) a credited row is set to what this delivery says, too
RecordAlways(k, confirmations) ==
  [rows EXCEPT ![k] = IF confirmations >= situation.required
                      THEN "confirmed" ELSE "confirming"]

Record(k, confirmations) ==
  [rows EXCEPT ![k] = IF @ = "credited" THEN @
                      ELSE IF confirmations >= situation.required
                           THEN "confirmed" ELSE "confirming"]

IngestCreditDeposit(k, confirmations) ==
  LET recorded == Record(k, confirmations)
      pool     == Pool(recorded)
      status   == IF Worth(pool) < MinTopUp THEN "below_minimum" ELSE "credited"
      credited == {t \in Transfers : status = "credited" /\ \E c \in pool : c[1] = t}
  IN  IF recorded[k] = "confirmed"
      THEN /\ rows' = [c \in Keys |-> IF c \in pool THEN status ELSE recorded[c]]
           /\ times' = [t \in Transfers |-> times[t] + Cardinality(
                          {c \in pool : t \in credited /\ c[1] = t})]
      ELSE rows' = recorded /\ UNCHANGED times

(***************************************************************************)
(* processDepositActivity, of a registered sender.  A deposit is undone     *)
(* when a delivery sets its row back to confirming.                         *)
(***************************************************************************)
ProcessDepositActivity(t, source, confirmations) ==
  LET k == KeyOf(t, source)
  IN  /\ IngestCreditDeposit(k, confirmations)
      /\ lost' = IF rows[k] \in {"confirmed", "below_minimum"} /\ rows'[k] = "confirming"
                 THEN lost \union {t} ELSE lost

\* processCreditDepositWebhookPayload, one activity.  One that throws is
\* counted as an error: the delivery has no effect and is not retried.
ProcessWebhook(t) ==
  /\ block[t] # 0
  /\ notices[t] < MaxNotices
  /\ notices' = [notices EXCEPT ![t] = @ + 1]
  /\ \E confirmations \in WebhookConfirmations :
       ProcessDepositActivity(t, "webhook", confirmations)
  /\ UNCHANGED <<situation, head, block, cursor, run, faults>>
-----------------------------------------------------------------------------
(***************************************************************************)
(* runCreditDepositReconciliation, on the timer or at startup.              *)
(***************************************************************************)
KeepChain == UNCHANGED <<situation, head, block, notices>>

ReadLatestBlock(p) ==
  /\ run[p].pc = "idle"
  /\ run' = [run EXCEPT ![p] = [pc |-> "listing", latest |-> head, page |-> {}]]
  /\ KeepChain /\ UNCHANGED <<rows, times, cursor, faults, lost>>

Max0(n) == IF n > 0 THEN n ELSE 0

\* (mutation) the cursor's block and those before it are taken for done
FromAfterCursor(latest) == IF cursor # -1 THEN cursor + 1 ELSE Max0(latest - Backfill)

FromBlock(latest) == IF cursor # -1 THEN Max0(cursor - Overlap) ELSE Max0(latest - Backfill)

InRange(latest) == {t \in Transfers : block[t] # 0 /\ block[t] \in FromBlock(latest) .. latest}

\* Block order, oldest first.
Precedes(t, u) == block[t] < block[u] \/ (block[t] = block[u] /\ t <= u)

\* The list is sorted by block and cut at the limit.
FirstPage(S) == {t \in S : Cardinality({u \in S : Precedes(u, t)}) <= PageLimit}

ListTransfers(p) ==
  LET found == InRange(run[p].latest)
  IN  /\ run[p].pc = "listing"
      /\ run' = [run EXCEPT ![p].pc = "ingesting", ![p].page = FirstPage(found)]
      /\ lost' = lost \union (found \ FirstPage(found))
      /\ KeepChain /\ UNCHANGED <<rows, times, cursor, faults>>

\* getAssetTransfers answers null when Alchemy does not: transfers || [].
ListNothing(p) ==
  /\ run[p].pc = "listing"
  /\ faults < MaxFaults /\ faults' = faults + 1
  /\ run' = [run EXCEPT ![p].pc = "ingesting", ![p].page = {}]
  /\ lost' = lost \union InRange(run[p].latest)
  /\ KeepChain /\ UNCHANGED <<rows, times, cursor>>

NextTransfer(p, t) ==
  /\ run[p].pc = "ingesting"
  /\ t \in run[p].page /\ \A u \in run[p].page : Precedes(t, u)
  /\ run' = [run EXCEPT ![p].page = @ \ {t}]

IngestTransfer(p, t) ==
  /\ NextTransfer(p, t)
  /\ ProcessDepositActivity(t, "reconcile", ConfirmationsAt(t, run[p].latest))
  /\ KeepChain /\ UNCHANGED <<cursor, faults>>

\* The transaction throws, or no user has the sender's wallet: counted, and
\* the loop goes on.
IngestTransferFails(p, t) ==
  /\ NextTransfer(p, t)
  /\ faults < MaxFaults /\ faults' = faults + 1
  /\ lost' = lost \union {t}
  /\ KeepChain /\ UNCHANGED <<rows, times, cursor>>

EndsRun(p) ==
  /\ run[p].pc = "ingesting" /\ run[p].page = {}
  /\ run' = [run EXCEPT ![p] = Idle]

\* (mutation) the block after the one read is stored
MoveCursorPast(p) ==
  /\ EndsRun(p)
  /\ cursor' = run[p].latest + 1
  /\ KeepChain /\ UNCHANGED <<rows, times, faults, lost>>

MoveCursor(p) ==
  /\ EndsRun(p)
  /\ cursor' = run[p].latest
  /\ KeepChain /\ UNCHANGED <<rows, times, faults, lost>>

\* updateCreditDepositWatcherState(...).catch(() => undefined)
MoveCursorFails(p) ==
  /\ EndsRun(p)
  /\ faults < MaxFaults /\ faults' = faults + 1
  /\ KeepChain /\ UNCHANGED <<rows, times, cursor, lost>>

\* The process dies, and a new one starts with the cursor that is stored.
Crash ==
  /\ faults < MaxFaults /\ faults' = faults + 1
  /\ run' = [p \in Runs |-> Idle]
  /\ KeepChain /\ UNCHANGED <<rows, times, cursor, lost>>
-----------------------------------------------------------------------------
Reconcile(p) ==
  \/ ReadLatestBlock(p)
  \/ ListTransfers(p)
  \/ \E t \in Transfers : IngestTransfer(p, t)
  \/ MoveCursor(p)

Fault ==
  \/ \E p \in Runs : \/ ListNothing(p) \/ MoveCursorFails(p)
                     \/ \E t \in Transfers : IngestTransferFails(p, t)
  \/ Crash

Next ==
  \/ Mine
  \/ \E t \in Transfers : ProcessWebhook(t)
  \/ \E p \in Runs : Reconcile(p)
  \/ Fault

Spec == Init /\ [][Next]_vars

(***************************************************************************)
(* Blocks keep coming, the timer keeps firing and a run gets on with it:    *)
(* every call it makes has a timeout.  No webhook ever has to arrive.       *)
(***************************************************************************)
FairSpec == Spec /\ WF_vars(Mine) /\ \A p \in Runs : WF_vars(Reconcile(p))
-----------------------------------------------------------------------------
TypeOK ==
  /\ situation \in Situations
  /\ head \in 0 .. MaxBlock
  /\ block \in [Transfers -> 0 .. MaxBlock]
  /\ rows \in [Keys -> Status]
  /\ times \in [Transfers -> Nat]
  /\ cursor \in -1 .. head
  /\ run \in [Runs -> [pc : {"idle", "listing", "ingesting"},
                       latest : 0 .. MaxBlock, page : SUBSET Transfers]]
  /\ notices \in [Transfers -> 0 .. MaxNotices]
  /\ faults \in 0 .. MaxFaults
  /\ lost \subseteq Transfers

(***************************************************************************)
(* "Webhook and reconciliation both call ingestCreditDeposit with the same  *)
(* deposit identity", and where they do not: a transfer is credited at most *)
(* once, however often it is delivered, by whom, and in which order.  With  *)
(* different identities it takes a second confirmation to tell them apart:  *)
(* only the poller ever finds one.                                          *)
(***************************************************************************)
CreditedOnce == \A t \in Transfers : times[t] <= 1

(***************************************************************************)
(* "If confirmation count is unknown, watcher must not invent a fully       *)
(* confirmed state": nothing is confirmed, parked or credited before the    *)
(* chain has grown by the confirmations its asset requires.                 *)
(***************************************************************************)
NeverEarly ==
  \A k \in Keys : rows[k] \in {"confirmed", "below_minimum", "credited"} =>
    block[k[1]] # 0 /\ head - block[k[1]] + 1 >= situation.required

(***************************************************************************)
(* Deposits that together reach the minimum top-up are not left parked,     *)
(* whatever the order in which they were confirmed, demoted and repeated.   *)
(***************************************************************************)
Parked == {k \in Keys : rows[k] = "below_minimum"}

ParkedBelowMinimum == Parked # {} => Worth(Parked) < MinTopUp

(***************************************************************************)
(* Every transfer of a registered user counts in the end, by the poller     *)
(* alone, although a run may list it before it has its confirmations, runs  *)
(* overlap, the process dies and the cursor is lost: unless a list or a     *)
(* transaction failed, the list was cut, the sender was unknown, or a late  *)
(* webhook set the deposit back.                                            *)
(***************************************************************************)
Counts(t) == \E s \in Sources : rows[KeyOf(t, s)] \in {"below_minimum", "credited"}

EveryDepositCounts ==
  <>[](\A t \in Transfers : block[t] # 0 => Counts(t) \/ t \in lost)
=============================================================================
