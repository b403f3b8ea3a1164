------------------------ MODULE DepositWatcherProofs ------------------------
(***************************************************************************)
(* The safety of the deposit watcher for any transfers, amounts, minimum,   *)
(* overlap, page size and number of runs under way.                         *)
(*                                                                          *)
(* What a run knows is older than the chain, never newer (RunsAreBehind):   *)
(* that bounds the confirmations it can count.  A transfer has been         *)
(* credited as often as the row of the poller's identity says, and the      *)
(* webhook's own row, where it has one, is never confirmed                  *)
(* (CreditsFollowRows).                                                     *)
(***************************************************************************)
EXTENDS DepositWatcher, SumTheorems

PollerKey(t)  == <<t, "reconcile">>
WebhookKey(t) == <<t, "webhook">>

\* Two deliveries of a transfer have one identity, or the number of
\* confirmations tells them apart.
IdentitiesSettled == \A s \in Situations : s.sameIdentity \/ s.required > 1

Settled == {"confirmed", "below_minimum", "credited"}

RunsAreBehind ==
  /\ \A t \in Transfers : block[t] <= head
  /\ \A p \in Runs :
       /\ run[p].latest <= head
       /\ \A t \in run[p].page : block[t] # 0 /\ block[t] <= run[p].latest

IInv == TypeOK /\ RunsAreBehind /\ NeverEarly

CreditsFollowRows ==
  \A t \in Transfers :
    /\ times[t] = IF rows[PollerKey(t)] = "credited" THEN 1 ELSE 0
    /\ rows[WebhookKey(t)] \in {"absent", "confirming"}
-----------------------------------------------------------------------------
\* The rows of one transfer are at most two.
LEMMA KeysOfTransfer ==
  ASSUME NEW K \in SUBSET Keys, NEW t, \A c \in K : c[1] = t
  PROVE  IsFiniteSet(K) /\ Cardinality(K) \in Nat
<1>1. K \in SUBSET ({PollerKey(t)} \union {WebhookKey(t)})
  BY DEF Keys, Sources, PollerKey, WebhookKey
<1>2. IsFiniteSet({PollerKey(t)} \union {WebhookKey(t)})
  BY FS_Singleton, FS_Union
<1> QED
  BY <1>1, <1>2, FS_Subset, FS_CardinalityType

\* A key names the transfer of its delivery.
LEMMA KeyOfType ==
  ASSUME NEW t \in Transfers, NEW source \in Sources
  PROVE  KeyOf(t, source) \in Keys /\ KeyOf(t, source)[1] = t
  BY DEF KeyOf, Keys, Sources

\* ingestCreditDeposit keeps its types, and settles no row of its own but the
\* one whose confirmations it was given.
LEMMA IngestRows ==
  ASSUME TypeOK, NEW k \in Keys, NEW n \in Nat, IngestCreditDeposit(k, n)
  PROVE  /\ rows' \in [Keys -> Status] /\ times' \in [Transfers -> Nat]
         /\ \A c \in Keys : rows'[c] \in Settled =>
              rows[c] \in Settled \/ (c = k /\ n >= situation.required)
<1> DEFINE recorded == Record(k, n)
           pool == Pool(recorded)
           status == IF Worth(pool) < MinTopUp THEN "below_minimum" ELSE "credited"
           credited == {t \in Transfers : status = "credited" /\ \E c \in pool : c[1] = t}
           paid(t) == {c \in pool : t \in credited /\ c[1] = t}
<1>1. /\ recorded \in [Keys -> Status]
      /\ \A c \in Keys : recorded[c] \in Settled =>
           rows[c] \in Settled \/ (c = k /\ n >= situation.required)
  BY DEF TypeOK, Record, Status, Settled
<1>2. pool \in SUBSET Keys /\ \A c \in pool : recorded[c] \in Settled
  BY DEF Pool, Settled
<1>3. status \in Settled /\ status \in Status
  BY DEF Settled, Status
<1>4. \A t \in Transfers : Cardinality(paid(t)) \in Nat
  BY <1>2, KeysOfTransfer
<1>5. CASE recorded[k] = "confirmed"
  <2>1. /\ rows' = [c \in Keys |-> IF c \in pool THEN status ELSE recorded[c]]
        /\ times' = [t \in Transfers |-> times[t] + Cardinality(paid(t))]
    BY <1>5 DEF IngestCreditDeposit
  <2> HIDE DEF recorded, pool, status, paid
  <2>2. rows' \in [Keys -> Status]
    BY <1>1, <1>3, <2>1
  <2>3. times' \in [Transfers -> Nat]
    BY <1>4, <2>1 DEF TypeOK
  <2> QED
    BY <1>1, <1>2, <2>1, <2>2, <2>3
<1>6. CASE recorded[k] # "confirmed"
  <2>1. rows' = recorded /\ times' = times
    BY <1>6 DEF IngestCreditDeposit
  <2> QED
    BY <1>1, <2>1 DEF TypeOK
<1> QED
  BY <1>5, <1>6

\* One delivery: types, and nothing settled too early, if its confirmations
\* are confirmations of the chain.
LEMMA DeliveryStep ==
  ASSUME IInv, NEW t \in Transfers, NEW source \in Sources, NEW n \in Nat,
         ProcessDepositActivity(t, source, n), UNCHANGED <<situation, head, block>>,
         block[t] # 0, n <= head - block[t] + 1
  PROVE  /\ rows' \in [Keys -> Status] /\ times' \in [Transfers -> Nat]
         /\ lost' \subseteq Transfers /\ NeverEarly'
<1> DEFINE k == KeyOf(t, source)
<1>1. k \in Keys /\ k[1] = t
  BY KeyOfType
<1>2. IngestCreditDeposit(k, n)
  BY DEF ProcessDepositActivity
<1>3. /\ rows' \in [Keys -> Status] /\ times' \in [Transfers -> Nat]
      /\ \A c \in Keys : rows'[c] \in Settled =>
           rows[c] \in Settled \/ (c = k /\ n >= situation.required)
  BY <1>1, <1>2, IngestRows DEF IInv
<1>4. situation.required \in Nat /\ head \in Nat /\ block[t] \in Nat
  BY DepositWatcherAssumption DEF IInv, TypeOK
<1>5. NeverEarly'
  <2> SUFFICES ASSUME NEW c \in Keys, rows'[c] \in Settled
               PROVE  block[c[1]] # 0 /\ head - block[c[1]] + 1 >= situation.required
    BY DEF NeverEarly, Settled
  <2>1. CASE rows[c] \in Settled
    BY <2>1 DEF IInv, NeverEarly, Settled
  <2>2. CASE c = k /\ n >= situation.required
    BY <1>1, <1>4, <2>2
  <2> QED
    BY <1>3, <2>1, <2>2
<1>6. lost' \subseteq Transfers
  BY DEF ProcessDepositActivity, IInv, TypeOK
<1> QED
  BY <1>3, <1>5, <1>6
-----------------------------------------------------------------------------
LEMMA InitIInv == Init => IInv
<1> SUFFICES ASSUME Init PROVE IInv
  OBVIOUS
<1>1. TypeOK
  BY DepositWatcherAssumption DEF Init, TypeOK, Status, Idle
<1>2. RunsAreBehind /\ NeverEarly
  BY DEF Init, RunsAreBehind, NeverEarly, Idle, Keys
<1> QED
  BY <1>1, <1>2 DEF IInv

\* The chain grows: what was early enough stays so.
LEMMA MineStep == ASSUME IInv, Mine PROVE IInv'
<1>1. TypeOK'
  BY DepositWatcherAssumption DEF IInv, Mine, TypeOK
<1>2. RunsAreBehind'
  BY DepositWatcherAssumption DEF IInv, Mine, TypeOK, RunsAreBehind
<1>3. NeverEarly'
  BY DepositWatcherAssumption DEF IInv, Mine, TypeOK, NeverEarly, Keys
<1> QED
  BY <1>1, <1>2, <1>3 DEF IInv

\* A webhook counts at most the block the transfer is in.
LEMMA WebhookStep == ASSUME IInv, NEW t \in Transfers, ProcessWebhook(t) PROVE IInv'
<1>1. PICK n \in WebhookConfirmations : ProcessDepositActivity(t, "webhook", n)
  BY DEF ProcessWebhook
<1>2. n \in Nat /\ block[t] # 0 /\ n <= head - block[t] + 1
  BY DepositWatcherAssumption
     DEF WebhookConfirmations, ProcessWebhook, IInv, TypeOK, RunsAreBehind
<1>3. /\ rows' \in [Keys -> Status] /\ times' \in [Transfers -> Nat]
      /\ lost' \subseteq Transfers /\ NeverEarly'
  BY <1>1, <1>2, DeliveryStep DEF ProcessWebhook, Sources
<1>4. notices' \in [Transfers -> 0 .. MaxNotices]
  BY DepositWatcherAssumption DEF ProcessWebhook, IInv, TypeOK
<1> QED
  BY <1>3, <1>4 DEF ProcessWebhook, IInv, TypeOK, RunsAreBehind

\* A run ingests what it has listed, and counts up to the block it has read.
LEMMA IngestStep ==
  ASSUME IInv, NEW p \in Runs, NEW t \in Transfers, IngestTransfer(p, t)
  PROVE  IInv'
<1> DEFINE n == ConfirmationsAt(t, run[p].latest)
<1>1. t \in run[p].page /\ run' = [run EXCEPT ![p].page = @ \ {t}]
  BY DEF IngestTransfer, NextTransfer
<1>2. n \in Nat /\ block[t] # 0 /\ n <= head - block[t] + 1
  BY <1>1, DepositWatcherAssumption DEF ConfirmationsAt, IInv, TypeOK, RunsAreBehind
<1>3. ProcessDepositActivity(t, "reconcile", n) /\ UNCHANGED <<situation, head, block, notices, cursor, faults>>
  BY DEF IngestTransfer, KeepChain
<1>4. /\ rows' \in [Keys -> Status] /\ times' \in [Transfers -> Nat]
      /\ lost' \subseteq Transfers /\ NeverEarly'
  BY <1>2, <1>3, DeliveryStep DEF Sources
<1>5. TypeOK'
  BY <1>1, <1>3, <1>4 DEF IInv, TypeOK
<1>6. RunsAreBehind'
  BY <1>1, <1>3 DEF IInv, TypeOK, RunsAreBehind
<1> QED
  BY <1>4, <1>5, <1>6 DEF IInv

\* What one run knows may be replaced by anything that is not newer than the
\* chain.
RunBehind(r) ==
  /\ r \in [pc : {"idle", "listing", "ingesting"}, latest : 0 .. MaxBlock,
            page : SUBSET Transfers]
  /\ r.latest <= head /\ \A t \in r.page : block[t] # 0 /\ block[t] <= r.latest

LEMMA NewRunIsBehind ==
  ASSUME IInv, NEW p \in Runs, NEW r, RunBehind(r), run' = [run EXCEPT ![p] = r]
  PROVE  /\ run' \in [Runs -> [pc : {"idle", "listing", "ingesting"},
                               latest : 0 .. MaxBlock, page : SUBSET Transfers]]
         /\ \A q \in Runs : /\ run'[q].latest <= head
                            /\ \A t \in run'[q].page :
                                 block[t] # 0 /\ block[t] <= run'[q].latest
  BY DEF IInv, TypeOK, RunsAreBehind, RunBehind

\* A run that has listed a page of transfers within its range is not ahead.
LEMMA ListedIsBehind ==
  ASSUME IInv, NEW p \in Runs, NEW page \in SUBSET Transfers,
         \A t \in page : block[t] # 0 /\ block[t] <= run[p].latest,
         run' = [run EXCEPT ![p] = [run[p] EXCEPT !.pc = "ingesting", !.page = page]]
  PROVE  /\ run' \in [Runs -> [pc : {"idle", "listing", "ingesting"},
                               latest : 0 .. MaxBlock, page : SUBSET Transfers]]
         /\ \A q \in Runs : /\ run'[q].latest <= head
                            /\ \A t \in run'[q].page :
                                 block[t] # 0 /\ block[t] <= run'[q].latest
<1> DEFINE r == [run[p] EXCEPT !.pc = "ingesting", !.page = page]
<1>1. run[p] \in [pc : {"idle", "listing", "ingesting"}, latest : 0 .. MaxBlock,
                  page : SUBSET Transfers]
  BY DEF IInv, TypeOK
<1>2. run[p].latest <= head
  BY DEF IInv, RunsAreBehind
<1>3. RunBehind(r)
  BY <1>1, <1>2 DEF RunBehind
<1> HIDE DEF r
<1> QED
  BY <1>3, NewRunIsBehind DEF r

LEMMA IdleIsBehind ==
  ASSUME IInv
  PROVE  RunBehind(Idle)
  BY DepositWatcherAssumption DEF IInv, TypeOK, RunBehind, Idle

LEMMA CrashStep ==
  ASSUME IInv, Crash
  PROVE  IInv'
<1> USE DepositWatcherAssumption DEF Crash, KeepChain, IInv
<1>1. faults' \in 0 .. MaxFaults
  BY DEF TypeOK
<1>2. /\ run' \in [Runs -> [pc : {"idle", "listing", "ingesting"},
                           latest : 0 .. MaxBlock, page : SUBSET Transfers]]
      /\ \A q \in Runs : run'[q].latest <= head /\ run'[q].page = {}
  BY IdleIsBehind DEF RunBehind, Idle
<1> QED
  BY <1>1, <1>2 DEF TypeOK, RunsAreBehind, NeverEarly

\* The other steps of the runs leave the rows alone.
LEMMA RunStep ==
  ASSUME IInv, NEW p \in Runs,
         \/ ReadLatestBlock(p) \/ ListTransfers(p) \/ MoveCursor(p)
         \/ ListNothing(p) \/ MoveCursorFails(p)
         \/ \E t \in Transfers : IngestTransferFails(p, t)
  PROVE  IInv'
<1> USE DepositWatcherAssumption DEF IInv, KeepChain
<1>1. UNCHANGED <<situation, head, block, notices, rows, times>>
  BY DEF ReadLatestBlock, ListTransfers, MoveCursor, ListNothing, MoveCursorFails,
         IngestTransferFails
<1>2. NeverEarly'
  BY <1>1 DEF NeverEarly
<1>3. /\ lost' \subseteq Transfers /\ faults' \in 0 .. MaxFaults /\ cursor' \in -1 .. head
  <2>1. lost' \subseteq Transfers
    BY DEF TypeOK, ReadLatestBlock, ListTransfers, InRange, MoveCursor, ListNothing,
           MoveCursorFails, IngestTransferFails
  <2>2. faults' \in 0 .. MaxFaults
    BY DEF TypeOK, ReadLatestBlock, ListTransfers, MoveCursor, ListNothing,
           MoveCursorFails, IngestTransferFails
  <2>3. cursor' \in -1 .. head
    BY DEF TypeOK, RunsAreBehind, ReadLatestBlock, ListTransfers, MoveCursor, ListNothing,
           MoveCursorFails, IngestTransferFails
  <2> QED
    BY <2>1, <2>2, <2>3
<1>4. /\ run' \in [Runs -> [pc : {"idle", "listing", "ingesting"},
                            latest : 0 .. MaxBlock, page : SUBSET Transfers]]
      /\ \A q \in Runs : /\ run'[q].latest <= head
                         /\ \A t \in run'[q].page : block[t] # 0 /\ block[t] <= run'[q].latest
  <2>1. CASE ReadLatestBlock(p)
    <3> DEFINE r == [pc |-> "listing", latest |-> head, page |-> {}]
    <3>1. run' = [run EXCEPT ![p] = r]
      BY <2>1 DEF ReadLatestBlock
    <3>2. RunBehind(r)
      BY DEF TypeOK, RunBehind
    <3> HIDE DEF r
    <3> QED
      BY <3>1, <3>2, NewRunIsBehind
  <2>2. CASE ListTransfers(p)
    <3> DEFINE page == FirstPage(InRange(run[p].latest))
    <3>1. page \in SUBSET Transfers /\ \A t \in page : block[t] # 0 /\ block[t] <= run[p].latest
      BY DEF FirstPage, InRange, FromBlock, Max0, TypeOK
    <3>2. run' = [run EXCEPT ![p] = [run[p] EXCEPT !.pc = "ingesting", !.page = page]]
      BY <2>2 DEF ListTransfers
    <3> QED
      BY <3>1, <3>2, ListedIsBehind
  <2>3. CASE ListNothing(p)
    <3> DEFINE page == {}
    <3>1. run' = [run EXCEPT ![p] = [run[p] EXCEPT !.pc = "ingesting", !.page = page]]
      BY <2>3 DEF ListNothing
    <3>2. page \in SUBSET Transfers /\ \A t \in page : block[t] # 0 /\ block[t] <= run[p].latest
      OBVIOUS
    <3> HIDE DEF page
    <3> QED
      BY <3>1, <3>2, ListedIsBehind
  <2>4. CASE \E t \in Transfers : IngestTransferFails(p, t)
    BY <2>4 DEF IngestTransferFails, NextTransfer, TypeOK, RunsAreBehind
  <2>5. CASE MoveCursor(p) \/ MoveCursorFails(p)
    BY <2>5, IdleIsBehind, NewRunIsBehind DEF MoveCursor, MoveCursorFails, EndsRun
  <2> QED
    BY <2>1, <2>2, <2>3, <2>4, <2>5
<1>5. TypeOK' /\ RunsAreBehind'
  BY <1>1, <1>3, <1>4 DEF TypeOK, RunsAreBehind
<1> QED
  BY <1>2, <1>5

LEMMA NextIInv == IInv /\ [Next]_vars => IInv'
<1> SUFFICES ASSUME IInv, [Next]_vars PROVE IInv'
  OBVIOUS
<1>1. CASE Mine
  BY <1>1, MineStep
<1>2. CASE \E t \in Transfers : ProcessWebhook(t)
  BY <1>2, WebhookStep
<1>3. CASE \E p \in Runs, t \in Transfers : IngestTransfer(p, t)
  BY <1>3, IngestStep
<1>4. CASE \E p \in Runs : \/ ReadLatestBlock(p) \/ ListTransfers(p) \/ MoveCursor(p)
                           \/ ListNothing(p) \/ MoveCursorFails(p)
                           \/ \E t \in Transfers : IngestTransferFails(p, t)
  BY <1>4, RunStep
<1>5. CASE Crash
  BY <1>5, CrashStep
<1>6. CASE UNCHANGED vars
  BY <1>6 DEF vars, IInv, TypeOK, RunsAreBehind, NeverEarly
<1> QED
  BY <1>1, <1>2, <1>3, <1>4, <1>5, <1>6 DEF Next, Reconcile, Fault

LEMMA Invariance == Spec => []IInv
  BY InitIInv, NextIInv, PTL DEF Spec

\* Types; in particular the cursor never runs ahead of the chain, however
\* runs overlap and crash (runCreditDepositReconciliation).
THEOREM TypesHold == Spec => []TypeOK
<1>1. IInv => TypeOK
  BY DEF IInv
<1> QED
  BY <1>1, Invariance, PTL

\* No deposit is confirmed, parked or credited before the chain has grown by
\* the confirmations its asset requires (resolveDepositConfirmations), for
\* any overlap of runs and webhooks.
THEOREM NothingIsEarly == Spec => []NeverEarly
<1>1. IInv => NeverEarly
  BY DEF IInv
<1> QED
  BY <1>1, Invariance, PTL
-----------------------------------------------------------------------------
\* A delivery credits the transfers whose poller row becomes credited, once
\* each; a webhook of its own identity credits nothing.
LEMMA CreditStep ==
  ASSUME TypeOK, CreditsFollowRows, NEW k \in Keys, NEW n \in Nat, IngestCreditDeposit(k, n),
         k = PollerKey(k[1]) \/ ~(n >= situation.required)
  PROVE  CreditsFollowRows'
<1> DEFINE recorded == Record(k, n)
           pool == Pool(recorded)
           status == IF Worth(pool) < MinTopUp THEN "below_minimum" ELSE "credited"
           credited == {t \in Transfers : status = "credited" /\ \E c \in pool : c[1] = t}
           paid(t) == {c \in pool : t \in credited /\ c[1] = t}
<1>0. \A t \in Transfers : PollerKey(t) \in Keys /\ WebhookKey(t) \in Keys
                           /\ PollerKey(t) # WebhookKey(t)
  BY DEF PollerKey, WebhookKey, Keys, Sources
<1>1. \A c \in Keys : c[1] \in Transfers /\ (c = PollerKey(c[1]) \/ c = WebhookKey(c[1]))
  BY DEF PollerKey, WebhookKey, Keys, Sources
<1>2. /\ \A c \in Keys : recorded[c] = "credited" <=> rows[c] = "credited"
      /\ \A c \in Keys : c # k => recorded[c] = rows[c]
      /\ recorded[k] = "confirmed" => n >= situation.required
  BY DEF TypeOK, Record
<1>3. \A t \in Transfers : recorded[WebhookKey(t)] \in {"absent", "confirming"}
  <2> SUFFICES ASSUME NEW t \in Transfers
               PROVE  recorded[WebhookKey(t)] \in {"absent", "confirming"}
    OBVIOUS
  <2>1. CASE k = WebhookKey(t)
    <3>1. ~(n >= situation.required)
      BY <2>1 DEF PollerKey, WebhookKey
    <3> QED
      BY <2>1, <3>1, <1>0 DEF Record, TypeOK, CreditsFollowRows
  <2>2. CASE k # WebhookKey(t)
    BY <2>2, <1>0, <1>2 DEF CreditsFollowRows
  <2> QED
    BY <2>1, <2>2
<1>4. \A c \in pool : c \in Keys /\ recorded[c] # "credited" /\ c = PollerKey(c[1])
  BY <1>1, <1>3 DEF Pool
<1>5. CASE recorded[k] = "confirmed"
  <2>1. /\ rows' = [c \in Keys |-> IF c \in pool THEN status ELSE recorded[c]]
        /\ times' = [t \in Transfers |-> times[t] + Cardinality(paid(t))]
    BY <1>5 DEF IngestCreditDeposit
  <2> SUFFICES ASSUME NEW t \in Transfers
               PROVE  /\ times'[t] = IF rows'[PollerKey(t)] = "credited" THEN 1 ELSE 0
                      /\ rows'[WebhookKey(t)] \in {"absent", "confirming"}
    BY DEF CreditsFollowRows
  <2>2. rows'[WebhookKey(t)] \in {"absent", "confirming"}
    BY <1>0, <1>3, <2>1 DEF Pool
  <2>3. CASE status = "credited" /\ PollerKey(t) \in pool
    <3>1. paid(t) = {PollerKey(t)}
      BY <1>4, <2>3 DEF PollerKey
    <3>2. Cardinality(paid(t)) = 1
      BY <3>1, FS_Singleton
    <3>3. times[t] = 0
      BY <1>2, <1>4, <1>0, <2>3 DEF CreditsFollowRows
    <3>4. rows'[PollerKey(t)] = "credited"
      BY <1>0, <2>1, <2>3
    <3>5. times'[t] = times[t] + Cardinality(paid(t))
      BY <2>1
    <3> HIDE DEF paid
    <3> QED
      BY <2>2, <3>2, <3>3, <3>4, <3>5
  <2>4. CASE ~(status = "credited" /\ PollerKey(t) \in pool)
    <3>1. paid(t) = {}
      BY <1>4, <2>4
    <3>2. Cardinality(paid(t)) = 0
      BY <3>1, FS_EmptySet
    <3>3. rows'[PollerKey(t)] = "credited" <=> rows[PollerKey(t)] = "credited"
      BY <1>0, <1>2, <1>4, <2>1, <2>4
    <3>4. times'[t] = times[t] + Cardinality(paid(t))
      BY <2>1
    <3> HIDE DEF paid
    <3> QED
      BY <2>2, <3>2, <3>3, <3>4 DEF CreditsFollowRows
  <2> QED
    BY <2>3, <2>4
<1>6. CASE recorded[k] # "confirmed"
  <2>1. rows' = recorded /\ times' = times
    BY <1>6 DEF IngestCreditDeposit
  <2> HIDE DEF recorded
  <2> QED
    BY <1>0, <1>2, <1>3, <2>1 DEF CreditsFollowRows
<1> QED
  BY <1>5, <1>6

LEMMA CreditsNext ==
  ASSUME IdentitiesSettled, TypeOK, CreditsFollowRows, [Next]_vars
  PROVE  CreditsFollowRows'
<1>1. situation.sameIdentity \/ situation.required > 1
  BY DEF IdentitiesSettled, TypeOK
<1>2. ASSUME NEW t \in Transfers, ProcessWebhook(t) PROVE CreditsFollowRows'
  <2>1. PICK n \in WebhookConfirmations : IngestCreditDeposit(KeyOf(t, "webhook"), n)
    BY <1>2 DEF ProcessWebhook, ProcessDepositActivity
  <2>2. KeyOf(t, "webhook") \in Keys /\ KeyOf(t, "webhook")[1] = t
    BY KeyOfType DEF Sources
  <2>3. n \in Nat /\ n <= 1
    BY DEF WebhookConfirmations
  <2>4. KeyOf(t, "webhook") = PollerKey(t) \/ ~(n >= situation.required)
    BY <1>1, <2>3, DepositWatcherAssumption DEF KeyOf, PollerKey, TypeOK
  <2> QED
    BY <2>1, <2>2, <2>3, <2>4, CreditStep
<1>3. ASSUME NEW p \in Runs, NEW t \in Transfers, IngestTransfer(p, t) PROVE CreditsFollowRows'
  <2> DEFINE n == ConfirmationsAt(t, run[p].latest)
  <2>1. IngestCreditDeposit(KeyOf(t, "reconcile"), n)
    BY <1>3 DEF IngestTransfer, ProcessDepositActivity
  <2>2. KeyOf(t, "reconcile") \in Keys /\ KeyOf(t, "reconcile") = PollerKey(t)
        /\ KeyOf(t, "reconcile")[1] = t
    BY KeyOfType DEF Sources, KeyOf, PollerKey
  <2>3. n \in Nat
    BY <1>3, DepositWatcherAssumption DEF ConfirmationsAt, TypeOK
  <2> QED
    BY <2>1, <2>2, <2>3, CreditStep
<1>4. CASE UNCHANGED <<rows, times>>
  BY <1>4 DEF CreditsFollowRows
<1>5. CASE Next
  BY <1>2, <1>3, <1>4, <1>5
     DEF Next, Reconcile, Fault, Mine, ReadLatestBlock, ListTransfers, MoveCursor, ListNothing,
         MoveCursorFails, IngestTransferFails, Crash, KeepChain
<1>6. CASE UNCHANGED vars
  BY <1>4, <1>6 DEF vars
<1> QED
  BY <1>5, <1>6

\* A transfer is credited at most once, however often, by whom and in which
\* order it is delivered (ingestCreditDeposit with stableLogIndex), provided
\* that both sources compute one identity or a second confirmation tells
\* them apart.
THEOREM TransfersAreCreditedOnce ==
  ASSUME IdentitiesSettled
  PROVE  Spec => []CreditedOnce
<1>1. Init => CreditsFollowRows
  BY DEF Init, CreditsFollowRows, PollerKey, WebhookKey, Keys, Sources
<1>2. TypeOK /\ CreditsFollowRows /\ [Next]_vars => CreditsFollowRows'
  BY IdentitiesSettled, CreditsNext
<1>3. CreditsFollowRows => CreditedOnce
  BY DEF CreditsFollowRows, CreditedOnce
<1> QED
  BY <1>1, <1>2, <1>3, TypesHold, PTL DEF Spec
-----------------------------------------------------------------------------
\* There are finitely many rows, two for a transfer.
LEMMA KeysFinite == IsFiniteSet(Keys)
<1>1. IsFiniteSet({"webhook"} \union {"reconcile"})
  BY FS_Singleton, FS_Union
<1>2. Sources = {"webhook"} \union {"reconcile"}
  BY DEF Sources
<1> QED
  BY <1>1, <1>2, DepositWatcherAssumption, FS_Product DEF Keys

\* Fewer rows are worth no more.
LEMMA WorthMonotone ==
  ASSUME NEW K \in SUBSET Keys, NEW L \in SUBSET K
  PROVE  Worth(L) \in Nat /\ Worth(K) \in Nat /\ Worth(L) <= Worth(K)
<1> DEFINE w == [k \in Keys |-> Amount[k[1]]]
<1>1. \A k \in Keys : w[k] \in Nat
  BY DepositWatcherAssumption DEF Keys
<1>2. IsFiniteSet(K) /\ IsFiniteSet(L)
  BY KeysFinite, FS_Subset
<1> HIDE DEF w
<1>3. /\ SumFunctionOnSet(w, L) \in Nat /\ SumFunctionOnSet(w, K) \in Nat
      /\ SumFunctionOnSet(w, L) <= SumFunctionOnSet(w, K)
  <2>1. \A k \in K : w[k] \in Nat
    BY <1>1
  <2>2. \A k \in L : w[k] \in Nat
    BY <1>1
  <2> QED
    BY <1>2, <2>1, <2>2, SumNat, SumMonotone
<1> QED
  BY <1>3 DEF Worth, w

\* A delivery that confirms nothing parks nothing more; one that confirms
\* pools every parked row with its own, and parks or credits them together.
LEMMA ParkStep ==
  ASSUME TypeOK, ParkedBelowMinimum, NEW k \in Keys, NEW n \in Nat,
         IngestCreditDeposit(k, n)
  PROVE  ParkedBelowMinimum'
<1> DEFINE recorded == Record(k, n)
           pool == Pool(recorded)
           status == IF Worth(pool) < MinTopUp THEN "below_minimum" ELSE "credited"
<1>1. \A c \in Keys : recorded[c] = "below_minimum" => rows[c] = "below_minimum"
  BY DEF TypeOK, Record
<1>2. CASE recorded[k] = "confirmed"
  <2>1. rows' = [c \in Keys |-> IF c \in pool THEN status ELSE recorded[c]]
    BY <1>2 DEF IngestCreditDeposit
  <2>2. /\ pool \in SUBSET Keys
        /\ \A c \in Keys : recorded[c] = "below_minimum" => c \in pool
    BY DEF Pool
  <2> HIDE DEF recorded, pool
  <2>3. CASE Worth(pool) < MinTopUp
    <3>1. Parked' = pool
      BY <2>1, <2>2, <2>3 DEF Parked
    <3>2. Worth(Parked') = Worth(pool)
      BY <3>1
    <3> QED
      BY <2>3, <3>2 DEF ParkedBelowMinimum, Worth
  <2>4. CASE ~(Worth(pool) < MinTopUp)
    <3>1. Parked' = {}
      BY <2>1, <2>2, <2>4 DEF Parked
    <3> QED
      BY <3>1 DEF ParkedBelowMinimum
  <2> QED
    BY <2>3, <2>4
<1>3. CASE recorded[k] # "confirmed"
  <2>1. rows' = recorded
    BY <1>3 DEF IngestCreditDeposit
  <2> HIDE DEF recorded
  <2>2. Parked' \in SUBSET Parked /\ Parked \in SUBSET Keys
    BY <1>1, <2>1 DEF Parked
  <2>3. Parked' # {} => Worth(Parked) < MinTopUp
    BY <2>2 DEF ParkedBelowMinimum
  <2>4. /\ Worth(Parked') \in Nat /\ Worth(Parked) \in Nat
        /\ Worth(Parked') <= Worth(Parked)
    BY <2>2, WorthMonotone
  <2>5. MinTopUp \in Nat
    BY DepositWatcherAssumption
  <2>6. Parked' # {} => Worth(Parked') < MinTopUp
    BY <2>3, <2>4, <2>5
  <2> QED
    BY <2>6 DEF ParkedBelowMinimum, Worth
<1> QED
  BY <1>2, <1>3

LEMMA ParkedNext ==
  ASSUME TypeOK, ParkedBelowMinimum, [Next]_vars
  PROVE  ParkedBelowMinimum'
<1>1. ASSUME NEW t \in Transfers, ProcessWebhook(t) PROVE ParkedBelowMinimum'
  <2>1. PICK n \in WebhookConfirmations : IngestCreditDeposit(KeyOf(t, "webhook"), n)
    BY <1>1 DEF ProcessWebhook, ProcessDepositActivity
  <2>2. KeyOf(t, "webhook") \in Keys
    BY KeyOfType DEF Sources
  <2>3. n \in Nat
    BY DEF WebhookConfirmations
  <2> QED
    BY <2>1, <2>2, <2>3, ParkStep
<1>2. ASSUME NEW p \in Runs, NEW t \in Transfers, IngestTransfer(p, t)
      PROVE  ParkedBelowMinimum'
  <2> DEFINE n == ConfirmationsAt(t, run[p].latest)
  <2>1. IngestCreditDeposit(KeyOf(t, "reconcile"), n)
    BY <1>2 DEF IngestTransfer, ProcessDepositActivity
  <2>2. KeyOf(t, "reconcile") \in Keys
    BY KeyOfType DEF Sources
  <2>3. n \in Nat
    BY <1>2, DepositWatcherAssumption DEF ConfirmationsAt, TypeOK
  <2> QED
    BY <2>1, <2>2, <2>3, ParkStep
<1>3. CASE UNCHANGED rows
  BY <1>3 DEF ParkedBelowMinimum, Parked, Worth
<1>4. CASE Next
  BY <1>1, <1>2, <1>3, <1>4
     DEF Next, Reconcile, Fault, Mine, ReadLatestBlock, ListTransfers, MoveCursor, ListNothing,
         MoveCursorFails, IngestTransferFails, Crash, KeepChain
<1>5. CASE UNCHANGED vars
  BY <1>3, <1>5 DEF vars
<1> QED
  BY <1>4, <1>5

\* Deposits that together reach the minimum top-up are never left parked
\* (ingestCreditDeposit), however many there are and in whatever order they
\* are confirmed, set back and delivered again.
THEOREM ParkedStayBelowMinimum == Spec => []ParkedBelowMinimum
<1>1. Init => ParkedBelowMinimum
  BY DEF Init, ParkedBelowMinimum, Parked
<1>2. TypeOK /\ ParkedBelowMinimum /\ [Next]_vars => ParkedBelowMinimum'
  BY ParkedNext
<1> QED
  BY <1>1, <1>2, TypesHold, PTL DEF Spec
=============================================================================
