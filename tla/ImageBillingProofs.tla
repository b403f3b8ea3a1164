------------------------- MODULE ImageBillingProofs -------------------------
(***************************************************************************)
(* The daily bucket of free images is never exceeded, for any number of     *)
(* runs, images and chat messages, and any size of the bucket: whatever     *)
(* throws, dies or overlaps, as long as the billing lock of free images is  *)
(* not lost under a live run.                                               *)
(*                                                                          *)
(* The count a run decides by is still right when it inserts its row: the   *)
(* billing lock keeps other runs from inserting (FreeLocked, OneHolder),    *)
(* and no row that is not counted comes to be counted again, since no two   *)
(* runs of one image are active at once (Alone) and a run completes only a  *)
(* row it has reserved or found reserved (RowsKnown).                       *)
(*                                                                          *)
(* By the same facts a captured image was delivered and is never released,  *)
(* and the account reserves the price of exactly the open holds (HoldsInv). *)
(* And the task is a caller of PrepaidAccount, which CreditLedger           *)
(* implements: its transactions are calls that promise allows.              *)
(***************************************************************************)
EXTENDS ImageBilling, FiniteSetTheorems, TLAPS

\* The locks that may be lost: never the free one, and the user lock only if
\* every image has one run.
OneRunPerImage(d) ==
  \A r, s \in DOMAIN d.requestOf : d.requestOf[r] = d.requestOf[s] => r = s

LocksKept ==
  \A d \in Days : /\ "free" \notin d.expiringLocks
                  /\ "user" \in d.expiringLocks => OneRunPerImage(d)

Busy == TryLabels \union {"failing", "releasing"}

Labels == Busy \union {"queued", "reporting", "ended", "dead"}

\* Between the free or credit lock and the run's own reservation.
Billing == {"checking", "reserving", "inserting"}

IsFree(r) == RequestOf[r] \in FreeRequests

Typed == /\ day \in Days
         /\ pc \in [Runs -> Labels]
         /\ row \in [Requests -> RowStatus]
         /\ locks \in [Locks -> SUBSET Runs]

Started == \A r \in Runs : pc[r] # "queued" => r \in DOMAIN RequestOf

OneHolder == \A l \in Locks : \A r, s \in locks[l] : r = s

UserLocked ==
  "user" \notin ExpiringLocks => \A r \in Runs : pc[r] \in Busy => r \in locks["user"]

FreeLocked ==
  \A r \in Runs : pc[r] \in Billing /\ IsFree(r) => r \in locks["free"]

Locked == Typed /\ Started /\ OneHolder /\ UserLocked /\ FreeLocked

RowsKnown ==
  \A r \in Runs :
    /\ pc[r] \in {"reserving", "inserting"} => row[RequestOf[r]] = "none"
    /\ pc[r] \in {"generating", "publishing", "completing"}
         => row[RequestOf[r]] \in {"reserved", "completed"}

Room == \A r \in Runs : pc[r] \in {"reserving", "inserting"} /\ IsFree(r) => FreeImagesUsed < FreeLimit

IInv == Locked /\ RowsKnown /\ Room /\ FreeBucketHolds
-----------------------------------------------------------------------------
LEMMA RequestsOfDay ==
  ASSUME Typed
  PROVE  RequestOf \in [DOMAIN RequestOf -> Requests] /\ DOMAIN RequestOf \subseteq Runs
BY ImageBillingAssumption DEF Typed, RequestOf

LEMMA Alone ==
  ASSUME LocksKept, Locked, NEW r \in Runs, NEW s \in Runs,
         pc[r] \in Busy, pc[s] \in Busy, RequestOf[r] = RequestOf[s]
  PROVE  r = s
<1>1. r \in DOMAIN RequestOf /\ s \in DOMAIN RequestOf
  BY DEF Locked, Started, Busy, TryLabels
<1>2. CASE "user" \in ExpiringLocks
  BY <1>1, <1>2 DEF LocksKept, Locked, Typed, ExpiringLocks, OneRunPerImage, RequestOf
<1>3. CASE "user" \notin ExpiringLocks
  BY <1>3 DEF Locked, UserLocked, OneHolder, Locks
<1> QED
  BY <1>2, <1>3

\* A statement that gives up some of the run's own locks.
LEMMA UnlockingKeeps ==
  ASSUME Locked, NEW r \in Runs, r \in DOMAIN RequestOf, NEW label \in Labels, label # "queued",
         Goto(r, label), row' \in [Requests -> RowStatus],
         locks' \in {locks, BillingUnlocked(r), AllUnlocked(r)},
         label \in Busy => pc[r] \in Busy /\ locks'["user"] = locks["user"],
         label \in Billing /\ IsFree(r)
           => pc[r] \in Billing /\ locks' = locks
  PROVE  Locked'
<1>1. /\ day' = day /\ RequestOf' = RequestOf /\ ExpiringLocks' = ExpiringLocks
      /\ pc' = [pc EXCEPT ![r] = label]
  BY DEF Goto, RequestOf, ExpiringLocks
<1>2. /\ locks' \in [Locks -> SUBSET Runs]
      /\ \A l \in Locks : locks'[l] \in SUBSET locks[l] /\ locks[l] \ {r} \subseteq locks'[l]
  BY DEF Locked, Typed, BillingUnlocked, AllUnlocked, Unlocked
<1>3. Typed'
  BY <1>1, <1>2 DEF Locked, Typed
<1>4. Started' /\ OneHolder'
  BY <1>1, <1>2 DEF Locked, Typed, Started, OneHolder
<1>5. label \in Busy => (r \in locks["user"] => r \in locks'["user"])
  OBVIOUS
<1>6. UserLocked'
  <2> SUFFICES ASSUME "user" \notin ExpiringLocks, NEW s \in Runs, pc'[s] \in Busy
               PROVE  s \in locks'["user"]
    BY <1>1 DEF UserLocked
  <2>1. CASE s = r
    BY <1>1, <1>5, <2>1 DEF Locked, Typed, UserLocked
  <2>2. CASE s # r
    BY <1>1, <1>2, <2>2 DEF Locked, Typed, UserLocked, Locks
  <2> QED
    BY <2>1, <2>2
<1>7. FreeLocked'
  <2> SUFFICES ASSUME NEW s \in Runs, pc'[s] \in Billing, IsFree(s)
               PROVE  s \in locks'["free"]
    BY <1>1 DEF FreeLocked, IsFree
  <2>1. CASE s = r
    BY <1>1, <2>1 DEF Locked, Typed, FreeLocked
  <2>2. CASE s # r
    BY <1>1, <1>2, <2>2 DEF Locked, Typed, FreeLocked, Locks
  <2> QED
    BY <2>1, <2>2
<1> QED
  BY <1>3, <1>4, <1>6, <1>7 DEF Locked

\* A lock is taken that nobody has.
LEMMA AcquiringKeeps ==
  ASSUME Locked, NEW r \in Runs, r \in DOMAIN RequestOf, NEW label \in Labels, label # "queued",
         NEW l \in Locks, Goto(r, label), Acquire(r, l), row' = row,
         label \in Busy => pc[r] \in Busy \/ l = "user",
         label \in Billing /\ IsFree(r) => l = "free"
  PROVE  Locked'
<1>1. /\ day' = day /\ RequestOf' = RequestOf /\ ExpiringLocks' = ExpiringLocks
      /\ pc' = [pc EXCEPT ![r] = label]
  BY DEF Goto, RequestOf, ExpiringLocks
<1>2. locks' = [locks EXCEPT ![l] = {r}] /\ locks[l] = {}
  BY DEF Acquire
<1>3. Typed' /\ Started' /\ OneHolder'
  BY <1>1, <1>2 DEF Locked, Typed, Started, OneHolder
<1>4. UserLocked'
  BY <1>1, <1>2 DEF Locked, Typed, UserLocked, Locks
<1>5. FreeLocked'
  BY <1>1, <1>2 DEF Locked, Typed, FreeLocked, IsFree, Locks
<1> QED
  BY <1>3, <1>4, <1>5 DEF Locked

\* The billing locks do not include the user's.
LEMMA BillingKeepsUserLock ==
  ASSUME Typed, NEW r \in Runs
  PROVE  BillingUnlocked(r)["user"] = locks["user"]
BY DEF Typed, BillingUnlocked, Unlocked, Locks

LEMMA CatchKeepsLocks ==
  ASSUME Locked, NEW r \in Runs, pc[r] \in TryLabels, Catch(r)
  PROVE  Locked'
<1>1. r \in DOMAIN RequestOf
  BY DEF Locked, Started, TryLabels
<1>2. Goto(r, "failing") /\ locks' = BillingUnlocked(r) /\ row' = row
  BY DEF Catch
<1>3. "failing" \in Labels \ Billing /\ pc[r] \in Busy
  BY DEF Labels, Busy, Billing
<1>4. row' \in [Requests -> RowStatus] /\ locks'["user"] = locks["user"]
  BY <1>2, BillingKeepsUserLock DEF Locked, Typed
<1> QED
  BY <1>1, <1>2, <1>3, <1>4, UnlockingKeeps

\* The run goes on, its locks as they are.
LEMMA GoingOnKeepsLocks ==
  ASSUME Locked, NEW r \in Runs, pc[r] # "queued", NEW label \in Labels, label # "queued",
         Goto(r, label), row' \in [Requests -> RowStatus], locks' = locks,
         label \in Busy => pc[r] \in Busy,
         label \in Billing /\ IsFree(r) => pc[r] \in Billing
  PROVE  Locked'
<1>1. r \in DOMAIN RequestOf
  BY DEF Locked, Started
<1> QED
  BY <1>1, UnlockingKeeps

\* The run ends, or only reports: no lock matters to it any more.
LEMMA LeavingKeepsLocks ==
  ASSUME Locked, NEW r \in Runs, pc[r] # "queued", NEW label \in {"reporting", "ended", "dead"},
         Goto(r, label), row' \in [Requests -> RowStatus], locks' \in {locks, AllUnlocked(r)}
  PROVE  Locked'
<1>1. r \in DOMAIN RequestOf
  BY DEF Locked, Started
<1>2. label \in Labels /\ label \notin Busy /\ label \notin Billing \union {"queued"}
  BY DEF Labels, Busy, TryLabels, Billing
<1> QED
  BY <1>1, <1>2, UnlockingKeeps

\* The run starts to generate, under the row it has found or inserted.
LEMMA GeneratingKeepsLocks ==
  ASSUME Locked, NEW r \in Runs, pc[r] \in Busy, Goto(r, "generating"),
         row' \in [Requests -> RowStatus], locks' = BillingUnlocked(r)
  PROVE  Locked'
<1>1. r \in DOMAIN RequestOf
  BY DEF Locked, Started, Busy, TryLabels
<1>2. "generating" \in Labels \ Billing
  BY DEF Labels, Busy, TryLabels, Billing
<1>3. locks'["user"] = locks["user"]
  BY BillingKeepsUserLock DEF Locked
<1> QED
  BY <1>1, <1>2, <1>3, UnlockingKeeps

LEMMA ReservingKeepsLocks ==
  ASSUME Locked, NEW r \in Runs, Reserving(r)
  PROVE  Locked'
<1> USE DEF Labels, Busy, TryLabels, Billing
<1>1. row \in [Requests -> RowStatus]
  BY DEF Locked, Typed
<1>2. ASSUME NEW status, Reuse(r, status), row' = row, pc[r] \in {"finding", "checking"}
      PROVE  Locked'
  <2>1. CASE Goto(r, "generating") /\ locks' = BillingUnlocked(r)
    BY <1>1, <1>2, <2>1, GeneratingKeepsLocks
  <2>2. CASE Refuse(r)
    BY <1>1, <1>2, <2>2, LeavingKeepsLocks DEF Refuse
  <2> QED
    BY <1>2, <2>1, <2>2 DEF Reuse
<1>3. CASE FindReservation(r)
  BY <1>1, <1>2, <1>3, GoingOnKeepsLocks DEF FindReservation
<1>4. CASE AcquireBillingLock(r)
  <2>1. QuotaOf(RequestOf[r]) \in Locks /\ (IsFree(r) => QuotaOf(RequestOf[r]) = "free")
    BY DEF QuotaOf, Locks, IsFree
  <2>2. r \in DOMAIN RequestOf
    BY <1>4 DEF AcquireBillingLock, Locked, Started
  <2> QED
    BY <1>4, <2>1, <2>2, AcquiringKeeps DEF AcquireBillingLock
<1>5. CASE RefuseBusyQuota(r)
  BY <1>5, CatchKeepsLocks DEF RefuseBusyQuota
<1>6. CASE CheckAllowance(r)
  <2>1. CASE Reuse(r, row[RequestOf[r]])
    BY <1>2, <1>6, <2>1 DEF CheckAllowance
  <2>2. CASE Refuse(r)
    BY <1>1, <1>6, <2>2, LeavingKeepsLocks DEF CheckAllowance, Refuse
  <2>3. CASE Goto(r, IF IsFree(r) THEN "inserting" ELSE "reserving") /\ locks' = locks
    BY <1>1, <1>6, <2>3, GoingOnKeepsLocks DEF CheckAllowance
  <2> QED
    BY <1>6, <2>1, <2>2, <2>3 DEF CheckAllowance, IsFree
<1>7. CASE ReserveCredits(r)
  <2>1. CASE Catch(r)
    BY <1>7, <2>1, CatchKeepsLocks DEF ReserveCredits
  <2>2. CASE Goto(r, "inserting") /\ locks' = locks /\ row' = row
    BY <1>1, <1>7, <2>2, GoingOnKeepsLocks DEF ReserveCredits, Billing
  <2> QED
    BY <1>7, <2>1, <2>2 DEF ReserveCredits
<1>8. CASE InsertReservationRow(r)
  <2>1. row' \in [Requests -> RowStatus]
    BY <1>1, <1>8 DEF InsertReservationRow, RowStatus
  <2> QED
    BY <1>8, <2>1, GeneratingKeepsLocks DEF InsertReservationRow
<1> QED
  BY <1>3, <1>4, <1>5, <1>6, <1>7, <1>8 DEF Reserving

LEMMA GeneratingStepsKeepLocks ==
  ASSUME Locked, NEW r \in Runs, Generating(r) \/ Failing(r) \/ StartTask(r)
  PROVE  Locked'
<1> USE DEF Labels, Busy, TryLabels, Billing
<1>1. row \in [Requests -> RowStatus]
  BY DEF Locked, Typed
<1>2. CASE StartTask(r) \/ GenerateImage(r) \/ PublishImage(r)
  BY <1>1, <1>2, GoingOnKeepsLocks DEF StartTask, GenerateImage, PublishImage
<1>3. CASE MarkCompleted(r)
  <2>1. row' \in [Requests -> RowStatus]
    BY <1>1, <1>3 DEF MarkCompleted, UpdateRow, RowStatus
  <2> QED
    BY <1>3, <2>1, GoingOnKeepsLocks DEF MarkCompleted
<1>4. CASE CaptureCredits(r)
  <2>1. CASE Catch(r)
    BY <1>4, <2>1, CatchKeepsLocks DEF CaptureCredits
  <2>2. CASE Goto(r, "finishing") /\ locks' = locks /\ row' = row
    BY <1>1, <1>4, <2>2, GoingOnKeepsLocks DEF CaptureCredits
  <2> QED
    BY <1>4, <2>1, <2>2 DEF CaptureCredits
<1>5. CASE FinishTask(r) \/ ReportFailure(r)
  BY <1>1, <1>5, LeavingKeepsLocks DEF FinishTask, ReportFailure
<1>6. CASE MarkFailed(r)
  <2>1. row' \in [Requests -> RowStatus]
    BY <1>1, <1>6 DEF MarkFailed, UpdateRow, RowStatus
  <2>2. CASE Goto(r, "releasing")
    BY <1>6, <2>1, <2>2, GoingOnKeepsLocks DEF MarkFailed
  <2>3. CASE Goto(r, "reporting")
    BY <1>6, <2>1, <2>3, LeavingKeepsLocks DEF MarkFailed
  <2> QED
    BY <1>6, <2>2, <2>3 DEF MarkFailed
<1>7. CASE ReleaseCredits(r)
  <2>1. PICK label \in {"ended", "reporting"} : Goto(r, label)
    BY <1>7 DEF ReleaseCredits
  <2> QED
    BY <1>1, <1>7, <2>1, LeavingKeepsLocks DEF ReleaseCredits
<1> QED
  BY <1>2, <1>3, <1>4, <1>5, <1>6, <1>7 DEF Generating, Failing

LEMMA NextKeepsLocks ==
  ASSUME LocksKept, Locked, [Next]_vars
  PROVE  Locked'
<1> USE DEF Labels, Busy, TryLabels, Billing
<1>1. row \in [Requests -> RowStatus]
  BY DEF Locked, Typed
<1>2. ASSUME NEW r \in Runs, AcquireUserLock(r) PROVE Locked'
  BY <1>2, AcquiringKeeps DEF AcquireUserLock, Locks
<1>3. ASSUME NEW r \in Runs, RefuseConcurrentRun(r) PROVE Locked'
  BY <1>1, <1>3, UnlockingKeeps DEF RefuseConcurrentRun
<1>4. ASSUME NEW r \in Runs, Running(r) PROVE Locked'
  BY <1>4, ReservingKeepsLocks, GeneratingStepsKeepLocks DEF Running
<1>5. ASSUME NEW r \in Runs, Throw(r) PROVE Locked'
  BY <1>5, CatchKeepsLocks DEF Throw
<1>6. ASSUME NEW r \in Runs, ThrowInCatch(r) \/ Crash(r) PROVE Locked'
  BY <1>1, <1>6, LeavingKeepsLocks DEF ThrowInCatch, Crash, FailLabels
<1>7. ASSUME NEW l \in Locks, ExpireLock(l) PROVE Locked'
  <2>1. locks' = [locks EXCEPT ![l] = {}] /\ UNCHANGED <<day, pc, row>>
        /\ (l \in ExpiringLocks \/ \A r \in locks[l] : pc[r] = "dead")
    BY <1>7 DEF ExpireLock
  <2>2. Typed' /\ Started' /\ OneHolder'
    BY <2>1 DEF Locked, Typed, Started, OneHolder, RequestOf
  <2>3. UserLocked'
    BY <2>1 DEF Locked, Typed, UserLocked, ExpiringLocks, Locks
  <2>4. FreeLocked'
    <3>1. "free" \notin ExpiringLocks
      BY DEF LocksKept, Locked, Typed, ExpiringLocks
    <3> QED
      BY <2>1, <3>1 DEF Locked, Typed, FreeLocked, IsFree, RequestOf, Locks
  <2> QED
    BY <2>2, <2>3, <2>4 DEF Locked
<1>8. ASSUME UNCHANGED <<day, pc, locks, row>> PROVE Locked'
  BY <1>8 DEF Locked, Typed, Started, OneHolder, UserLocked, FreeLocked, IsFree, RequestOf,
     ExpiringLocks
<1> QED
  BY <1>2, <1>3, <1>4, <1>5, <1>6, <1>7, <1>8 DEF Next, ChargeMessage, vars
-----------------------------------------------------------------------------
CountedRows == {q \in FreeRequests : row[q] \in {"reserved", "completed"}}

LEMMA CountsAreNumbers ==
  /\ IsFiniteSet(CountedRows) /\ FreeImagesUsed = Cardinality(CountedRows)
  /\ FreeImagesUsed \in Nat
<1>1. CountedRows \subseteq FreeRequests /\ IsFiniteSet(FreeRequests)
  BY ImageBillingAssumption DEF CountedRows
<1> QED
  BY <1>1, FS_Subset, FS_CardinalityType DEF CountedRows, FreeImagesUsed

LEMMA CountsStayNumbers ==
  /\ IsFiniteSet(CountedRows') /\ FreeImagesUsed' = Cardinality(CountedRows')
  /\ FreeImagesUsed' \in Nat
<1>1. CountedRows' \subseteq FreeRequests /\ IsFiniteSet(FreeRequests)
  BY ImageBillingAssumption DEF CountedRows
<1> QED
  BY <1>1, FS_Subset, FS_CardinalityType DEF CountedRows, FreeImagesUsed

\* No row comes to be counted.
LEMMA CountFalls ==
  ASSUME CountedRows' \subseteq CountedRows
  PROVE  FreeImagesUsed' <= FreeImagesUsed
<1>1. Cardinality(CountedRows') <= Cardinality(CountedRows)
  BY CountsAreNumbers, FS_Subset
<1> QED
  BY <1>1, CountsAreNumbers, CountsStayNumbers

\* One row comes to be counted.
LEMMA CountGrowsByOne ==
  ASSUME NEW q, CountedRows' \subseteq CountedRows \union {q}
  PROVE  FreeImagesUsed' <= FreeImagesUsed + 1
<1>1. /\ IsFiniteSet(CountedRows \union {q})
      /\ Cardinality(CountedRows \union {q}) <= Cardinality(CountedRows) + 1
      /\ Cardinality(CountedRows \union {q}) \in Nat
  BY CountsAreNumbers, FS_AddElement, FS_CardinalityType
<1>2. Cardinality(CountedRows') <= Cardinality(CountedRows \union {q})
  BY <1>1, FS_Subset
<1> QED
  BY <1>1, <1>2, CountsAreNumbers, CountsStayNumbers

LEMMA InitHolds == LocksKept /\ Init => IInv
<1> SUFFICES ASSUME LocksKept, Init PROVE IInv
  OBVIOUS
<1> USE DEF Init
<1>1. Typed
  BY DEF Typed, Labels, Locks, RowStatus
<1>2. Started /\ OneHolder /\ UserLocked /\ FreeLocked
  BY DEF Started, OneHolder, UserLocked, FreeLocked, Busy, TryLabels, Billing
<1>3. RowsKnown /\ Room
  BY DEF RowsKnown, Room
<1>4. FreeBucketHolds
  <2>1. CountedRows = {}
    BY ImageBillingAssumption DEF CountedRows
  <2>2. Cardinality(CountedRows) = 0
    BY <2>1, FS_EmptySet
  <2>3. FreeBucketHolds <=> Cardinality(CountedRows) <= FreeLimit
    BY DEF FreeBucketHolds, CountedRows
  <2> QED
    BY <2>2, <2>3, ImageBillingAssumption
<1> QED
  BY <1>1, <1>2, <1>3, <1>4 DEF IInv, Locked

\* The rows stay as they are, and the run goes where its row lets it.
LEMMA SameRowsKeep ==
  ASSUME IInv, Locked', NEW r \in Runs, NEW label, pc' = [pc EXCEPT ![r] = label],
         UNCHANGED <<day, row>>,
         label \in {"reserving", "inserting"} => row[RequestOf[r]] = "none",
         label \in {"generating", "publishing", "completing"}
           => row[RequestOf[r]] \in {"reserved", "completed"},
         label \in {"reserving", "inserting"} /\ IsFree(r) => FreeImagesUsed < FreeLimit
  PROVE  IInv'
<1>1. RequestOf' = RequestOf /\ FreeImagesUsed' = FreeImagesUsed
  BY DEF RequestOf, FreeImagesUsed
<1>2. \A s \in Runs : s # r => pc'[s] = pc[s]
  BY DEF IInv, Locked, Typed
<1>3. pc'[r] = label
  BY DEF IInv, Locked, Typed
<1>4. RowsKnown'
  BY <1>1, <1>2, <1>3 DEF IInv, RowsKnown
<1>5. Room'
  BY <1>1, <1>2, <1>3 DEF IInv, Room, IsFree
<1>6. FreeBucketHolds'
  BY DEF IInv, FreeBucketHolds
<1> QED
  BY <1>4, <1>5, <1>6 DEF IInv

\* What a row's new status may be: the row of no other run that counts on it.
LEMMA OthersKeepRows ==
  ASSUME LocksKept, IInv, NEW r \in Runs, pc[r] \in Busy, day' = day, NEW label,
         pc' = [pc EXCEPT ![r] = label], NEW status,
         row' = [row EXCEPT ![RequestOf[r]] = status], NEW s \in Runs \ {r}
  PROVE  /\ pc'[s] = pc[s] /\ RequestOf' = RequestOf
         /\ pc[s] \in Busy => row'[RequestOf[s]] = row[RequestOf[s]]
<1>1. pc'[s] = pc[s] /\ RequestOf' = RequestOf
  BY DEF IInv, Locked, Typed, RequestOf
<1>2. pc[s] \in Busy => RequestOf[s] # RequestOf[r]
  BY Alone DEF IInv
<1>3. s \in DOMAIN RequestOf => RequestOf[s] \in Requests
  BY RequestsOfDay DEF IInv, Locked
<1>4. pc[s] \in Busy => s \in DOMAIN RequestOf
  BY DEF IInv, Locked, Started, Busy, TryLabels
<1> QED
  BY <1>1, <1>2, <1>3, <1>4 DEF IInv, Locked, Typed

LEMMA BucketIsCount == FreeBucketHolds <=> FreeImagesUsed <= FreeLimit
BY DEF FreeBucketHolds, FreeImagesUsed

\* A row is settled: it was counted, or is not counted now.
LEMMA SettledRowsKeep ==
  ASSUME LocksKept, IInv, Locked', NEW r \in Runs, pc[r] \in Busy, day' = day,
         NEW label \in {"capturing", "releasing"}, pc' = [pc EXCEPT ![r] = label],
         NEW status, row' = [row EXCEPT ![RequestOf[r]] = status],
         status \in {"reserved", "completed"}
           => row[RequestOf[r]] \in {"reserved", "completed"}
  PROVE  IInv'
<1>1. \A s \in Runs \ {r} :
        /\ pc'[s] = pc[s] /\ RequestOf' = RequestOf
        /\ pc[s] \in Busy => row'[RequestOf[s]] = row[RequestOf[s]]
  BY OthersKeepRows
<1>2. pc'[r] = label /\ RequestOf' = RequestOf
  BY DEF IInv, Locked, Typed, RequestOf
<1>3. CountedRows' \subseteq CountedRows
  BY ImageBillingAssumption DEF CountedRows, IInv, Locked, Typed
<1>4. FreeImagesUsed' <= FreeImagesUsed /\ FreeImagesUsed' \in Nat /\ FreeImagesUsed \in Nat
  BY <1>3, CountFalls, CountsAreNumbers, CountsStayNumbers
<1>5. RowsKnown'
  BY <1>1, <1>2 DEF IInv, RowsKnown, Busy, TryLabels
<1>6. Room'
  BY <1>1, <1>2, <1>4, ImageBillingAssumption DEF IInv, Room, IsFree
<1>7. FreeBucketHolds'
  <2>1. FreeImagesUsed' <= FreeLimit
    BY <1>4, BucketIsCount, ImageBillingAssumption DEF IInv
  <2> QED
    BY <2>1 DEF FreeBucketHolds, FreeImagesUsed
<1> QED
  BY <1>5, <1>6, <1>7 DEF IInv

\* The count a run has decided by is still right when it inserts its row.
LEMMA InsertKeeps ==
  ASSUME LocksKept, IInv, Locked', NEW r \in Runs, InsertReservationRow(r)
  PROVE  IInv'
<1> DEFINE q == RequestOf[r]
<1>1. pc[r] = "inserting" /\ pc[r] \in Busy /\ row[q] = "none" /\ q \in Requests
  <2>1. pc[r] = "inserting"
    BY DEF InsertReservationRow
  <2>2. r \in DOMAIN RequestOf
    BY <2>1 DEF IInv, Locked, Started
  <2> QED
    BY <2>1, <2>2, RequestsOfDay DEF IInv, Locked, RowsKnown, Busy, TryLabels
<1>2. day' = day /\ pc' = [pc EXCEPT ![r] = "generating"]
      /\ row' = [row EXCEPT ![q] = "reserved"]
  BY <1>1 DEF InsertReservationRow, Goto
<1>3. \A s \in Runs \ {r} :
        /\ pc'[s] = pc[s] /\ RequestOf' = RequestOf
        /\ pc[s] \in Busy => row'[RequestOf[s]] = row[RequestOf[s]]
  BY <1>1, <1>2, OthersKeepRows
<1>4. pc'[r] = "generating" /\ RequestOf' = RequestOf /\ row'[q] = "reserved"
  BY <1>1, <1>2 DEF IInv, Locked, Typed, RequestOf
<1>5. RowsKnown'
  BY <1>3, <1>4 DEF IInv, RowsKnown, Busy, TryLabels
<1>6. CASE IsFree(r)
  <2>1. FreeImagesUsed < FreeLimit
    BY <1>1, <1>6 DEF IInv, Room
  <2>2. CountedRows' \subseteq CountedRows \union {q}
    BY <1>2, ImageBillingAssumption DEF CountedRows, IInv, Locked, Typed
  <2>3. FreeImagesUsed' <= FreeLimit
    BY <2>1, <2>2, CountGrowsByOne, CountsAreNumbers, CountsStayNumbers, ImageBillingAssumption
  <2>4. FreeBucketHolds'
    BY <2>3 DEF FreeBucketHolds, FreeImagesUsed
  <2>5. \A s \in Runs : ~(pc'[s] \in {"reserving", "inserting"} /\ IsFree(s))
    <3> SUFFICES ASSUME NEW s \in Runs, pc'[s] \in {"reserving", "inserting"}, IsFree(s)
                 PROVE  FALSE
      OBVIOUS
    <3>1. s # r /\ pc[s] \in Billing
      BY <1>3, <1>4 DEF Billing
    <3>2. s \in locks["free"] /\ r \in locks["free"]
      BY <1>1, <1>6, <3>1 DEF IInv, Locked, FreeLocked, Billing
    <3> QED
      BY <3>1, <3>2 DEF IInv, Locked, OneHolder, Locks
  <2>6. Room'
    BY <1>4, <2>5 DEF Room, IsFree
  <2> QED
    BY <1>5, <2>4, <2>6 DEF IInv
<1>7. CASE ~IsFree(r)
  <2>1. CountedRows' \subseteq CountedRows
    BY <1>2, <1>7, ImageBillingAssumption DEF CountedRows, IsFree, IInv, Locked, Typed
  <2>2. FreeImagesUsed' <= FreeImagesUsed /\ FreeImagesUsed' \in Nat /\ FreeImagesUsed \in Nat
    BY <2>1, CountFalls, CountsAreNumbers, CountsStayNumbers
  <2>3. Room'
    BY <1>3, <1>4, <2>2, ImageBillingAssumption DEF IInv, Room, IsFree
  <2>4. FreeImagesUsed' <= FreeLimit
    BY <2>2, BucketIsCount, ImageBillingAssumption DEF IInv
  <2>5. FreeBucketHolds'
    BY <2>4 DEF FreeBucketHolds, FreeImagesUsed
  <2> QED
    BY <1>5, <2>3, <2>5 DEF IInv
<1> QED
  BY <1>6, <1>7

LEMMA ReservingKeeps ==
  ASSUME LocksKept, IInv, Locked', NEW r \in Runs, Reserving(r)
  PROVE  IInv'
<1> USE DEF Goto
<1>1. ASSUME NEW status, status = row[RequestOf[r]], Reuse(r, status), row' = row
      PROVE  IInv'
  BY <1>1, SameRowsKeep DEF Reuse, Refuse
<1>2. CASE FindReservation(r)
  BY <1>1, <1>2, SameRowsKeep DEF FindReservation
<1>3. CASE AcquireBillingLock(r)
  BY <1>3, SameRowsKeep DEF AcquireBillingLock
<1>4. CASE RefuseBusyQuota(r)
  BY <1>4, SameRowsKeep DEF RefuseBusyQuota, Catch
<1>5. CASE CheckAllowance(r)
  <2>1. CASE Reuse(r, row[RequestOf[r]])
    BY <1>1, <1>5, <2>1 DEF CheckAllowance
  <2>2. CASE Refuse(r)
    BY <1>5, <2>2, SameRowsKeep DEF CheckAllowance, Refuse
  <2>3. CASE /\ row[RequestOf[r]] = "none" /\ IsAllowed(RequestOf[r])
             /\ Goto(r, IF IsFree(r) THEN "inserting" ELSE "reserving")
    BY <1>5, <2>3, SameRowsKeep DEF CheckAllowance, IsAllowed, IsFree
  <2> QED
    BY <1>5, <2>1, <2>2, <2>3 DEF CheckAllowance, IsFree
<1>6. CASE ReserveCredits(r)
  <2>1. CASE Catch(r)
    BY <2>1, SameRowsKeep DEF Catch
  <2>2. CASE Goto(r, "inserting") /\ row' = row
    BY <1>6, <2>2, SameRowsKeep DEF ReserveCredits, IInv, RowsKnown, Room
  <2> QED
    BY <1>6, <2>1, <2>2 DEF ReserveCredits
<1>7. CASE InsertReservationRow(r)
  BY <1>7, InsertKeeps
<1> QED
  BY <1>2, <1>3, <1>4, <1>5, <1>6, <1>7 DEF Reserving

LEMMA GeneratingKeeps ==
  ASSUME LocksKept, IInv, Locked', NEW r \in Runs, Generating(r) \/ Failing(r)
  PROVE  IInv'
<1> USE DEF Goto
<1>1. CASE GenerateImage(r) \/ PublishImage(r)
  BY <1>1, SameRowsKeep DEF GenerateImage, PublishImage, IInv, RowsKnown
<1>2. CASE MarkCompleted(r)
  <2>1. pc[r] = "completing" /\ pc[r] \in Busy
    BY <1>2 DEF MarkCompleted, Busy, TryLabels
  <2>2. row[RequestOf[r]] \in {"reserved", "completed"}
    BY <2>1 DEF IInv, RowsKnown
  <2>3. row' = [row EXCEPT ![RequestOf[r]] = "completed"]
    BY <1>2, <2>2 DEF MarkCompleted, UpdateRow
  <2> QED
    BY <1>2, <2>1, <2>2, <2>3, SettledRowsKeep DEF MarkCompleted
<1>3. CASE CaptureCredits(r)
  <2>1. PICK label \in {"finishing", "failing"} : Goto(r, label) /\ row' = row
    BY <1>3 DEF CaptureCredits, Catch
  <2> QED
    BY <2>1, SameRowsKeep
<1>4. CASE FinishTask(r) \/ ReportFailure(r)
  BY <1>4, SameRowsKeep DEF FinishTask, ReportFailure
<1>5. CASE MarkFailed(r)
  <2>1. CASE Goto(r, "reporting") /\ row' = row
    BY <2>1, SameRowsKeep
  <2>2. CASE Goto(r, "releasing") /\ UpdateRow(RequestOf[r], "failed")
    <3>1. pc[r] \in Busy
      BY <1>5 DEF MarkFailed, Busy
    <3>2. PICK status \in {"none", "failed"} : row' = [row EXCEPT ![RequestOf[r]] = status]
      BY <2>2 DEF UpdateRow
    <3> QED
      BY <2>2, <3>1, <3>2, SettledRowsKeep
  <2> QED
    BY <1>5, <2>1, <2>2 DEF MarkFailed
<1>6. CASE ReleaseCredits(r)
  <2>1. PICK label \in {"ended", "reporting"} : Goto(r, label) /\ row' = row
    BY <1>6 DEF ReleaseCredits
  <2> QED
    BY <2>1, SameRowsKeep
<1> QED
  BY <1>1, <1>2, <1>3, <1>4, <1>5, <1>6 DEF Generating, Failing

LEMMA NextKeeps == LocksKept /\ IInv /\ [Next]_vars => IInv'
<1> SUFFICES ASSUME LocksKept, IInv, [Next]_vars PROVE IInv'
  OBVIOUS
<1>1. Locked'
  BY NextKeepsLocks DEF IInv
<1>2. ASSUME NEW r \in Runs, Running(r) PROVE IInv'
  <2>1. CASE StartTask(r)
    BY <1>1, <2>1, SameRowsKeep DEF StartTask, Goto
  <2> QED
    BY <1>1, <1>2, <2>1, ReservingKeeps, GeneratingKeeps DEF Running
<1>3. ASSUME NEW r \in Runs,
             AcquireUserLock(r) \/ RefuseConcurrentRun(r) \/ Throw(r) \/ ThrowInCatch(r) \/ Crash(r)
      PROVE  IInv'
  <2>1. PICK label \in {"starting", "reporting", "failing", "ended", "dead"} :
          Goto(r, label) /\ row' = row
    BY <1>3 DEF AcquireUserLock, RefuseConcurrentRun, Throw, Catch, ThrowInCatch, Crash
  <2> QED
    BY <1>1, <2>1, SameRowsKeep DEF Goto
<1>4. CASE UNCHANGED <<day, pc, row>>
  BY <1>1, <1>4 DEF IInv, RowsKnown, Room, FreeBucketHolds, IsFree, FreeImagesUsed, RequestOf
<1> QED
  BY <1>2, <1>3, <1>4 DEF Next, ExpireLock, ChargeMessage, vars

(***************************************************************************)
(* "Reservation rows in reserved or completed state count against the       *)
(* Cloudflare daily free bucket so concurrent requests cannot oversubscribe *)
(* it": so it is, for every number of requests, as long as LocksKept.       *)
(***************************************************************************)
THEOREM FreeBucketIsKept ==
  ASSUME LocksKept
  PROVE  Spec => []FreeBucketHolds
<1>1. Init => IInv
  BY InitHolds
<1>2. IInv /\ [Next]_vars => IInv'
  BY NextKeeps
<1>3. IInv => FreeBucketHolds
  BY DEF IInv
<1> QED
  BY <1>1, <1>2, <1>3, PTL DEF Spec
-----------------------------------------------------------------------------
(***************************************************************************)
(* The holds.  A run captures only an image it has published and whose row  *)
(* says completed, and releases only under a row that says failed, which no *)
(* run undoes: a request is captured or released, never both, and each      *)
(* transaction moves the price of exactly one open hold.                    *)
(***************************************************************************)
CreditOps == {"reserve", "capture", "release"}

CreditTyped ==
  /\ entries \in [Requests -> SUBSET CreditOps]
  /\ reservation \in [Runs -> RowStatus]

RunKnown(r) ==
  /\ pc[r] = "queued" => reservation[r] = "none"
  /\ pc[r] \in Busy /\ reservation[r] = "reserved" => row[RequestOf[r]] # "none"
  /\ pc[r] = "capturing" => row[RequestOf[r]] = "completed"
  /\ pc[r] = "releasing" => row[RequestOf[r]] = "failed"
  /\ pc[r] \in {"completing", "capturing"} => RequestOf[r] \in delivered

EntryKnown(q) ==
  /\ "capture" \in entries[q] \/ "release" \in entries[q] => "reserve" \in entries[q]
  /\ "release" \in entries[q] => row[q] = "failed"
  /\ "capture" \in entries[q] => q \in delivered /\ "release" \notin entries[q]

RunsKnown == \A r \in Runs : RunKnown(r)

EntriesKnown == \A q \in Requests : EntryKnown(q)

OpenRequests == {q \in Requests : IsOpen(q)}

HoldsCounted ==
  IsFiniteSet(OpenRequests) /\ reserved = Price * Cardinality(OpenRequests)

\* A step of the run writes no row, or that of its own request.
RowOfRun(r) ==
  row' = row \/ (pc[r] \in Busy /\ \E new : row' = [row EXCEPT ![RequestOf[r]] = new])

\* It changes no reservation object but the run's own.
ReservationOfRun(r) ==
  /\ reservation' \in [Runs -> RowStatus]
  /\ \A s \in Runs \ {r} : reservation'[s] = reservation[s]

HoldsInv == IInv /\ CreditTyped /\ RunsKnown /\ EntriesKnown /\ HoldsCounted
-----------------------------------------------------------------------------
LEMMA InitHolding == LocksKept /\ Init => HoldsInv
<1> SUFFICES ASSUME LocksKept, Init PROVE HoldsInv
  OBVIOUS
<1>1. IInv
  BY InitHolds
<1>2. CreditTyped /\ RunsKnown /\ EntriesKnown
  BY DEF Init, CreditTyped, RowStatus, RunsKnown, RunKnown, Busy, TryLabels, EntriesKnown,
     EntryKnown
<1>3. OpenRequests = {}
  BY DEF Init, OpenRequests, IsOpen
<1>4. IsFiniteSet(OpenRequests) /\ Cardinality(OpenRequests) = 0
  BY <1>3, FS_EmptySet
<1>5. HoldsCounted
  BY <1>4, ImageBillingAssumption DEF Init, HoldsCounted
<1> QED
  BY <1>1, <1>2, <1>5 DEF HoldsInv

\* What a run knows survives the steps of the others.
LEMMA OtherRunKnows ==
  ASSUME LocksKept, IInv, NEW r \in Runs, NEW s \in Runs \ {r}, RunKnown(s), day' = day,
         NEW label, pc' = [pc EXCEPT ![r] = label],
         ReservationOfRun(r),
         delivered \subseteq delivered',
         RowOfRun(r)
  PROVE  RunKnown(s)'
<1>1. pc'[s] = pc[s] /\ RequestOf' = RequestOf /\ reservation'[s] = reservation[s]
  BY DEF IInv, Locked, Typed, RequestOf, ReservationOfRun
<1>2. pc[s] \in Busy => row'[RequestOf[s]] = row[RequestOf[s]]
  BY OthersKeepRows DEF RowOfRun
<1>3. pc[s] \in {"completing", "capturing", "releasing"} => pc[s] \in Busy
  BY DEF Busy, TryLabels
<1> QED
  BY <1>1, <1>2, <1>3 DEF RunKnown

\* The entries stay as they are: the row of a released request stays failed.
LEMMA SameEntriesKeep ==
  ASSUME EntriesKnown, UNCHANGED entries, delivered \subseteq delivered',
         \A q \in Requests : "release" \in entries[q] /\ row[q] = "failed" => row'[q] = "failed"
  PROVE  EntriesKnown'
BY DEF EntriesKnown, EntryKnown

LEMMA SameHoldsKeep ==
  ASSUME HoldsCounted, UNCHANGED <<entries, reserved>>
  PROVE  HoldsCounted'
BY DEF HoldsCounted, OpenRequests, IsOpen

\* A step of a run that leaves the account alone.
LEMMA SameAccountKeeps ==
  ASSUME LocksKept, HoldsInv, IInv', NEW r \in Runs,
         NEW label, Goto(r, label), ReservationOfRun(r),
         delivered \subseteq delivered', UNCHANGED <<entries, reserved>>,
         RowOfRun(r),
         \A q \in Requests : "release" \in entries[q] /\ row[q] = "failed" => row'[q] = "failed",
         RunKnown(r)'
  PROVE  HoldsInv'
<1>1. day' = day /\ pc' = [pc EXCEPT ![r] = label]
  BY DEF Goto
<1>2. ASSUME NEW s \in Runs PROVE RunKnown(s)'
  <2>1. CASE s = r
    BY <2>1
  <2>2. CASE s # r
    <3>1. RunKnown(s) /\ IInv
      BY DEF HoldsInv, RunsKnown
    <3> QED
      BY <1>1, <2>2, <3>1, OtherRunKnows
  <2> QED
    BY <2>1, <2>2
<1>3. RunsKnown'
  BY <1>2 DEF RunsKnown
<1>4. EntriesKnown'
  BY SameEntriesKeep DEF HoldsInv
<1>5. HoldsCounted'
  BY SameHoldsKeep DEF HoldsInv
<1>6. CreditTyped'
  BY DEF HoldsInv, CreditTyped, ReservationOfRun
<1> QED
  BY <1>3, <1>4, <1>5, <1>6 DEF HoldsInv

\* A transaction on the account: one request gets one entry more.
LEMMA HoldOpens ==
  ASSUME HoldsCounted, CreditTyped, NEW q \in Requests, "reserve" \notin entries[q],
         EntryKnown(q), ApplyCredit("reserve", q)
  PROVE  HoldsCounted'
<1>1. entries' = [entries EXCEPT ![q] = @ \union {"reserve"}] /\ reserved' = reserved + Price
  BY DEF ApplyCredit, ReservedDelta
<1>2. OpenRequests' = OpenRequests \union {q} /\ q \notin OpenRequests
  BY <1>1 DEF OpenRequests, IsOpen, EntryKnown, CreditTyped, CreditOps
<1>3. /\ IsFiniteSet(OpenRequests')
      /\ Cardinality(OpenRequests') = Cardinality(OpenRequests) + 1
      /\ Cardinality(OpenRequests) \in Nat
  BY <1>2, FS_AddElement, FS_CardinalityType DEF HoldsCounted
<1>4. reserved = Price * Cardinality(OpenRequests)
  BY DEF HoldsCounted
<1> HIDE DEF OpenRequests
<1>5. reserved' = Price * Cardinality(OpenRequests')
  BY <1>1, <1>3, <1>4, ImageBillingAssumption
<1> QED
  BY <1>3, <1>5 DEF HoldsCounted

LEMMA HoldCloses ==
  ASSUME HoldsCounted, CreditTyped, NEW q \in Requests, IsOpen(q),
         NEW op \in {"capture", "release"}, ApplyCredit(op, q)
  PROVE  HoldsCounted'
<1>1. entries' = [entries EXCEPT ![q] = @ \union {op}] /\ reserved' = reserved - Price
  BY ImageBillingAssumption DEF ApplyCredit, ReservedDelta, DrawsReserved, HoldsCounted
<1>2. OpenRequests' = OpenRequests \ {q} /\ q \in OpenRequests
  BY <1>1 DEF OpenRequests, IsOpen, CreditTyped, CreditOps
<1>3. /\ IsFiniteSet(OpenRequests')
      /\ Cardinality(OpenRequests') = Cardinality(OpenRequests) - 1
      /\ Cardinality(OpenRequests) \in Nat
  BY <1>2, FS_RemoveElement, FS_CardinalityType DEF HoldsCounted
<1>4. reserved = Price * Cardinality(OpenRequests)
  BY DEF HoldsCounted
<1> HIDE DEF OpenRequests
<1>5. reserved' = Price * Cardinality(OpenRequests')
  BY <1>1, <1>3, <1>4, ImageBillingAssumption
<1> QED
  BY <1>3, <1>5 DEF HoldsCounted

\* The step of a run that applies a transaction to its own request.
LEMMA AppliedKeeps ==
  ASSUME LocksKept, HoldsInv, IInv', NEW r \in Runs, NEW q \in Requests,
         NEW label \in {"inserting", "finishing", "reporting"}, Goto(r, label),
         UNCHANGED <<reservation, row, delivered>>, pc[r] \in Busy,
         NEW op \in CreditOps, ApplyCredit(op, q),
         op = "reserve" => "reserve" \notin entries[q],
         op # "reserve" => IsOpen(q),
         op = "release" => row[q] = "failed",
         op = "capture" => q \in delivered
  PROVE  HoldsInv'
<1>1. /\ day' = day /\ pc' = [pc EXCEPT ![r] = label]
      /\ entries' = [entries EXCEPT ![q] = @ \union {op}]
  BY DEF Goto, ApplyCredit
<1>2. EntryKnown(q)
  BY DEF HoldsInv, EntriesKnown
<1>3. HoldsCounted'
  BY <1>2, HoldOpens, HoldCloses DEF HoldsInv, CreditOps
<1>4. CreditTyped'
  BY <1>1 DEF HoldsInv, CreditTyped
<1>5. ASSUME NEW s \in Runs PROVE RunKnown(s)'
  <2>1. CASE s = r
    <3>1. pc'[r] = label /\ RequestOf' = RequestOf
      BY <1>1 DEF HoldsInv, IInv, Locked, Typed, RequestOf
    <3>2. reservation[r] = "reserved" => row[RequestOf[r]] # "none"
      BY DEF HoldsInv, RunsKnown, RunKnown
    <3>3. label \notin {"queued", "capturing", "releasing", "completing"}
      OBVIOUS
    <3> QED
      BY <2>1, <3>1, <3>2, <3>3 DEF RunKnown
  <2>2. CASE s # r
    <3>1. RunKnown(s) /\ IInv
      BY DEF HoldsInv, RunsKnown
    <3>2. ReservationOfRun(r) /\ RowOfRun(r) /\ delivered \subseteq delivered'
      BY DEF HoldsInv, CreditTyped, ReservationOfRun, RowOfRun
    <3> QED
      BY <1>1, <2>2, <3>1, <3>2, OtherRunKnows
  <2> QED
    BY <2>1, <2>2
<1>6. RunsKnown'
  BY <1>5 DEF RunsKnown
<1>7. EntriesKnown'
  <2> SUFFICES ASSUME NEW p \in Requests PROVE EntryKnown(p)'
    BY DEF EntriesKnown
  <2>1. EntryKnown(p)
    BY DEF HoldsInv, EntriesKnown
  <2>2. entries'[p] = IF p = q THEN entries[q] \union {op} ELSE entries[p]
    BY <1>1 DEF HoldsInv, CreditTyped
  <2> QED
    BY <2>1, <2>2 DEF EntryKnown, IsOpen, CreditOps
<1> QED
  BY <1>3, <1>4, <1>6, <1>7 DEF HoldsInv
-----------------------------------------------------------------------------
\* The request of a run that has started.
LEMMA RequestOfRun ==
  ASSUME HoldsInv, NEW r \in Runs, pc[r] # "queued"
  PROVE  RequestOf[r] \in Requests
<1>1. Typed /\ r \in DOMAIN RequestOf
  BY DEF HoldsInv, IInv, Locked, Started
<1> QED
  BY <1>1, RequestsOfDay

\* The run goes where nothing but its reservation and its row matter.
LEMMA MovingKeeps ==
  ASSUME LocksKept, HoldsInv, IInv', NEW r \in Runs,
         NEW label \in Labels \ {"queued", "capturing", "releasing", "completing"}, Goto(r, label),
         UNCHANGED <<row, entries, reserved, delivered>>, NEW status \in RowStatus,
         reservation' \in {reservation, [reservation EXCEPT ![r] = status]},
         label \in Busy /\ reservation'[r] = "reserved" => row[RequestOf[r]] # "none"
  PROVE  HoldsInv'
<1>1. pc'[r] = label /\ RequestOf' = RequestOf
  BY DEF Goto, HoldsInv, IInv, Locked, Typed, RequestOf
<1>2. RunKnown(r)'
  BY <1>1 DEF RunKnown
<1>3. ReservationOfRun(r) /\ RowOfRun(r) /\ delivered \subseteq delivered'
  BY DEF HoldsInv, CreditTyped, ReservationOfRun, RowOfRun
<1>4. UNCHANGED <<entries, reserved>> /\ \A q \in Requests : row[q] = "failed" => row'[q] = "failed"
  OBVIOUS
<1> QED
  BY <1>2, <1>3, <1>4, SameAccountKeeps

\* The same, the reservation unchanged.
LEMMA GoingOnKeeps ==
  ASSUME LocksKept, HoldsInv, IInv', NEW r \in Runs, pc[r] # "queued",
         NEW label \in Labels \ {"queued", "capturing", "releasing", "completing"}, Goto(r, label),
         UNCHANGED <<reservation, row, entries, reserved, delivered>>,
         label \in Busy => pc[r] \in Busy
  PROVE  HoldsInv'
<1>1. label \in Busy /\ reservation[r] = "reserved" => row[RequestOf[r]] # "none"
  BY DEF HoldsInv, RunsKnown, RunKnown
<1>2. "none" \in RowStatus
  BY DEF RowStatus
<1> QED
  BY <1>1, <1>2, MovingKeeps

LEMMA CatchingKeeps ==
  ASSUME LocksKept, HoldsInv, IInv', NEW r \in Runs, pc[r] \in TryLabels, Catch(r)
  PROVE  HoldsInv'
<1>1. /\ Goto(r, "failing") /\ UNCHANGED <<reservation, row, entries, reserved, delivered>>
      /\ pc[r] \in Busy /\ pc[r] # "queued"
      /\ "failing" \in Labels \ {"queued", "capturing", "releasing", "completing"}
  BY DEF Catch, account, Labels, Busy, TryLabels
<1> QED
  BY <1>1, GoingOnKeeps

LEMMA ReusingKeeps ==
  ASSUME LocksKept, HoldsInv, IInv', NEW r \in Runs, pc[r] # "queued",
         Reuse(r, row[RequestOf[r]]) \/ Refuse(r),
         UNCHANGED <<row, entries, reserved, delivered>>
  PROVE  HoldsInv'
<1> USE DEF Labels, Busy, TryLabels
<1>1. reservation \in [Runs -> RowStatus] /\ RequestOf[r] \in Requests
  BY RequestOfRun DEF HoldsInv, CreditTyped
<1>2. CASE Refuse(r)
  <2>1. /\ "failed" \in RowStatus /\ reservation' = [reservation EXCEPT ![r] = "failed"]
        /\ Goto(r, "reporting")
        /\ "reporting" \in Labels \ {"queued", "capturing", "releasing", "completing"}
        /\ "reporting" \notin Busy
    BY <1>2 DEF Refuse, RowStatus
  <2> QED
    BY <2>1, MovingKeeps
<1>3. CASE ~Refuse(r)
  <2> DEFINE status == row[RequestOf[r]]
  <2>1. /\ status \in RowStatus /\ reservation' = [reservation EXCEPT ![r] = status]
        /\ Goto(r, "generating") /\ status # "none"
        /\ "generating" \in Labels \ {"queued", "capturing", "releasing", "completing"}
    BY <1>3 DEF Reuse, RowStatus
  <2> QED
    BY <2>1, MovingKeeps
<1> QED
  BY <1>2, <1>3

LEMMA ReservingHolds ==
  ASSUME LocksKept, HoldsInv, IInv', NEW r \in Runs, Reserving(r)
  PROVE  HoldsInv'
<1> USE DEF Labels, Busy, TryLabels
<1>1. CASE FindReservation(r)
  <2>1. CASE Reuse(r, row[RequestOf[r]])
    BY <1>1, <2>1, ReusingKeeps DEF FindReservation, account
  <2>2. CASE Goto(r, "locking") /\ UNCHANGED reservation
    BY <1>1, <2>2, GoingOnKeeps DEF FindReservation, account
  <2> QED
    BY <1>1, <2>1, <2>2 DEF FindReservation
<1>2. CASE AcquireBillingLock(r)
  BY <1>2, GoingOnKeeps DEF AcquireBillingLock, account
<1>3. CASE RefuseBusyQuota(r)
  BY <1>3, CatchingKeeps DEF RefuseBusyQuota
<1>4. CASE CheckAllowance(r)
  <2>1. UNCHANGED <<row, entries, reserved, delivered>> /\ pc[r] = "checking"
    BY <1>4 DEF CheckAllowance, account
  <2>2. CASE Reuse(r, row[RequestOf[r]]) \/ Refuse(r)
    BY <2>1, <2>2, ReusingKeeps
  <2>3. CASE /\ Goto(r, IF RequestOf[r] \in FreeRequests THEN "inserting" ELSE "reserving")
             /\ UNCHANGED reservation
    BY <2>1, <2>3, GoingOnKeeps
  <2> QED
    BY <1>4, <2>2, <2>3 DEF CheckAllowance
<1>5. CASE ReserveCredits(r)
  <2>1. pc[r] = "reserving" /\ RequestOf[r] \in Requests
    BY <1>5, RequestOfRun DEF ReserveCredits
  <2>2. CASE Catch(r)
    BY <2>1, <2>2, CatchingKeeps
  <2>3. CASE /\ Goto(r, "inserting") /\ UNCHANGED <<reservation, row, delivered>>
             /\ "reserve" \in entries[RequestOf[r]] /\ UNCHANGED account
    BY <2>1, <2>3, GoingOnKeeps DEF account
  <2>4. CASE /\ Goto(r, "inserting") /\ UNCHANGED <<reservation, row, delivered>>
             /\ "reserve" \notin entries[RequestOf[r]] /\ ApplyCredit("reserve", RequestOf[r])
    BY <2>1, <2>4, AppliedKeeps DEF CreditOps
  <2> QED
    BY <1>5, <2>2, <2>3, <2>4 DEF ReserveCredits
<1>6. CASE InsertReservationRow(r)
  <2> DEFINE q == RequestOf[r]
  <2>1. /\ pc[r] = "inserting" /\ q \in Requests /\ row[q] = "none"
        /\ row \in [Requests -> RowStatus]
    <3>1. pc[r] = "inserting"
      BY <1>6 DEF InsertReservationRow
    <3> QED
      BY <3>1, RequestOfRun DEF HoldsInv, IInv, RowsKnown, Locked, Typed
  <2>2. /\ row' = [row EXCEPT ![q] = "reserved"] /\ Goto(r, "generating")
        /\ reservation' = [reservation EXCEPT ![r] = "reserved"] /\ "reserved" \in RowStatus
        /\ UNCHANGED <<entries, reserved, delivered>>
    BY <1>6, <2>1 DEF InsertReservationRow, account, RowStatus
  <2>3. \A p \in Requests : row[p] = "failed" => row'[p] = "failed"
    BY <2>1, <2>2
  <2>4. pc'[r] = "generating" /\ RequestOf' = RequestOf /\ row'[q] = "reserved"
    BY <2>1, <2>2 DEF Goto, HoldsInv, IInv, Locked, Typed, RequestOf
  <2>5. RunKnown(r)'
    BY <2>4 DEF RunKnown
  <2>6. ReservationOfRun(r) /\ RowOfRun(r) /\ delivered \subseteq delivered'
    BY <2>1, <2>2 DEF HoldsInv, CreditTyped, ReservationOfRun, RowOfRun
  <2> QED
    BY <2>2, <2>3, <2>5, <2>6, SameAccountKeeps
<1> QED
  BY <1>1, <1>2, <1>3, <1>4, <1>5, <1>6 DEF Reserving

\* The run writes its row, and then knows it.
LEMMA WritingRowKeeps ==
  ASSUME LocksKept, HoldsInv, IInv', NEW r \in Runs, pc[r] \in Busy,
         NEW label \in {"capturing", "releasing"}, Goto(r, label),
         UNCHANGED <<reservation, entries, reserved, delivered>>,
         row' = [row EXCEPT ![RequestOf[r]] = IF label = "capturing" THEN "completed" ELSE "failed"],
         label = "capturing" => /\ row[RequestOf[r]] # "failed"
                                /\ RequestOf[r] \in delivered,
         RequestOf[r] \in Requests, row[RequestOf[r]] # "none"
  PROVE  HoldsInv'
<1>1. pc'[r] = label /\ RequestOf' = RequestOf /\ row \in [Requests -> RowStatus]
  BY DEF Goto, HoldsInv, IInv, Locked, Typed, RequestOf
<1>2. RunKnown(r)'
  BY <1>1 DEF RunKnown
<1>3. \A q \in Requests : row[q] = "failed" => row'[q] = "failed"
  BY <1>1
<1>4. ReservationOfRun(r) /\ RowOfRun(r) /\ delivered \subseteq delivered'
  BY DEF HoldsInv, CreditTyped, ReservationOfRun, RowOfRun
<1> QED
  BY <1>2, <1>3, <1>4, SameAccountKeeps

LEMMA GeneratingHolds ==
  ASSUME LocksKept, HoldsInv, IInv', NEW r \in Runs, Generating(r)
  PROVE  HoldsInv'
<1> USE DEF Labels, Busy, TryLabels
<1>1. CASE GenerateImage(r)
  BY <1>1, GoingOnKeeps DEF GenerateImage, account
<1>2. CASE PublishImage(r)
  <2>1. /\ pc[r] = "publishing" /\ Goto(r, "completing")
        /\ UNCHANGED <<reservation, row, entries, reserved>>
        /\ delivered' = delivered \union {RequestOf[r]}
    BY <1>2 DEF PublishImage, account
  <2>2. pc'[r] = "completing" /\ RequestOf' = RequestOf
    BY <2>1 DEF Goto, HoldsInv, IInv, Locked, Typed, RequestOf
  <2>3. reservation[r] = "reserved" => row[RequestOf[r]] # "none"
    BY <2>1 DEF HoldsInv, RunsKnown, RunKnown
  <2>4. RunKnown(r)'
    BY <2>1, <2>2, <2>3 DEF RunKnown
  <2>5. ReservationOfRun(r) /\ RowOfRun(r) /\ delivered \subseteq delivered'
    BY <2>1 DEF HoldsInv, CreditTyped, ReservationOfRun, RowOfRun
  <2> QED
    BY <2>1, <2>4, <2>5, SameAccountKeeps
<1>3. CASE MarkCompleted(r)
  <2>1. pc[r] = "completing" /\ RequestOf[r] \in Requests
    BY <1>3, RequestOfRun DEF MarkCompleted
  <2>2. row[RequestOf[r]] \in {"reserved", "completed"} /\ RequestOf[r] \in delivered
    BY <2>1 DEF HoldsInv, IInv, RowsKnown, RunsKnown, RunKnown
  <2>3. /\ Goto(r, "capturing") /\ UNCHANGED <<reservation, entries, reserved, delivered>>
        /\ row' = [row EXCEPT ![RequestOf[r]] = "completed"]
    BY <1>3, <2>2 DEF MarkCompleted, UpdateRow, account
  <2> QED
    BY <2>1, <2>2, <2>3, WritingRowKeeps
<1>4. CASE CaptureCredits(r)
  <2> DEFINE q == RequestOf[r]
  <2>1. pc[r] = "capturing" /\ q \in Requests
    BY <1>4, RequestOfRun DEF CaptureCredits
  <2>2. q \in delivered /\ row[q] = "completed"
    BY <2>1 DEF HoldsInv, RunsKnown, RunKnown
  <2>3. "release" \notin entries[q]
    BY <2>1, <2>2 DEF HoldsInv, EntriesKnown, EntryKnown
  <2>4. CASE Catch(r)
    BY <2>1, <2>4, CatchingKeeps
  <2>5. CASE Goto(r, "finishing") /\ UNCHANGED <<reservation, row, delivered, account>>
    BY <2>1, <2>5, GoingOnKeeps DEF account
  <2>6. CASE /\ "reserve" \in entries[q] /\ "capture" \notin entries[q]
             /\ ApplyCredit("capture", q)
             /\ Goto(r, "finishing") /\ UNCHANGED <<reservation, row, delivered>>
    <3>1. IsOpen(q)
      BY <2>3, <2>6 DEF IsOpen
    <3> QED
      BY <2>1, <2>2, <2>6, <3>1, AppliedKeeps DEF CreditOps
  <2> QED
    BY <1>4, <2>4, <2>5, <2>6 DEF CaptureCredits
<1>5. CASE FinishTask(r)
  BY <1>5, GoingOnKeeps DEF FinishTask, account
<1> QED
  BY <1>1, <1>2, <1>3, <1>4, <1>5 DEF Generating

LEMMA FailingHolds ==
  ASSUME LocksKept, HoldsInv, IInv', NEW r \in Runs, Failing(r)
  PROVE  HoldsInv'
<1> USE DEF Labels, Busy
<1>1. CASE MarkFailed(r)
  <2>1. pc[r] = "failing" /\ RequestOf[r] \in Requests
    BY <1>1, RequestOfRun DEF MarkFailed
  <2>2. UNCHANGED <<reservation, entries, reserved, delivered>>
    BY <1>1 DEF MarkFailed, account
  <2>3. CASE reservation[r] = "reserved"
    <3>1. row[RequestOf[r]] # "none"
      BY <2>1, <2>3 DEF HoldsInv, RunsKnown, RunKnown
    <3>2. Goto(r, "releasing") /\ row' = [row EXCEPT ![RequestOf[r]] = "failed"]
      BY <1>1, <2>3, <3>1 DEF MarkFailed, UpdateRow
    <3> QED
      BY <2>1, <2>2, <3>1, <3>2, WritingRowKeeps
  <2>4. CASE reservation[r] # "reserved"
    <3>1. Goto(r, "reporting") /\ UNCHANGED row
      BY <1>1, <2>4 DEF MarkFailed
    <3> QED
      BY <2>1, <2>2, <3>1, GoingOnKeeps DEF TryLabels
  <2> QED
    BY <2>3, <2>4
<1>2. CASE ReleaseCredits(r)
  <2> DEFINE q == RequestOf[r]
  <2>1. /\ pc[r] = "releasing" /\ q \in Requests
        /\ UNCHANGED <<reservation, row, delivered>>
    BY <1>2, RequestOfRun DEF ReleaseCredits
  <2>2. row[q] = "failed"
    BY <2>1 DEF HoldsInv, RunsKnown, RunKnown
  <2>3. CASE IsOpen(q) /\ CanApplyCredit("release")
    <3>1. ApplyCredit("release", q) /\ Goto(r, "reporting")
      BY <1>2, <2>3 DEF ReleaseCredits, IsOpen
    <3> QED
      BY <2>1, <2>2, <2>3, <3>1, AppliedKeeps DEF CreditOps
  <2>4. CASE ~(IsOpen(q) /\ CanApplyCredit("release"))
    <3>1. UNCHANGED account /\ (Goto(r, "ended") \/ Goto(r, "reporting"))
      BY <1>2, <2>4 DEF ReleaseCredits, IsOpen
    <3> QED
      BY <2>1, <3>1, GoingOnKeeps DEF account, TryLabels
  <2> QED
    BY <2>3, <2>4
<1>3. CASE ReportFailure(r)
  BY <1>3, GoingOnKeeps DEF ReportFailure, account, TryLabels
<1> QED
  BY <1>1, <1>2, <1>3 DEF Failing

LEMMA NextHolds == LocksKept /\ HoldsInv /\ [Next]_vars => HoldsInv'
<1> SUFFICES ASSUME LocksKept, HoldsInv, [Next]_vars PROVE HoldsInv'
  OBVIOUS
<1> USE DEF Labels, Busy, TryLabels
<1>1. IInv'
  BY NextKeeps DEF HoldsInv
<1>2. ASSUME NEW r \in Runs, Running(r) PROVE HoldsInv'
  <2>1. CASE StartTask(r)
    BY <1>1, <2>1, GoingOnKeeps DEF StartTask, account
  <2> QED
    BY <1>1, <1>2, <2>1, ReservingHolds, GeneratingHolds, FailingHolds DEF Running
<1>3. ASSUME NEW r \in Runs, AcquireUserLock(r) \/ RefuseConcurrentRun(r) PROVE HoldsInv'
  <2>1. PICK label \in {"starting", "reporting"} :
          Goto(r, label) /\ UNCHANGED <<reservation, row, entries, reserved, delivered>>
    BY <1>3 DEF AcquireUserLock, RefuseConcurrentRun, account
  <2>2. pc[r] = "queued"
    BY <1>3 DEF AcquireUserLock, RefuseConcurrentRun
  <2>3. reservation[r] = "none" /\ "none" \in RowStatus
    BY <2>2 DEF HoldsInv, RunsKnown, RunKnown, RowStatus
  <2> QED
    BY <1>1, <2>1, <2>3, MovingKeeps
<1>4. ASSUME NEW r \in Runs, Throw(r) PROVE HoldsInv'
  BY <1>1, <1>4, CatchingKeeps DEF Throw
<1>5. ASSUME NEW r \in Runs, ThrowInCatch(r) \/ Crash(r) PROVE HoldsInv'
  <2>1. PICK label \in {"ended", "dead"} :
          Goto(r, label) /\ UNCHANGED <<reservation, row, entries, reserved, delivered>>
    BY <1>5 DEF ThrowInCatch, Crash, account
  <2>2. pc[r] # "queued"
    BY <1>5 DEF ThrowInCatch, Crash, FailLabels
  <2> QED
    BY <1>1, <2>1, <2>2, GoingOnKeeps
<1>6. CASE UNCHANGED <<day, pc, reservation, row, entries, reserved, delivered>>
  <2>1. UNCHANGED <<RequestOf, OpenRequests>>
    BY <1>6 DEF RequestOf, OpenRequests, IsOpen
  <2>2. RunsKnown' /\ EntriesKnown'
    BY <1>6, <2>1 DEF HoldsInv, RunsKnown, RunKnown, EntriesKnown, EntryKnown
  <2> QED
    BY <1>1, <1>6, <2>1, <2>2 DEF HoldsInv, CreditTyped, HoldsCounted
<1> QED
  BY <1>2, <1>3, <1>4, <1>5, <1>6 DEF Next, ExpireLock, ChargeMessage, vars, account

LEMMA HoldsAlways ==
  ASSUME LocksKept
  PROVE  Spec => []HoldsInv
<1>1. Init => HoldsInv
  BY InitHolding
<1>2. HoldsInv /\ [Next]_vars => HoldsInv'
  BY NextHolds
<1> QED
  BY <1>1, <1>2, PTL DEF Spec

(***************************************************************************)
(* A captured image was shown to the user, and nobody is both charged and   *)
(* given the credits back, whatever throws, dies or is run again.           *)
(***************************************************************************)
THEOREM ChargedOnlyIfDeliveredAlways ==
  ASSUME LocksKept
  PROVE  Spec => []ChargedOnlyIfDelivered
<1>1. HoldsInv => ChargedOnlyIfDelivered
  BY DEF HoldsInv, EntriesKnown, EntryKnown, ChargedOnlyIfDelivered
<1> QED
  BY <1>1, HoldsAlways, PTL

(***************************************************************************)
(* What the account reserves is the price of the holds that are open.       *)
(***************************************************************************)
THEOREM ReservedIsOpenAlways ==
  ASSUME LocksKept
  PROVE  Spec => []ReservedIsOpen
<1>1. HoldsInv => ReservedIsOpen
  BY DEF HoldsInv, HoldsCounted, OpenRequests, ReservedIsOpen
<1> QED
  BY <1>1, HoldsAlways, PTL
-----------------------------------------------------------------------------
(***************************************************************************)
(* The image task as a caller of the prepaid account.  What it does to the  *)
(* account is, step by step, one call of PrepaidAccount: it places the hold *)
(* of a request, or ends it in one way, and the rest of the account is a    *)
(* chat charge.  This is what CreditLedger takes for granted of its image   *)
(* tasks, through every throw, death and repeated run.                      *)
(***************************************************************************)
\* The calls that took effect, as the entries of the requests record them.
CallsDone ==
  {c \in [kind : CreditOps, source : Requests, amount : {Price}] : c.kind \in entries[c.source]}

Prepaid == INSTANCE PrepaidAccount
             WITH balance <- available, held <- reserved, done <- CallsDone,
                  Deposits <- {}, Messages <- {}, ImageRequests <- Requests

ChatCharge ==
  /\ UNCHANGED <<entries, reserved>>
  /\ \E amount \in ChatCharges : available' \in Nat /\ available' + amount = available

AccountStep == (\E q \in Requests : Prepaid!ImageCall(q)) \/ ChatCharge

CallsPrepaidAccount == [][AccountStep]_account

AvailableTyped == available \in Nat

\* A transaction on the account that its checks let through is a call that
\* takes effect for the first time.
LEMMA AppliedTakesEffect ==
  ASSUME HoldsInv, AvailableTyped, NEW q \in Requests, NEW op \in CreditOps,
         op \notin entries[q], CanApplyCredit(op), ApplyCredit(op, q)
  PROVE  /\ Prepaid!TakesEffect(op, q, Price)
         /\ available' = available + AvailableDelta(op, Price)
         /\ reserved' = reserved + ReservedDelta(op, Price)
         /\ AvailableTyped'
<1>1. /\ available \in Nat /\ reserved \in Nat /\ Price \in Nat
      /\ entries \in [Requests -> SUBSET CreditOps]
  BY ImageBillingAssumption, FS_CardinalityType
  DEF HoldsInv, HoldsCounted, CreditTyped, AvailableTyped
<1>2. /\ available' = available + AvailableDelta(op, Price)
      /\ reserved' = reserved + ReservedDelta(op, Price)
      /\ entries' = [entries EXCEPT ![q] = @ \union {op}]
  BY DEF ApplyCredit
<1>3. available' \in Nat /\ reserved' \in Nat
  BY <1>1, <1>2
  DEF CanApplyCredit, Covers, AvailableDelta, ReservedDelta, DrawsAvailable, DrawsReserved,
      CreditOps
<1>4. CallsDone' = CallsDone \union {Prepaid!Call(op, q, Price)}
  BY <1>1, <1>2 DEF CallsDone, Prepaid!Call
<1>5. ~Prepaid!IsDone(op, q)
  BY DEF Prepaid!IsDone, CallsDone
<1> QED
  BY <1>2, <1>3, <1>4, <1>5 DEF Prepaid!TakesEffect, AvailableTyped

\* The hold of a request is a call that was made with its price.
LEMMA ReservedIsDone ==
  ASSUME NEW q \in Requests, "reserve" \in entries[q]
  PROVE  \E c \in CallsDone : c.kind = "reserve" /\ c.source = q /\ c.amount = Price
<1>1. [kind |-> "reserve", source |-> q, amount |-> Price] \in CallsDone
  BY DEF CallsDone, CreditOps
<1> QED
  BY <1>1

\* A reservation is the hold of a request, placed once.
LEMMA ReserveIsCall ==
  ASSUME HoldsInv, AvailableTyped, NEW q \in Requests, "reserve" \notin entries[q],
         CanApplyCredit("reserve"), ApplyCredit("reserve", q)
  PROVE  Prepaid!ImageCall(q) /\ AvailableTyped'
<1>1. /\ Prepaid!TakesEffect("reserve", q, Price)
      /\ available' = available - Price /\ reserved' = reserved + Price
      /\ AvailableTyped'
  BY AppliedTakesEffect, ImageBillingAssumption
  DEF CreditOps, AvailableDelta, ReservedDelta, DrawsAvailable, AvailableTyped
<1>2. available \in Nat /\ Price \in Nat
  BY ImageBillingAssumption DEF AvailableTyped
<1>3. available - available' = Price /\ available' <= available
  BY <1>1, <1>2
<1> QED
  BY <1>1, <1>3 DEF Prepaid!ImageCall, Prepaid!Hold

\* A hold that is open is ended, once, with the price it was placed with.
LEMMA EndIsCall ==
  ASSUME HoldsInv, AvailableTyped, NEW q \in Requests, NEW op \in {"capture", "release"},
         IsOpen(q), CanApplyCredit(op), ApplyCredit(op, q)
  PROVE  Prepaid!ImageCall(q) /\ AvailableTyped'
<1>1. /\ "reserve" \in entries[q] /\ "capture" \notin entries[q] /\ "release" \notin entries[q]
  BY DEF IsOpen
<1>2. /\ Prepaid!TakesEffect(op, q, Price)
      /\ available' = available + AvailableDelta(op, Price)
      /\ reserved' = reserved + ReservedDelta(op, Price)
      /\ AvailableTyped'
  BY <1>1, AppliedTakesEffect DEF CreditOps
<1>3. available \in Nat /\ reserved \in Nat /\ Price \in Nat
  BY ImageBillingAssumption, FS_CardinalityType DEF HoldsInv, HoldsCounted, AvailableTyped
<1>4. PICK c \in CallsDone : c.kind = "reserve" /\ c.source = q /\ c.amount = Price
  BY <1>1, ReservedIsDone
<1>5. ~Prepaid!IsDone("capture", q) /\ ~Prepaid!IsDone("release", q)
  BY <1>1 DEF Prepaid!IsDone, CallsDone
<1>6. CASE op = "capture"
  <2>1. available' = available /\ reserved' + Price = reserved
    BY <1>2, <1>3, <1>6 DEF AvailableDelta, ReservedDelta, DrawsAvailable, DrawsReserved
  <2>2. Prepaid!Ends("reserve", "capture", "release", q)
    BY <1>2, <1>4, <1>5, <1>6, <2>1 DEF Prepaid!Ends
  <2> QED
    BY <1>2, <2>2 DEF Prepaid!ImageCall
<1>7. CASE op = "release"
  <2>1. available' = available + Price /\ reserved' + Price = reserved
    BY <1>2, <1>3, <1>7 DEF AvailableDelta, ReservedDelta, DrawsAvailable, DrawsReserved
  <2>2. Prepaid!Ends("reserve", "release", "capture", q)
    BY <1>2, <1>4, <1>5, <1>7, <2>1 DEF Prepaid!Ends
  <2> QED
    BY <1>2, <2>2 DEF Prepaid!ImageCall
<1> QED
  BY <1>6, <1>7

\* What every step does to the account.
CallsOrKeeps == AvailableTyped' /\ (AccountStep \/ UNCHANGED account)

LEMMA KeepsAccount ==
  ASSUME AvailableTyped, UNCHANGED account
  PROVE  CallsOrKeeps
BY DEF AvailableTyped, account, CallsOrKeeps

\* reserveImageCredits, captureReservedImageCredits, releaseReservedImageCredits
LEMMA HoldStepsCall ==
  ASSUME HoldsInv, AvailableTyped, NEW r \in Runs,
         ReserveCredits(r) \/ CaptureCredits(r) \/ ReleaseCredits(r)
  PROVE  CallsOrKeeps
<1> DEFINE q == RequestOf[r]
<1>1. q \in Requests
  BY RequestOfRun
  DEF ReserveCredits, CaptureCredits, ReleaseCredits, Busy, TryLabels
<1>2. CASE Catch(r) \/ UNCHANGED account
  BY <1>2, KeepsAccount DEF Catch
<1>3. CASE ReserveCredits(r) /\ "reserve" \notin entries[q] /\ CanApplyCredit("reserve")
  <2>1. ApplyCredit("reserve", q)
    BY <1>3 DEF ReserveCredits
  <2> QED
    BY <1>1, <1>3, <2>1, ReserveIsCall DEF CallsOrKeeps, AccountStep
<1>4. CASE /\ CaptureCredits(r) /\ CanApplyCredit("capture")
           /\ "reserve" \in entries[q] /\ "capture" \notin entries[q]
  <2>1. ApplyCredit("capture", q) /\ pc[r] = "capturing"
    BY <1>4 DEF CaptureCredits
  <2>2. row[q] = "completed"
    BY <2>1 DEF HoldsInv, RunsKnown, RunKnown
  <2>3. IsOpen(q)
    BY <1>1, <1>4, <2>2 DEF HoldsInv, EntriesKnown, EntryKnown, IsOpen
  <2> QED
    BY <1>1, <1>4, <2>1, <2>3, EndIsCall DEF CallsOrKeeps, AccountStep
<1>5. CASE ReleaseCredits(r) /\ IsOpen(q) /\ CanApplyCredit("release")
  <2>1. ApplyCredit("release", q)
    BY <1>5 DEF ReleaseCredits, IsOpen
  <2> QED
    BY <1>1, <1>5, <2>1, EndIsCall DEF CallsOrKeeps, AccountStep
<1>6. ReserveCredits(r)
        => Catch(r) \/ UNCHANGED account
             \/ ("reserve" \notin entries[q] /\ CanApplyCredit("reserve"))
  BY DEF ReserveCredits
<1>7. CaptureCredits(r)
        => Catch(r) \/ UNCHANGED account
             \/ (/\ CanApplyCredit("capture")
                 /\ "reserve" \in entries[q] /\ "capture" \notin entries[q])
  BY DEF CaptureCredits
<1>8. ReleaseCredits(r) => UNCHANGED account \/ (IsOpen(q) /\ CanApplyCredit("release"))
  BY DEF ReleaseCredits, IsOpen
<1> QED
  BY <1>2, <1>3, <1>4, <1>5, <1>6, <1>7, <1>8

\* The other statements, the locks and the failures leave the account alone.
LEMMA OtherStepsKeep ==
  ASSUME AvailableTyped, NEW r \in Runs,
         \/ AcquireUserLock(r) \/ RefuseConcurrentRun(r) \/ StartTask(r) \/ FindReservation(r)
         \/ AcquireBillingLock(r) \/ RefuseBusyQuota(r) \/ CheckAllowance(r)
         \/ InsertReservationRow(r) \/ GenerateImage(r) \/ PublishImage(r) \/ MarkCompleted(r)
         \/ FinishTask(r) \/ MarkFailed(r) \/ ReportFailure(r)
         \/ Throw(r) \/ ThrowInCatch(r) \/ Crash(r)
  PROVE  CallsOrKeeps
<1>1. UNCHANGED account
  BY DEF AcquireUserLock, RefuseConcurrentRun, StartTask, FindReservation, AcquireBillingLock,
     RefuseBusyQuota, CheckAllowance, InsertReservationRow, GenerateImage, PublishImage,
     MarkCompleted, FinishTask, MarkFailed, ReportFailure, Throw, ThrowInCatch, Crash, Catch
<1> QED
  BY <1>1, KeepsAccount

\* Every step is a call of the account, a chat charge, or leaves it alone.
LEMMA StepCalls ==
  ASSUME HoldsInv, AvailableTyped, [Next]_vars
  PROVE  CallsOrKeeps
<1>1. CASE UNCHANGED vars
  BY <1>1, KeepsAccount DEF vars, account
<1>2. ASSUME NEW r \in Runs,
             \/ AcquireUserLock(r) \/ RefuseConcurrentRun(r) \/ Running(r)
             \/ Throw(r) \/ ThrowInCatch(r) \/ Crash(r)
      PROVE  CallsOrKeeps
  BY <1>2, HoldStepsCall, OtherStepsKeep DEF Running, Reserving, Generating, Failing
<1>3. ASSUME NEW l \in Locks, ExpireLock(l) PROVE CallsOrKeeps
  BY <1>3, KeepsAccount DEF ExpireLock
<1>4. ASSUME NEW amount \in ChatCharges, ChargeMessage(amount) PROVE CallsOrKeeps
  <2>1. amount \in Nat /\ available \in Nat /\ available >= amount
    BY <1>4, ImageBillingAssumption DEF ChargeMessage, Covers, DrawsAvailable, AvailableTyped
  <2>2. available' = available - amount /\ UNCHANGED <<entries, reserved>>
    BY <1>4 DEF ChargeMessage
  <2>3. available' \in Nat /\ available' + amount = available
    BY <2>1, <2>2
  <2> QED
    BY <2>2, <2>3 DEF CallsOrKeeps, AccountStep, ChatCharge, AvailableTyped
<1> QED
  BY <1>1, <1>2, <1>3, <1>4 DEF Next

(***************************************************************************)
(* Whatever throws, dies or is run again, the image task is a good caller   *)
(* of the prepaid account: every transaction it makes there is one call     *)
(* that takes effect for the first time, a hold is ended in one way, with   *)
(* the price it was placed with, and no balance goes negative.              *)
(***************************************************************************)
THEOREM ImageTaskCallsAccount ==
  ASSUME LocksKept
  PROVE  Spec => CallsPrepaidAccount
<1>1. Init => AvailableTyped
  BY ImageBillingAssumption DEF Init, AvailableTyped
<1>2. HoldsInv /\ AvailableTyped /\ [Next]_vars
        => AvailableTyped' /\ [AccountStep]_account
  BY StepCalls DEF CallsOrKeeps
<1> QED
  BY <1>1, <1>2, HoldsAlways, PTL DEF Spec, CallsPrepaidAccount
=============================================================================
