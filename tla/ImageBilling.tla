---------------------------- MODULE ImageBilling ----------------------------
(***************************************************************************)
(* The life of a generated image: the task that produces it                 *)
(* (kiko-api/src/services/generatedImageChatTask.ts), the usage row that    *)
(* meters it (generatedImageBilling.ts, billingRepository.ts) and the hold  *)
(* it places on the prepaid credits (creditBillingService.ts, whose         *)
(* transactions are single steps here).  One user and one UTC day.          *)
(*                                                                          *)
(* The task is a chain of awaited statements on Postgres, Redis and the     *)
(* image provider.  Each statement is one step; between two of them other   *)
(* runs, chat charges and lock expiry happen, any of them may throw, and    *)
(* the process may die.                                                     *)
(***************************************************************************)
EXTENDS CreditMutation, FiniteSets

CONSTANTS
  Runs,           \* executions of runGeneratedImageChatTask
  Requests,       \* task ids; the id is the requestId of the usage row
  FreeRequests,   \* requests for the daily free model; the others are paid
  FreeLimit,      \* env.credits.dailyFreeCloudflareImageRequests
  Price,          \* credits a paid image costs
  Deposited,      \* credits available at the start of the day
  ChatCharges,    \* what a chat message may be charged meanwhile
  Days            \* days to consider: the runs, each with its task, and the
                  \* locks whose key may be lost while the holder is running
                  \* (the TTL ran out, or Redis failed over to the lock table)

ASSUME ImageBillingAssumption ==
  /\ \A d \in Days : \E R \in SUBSET Runs : d.requestOf \in [R -> Requests]
  /\ FreeRequests \subseteq Requests /\ IsFiniteSet(FreeRequests)
  /\ FreeLimit \in Nat
  /\ Price \in Nat \ {0}
  /\ Deposited \in Nat
  /\ ChatCharges \subseteq Nat \ {0}

VARIABLES
  day,         \* the day of this history: an element of Days, constant
  pc,          \* the statement each run executes next
  reservation, \* status of the reservation object in the run's memory
  locks,       \* who holds the user lock and the two billing locks
  row,         \* generated_image_usage_ledger.status, by request
  entries,     \* credit ledger entries of each paid request
  available,   \* credit_accounts.available_credits
  reserved,    \* credit_accounts.reserved_credits
  delivered,   \* requests whose finished image was published to the user
  thrown       \* billing statements of each request that threw or were cut off

vars == <<day, pc, reservation, locks, row, entries, available, reserved, delivered, thrown>>

account == <<entries, available, reserved>>
-----------------------------------------------------------------------------
Locks == {"user", "free", "credit"}

\* Statements inside the try, in order, those of the catch, and the ends.
TryLabels == {"starting", "finding", "locking", "checking", "reserving", "inserting",
              "generating", "publishing", "completing", "capturing", "finishing"}

FailLabels == {"failing", "releasing", "reporting"}

\* The statements that write the usage row or the ledger.
BillingLabels == {"reserving", "inserting", "completing", "capturing", "failing", "releasing"}

RowStatus == {"none", "reserved", "completed", "failed"}

QuotaOf(q) == IF q \in FreeRequests THEN "free" ELSE "credit"

RequestOf == day.requestOf

ExpiringLocks == day.expiringLocks

Init ==
  /\ day \in Days
  /\ pc = [r \in Runs |-> "queued"]
  /\ reservation = [r \in Runs |-> "none"]
  /\ locks = [l \in Locks |-> {}]
  /\ row = [q \in Requests |-> "none"]
  /\ entries = [q \in Requests |-> {}]
  /\ available = Deposited
  /\ reserved = 0
  /\ delivered = {}
  /\ thrown = [q \in Requests |-> {}]
-----------------------------------------------------------------------------
Goto(r, label) == pc' = [pc EXCEPT ![r] = label] /\ UNCHANGED day

\* releaseLock deletes the key only while it still holds the run's own value.
Unlocked(r, names) == [l \in Locks |-> IF l \in names THEN locks[l] \ {r} ELSE locks[l]]

\* acquireLock: SET NX EX, or the insert into the lock table.
Acquire(r, lock) ==
  /\ locks[lock] = {}
  /\ locks' = [locks EXCEPT ![lock] = {r}]

\* finally of reserveGeneratedImageUsage
BillingUnlocked(r) == Unlocked(r, {"free", "credit"})

\* finally of runGeneratedImageChatTask
AllUnlocked(r) == Unlocked(r, Locks)

(***************************************************************************)
(* One of the three transactions on the credit account.                     *)
(***************************************************************************)
ApplyCredit(op, q) ==
  /\ entries' = [entries EXCEPT ![q] = @ \union {op}]
  /\ available' = available + AvailableDelta(op, Price)
  /\ reserved' = reserved + ReservedDelta(op, Price)

CanApplyCredit(op) == Covers(op, Price, available, reserved)

\* A throw inside the try: the billing lock goes, the catch runs.
Catch(r) ==
  /\ Goto(r, "failing")
  /\ locks' = BillingUnlocked(r)
  /\ thrown' = [thrown EXCEPT ![RequestOf[r]] = @ \union ({pc[r]} \intersect BillingLabels)]
  /\ UNCHANGED <<reservation, row, account, delivered>>
-----------------------------------------------------------------------------
\* A second image of the same user is refused; so is one whose lock store fails.
AcquireUserLock(r) ==
  /\ r \in DOMAIN RequestOf /\ pc[r] = "queued"
  /\ Acquire(r, "user")
  /\ Goto(r, "starting")
  /\ UNCHANGED <<reservation, row, account, delivered, thrown>>

RefuseConcurrentRun(r) ==
  /\ r \in DOMAIN RequestOf /\ pc[r] = "queued"
  /\ Goto(r, "reporting")
  /\ UNCHANGED <<reservation, locks, row, account, delivered, thrown>>

StartTask(r) ==
  /\ pc[r] = "starting"
  /\ Goto(r, "finding")
  /\ UNCHANGED <<reservation, locks, row, account, delivered, thrown>>

(***************************************************************************)
(* reserveGeneratedImageUsage.  A row found for the request is reused: a    *)
(* reserved or completed one lets the run generate, any other ends it, as   *)
(* a refused decision does (the run's lock is released before the failure   *)
(* is reported: the source returns that promise without awaiting it).       *)
(***************************************************************************)
Refuse(r) ==
  /\ reservation' = [reservation EXCEPT ![r] = "failed"]
  /\ locks' = AllUnlocked(r)
  /\ Goto(r, "reporting")

Reuse(r, status) ==
  IF status \in {"reserved", "completed"}
  THEN /\ reservation' = [reservation EXCEPT ![r] = status]
       /\ locks' = BillingUnlocked(r)
       /\ Goto(r, "generating")
  ELSE Refuse(r)

FindReservation(r) ==
  /\ pc[r] = "finding"
  /\ IF row[RequestOf[r]] # "none"
     THEN Reuse(r, row[RequestOf[r]])
     ELSE Goto(r, "locking") /\ UNCHANGED <<reservation, locks>>
  /\ UNCHANGED <<row, account, delivered, thrown>>

AcquireBillingLock(r) ==
  /\ pc[r] = "locking"
  /\ Acquire(r, QuotaOf(RequestOf[r]))
  /\ Goto(r, "checking")
  /\ UNCHANGED <<reservation, row, account, delivered, thrown>>

\* "Generated image billing reservation is busy"
RefuseBusyQuota(r) == pc[r] = "locking" /\ Catch(r)

\* (mutation) a reservation still running is not counted
CountCompleted == Cardinality({q \in FreeRequests : row[q] = "completed"})

\* getDailyGeneratedImageReservationSummary
FreeImagesUsed == Cardinality({q \in FreeRequests : row[q] \in {"reserved", "completed"}})

IsAllowed(q) ==
  IF q \in FreeRequests THEN FreeImagesUsed < FreeLimit ELSE available >= Price

\* The second look for the row, the count or balance read, and the decision.
CheckAllowance(r) ==
  LET q == RequestOf[r]
  IN  /\ pc[r] = "checking"
      /\ IF row[q] # "none" THEN Reuse(r, row[q])
         ELSE IF ~IsAllowed(q) THEN Refuse(r)
         ELSE /\ Goto(r, IF q \in FreeRequests THEN "inserting" ELSE "reserving")
              /\ UNCHANGED <<reservation, locks>>
      /\ UNCHANGED <<row, account, delivered, thrown>>

\* reserveImageCredits returns the reservation already in the ledger.
ReserveCredits(r) ==
  LET q == RequestOf[r]
  IN  /\ pc[r] = "reserving"
      /\ IF "reserve" \in entries[q] \/ CanApplyCredit("reserve")
         THEN /\ IF "reserve" \in entries[q] THEN UNCHANGED account ELSE ApplyCredit("reserve", q)
              /\ Goto(r, "inserting")
              /\ UNCHANGED <<reservation, locks, row, delivered, thrown>>
         ELSE Catch(r)

\* INSERT ... ON CONFLICT (request_id) DO NOTHING
InsertReservationRow(r) ==
  LET q == RequestOf[r]
  IN  /\ pc[r] = "inserting"
      /\ row' = [row EXCEPT ![q] = IF @ = "none" THEN "reserved" ELSE @]
      /\ reservation' = [reservation EXCEPT ![r] = "reserved"]
      /\ locks' = BillingUnlocked(r)
      /\ Goto(r, "generating")
      /\ UNCHANGED <<account, delivered, thrown>>
-----------------------------------------------------------------------------
\* Provider, moderation, storage and the progress messages in between.
GenerateImage(r) ==
  /\ pc[r] = "generating"
  /\ Goto(r, "publishing")
  /\ UNCHANGED <<reservation, locks, row, account, delivered, thrown>>

PublishImage(r) ==
  /\ pc[r] = "publishing"
  /\ delivered' = delivered \union {RequestOf[r]}
  /\ Goto(r, "completing")
  /\ UNCHANGED <<reservation, locks, row, account, thrown>>

\* The two statements of markGeneratedImageUsageCompleted.  An UPDATE of a
\* row that is not there changes nothing.
UpdateRow(q, status) == row' = [row EXCEPT ![q] = IF @ = "none" THEN @ ELSE status]

MarkCompleted(r) ==
  /\ pc[r] = "completing"
  /\ UpdateRow(RequestOf[r], "completed")
  /\ Goto(r, "capturing")
  /\ UNCHANGED <<reservation, locks, account, delivered, thrown>>

CaptureCredits(r) ==
  LET q == RequestOf[r]
  IN  /\ pc[r] = "capturing"
      /\ IF "reserve" \in entries[q] /\ "capture" \notin entries[q]
         THEN IF CanApplyCredit("capture")
              THEN /\ ApplyCredit("capture", q)
                   /\ Goto(r, "finishing")
                   /\ UNCHANGED <<reservation, locks, row, delivered, thrown>>
              ELSE Catch(r)
         ELSE /\ Goto(r, "finishing")
              /\ UNCHANGED <<reservation, locks, row, account, delivered, thrown>>

\* updateTaskStatus(taskId, 'done'), and the finally
FinishTask(r) ==
  /\ pc[r] = "finishing"
  /\ locks' = AllUnlocked(r)
  /\ Goto(r, "ended")
  /\ UNCHANGED <<reservation, row, account, delivered, thrown>>
-----------------------------------------------------------------------------
(***************************************************************************)
(* failGeneratedImageTask.  Only a reservation this run made, or found      *)
(* still reserved, is marked failed and released                            *)
(* (markGeneratedImageUsageFailed).                                         *)
(***************************************************************************)
\* (mutation) the catch reports the failure and leaves the reservation
ForgetReservation(r) ==
  /\ pc[r] = "failing"
  /\ Goto(r, "reporting")
  /\ UNCHANGED <<reservation, locks, row, account, delivered, thrown>>

MarkFailed(r) ==
  /\ pc[r] = "failing"
  /\ IF reservation[r] = "reserved"
     THEN UpdateRow(RequestOf[r], "failed") /\ Goto(r, "releasing")
     ELSE Goto(r, "reporting") /\ UNCHANGED row
  /\ UNCHANGED <<reservation, locks, account, delivered, thrown>>

\* (mutation) a release does not look for a capture
ReleaseCaptured(r) ==
  LET q == RequestOf[r]
  IN  /\ pc[r] = "releasing"
      /\ IF /\ "reserve" \in entries[q] /\ "release" \notin entries[q]
            /\ CanApplyCredit("release")
         THEN ApplyCredit("release", q)
         ELSE UNCHANGED account
      /\ Goto(r, "reporting")
      /\ UNCHANGED <<reservation, locks, row, delivered, thrown>>

\* The account always covers it unless the hold was captured behind its back;
\* the rejection then leaves the catch.
ReleaseCredits(r) ==
  LET q == RequestOf[r]
      isOpen == "reserve" \in entries[q] /\ entries[q] \intersect {"release", "capture"} = {}
  IN  /\ pc[r] = "releasing"
      /\ IF isOpen /\ CanApplyCredit("release") THEN ApplyCredit("release", q)
                                                ELSE UNCHANGED account
      /\ Goto(r, IF isOpen /\ ~CanApplyCredit("release") THEN "ended" ELSE "reporting")
      /\ UNCHANGED <<reservation, locks, row, delivered, thrown>>

\* The error message and the task's error status, and the finally
ReportFailure(r) ==
  /\ pc[r] = "reporting"
  /\ locks' = AllUnlocked(r)
  /\ Goto(r, "ended")
  /\ UNCHANGED <<reservation, row, account, delivered, thrown>>
-----------------------------------------------------------------------------
(***************************************************************************)
(* What the task does not control.                                          *)
(***************************************************************************)
\* A statement of the try throws.
Throw(r) == pc[r] \in TryLabels /\ Catch(r)

\* A statement of the catch throws: the task rejects, the finally runs.
ThrowInCatch(r) ==
  /\ pc[r] \in FailLabels
  /\ Goto(r, "ended")
  /\ locks' = AllUnlocked(r)
  /\ thrown' = [thrown EXCEPT ![RequestOf[r]] = @ \union ({pc[r]} \intersect BillingLabels)]
  /\ UNCHANGED <<reservation, row, account, delivered>>

\* The process dies: no catch, no finally, and no sweep finds the row again.
Crash(r) ==
  /\ pc[r] \in TryLabels \union FailLabels
  /\ Goto(r, "dead")
  /\ thrown' = [thrown EXCEPT ![RequestOf[r]] = @ \union {"crash"}]
  /\ UNCHANGED <<reservation, locks, row, account, delivered>>

ExpireLock(l) ==
  /\ locks[l] # {}
  /\ l \in ExpiringLocks \/ \A r \in locks[l] : pc[r] = "dead"
  /\ locks' = [locks EXCEPT ![l] = {}]
  /\ UNCHANGED <<day, pc, reservation, row, account, delivered, thrown>>

\* settleChatUsageCharge of a message of the same user
ChargeMessage(amount) ==
  /\ Covers("debit", amount, available, reserved)
  /\ available' = available - amount
  /\ UNCHANGED <<day, pc, reservation, locks, row, entries, reserved, delivered, thrown>>
-----------------------------------------------------------------------------
Reserving(r) ==
  \/ FindReservation(r) \/ AcquireBillingLock(r) \/ RefuseBusyQuota(r)
  \/ CheckAllowance(r) \/ ReserveCredits(r) \/ InsertReservationRow(r)

Generating(r) ==
  \/ GenerateImage(r) \/ PublishImage(r) \/ MarkCompleted(r)
  \/ CaptureCredits(r) \/ FinishTask(r)

Failing(r) == MarkFailed(r) \/ ReleaseCredits(r) \/ ReportFailure(r)

Running(r) == StartTask(r) \/ Reserving(r) \/ Generating(r) \/ Failing(r)

Next ==
  \/ \E r \in Runs :
       \/ AcquireUserLock(r) \/ RefuseConcurrentRun(r) \/ Running(r)
       \/ Throw(r) \/ ThrowInCatch(r) \/ Crash(r)
  \/ \E l \in Locks : ExpireLock(l)
  \/ \E amount \in ChatCharges : ChargeMessage(amount)

Spec == Init /\ [][Next]_vars

(***************************************************************************)
(* A live process keeps executing the statements of its runs: an await      *)
(* settles.  Nothing obliges a statement to throw, a process to die or a    *)
(* queued task to be started.                                               *)
(***************************************************************************)
FairSpec == Spec /\ \A r \in Runs : WF_vars(Running(r))
-----------------------------------------------------------------------------
IsOpen(q) ==
  "reserve" \in entries[q] /\ entries[q] \intersect {"capture", "release"} = {}

(***************************************************************************)
(* A captured image was shown to the user, and nobody is both charged for   *)
(* an image and given the credits back: the failure path, which may run     *)
(* after the completion path, and a repeated run of the task included.      *)
(* CreditLedger assumes the second part of its image tasks.                 *)
(***************************************************************************)
ChargedOnlyIfDelivered ==
  \A q \in Requests :
    "capture" \in entries[q] => q \in delivered /\ "release" \notin entries[q]

(***************************************************************************)
(* What the account reserves is the price of the holds that are open,       *)
(* whatever throws or dies between the hold and its row.                    *)
(***************************************************************************)
ReservedIsOpen == reserved = Price * Cardinality({q \in Requests : IsOpen(q)})

(***************************************************************************)
(* "Reservation rows in reserved or completed state count against the       *)
(* Cloudflare daily free bucket so concurrent requests cannot oversubscribe *)
(* it": the billing lock alone keeps the rows within the limit, even when   *)
(* the user lock is lost and runs overlap.                                  *)
(***************************************************************************)
FreeBucketHolds ==
  Cardinality({q \in FreeRequests : row[q] \in {"reserved", "completed"}}) <= FreeLimit

(***************************************************************************)
(* A hold is settled in the end, unless a statement that writes the row or  *)
(* the ledger threw or the process died: failures of the provider, the      *)
(* moderation, the storage or the messages never leave credits held.        *)
(***************************************************************************)
HoldsSettle ==
  \A q \in Requests : IsOpen(q) ~> ~IsOpen(q) \/ thrown[q] # {}

(***************************************************************************)
(* "Do not capture credits for reserved, failed, or cancelled image rows":  *)
(* the row of a captured request says completed.                            *)
(***************************************************************************)
CapturedRowsCompleted ==
  \A q \in Requests : "capture" \in entries[q] => row[q] = "completed"
=============================================================================
