------------------------------ MODULE ChatTasks ------------------------------
(***************************************************************************)
(* The queue of chat tasks and the workers that run them: the AITask rows   *)
(* of kiko-api/src/repositories/chatRepository.ts, the claim of a batch     *)
(* (jobs/chat/taskClaimRunner.ts), the life of a task in a worker           *)
(* (jobs/chatWorker.ts, with the billing of jobs/chat/legacyCompat.ts) and  *)
(* the routes that create and stop tasks (routes/chat.ts).                  *)
(*                                                                          *)
(* A worker is one process.  Its polling loop and every wake-up run         *)
(* processQueuedTasks concurrently, so several claims of one worker may be  *)
(* in flight.  What a turn says is abstracted; what it writes to the task,  *)
(* the message and the bill is not.                                         *)
(***************************************************************************)
EXTENDS Integers, FiniteSets

CONSTANTS
  Tasks,          \* task rows, numbered by createdAt
  UploadTasks,    \* created 'pending' until their images are bound
  ImageTasks,     \* the model hands the turn to the image tool
  Workers,        \* processes
  Calls,          \* concurrent processQueuedTasks calls of a process
  ClaimLimit,     \* claimLimit
  MaxConcurrent,  \* maxConcurrentTasks
  Faulty          \* whether processes die and claim answers get lost

ASSUME ChatTasksAssumption ==
  /\ Tasks \subseteq Nat /\ IsFiniteSet(Tasks)
  /\ UploadTasks \subseteq Tasks
  /\ ImageTasks \subseteq Tasks
  /\ ClaimLimit \in Nat \ {0}
  /\ MaxConcurrent \in Nat \ {0}
  /\ Faulty \in BOOLEAN

VARIABLES
  status,   \* AITask.status
  message,  \* ChatMessage.status of the assistant message
  binding,  \* tasks whose send route is still binding images
  stopping, \* tasks whose stop route has read an active status
  marking,  \* tasks whose stop route has written the row, not yet the message
  flags,    \* tasks with a chat:cancel key in Redis
  batch,    \* rows a claim has returned and the worker not yet looped over
  running,  \* ChatWorker.runningTasks
  pc,       \* where the run of a task stands
  runs,     \* how often a task was started
  usage,    \* tasks with a billing_usage_ledger row
  charged   \* tasks whose charge was settled in the credit ledger

vars == <<status, message, binding, stopping, marking, flags,
          batch, running, pc, runs, usage, charged>>

stop == <<stopping, marking, flags>>
requests == <<binding, stop>>
queue == <<batch, running, runs>>
bill == <<usage, charged>>
-----------------------------------------------------------------------------
Status == {"absent", "pending", "queued", "running", "done", "error", "cancelled"}

Active == {"pending", "queued", "running"}

TurnLabels == {"turn", "imaging", "imaged", "answered", "billing", "charging", "closing"}

CatchLabels == {"failing", "erroring", "cancelling"}

Labels == {"none", "ended", "dead"} \union TurnLabels \union CatchLabels

Init ==
  /\ status = [t \in Tasks |-> "absent"]
  /\ message = [t \in Tasks |-> "streaming"]
  /\ binding = {}
  /\ stopping = {}
  /\ marking = {}
  /\ flags = {}
  /\ batch = [w \in Workers |-> [c \in Calls |-> {}]]
  /\ running = [w \in Workers |-> {}]
  /\ pc = [t \in Tasks |-> "none"]
  /\ runs = [t \in Tasks |-> 0]
  /\ usage = {}
  /\ charged = {}

Goto(t, label) == pc' = [pc EXCEPT ![t] = label]
UpdateTaskStatus(t, s) == status' = [status EXCEPT ![t] = s]
UpdateMessage(t, s) == message' = [message EXCEPT ![t] = s]
-----------------------------------------------------------------------------
(***************************************************************************)
(* The send route creates the row; one with images is released to the       *)
(* worker, or cancelled, when they are bound.                               *)
(***************************************************************************)
CreateTask(t) ==
  /\ status[t] = "absent"
  /\ \A u \in Tasks : u < t => status[u] # "absent"
  /\ UpdateTaskStatus(t, IF t \in UploadTasks THEN "pending" ELSE "queued")
  /\ binding' = IF t \in UploadTasks THEN binding \union {t} ELSE binding
  /\ UNCHANGED <<message, stop, queue, pc, bill>>

\* The two writes after a failed binding may fail themselves.
BindImages(t) ==
  /\ t \in binding
  /\ binding' = binding \ {t}
  /\ \/ UpdateTaskStatus(t, "queued") /\ UNCHANGED message
     \/ /\ UpdateTaskStatus(t, "cancelled") \/ UNCHANGED status
        /\ UpdateMessage(t, "error") \/ UNCHANGED message
  /\ UNCHANGED <<stop, queue, pc, bill>>

\* The stop route reads the row, writes it, and then sets the Redis flag and
\* completes the message.
StopTask(t) ==
  /\ status[t] \in Active
  /\ stopping' = stopping \union {t}
  /\ UNCHANGED <<status, message, binding, marking, flags, queue, pc, bill>>

CancelTask(t) ==
  /\ t \in stopping
  /\ stopping' = stopping \ {t}
  /\ marking' = marking \union {t}
  /\ UpdateTaskStatus(t, "cancelled")
  /\ UNCHANGED <<message, binding, flags, queue, pc, bill>>

FlagAndComplete(t) ==
  /\ t \in marking
  /\ marking' = marking \ {t}
  /\ flags' = flags \union {t}
  /\ UpdateMessage(t, "complete")
  /\ UNCHANGED <<status, binding, stopping, queue, pc, bill>>
-----------------------------------------------------------------------------
(***************************************************************************)
(* claimQueuedTasks: FOR UPDATE SKIP LOCKED takes the oldest queued rows    *)
(* and marks them running in one statement.  withRetry runs it again when   *)
(* the connection closes, also when only the answer was lost.               *)
(***************************************************************************)
\* (mutation) a claimed row stays queued until its run sets it running
Peeked(chosen) == status' = status

Claimed(chosen) ==
  status' = [t \in Tasks |-> IF t \in chosen THEN "running" ELSE status[t]]

Queued == {t \in Tasks : status[t] = "queued"}

Picked == {t \in Queued : Cardinality({u \in Queued : u < t}) < ClaimLimit}

ClaimQueuedTasks(w, c) ==
  /\ batch[w][c] = {}
  /\ Picked # {}
  /\ Claimed(Picked)
  /\ batch' = [batch EXCEPT ![w][c] = Picked]
  /\ UNCHANGED <<message, requests, running, pc, runs, bill>>

LoseClaimAnswer ==
  /\ Faulty
  /\ Picked # {}
  /\ Claimed(Picked)
  /\ UNCHANGED <<message, requests, queue, pc, bill>>

(***************************************************************************)
(* The loop over a batch, which nothing interrupts: a task already running  *)
(* in this process is skipped; at the limit the loop breaks.  The order of  *)
(* the returned rows is the database's.                                     *)
(***************************************************************************)
\* (mutation) the limit is compared with the batch alone
FreeSlotsOfBatch(w) == MaxConcurrent

FreeSlots(w) == MaxConcurrent - Cardinality(running[w])

ProcessClaimedTasks(w, c) ==
  /\ batch[w][c] # {}
  /\ \E started \in SUBSET (batch[w][c] \ running[w]) :
       LET startable == Cardinality(batch[w][c] \ running[w])
       IN  /\ Cardinality(started) = IF startable < FreeSlots(w) THEN startable ELSE FreeSlots(w)
           /\ running' = [running EXCEPT ![w] = @ \union started]
           /\ pc' = [t \in Tasks |-> IF t \in started THEN "turn" ELSE pc[t]]
           /\ runs' = [t \in Tasks |-> IF t \in started THEN runs[t] + 1 ELSE runs[t]]
  /\ batch' = [batch EXCEPT ![w][c] = {}]
  /\ UNCHANGED <<status, message, requests, bill>>
-----------------------------------------------------------------------------
(***************************************************************************)
(* runTask.  The turn polls for cancellation between rounds, the Redis flag *)
(* (which expires) or the row, so it may or may not see one.  An image turn *)
(* is finished by the tool, which marks the row running, publishes the      *)
(* image and marks the row done, or both failed ("terminalOwner:            *)
(* 'external'"); a user with an image already running is refused at once.   *)
(***************************************************************************)
AnswerTurn(t) ==
  /\ pc[t] = "turn" /\ t \notin ImageTasks
  /\ Goto(t, "answered")
  /\ UNCHANGED <<status, message, requests, queue, bill>>

StartImage(t) ==
  /\ pc[t] = "turn" /\ t \in ImageTasks
  /\ UpdateTaskStatus(t, "running")
  /\ Goto(t, "imaging")
  /\ UNCHANGED <<message, requests, queue, bill>>

PublishImage(t) ==
  /\ pc[t] = "imaging"
  /\ UpdateMessage(t, "complete")
  /\ Goto(t, "imaged")
  /\ UNCHANGED <<status, requests, queue, bill>>

FinishImage(t) ==
  /\ pc[t] = "imaged"
  /\ UpdateTaskStatus(t, "done")
  /\ Goto(t, "billing")
  /\ UNCHANGED <<message, requests, queue, bill>>

FailImage(t) ==
  /\ pc[t] \in {"turn", "imaging", "imaged"} /\ t \in ImageTasks
  /\ UpdateTaskStatus(t, "error")
  /\ UpdateMessage(t, "error")
  /\ Goto(t, "billing")
  /\ UNCHANGED <<requests, queue, bill>>

SeeCancellation(t) ==
  /\ pc[t] = "turn"
  /\ status[t] = "cancelled" \/ t \in flags
  /\ Goto(t, "cancelling")
  /\ UNCHANGED <<status, message, requests, queue, bill>>

\* broker.complete
CompleteAnswer(t) ==
  /\ pc[t] = "answered"
  /\ UpdateMessage(t, "complete")
  /\ Goto(t, "billing")
  /\ UNCHANGED <<status, requests, queue, bill>>

\* persistBillingUsage: nothing if the provider reported no usage; else the
\* usage row, and then the charge if the row is new.
SkipBilling(t) ==
  /\ pc[t] = "billing"
  /\ Goto(t, "closing")
  /\ UNCHANGED <<status, message, requests, queue, bill>>

\* (mutation) the charge does not depend on the usage row
ChargeUnrecorded(t) ==
  /\ pc[t] = "billing"
  /\ Goto(t, "charging")
  /\ UNCHANGED <<status, message, requests, queue, bill>>

InsertUsageRecord(t) ==
  /\ pc[t] = "billing"
  /\ usage' = usage \union {t}
  /\ Goto(t, IF t \in usage THEN "closing" ELSE "charging")
  /\ UNCHANGED <<status, message, requests, queue, charged>>

SettleCharge(t) ==
  /\ pc[t] = "charging"
  /\ charged' = charged \union {t}
  /\ Goto(t, "closing")
  /\ UNCHANGED <<status, message, requests, queue, usage>>

EndRun(t) ==
  /\ Goto(t, "ended")
  /\ running' = [w \in Workers |-> running[w] \ {t}]

CloseTask(t) ==
  /\ pc[t] = "closing"
  /\ IF t \in ImageTasks THEN UNCHANGED status ELSE UpdateTaskStatus(t, "done")
  /\ EndRun(t)
  /\ UNCHANGED <<message, requests, batch, runs, bill>>

\* (mutation) a task whose charge fails is closed as done
CloseUncharged(t) ==
  /\ pc[t] \in TurnLabels
  /\ Goto(t, IF pc[t] = "charging" THEN "closing" ELSE "failing")
  /\ UNCHANGED <<status, message, requests, queue, bill>>

(***************************************************************************)
(* Any statement of the try may throw: the provider, moderation, the        *)
(* database, or the charge (INSUFFICIENT_CREDITS).  The catch fails the     *)
(* message and the task, whoever owned them.                                *)
(***************************************************************************)
Throw(t) ==
  /\ pc[t] \in TurnLabels
  /\ Goto(t, "failing")
  /\ UNCHANGED <<status, message, requests, queue, bill>>

\* broker.fail; it goes on when the message cannot be written.
FailMessage(t) ==
  /\ pc[t] = "failing"
  /\ UpdateMessage(t, "error") \/ UNCHANGED message
  /\ Goto(t, "erroring")
  /\ UNCHANGED <<status, requests, queue, bill>>

FailTask(t) ==
  /\ pc[t] = "erroring"
  /\ UpdateTaskStatus(t, "error")
  /\ EndRun(t)
  /\ UNCHANGED <<message, requests, batch, runs, bill>>

\* (mutation) a cancelled run is not taken out of runningTasks
LeaveRunning(t) ==
  /\ pc[t] = "cancelling"
  /\ UpdateTaskStatus(t, "cancelled")
  /\ UpdateMessage(t, "complete")
  /\ Goto(t, "ended")
  /\ UNCHANGED <<requests, queue, bill>>

AcknowledgeCancellation(t) ==
  /\ pc[t] = "cancelling"
  /\ UpdateMessage(t, "complete")
  /\ UpdateTaskStatus(t, "cancelled")
  /\ EndRun(t)
  /\ UNCHANGED <<requests, batch, runs, bill>>

\* A statement of the catch throws: the run rejects with the status it had.
ThrowInCatch(t) ==
  /\ pc[t] \in CatchLabels
  /\ EndRun(t)
  /\ UNCHANGED <<status, message, requests, batch, runs, bill>>

\* The process dies; no other process looks for rows left running.
Crash(w) ==
  /\ Faulty
  /\ running[w] # {} \/ \E c \in Calls : batch[w][c] # {}
  /\ pc' = [t \in Tasks |-> IF t \in running[w] THEN "dead" ELSE pc[t]]
  /\ running' = [running EXCEPT ![w] = {}]
  /\ batch' = [batch EXCEPT ![w] = [c \in Calls |-> {}]]
  /\ UNCHANGED <<status, message, requests, runs, bill>>
-----------------------------------------------------------------------------
Route(t) ==
  \/ CreateTask(t) \/ BindImages(t)
  \/ StopTask(t) \/ CancelTask(t) \/ FlagAndComplete(t)

Turn(t) ==
  \/ AnswerTurn(t) \/ CompleteAnswer(t) \/ SeeCancellation(t)
  \/ StartImage(t) \/ PublishImage(t) \/ FinishImage(t) \/ FailImage(t)
  \/ SkipBilling(t) \/ InsertUsageRecord(t) \/ SettleCharge(t) \/ CloseTask(t)

CatchBlock(t) == FailMessage(t) \/ FailTask(t) \/ AcknowledgeCancellation(t) \/ ThrowInCatch(t)

Run(t) == Turn(t) \/ CatchBlock(t)

Work(w, c) == ClaimQueuedTasks(w, c) \/ ProcessClaimedTasks(w, c)

Next ==
  \/ \E t \in Tasks : Route(t) \/ Run(t) \/ Throw(t)
  \/ \E w \in Workers : Crash(w) \/ \E c \in Calls : Work(w, c)
  \/ LoseClaimAnswer

Spec == Init /\ [][Next]_vars

(***************************************************************************)
(* The polling loop comes round every CHAT_WORKER_POLL_MS, and a live       *)
(* process goes on with the runs it has: every await settles.               *)
(***************************************************************************)
FairSpec ==
  /\ Spec
  /\ \A w \in Workers, c \in Calls : WF_vars(Work(w, c))
  /\ \A t \in Tasks : WF_vars(Run(t))
-----------------------------------------------------------------------------
TypeOK ==
  /\ status \in [Tasks -> Status]
  /\ message \in [Tasks -> {"streaming", "complete", "error"}]
  /\ binding \subseteq Tasks
  /\ stopping \subseteq Tasks
  /\ marking \subseteq Tasks
  /\ flags \subseteq Tasks
  /\ batch \in [Workers -> [Calls -> SUBSET Tasks]]
  /\ running \in [Workers -> SUBSET Tasks]
  /\ pc \in [Tasks -> Labels]
  /\ runs \in [Tasks -> 0..1]
  /\ usage \subseteq Tasks
  /\ charged \subseteq usage

(***************************************************************************)
(* "Uses Postgres row locking to avoid multi-worker duplicate processing":  *)
(* a task is in the hands of one claim or one run at a time, however        *)
(* workers, polls, wake-ups, lost answers, restarts and stops interleave    *)
(* (TypeOK: and is started at most once).                                   *)
(***************************************************************************)
OneOwner ==
  \A t \in Tasks :
    Cardinality({w \in Workers : t \in running[w]})
      + Cardinality({p \in Workers \X Calls : t \in batch[p[1]][p[2]]}) <= 1

(***************************************************************************)
(* A process never runs more than CHAT_WORKER_MAX_CONCURRENCY tasks,        *)
(* although its claims do not look at the free slots.                       *)
(***************************************************************************)
ConcurrencyBounded == \A w \in Workers : Cardinality(running[w]) <= MaxConcurrent

(***************************************************************************)
(* A text task that says done was answered, and paid if it was metered:     *)
(* neither a charge that fails after the usage row was written nor a stop   *)
(* in the middle of the billing leaves an unpaid done.                      *)
(***************************************************************************)
DoneIsPaid ==
  \A t \in Tasks \ ImageTasks :
    status[t] = "done" => message[t] # "streaming" /\ (t \in usage => t \in charged)

(***************************************************************************)
(* A queued task is claimed or stopped, and a started run ends, unless its  *)
(* process dies.                                                            *)
(***************************************************************************)
TasksProgress ==
  \A t \in Tasks :
    /\ status[t] = "queued" ~> status[t] # "queued"
    /\ (\E w \in Workers : t \in running[w]) ~> (\A w \in Workers : t \notin running[w])

(***************************************************************************)
(* "Atomically claim queued tasks and mark them as running": a row that     *)
(* says running is in the hands of a worker.  (Checked without crashes.)    *)
(***************************************************************************)
RunningIsRun ==
  \A t \in Tasks :
    status[t] = "running" =>
      \E w \in Workers : t \in running[w] \/ \E c \in Calls : t \in batch[w][c]
=============================================================================
