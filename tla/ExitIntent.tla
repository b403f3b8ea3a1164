----------------------------- MODULE ExitIntent -----------------------------
(***************************************************************************)
(* The durable exit intents of copy trading: position_exit_intents rows     *)
(* (copytrade-v2/exit/positionExitIntentStore.ts), the Redis queue that      *)
(* points at them (positionExitIntentQueue.ts), the lane workers that claim  *)
(* and execute them (positionExitIntentWorker.ts), the in-flight keys that   *)
(* back the claims up (exitIntentIdempotency.ts), and the monitor's          *)
(* reconciler that archives the position of a failed intent                  *)
(* (runtime/terminalExitGhostPositionReconciler.ts).                         *)
(*                                                                           *)
(* One position, and the intents to sell it.  Several processes, each with   *)
(* one job at a time; every database or Redis call of a job is a step of its *)
(* own.  Time passes nondeterministically: a deadline that passes while the  *)
(* job that relies on it is still at work is counted as a lapse.             *)
(***************************************************************************)
EXTENDS Integers, FiniteSets

CONSTANTS
  Intents,      \* intents of the position, by identity key
  Workers,      \* processes
  MaxRetry,     \* COPYTRADE_EXIT_INTENT_QUEUE_RETRY_LIMIT
  MaxLapses,    \* bound: deadlines that pass while a job is at work
  MaxFaults     \* bound: crashes, and losses of the Redis queue

ASSUME ExitIntentAssumption ==
  /\ Intents # {}
  /\ {MaxRetry, MaxLapses, MaxFaults} \subseteq Nat

VARIABLES
  intent,    \* the rows
  queued,    \* the Redis queue
  job,       \* what each process is doing
  local,     \* inflightKeys of each process
  key,       \* copytrade:exit:inflight:<identity>, in Redis
  cool,      \* copytrade:exit:cooldown:<identity>
  position,  \* the position
  sale,      \* fate of the last sale that was sent and not seen to confirm
  attempts,  \* history: executions of each intent
  lapses,    \* lapses so far
  faults     \* faults so far

vars == <<intent, queued, job, local, key, cool, position, sale, attempts, lapses, faults>>
-----------------------------------------------------------------------------
ActiveStates   == {"created", "precheck_ready", "submitting", "pending_finality", "retryable"}
TerminalStates == {"confirmed", "failed_terminal", "closed_dust"}

Lanes == {"exit", "confirmation"}

\* queueRetryCount, up to the first value beyond the limit.
Counts == 0 .. MaxRetry + 1

\* The history stops counting when the bound below is exceeded.
MaxAttempts == MaxRetry + MaxFaults + 2

Rows == [state : ActiveStates \union TerminalStates \union {"absent"},
         lane : Lanes, notBefore : BOOLEAN, claim : {"none", "fresh", "stale"},
         count : Counts]

NoRow == [state |-> "absent", lane |-> "exit", notBefore |-> FALSE,
          claim |-> "none", count |-> 0]

\* What a job will write: markIntentRetryable, markIntentTerminal or
\* updatePositionExitIntentState, and the finality it settles with.
NoVerdict == [state |-> "absent", lane |-> "exit", count |-> 0, archive |-> FALSE]

NoCopy == [state |-> "absent", lane |-> "exit", count |-> 0]

\* A job that has neither claimed the execution nor decided anything.
At(pc, i, row, popped) ==
  [pc |-> pc, of |-> i, row |-> row, popped |-> popped,
   owner |-> FALSE, settles |-> FALSE, verdict |-> NoVerdict]

AnyIntent == CHOOSE i \in Intents : TRUE

Idle     == At("idle", AnyIntent, NoCopy, FALSE)
Scanning == At("scan", AnyIntent, NoCopy, FALSE)

Init ==
  /\ intent = [i \in Intents |-> NoRow]
  /\ queued = {}
  /\ job = [w \in Workers |-> Idle]
  /\ local = [w \in Workers |-> {}]
  /\ key = {} /\ cool = {}
  /\ position \in [status : {"unconfirmed", "open"}, dust : {FALSE}]
  /\ sale = "none"
  /\ attempts = [i \in Intents |-> 0]
  /\ lapses = 0 /\ faults = 0

Active(i) == intent[i].state \in ActiveStates
-----------------------------------------------------------------------------
(***************************************************************************)
(* enqueuePositionExitIntent: one row per identity key; adding it to the    *)
(* queue is best effort.                                                    *)
(***************************************************************************)
EnqueuePositionExitIntent(i) ==
  /\ intent[i].state = "absent" /\ position.status \in {"unconfirmed", "open"}
  /\ intent' = [intent EXCEPT ![i].state = "created"]
  /\ queued' \in {queued, queued \union {i}}
  /\ UNCHANGED <<job, local, key, cool, position, sale, attempts, lapses, faults>>

(***************************************************************************)
(* claimPendingExitIntents.  The queue hands out what is due; the rows are  *)
(* read, and each is claimed by an update whose condition is evaluated      *)
(* again by the database.                                                   *)
(***************************************************************************)
Due(i) == Active(i) /\ ~intent[i].notBefore

Step(w, pc) == job' = [job EXCEPT ![w].pc = pc]

\* What a job keeps of a row.
Read(i) == [state |-> intent[i].state, lane |-> intent[i].lane, count |-> intent[i].count]

Take(w, i, popped) == job' = [job EXCEPT ![w] = At("candidate", i, Read(i), popped)]

KeepIntents == UNCHANGED <<intent, queued>>
KeepKeys    == UNCHANGED <<local, key, cool>>
KeepWorld   == UNCHANGED <<position, sale, attempts, lapses, faults>>

PopQueue(w, i) ==
  /\ job[w].pc = "idle"
  /\ i \in queued /\ ~intent[i].notBefore
  /\ queued' = queued \ {i}
  /\ IF Active(i) THEN Take(w, i, TRUE)
     ELSE job' = [job EXCEPT ![w] = Scanning]
  /\ UNCHANGED intent /\ KeepKeys /\ KeepWorld

\* (mutation) a claim is never taken over
UnclaimedOnly(row) == row.claim = "none"

Claimable(row) == row.claim \in {"none", "stale"}

\* The database is scanned when the queue gave nothing that could be claimed.
ScanRows(w, i) ==
  /\ \/ job[w].pc = "scan"
     \/ job[w].pc = "idle" /\ \A j \in queued : intent[j].notBefore
  /\ Due(i) /\ Claimable(intent[i])
  /\ Take(w, i, FALSE)
  /\ KeepIntents /\ KeepKeys /\ KeepWorld

ScanFindsNothing(w) ==
  /\ job[w].pc = "scan"
  /\ \A i \in Intents : ~(Due(i) /\ Claimable(intent[i]))
  /\ job' = [job EXCEPT ![w] = Idle]
  /\ KeepIntents /\ KeepKeys /\ KeepWorld

\* (mutation) the update is conditional on the row's identity alone
ClaimAnyway(i) == Active(i)

CanClaim(i) == Active(i) /\ Claimable(intent[i])

Claim(w) ==
  LET i == job[w].of
      readState == job[w].row.state
      state == IF readState = "created" THEN "precheck_ready" ELSE readState
      copy  == [job[w].row EXCEPT !.state = "absent"]
  IN  /\ job[w].pc = "candidate"
      /\ IF CanClaim(i)
         THEN /\ intent' = [intent EXCEPT ![i] = [@ EXCEPT !.state = state, !.claim = "fresh"]]
              /\ job' = [job EXCEPT ![w] = At("claimed", i, copy, FALSE)]
              /\ UNCHANGED queued
         ELSE /\ queued' = IF job[w].popped THEN queued \union {i} ELSE queued
              /\ job' = [job EXCEPT ![w] = IF job[w].popped THEN Scanning ELSE Idle]
              /\ UNCHANGED intent
      /\ KeepKeys /\ KeepWorld
-----------------------------------------------------------------------------
(***************************************************************************)
(* What processExitIntent decides, always from the row as it was claimed.   *)
(***************************************************************************)
ToWrite(w, verdict) ==
  [pc |-> "write", of |-> job[w].of, row |-> NoCopy, popped |-> FALSE, owner |-> FALSE,
   settles |-> job[w].owner \/ job[w].row.lane = "confirmation", verdict |-> verdict]

Verdict(w, state) ==
  [state |-> state, lane |-> job[w].row.lane, count |-> job[w].row.count, archive |-> FALSE]

NextCount(w) == IF job[w].row.count <= MaxRetry THEN job[w].row.count + 1 ELSE MaxRetry + 1

\* (mutation) a retry is not counted
RetryUncounted(w, lane) == [Verdict(w, "retryable") EXCEPT !.lane = lane]

Retry(w, lane) == [state |-> "retryable", lane |-> lane, count |-> NextCount(w),
                   archive |-> FALSE]

\* markIntentRetryable while the budget lasts, markIntentTerminal after it.
RetryWithinBudget(w, lane) ==
  IF NextCount(w) > MaxRetry THEN Verdict(w, "failed_terminal") ELSE Retry(w, lane)

\* claimExitIntentExecution
Held(w, i) == i \in local[w] \union key

ClaimExitIntentExecution(w) ==
  LET i == job[w].of
  IN  /\ job[w].pc = "claimed" /\ job[w].row.lane = "exit"
      /\ IF Held(w, i) \/ i \in cool
         THEN /\ job' = [job EXCEPT ![w] = ToWrite(w, RetryWithinBudget(w, "exit"))]
              /\ KeepKeys
         ELSE /\ job' = [job EXCEPT ![w].pc = "submit", ![w].owner = TRUE]
              /\ local' = [local EXCEPT ![w] = @ \union {i}]
              /\ key' = key \union {i}
              /\ UNCHANGED cool
      /\ KeepIntents /\ KeepWorld

\* Unconditional, and the claim is not renewed.
Submit(w) ==
  /\ job[w].pc = "submit"
  /\ intent' = [intent EXCEPT ![job[w].of].state = "submitting"]
  /\ Step(w, "load")
  /\ UNCHANGED queued /\ KeepKeys /\ KeepWorld

Decide(w, verdict) ==
  /\ job' = [job EXCEPT ![w] = ToWrite(w, verdict)]
  /\ KeepIntents /\ KeepKeys /\ UNCHANGED <<attempts, lapses, faults>>

LoadPosition(w) ==
  /\ job[w].pc = "load"
  /\ \/ /\ position.status = "closed"
        /\ Decide(w, Verdict(w, "confirmed")) /\ UNCHANGED <<position, sale>>
     \/ /\ position.status = "failed_final"
        /\ Decide(w, Verdict(w, "failed_terminal")) /\ UNCHANGED <<position, sale>>
     \* The buy is awaited, whatever the budget.
     \/ /\ position.status = "unconfirmed"
        /\ Decide(w, Retry(w, "exit")) /\ UNCHANGED <<position, sale>>
     \* The worker itself sees it confirmed, and goes on with the position
     \* it has read, which was not open.
     \/ /\ position.status = "unconfirmed"
        /\ Decide(w, Verdict(w, "failed_terminal"))
        /\ position' = [position EXCEPT !.status = "open"] /\ UNCHANGED sale
     \/ /\ position.status = "open"
        /\ Step(w, "sell")
        /\ attempts' = [attempts EXCEPT ![job[w].of] = IF @ < MaxAttempts THEN @ + 1 ELSE @]
        /\ KeepIntents /\ KeepKeys /\ UNCHANGED <<position, sale, lapses, faults>>
-----------------------------------------------------------------------------
(***************************************************************************)
(* executePositionExit, its retries within the job, and the position read   *)
(* again after it.                                                          *)
(***************************************************************************)
Sell(w) == job[w].pc = "sell"

\* persistSuccessfulExit, whatever the position has become
SaleConfirms(w) ==
  /\ Sell(w)
  /\ position' = [position EXCEPT !.status = "closed"] /\ UNCHANGED sale
  /\ Decide(w, Verdict(w, "confirmed"))

\* What the job decides when the call returned no transaction.
WithoutTx(w, p, s) ==
  IF p.dust THEN Verdict(w, "closed_dust")
  ELSE IF p.status = "failed_final" THEN Verdict(w, "failed_terminal")
  ELSE IF s # "none" \/ p.status = "closed"
       THEN [Verdict(w, "pending_finality") EXCEPT !.lane = "confirmation"]
  ELSE RetryWithinBudget(w, "exit")

\* persistPendingExitFinalityState, of a position that is still open
SaleSent(w) ==
  /\ Sell(w)
  /\ sale' = IF position.status = "open" THEN "pending" ELSE sale
  /\ UNCHANGED position
  /\ Decide(w, WithoutTx(w, position, sale'))

\* reconcileNoopExitPosition, of a position that is still open
NothingToSell(w) ==
  /\ Sell(w)
  /\ position' = IF position.status = "open"
                 THEN [position EXCEPT !.status = "closed", !.dust = TRUE] ELSE position
  /\ UNCHANGED sale
  /\ Decide(w, WithoutTx(w, position', sale))

\* keep_open, and a mirror sell another call is at work on
SaleSkipped(w) ==
  /\ Sell(w)
  /\ Decide(w, WithoutTx(w, position, sale)) /\ UNCHANGED <<position, sale>>

\* classifyExitIntentExecutionError: deferred and transient errors ...
SaleFailsForNow(w) ==
  /\ Sell(w)
  /\ Decide(w, RetryWithinBudget(w, "exit")) /\ UNCHANGED <<position, sale>>

\* ... and those no retry helps, of which some archive the position.
SaleFailsForGood(w) ==
  /\ Sell(w)
  /\ \E archive \in BOOLEAN :
       Decide(w, [Verdict(w, "failed_terminal") EXCEPT !.archive = archive])
  /\ UNCHANGED <<position, sale>>

ExecutePositionExit(w) ==
  \/ SaleConfirms(w) \/ SaleSent(w) \/ NothingToSell(w)
  \/ SaleSkipped(w) \/ SaleFailsForNow(w) \/ SaleFailsForGood(w)
-----------------------------------------------------------------------------
(***************************************************************************)
(* processConfirmationIntent.  The observation may come to nothing; a sale  *)
(* seen to succeed is left to the projection, a sale nobody has seen is     *)
(* sold again while the budget lasts.                                       *)
(***************************************************************************)
ClosedAs(p) == IF p.dust THEN "closed_dust" ELSE "confirmed"

\* (mutation) a sale seen to succeed is taken for a closed position
ConfirmSeen(w) == Verdict(w, "confirmed")

AwaitProjection(w) == [Verdict(w, "retryable") EXCEPT !.lane = "confirmation"]

ProcessConfirmationIntent(w) ==
  /\ job[w].pc = "claimed" /\ job[w].row.lane = "confirmation"
  /\ \/ /\ position.status = "closed"
        /\ Decide(w, Verdict(w, ClosedAs(position)))
     \/ /\ position.status # "closed" /\ sale = "succeeded"
        /\ Decide(w, AwaitProjection(w))
     \/ /\ position.status # "closed" /\ sale = "failed"
        /\ Decide(w, Verdict(w, "failed_terminal"))
     \/ /\ position.status # "closed"
        /\ Decide(w, RetryWithinBudget(w, "exit"))
  /\ UNCHANGED <<position, sale>>

(***************************************************************************)
(* The verdict is written without a condition: a row another job has closed *)
(* is active again if this job says so.  A closed row leaves the queue, an  *)
(* active one enters it.                                                    *)
(***************************************************************************)
Archived(p) ==
  IF p.status \in {"unconfirmed", "open"} THEN [p EXCEPT !.status = "failed_final"] ELSE p

Settling(w) ==
  [job[w] EXCEPT !.pc = "settle",
                 !.verdict = [NoVerdict EXCEPT !.state = job[w].verdict.state]]

UpdatePositionExitIntentState(w) ==
  LET i == job[w].of
      v == job[w].verdict
      closes == v.state \in TerminalStates
  IN  /\ job[w].pc = "write"
      /\ intent' = [intent EXCEPT ![i] =
           [state     |-> v.state,
            lane      |-> IF closes THEN @.lane ELSE v.lane,
            notBefore |-> IF closes THEN @.notBefore ELSE TRUE,
            claim     |-> "none",
            count     |-> IF v.state \in {"failed_terminal", "retryable"} THEN v.count
                          ELSE @.count]]
      /\ queued' = IF closes THEN queued \ {i} ELSE queued \union {i}
      /\ position' = IF v.archive THEN Archived(position) ELSE position
      /\ job' = [job EXCEPT ![w] = IF @.settles THEN Settling(w) ELSE Idle]
      /\ KeepKeys /\ UNCHANGED <<sale, attempts, lapses, faults>>

\* settleExitIntentExecution: the key is deleted, whoever has set it.
SettleExitIntentExecution(w) ==
  LET i == job[w].of
  IN  /\ job[w].pc = "settle"
      /\ local' = [local EXCEPT ![w] = @ \ {i}]
      /\ key' = key \ {i}
      /\ cool' = IF job[w].verdict.state \in TerminalStates THEN cool \ {i} ELSE cool \union {i}
      /\ job' = [job EXCEPT ![w] = Idle]
      /\ KeepIntents /\ KeepWorld
-----------------------------------------------------------------------------
(***************************************************************************)
(* Time.                                                                    *)
(***************************************************************************)
AtWork(i) == \E w \in Workers : job[w].of = i /\ job[w].pc \notin {"idle", "scan"}

Lapse(while) ==
  /\ while => lapses < MaxLapses
  /\ lapses' = IF while THEN lapses + 1 ELSE lapses

NotBeforePasses(i) ==
  /\ intent[i].notBefore /\ Active(i)
  /\ Lapse(AtWork(i))
  /\ intent' = [intent EXCEPT ![i].notBefore = FALSE]
  /\ UNCHANGED <<queued, job, position, sale, attempts, faults>> /\ KeepKeys

\* The claim is older than staleClaimMs, 120 s.
ClaimAges(i) ==
  /\ intent[i].claim = "fresh"
  /\ Lapse(AtWork(i))
  /\ intent' = [intent EXCEPT ![i].claim = "stale"]
  /\ UNCHANGED <<queued, job, position, sale, attempts, faults>> /\ KeepKeys

\* REDIS_INFLIGHT_TTL_SEC, 180 s.
KeyExpires(i) ==
  /\ i \in key
  /\ Lapse(\E w \in Workers : i \in local[w])
  /\ key' = key \ {i}
  /\ UNCHANGED <<intent, queued, job, local, cool, position, sale, attempts, faults>>

CooldownEnds(i) ==
  /\ i \in cool /\ cool' = cool \ {i}
  /\ Lapse(AtWork(i))
  /\ UNCHANGED <<intent, queued, job, local, key, position, sale, attempts, faults>>

Time(i) == NotBeforePasses(i) \/ ClaimAges(i) \/ KeyExpires(i) \/ CooldownEnds(i)

(***************************************************************************)
(* Faults: a process dies and is started again; Redis loses the queue.      *)
(***************************************************************************)
Crash(w) ==
  /\ faults < MaxFaults /\ faults' = faults + 1
  /\ job[w] # Idle
  /\ job' = [job EXCEPT ![w] = Idle]
  /\ local' = [local EXCEPT ![w] = {}]
  /\ UNCHANGED <<intent, queued, key, cool, position, sale, attempts, lapses>>

LoseQueue ==
  /\ faults < MaxFaults /\ faults' = faults + 1
  /\ queued # {} /\ queued' = {}
  /\ UNCHANGED <<intent, job, local, key, cool, position, sale, attempts, lapses>>

(***************************************************************************)
(* The chain, and what the rest of copy trading does to the position.       *)
(***************************************************************************)
KeepExits == UNCHANGED <<intent, queued, job, local, key, cool, attempts, lapses, faults>>

BuyConfirms ==
  /\ position.status = "unconfirmed"
  /\ position' = [position EXCEPT !.status = "open"]
  /\ UNCHANGED sale /\ KeepExits

SaleSettles ==
  /\ sale = "pending" /\ sale' \in {"succeeded", "failed"}
  /\ UNCHANGED position /\ KeepExits

\* syncOrderProjections, after the sale has been observed
ProjectionCloses ==
  /\ position.status = "open" /\ sale = "succeeded"
  /\ position' = [position EXCEPT !.status = "closed"]
  /\ UNCHANGED sale /\ KeepExits

\* reconcileTerminalExitGhostPosition, in the monitor's round
ReconcileTerminalExitGhostPosition(i) ==
  /\ position.status = "open" /\ intent[i].state = "failed_terminal"
  /\ position' = Archived(position)
  /\ UNCHANGED sale /\ KeepExits
-----------------------------------------------------------------------------
Work(w) ==
  \/ \E i \in Intents : PopQueue(w, i) \/ ScanRows(w, i)
  \/ ScanFindsNothing(w) \/ Claim(w)
  \/ ClaimExitIntentExecution(w) \/ Submit(w) \/ LoadPosition(w)
  \/ ExecutePositionExit(w) \/ ProcessConfirmationIntent(w)
  \/ UpdatePositionExitIntentState(w) \/ SettleExitIntentExecution(w)

Next ==
  \/ \E i \in Intents : EnqueuePositionExitIntent(i) \/ Time(i)
                        \/ ReconcileTerminalExitGhostPosition(i)
  \/ \E w \in Workers : Work(w) \/ Crash(w)
  \/ LoseQueue \/ BuyConfirms \/ SaleSettles \/ ProjectionCloses

Spec == Init /\ [][Next]_vars

(***************************************************************************)
(* Lanes are polled every 800 ms and every call of a job has a timeout;     *)
(* deadlines pass; a transaction is mined or dropped, and projected.        *)
(***************************************************************************)
FairSpec ==
  /\ Spec
  /\ \A w \in Workers : WF_vars(Work(w))
  /\ \A i \in Intents : WF_vars(NotBeforePasses(i)) /\ WF_vars(ClaimAges(i))
                        /\ WF_vars(KeyExpires(i)) /\ WF_vars(CooldownEnds(i))
  /\ WF_vars(BuyConfirms) /\ WF_vars(SaleSettles) /\ WF_vars(ProjectionCloses)
-----------------------------------------------------------------------------
(***************************************************************************)
(* The claim on the row and the in-flight key back each other up: as long   *)
(* as at most one deadline has passed under a job at work, no two processes *)
(* execute the same exit, in spite of crashes and of the lanes an intent    *)
(* moves through.                                                           *)
(***************************************************************************)
Executing(w, i) == job[w].of = i /\ job[w].owner

OneSeller ==
  lapses <= 1 => \A i \in Intents : Cardinality({w \in Workers : Executing(w, i)}) <= 1

(***************************************************************************)
(* An exit that is reported as done is done: the position is closed.        *)
(***************************************************************************)
ConfirmedIsClosed ==
  \A i \in Intents :
    intent[i].state \in {"confirmed", "closed_dust"} => position.status = "closed"

(***************************************************************************)
(* As long as no deadline has passed under a job at work, the retry limit   *)
(* limits the executions of an intent, through every lane, crash and loss   *)
(* of the queue; a fault grants one execution more.                         *)
(*                                                                          *)
(* The premise is needed: after one lapse two jobs can undo each other's    *)
(* verdicts for ever (each write clears the claim of the other, Submit      *)
(* revives a failed intent), and TLC shows executions without a bound.      *)
(***************************************************************************)
AttemptsBounded ==
  lapses = 0 => \A i \in Intents : attempts[i] <= MaxRetry + 1 + faults

(***************************************************************************)
(* Under the same premise every exit intent ends and stays ended:           *)
(* confirmed, failed or closed as dust, whatever crashes and losses of the  *)
(* queue it meets.                                                          *)
(***************************************************************************)
EveryExitEnds == <>[](lapses = 0 => \A i \in Intents : ~Active(i))
=============================================================================
