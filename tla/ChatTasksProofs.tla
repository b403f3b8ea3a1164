--------------------------- MODULE ChatTasksProofs ---------------------------
(***************************************************************************)
(* The safety of the chat task queue for every set of rows, processes and   *)
(* concurrent claims.                                                       *)
(*                                                                          *)
(* None of the properties is inductive.  One owner needs that a row goes    *)
(* back to queued only while its images are being bound, before anyone      *)
(* claimed it (Untouched); a paid done needs what is known of the bill and  *)
(* of the message at each label of a run (Bill).                            *)
(***************************************************************************)
EXTENDS ChatTasks, FiniteSetTheorems, TLAPS

RunLabels == TurnLabels \union CatchLabels

\* A row nobody has claimed: it is in no batch and has never been started.
Untouched(t) ==
  /\ pc[t] = "none"
  /\ \A w \in Workers, c \in Calls : t \notin batch[w][c]

Queueing ==
  \A t \in Tasks :
    /\ status[t] \in {"absent", "pending", "queued"} \/ t \in binding => Untouched(t)
    /\ t \in binding => status[t] \in {"pending", "cancelled"}
    /\ runs[t] = IF pc[t] = "none" THEN 0 ELSE 1

\* Claims and runs exclude one another, and themselves.
Ownership ==
  \A t \in Tasks, v, w \in Workers :
    /\ t \in running[w] => pc[t] \in RunLabels
    /\ t \in running[v] /\ t \in running[w] => v = w
    /\ \A c \in Calls : t \in batch[w][c] => pc[t] = "none"
    /\ \A c, d \in Calls : t \in batch[v][c] /\ t \in batch[w][d] => v = w /\ c = d

Bill ==
  \A t \in Tasks :
    /\ pc[t] \in {"none", "turn", "imaging", "imaged", "answered", "billing"} => t \notin usage
    /\ pc[t] = "charging" => t \in usage
    /\ pc[t] = "closing" => (t \in usage => t \in charged)
    /\ pc[t] \in {"imaging", "imaged"} => t \in ImageTasks
    /\ t \notin ImageTasks /\ pc[t] \in {"billing", "charging", "closing"} =>
         message[t] # "streaming"
    /\ t \notin ImageTasks /\ status[t] = "done" =>
         pc[t] = "ended" /\ message[t] # "streaming" /\ (t \in usage => t \in charged)

IInv == TypeOK /\ Queueing /\ Ownership /\ Bill /\ ConcurrencyBounded
-----------------------------------------------------------------------------
LEMMA InitIInv == Init => IInv
<1> SUFFICES ASSUME Init PROVE IInv
  OBVIOUS
<1>1. TypeOK
  BY DEF Init, TypeOK, Status, Labels
<1>2. Queueing /\ Ownership /\ Bill
  BY DEF Init, Queueing, Untouched, Ownership, Bill
<1>3. ConcurrencyBounded
  BY FS_EmptySet, ChatTasksAssumption DEF Init, ConcurrencyBounded
<1> QED
  BY <1>1, <1>2, <1>3 DEF IInv

\* The routes.
LEMMA RouteStep ==
  ASSUME IInv, NEW t \in Tasks, Route(t)
  PROVE  IInv'
<1> USE DEF IInv, requests, stop, queue, bill, UpdateTaskStatus, UpdateMessage
<1>0. UNCHANGED <<batch, running, pc, runs, usage, charged>>
  BY DEF Route, CreateTask, BindImages, StopTask, CancelTask, FlagAndComplete
<1>1. TypeOK'
  BY <1>0 DEF TypeOK, Route, CreateTask, BindImages, StopTask, CancelTask, FlagAndComplete, Status
<1>2. Queueing'
  BY <1>0 DEF TypeOK, Queueing, Untouched, Route, CreateTask, BindImages, StopTask, CancelTask,
              FlagAndComplete
<1>3. Ownership' /\ ConcurrencyBounded'
  BY <1>0 DEF Ownership, ConcurrencyBounded
<1>4. Bill'
  BY <1>0 DEF TypeOK, Queueing, Untouched, Bill, Route, CreateTask, BindImages, StopTask, CancelTask,
              FlagAndComplete
<1> QED
  BY <1>1, <1>2, <1>3, <1>4

\* The steps of a run that leave it running.
GoesOn(t) ==
  \/ AnswerTurn(t) \/ CompleteAnswer(t) \/ SeeCancellation(t)
  \/ StartImage(t) \/ PublishImage(t) \/ FinishImage(t) \/ FailImage(t)
  \/ SkipBilling(t) \/ InsertUsageRecord(t) \/ SettleCharge(t)
  \/ Throw(t) \/ FailMessage(t)

LEMMA GoesOnStep ==
  ASSUME IInv, NEW t \in Tasks, GoesOn(t)
  PROVE  IInv'
<1> USE DEF IInv, requests, stop, queue, bill, UpdateTaskStatus, UpdateMessage, Goto
<1>0. /\ UNCHANGED <<binding, stopping, marking, flags, batch, running, runs>>
      /\ pc[t] \in RunLabels
      /\ \E l \in RunLabels : pc' = [pc EXCEPT ![t] = l]
      /\ \/ UNCHANGED status
         \/ t \in ImageTasks /\ \E s \in {"running", "done", "error"} : status' = [status EXCEPT ![t] = s]
  BY DEF GoesOn, AnswerTurn, CompleteAnswer, SeeCancellation, StartImage, PublishImage, FinishImage,
         FailImage, SkipBilling, InsertUsageRecord, SettleCharge, Throw, FailMessage,
         RunLabels, TurnLabels, CatchLabels, Bill
<1>1. TypeOK'
  <2>1. message' \in [Tasks -> {"streaming", "complete", "error"}]
    BY DEF GoesOn, AnswerTurn, CompleteAnswer, SeeCancellation, StartImage, PublishImage, FinishImage,
           FailImage, SkipBilling, InsertUsageRecord, SettleCharge, Throw, FailMessage, TypeOK
  <2>2. usage' \subseteq Tasks /\ charged' \subseteq usage'
    BY DEF GoesOn, AnswerTurn, CompleteAnswer, SeeCancellation, StartImage, PublishImage, FinishImage,
           FailImage, SkipBilling, InsertUsageRecord, SettleCharge, Throw, FailMessage, TypeOK, Bill
  <2>3. pc' \in [Tasks -> Labels] /\ status' \in [Tasks -> Status]
    BY <1>0 DEF TypeOK, RunLabels, Labels, Status
  <2> QED
    BY <1>0, <2>1, <2>2, <2>3 DEF TypeOK
<1>2. Queueing'
  BY <1>0 DEF TypeOK, Queueing, Untouched, RunLabels, TurnLabels, CatchLabels
<1>3. Ownership' /\ ConcurrencyBounded'
  BY <1>0 DEF TypeOK, Ownership, ConcurrencyBounded, RunLabels, TurnLabels, CatchLabels
<1>4. Bill'
  BY DEF GoesOn, AnswerTurn, CompleteAnswer, SeeCancellation, StartImage, PublishImage, FinishImage,
         FailImage, SkipBilling, InsertUsageRecord, SettleCharge, Throw, FailMessage,
         TurnLabels, TypeOK, Bill
<1> QED
  BY <1>1, <1>2, <1>3, <1>4

\* The steps that end a run.
Ends(t) == CloseTask(t) \/ FailTask(t) \/ AcknowledgeCancellation(t) \/ ThrowInCatch(t)

LEMMA EndsStep ==
  ASSUME IInv, NEW t \in Tasks, Ends(t)
  PROVE  IInv'
<1> USE DEF IInv, requests, stop, queue, bill, UpdateTaskStatus, UpdateMessage, Goto, EndRun
<1>0. /\ UNCHANGED <<binding, stopping, marking, flags, batch, runs, usage, charged>>
      /\ pc[t] \in RunLabels /\ pc' = [pc EXCEPT ![t] = "ended"]
      /\ running' = [w \in Workers |-> running[w] \ {t}]
      /\ \/ UNCHANGED status
         \/ \E s \in {"done", "error", "cancelled"} : status' = [status EXCEPT ![t] = s]
  BY DEF Ends, CloseTask, FailTask, AcknowledgeCancellation, ThrowInCatch,
         RunLabels, TurnLabels, CatchLabels
<1>1. TypeOK'
  <2>1. message' \in [Tasks -> {"streaming", "complete", "error"}]
    BY DEF Ends, CloseTask, FailTask, AcknowledgeCancellation, ThrowInCatch, TypeOK
  <2>2. status' \in [Tasks -> Status]
    BY <1>0 DEF TypeOK, Status
  <2>3. pc' \in [Tasks -> Labels] /\ running' \in [Workers -> SUBSET Tasks]
    BY <1>0 DEF TypeOK, Labels
  <2> QED
    BY <1>0, <2>1, <2>2, <2>3 DEF TypeOK
<1>2. Queueing'
  BY <1>0 DEF TypeOK, Queueing, Untouched, RunLabels, TurnLabels, CatchLabels
<1>3. Ownership'
  BY <1>0 DEF TypeOK, Ownership, RunLabels, TurnLabels, CatchLabels
<1>4. Bill'
  BY DEF Ends, CloseTask, FailTask, AcknowledgeCancellation, ThrowInCatch, CatchLabels, TypeOK, Bill
<1>5. ConcurrencyBounded'
  <2> SUFFICES ASSUME NEW w \in Workers PROVE Cardinality(running'[w]) <= MaxConcurrent
    BY DEF ConcurrencyBounded
  <2>1. IsFiniteSet(running[w]) /\ Cardinality(running[w]) \in Nat
    BY FS_Subset, FS_CardinalityType, ChatTasksAssumption DEF TypeOK
  <2>2. Cardinality(running[w] \ {t}) <= Cardinality(running[w])
        /\ Cardinality(running[w] \ {t}) \in Nat
    BY <2>1, FS_Subset, FS_CardinalityType
  <2> QED
    BY <1>0, <2>1, <2>2, ChatTasksAssumption DEF ConcurrencyBounded
<1> QED
  BY <1>1, <1>2, <1>3, <1>4, <1>5
-----------------------------------------------------------------------------
\* claimQueuedTasks, with its answer or without.
LEMMA ClaimStep ==
  ASSUME IInv, LoseClaimAnswer \/ \E w \in Workers, c \in Calls : ClaimQueuedTasks(w, c)
  PROVE  IInv'
<1> USE DEF IInv, requests, stop, queue, bill, Claimed
<1>0. UNCHANGED <<message, binding, stopping, marking, flags, running, pc, runs, usage, charged>>
      /\ status' = [t \in Tasks |-> IF t \in Picked THEN "running" ELSE status[t]]
  BY DEF LoseClaimAnswer, ClaimQueuedTasks
<1>1. \A t \in Picked : t \in Tasks /\ status[t] = "queued" /\ Untouched(t)
  BY DEF Picked, Queued, Queueing
<1>2. /\ batch' \in [Workers -> [Calls -> SUBSET Tasks]]
      /\ \A w \in Workers, c \in Calls : batch'[w][c] \in {batch[w][c], Picked}
      /\ \A v, w \in Workers, c, d \in Calls :
           batch'[v][c] # batch[v][c] /\ batch'[w][d] # batch[w][d] => v = w /\ c = d
  <2>1. CASE LoseClaimAnswer
    BY <2>1 DEF LoseClaimAnswer, TypeOK
  <2>2. CASE \E w \in Workers, c \in Calls : ClaimQueuedTasks(w, c)
    <3>1. PICK w \in Workers, c \in Calls : batch' = [batch EXCEPT ![w][c] = Picked]
      BY <2>2 DEF ClaimQueuedTasks
    <3>2. Picked \in SUBSET Tasks
      BY DEF Picked, Queued
    <3>3. batch' \in [Workers -> [Calls -> SUBSET Tasks]]
      BY <3>1, <3>2 DEF TypeOK
    <3>4. \A v \in Workers, d \in Calls :
            batch'[v][d] = IF v = w /\ d = c THEN Picked ELSE batch[v][d]
      BY <3>1 DEF TypeOK
    <3> QED
      BY <3>3, <3>4
  <2> QED
    BY <2>1, <2>2
<1>3. TypeOK'
  <2>1. status' \in [Tasks -> Status]
    BY <1>0 DEF TypeOK, Status
  <2> QED
    BY <1>0, <1>2, <2>1 DEF TypeOK
<1>4. Queueing'
  <2>1. \A t \in Tasks : (status'[t] \in {"absent", "pending", "queued"} \/ t \in binding)
                            => t \notin Picked /\ status'[t] = status[t]
    BY <1>0, <1>1 DEF TypeOK, Queueing
  <2>2. \A t \in Tasks : t \notin Picked /\ Untouched(t) => Untouched(t)'
    BY <1>0, <1>2 DEF Untouched
  <2>3. \A t \in Tasks : t \in binding => status'[t] \in {"pending", "cancelled"}
    BY <2>1 DEF Queueing
  <2> QED
    BY <1>0, <2>1, <2>2, <2>3 DEF Queueing
<1>5. Ownership'
  BY <1>0, <1>1, <1>2 DEF Ownership, Untouched
<1>6. Bill' /\ ConcurrencyBounded'
  BY <1>0, <1>1 DEF TypeOK, Bill, ConcurrencyBounded
<1> QED
  BY <1>3, <1>4, <1>5, <1>6

\* processClaimedTasks: the batch is started as far as there are free slots.
LEMMA ProcessStep ==
  ASSUME IInv, NEW w \in Workers, NEW c \in Calls, ProcessClaimedTasks(w, c)
  PROVE  IInv'
<1> USE DEF IInv, requests, stop, queue, bill
<1>1. PICK started \in SUBSET (batch[w][c] \ running[w]) :
        LET startable == Cardinality(batch[w][c] \ running[w])
        IN  /\ Cardinality(started) = IF startable < FreeSlots(w) THEN startable ELSE FreeSlots(w)
            /\ running' = [running EXCEPT ![w] = @ \union started]
            /\ pc' = [t \in Tasks |-> IF t \in started THEN "turn" ELSE pc[t]]
            /\ runs' = [t \in Tasks |-> IF t \in started THEN runs[t] + 1 ELSE runs[t]]
  BY DEF ProcessClaimedTasks
<1>2. /\ batch' = [batch EXCEPT ![w][c] = {}]
      /\ UNCHANGED <<status, message, binding, stopping, marking, flags, usage, charged>>
  BY DEF ProcessClaimedTasks
<1>3. \A t \in started : t \in Tasks /\ t \in batch[w][c] /\ pc[t] = "none" /\ runs[t] = 0
                         /\ t \notin usage
  BY DEF TypeOK, Ownership, Queueing, Bill
<1>4. TypeOK'
  BY <1>1, <1>2, <1>3 DEF TypeOK, Labels, TurnLabels
<1>5. Queueing'
  BY <1>1, <1>2, <1>3 DEF TypeOK, Queueing, Untouched
<1>6. Ownership'
  BY <1>1, <1>2, <1>3 DEF TypeOK, Ownership, RunLabels, TurnLabels, CatchLabels
<1>7. Bill'
  BY <1>1, <1>2, <1>3 DEF TypeOK, Bill
<1>8. ConcurrencyBounded'
  <2>1. /\ IsFiniteSet(running[w]) /\ Cardinality(running[w]) \in Nat
        /\ IsFiniteSet(started)
        /\ IsFiniteSet(running[w] \cap started) /\ Cardinality(running[w] \cap started) \in Nat
        /\ IsFiniteSet(batch[w][c] \ running[w]) /\ Cardinality(batch[w][c] \ running[w]) \in Nat
    <3>1. running[w] \subseteq Tasks /\ started \subseteq Tasks /\ batch[w][c] \subseteq Tasks
      BY <1>3 DEF TypeOK
    <3> QED
      BY <3>1, FS_Subset, FS_CardinalityType, ChatTasksAssumption
  <2>2. Cardinality(running[w] \union started)
          = Cardinality(running[w]) + Cardinality(started) - Cardinality(running[w] \cap started)
    BY <2>1, FS_Union
  <2>3. Cardinality(running[w]) + Cardinality(started) <= MaxConcurrent
    BY <1>1, <2>1, ChatTasksAssumption DEF FreeSlots, ConcurrencyBounded
  <2>4. Cardinality(started) \in Nat
    BY <2>1, FS_CardinalityType
  <2>5. Cardinality(running'[w]) <= MaxConcurrent
    BY <1>1, <2>1, <2>2, <2>3, <2>4, ChatTasksAssumption DEF TypeOK
  <2> QED
    BY <1>1, <2>5 DEF TypeOK, ConcurrencyBounded
<1> QED
  BY <1>4, <1>5, <1>6, <1>7, <1>8

\* A process dies with its claims and its runs.
LEMMA CrashStep ==
  ASSUME IInv, NEW w \in Workers, Crash(w)
  PROVE  IInv'
<1> USE DEF IInv, requests, stop, bill
<1>1. TypeOK'
  BY DEF TypeOK, Crash, Labels
<1>2. \A v \in Workers :
        /\ running'[v] = (IF v = w THEN {} ELSE running[v])
        /\ \A c \in Calls : batch'[v][c] = (IF v = w THEN {} ELSE batch[v][c])
  BY DEF TypeOK, Crash
<1>3. Queueing' /\ Ownership'
  <2>1. \A t \in Tasks :
          /\ pc'[t] = (IF t \in running[w] THEN "dead" ELSE pc[t])
          /\ t \in running[w] => pc[t] # "none"
    BY DEF TypeOK, Crash, Ownership, RunLabels, TurnLabels, CatchLabels
  <2>2. Queueing'
    BY <1>2, <2>1 DEF TypeOK, Crash, Queueing, Untouched
  <2>3. Ownership'
    BY <1>2, <2>1 DEF TypeOK, Ownership
  <2> QED
    BY <2>2, <2>3
<1>4. Bill'
  BY DEF TypeOK, Crash, Bill, Ownership, RunLabels, TurnLabels, CatchLabels
<1>5. ConcurrencyBounded'
  BY FS_EmptySet, ChatTasksAssumption DEF TypeOK, Crash, ConcurrencyBounded
<1> QED
  BY <1>1, <1>3, <1>4, <1>5

LEMMA StutterStep == ASSUME IInv, UNCHANGED vars PROVE IInv'
  BY DEF vars, IInv, TypeOK, Queueing, Untouched, Ownership, Bill, ConcurrencyBounded

LEMMA NextIInv == IInv /\ [Next]_vars => IInv'
<1> SUFFICES ASSUME IInv, [Next]_vars PROVE IInv'
  OBVIOUS
<1>1. ASSUME NEW t \in Tasks, Route(t) PROVE IInv'
  BY <1>1, RouteStep
<1>2. ASSUME NEW t \in Tasks, Run(t) \/ Throw(t) PROVE IInv'
  BY <1>2, GoesOnStep, EndsStep DEF Run, Turn, CatchBlock, GoesOn, Ends
<1>3. ASSUME NEW w \in Workers, Crash(w) \/ \E c \in Calls : ProcessClaimedTasks(w, c) PROVE IInv'
  BY <1>3, CrashStep, ProcessStep
<1>4. CASE LoseClaimAnswer \/ \E w \in Workers, c \in Calls : ClaimQueuedTasks(w, c)
  BY <1>4, ClaimStep
<1>5. CASE UNCHANGED vars
  BY <1>5, StutterStep
<1> QED
  BY <1>1, <1>2, <1>3, <1>4, <1>5 DEF Next, Work

\* Every reachable state satisfies the invariant.
LEMMA Invariance == Spec => []IInv
  BY InitIInv, NextIInv, PTL DEF Spec
-----------------------------------------------------------------------------
\* Types, for any tasks, processes and limits; in particular no task is ever
\* started twice, and nothing is charged that has no usage row.
THEOREM TypesHold == Spec => []TypeOK
<1>1. IInv => TypeOK
  BY DEF IInv
<1> QED
  BY <1>1, Invariance, PTL

\* A task is in the hands of one claim or one run (claimQueuedTasks,
\* processClaimedTasks), for any number of processes and concurrent claims.
THEOREM TasksHaveOneOwner == Spec => []OneOwner
<1>1. IInv => OneOwner
  <2> SUFFICES ASSUME IInv, NEW t \in Tasks
               PROVE  Cardinality({w \in Workers : t \in running[w]})
                        + Cardinality({p \in Workers \X Calls : t \in batch[p[1]][p[2]]}) <= 1
    BY DEF OneOwner
  <2> DEFINE R == {w \in Workers : t \in running[w]}
             B == {p \in Workers \X Calls : t \in batch[p[1]][p[2]]}
  <2>1. R = {} \/ \E w \in Workers : R = {w}
    BY DEF IInv, Ownership
  <2>2. B = {} \/ \E p \in Workers \X Calls : B = {p}
    BY DEF IInv, Ownership
  <2>3. R = {} \/ B = {}
    BY DEF IInv, Ownership, RunLabels, TurnLabels, CatchLabels
  <2>4. (R = {} => Cardinality(R) = 0) /\ (R # {} => Cardinality(R) = 1)
    BY <2>1, FS_EmptySet, FS_Singleton
  <2>5. (B = {} => Cardinality(B) = 0) /\ (B # {} => Cardinality(B) = 1)
    BY <2>2, FS_EmptySet, FS_Singleton
  <2> HIDE DEF R, B
  <2>6. Cardinality(R) + Cardinality(B) <= 1
    BY <2>3, <2>4, <2>5
  <2> QED
    BY <2>6 DEF R, B
<1> QED
  BY <1>1, Invariance, PTL

\* No process runs more than its limit of tasks (the loop of
\* processClaimedTasks breaks), however many claims it has in flight.
THEOREM ConcurrencyIsBounded == Spec => []ConcurrencyBounded
<1>1. IInv => ConcurrencyBounded
  BY DEF IInv
<1> QED
  BY <1>1, Invariance, PTL

\* No text task says done unless it was answered and, if metered, charged
\* (persistBillingUsage before the closing update), for any interleaving of
\* stops, crashes and failures.
THEOREM DoneTasksArePaid == Spec => []DoneIsPaid
<1>1. IInv => DoneIsPaid
  BY DEF IInv, Bill, DoneIsPaid
<1> QED
  BY <1>1, Invariance, PTL
=============================================================================
