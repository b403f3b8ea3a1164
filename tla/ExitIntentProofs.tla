-------------------------- MODULE ExitIntentProofs --------------------------
(***************************************************************************)
(* What an exit intent says of its position, who sells it, and how often:   *)
(* for any number of intents and of processes, any retry limit, and any     *)
(* number of lapses and faults.                                             *)
(*                                                                          *)
(* That a row is done is written long after it was found out, without a     *)
(* condition, and over whatever another job has written: the invariant      *)
(* therefore also speaks of the verdicts that jobs still carry              *)
(* (VerdictsHold), and of the states they have read and will write back     *)
(* with a claim (CandidatesAreActive).                                      *)
(*                                                                          *)
(* There is one seller because two things exclude a second one, the claim   *)
(* (OneHolder) and the in-flight key with the lane of the row (OneOwner),   *)
(* and one lapse takes away at most one of them (Guarded). The attempts are *)
(* bounded because while nothing lapses the count of the row, the copies of *)
(* it and the verdicts still to be written keep up with the executions      *)
(* (Budget).                                                                *)
(***************************************************************************)
EXTENDS ExitIntent, FiniteSetTheorems, TLAPS

States == ActiveStates \union TerminalStates \union {"absent"}

Copies   == [state : States, lane : Lanes, count : Counts]
Verdicts == [state : States, lane : Lanes, count : Counts, archive : BOOLEAN]

Jobs == [pc : {"idle", "scan", "candidate", "claimed", "submit", "load", "sell",
               "write", "settle"},
         of : Intents, row : Copies, popped : BOOLEAN, owner : BOOLEAN,
         settles : BOOLEAN, verdict : Verdicts]

Positions == [status : {"unconfirmed", "open", "closed", "failed_final"}, dust : BOOLEAN]

Typed == /\ intent \in [Intents -> Rows]
         /\ job \in [Workers -> Jobs]
         /\ position \in Positions

Done == {"confirmed", "closed_dust"}

\* A position that was closed as dust is closed.
DustIsClosed == position.dust => position.status = "closed"

\* A job that is about to write that the exit is done is right.
VerdictsHold ==
  \A w \in Workers : job[w].pc = "write" /\ job[w].verdict.state \in Done
                       => position.status = "closed"

\* A claim, which writes the state that was read, never writes a final one.
CandidatesAreActive ==
  \A w \in Workers : job[w].pc = "candidate" => job[w].row.state \in ActiveStates

IInv == Typed /\ DustIsClosed /\ VerdictsHold /\ CandidatesAreActive /\ ConfirmedIsClosed
-----------------------------------------------------------------------------
LEMMA IdleTyped == /\ Idle \in Jobs /\ Idle.pc = "idle"
                   /\ Scanning \in Jobs /\ Scanning.pc = "scan"
<1>1. (CHOOSE i \in Intents : TRUE) \in Intents
  BY ExitIntentAssumption
<1>2. 0 \in Counts
  BY ExitIntentAssumption DEF Counts
<1> QED
  BY <1>1, <1>2 DEF AnyIntent, At, Idle, Scanning, Jobs, Copies, Verdicts, NoCopy, NoVerdict, States, Lanes

LEMMA InitHolds == Init => IInv
<1> SUFFICES ASSUME Init PROVE IInv
  OBVIOUS
<1>1. 0 \in Counts
  BY ExitIntentAssumption DEF Counts
<1> QED
  BY <1>1, IdleTyped DEF Init, IInv, Typed, DustIsClosed, VerdictsHold, CandidatesAreActive,
     ConfirmedIsClosed, NoRow, Rows, Lanes, Positions, ActiveStates, TerminalStates, Done

LEMMA NextCountTyped ==
  ASSUME Typed, NEW w \in Workers
  PROVE  NextCount(w) \in Counts
BY ExitIntentAssumption DEF Typed, Jobs, Copies, Counts, NextCount

LEMMA VerdictTyped ==
  ASSUME Typed, NEW w \in Workers, NEW s \in States
  PROVE  Verdict(w, s) \in Verdicts /\ Verdict(w, s).state = s
BY DEF Typed, Jobs, Copies, Verdicts, Verdict, NoVerdict

LEMMA RetryTyped ==
  ASSUME Typed, NEW w \in Workers, NEW lane \in Lanes
  PROVE  /\ RetryWithinBudget(w, lane) \in Verdicts
         /\ RetryWithinBudget(w, lane).state \notin Done
         /\ Retry(w, lane) \in Verdicts /\ Retry(w, lane).state \notin Done
<1>1. "retryable" \in States /\ "failed_terminal" \in States
  BY DEF States, ActiveStates, TerminalStates
<1>2. Verdict(w, "retryable") \in Verdicts /\ Verdict(w, "retryable").state = "retryable"
  BY <1>1, VerdictTyped
<1>3. Verdict(w, "failed_terminal") \in Verdicts
      /\ Verdict(w, "failed_terminal").state = "failed_terminal"
  BY <1>1, VerdictTyped
<1>4. Retry(w, lane) \in Verdicts /\ Retry(w, lane).state = "retryable"
  BY <1>2, NextCountTyped DEF Retry, Verdicts
<1> QED
  BY <1>3, <1>4 DEF RetryWithinBudget, Done

\* A decision keeps the invariant if what it says of the position is true.
LEMMA DecisionsKeep ==
  ASSUME IInv, NEW w \in Workers, NEW v \in Verdicts, Decide(w, v),
         position' \in Positions, DustIsClosed',
         position.status = "closed" => position'.status = "closed",
         v.state \in Done => position'.status = "closed"
  PROVE  IInv'
<1> DEFINE j == ToWrite(w, v)
<1>1. j \in Jobs /\ j.pc = "write" /\ j.verdict = v
  <2>1. NoCopy \in Copies
    BY ExitIntentAssumption DEF NoCopy, Copies, States, Lanes, Counts
  <2> QED
    BY <2>1 DEF IInv, Typed, Jobs, ToWrite
<1>2. job' = [job EXCEPT ![w] = j] /\ intent' = intent
  BY DEF Decide, KeepIntents
<1> HIDE DEF j
<1> QED
  BY <1>1, <1>2 DEF IInv, Typed, VerdictsHold, CandidatesAreActive, ConfirmedIsClosed

\* What the job says is true of the position, which only ever gets closed.
LEMMA DecideWithPosition ==
  ASSUME IInv, NEW w \in Workers, NEW v \in Verdicts, Decide(w, v),
         position' = position, v.state \in Done => position.status = "closed"
  PROVE  IInv'
BY DecisionsKeep DEF IInv, Typed, DustIsClosed

LEMMA WithoutTxHolds ==
  ASSUME Typed, NEW w \in Workers, NEW p \in Positions, p.dust => p.status = "closed", NEW s
  PROVE  /\ WithoutTx(w, p, s) \in Verdicts
         /\ WithoutTx(w, p, s).state \in Done => p.status = "closed"
<1>1. \A x \in States : Verdict(w, x) \in Verdicts /\ Verdict(w, x).state = x
  BY VerdictTyped
<1>2. {"closed_dust", "failed_terminal", "pending_finality"} \subseteq States
  BY DEF States, ActiveStates, TerminalStates
<1>3. LET v == Verdict(w, "pending_finality") IN
        [v EXCEPT !.lane = "confirmation"] \in Verdicts
        /\ [v EXCEPT !.lane = "confirmation"].state = "pending_finality"
  <2> DEFINE v == Verdict(w, "pending_finality")
  <2>1. v \in Verdicts /\ v.state = "pending_finality"
    BY <1>1, <1>2
  <2> HIDE DEF v
  <2>2. [v EXCEPT !.lane = "confirmation"] \in Verdicts
        /\ [v EXCEPT !.lane = "confirmation"].state = "pending_finality"
    BY <2>1 DEF Verdicts, Lanes
  <2> QED
    BY <2>2 DEF v
<1>4. RetryWithinBudget(w, "exit") \in Verdicts /\ RetryWithinBudget(w, "exit").state \notin Done
  BY RetryTyped DEF Lanes
<1> QED
  BY <1>1, <1>2, <1>3, <1>4 DEF WithoutTx, Done

\* A step of a job that is no decision, and no write.
LEMMA JobsMove ==
  ASSUME IInv, NEW w \in Workers, NEW j \in Jobs, job' = [job EXCEPT ![w] = j],
         j.pc \notin {"write", "candidate"}, UNCHANGED <<intent, position>>
  PROVE  IInv'
BY DEF IInv, Typed, DustIsClosed, VerdictsHold, CandidatesAreActive, ConfirmedIsClosed

LEMMA StepsKeep ==
  ASSUME IInv, NEW w \in Workers, NEW pc \in {"idle", "scan", "load", "sell"}, Step(w, pc)
  PROVE  /\ job'[w] \in Jobs /\ job'[w].pc = pc
         /\ job' = [job EXCEPT ![w] = job'[w]]
BY DEF IInv, Typed, Jobs, Step

LEMMA TakeKeeps ==
  ASSUME IInv, NEW w \in Workers, NEW i \in Intents, NEW popped \in BOOLEAN,
         Take(w, i, popped), Active(i), UNCHANGED <<intent, position>>
  PROVE  IInv'
<1> DEFINE j == At("candidate", i, Read(i), popped)
<1>1. Read(i) \in Copies /\ Read(i).state \in ActiveStates
  BY DEF IInv, Typed, Rows, Copies, Read, Active, States
<1>2. NoVerdict \in Verdicts
  BY ExitIntentAssumption DEF NoVerdict, Verdicts, States, Lanes, Counts
<1>3. j \in Jobs /\ j.pc = "candidate" /\ j.row.state \in ActiveStates
  BY <1>1, <1>2 DEF At, Jobs
<1>4. job' = [job EXCEPT ![w] = j]
  BY DEF Take
<1> HIDE DEF j
<1> QED
  BY <1>3, <1>4 DEF IInv, Typed, DustIsClosed, VerdictsHold, CandidatesAreActive,
     ConfirmedIsClosed

LEMMA ClaimKeeps ==
  ASSUME IInv, NEW w \in Workers, Claim(w)
  PROVE  IInv'
<1> DEFINE i == job[w].of
           state == IF job[w].row.state = "created" THEN "precheck_ready" ELSE job[w].row.state
           row == [intent[i] EXCEPT !.state = state, !.claim = "fresh"]
           copy == [job[w].row EXCEPT !.state = "absent"]
<1>1. i \in Intents /\ intent[i] \in Rows /\ job[w] \in Jobs /\ job[w].row \in Copies
  BY DEF IInv, Typed, Jobs
<1>2. CASE CanClaim(i)
  <2>1. state \in ActiveStates
    BY DEF Claim, IInv, CandidatesAreActive, ActiveStates
  <2>2. row \in Rows /\ row.state \in ActiveStates
    <3> HIDE DEF i, state
    <3> QED
      BY <1>1, <2>1 DEF Rows
  <2>3. copy \in Copies
    BY <1>1 DEF Copies, States
  <2> DEFINE j == At("claimed", i, copy, FALSE)
  <2>4. j \in Jobs /\ j.pc = "claimed"
    <3>1. NoVerdict \in Verdicts
      BY ExitIntentAssumption DEF NoVerdict, Verdicts, States, Lanes, Counts
    <3> HIDE DEF copy
    <3> QED
      BY <1>1, <2>3, <3>1 DEF At, Jobs
  <2>5. intent' = [intent EXCEPT ![i] = row] /\ job' = [job EXCEPT ![w] = j]
    BY <1>2 DEF Claim
  <2>6. position' = position
    BY DEF Claim, KeepWorld
  <2> HIDE DEF row, j
  <2> QED
    BY <1>1, <2>2, <2>4, <2>5, <2>6 DEF IInv, Typed, DustIsClosed, VerdictsHold,
       CandidatesAreActive, ConfirmedIsClosed, Done, ActiveStates
<1>3. CASE ~CanClaim(i)
  <2>1. PICK j \in {Scanning, Idle} : job' = [job EXCEPT ![w] = j]
    BY <1>3 DEF Claim
  <2>2. UNCHANGED <<intent, position>>
    BY <1>3 DEF Claim, KeepWorld
  <2> QED
    BY <2>1, <2>2, IdleTyped, JobsMove
<1> QED
  BY <1>2, <1>3

LEMMA ClaimExecutionKeeps ==
  ASSUME IInv, NEW w \in Workers, ClaimExitIntentExecution(w)
  PROVE  IInv'
<1> DEFINE i == job[w].of
<1>1. CASE Held(w, i) \/ i \in cool
  <2>1. Decide(w, RetryWithinBudget(w, "exit")) /\ position' = position
    BY <1>1 DEF ClaimExitIntentExecution, Decide, KeepWorld
  <2> QED
    BY <2>1, RetryTyped, DecideWithPosition DEF IInv, Lanes
<1>2. CASE ~(Held(w, i) \/ i \in cool)
  <2> DEFINE j == [job[w] EXCEPT !.pc = "submit", !.owner = TRUE]
  <2>1. j \in Jobs /\ j.pc = "submit"
    BY DEF IInv, Typed, Jobs
  <2>2. job' = [job EXCEPT ![w] = j] /\ UNCHANGED <<intent, position>>
    BY <1>2 DEF ClaimExitIntentExecution, KeepIntents, KeepWorld
  <2> HIDE DEF j
  <2> QED
    BY <2>1, <2>2, JobsMove
<1> QED
  BY <1>1, <1>2

LEMMA SubmitKeeps ==
  ASSUME IInv, NEW w \in Workers, Submit(w)
  PROVE  IInv'
<1>1. job'[w] \in Jobs /\ job'[w].pc = "load" /\ job' = [job EXCEPT ![w] = job'[w]]
  BY StepsKeep DEF Submit
<1>2. intent' \in [Intents -> Rows]
      /\ \A i \in Intents : intent'[i].state \in Done => intent[i].state \in Done
  <2>1. intent \in [Intents -> Rows] /\ job[w] \in Jobs
    BY DEF IInv, Typed
  <2>2. PICK i \in Intents : i = job[w].of
    BY <2>1 DEF Jobs
  <2>3. PICK r : r = [intent[i] EXCEPT !.state = "submitting"]
    OBVIOUS
  <2>4. "submitting" \in ActiveStates /\ "submitting" \notin Done
    BY DEF ActiveStates, Done
  <2>5. r \in Rows /\ r.state \notin Done
    <3>1. intent[i] \in Rows
      BY <2>1
    <3> QED
      BY <2>3, <2>4, <3>1 DEF Rows
  <2>6. intent' = [intent EXCEPT ![i] = r]
    BY <2>2, <2>3 DEF Submit
  <2> QED
    BY <2>1, <2>5, <2>6
<1>3. position' = position
  BY DEF Submit, KeepWorld
<1> QED
  BY <1>1, <1>2, <1>3 DEF IInv, Typed, DustIsClosed, VerdictsHold, CandidatesAreActive,
     ConfirmedIsClosed, Done

LEMMA LoadKeeps ==
  ASSUME IInv, NEW w \in Workers, LoadPosition(w)
  PROVE  IInv'
<1>1. \A s \in States : Verdict(w, s) \in Verdicts /\ Verdict(w, s).state = s
  BY VerdictTyped DEF IInv
<1>2. {"confirmed", "failed_terminal"} \subseteq States
  BY DEF States, TerminalStates
<1>3. CASE position.status = "closed" /\ Decide(w, Verdict(w, "confirmed"))
           /\ position' = position
  BY <1>1, <1>2, <1>3, DecideWithPosition
<1>4. CASE Decide(w, Verdict(w, "failed_terminal")) /\ position' = position
  BY <1>1, <1>2, <1>4, DecideWithPosition DEF Done
<1>5. CASE Decide(w, Retry(w, "exit")) /\ position' = position
  BY <1>5, RetryTyped, DecideWithPosition DEF IInv, Lanes
<1>6. CASE /\ position.status = "unconfirmed"
           /\ Decide(w, Verdict(w, "failed_terminal"))
           /\ position' = [position EXCEPT !.status = "open"]
  <2>1. position' \in Positions /\ DustIsClosed'
    BY <1>6 DEF IInv, Typed, Positions, DustIsClosed
  <2> QED
    BY <1>1, <1>2, <1>6, <2>1, DecisionsKeep DEF Done
<1>7. CASE Step(w, "sell") /\ UNCHANGED <<intent, position>>
  BY <1>7, StepsKeep, JobsMove
<1> QED
  BY <1>3, <1>4, <1>5, <1>6, <1>7 DEF LoadPosition, KeepIntents

LEMMA SaleKeeps ==
  ASSUME IInv, NEW w \in Workers, ExecutePositionExit(w)
  PROVE  IInv'
<1> USE DEF Done
<1>1. \A s \in States : Verdict(w, s) \in Verdicts /\ Verdict(w, s).state = s
  BY VerdictTyped DEF IInv
<1>2. {"confirmed", "failed_terminal"} \subseteq States
  BY DEF States, TerminalStates
<1>3. CASE SaleConfirms(w)
  <2>1. position' \in Positions /\ DustIsClosed' /\ position'.status = "closed"
    BY <1>3 DEF SaleConfirms, IInv, Typed, Positions, DustIsClosed
  <2>2. Decide(w, Verdict(w, "confirmed"))
    BY <1>3 DEF SaleConfirms
  <2> QED
    BY <1>1, <1>2, <2>1, <2>2, DecisionsKeep
<1>4. CASE SaleSent(w) \/ SaleSkipped(w)
  <2>1. PICK s : Decide(w, WithoutTx(w, position, s)) /\ position' = position
    BY <1>4 DEF SaleSent, SaleSkipped
  <2>2. WithoutTx(w, position, s) \in Verdicts
        /\ (WithoutTx(w, position, s).state \in Done => position.status = "closed")
    BY WithoutTxHolds DEF IInv, Typed, DustIsClosed
  <2> QED
    BY <2>1, <2>2, DecideWithPosition
<1>5. CASE NothingToSell(w)
  <2>1. position' \in Positions /\ DustIsClosed'
        /\ (position.status = "closed" => position'.status = "closed")
    BY <1>5 DEF NothingToSell, IInv, Typed, Positions, DustIsClosed
  <2>2. Decide(w, WithoutTx(w, position', sale))
    BY <1>5 DEF NothingToSell
  <2>3. WithoutTx(w, position', sale) \in Verdicts
        /\ (WithoutTx(w, position', sale).state \in Done => position'.status = "closed")
    BY <2>1, WithoutTxHolds DEF IInv, DustIsClosed
  <2> QED
    BY <2>1, <2>2, <2>3, DecisionsKeep
<1>6. CASE SaleFailsForNow(w)
  BY <1>6, RetryTyped, DecideWithPosition DEF SaleFailsForNow, IInv, Lanes
<1>7. CASE SaleFailsForGood(w)
  <2> DEFINE v == Verdict(w, "failed_terminal")
  <2>1. v \in Verdicts /\ v.state = "failed_terminal"
    BY <1>1, <1>2
  <2>2. PICK archive \in BOOLEAN : Decide(w, [v EXCEPT !.archive = archive])
                                   /\ position' = position
    BY <1>7 DEF SaleFailsForGood
  <2> HIDE DEF v
  <2>3. [v EXCEPT !.archive = archive] \in Verdicts
        /\ [v EXCEPT !.archive = archive].state = "failed_terminal"
    BY <2>1 DEF Verdicts
  <2> QED
    BY <2>2, <2>3, DecideWithPosition
<1> QED
  BY <1>3, <1>4, <1>5, <1>6, <1>7 DEF ExecutePositionExit

LEMMA ConfirmationKeeps ==
  ASSUME IInv, NEW w \in Workers, ProcessConfirmationIntent(w)
  PROVE  IInv'
<1> USE DEF Done
<1>1. \A s \in States : Verdict(w, s) \in Verdicts /\ Verdict(w, s).state = s
  BY VerdictTyped DEF IInv
<1>2. {"confirmed", "closed_dust", "retryable", "failed_terminal"} \subseteq States
  BY DEF States, ActiveStates, TerminalStates
<1>3. position' = position
  BY DEF ProcessConfirmationIntent
<1>4. CASE position.status = "closed" /\ Decide(w, Verdict(w, ClosedAs(position)))
  BY <1>1, <1>2, <1>3, <1>4, DecideWithPosition DEF ClosedAs
<1>5. CASE Decide(w, AwaitProjection(w))
  <2> DEFINE v == Verdict(w, "retryable")
  <2>1. v \in Verdicts /\ v.state = "retryable"
    BY <1>1, <1>2
  <2>2. AwaitProjection(w) = [v EXCEPT !.lane = "confirmation"]
    BY DEF AwaitProjection
  <2> HIDE DEF v
  <2>3. AwaitProjection(w) \in Verdicts /\ AwaitProjection(w).state = "retryable"
    BY <2>1, <2>2 DEF Verdicts, Lanes
  <2> QED
    BY <1>3, <1>5, <2>3, DecideWithPosition
<1>6. CASE Decide(w, Verdict(w, "failed_terminal"))
  BY <1>1, <1>2, <1>3, <1>6, DecideWithPosition
<1>7. CASE Decide(w, RetryWithinBudget(w, "exit"))
  BY <1>3, <1>7, RetryTyped, DecideWithPosition DEF IInv, Lanes
<1> QED
  BY <1>4, <1>5, <1>6, <1>7 DEF ProcessConfirmationIntent

\* Archiving a position does not open it.
LEMMA ArchivedTyped ==
  ASSUME NEW p \in Positions, p.dust => p.status = "closed"
  PROVE  /\ Archived(p) \in Positions /\ (Archived(p).dust => Archived(p).status = "closed")
         /\ p.status = "closed" => Archived(p).status = "closed"
BY DEF Positions, Archived

LEMMA WriteKeeps ==
  ASSUME IInv, NEW w \in Workers, UpdatePositionExitIntentState(w)
  PROVE  IInv'
<1> DEFINE i == job[w].of
           v == job[w].verdict
           closes == v.state \in TerminalStates
           row == [state     |-> v.state,
                   lane      |-> IF closes THEN intent[i].lane ELSE v.lane,
                   notBefore |-> IF closes THEN intent[i].notBefore ELSE TRUE,
                   claim     |-> "none",
                   count     |-> IF v.state \in {"failed_terminal", "retryable"} THEN v.count
                                 ELSE intent[i].count]
<1>1. i \in Intents /\ intent[i] \in Rows /\ v \in Verdicts /\ job[w] \in Jobs
  BY DEF IInv, Typed, Jobs
<1>2. row \in Rows /\ row.state = v.state
  <2> HIDE DEF i, v
  <2> QED
    BY <1>1 DEF Rows, Verdicts, States
<1>3. intent' = [intent EXCEPT ![i] = row]
  BY DEF UpdatePositionExitIntentState
<1>4. position' \in Positions /\ DustIsClosed'
      /\ (position.status = "closed" => position'.status = "closed")
  BY ArchivedTyped DEF UpdatePositionExitIntentState, IInv, Typed, DustIsClosed
<1>5. v.state \in Done => position.status = "closed"
  BY DEF UpdatePositionExitIntentState, IInv, VerdictsHold
<1> DEFINE j == IF job[w].settles THEN Settling(w) ELSE Idle
<1>6. j \in Jobs /\ j.pc \notin {"write", "candidate"}
  <2>1. [NoVerdict EXCEPT !.state = v.state] \in Verdicts
    <3>1. NoVerdict \in Verdicts
      BY ExitIntentAssumption DEF NoVerdict, Verdicts, States, Lanes, Counts
    <3> HIDE DEF v
    <3> QED
      BY <1>1, <3>1 DEF Verdicts
  <2> DEFINE said == [NoVerdict EXCEPT !.state = v.state]
  <2>2. Settling(w) = [job[w] EXCEPT !.pc = "settle", !.verdict = said]
    BY DEF Settling
  <2> HIDE DEF said
  <2>3. Settling(w) \in Jobs /\ Settling(w).pc = "settle"
    BY <1>1, <2>1, <2>2 DEF Jobs, said
  <2> QED
    BY <2>3, IdleTyped
<1>7. job' = [job EXCEPT ![w] = j]
  BY DEF UpdatePositionExitIntentState
<1> HIDE DEF i, v, row, j
<1> QED
  BY <1>1, <1>2, <1>3, <1>4, <1>5, <1>6, <1>7
     DEF IInv, Typed, VerdictsHold, CandidatesAreActive, ConfirmedIsClosed, Done

LEMMA WorkKeeps ==
  ASSUME IInv, NEW w \in Workers, Work(w)
  PROVE  IInv'
<1>1. ASSUME NEW i \in Intents, PopQueue(w, i)
      PROVE  IInv'
  <2>1. UNCHANGED <<intent, position>>
    BY <1>1 DEF PopQueue, KeepWorld
  <2>2. CASE Active(i)
    BY <1>1, <2>1, <2>2, TakeKeeps DEF PopQueue
  <2>3. CASE ~Active(i)
    BY <1>1, <2>1, <2>3, IdleTyped, JobsMove DEF PopQueue
  <2> QED
    BY <2>2, <2>3
<1>2. ASSUME NEW i \in Intents, ScanRows(w, i)
      PROVE  IInv'
  BY <1>2, TakeKeeps DEF ScanRows, Due, KeepIntents, KeepWorld
<1>3. CASE ScanFindsNothing(w)
  BY <1>3, IdleTyped, JobsMove DEF ScanFindsNothing, KeepIntents, KeepWorld
<1>4. CASE SettleExitIntentExecution(w)
  BY <1>4, IdleTyped, JobsMove DEF SettleExitIntentExecution, KeepIntents, KeepWorld
<1> QED
  BY <1>1, <1>2, <1>3, <1>4, ClaimKeeps, ClaimExecutionKeeps, SubmitKeeps, LoadKeeps, SaleKeeps,
     ConfirmationKeeps, WriteKeeps DEF Work

\* The rows move, and no exit is done by it.
LEMMA RowsMove ==
  ASSUME IInv, intent' \in [Intents -> Rows], UNCHANGED <<job, position>>,
         \A i \in Intents : intent'[i].state \in Done => intent[i].state \in Done
  PROVE  IInv'
BY DEF IInv, Typed, DustIsClosed, VerdictsHold, CandidatesAreActive, ConfirmedIsClosed, Done

\* The position moves, and is never opened again.
LEMMA PositionMoves ==
  ASSUME IInv, position' \in Positions, DustIsClosed', UNCHANGED <<intent, job>>,
         position.status = "closed" => position'.status = "closed"
  PROVE  IInv'
BY DEF IInv, Typed, DustIsClosed, VerdictsHold, CandidatesAreActive, ConfirmedIsClosed

LEMMA NextKeeps == IInv /\ [Next]_vars => IInv'
<1> SUFFICES ASSUME IInv, [Next]_vars PROVE IInv'
  OBVIOUS
<1>1. ASSUME NEW i \in Intents, EnqueuePositionExitIntent(i)
      PROVE  IInv'
  <2>1. intent' \in [Intents -> Rows]
        /\ \A k \in Intents : intent'[k].state \in Done => intent[k].state \in Done
    BY <1>1 DEF EnqueuePositionExitIntent, IInv, Typed, Rows, ActiveStates, Done
  <2> QED
    BY <1>1, <2>1, RowsMove DEF EnqueuePositionExitIntent
<1>2. ASSUME NEW i \in Intents, Time(i)
      PROVE  IInv'
  <2>1. CASE NotBeforePasses(i) \/ ClaimAges(i)
    <3>1. intent[i] \in Rows
      BY DEF IInv, Typed
    <3>2. PICK row \in Rows : row.state = intent[i].state /\ intent' = [intent EXCEPT ![i] = row]
      <4>1. [intent[i] EXCEPT !.notBefore = FALSE] \in Rows
            /\ [intent[i] EXCEPT !.notBefore = FALSE].state = intent[i].state
        BY <3>1 DEF Rows
      <4>2. [intent[i] EXCEPT !.claim = "stale"] \in Rows
            /\ [intent[i] EXCEPT !.claim = "stale"].state = intent[i].state
        BY <3>1 DEF Rows
      <4> QED
        BY <2>1, <4>1, <4>2 DEF NotBeforePasses, ClaimAges
    <3> QED
      BY <2>1, <3>2, RowsMove DEF NotBeforePasses, ClaimAges, IInv, Typed
  <2>2. CASE KeyExpires(i) \/ CooldownEnds(i)
    BY <2>2, RowsMove DEF KeyExpires, CooldownEnds, IInv, Typed
  <2> QED
    BY <1>2, <2>1, <2>2 DEF Time
<1>3. ASSUME NEW i \in Intents, ReconcileTerminalExitGhostPosition(i)
      PROVE  IInv'
  BY <1>3, ArchivedTyped, PositionMoves
     DEF ReconcileTerminalExitGhostPosition, KeepExits, IInv, Typed, DustIsClosed
<1>4. ASSUME NEW w \in Workers, Crash(w)
      PROVE  IInv'
  BY <1>4, IdleTyped, JobsMove DEF Crash
<1>5. CASE LoseQueue
  BY <1>5, RowsMove DEF LoseQueue, IInv, Typed
<1>6. CASE BuyConfirms \/ ProjectionCloses
  <2>1. position' \in Positions /\ DustIsClosed'
        /\ (position.status = "closed" => position'.status = "closed")
    BY <1>6 DEF BuyConfirms, ProjectionCloses, IInv, Typed, Positions, DustIsClosed
  <2> QED
    BY <1>6, <2>1, PositionMoves DEF BuyConfirms, ProjectionCloses, KeepExits
<1>7. CASE SaleSettles
  BY <1>7, RowsMove DEF SaleSettles, KeepExits, IInv, Typed
<1>8. CASE UNCHANGED vars
  BY <1>8, RowsMove DEF vars, IInv, Typed
<1> QED
  BY <1>1, <1>2, <1>3, <1>4, <1>5, <1>6, <1>7, <1>8, WorkKeeps DEF Next

(***************************************************************************)
(* Whatever deadlines pass, processes die and late verdicts are written, an *)
(* intent that says confirmed or closed_dust is of a closed position: for   *)
(* any number of intents, of processes, of lapses and of faults.            *)
(***************************************************************************)
THEOREM DoneExitsAreClosed == Spec => []ConfirmedIsClosed
<1>1. IInv => ConfirmedIsClosed
  BY DEF IInv
<1> QED
  BY <1>1, InitHolds, NextKeeps, PTL DEF Spec
-----------------------------------------------------------------------------
(***************************************************************************)
(* One seller.  Two guards keep a second job from executing an intent that  *)
(* is being executed: the claim on its row (OneHolder) and the key of its   *)
(* execution (OneOwner).  Neither proof uses the other guard, and a         *)
(* deadline that passes too early breaks one of them only.                  *)
(***************************************************************************)
Acquired == {"submit", "load", "sell"}

Holding == Acquired \union {"claimed", "write"}

Owns(w, i) == i \in local[w]

Holder(w, i) == job[w].of = i /\ job[w].pc \in Holding

Taken(w, i, lane) ==
  job[w].of = i /\ job[w].pc \in {"candidate", "claimed"} /\ job[w].row.lane = lane

\* A job that may come to execute, or has the key of an execution.
ExitJob(w, i) == Owns(w, i) \/ Taken(w, i, "exit")

\* A job that will settle an execution it has not claimed.
ConfirmationJob(w, i) ==
  /\ job[w].of = i /\ ~Owns(w, i)
  /\ \/ Taken(w, i, "confirmation")
     \/ job[w].pc = "write" /\ job[w].settles
     \/ job[w].pc = "settle"

JobOwns(w) ==
  /\ local[w] \subseteq {job[w].of}
  /\ local[w] # {} => job[w].pc \in Acquired \union {"write", "settle"}
  /\ job[w].pc \in Acquired => Owns(w, job[w].of) /\ job[w].owner
  /\ job[w].owner => job[w].pc \in Acquired
  /\ job[w].pc = "write" /\ Owns(w, job[w].of) => job[w].settles

JobsOwn == local \in [Workers -> SUBSET Intents] /\ \A w \in Workers : JobOwns(w)

OneHolder(i) ==
  /\ \A w \in Workers : Holder(w, i) => intent[i].claim = "fresh" /\ Active(i)
  /\ \A v, w \in Workers : Holder(v, i) /\ Holder(w, i) => v = w

\* Between two deadlines of the row all its jobs are of one lane.
OneLane(i) ==
  /\ \A v, w \in Workers : ~(ExitJob(v, i) /\ ConfirmationJob(w, i))
  /\ ~intent[i].notBefore =>
       \A w \in Workers :
         /\ ExitJob(w, i) => intent[i].lane = "exit"
         /\ ConfirmationJob(w, i) => intent[i].lane = "confirmation"

OneOwner(i) ==
  /\ OneLane(i)
  /\ \A w \in Workers : Owns(w, i) => i \in key
  /\ \A v, w \in Workers : Owns(v, i) /\ Owns(w, i) => v = w

Guarded ==
  /\ lapses \in Nat
  /\ lapses = 0 => \A i \in Intents : OneHolder(i) /\ OneOwner(i)
  /\ lapses <= 1 => \A i \in Intents : OneHolder(i) \/ OneOwner(i)

SellerInv == IInv /\ JobsOwn /\ Guarded
-----------------------------------------------------------------------------
\* A step of w changes no other process.
Others(w) == \A v \in Workers \ {w} : job'[v] = job[v] /\ local'[v] = local[v]

LEMMA HoldersMove ==
  ASSUME NEW w \in Workers, NEW i \in Intents, Others(w), OneHolder(i),
         Holder(w, i)' => Holder(w, i),
         \/ intent'[i].claim = intent[i].claim /\ (Active(i) => Active(i)')
         \/ Holder(w, i) /\ ~Holder(w, i)'
  PROVE  OneHolder(i)'
<1>1. \A v \in Workers : Holder(v, i)' => Holder(v, i)
  BY DEF Others, Holder
<1> QED
  BY <1>1 DEF OneHolder

LEMMA HolderClaims ==
  ASSUME NEW w \in Workers, NEW i \in Intents, Others(w), OneHolder(i), CanClaim(i),
         intent'[i].claim = "fresh", Active(i)'
  PROVE  OneHolder(i)'
<1>1. \A v \in Workers : ~Holder(v, i)
  BY DEF OneHolder, CanClaim, Claimable
<1>2. \A v \in Workers : Holder(v, i)' => v = w
  BY <1>1 DEF Others, Holder
<1> QED
  BY <1>2 DEF OneHolder

\* What other processes are to the intent they stay.
LEMMA OthersStay ==
  ASSUME NEW w \in Workers, NEW i \in Intents, Others(w), NEW v \in Workers, v # w
  PROVE  /\ ExitJob(v, i)' <=> ExitJob(v, i)
         /\ ConfirmationJob(v, i)' <=> ConfirmationJob(v, i)
         /\ Owns(v, i)' <=> Owns(v, i)
BY DEF Others, ExitJob, ConfirmationJob, Owns, Taken

LEMMA OwnersMove ==
  ASSUME NEW w \in Workers, NEW i \in Intents, Others(w), OneOwner(i),
         ExitJob(w, i)' => ExitJob(w, i), ConfirmationJob(w, i)' => ConfirmationJob(w, i),
         Owns(w, i)' => Owns(w, i), i \in key => i \in key',
         ~intent'[i].notBefore => ~intent[i].notBefore /\ intent'[i].lane = intent[i].lane
  PROVE  OneOwner(i)'
<1>1. \A v \in Workers :
       /\ ExitJob(v, i)' => ExitJob(v, i)
       /\ ConfirmationJob(v, i)' => ConfirmationJob(v, i)
       /\ Owns(v, i)' => Owns(v, i)
  BY OthersStay
<1> QED
  BY <1>1 DEF OneOwner, OneLane

LEMMA OwnerTakes ==
  ASSUME NEW w \in Workers, NEW i \in Intents, Others(w), OneOwner(i),
         ~intent[i].notBefore, intent'[i] = intent[i], key' = key, ~Owns(w, i)',
         ExitJob(w, i)' => intent[i].lane = "exit",
         ConfirmationJob(w, i)' => intent[i].lane = "confirmation"
  PROVE  OneOwner(i)'
<1>1. \A v \in Workers \ {w} :
       /\ ExitJob(v, i)' <=> ExitJob(v, i)
       /\ ConfirmationJob(v, i)' <=> ConfirmationJob(v, i)
       /\ Owns(v, i)' <=> Owns(v, i)
  BY OthersStay
<1>2. \A v \in Workers :
       /\ ExitJob(v, i)' => intent[i].lane = "exit"
       /\ ConfirmationJob(v, i)' => intent[i].lane = "confirmation"
  BY <1>1 DEF OneOwner, OneLane
<1>3. OneLane(i)'
  BY <1>2 DEF OneLane
<1> QED
  BY <1>1, <1>3 DEF OneOwner

LEMMA OwnerAcquires ==
  ASSUME NEW w \in Workers, NEW i \in Intents, Others(w), OneOwner(i),
         ExitJob(w, i), ~ConfirmationJob(w, i)', i \notin key, i \in key', intent'[i] = intent[i]
  PROVE  OneOwner(i)'
<1>1. \A v \in Workers \ {w} :
       /\ ExitJob(v, i)' <=> ExitJob(v, i)
       /\ ConfirmationJob(v, i)' <=> ConfirmationJob(v, i)
       /\ Owns(v, i)' <=> Owns(v, i)
  BY OthersStay
<1>2. \A v \in Workers : ~Owns(v, i)
  BY DEF OneOwner
<1>3. OneLane(i)'
  BY <1>1 DEF OneOwner, OneLane
<1> QED
  BY <1>1, <1>2, <1>3 DEF OneOwner

\* The key that is deleted is nobody's, or the job's own.
LEMMA OwnerSettles ==
  ASSUME NEW w \in Workers, NEW i \in Intents, Others(w), OneOwner(i),
         Owns(w, i) \/ ConfirmationJob(w, i),
         ~ExitJob(w, i)', ~ConfirmationJob(w, i)', intent'[i] = intent[i]
  PROVE  OneOwner(i)'
<1>1. \A v \in Workers \ {w} :
       /\ ExitJob(v, i)' <=> ExitJob(v, i)
       /\ ConfirmationJob(v, i)' <=> ConfirmationJob(v, i)
       /\ Owns(v, i)' <=> Owns(v, i)
  BY OthersStay
<1>2. \A v \in Workers : Owns(v, i) => ExitJob(v, i)
  BY DEF ExitJob
<1>3. \A v \in Workers : ~Owns(v, i)'
  BY <1>1, <1>2 DEF OneOwner, OneLane, ExitJob
<1>4. OneLane(i)'
  BY <1>1 DEF OneOwner, OneLane
<1> QED
  BY <1>3, <1>4 DEF OneOwner

\* What every step but a lapse keeps.
KeepsGuards ==
  /\ JobsOwn'
  /\ \A i \in Intents : (OneHolder(i) => OneHolder(i)') /\ (OneOwner(i) => OneOwner(i)')

\* The process gives up what it was doing; its row and key may still change.
LEMMA LeavingKeepsGuards ==
  ASSUME IInv, JobsOwn, NEW w \in Workers, NEW j \in {Idle, Scanning}, job' = [job EXCEPT ![w] = j],
         local' = [local EXCEPT ![w] = {}], UNCHANGED <<intent, key>>
  PROVE  KeepsGuards
<1>1. /\ Others(w) /\ job'[w].pc \in {"idle", "scan"} /\ local'[w] = {} /\ ~job'[w].owner
      /\ local' \in [Workers -> SUBSET Intents]
  BY IdleTyped DEF JobsOwn, IInv, Typed, Others, Idle, Scanning, At
<1>2. JobsOwn'
  BY <1>1 DEF JobsOwn, JobOwns, Others, Owns, Acquired
<1>3. ASSUME NEW i \in Intents
      PROVE  ~Holder(w, i)' /\ ~ExitJob(w, i)' /\ ~ConfirmationJob(w, i)' /\ ~Owns(w, i)'
  BY <1>1 DEF Holder, Holding, Acquired, ExitJob, ConfirmationJob, Owns, Taken
<1>4. ASSUME NEW i \in Intents
      PROVE  intent'[i] = intent[i] /\ key' = key /\ (Active(i)' <=> Active(i))
  BY DEF Active
<1> QED
  BY <1>1, <1>2, <1>3, <1>4, HoldersMove, OwnersMove DEF KeepsGuards

\* The process has a job that is not at an execution of its own.
LEMMA NothingOwned ==
  ASSUME JobsOwn, NEW w \in Workers, job[w].pc \notin Acquired \union {"write", "settle"}
  PROVE  local[w] = {}
BY DEF JobsOwn, JobOwns

\* A step of w that leaves the keys of all processes alone.
LEMMA StepOfOne ==
  ASSUME IInv, NEW w \in Workers, NEW j, job' = [job EXCEPT ![w] = j], local' = local
  PROVE  Others(w) /\ job'[w] = j
BY DEF IInv, Typed, Others

LEMMA OwningStays ==
  ASSUME JobsOwn, NEW w \in Workers, Others(w), local' = local, JobOwns(w)'
  PROVE  JobsOwn'
BY DEF JobsOwn, Others, JobOwns, Owns

LEMMA DecidingKeepsGuards ==
  ASSUME IInv, JobsOwn, NEW w \in Workers, NEW v, Decide(w, v),
         job[w].pc \in Acquired \union {"claimed"}
  PROVE  KeepsGuards
<1> DEFINE j == ToWrite(w, v)
<1>1. UNCHANGED <<intent, key, local>> /\ job' = [job EXCEPT ![w] = j]
  BY DEF Decide, KeepIntents, KeepKeys
<1>2. /\ j.pc = "write" /\ j.of = job[w].of /\ j.owner = FALSE
      /\ j.settles <=> job[w].owner \/ job[w].row.lane = "confirmation"
  BY DEF ToWrite
<1> HIDE DEF j
<1>3. Others(w) /\ job'[w] = j
  BY <1>1, StepOfOne
<1>4. JobOwns(w)
  BY DEF JobsOwn
<1>5. JobOwns(w)'
  BY <1>1, <1>2, <1>3, <1>4 DEF JobOwns, Owns, Acquired
<1>6. ASSUME NEW i \in Intents
      PROVE  /\ Holder(w, i)' => Holder(w, i)
             /\ Owns(w, i)' <=> Owns(w, i)
             /\ ExitJob(w, i)' => ExitJob(w, i)
             /\ ConfirmationJob(w, i)' => ConfirmationJob(w, i)
  <2>1. Owns(w, i)' <=> Owns(w, i)
    BY <1>1 DEF Owns
  <2>2. Holder(w, i)' => Holder(w, i)
    BY <1>2, <1>3 DEF Holder, Holding
  <2>3. ExitJob(w, i)' => ExitJob(w, i)
    BY <1>2, <1>3, <2>1 DEF ExitJob, Taken
  <2>4. ConfirmationJob(w, i)' => ConfirmationJob(w, i)
    BY <1>2, <1>3, <1>4, <2>1 DEF ConfirmationJob, Taken, JobOwns
  <2> QED
    BY <2>1, <2>2, <2>3, <2>4
<1>7. ASSUME NEW i \in Intents PROVE OneHolder(i) => OneHolder(i)'
  BY <1>1, <1>3, <1>6, HoldersMove DEF Active
<1>8. ASSUME NEW i \in Intents PROVE OneOwner(i) => OneOwner(i)'
  BY <1>1, <1>3, <1>6, OwnersMove
<1>9. JobsOwn'
  BY <1>1, <1>3, <1>5, OwningStays
<1> QED
  BY <1>7, <1>8, <1>9 DEF KeepsGuards

LEMMA TakingKeepsGuards ==
  ASSUME IInv, JobsOwn, NEW w \in Workers, NEW i \in Intents, NEW popped \in BOOLEAN,
         job[w].pc \in {"idle", "scan"}, Take(w, i, popped), ~intent[i].notBefore,
         UNCHANGED <<intent, key, local>>
  PROVE  KeepsGuards
<1> DEFINE j == At("candidate", i, Read(i), popped)
<1>1. job' = [job EXCEPT ![w] = j]
  BY DEF Take
<1>2. /\ j.pc = "candidate" /\ j.of = i /\ j.owner = FALSE /\ j.row.lane = intent[i].lane
  BY DEF At, Read
<1> HIDE DEF j
<1>3. Others(w) /\ job'[w] = j /\ local'[w] = {}
  BY <1>1, StepOfOne, NothingOwned DEF Acquired
<1>4. JobOwns(w)'
  BY <1>2, <1>3 DEF JobOwns, Owns, Acquired
<1>5. ASSUME NEW k \in Intents
      PROVE  /\ ~Holder(w, k)' /\ ~Owns(w, k)'
             /\ ExitJob(w, k)' => k = i /\ intent[i].lane = "exit"
             /\ ConfirmationJob(w, k)' => k = i /\ intent[i].lane = "confirmation"
  BY <1>2, <1>3 DEF Holder, Holding, Acquired, Owns, ExitJob, ConfirmationJob, Taken
<1>6. ASSUME NEW k \in Intents PROVE OneHolder(k) => OneHolder(k)'
  BY <1>3, <1>5, HoldersMove DEF Active
<1>7. ASSUME NEW k \in Intents PROVE OneOwner(k) => OneOwner(k)'
  <2>1. CASE k = i
    BY <1>3, <1>5, <2>1, OwnerTakes
  <2>2. CASE k # i
    BY <1>3, <1>5, <2>2, OwnersMove
  <2> QED
    BY <2>1, <2>2
<1>8. JobsOwn'
  BY <1>3, <1>4, OwningStays
<1> QED
  BY <1>6, <1>7, <1>8 DEF KeepsGuards

LEMMA ClaimKeepsGuards ==
  ASSUME IInv, JobsOwn, NEW w \in Workers, Claim(w)
  PROVE  KeepsGuards
<1> DEFINE i == job[w].of
           state == IF job[w].row.state = "created" THEN "precheck_ready" ELSE job[w].row.state
           row == [intent[i] EXCEPT !.state = state, !.claim = "fresh"]
           copy == [job[w].row EXCEPT !.state = "absent"]
           j == At("claimed", i, copy, FALSE)
<1>1. /\ job[w].pc = "candidate" /\ UNCHANGED <<local, key>> /\ local[w] = {}
      /\ i \in Intents /\ intent[i] \in Rows /\ job[w].row \in Copies
  BY NothingOwned DEF Claim, KeepKeys, Acquired, IInv, Typed, Jobs
<1>2. CASE ~CanClaim(i)
  <2>1. intent' = intent /\ \E idle \in {Idle, Scanning} : job' = [job EXCEPT ![w] = idle]
    BY <1>2 DEF Claim
  <2>2. local' = [local EXCEPT ![w] = {}]
    BY <1>1 DEF JobsOwn
  <2> QED
    BY <1>1, <2>1, <2>2, LeavingKeepsGuards
<1>3. CASE CanClaim(i)
  <2>1. intent' = [intent EXCEPT ![i] = row] /\ job' = [job EXCEPT ![w] = j]
    BY <1>3 DEF Claim
  <2>2. state \in ActiveStates
    BY <1>1 DEF IInv, CandidatesAreActive, ActiveStates
  <2>3. /\ row.state \in ActiveStates /\ row.claim = "fresh"
        /\ row.notBefore = intent[i].notBefore /\ row.lane = intent[i].lane
    <3> HIDE DEF i, state
    <3> QED
      BY <1>1, <2>2 DEF Rows
  <2>4. j.pc = "claimed" /\ j.of = i /\ j.owner = FALSE /\ j.row.lane = job[w].row.lane
    <3>1. copy.lane = job[w].row.lane
      BY <1>1 DEF Copies
    <3> HIDE DEF copy
    <3> QED
      BY <3>1 DEF At
  <2> HIDE DEF j, row, state, copy
  <2>5. Others(w) /\ job'[w] = j /\ local'[w] = {}
    BY <1>1, <2>1, StepOfOne
  <2>6. JobOwns(w)'
    BY <2>4, <2>5 DEF JobOwns, Owns, Acquired
  <2>7. intent'[i] = row /\ \A k \in Intents : k # i => intent'[k] = intent[k]
    BY <1>1, <2>1 DEF IInv, Typed
  <2>8. ASSUME NEW k \in Intents
        PROVE  /\ Holder(w, k)' => k = i /\ ~Owns(w, k)'
               /\ ExitJob(w, k)' => ExitJob(w, k)
               /\ ConfirmationJob(w, k)' => ConfirmationJob(w, k)
    BY <1>1, <2>4, <2>5 DEF Holder, Owns, ExitJob, ConfirmationJob, Taken
  <2>9. ASSUME NEW k \in Intents PROVE OneHolder(k) => OneHolder(k)'
    <3>1. CASE k = i
      <4>1. CanClaim(k) /\ intent'[k].claim = "fresh" /\ Active(k)'
        BY <1>3, <2>3, <2>7, <3>1 DEF Active
      <4> QED
        BY <2>5, <4>1, HolderClaims
    <3>2. CASE k # i
      BY <2>5, <2>7, <2>8, <3>2, HoldersMove DEF Active
    <3> QED
      BY <3>1, <3>2
  <2>10. ASSUME NEW k \in Intents PROVE OneOwner(k) => OneOwner(k)'
    <3>1. ~intent'[k].notBefore => ~intent[k].notBefore /\ intent'[k].lane = intent[k].lane
      BY <2>3, <2>7
    <3>2. Owns(w, k)' => Owns(w, k)
      BY <2>5 DEF Owns
    <3> QED
      BY <1>1, <2>5, <2>8, <3>1, <3>2, OwnersMove
  <2>11. JobsOwn'
    BY <1>1, <2>5, <2>6, OwningStays
  <2> QED
    BY <2>9, <2>10, <2>11 DEF KeepsGuards
<1> QED
  BY <1>2, <1>3

LEMMA ClaimExecutionKeepsGuards ==
  ASSUME IInv, JobsOwn, NEW w \in Workers, ClaimExitIntentExecution(w)
  PROVE  KeepsGuards
<1>1. PICK i \in Intents : i = job[w].of
  BY DEF IInv, Typed, Jobs
<1>2. job[w].pc = "claimed" /\ job[w].row.lane = "exit" /\ local[w] = {} /\ intent' = intent
  BY NothingOwned DEF ClaimExitIntentExecution, Acquired, KeepIntents
<1>3. CASE Held(w, i) \/ i \in cool
  <2>1. Decide(w, RetryWithinBudget(w, "exit"))
    BY <1>1, <1>3 DEF ClaimExitIntentExecution, Decide, KeepWorld
  <2> QED
    BY <1>2, <2>1, DecidingKeepsGuards
<1>4. CASE ~(Held(w, i) \/ i \in cool)
  <2> DEFINE j == [job[w] EXCEPT !.pc = "submit", !.owner = TRUE]
  <2>1. /\ job' = [job EXCEPT ![w] = j] /\ local' = [local EXCEPT ![w] = @ \union {i}]
        /\ key' = key \union {i} /\ i \notin key
    BY <1>1, <1>4 DEF ClaimExitIntentExecution, Held
  <2>2. j.pc = "submit" /\ j.of = i /\ j.owner = TRUE
    BY <1>1 DEF IInv, Typed, Jobs
  <2> HIDE DEF j
  <2>3. /\ Others(w) /\ job'[w] = j /\ local'[w] = {i}
        /\ local' \in [Workers -> SUBSET Intents]
    BY <1>2, <2>1 DEF IInv, Typed, JobsOwn, Others
  <2>4. JobsOwn'
    BY <2>2, <2>3 DEF JobsOwn, JobOwns, Others, Owns, Acquired
  <2>5. ASSUME NEW k \in Intents
        PROVE  /\ Holder(w, k)' => Holder(w, k)
               /\ Owns(w, k)' => k = i
               /\ ExitJob(w, k)' => k = i
               /\ ~ConfirmationJob(w, k)'
               /\ ExitJob(w, i)
    BY <1>1, <1>2, <2>2, <2>3 DEF Holder, Holding, Owns, ExitJob, ConfirmationJob, Taken
  <2>6. ASSUME NEW k \in Intents PROVE OneHolder(k) => OneHolder(k)'
    BY <1>2, <2>3, <2>5, HoldersMove DEF Active
  <2>7. ASSUME NEW k \in Intents PROVE OneOwner(k) => OneOwner(k)'
    <3>1. CASE k = i
      <4>1. i \in key' /\ intent'[i] = intent[i]
        BY <1>2, <2>1
      <4> QED
        BY <2>1, <2>3, <2>5, <3>1, <4>1, OwnerAcquires
    <3>2. CASE k # i
      <4>1. (k \in key => k \in key') /\ intent'[k] = intent[k]
        BY <1>2, <2>1
      <4> QED
        BY <2>3, <2>5, <3>2, <4>1, OwnersMove
    <3> QED
      BY <3>1, <3>2
  <2> QED
    BY <2>4, <2>6, <2>7 DEF KeepsGuards
<1> QED
  BY <1>3, <1>4

\* A statement of an execution; the row stays active.
LEMMA ExecutingKeepsGuards ==
  ASSUME IInv, JobsOwn, NEW w \in Workers, job[w].pc \in Acquired,
         NEW pc \in Acquired, Step(w, pc), UNCHANGED <<local, key>>,
         \/ intent' = intent
         \/ intent' = [intent EXCEPT ![job[w].of].state = "submitting"]
  PROVE  KeepsGuards
<1> DEFINE j == [job[w] EXCEPT !.pc = pc]
<1>1. job' = [job EXCEPT ![w] = j] /\ job[w] \in Jobs
  BY DEF Step, IInv, Typed
<1>2. j.pc = pc /\ j.of = job[w].of /\ j.owner = job[w].owner
  BY <1>1 DEF Jobs
<1> HIDE DEF j
<1>3. Others(w) /\ job'[w] = j
  BY <1>1, StepOfOne
<1>4. JobOwns(w)'
  BY <1>2, <1>3 DEF JobsOwn, JobOwns, Owns, Acquired
<1>5. ASSUME NEW k \in Intents
      PROVE  /\ Holder(w, k)' => Holder(w, k)
             /\ Owns(w, k)' <=> Owns(w, k)
             /\ ExitJob(w, k)' => ExitJob(w, k)
             /\ ConfirmationJob(w, k)' => ConfirmationJob(w, k)
  BY <1>2, <1>3 DEF Holder, Holding, Acquired, Owns, ExitJob, ConfirmationJob, Taken
<1>6. ASSUME NEW k \in Intents
      PROVE  /\ intent'[k].claim = intent[k].claim /\ (Active(k) => Active(k)')
             /\ intent'[k].notBefore = intent[k].notBefore /\ intent'[k].lane = intent[k].lane
  BY DEF IInv, Typed, Rows, Active, ActiveStates
<1>7. ASSUME NEW k \in Intents PROVE OneHolder(k) => OneHolder(k)'
  BY <1>3, <1>5, <1>6, HoldersMove
<1>8. ASSUME NEW k \in Intents PROVE OneOwner(k) => OneOwner(k)'
  BY <1>3, <1>5, <1>6, OwnersMove
<1>9. JobsOwn'
  BY <1>3, <1>4, OwningStays
<1> QED
  BY <1>7, <1>8, <1>9 DEF KeepsGuards

LEMMA WritingKeepsGuards ==
  ASSUME IInv, JobsOwn, NEW w \in Workers, UpdatePositionExitIntentState(w)
  PROVE  KeepsGuards
<1>1. PICK i \in Intents : i = job[w].of
  BY DEF IInv, Typed, Jobs
<1> DEFINE j == IF job[w].settles THEN Settling(w) ELSE Idle
<1>2. /\ job[w].pc = "write" /\ UNCHANGED <<local, key>> /\ job' = [job EXCEPT ![w] = j]
      /\ job[w] \in Jobs /\ JobOwns(w)
  BY DEF UpdatePositionExitIntentState, KeepKeys, IInv, Typed, JobsOwn
<1>3. /\ job[w].settles => j.pc = "settle" /\ j.of = i
      /\ ~job[w].settles => j.pc = "idle" /\ local[w] = {}
      /\ ~j.owner
  <2>1. CASE job[w].settles
    <3>1. Settling(w).pc = "settle" /\ Settling(w).of = i /\ Settling(w).owner = job[w].owner
      BY <1>1, <1>2 DEF Settling, Jobs
    <3> QED
      BY <1>2, <2>1, <3>1 DEF JobOwns, Acquired
  <2>2. CASE ~job[w].settles
    BY <1>2, <2>2 DEF JobOwns, Owns, Idle, At
  <2> QED
    BY <2>1, <2>2
<1> HIDE DEF j
<1>4. Others(w) /\ job'[w] = j
  BY <1>2, StepOfOne
<1>5. JobOwns(w)'
  BY <1>1, <1>2, <1>3, <1>4 DEF JobOwns, Owns, Acquired
<1>6. ASSUME NEW k \in Intents
      PROVE  /\ ~Holder(w, k)'
             /\ Owns(w, k)' <=> Owns(w, k)
             /\ ExitJob(w, k)' => ExitJob(w, k)
             /\ ConfirmationJob(w, k)' => ConfirmationJob(w, k)
  <2>1. Owns(w, k)' <=> Owns(w, k)
    BY <1>2 DEF Owns
  <2>2. ~Holder(w, k)' /\ (ExitJob(w, k)' => ExitJob(w, k))
    BY <1>3, <1>4, <2>1 DEF Holder, Holding, Acquired, ExitJob, Taken
  <2>3. ConfirmationJob(w, k)' => ConfirmationJob(w, k)
    BY <1>1, <1>2, <1>3, <1>4, <2>1 DEF ConfirmationJob, Taken
  <2> QED
    BY <2>1, <2>2, <2>3
<1>7. /\ \A k \in Intents : k # i => intent'[k] = intent[k]
      /\ ~intent'[i].notBefore => ~intent[i].notBefore /\ intent'[i].lane = intent[i].lane
  BY <1>1 DEF UpdatePositionExitIntentState, IInv, Typed
<1>8. ASSUME NEW k \in Intents PROVE OneHolder(k) => OneHolder(k)'
  <2>1. CASE k = i
    <3>1. Holder(w, k)
      BY <1>1, <1>2, <2>1 DEF Holder, Holding
    <3> QED
      BY <1>4, <1>6, <3>1, HoldersMove
  <2>2. CASE k # i
    BY <1>4, <1>6, <1>7, <2>2, HoldersMove DEF Active
  <2> QED
    BY <2>1, <2>2
<1>9. ASSUME NEW k \in Intents PROVE OneOwner(k) => OneOwner(k)'
  BY <1>2, <1>4, <1>6, <1>7, OwnersMove
<1>10. JobsOwn'
  BY <1>2, <1>4, <1>5, OwningStays
<1> QED
  BY <1>8, <1>9, <1>10 DEF KeepsGuards

LEMMA SettlingKeepsGuards ==
  ASSUME IInv, JobsOwn, NEW w \in Workers, SettleExitIntentExecution(w)
  PROVE  KeepsGuards
<1>1. PICK i \in Intents : i = job[w].of
  BY DEF IInv, Typed, Jobs
<1>2. /\ job[w].pc = "settle" /\ intent' = intent /\ key' = key \ {i}
      /\ job' = [job EXCEPT ![w] = Idle] /\ local' = [local EXCEPT ![w] = @ \ {i}]
  BY <1>1 DEF SettleExitIntentExecution, KeepIntents
<1>3. local[w] \subseteq {i} /\ local \in [Workers -> SUBSET Intents]
  BY <1>1 DEF JobsOwn, JobOwns
<1>4. Others(w) /\ job'[w] = Idle /\ local'[w] = {} /\ local' \in [Workers -> SUBSET Intents]
  BY <1>2, <1>3 DEF Others, IInv, Typed
<1>5. Idle.pc = "idle" /\ ~Idle.owner
  BY DEF Idle, At
<1>6. JobsOwn'
  BY <1>4, <1>5 DEF JobsOwn, JobOwns, Others, Owns, Acquired
<1>7. ASSUME NEW k \in Intents
      PROVE  ~Holder(w, k)' /\ ~ExitJob(w, k)' /\ ~ConfirmationJob(w, k)' /\ ~Owns(w, k)'
  BY <1>4, <1>5 DEF Holder, Holding, Acquired, ExitJob, ConfirmationJob, Owns, Taken
<1>8. ASSUME NEW k \in Intents PROVE OneHolder(k) => OneHolder(k)'
  BY <1>2, <1>4, <1>7, HoldersMove DEF Active
<1>9. ASSUME NEW k \in Intents PROVE OneOwner(k) => OneOwner(k)'
  <2>1. CASE k = i
    <3>1. Owns(w, k) \/ ConfirmationJob(w, k)
      BY <1>1, <1>2, <2>1 DEF ConfirmationJob
    <3> QED
      BY <1>2, <1>4, <1>7, <3>1, OwnerSettles
  <2>2. CASE k # i
    <3>1. (k \in key => k \in key') /\ intent'[k] = intent[k]
      BY <1>2, <2>2
    <3> QED
      BY <1>4, <1>7, <3>1, OwnersMove
  <2> QED
    BY <2>1, <2>2
<1> QED
  BY <1>6, <1>8, <1>9 DEF KeepsGuards

LEMMA WorkKeepsGuards ==
  ASSUME IInv, JobsOwn, NEW w \in Workers, Work(w)
  PROVE  KeepsGuards
<1> USE DEF Acquired
<1>1. ASSUME NEW i \in Intents, PopQueue(w, i) PROVE KeepsGuards
  <2>1. /\ job[w].pc \in {"idle", "scan"} /\ ~intent[i].notBefore
        /\ UNCHANGED <<intent, key, local>>
    BY <1>1 DEF PopQueue, KeepKeys
  <2>2. CASE Active(i)
    BY <1>1, <2>1, <2>2, TakingKeepsGuards DEF PopQueue
  <2>3. CASE ~Active(i)
    <3>1. job' = [job EXCEPT ![w] = Scanning] /\ local' = [local EXCEPT ![w] = {}]
      BY <1>1, <2>1, <2>3, NothingOwned DEF PopQueue, JobsOwn
    <3> QED
      BY <2>1, <3>1, LeavingKeepsGuards
  <2> QED
    BY <2>2, <2>3
<1>2. ASSUME NEW i \in Intents, ScanRows(w, i) PROVE KeepsGuards
  BY <1>2, TakingKeepsGuards DEF ScanRows, Due, KeepIntents, KeepKeys
<1>3. CASE ScanFindsNothing(w)
  <2>1. job' = [job EXCEPT ![w] = Idle] /\ local' = [local EXCEPT ![w] = {}]
    BY <1>3, NothingOwned DEF ScanFindsNothing, KeepKeys, JobsOwn
  <2> QED
    BY <1>3, <2>1, LeavingKeepsGuards DEF ScanFindsNothing, KeepIntents, KeepKeys
<1>4. CASE Submit(w)
  BY <1>4, ExecutingKeepsGuards DEF Submit, KeepKeys
<1>5. CASE LoadPosition(w)
  <2>1. CASE \E v : Decide(w, v)
    BY <1>5, <2>1, DecidingKeepsGuards DEF LoadPosition
  <2>2. CASE Step(w, "sell") /\ UNCHANGED <<intent, local, key>>
    BY <1>5, <2>2, ExecutingKeepsGuards DEF LoadPosition
  <2> QED
    BY <1>5, <2>1, <2>2 DEF LoadPosition, KeepIntents, KeepKeys
<1>6. CASE ExecutePositionExit(w)
  <2>1. job[w].pc = "sell" /\ \E v : Decide(w, v)
    BY <1>6 DEF ExecutePositionExit, SaleConfirms, SaleSent, NothingToSell, SaleSkipped,
       SaleFailsForNow, SaleFailsForGood, Sell
  <2> QED
    BY <2>1, DecidingKeepsGuards
<1>7. CASE ProcessConfirmationIntent(w)
  <2>1. job[w].pc = "claimed" /\ \E v : Decide(w, v)
    BY <1>7 DEF ProcessConfirmationIntent
  <2> QED
    BY <2>1, DecidingKeepsGuards
<1> QED
  BY <1>1, <1>2, <1>3, <1>4, <1>5, <1>6, <1>7, ClaimKeepsGuards, ClaimExecutionKeepsGuards,
     WritingKeepsGuards, SettlingKeepsGuards DEF Work

\* Only the rows and the keys may change, and no row is taken by it.
LEMMA RestKeepsGuards ==
  ASSUME JobsOwn, UNCHANGED <<job, local>>, key \subseteq key',
         \A i \in Intents :
           /\ intent'[i].claim = intent[i].claim /\ (Active(i) => Active(i)')
           /\ ~intent'[i].notBefore => ~intent[i].notBefore /\ intent'[i].lane = intent[i].lane
  PROVE  KeepsGuards
<1>1. ASSUME NEW w \in Workers, NEW i \in Intents
      PROVE  /\ Holder(w, i)' <=> Holder(w, i)
             /\ Owns(w, i)' <=> Owns(w, i)
             /\ ExitJob(w, i)' <=> ExitJob(w, i)
             /\ ConfirmationJob(w, i)' <=> ConfirmationJob(w, i)
  BY DEF Holder, Owns, ExitJob, ConfirmationJob, Taken
<1>2. JobsOwn'
  BY DEF JobsOwn, JobOwns, Owns
<1>3. ASSUME NEW i \in Intents PROVE OneHolder(i) => OneHolder(i)'
  BY <1>1 DEF OneHolder
<1>4. ASSUME NEW i \in Intents PROVE OneOwner(i) => OneOwner(i)'
  BY <1>1 DEF OneOwner, OneLane
<1> QED
  BY <1>2, <1>3, <1>4 DEF KeepsGuards

\* A deadline that passes breaks no guard if the job it protects is over,
\* and at most one if it is not.
OneGuardKept ==
  /\ JobsOwn'
  /\ \A i \in Intents : OneHolder(i) /\ OneOwner(i) => OneHolder(i)' \/ OneOwner(i)'

LEMMA TimeKeepsGuards ==
  ASSUME IInv, JobsOwn, lapses \in Nat, NEW i \in Intents, Time(i)
  PROVE  \/ lapses' = lapses /\ KeepsGuards
         \/ lapses' = lapses + 1 /\ OneGuardKept
<1>1. UNCHANGED <<job, local>> /\ JobsOwn'
  BY DEF Time, NotBeforePasses, ClaimAges, KeyExpires, CooldownEnds, KeepKeys, JobsOwn, JobOwns,
     Owns
<1>2. ASSUME NEW w \in Workers, NEW k \in Intents
      PROVE  /\ Holder(w, k)' <=> Holder(w, k)
             /\ Owns(w, k)' <=> Owns(w, k)
             /\ ExitJob(w, k)' <=> ExitJob(w, k)
             /\ ConfirmationJob(w, k)' <=> ConfirmationJob(w, k)
             /\ ~AtWork(i) => ~Holder(w, i) /\ ~ExitJob(w, i) /\ ~ConfirmationJob(w, i)
  <2>1. /\ Holder(w, k)' <=> Holder(w, k)
        /\ Owns(w, k)' <=> Owns(w, k)
        /\ ExitJob(w, k)' <=> ExitJob(w, k)
        /\ ConfirmationJob(w, k)' <=> ConfirmationJob(w, k)
    BY <1>1 DEF Holder, Owns, ExitJob, ConfirmationJob, Taken
  <2>2. ASSUME ~AtWork(i)
        PROVE  ~Holder(w, i) /\ ~ExitJob(w, i) /\ ~ConfirmationJob(w, i)
    BY <2>2 DEF AtWork, Holder, Holding, Acquired, ExitJob, ConfirmationJob, Owns, Taken, JobsOwn,
       JobOwns
  <2> QED
    BY <2>1, <2>2
<1>3. CASE NotBeforePasses(i)
  <2>1. /\ intent' = [intent EXCEPT ![i].notBefore = FALSE] /\ UNCHANGED key
        /\ lapses' = IF AtWork(i) THEN lapses + 1 ELSE lapses
    BY <1>3 DEF NotBeforePasses, KeepKeys, Lapse
  <2>2. \A k \in Intents :
         /\ intent'[k].claim = intent[k].claim /\ (Active(k) => Active(k)')
         /\ k # i => intent'[k] = intent[k]
    BY <2>1 DEF IInv, Typed, Rows, Active
  <2>3. ASSUME NEW k \in Intents PROVE OneHolder(k) => OneHolder(k)'
    BY <1>2, <2>2 DEF OneHolder
  <2>4. ASSUME ~AtWork(i), NEW k \in Intents PROVE OneOwner(k) => OneOwner(k)'
    <3>1. CASE k = i
      BY <1>2, <2>1, <2>4, <3>1 DEF OneOwner, OneLane, ExitJob
    <3>2. CASE k # i
      BY <1>2, <2>1, <2>2, <3>2 DEF OneOwner, OneLane
    <3> QED
      BY <3>1, <3>2
  <2> QED
    BY <1>1, <2>1, <2>3, <2>4 DEF KeepsGuards, OneGuardKept
<1>4. CASE ClaimAges(i)
  <2>1. /\ intent' = [intent EXCEPT ![i].claim = "stale"] /\ UNCHANGED key
        /\ lapses' = IF AtWork(i) THEN lapses + 1 ELSE lapses
    BY <1>4 DEF ClaimAges, KeepKeys, Lapse
  <2>2. \A k \in Intents :
         /\ intent'[k].notBefore = intent[k].notBefore
         /\ intent'[k].lane = intent[k].lane /\ (Active(k) => Active(k)')
         /\ k # i => intent'[k] = intent[k]
    BY <2>1 DEF IInv, Typed, Rows, Active
  <2>3. ASSUME NEW k \in Intents PROVE OneOwner(k) => OneOwner(k)'
    BY <1>2, <2>1, <2>2 DEF OneOwner, OneLane
  <2>4. ASSUME ~AtWork(i), NEW k \in Intents PROVE OneHolder(k) => OneHolder(k)'
    BY <1>2, <2>2, <2>4 DEF OneHolder
  <2> QED
    BY <1>1, <2>1, <2>3, <2>4 DEF KeepsGuards, OneGuardKept
<1>5. CASE KeyExpires(i)
  <2>1. /\ intent' = intent /\ key' = key \ {i}
        /\ lapses' = IF \E w \in Workers : Owns(w, i) THEN lapses + 1 ELSE lapses
    BY <1>5 DEF KeyExpires, Lapse, Owns
  <2>2. ASSUME NEW k \in Intents PROVE OneHolder(k) => OneHolder(k)'
    BY <1>2, <2>1 DEF OneHolder, Active
  <2>3. ASSUME ~\E w \in Workers : Owns(w, i), NEW k \in Intents
        PROVE  OneOwner(k) => OneOwner(k)'
    BY <1>2, <2>1, <2>3 DEF OneOwner, OneLane
  <2> QED
    BY <1>1, <2>1, <2>2, <2>3 DEF KeepsGuards, OneGuardKept
<1>6. CASE CooldownEnds(i)
  <2>1. intent' = intent /\ key' = key /\ lapses' \in {lapses, lapses + 1}
    BY <1>6 DEF CooldownEnds, Lapse
  <2>2. KeepsGuards
    BY <1>1, <2>1, RestKeepsGuards DEF Active
  <2> QED
    BY <2>1, <2>2 DEF KeepsGuards, OneGuardKept
<1> QED
  BY <1>3, <1>4, <1>5, <1>6 DEF Time

LEMMA NextKeepsGuards ==
  ASSUME IInv, JobsOwn, lapses \in Nat, [Next]_vars
  PROVE  \/ lapses' = lapses /\ KeepsGuards
         \/ lapses' = lapses + 1 /\ OneGuardKept
<1>1. ASSUME NEW w \in Workers, Work(w) PROVE lapses' = lapses /\ KeepsGuards
  <2>1. lapses' = lapses
    BY <1>1 DEF Work, PopQueue, ScanRows, ScanFindsNothing, Claim, ClaimExitIntentExecution, Submit,
       LoadPosition, ExecutePositionExit, SaleConfirms, SaleSent, NothingToSell, SaleSkipped,
       SaleFailsForNow, SaleFailsForGood, ProcessConfirmationIntent, UpdatePositionExitIntentState,
       SettleExitIntentExecution, Decide, KeepWorld
  <2> QED
    BY <1>1, <2>1, WorkKeepsGuards
<1>2. ASSUME NEW w \in Workers, Crash(w) PROVE lapses' = lapses /\ KeepsGuards
  BY <1>2, LeavingKeepsGuards DEF Crash
<1>3. ASSUME NEW i \in Intents, EnqueuePositionExitIntent(i) PROVE lapses' = lapses /\ KeepsGuards
  <2>1. \A k \in Intents :
         /\ intent'[k].claim = intent[k].claim /\ (Active(k) => Active(k)')
         /\ intent'[k].notBefore = intent[k].notBefore
         /\ intent'[k].lane = intent[k].lane
    BY <1>3 DEF EnqueuePositionExitIntent, IInv, Typed, Rows, Active, ActiveStates
  <2> QED
    BY <1>3, <2>1, RestKeepsGuards DEF EnqueuePositionExitIntent
<1>4. CASE UNCHANGED <<intent, job, local, key, lapses>>
  BY <1>4, RestKeepsGuards DEF Active
<1> QED
  BY <1>1, <1>2, <1>3, <1>4, TimeKeepsGuards DEF Next, ReconcileTerminalExitGhostPosition,
     LoseQueue, BuyConfirms, SaleSettles, ProjectionCloses, KeepExits, vars

LEMMA SellerInit == Init => SellerInv
<1> SUFFICES ASSUME Init PROVE SellerInv
  OBVIOUS
<1>1. IInv
  BY InitHolds
<1>2. \A w \in Workers : local[w] = {} /\ job[w].pc = "idle" /\ ~job[w].owner
  BY DEF Init, Idle, At
<1>3. JobsOwn
  BY <1>2 DEF Init, JobsOwn, JobOwns, Owns, Acquired
<1>4. \A i \in Intents : OneHolder(i) /\ OneOwner(i)
  BY <1>2 DEF OneHolder, OneOwner, OneLane, Holder, Holding, Acquired, ExitJob, ConfirmationJob,
     Owns, Taken
<1>5. Guarded
  BY <1>4 DEF Guarded, Init
<1> QED
  BY <1>1, <1>3, <1>5 DEF SellerInv

LEMMA SellerNext == SellerInv /\ [Next]_vars => SellerInv'
<1> SUFFICES ASSUME SellerInv, [Next]_vars PROVE SellerInv'
  OBVIOUS
<1>1. IInv'
  BY NextKeeps DEF SellerInv
<1>2. CASE lapses' = lapses /\ KeepsGuards
  BY <1>1, <1>2 DEF SellerInv, Guarded, KeepsGuards
<1>3. CASE lapses' = lapses + 1 /\ OneGuardKept
  <2>1. lapses' \in Nat /\ lapses' # 0 /\ (lapses' <= 1 => lapses = 0)
    BY <1>3 DEF SellerInv, Guarded
  <2> QED
    BY <1>1, <1>3, <2>1 DEF SellerInv, Guarded, OneGuardKept
<1> QED
  BY <1>2, <1>3, NextKeepsGuards DEF SellerInv, Guarded

LEMMA SellerAlways == Spec => []SellerInv
BY SellerInit, SellerNext, PTL DEF Spec

(***************************************************************************)
(* As long as at most one deadline has passed under a job at work, no two   *)
(* processes execute the same exit, through crashes, lost queues and        *)
(* changes of lane: for any number of processes and of intents.             *)
(***************************************************************************)
THEOREM OneSellerAlways == Spec => []OneSeller
<1>1. SellerInv => OneSeller
  <2> SUFFICES ASSUME SellerInv, lapses <= 1, NEW i \in Intents
               PROVE  Cardinality({w \in Workers : Executing(w, i)}) <= 1
    BY DEF OneSeller
  <2> DEFINE S == {w \in Workers : Executing(w, i)}
  <2>1. \A w \in Workers : Executing(w, i) => Holder(w, i) /\ Owns(w, i)
    BY DEF Executing, Holder, Holding, SellerInv, JobsOwn, JobOwns
  <2>2. \A v, w \in S : v = w
    BY <2>1 DEF SellerInv, Guarded, OneHolder, OneOwner
  <2>3. CASE S = {}
    BY <2>3, FS_EmptySet
  <2>4. CASE S # {}
    <3>1. PICK w \in S : S = {w}
      BY <2>2, <2>4
    <3> QED
      BY <3>1, FS_Singleton
  <2> QED
    BY <2>3, <2>4
<1> QED
  BY <1>1, SellerAlways, PTL
-----------------------------------------------------------------------------
(***************************************************************************)
(* The retry limit.  As long as no deadline has passed under a job at work, *)
(* every execution of an intent is counted on its row before the intent is  *)
(* executed again, or the process that executed it has died.  The jobs that *)
(* have read a row before another job wrote it keep the count they read:    *)
(* they all read the same one (SameCount), and one that reads it before an  *)
(* execution and claims after it finds the key or the cooldown (Blocked).   *)
(***************************************************************************)
\* Executions that a count of c leaves room for: a count above the limit is
\* that of an intent whose buy was awaited, and which nobody has executed.
Granted(c) == IF c <= MaxRetry THEN c ELSE 0

Within(i, c, more) == attempts[i] <= Granted(c) + more + faults

Closed(i) == intent[i].state \in TerminalStates

Copied(w, i) == job[w].of = i /\ job[w].pc \in Acquired \union {"candidate", "claimed"}

\* The intent has not been executed since the row was read.
Unspent(w, i) == Within(i, job[w].row.count, 0) /\ Within(i, intent[i].count, 0)

\* It has, and the job will find that out.
Blocked(w, i) ==
  i \in cool \/ (\E v \in Workers : Owns(v, i)) \/ (job[w].pc = "candidate" /\ Closed(i))

CopyBudget(w, i) ==
  Copied(w, i) => /\ Within(i, job[w].row.count, 1)
                  /\ ~intent[i].notBefore => job[w].row.count = intent[i].count

ExecutionBudget(w, i) ==
  /\ Taken(w, i, "exit") => Unspent(w, i) \/ Blocked(w, i)
  /\ job[w].of = i /\ job[w].pc \in {"submit", "load"} => Unspent(w, i)

VerdictFits(w, i, v, settles) ==
  /\ v.state \in TerminalStates \union {"retryable", "pending_finality"}
  /\ v.state = "retryable" /\ v.lane = "exit" => Within(i, v.count, 0)
  /\ v.state = "retryable" /\ v.lane # "exit" => Within(i, v.count, 1) /\ settles
  /\ v.state = "pending_finality" => v.lane = "confirmation" /\ Owns(w, i)
  /\ v.state = "failed_terminal" /\ ~intent[i].notBefore => v.count = intent[i].count

VerdictBudget(w, i) ==
  job[w].of = i /\ job[w].pc = "write" => VerdictFits(w, i, job[w].verdict, job[w].settles)

SettledBudget(w, i) ==
  /\ job[w].of = i /\ job[w].pc = "settle" /\ job[w].verdict.state \in TerminalStates
  => Closed(i)

JobBudget(w, i) ==
  CopyBudget(w, i) /\ ExecutionBudget(w, i) /\ VerdictBudget(w, i) /\ SettledBudget(w, i)

SameCount(i) ==
  \A v, w \in Workers : Copied(v, i) /\ Copied(w, i) => job[v].row.count = job[w].row.count

RowBudget(i) ==
  /\ Active(i) => Within(i, intent[i].count, 1)
  /\ Active(i) /\ intent[i].lane = "exit"
       => Within(i, intent[i].count, 0) \/ \E w \in Workers : Holder(w, i) /\ Owns(w, i)
  /\ intent[i].state = "absent" => attempts[i] = 0
  /\ position.status = "unconfirmed" => attempts[i] = 0
  /\ attempts[i] <= MaxRetry + 1 + faults

Budget(i) == RowBudget(i) /\ SameCount(i) /\ \A w \in Workers : JobBudget(w, i)

Budgeted ==
  /\ attempts \in [Intents -> Nat] /\ faults \in Nat
  /\ lapses = 0 => \A i \in Intents : Budget(i)

Level0 ==
  /\ SellerInv /\ attempts \in [Intents -> Nat] /\ faults \in Nat
  /\ \A i \in Intents : OneHolder(i) /\ OneOwner(i) /\ Budget(i)

BudgetInv == SellerInv /\ Budgeted
-----------------------------------------------------------------------------
LEMMA GrantedNat ==
  ASSUME NEW c \in Counts
  PROVE  Granted(c) \in Nat /\ Granted(c) <= MaxRetry
BY ExitIntentAssumption DEF Granted, Counts

\* Nothing an intent is budgeted by gets worse.
Quiet(i) ==
  /\ attempts'[i] = attempts[i] /\ faults' \in Nat /\ faults <= faults'
  /\ intent'[i] \in Rows /\ intent'[i].count = intent[i].count
  /\ intent'[i].notBefore = intent[i].notBefore /\ intent'[i].lane = intent[i].lane
  /\ Active(i)' => Active(i) \/ intent[i].state = "absent"
  /\ Closed(i) => Closed(i)'
  /\ intent'[i].state = "absent" => intent[i].state = "absent"
  /\ i \in cool => i \in cool'
  /\ position'.status = "unconfirmed" => position.status = "unconfirmed"
  /\ \A v \in Workers : Owns(v, i) => Owns(v, i)'

\* What is within the budget stays within it.
LEMMA WithinStays ==
  ASSUME NEW i \in Intents, NEW c \in Counts, NEW more \in Nat,
         attempts \in [Intents -> Nat], faults \in Nat,
         attempts'[i] = attempts[i], faults' \in Nat, faults <= faults', Within(i, c, more)
  PROVE  attempts'[i] <= Granted(c) + more + faults'
<1>1. Granted(c) \in Nat /\ attempts[i] \in Nat
  BY GrantedNat
<1> QED
  BY <1>1 DEF Within

LEMMA RowTyped ==
  ASSUME IInv, NEW i \in Intents, NEW w \in Workers
  PROVE  intent[i].count \in Counts /\ job[w].row.count \in Counts
         /\ job[w].verdict \in Verdicts /\ job[w].verdict.count \in Counts
BY DEF IInv, Typed, Rows, Jobs, Copies, Verdicts

LEMMA RowStays ==
  ASSUME IInv, attempts \in [Intents -> Nat], faults \in Nat, NEW i \in Intents, Quiet(i),
         RowBudget(i), \A v \in Workers : Holder(v, i) /\ Owns(v, i) => Holder(v, i)'
  PROVE  RowBudget(i)'
<1> DEFINE c == intent[i].count
<1>1. c \in Counts /\ attempts[i] \in Nat /\ 0 \in Nat /\ 1 \in Nat
  BY DEF IInv, Typed, Rows
<1>2. Granted(c) \in Nat
  BY <1>1, GrantedNat
<1>3. /\ attempts'[i] = attempts[i] /\ faults' \in Nat /\ faults <= faults' /\ intent'[i].count = c
      /\ intent'[i].lane = intent[i].lane
  BY DEF Quiet
<1>4. Active(i)' => attempts'[i] <= Granted(c) + 1 + faults'
  <2>1. CASE Active(i)
    BY <1>1, <1>3, <2>1, WithinStays DEF RowBudget
  <2>2. CASE intent[i].state = "absent"
    BY <1>1, <1>2, <1>3, <2>2 DEF RowBudget
  <2> QED
    BY <2>1, <2>2 DEF Quiet
<1>5. Active(i)' /\ intent[i].lane = "exit"
        => attempts'[i] <= Granted(c) + 0 + faults' \/ \E w \in Workers : Holder(w, i)' /\ Owns(w, i)'
  <2>1. CASE intent[i].state = "absent"
    BY <1>1, <1>2, <1>3, <2>1 DEF RowBudget
  <2>2. CASE Active(i) /\ intent[i].lane = "exit" /\ Within(i, c, 0)
    BY <1>1, <1>3, <2>2, WithinStays
  <2>3. CASE \E w \in Workers : Holder(w, i) /\ Owns(w, i)
    BY <2>3 DEF Quiet
  <2> QED
    BY <2>1, <2>2, <2>3 DEF Quiet, RowBudget
<1>6. /\ intent'[i].state = "absent" => attempts'[i] = 0
      /\ position'.status = "unconfirmed" => attempts'[i] = 0
  BY DEF Quiet, RowBudget
<1>7. attempts'[i] <= MaxRetry + 1 + faults'
  BY <1>1, <1>3, ExitIntentAssumption DEF RowBudget
<1> HIDE DEF c
<1> QED
  BY <1>3, <1>4, <1>5, <1>6, <1>7 DEF RowBudget, Within

LEMMA JobStays ==
  ASSUME IInv, attempts \in [Intents -> Nat], faults \in Nat, NEW i \in Intents, Quiet(i),
         NEW v \in Workers, JobBudget(v, i), job'[v] = job[v]
  PROVE  JobBudget(v, i)'
<1> DEFINE c == intent[i].count
           d == job[v].row.count
           u == job[v].verdict.count
<1>1. /\ attempts'[i] = attempts[i] /\ faults' \in Nat /\ faults <= faults' /\ intent'[i].count = c
      /\ intent'[i].notBefore = intent[i].notBefore /\ (Closed(i) => Closed(i)')
      /\ (i \in cool => i \in cool') /\ (\A w \in Workers : Owns(w, i) => Owns(w, i)')
      /\ c \in Counts /\ d \in Counts /\ u \in Counts
  BY RowTyped DEF Quiet
<1>2. ASSUME NEW x \in Counts, NEW more \in Nat, Within(i, x, more)
      PROVE  attempts'[i] <= Granted(x) + more + faults'
  BY <1>1, <1>2, WithinStays
<1> HIDE DEF c, d, u
<1>3. /\ Within(i, c, 0) => attempts'[i] <= Granted(c) + 0 + faults'
      /\ Within(i, d, 0) => attempts'[i] <= Granted(d) + 0 + faults'
      /\ Within(i, d, 1) => attempts'[i] <= Granted(d) + 1 + faults'
      /\ Within(i, u, 0) => attempts'[i] <= Granted(u) + 0 + faults'
      /\ Within(i, u, 1) => attempts'[i] <= Granted(u) + 1 + faults'
  BY <1>1, <1>2
<1>4. CopyBudget(v, i)'
  BY <1>1, <1>3 DEF JobBudget, CopyBudget, Copied, Within, c, d
<1>5. ExecutionBudget(v, i)'
  BY <1>1, <1>3 DEF JobBudget, ExecutionBudget, Taken, Unspent, Blocked, Within, c, d
<1>6. VerdictBudget(v, i)'
  BY <1>1, <1>3 DEF JobBudget, VerdictBudget, VerdictFits, Within, c, u
<1>7. SettledBudget(v, i)'
  BY <1>1 DEF JobBudget, SettledBudget
<1> QED
  BY <1>4, <1>5, <1>6, <1>7 DEF JobBudget

\* A step of w, which is quiet for the intent.
LEMMA StepStays ==
  ASSUME Level0, NEW w \in Workers, Others(w), NEW i \in Intents, Quiet(i),
         Copied(w, i)' => \/ Copied(w, i) /\ job'[w].row.count = job[w].row.count
                          \/ ~intent[i].notBefore /\ job'[w].row.count = intent[i].count,
         Holder(w, i) /\ Owns(w, i) => Holder(w, i)', JobBudget(w, i)'
  PROVE  Budget(i)'
<1>1. IInv /\ Budget(i) /\ attempts \in [Intents -> Nat] /\ faults \in Nat
  BY DEF Level0, SellerInv
<1>2. \A v \in Workers \ {w} : job'[v] = job[v]
  BY DEF Others
<1>3. ASSUME NEW v \in Workers PROVE JobBudget(v, i)'
  BY <1>1, <1>2, JobStays DEF Budget
<1>4. \A v \in Workers : Holder(v, i) /\ Owns(v, i) => Holder(v, i)'
  BY <1>2 DEF Holder
<1>5. RowBudget(i)'
  BY <1>1, <1>4, RowStays DEF Budget
<1>6. \A v \in Workers \ {w} :
        Copied(v, i)' => Copied(v, i) /\ job'[v].row.count = job[v].row.count
  BY <1>2 DEF Copied
<1>7. SameCount(i)'
  <2>1. CASE ~Copied(w, i)' \/ (Copied(w, i) /\ job'[w].row.count = job[w].row.count)
    BY <1>1, <1>6, <2>1 DEF Budget, SameCount
  <2>2. CASE ~intent[i].notBefore /\ job'[w].row.count = intent[i].count
    <3>1. \A v \in Workers : Copied(v, i) => job[v].row.count = intent[i].count
      BY <1>1, <2>2 DEF Budget, JobBudget, CopyBudget
    <3> QED
      BY <1>6, <2>2, <3>1 DEF SameCount
  <2> QED
    BY <2>1, <2>2
<1> QED
  BY <1>3, <1>5, <1>7 DEF Budget

\* A process with nothing to do for an intent.
LEMMA NoJobNoBudget ==
  ASSUME NEW w \in Workers, NEW i \in Intents,
         job'[w].of # i \/ job'[w].pc \in {"idle", "scan"}
  PROVE  JobBudget(w, i)' /\ ~Copied(w, i)'
BY DEF JobBudget, CopyBudget, Copied, ExecutionBudget, Taken, VerdictBudget, SettledBudget, Acquired

LEMMA NoOwnerHolds ==
  ASSUME JobsOwn, NEW w \in Workers, NEW i \in Intents, job[w].of # i
  PROVE  ~Owns(w, i) /\ ~Holder(w, i)
BY DEF JobsOwn, JobOwns, Owns, Holder

\* Where neither the row nor its deadlines move.
LEMMA QuietRow ==
  ASSUME Level0, NEW i \in Intents, intent'[i] = intent[i], attempts'[i] = attempts[i],
         faults' = faults, i \in cool => i \in cool',
         position'.status = "unconfirmed" => position.status = "unconfirmed",
         \A v \in Workers : Owns(v, i) => Owns(v, i)'
  PROVE  Quiet(i)
BY DEF Quiet, Level0, SellerInv, IInv, Typed, Active, Closed

\* The intents a job is not about.
LEMMA ElsewhereStays ==
  ASSUME Level0, NEW w \in Workers, Others(w), NEW i \in Intents, Quiet(i),
         job[w].of # i \/ job[w].pc \in {"idle", "scan"},
         job'[w].of # i \/ job'[w].pc \in {"idle", "scan"}
  PROVE  Budget(i)'
<1>1. JobBudget(w, i)' /\ ~Copied(w, i)'
  BY NoJobNoBudget
<1>2. ~(Holder(w, i) /\ Owns(w, i))
  BY NoOwnerHolds DEF Level0, SellerInv, Holder, Holding, Acquired
<1> QED
  BY <1>1, <1>2, StepStays

\* The process gives up a job that owns nothing.
LEMMA LeavingKeepsBudget ==
  ASSUME Level0, NEW w \in Workers, local[w] = {}, NEW j \in {Idle, Scanning},
         job' = [job EXCEPT ![w] = j],
         UNCHANGED <<intent, local, cool, position, attempts, faults>>
  PROVE  \A i \in Intents : Budget(i)'
<1>1. Others(w) /\ job'[w] = j /\ j.pc \in {"idle", "scan"}
  BY StepOfOne, IdleTyped DEF Level0, SellerInv
<1> SUFFICES ASSUME NEW i \in Intents PROVE Budget(i)'
  OBVIOUS
<1>2. Quiet(i)
  BY QuietRow DEF Owns
<1>3. JobBudget(w, i)' /\ ~Copied(w, i)' /\ ~Owns(w, i)
  BY <1>1, NoJobNoBudget DEF Owns
<1> QED
  BY <1>1, <1>2, <1>3, StepStays

LEMMA TakingKeepsBudget ==
  ASSUME Level0, NEW w \in Workers, NEW i \in Intents, NEW popped \in BOOLEAN,
         job[w].pc \in {"idle", "scan"}, Take(w, i, popped), ~intent[i].notBefore, Active(i),
         UNCHANGED <<intent, local, cool, position, attempts, faults>>
  PROVE  \A k \in Intents : Budget(k)'
<1> DEFINE j == At("candidate", i, Read(i), popped)
<1>1. job' = [job EXCEPT ![w] = j]
  BY DEF Take
<1>2. /\ j.pc = "candidate" /\ j.of = i /\ j.row.lane = intent[i].lane
      /\ j.row.count = intent[i].count
  BY DEF At, Read
<1> HIDE DEF j
<1>3. Others(w) /\ job'[w] = j
  BY <1>1, StepOfOne DEF Level0, SellerInv
<1> SUFFICES ASSUME NEW k \in Intents PROVE Budget(k)'
  OBVIOUS
<1>4. Quiet(k)
  BY QuietRow DEF Owns
<1>5. CASE k # i
  BY <1>2, <1>3, <1>4, <1>5, ElsewhereStays
<1>6. CASE k = i
  <2>1. RowBudget(i)
    BY DEF Level0, Budget
  <2>2. Within(i, intent[i].count, 1) <=> Within(i, intent[i].count, 1)'
    BY DEF Within
  <2>3. Within(i, intent[i].count, 0) <=> Within(i, intent[i].count, 0)'
    BY DEF Within
  <2>4. CopyBudget(w, i)'
    BY <1>2, <1>3, <2>1, <2>2 DEF RowBudget, CopyBudget, Within
  <2>5. ExecutionBudget(w, i)'
    <3>1. Taken(w, i, "exit")' => intent[i].lane = "exit"
      BY <1>2, <1>3 DEF Taken
    <3>2. CASE Within(i, intent[i].count, 0)
      BY <1>2, <1>3, <3>2, <2>3 DEF ExecutionBudget, Unspent, Within
    <3>3. CASE \E v \in Workers : Owns(v, i)
      BY <1>2, <1>3, <3>3 DEF ExecutionBudget, Blocked, Owns
    <3> QED
      BY <1>2, <1>3, <2>1, <3>1, <3>2, <3>3 DEF RowBudget, ExecutionBudget
  <2>6. VerdictBudget(w, i)' /\ SettledBudget(w, i)'
    BY <1>2, <1>3 DEF VerdictBudget, SettledBudget
  <2>7. JobBudget(w, i)' /\ ~Holder(w, i)
    BY <2>4, <2>5, <2>6 DEF JobBudget, Holder, Holding, Acquired
  <2> QED
    BY <1>2, <1>3, <1>4, <1>6, <2>7, StepStays
<1> QED
  BY <1>5, <1>6

LEMMA ClaimKeepsBudget ==
  ASSUME Level0, NEW w \in Workers, Claim(w)
  PROVE  \A k \in Intents : Budget(k)'
<1>1. PICK i \in Intents : i = job[w].of
  BY DEF Level0, SellerInv, IInv, Typed, Jobs
<1> DEFINE state == IF job[w].row.state = "created" THEN "precheck_ready" ELSE job[w].row.state
           row == [intent[i] EXCEPT !.state = state, !.claim = "fresh"]
           copy == [job[w].row EXCEPT !.state = "absent"]
           j == At("claimed", i, copy, FALSE)
<1>2. /\ job[w].pc = "candidate" /\ local[w] = {}
      /\ UNCHANGED <<local, cool, position, attempts, faults>>
      /\ intent[i] \in Rows /\ job[w].row \in Copies
  BY NothingOwned DEF Claim, KeepKeys, KeepWorld, Acquired, Level0, SellerInv, IInv, Typed, Jobs
<1>3. CASE ~CanClaim(i)
  <2>1. intent' = intent /\ \E idle \in {Idle, Scanning} : job' = [job EXCEPT ![w] = idle]
    BY <1>1, <1>3 DEF Claim
  <2> QED
    BY <1>2, <2>1, LeavingKeepsBudget
<1>4. CASE CanClaim(i)
  <2>1. intent' = [intent EXCEPT ![i] = row] /\ job' = [job EXCEPT ![w] = j]
    BY <1>1, <1>4 DEF Claim
  <2>2. state \in ActiveStates
    BY <1>2 DEF Level0, SellerInv, IInv, CandidatesAreActive, ActiveStates
  <2>3. /\ row.state \in ActiveStates /\ row \in Rows /\ row.count = intent[i].count
        /\ row.notBefore = intent[i].notBefore /\ row.lane = intent[i].lane
    <3> HIDE DEF state
    <3> QED
      BY <1>2, <2>2 DEF Rows
  <2>4. /\ j.pc = "claimed" /\ j.of = i /\ j.row.lane = job[w].row.lane
        /\ j.row.count = job[w].row.count
    <3>1. copy.lane = job[w].row.lane /\ copy.count = job[w].row.count
      BY <1>2 DEF Copies
    <3> HIDE DEF copy
    <3> QED
      BY <3>1 DEF At
  <2> HIDE DEF j, row, state, copy
  <2>5. Others(w) /\ job'[w] = j
    BY <1>2, <2>1, StepOfOne DEF Level0, SellerInv
  <2>6. intent'[i] = row /\ \A k \in Intents : k # i => intent'[k] = intent[k]
    BY <2>1 DEF Level0, SellerInv, IInv, Typed
  <2>7. \A v \in Workers, k \in Intents : Owns(v, k)' <=> Owns(v, k)
    BY <1>2 DEF Owns
  <2>8. ASSUME NEW k \in Intents, k # i PROVE Budget(k)'
    <3>1. Quiet(k)
      BY <1>2, <2>6, <2>7, <2>8, QuietRow
    <3> QED
      BY <1>1, <2>4, <2>5, <2>8, <3>1, ElsewhereStays
  <2>9. Budget(i)'
    <3>1. Active(i) /\ Active(i)' /\ ~Closed(i) /\ intent'[i].state # "absent"
      BY <1>4, <2>3, <2>6 DEF CanClaim, Active, Closed, ActiveStates, TerminalStates
    <3>2. Quiet(i)
      BY <1>2, <2>3, <2>6, <2>7, <3>1 DEF Quiet, Level0
    <3>3. JobBudget(w, i) /\ Copied(w, i)
      BY <1>1, <1>2 DEF Level0, Budget, Copied
    <3>4. CopyBudget(w, i)'
      BY <1>2, <2>3, <2>4, <2>5, <2>6, <3>3 DEF JobBudget, CopyBudget, Within
    <3>5. ExecutionBudget(w, i)'
      <4>1. Taken(w, i, "exit")' => Taken(w, i, "exit")
        BY <1>1, <1>2, <2>4, <2>5 DEF Taken
      <4>2. Taken(w, i, "exit") => Unspent(w, i) \/ i \in cool \/ \E v \in Workers : Owns(v, i)
        BY <3>1, <3>3 DEF JobBudget, ExecutionBudget, Blocked
      <4>3. Unspent(w, i) => Unspent(w, i)'
        BY <1>2, <2>3, <2>4, <2>5, <2>6 DEF Unspent, Within
      <4> QED
        BY <1>2, <2>4, <2>5, <2>7, <4>1, <4>2, <4>3 DEF ExecutionBudget, Blocked
    <3>6. VerdictBudget(w, i)' /\ SettledBudget(w, i)'
      BY <2>4, <2>5 DEF VerdictBudget, SettledBudget
    <3>7. JobBudget(w, i)' /\ ~Holder(w, i)
      BY <1>2, <3>4, <3>5, <3>6 DEF JobBudget, Holder, Holding, Acquired
    <3> QED
      BY <2>4, <2>5, <3>2, <3>3, <3>7, StepStays
  <2> QED
    BY <2>8, <2>9
<1> QED
  BY <1>3, <1>4

\* The job has decided what it will write.
LEMMA DecidingKeepsBudget ==
  ASSUME Level0, NEW w \in Workers, NEW v, Decide(w, v), cool' = cool,
         job[w].pc \in Acquired \union {"claimed"},
         VerdictFits(w, job[w].of, v, job[w].owner \/ job[w].row.lane = "confirmation"),
         position'.status = "unconfirmed" => position.status = "unconfirmed"
  PROVE  \A k \in Intents : Budget(k)'
<1>1. PICK i \in Intents : i = job[w].of
  BY DEF Level0, SellerInv, IInv, Typed, Jobs
<1>0. PICK s : s = (job[w].owner \/ job[w].row.lane = "confirmation")
  OBVIOUS
<1> DEFINE j == ToWrite(w, v)
<1>2. UNCHANGED <<intent, local, attempts, faults>> /\ job' = [job EXCEPT ![w] = j]
  BY DEF Decide, KeepIntents, KeepKeys
<1>3. /\ j.pc = "write" /\ j.of = i /\ j.verdict = v /\ j.settles = s
  BY <1>1, <1>0 DEF ToWrite
<1> HIDE DEF j
<1>4. Others(w) /\ job'[w] = j
  BY <1>2, StepOfOne DEF Level0, SellerInv
<1> SUFFICES ASSUME NEW k \in Intents PROVE Budget(k)'
  OBVIOUS
<1>5. Quiet(k)
  BY <1>2, QuietRow DEF Owns
<1>6. CASE k # i
  BY <1>1, <1>3, <1>4, <1>5, <1>6, ElsewhereStays
<1>7. CASE k = i
  <2>1. VerdictFits(w, i, v, s)
    BY <1>1, <1>0
  <2>2. VerdictFits(w, i, v, s)'
    BY <1>2, <2>1 DEF VerdictFits, Within, Owns
  <2>3. VerdictBudget(w, i)'
    BY <1>3, <1>4, <2>2 DEF VerdictBudget, VerdictFits, Within, Owns
  <2>4. JobBudget(w, i)' /\ ~Copied(w, i)' /\ Holder(w, i)'
    BY <1>3, <1>4, <2>3 DEF JobBudget, CopyBudget, Copied, ExecutionBudget, Taken, SettledBudget,
       Acquired, Holder, Holding
  <2> QED
    BY <1>4, <1>5, <1>7, <2>4, StepStays
<1> QED
  BY <1>6, <1>7

\* A verdict that closes the row, with the count that was read.
LEMMA ClosingFits ==
  ASSUME Level0, NEW w \in Workers, job[w].pc \in Acquired \union {"claimed"},
         NEW v, v.state \in TerminalStates, v.count = job[w].row.count, NEW settles
  PROVE  VerdictFits(w, job[w].of, v, settles)
<1>1. job[w].of \in Intents
  BY DEF Level0, SellerInv, IInv, Typed, Jobs
<1>2. CopyBudget(w, job[w].of) /\ Copied(w, job[w].of)
  BY <1>1 DEF Level0, Budget, JobBudget, Copied
<1> QED
  BY <1>2 DEF VerdictFits, CopyBudget, TerminalStates

\* One more retry, while the budget lasts.
LEMMA RetryFits ==
  ASSUME Level0, NEW w \in Workers, job[w].pc \in Acquired \union {"claimed"}, NEW settles
  PROVE  VerdictFits(w, job[w].of, RetryWithinBudget(w, "exit"), settles)
<1> DEFINE i == job[w].of
           c == job[w].row.count
<1>1. i \in Intents /\ c \in Counts /\ attempts[i] \in Nat /\ faults \in Nat
  BY DEF Level0, SellerInv, IInv, Typed, Jobs, Copies
<1>2. Within(i, c, 1)
  BY <1>1 DEF Level0, Budget, JobBudget, CopyBudget, Copied
<1>3. CASE NextCount(w) > MaxRetry
  <2>1. RetryWithinBudget(w, "exit") = Verdict(w, "failed_terminal")
    BY <1>3 DEF RetryWithinBudget
  <2>2. Verdict(w, "failed_terminal").state \in TerminalStates
        /\ Verdict(w, "failed_terminal").count = job[w].row.count
    BY DEF Verdict, TerminalStates
  <2> QED
    BY <2>1, <2>2, ClosingFits
<1>4. CASE ~(NextCount(w) > MaxRetry)
  <2> DEFINE v == Retry(w, "exit")
  <2>1. RetryWithinBudget(w, "exit") = v
    BY <1>4 DEF RetryWithinBudget
  <2>2. v.state = "retryable" /\ v.lane = "exit" /\ v.count = NextCount(w)
    BY DEF Retry
  <2>3. NextCount(w) = c + 1 /\ c + 1 <= MaxRetry
    BY <1>1, <1>4, ExitIntentAssumption DEF NextCount, Counts
  <2>4. Granted(c + 1) = Granted(c) + 1 /\ Granted(c) \in Nat
    BY <1>1, <2>3, ExitIntentAssumption DEF Granted, Counts
  <2> HIDE DEF v, i, c
  <2>5. Within(i, v.count, 0)
    BY <1>1, <1>2, <2>2, <2>3, <2>4 DEF Within
  <2>6. VerdictFits(w, i, v, settles)
    BY <2>2, <2>5 DEF VerdictFits, TerminalStates
  <2> QED
    BY <2>1, <2>6 DEF i
<1> QED
  BY <1>3, <1>4

LEMMA ClaimExecutionKeepsBudget ==
  ASSUME Level0, NEW w \in Workers, ClaimExitIntentExecution(w)
  PROVE  \A k \in Intents : Budget(k)'
<1>1. PICK i \in Intents : i = job[w].of
  BY DEF Level0, SellerInv, IInv, Typed, Jobs
<1>2. /\ job[w].pc = "claimed" /\ job[w].row.lane = "exit"
      /\ UNCHANGED <<intent, cool, position, attempts, faults>>
  BY DEF ClaimExitIntentExecution, KeepIntents, KeepKeys, KeepWorld
<1>3. CASE Held(w, i) \/ i \in cool
  <2>1. Decide(w, RetryWithinBudget(w, "exit"))
    BY <1>1, <1>3 DEF ClaimExitIntentExecution, Decide, KeepWorld
  <2> QED
    BY <1>2, <2>1, RetryFits, DecidingKeepsBudget
<1>4. CASE ~(Held(w, i) \/ i \in cool)
  <2> DEFINE j == [job[w] EXCEPT !.pc = "submit", !.owner = TRUE]
  <2>1. /\ job' = [job EXCEPT ![w] = j] /\ local' = [local EXCEPT ![w] = @ \union {i}]
        /\ i \notin key /\ i \notin cool
    BY <1>1, <1>4 DEF ClaimExitIntentExecution, Held
  <2>2. j.pc = "submit" /\ j.of = i /\ j.row = job[w].row
    BY <1>1 DEF Level0, SellerInv, IInv, Typed, Jobs
  <2> HIDE DEF j
  <2>3. Others(w) /\ job'[w] = j /\ \A v \in Workers : local[v] \subseteq local'[v]
    BY <2>1 DEF Level0, SellerInv, IInv, Typed, JobsOwn, Others
  <2>4. ASSUME NEW k \in Intents PROVE Quiet(k)
    BY <1>2, <2>3, QuietRow DEF Owns
  <2>5. ASSUME NEW k \in Intents, k # i PROVE Budget(k)'
    BY <1>1, <2>2, <2>3, <2>4, <2>5, ElsewhereStays
  <2>6. Budget(i)'
    <3>1. JobBudget(w, i) /\ Copied(w, i) /\ Taken(w, i, "exit")
      BY <1>1, <1>2 DEF Level0, Budget, Copied, Taken
    <3>2. ~Blocked(w, i)
      BY <1>2, <2>1 DEF Level0, OneOwner, Blocked
    <3>3. Unspent(w, i)
      BY <3>1, <3>2 DEF JobBudget, ExecutionBudget
    <3>4. Unspent(w, i)' /\ CopyBudget(w, i)'
      BY <1>2, <2>2, <2>3, <3>1, <3>3 DEF Unspent, JobBudget, CopyBudget, Within
    <3>5. JobBudget(w, i)' /\ Holder(w, i)'
      BY <2>2, <2>3, <3>4 DEF JobBudget, ExecutionBudget, Taken, VerdictBudget, SettledBudget,
         Holder, Holding, Acquired
    <3> QED
      BY <2>2, <2>3, <2>4, <3>1, <3>5, StepStays
  <2> QED
    BY <2>5, <2>6
<1> QED
  BY <1>3, <1>4

LEMMA SubmitKeepsBudget ==
  ASSUME Level0, NEW w \in Workers, Submit(w)
  PROVE  \A k \in Intents : Budget(k)'
<1>1. PICK i \in Intents : i = job[w].of
  BY DEF Level0, SellerInv, IInv, Typed, Jobs
<1> DEFINE j == [job[w] EXCEPT !.pc = "load"]
           row == [intent[i] EXCEPT !.state = "submitting"]
<1>2. /\ job[w].pc = "submit" /\ UNCHANGED <<local, cool, position, attempts, faults>>
      /\ job' = [job EXCEPT ![w] = j] /\ intent' = [intent EXCEPT ![i] = row]
      /\ intent[i] \in Rows
  BY <1>1 DEF Submit, Step, KeepKeys, KeepWorld, Level0, SellerInv, IInv, Typed
<1>3. j.pc = "load" /\ j.of = i /\ j.row = job[w].row
  BY <1>1 DEF Level0, SellerInv, IInv, Typed, Jobs
<1>4. /\ row.state = "submitting" /\ row \in Rows /\ row.count = intent[i].count
      /\ row.notBefore = intent[i].notBefore /\ row.lane = intent[i].lane
  BY <1>2 DEF Rows, ActiveStates
<1> HIDE DEF j, row
<1>5. Others(w) /\ job'[w] = j
  BY <1>2, StepOfOne DEF Level0, SellerInv
<1>6. intent'[i] = row /\ \A k \in Intents : k # i => intent'[k] = intent[k]
  BY <1>2 DEF Level0, SellerInv, IInv, Typed
<1>7. ASSUME NEW k \in Intents, k # i PROVE Budget(k)'
  <2>1. Quiet(k)
    BY <1>2, <1>6, <1>7, QuietRow DEF Owns
  <2> QED
    BY <1>1, <1>3, <1>5, <1>7, <2>1, ElsewhereStays
<1>8. Budget(i)'
  <2>1. Holder(w, i) /\ Copied(w, i) /\ JobBudget(w, i)
    BY <1>1, <1>2 DEF Holder, Holding, Acquired, Copied, Level0, Budget
  <2>2. Active(i) /\ ~Closed(i)
    BY <2>1 DEF Level0, OneHolder, Active, Closed, ActiveStates, TerminalStates
  <2>3. Quiet(i)
    BY <1>2, <1>4, <1>6, <2>2 DEF Quiet, Owns, Level0
  <2>4. CopyBudget(w, i)' /\ Unspent(w, i)'
    BY <1>1, <1>2, <1>3, <1>4, <1>5, <1>6, <2>1
       DEF JobBudget, CopyBudget, ExecutionBudget, Unspent, Within
  <2>5. JobBudget(w, i)' /\ Holder(w, i)'
    BY <1>3, <1>5, <2>4 DEF JobBudget, ExecutionBudget, Taken, VerdictBudget, SettledBudget,
       Holder, Holding, Acquired
  <2> QED
    BY <1>3, <1>5, <2>1, <2>3, <2>5, StepStays
<1> QED
  BY <1>7, <1>8

\* The only step that spends: nobody else has read a count that allows one
\* execution more than this one.
LEMMA SellingKeepsBudget ==
  ASSUME Level0, NEW w \in Workers, job[w].pc = "load", Step(w, "sell"),
         attempts' = [attempts EXCEPT ![job[w].of] = IF @ < MaxAttempts THEN @ + 1 ELSE @],
         UNCHANGED <<intent, local, cool, position, faults>>, position.status = "open"
  PROVE  \A k \in Intents : Budget(k)'
<1>1. PICK i \in Intents : i = job[w].of
  BY DEF Level0, SellerInv, IInv, Typed, Jobs
<1> DEFINE j == [job[w] EXCEPT !.pc = "sell"]
<1>2. job' = [job EXCEPT ![w] = j]
  BY DEF Step
<1>3. j.pc = "sell" /\ j.of = i /\ j.row = job[w].row
  BY <1>1 DEF Level0, SellerInv, IInv, Typed, Jobs
<1> HIDE DEF j
<1>4. Others(w) /\ job'[w] = j
  BY <1>2, StepOfOne DEF Level0, SellerInv
<1>5. /\ attempts \in [Intents -> Nat] /\ \A k \in Intents : k # i => attempts'[k] = attempts[k]
      /\ attempts'[i] \in {attempts[i], attempts[i] + 1}
  BY <1>1 DEF Level0
<1>6. ASSUME NEW k \in Intents, k # i PROVE Budget(k)'
  <2>1. Quiet(k)
    BY <1>5, <1>6, QuietRow DEF Owns
  <2> QED
    BY <1>1, <1>3, <1>4, <1>6, <2>1, ElsewhereStays
<1>7. Budget(i)'
  <2>1. Holder(w, i) /\ Copied(w, i) /\ Owns(w, i) /\ Unspent(w, i) /\ Budget(i)
    <3>1. Budget(i) /\ JobOwns(w)
      BY DEF Level0, SellerInv, JobsOwn
    <3> QED
      BY <1>1, <3>1 DEF Holder, Holding, Acquired, Copied, JobOwns, Budget, JobBudget, ExecutionBudget
  <2>2. Active(i) /\ intent[i].state # "absent" /\ \A v \in Workers : Holder(v, i) => v = w
    BY <2>1 DEF Level0, OneHolder, Active, ActiveStates
  <2> DEFINE c == intent[i].count
             d == job[w].row.count
  <2>3. /\ attempts'[i] <= Granted(c) + 1 + faults /\ attempts'[i] <= Granted(d) + 1 + faults
        /\ attempts'[i] <= MaxRetry + 1 + faults
    <3>1. c \in Counts /\ d \in Counts /\ attempts[i] \in Nat /\ faults \in Nat
      BY RowTyped DEF Level0, SellerInv
    <3>2. Granted(c) \in Nat /\ Granted(d) \in Nat /\ Granted(c) <= MaxRetry
      BY <3>1, GrantedNat
    <3>3. attempts[i] <= Granted(c) + 0 + faults /\ attempts[i] <= Granted(d) + 0 + faults
      BY <2>1 DEF Unspent, Within
    <3> HIDE DEF c, d
    <3> QED
      BY <1>5, <3>1, <3>2, <3>3, ExitIntentAssumption
  <2> HIDE DEF c, d
  <2>4. Holder(w, i)' /\ Owns(w, i)'
    BY <1>3, <1>4, <2>1 DEF Holder, Holding, Acquired, Owns
  <2>5. RowBudget(i)'
    <3>1. intent' = intent /\ position'.status # "unconfirmed" /\ faults' = faults
      BY DEF Level0
    <3> QED
      BY <2>2, <2>3, <2>4, <3>1 DEF RowBudget, Within, Active, c
  <2>6. \A v \in Workers : Copied(v, i)' => Copied(v, i) /\ job'[v].row = job[v].row
    BY <1>3, <1>4, <2>1 DEF Others, Copied
  <2>7. SameCount(i)'
    BY <2>1, <2>6 DEF Budget, SameCount
  <2>8. ASSUME NEW v \in Workers PROVE JobBudget(v, i)'
    <3>1. v # w => job'[v] = job[v] /\ ~Holder(v, i)
      BY <1>4, <2>2 DEF Others
    <3>2. CopyBudget(v, i)'
      <4>1. Copied(v, i)' => job'[v].row.count = d
        BY <2>1, <2>6 DEF Budget, SameCount, d
      <4>2. Copied(v, i)' /\ ~intent[i].notBefore => d = intent[i].count
        BY <2>1 DEF Budget, JobBudget, CopyBudget, d
      <4> QED
        BY <2>3, <4>1, <4>2 DEF CopyBudget, Within
    <3>3. ExecutionBudget(v, i)'
      BY <1>3, <1>4, <2>4, <3>1 DEF ExecutionBudget, Blocked, Holder, Holding, Acquired
    <3>4. VerdictBudget(v, i)'
      BY <1>3, <1>4, <3>1 DEF VerdictBudget, Holder, Holding
    <3>5. SettledBudget(v, i)'
      BY <1>3, <1>4, <2>1, <3>1 DEF Budget, JobBudget, SettledBudget, Closed
    <3> QED
      BY <3>2, <3>3, <3>4, <3>5 DEF JobBudget
  <2> QED
    BY <2>5, <2>7, <2>8 DEF Budget
<1> QED
  BY <1>6, <1>7

LEMMA LoadKeepsBudget ==
  ASSUME Level0, NEW w \in Workers, LoadPosition(w)
  PROVE  \A k \in Intents : Budget(k)'
<1>1. job[w].pc = "load" /\ cool' = cool
  BY DEF LoadPosition, Decide, KeepKeys
<1> DEFINE i == job[w].of
           settles == job[w].owner \/ job[w].row.lane = "confirmation"
<1>2. CASE \E s \in {"confirmed", "failed_terminal"} :
             Decide(w, Verdict(w, s)) /\ position'.status # "unconfirmed"
  <2>1. PICK s \in {"confirmed", "failed_terminal"} :
          Decide(w, Verdict(w, s)) /\ position'.status # "unconfirmed"
    BY <1>2
  <2>2. Verdict(w, s).state \in TerminalStates /\ Verdict(w, s).count = job[w].row.count
    BY DEF Verdict, TerminalStates
  <2>3. VerdictFits(w, i, Verdict(w, s), settles)
    BY <1>1, <2>2, ClosingFits DEF Acquired
  <2> QED
    BY <1>1, <2>1, <2>3, DecidingKeepsBudget DEF Acquired
<1>3. CASE position.status = "unconfirmed" /\ Decide(w, Retry(w, "exit")) /\ position' = position
  <2>1. Retry(w, "exit").state = "retryable" /\ Retry(w, "exit").lane = "exit"
        /\ Retry(w, "exit").count = NextCount(w)
    BY DEF Retry
  <2>2. Within(i, NextCount(w), 0)
    <3>1. i \in Intents /\ NextCount(w) \in Counts /\ faults \in Nat
      BY NextCountTyped DEF Level0, SellerInv, IInv, Typed, Jobs
    <3>2. attempts[i] = 0
      BY <1>3, <3>1 DEF Level0, Budget, RowBudget
    <3>3. Granted(NextCount(w)) \in Nat
      BY <3>1, GrantedNat
    <3> HIDE DEF i
    <3> QED
      BY <3>1, <3>2, <3>3 DEF Within
  <2>3. VerdictFits(w, i, Retry(w, "exit"), settles)
    BY <2>1, <2>2 DEF VerdictFits
  <2> QED
    BY <1>1, <1>3, <2>3, DecidingKeepsBudget DEF Acquired
<1>4. CASE position.status = "open" /\ Step(w, "sell")
  <2>1. /\ attempts' = [attempts EXCEPT ![job[w].of] = IF @ < MaxAttempts THEN @ + 1 ELSE @]
        /\ UNCHANGED <<intent, local, cool, position, faults>>
    <3>1. job'[w].pc = "sell"
      BY <1>4, StepsKeep DEF Level0, SellerInv
    <3>2. \A v : ~Decide(w, v)
      <4>1. ToWrite(w, NoVerdict).pc = "write" /\ \A v : ToWrite(w, v).pc = "write"
        BY DEF ToWrite
      <4> QED
        BY <3>1, <4>1 DEF Decide, Level0, SellerInv, IInv, Typed
    <3> QED
      BY <3>2 DEF LoadPosition, KeepIntents, KeepKeys
  <2> QED
    BY <1>1, <1>4, <2>1, SellingKeepsBudget
<1>5. CASE position.status = "unconfirmed" /\ Decide(w, Verdict(w, "failed_terminal"))
           /\ position' = [position EXCEPT !.status = "open"]
  <2>1. position'.status # "unconfirmed"
    BY <1>5 DEF Level0, SellerInv, IInv, Typed, Positions
  <2> QED
    BY <1>2, <1>5, <2>1
<1> QED
  BY <1>2, <1>3, <1>4, <1>5 DEF LoadPosition

LEMMA SaleKeepsBudget ==
  ASSUME Level0, NEW w \in Workers, ExecutePositionExit(w)
  PROVE  \A k \in Intents : Budget(k)'
<1> DEFINE i == job[w].of
           settles == job[w].owner \/ job[w].row.lane = "confirmation"
<1>1. job[w].pc = "sell" /\ Owns(w, i)
  <2>1. job[w].pc = "sell"
    BY DEF ExecutePositionExit, SaleConfirms, SaleSent, NothingToSell, SaleSkipped,
       SaleFailsForNow, SaleFailsForGood, Sell
  <2> QED
    BY <2>1 DEF Level0, SellerInv, JobsOwn, JobOwns, Acquired
<1>2. cool' = cool /\ (position'.status = "unconfirmed" => position.status = "unconfirmed")
  BY DEF ExecutePositionExit, SaleConfirms, SaleSent, NothingToSell, SaleSkipped,
       SaleFailsForNow, SaleFailsForGood, Decide, KeepKeys, Level0, SellerInv, IInv, Typed, Positions
<1>3. ASSUME NEW s \in TerminalStates PROVE VerdictFits(w, i, Verdict(w, s), settles)
  <2>1. Verdict(w, s).state = s /\ Verdict(w, s).count = job[w].row.count
    BY DEF Verdict
  <2> QED
    BY <1>1, <2>1, ClosingFits DEF Acquired
<1>4. VerdictFits(w, i, RetryWithinBudget(w, "exit"), settles)
  BY <1>1, RetryFits DEF Acquired
<1>5. VerdictFits(w, i, [Verdict(w, "pending_finality") EXCEPT !.lane = "confirmation"], settles)
  <2> DEFINE v == [Verdict(w, "pending_finality") EXCEPT !.lane = "confirmation"]
  <2>1. v.state = "pending_finality" /\ v.lane = "confirmation"
    BY DEF Verdict
  <2> HIDE DEF v, i, settles
  <2>2. VerdictFits(w, i, v, settles)
    BY <1>1, <2>1 DEF VerdictFits, TerminalStates
  <2> QED
    BY <2>2 DEF v
<1>6. ASSUME NEW archive \in BOOLEAN
      PROVE  VerdictFits(w, i, [Verdict(w, "failed_terminal") EXCEPT !.archive = archive], settles)
  <2> DEFINE v == [Verdict(w, "failed_terminal") EXCEPT !.archive = archive]
  <2>1. v.state \in TerminalStates /\ v.count = job[w].row.count
    BY DEF Verdict, TerminalStates
  <2> HIDE DEF v
  <2>2. VerdictFits(w, i, v, settles)
    BY <1>1, <2>1, ClosingFits DEF Acquired
  <2> QED
    BY <2>2 DEF v
<1>7. ASSUME NEW p, NEW s PROVE VerdictFits(w, i, WithoutTx(w, p, s), settles)
  <2>1. {"closed_dust", "failed_terminal"} \subseteq TerminalStates
    BY DEF TerminalStates
  <2> QED
    BY <1>3, <1>4, <1>5, <2>1 DEF WithoutTx
<1>8. \E v : Decide(w, v) /\ VerdictFits(w, i, v, settles)
  <2>1. "confirmed" \in TerminalStates
    BY DEF TerminalStates
  <2> QED
    BY <1>3, <1>4, <1>6, <1>7, <2>1 DEF ExecutePositionExit, SaleConfirms, SaleSent,
       NothingToSell, SaleSkipped, SaleFailsForNow, SaleFailsForGood
<1> QED
  BY <1>1, <1>2, <1>8, DecidingKeepsBudget DEF Acquired

LEMMA ConfirmationKeepsBudget ==
  ASSUME Level0, NEW w \in Workers, ProcessConfirmationIntent(w)
  PROVE  \A k \in Intents : Budget(k)'
<1> DEFINE i == job[w].of
           settles == job[w].owner \/ job[w].row.lane = "confirmation"
<1>1. job[w].pc = "claimed" /\ job[w].row.lane = "confirmation" /\ cool' = cool
      /\ position' = position
  BY DEF ProcessConfirmationIntent, Decide, KeepKeys
<1>2. ASSUME NEW s \in TerminalStates PROVE VerdictFits(w, i, Verdict(w, s), settles)
  <2>1. Verdict(w, s).state = s /\ Verdict(w, s).count = job[w].row.count
    BY DEF Verdict
  <2> QED
    BY <1>1, <2>1, ClosingFits
<1>3. VerdictFits(w, i, RetryWithinBudget(w, "exit"), settles)
  BY <1>1, RetryFits
<1>4. VerdictFits(w, i, AwaitProjection(w), settles)
  <2> DEFINE v == AwaitProjection(w)
  <2>1. v.state = "retryable" /\ v.lane = "confirmation" /\ v.count = job[w].row.count
    BY DEF AwaitProjection, Verdict
  <2>2. Within(i, job[w].row.count, 1) /\ settles
    <3>1. i \in Intents
      BY DEF Level0, SellerInv, IInv, Typed, Jobs
    <3> QED
      BY <1>1, <3>1 DEF Level0, Budget, JobBudget, CopyBudget, Copied
  <2> HIDE DEF v, i, settles
  <2>3. VerdictFits(w, i, v, settles)
    BY <2>1, <2>2 DEF VerdictFits, TerminalStates
  <2> QED
    BY <2>3 DEF v
<1>5. \E v : Decide(w, v) /\ VerdictFits(w, i, v, settles)
  <2>1. {"confirmed", "failed_terminal"} \subseteq TerminalStates /\ ClosedAs(position) \in TerminalStates
    BY DEF TerminalStates, ClosedAs
  <2> QED
    BY <1>2, <1>3, <1>4, <2>1 DEF ProcessConfirmationIntent
<1> QED
  BY <1>1, <1>5, DecidingKeepsBudget

\* What a write does to the row and to the job that writes.
Writes(w, i, v, row, j) ==
  /\ intent' = [intent EXCEPT ![i] = row] /\ job' = [job EXCEPT ![w] = j]
  /\ row.state = v.state
  /\ v.state \notin TerminalStates => row.lane = v.lane /\ row.notBefore
  /\ v.state \in TerminalStates => row.notBefore = intent[i].notBefore
  /\ v.state \in {"failed_terminal", "retryable"} => row.count = v.count
  /\ v.state \notin {"failed_terminal", "retryable"} => row.count = intent[i].count
  /\ \/ j.pc = "idle"
     \/ j.pc = "settle" /\ j.of = i /\ j.verdict.state = v.state

LEMMA WritesOf ==
  ASSUME Level0, NEW w \in Workers, UpdatePositionExitIntentState(w)
  PROVE  \E row, j : Writes(w, job[w].of, job[w].verdict, row, j)
<1> DEFINE i == job[w].of
           v == job[w].verdict
           closes == v.state \in TerminalStates
           row == [state     |-> v.state,
                   lane      |-> IF closes THEN intent[i].lane ELSE v.lane,
                   notBefore |-> IF closes THEN intent[i].notBefore ELSE TRUE,
                   claim     |-> "none",
                   count     |-> IF v.state \in {"failed_terminal", "retryable"} THEN v.count
                                 ELSE intent[i].count]
           j == IF job[w].settles THEN Settling(w) ELSE Idle
<1>1. i \in Intents /\ job[w] \in Jobs /\ intent \in [Intents -> Rows]
  BY DEF Level0, SellerInv, IInv, Typed, Jobs
<1>2. intent' = [intent EXCEPT ![i] = row] /\ job' = [job EXCEPT ![w] = j]
  BY <1>1 DEF UpdatePositionExitIntentState, Level0, SellerInv, IInv, Typed
<1>3. \/ j.pc = "idle"
      \/ j.pc = "settle" /\ j.of = i /\ j.verdict.state = v.state
  <2>1. CASE job[w].settles
    <3>1. Settling(w).pc = "settle" /\ Settling(w).of = i /\ Settling(w).verdict.state = v.state
      BY <1>1 DEF Settling, Jobs, NoVerdict
    <3> QED
      BY <2>1, <3>1
  <2>2. CASE ~job[w].settles
    BY <2>2, IdleTyped
  <2> QED
    BY <2>1, <2>2
<1>4. /\ row.state = v.state
      /\ v.state \notin TerminalStates => row.lane = v.lane /\ row.notBefore
      /\ v.state \in TerminalStates => row.notBefore = intent[i].notBefore
      /\ v.state \in {"failed_terminal", "retryable"} => row.count = v.count
      /\ v.state \notin {"failed_terminal", "retryable"} => row.count = intent[i].count
  OBVIOUS
<1> HIDE DEF row, j, i, v, closes
<1>5. Writes(w, i, v, row, j)
  BY <1>2, <1>3, <1>4 DEF Writes
<1> QED
  BY <1>5 DEF i, v

\* A job that has claimed no execution meets no other job of the lane.
LEMMA WritingKeepsOther ==
  ASSUME Level0, NEW w \in Workers, NEW i \in Intents, job[w].of = i, job[w].pc = "write",
         NEW row, NEW j, Writes(w, i, job[w].verdict, row, j), intent'[i] = row,
         UNCHANGED <<local, cool, attempts, faults>>,
         NEW u \in Workers, u # w, job'[u] = job[u]
  PROVE  JobBudget(u, i)'
<1>1. PICK v : v = job[w].verdict
  OBVIOUS
<1>2. PICK settles : settles = job[w].settles
  OBVIOUS
<1>3. VerdictFits(w, i, v, settles) /\ JobBudget(u, i) /\ Holder(w, i)
  BY <1>1, <1>2 DEF Level0, Budget, JobBudget, VerdictBudget, Holder, Holding
<1>4. ~Holder(u, i) /\ Active(i) /\ ~Closed(i)
  BY <1>3 DEF Level0, OneHolder, Active, Closed, ActiveStates, TerminalStates
<1>5. CopyBudget(u, i)'
  <2>1. ~row.notBefore => ~intent[i].notBefore /\ row.count = intent[i].count
    BY <1>1, <1>3 DEF Writes, VerdictFits, TerminalStates
  <2> QED
    BY <1>3, <2>1 DEF JobBudget, CopyBudget, Copied, Within
<1>6. ExecutionBudget(u, i)'
  <2>1. ~(job'[u].of = i /\ job'[u].pc \in {"submit", "load"})
    BY <1>4 DEF Holder, Holding, Acquired
  <2>2. ASSUME Taken(u, i, "exit") PROVE Unspent(u, i)' \/ Blocked(u, i)'
    <3>1. job[u].pc = "candidate" /\ ExitJob(u, i)
      BY <1>4, <2>2 DEF Taken, Holder, Holding, ExitJob
    <3>2. CASE v.state \in TerminalStates \/ Owns(w, i)
      BY <1>1, <3>1, <3>2 DEF Writes, Blocked, Closed, Owns
    <3>3. CASE v.state \notin TerminalStates /\ ~Owns(w, i)
      <4>1. ~(settles /\ v.state = "retryable")
        BY <1>2, <3>1, <3>3 DEF Level0, OneOwner, OneLane, ConfirmationJob
      <4>2. v.state = "retryable" /\ Within(i, v.count, 0) /\ row.count = v.count
        BY <1>1, <1>3, <3>3, <4>1 DEF VerdictFits, Writes
      <4>3. CASE Unspent(u, i)
        BY <4>2, <4>3 DEF Unspent, Within
      <4>4. CASE Blocked(u, i)
        BY <1>4, <4>4 DEF Blocked, Owns
      <4> QED
        BY <1>3, <2>2, <4>3, <4>4 DEF JobBudget, ExecutionBudget
    <3> QED
      BY <3>2, <3>3
  <2>3. Taken(u, i, "exit")' => Taken(u, i, "exit")
    BY DEF Taken
  <2> QED
    BY <2>1, <2>2, <2>3 DEF ExecutionBudget
<1>7. VerdictBudget(u, i)'
  BY <1>4 DEF VerdictBudget, Holder, Holding
<1>8. SettledBudget(u, i)'
  BY <1>3, <1>4 DEF JobBudget, SettledBudget
<1> QED
  BY <1>5, <1>6, <1>7, <1>8 DEF JobBudget

LEMMA WritingKeepsBudget ==
  ASSUME Level0, NEW w \in Workers, UpdatePositionExitIntentState(w)
  PROVE  \A k \in Intents : Budget(k)'
<1>1. PICK i \in Intents : i = job[w].of
  BY DEF Level0, SellerInv, IInv, Typed, Jobs
<1>2. PICK v : v = job[w].verdict
  OBVIOUS
<1>3. PICK row, j : Writes(w, i, v, row, j)
  BY <1>1, <1>2, WritesOf
<1>4. /\ job[w].pc = "write" /\ UNCHANGED <<local, cool, attempts, faults>>
      /\ position'.status = "unconfirmed" => position.status = "unconfirmed"
  BY DEF UpdatePositionExitIntentState, KeepKeys, Archived, Level0, SellerInv, IInv, Typed, Positions
<1>5. Others(w) /\ job'[w] = j
  BY <1>3, <1>4, StepOfOne DEF Writes, Level0, SellerInv
<1>6. intent'[i] = row /\ \A k \in Intents : k # i => intent'[k] = intent[k]
  BY <1>3 DEF Writes, Level0, SellerInv, IInv, Typed
<1>7. ASSUME NEW k \in Intents, k # i PROVE Budget(k)'
  <2>1. Quiet(k)
    BY <1>4, <1>6, <1>7, QuietRow DEF Owns
  <2>2. job'[w].of # k \/ job'[w].pc \in {"idle", "scan"}
    BY <1>3, <1>5, <1>7 DEF Writes
  <2> QED
    BY <1>1, <1>5, <1>7, <2>1, <2>2, ElsewhereStays
<1>8. Budget(i)'
  <2>1. Holder(w, i) /\ RowBudget(i) /\ SameCount(i)
    BY <1>1, <1>4 DEF Holder, Holding, Level0, Budget
  <2>2. PICK settles : settles = job[w].settles
    OBVIOUS
  <2>3. VerdictFits(w, i, v, settles)
    BY <1>1, <1>2, <1>4, <2>2 DEF Level0, Budget, JobBudget, VerdictBudget
  <2>4. Active(i)
    BY <2>1 DEF Level0, OneHolder
  <2>5. RowBudget(i)'
    <3>1. row.state = v.state /\ row.state # "absent"
      BY <1>3, <2>3 DEF Writes, VerdictFits, TerminalStates
    <3>2. CASE v.state \in TerminalStates
      <4>1. ~Active(i)'
        BY <1>6, <3>1, <3>2 DEF Active, ActiveStates, TerminalStates
      <4> QED
        BY <1>4, <1>6, <2>1, <3>1, <4>1 DEF RowBudget
    <3>3. CASE v.state = "pending_finality"
      <4>1. row.lane = "confirmation" /\ row.count = intent[i].count
        BY <1>3, <2>3, <3>3 DEF Writes, VerdictFits, TerminalStates
      <4> QED
        BY <1>4, <1>6, <2>1, <2>4, <3>1, <4>1 DEF RowBudget, Within
    <3>4. CASE v.state = "retryable"
      <4>1. row.lane = v.lane /\ row.count = v.count
        BY <1>3, <2>3, <3>4 DEF Writes, TerminalStates
      <4>2. v.count \in Counts /\ attempts[i] \in Nat /\ faults \in Nat
        BY <1>2, RowTyped DEF Level0, SellerInv
      <4>3. Granted(v.count) \in Nat
        BY <4>2, GrantedNat
      <4>4. Within(i, v.count, 1) /\ (v.lane = "exit" => Within(i, v.count, 0))
        BY <2>3, <3>4, <4>2, <4>3 DEF VerdictFits, Within
      <4> QED
        BY <1>4, <1>6, <2>1, <3>1, <4>1, <4>4 DEF RowBudget, Within
    <3> QED
      BY <2>3, <3>2, <3>3, <3>4 DEF VerdictFits
  <2>6. \A u \in Workers : Copied(u, i)' => Copied(u, i) /\ job'[u].row = job[u].row
    BY <1>3, <1>5 DEF Writes, Others, Copied, Acquired
  <2>7. SameCount(i)'
    BY <2>1, <2>6 DEF SameCount
  <2>8. JobBudget(w, i)'
    <3>1. SettledBudget(w, i)'
      BY <1>3, <1>5, <1>6 DEF Writes, SettledBudget, Closed
    <3> QED
      BY <1>3, <1>5, <3>1 DEF Writes, JobBudget, CopyBudget, Copied, ExecutionBudget, Taken,
         VerdictBudget, Acquired
  <2>9. ASSUME NEW u \in Workers, u # w PROVE JobBudget(u, i)'
    BY <1>1, <1>2, <1>3, <1>4, <1>5, <1>6, <2>9, WritingKeepsOther DEF Others
  <2> QED
    BY <2>5, <2>7, <2>8, <2>9 DEF Budget
<1> QED
  BY <1>7, <1>8

LEMMA SettlingKeepsBudget ==
  ASSUME Level0, NEW w \in Workers, SettleExitIntentExecution(w)
  PROVE  \A k \in Intents : Budget(k)'
<1>1. PICK i \in Intents : i = job[w].of
  BY DEF Level0, SellerInv, IInv, Typed, Jobs
<1>2. PICK terminal \in BOOLEAN : terminal <=> job[w].verdict.state \in TerminalStates
  OBVIOUS
<1>3. /\ job[w].pc = "settle" /\ UNCHANGED <<intent, position, attempts, faults>>
      /\ job' = [job EXCEPT ![w] = Idle] /\ local' = [local EXCEPT ![w] = @ \ {i}]
      /\ cool' = IF terminal THEN cool \ {i} ELSE cool \union {i}
      /\ local \in [Workers -> SUBSET Intents] /\ job \in [Workers -> Jobs]
  BY <1>1, <1>2 DEF SettleExitIntentExecution, KeepIntents, KeepWorld, Level0, SellerInv, JobsOwn,
     IInv, Typed
<1>4. Others(w) /\ job'[w] = Idle /\ Idle.pc = "idle"
  BY <1>3, IdleTyped DEF Others
<1>5. ASSUME NEW k \in Intents, k # i PROVE Budget(k)'
  <2>1. Quiet(k)
    BY <1>3, <1>5, QuietRow DEF Owns
  <2> QED
    BY <1>1, <1>4, <1>5, <2>1, ElsewhereStays
<1>6. Budget(i)'
  <2>1. Budget(i) /\ OneHolder(i)
    BY DEF Level0
  <2>2. terminal => Closed(i)
    BY <1>1, <1>2, <1>3, <2>1 DEF Budget, JobBudget, SettledBudget
  <2>3. \A u \in Workers \ {w} : job'[u] = job[u] /\ (Owns(u, i)' <=> Owns(u, i))
    BY <1>4 DEF Others, Owns
  <2>4. ~Holder(w, i) /\ JobBudget(w, i)' /\ ~Copied(w, i)'
    BY <1>3, <1>4, NoJobNoBudget DEF Holder, Holding, Acquired
  <2>5. RowBudget(i)'
    <3>1. \A u \in Workers : Holder(u, i) /\ Owns(u, i) => Holder(u, i)' /\ Owns(u, i)'
      BY <2>3, <2>4 DEF Holder
    <3> QED
      BY <1>3, <2>1, <3>1 DEF Budget, RowBudget, Within, Active
  <2>6. SameCount(i)'
    <3>1. \A u \in Workers : Copied(u, i)' => Copied(u, i) /\ job'[u].row = job[u].row
      BY <2>3, <2>4 DEF Copied
    <3> QED
      BY <2>1, <3>1 DEF Budget, SameCount
  <2>7. ASSUME NEW u \in Workers, u # w PROVE JobBudget(u, i)'
    <3>1. JobBudget(u, i) /\ job'[u] = job[u] /\ (Owns(u, i)' <=> Owns(u, i))
      BY <2>1, <2>3, <2>7 DEF Budget
    <3>2. CopyBudget(u, i)' /\ SettledBudget(u, i)'
      BY <1>3, <3>1 DEF JobBudget, CopyBudget, SettledBudget, Copied, Closed, Within
    <3>3. VerdictBudget(u, i)'
      BY <1>3, <3>1 DEF JobBudget, VerdictBudget, VerdictFits, Within
    <3>4. ExecutionBudget(u, i)'
      <4>1. Taken(u, i, "exit") /\ terminal => job[u].pc = "candidate"
        BY <2>1, <2>2 DEF Taken, OneHolder, Holder, Holding, Active, Closed, ActiveStates,
           TerminalStates
      <4>2. Taken(u, i, "exit") => Blocked(u, i)'
        BY <1>3, <2>2, <3>1, <4>1 DEF Blocked, Closed
      <4>3. Taken(u, i, "exit")' => Taken(u, i, "exit")
        BY <3>1 DEF Taken
      <4> QED
        BY <1>3, <3>1, <4>2, <4>3 DEF JobBudget, ExecutionBudget, Unspent, Within
    <3> QED
      BY <3>2, <3>3, <3>4 DEF JobBudget
  <2> QED
    BY <2>4, <2>5, <2>6, <2>7 DEF Budget
<1> QED
  BY <1>5, <1>6

LEMMA WorkKeepsBudget ==
  ASSUME Level0, NEW w \in Workers, Work(w)
  PROVE  \A k \in Intents : Budget(k)'
<1>1. ASSUME NEW i \in Intents, PopQueue(w, i) PROVE \A k \in Intents : Budget(k)'
  <2>1. /\ job[w].pc \in {"idle", "scan"} /\ ~intent[i].notBefore
        /\ UNCHANGED <<intent, local, cool, position, attempts, faults>>
    BY <1>1 DEF PopQueue, KeepKeys, KeepWorld
  <2>2. CASE Active(i)
    BY <1>1, <2>1, <2>2, TakingKeepsBudget DEF PopQueue
  <2>3. CASE ~Active(i)
    BY <1>1, <2>1, <2>3, NothingOwned, LeavingKeepsBudget DEF PopQueue, Acquired, Level0, SellerInv
  <2> QED
    BY <2>2, <2>3
<1>2. ASSUME NEW i \in Intents, ScanRows(w, i) PROVE \A k \in Intents : Budget(k)'
  BY <1>2, TakingKeepsBudget DEF ScanRows, Due, KeepIntents, KeepKeys, KeepWorld
<1>3. CASE ScanFindsNothing(w)
  BY <1>3, NothingOwned, LeavingKeepsBudget
     DEF ScanFindsNothing, KeepIntents, KeepKeys, KeepWorld, Acquired, Level0, SellerInv
<1> QED
  BY <1>1, <1>2, <1>3, ClaimKeepsBudget, ClaimExecutionKeepsBudget, SubmitKeepsBudget,
     LoadKeepsBudget, SaleKeepsBudget, ConfirmationKeepsBudget, WritingKeepsBudget,
     SettlingKeepsBudget DEF Work

\* What a process has done and not recorded when it dies, the fault grants.
LEMMA CrashKeepsBudget ==
  ASSUME Level0, NEW w \in Workers, Crash(w)
  PROVE  \A k \in Intents : Budget(k)'
<1>1. /\ faults' = faults + 1 /\ faults \in Nat
      /\ UNCHANGED <<intent, cool, position, attempts>>
      /\ job' = [job EXCEPT ![w] = Idle] /\ local' = [local EXCEPT ![w] = {}]
      /\ local \in [Workers -> SUBSET Intents] /\ job \in [Workers -> Jobs]
  BY DEF Crash, Level0, SellerInv, JobsOwn, IInv, Typed
<1>2. Others(w) /\ job'[w] = Idle /\ Idle.pc = "idle"
  BY <1>1, IdleTyped DEF Others
<1> SUFFICES ASSUME NEW i \in Intents PROVE Budget(i)'
  OBVIOUS
<1>3. Budget(i) /\ OneHolder(i)
  BY DEF Level0
<1>4. \A u \in Workers \ {w} : job'[u] = job[u] /\ (Owns(u, i)' <=> Owns(u, i))
  BY <1>2 DEF Others, Owns
<1>5. JobBudget(w, i)' /\ ~Copied(w, i)'
  BY <1>2, NoJobNoBudget
<1>6. ASSUME NEW c \in Counts
      PROVE  /\ Within(i, c, 0) => Within(i, c, 1)
             /\ Within(i, c, 1) => attempts[i] <= Granted(c) + 0 + faults'
             /\ attempts[i] = 0 => attempts[i] <= Granted(c) + 0 + faults'
             /\ attempts[i] <= Granted(c) + 0 + faults' => attempts[i] <= Granted(c) + 1 + faults'
  <2>1. Granted(c) \in Nat /\ attempts[i] \in Nat
    BY GrantedNat DEF Level0
  <2> QED
    BY <1>1, <2>1 DEF Within
<1>7. RowBudget(i)'
  <2>1. attempts[i] <= MaxRetry + 1 + faults'
    <3>1. attempts[i] \in Nat /\ attempts[i] <= MaxRetry + 1 + faults
      BY <1>3 DEF Level0, Budget, RowBudget
    <3> QED
      BY <1>1, <3>1, ExitIntentAssumption
  <2>2. intent[i].count \in Counts
    BY RowTyped DEF Level0, SellerInv
  <2>3. Active(i) => attempts[i] <= Granted(intent[i].count) + 0 + faults'
    BY <1>3, <1>6, <2>2 DEF Budget, RowBudget
  <2>4. Active(i)' <=> Active(i)
    BY <1>1 DEF Active
  <2> QED
    BY <1>1, <1>3, <1>6, <2>1, <2>2, <2>3, <2>4 DEF Budget, RowBudget, Within
<1>8. SameCount(i)'
  <2>1. \A u \in Workers : Copied(u, i)' => Copied(u, i) /\ job'[u].row = job[u].row
    BY <1>4, <1>5 DEF Copied
  <2> QED
    BY <1>3, <2>1 DEF Budget, SameCount
<1>9. ASSUME NEW u \in Workers, u # w PROVE JobBudget(u, i)'
  <2>1. JobBudget(u, i) /\ job'[u] = job[u] /\ (Owns(u, i)' <=> Owns(u, i))
    BY <1>3, <1>4, <1>9 DEF Budget
  <2> DEFINE c == intent[i].count
             d == job[u].row.count
             x == job[u].verdict.count
  <2>2. c \in Counts /\ d \in Counts /\ x \in Counts
    BY RowTyped DEF Level0, SellerInv
  <2> HIDE DEF c, d, x
  <2>3. CopyBudget(u, i)'
    BY <1>1, <1>6, <2>1, <2>2 DEF JobBudget, CopyBudget, Copied, Within, d
  <2>4. SettledBudget(u, i)'
    BY <1>1, <2>1 DEF JobBudget, SettledBudget, Closed
  <2>5. VerdictBudget(u, i)'
    <3>1. /\ Within(i, x, 0) => attempts[i] <= Granted(x) + 0 + faults'
          /\ Within(i, x, 1) => attempts[i] <= Granted(x) + 1 + faults'
      BY <1>6, <2>2
    <3> QED
      BY <1>1, <2>1, <3>1 DEF JobBudget, VerdictBudget, VerdictFits, Within, x
  <2>6. ExecutionBudget(u, i)'
    <3>1. Copied(u, i) => attempts[i] <= Granted(d) + 0 + faults'
      BY <1>6, <2>1, <2>2 DEF JobBudget, CopyBudget, d
    <3>2. Active(i) \/ intent[i].state = "absent" => attempts[i] <= Granted(c) + 0 + faults'
      BY <1>3, <1>6, <2>2 DEF Budget, RowBudget, c
    <3>3. Active(i) \/ intent[i].state = "absent" \/ Closed(i)
      BY DEF Level0, SellerInv, IInv, Typed, Rows, Active, Closed
    <3>4. Holder(u, i) => Active(i)
      BY <1>3 DEF OneHolder
    <3>5. ASSUME Taken(u, i, "exit") PROVE Unspent(u, i)' \/ Blocked(u, i)'
      <4>1. Copied(u, i) /\ (job[u].pc = "candidate" \/ Holder(u, i))
        BY <3>5 DEF Taken, Copied, Holder, Holding
      <4>2. CASE Active(i) \/ intent[i].state = "absent"
        BY <1>1, <2>1, <3>1, <3>2, <4>1, <4>2 DEF Unspent, Within, c, d
      <4>3. CASE Closed(i) /\ job[u].pc = "candidate"
        BY <1>1, <2>1, <4>3 DEF Blocked, Closed
      <4> QED
        BY <3>3, <3>4, <4>1, <4>2, <4>3
    <3>6. ASSUME job[u].of = i, job[u].pc \in {"submit", "load"} PROVE Unspent(u, i)'
      <4>1. Copied(u, i) /\ Holder(u, i)
        BY <3>6 DEF Copied, Holder, Holding, Acquired
      <4> QED
        BY <1>1, <2>1, <3>1, <3>2, <3>4, <4>1 DEF Unspent, Within, c, d
    <3>7. Taken(u, i, "exit")' => Taken(u, i, "exit")
      BY <2>1 DEF Taken
    <3> QED
      BY <2>1, <3>5, <3>6, <3>7 DEF ExecutionBudget
  <2> QED
    BY <2>3, <2>4, <2>5, <2>6 DEF JobBudget
<1> QED
  BY <1>5, <1>7, <1>8, <1>9 DEF Budget

\* No process moves.
LEMMA RestKeepsBudget ==
  ASSUME Level0, job' = job, NEW i \in Intents, Quiet(i)
  PROVE  Budget(i)'
<1>1. IInv /\ Budget(i) /\ attempts \in [Intents -> Nat] /\ faults \in Nat
  BY DEF Level0, SellerInv
<1>2. \A v \in Workers : Holder(v, i) /\ Owns(v, i) => Holder(v, i)'
  BY DEF Holder
<1>3. RowBudget(i)'
  BY <1>1, <1>2, RowStays DEF Budget
<1>4. ASSUME NEW v \in Workers PROVE JobBudget(v, i)'
  BY <1>1, JobStays DEF Budget
<1>5. SameCount(i)'
  BY <1>1 DEF Budget, SameCount, Copied
<1> QED
  BY <1>3, <1>4, <1>5 DEF Budget

LEMMA TimeKeepsBudget ==
  ASSUME Level0, NEW i \in Intents, Time(i), lapses \in Nat, lapses' = lapses
  PROVE  \A k \in Intents : Budget(k)'
<1>1. UNCHANGED <<job, local, position, attempts, faults>>
  BY DEF Time, NotBeforePasses, ClaimAges, KeyExpires, CooldownEnds, KeepKeys
<1>2. /\ intent \in [Intents -> Rows] /\ faults \in Nat /\ intent' \in [Intents -> Rows]
      /\ \A k \in Intents : /\ intent'[k].state = intent[k].state
                            /\ intent'[k].count = intent[k].count
                            /\ intent'[k].lane = intent[k].lane
                            /\ k # i => intent'[k] = intent[k]
                            /\ ~NotBeforePasses(i) => intent'[k].notBefore = intent[k].notBefore
  <2>1. intent \in [Intents -> Rows] /\ faults \in Nat
    BY DEF Level0, SellerInv, IInv, Typed
  <2>2. CASE NotBeforePasses(i)
    BY <2>1, <2>2 DEF NotBeforePasses, Rows
  <2>3. CASE ClaimAges(i) /\ ~NotBeforePasses(i)
    BY <2>1, <2>3 DEF ClaimAges, Rows
  <2>4. CASE intent' = intent
    BY <2>1, <2>4
  <2> QED
    BY <2>2, <2>3, <2>4 DEF Time, KeyExpires, CooldownEnds
<1>3. ASSUME NEW k \in Intents, intent'[k].notBefore = intent[k].notBefore,
             k \in cool => k \in cool'
      PROVE  Budget(k)'
  <2>1. Quiet(k)
    BY <1>1, <1>2, <1>3 DEF Quiet, Active, Closed, Owns
  <2> QED
    BY <1>1, <2>1, RestKeepsBudget
<1>4. ASSUME ~AtWork(i) PROVE Budget(i)'
  <2>1. \A u \in Workers : job'[u].of # i \/ job'[u].pc \in {"idle", "scan"}
    BY <1>1, <1>4 DEF AtWork
  <2>2. \A u \in Workers : JobBudget(u, i)' /\ ~Copied(u, i)' /\ ~Holder(u, i)
    <3>1. \A u \in Workers : JobBudget(u, i)' /\ ~Copied(u, i)'
      BY <2>1, NoJobNoBudget
    <3>2. \A u \in Workers : ~Holder(u, i)
      BY <1>1, <2>1 DEF Holder, Holding, Acquired
    <3> QED
      BY <3>1, <3>2
  <2>3. RowBudget(i)'
    BY <1>1, <1>2, <2>2 DEF Level0, Budget, RowBudget, Active, Within
  <2> QED
    BY <2>2, <2>3 DEF Budget, SameCount
<1>5. NotBeforePasses(i) \/ CooldownEnds(i) => ~AtWork(i)
  BY DEF NotBeforePasses, CooldownEnds, Lapse
<1>6. \A k \in Intents : k # i \/ ClaimAges(i) \/ KeyExpires(i)
        => intent'[k].notBefore = intent[k].notBefore /\ (k \in cool => k \in cool')
  <2>1. \A k \in Intents : k # i => (k \in cool => k \in cool')
    BY DEF Time, NotBeforePasses, ClaimAges, KeyExpires, CooldownEnds, KeepKeys
  <2>2. CASE ClaimAges(i) \/ KeyExpires(i)
    <3>1. cool' = cool
      BY <2>2 DEF ClaimAges, KeyExpires, KeepKeys
    <3>2. \A k \in Intents : intent'[k].notBefore = intent[k].notBefore
      <4>1. CASE ClaimAges(i)
        BY <1>2, <4>1 DEF ClaimAges, Rows
      <4>2. CASE KeyExpires(i)
        BY <4>2 DEF KeyExpires
      <4> QED
        BY <2>2, <4>1, <4>2
    <3> QED
      BY <3>1, <3>2
  <2> QED
    BY <1>2, <2>1, <2>2
<1> QED
  BY <1>3, <1>4, <1>5, <1>6 DEF Time

LEMMA NextKeepsBudget ==
  ASSUME Level0, lapses \in Nat, [Next]_vars, lapses' = lapses
  PROVE  \A k \in Intents : Budget(k)'
<1>1. ASSUME UNCHANGED <<job, local, cool, attempts>>, faults' \in Nat, faults <= faults',
             position'.status = "unconfirmed" => position.status = "unconfirmed", intent' = intent
      PROVE  \A k \in Intents : Budget(k)'
  <2>1. \A k \in Intents : Quiet(k)
    BY <1>1 DEF Quiet, Active, Closed, Owns, Level0, SellerInv, IInv, Typed
  <2> QED
    BY <1>1, <2>1, RestKeepsBudget
<1>2. ASSUME NEW i \in Intents, EnqueuePositionExitIntent(i) PROVE \A k \in Intents : Budget(k)'
  <2>1. \A k \in Intents : Quiet(k)
    BY <1>2 DEF EnqueuePositionExitIntent, Quiet, Active, Closed, Owns, Level0, SellerInv, IInv,
       Typed, Rows, ActiveStates, TerminalStates
  <2> QED
    BY <1>2, <2>1, RestKeepsBudget DEF EnqueuePositionExitIntent
<1>3. ASSUME NEW i \in Intents, ReconcileTerminalExitGhostPosition(i)
      PROVE  \A k \in Intents : Budget(k)'
  BY <1>1, <1>3 DEF ReconcileTerminalExitGhostPosition, KeepExits, Archived, Level0
<1>4. CASE BuyConfirms \/ SaleSettles \/ ProjectionCloses
  BY <1>1, <1>4 DEF BuyConfirms, SaleSettles, ProjectionCloses, KeepExits, Level0, SellerInv, IInv,
     Typed, Positions
<1>5. CASE LoseQueue
  BY <1>1, <1>5 DEF LoseQueue, Level0
<1>6. CASE UNCHANGED vars
  BY <1>1, <1>6 DEF vars, Level0
<1> QED
  BY <1>2, <1>3, <1>4, <1>5, <1>6, WorkKeepsBudget, CrashKeepsBudget, TimeKeepsBudget DEF Next

LEMMA HistoryTyped ==
  ASSUME IInv, attempts \in [Intents -> Nat], faults \in Nat, [Next]_vars
  PROVE  attempts' \in [Intents -> Nat] /\ faults' \in Nat
<1>1. \A w \in Workers : job[w].of \in Intents
  BY DEF IInv, Typed, Jobs
<1>2. ASSUME NEW w \in Workers, Work(w) PROVE attempts' \in [Intents -> Nat] /\ faults' = faults
  <2>1. CASE LoadPosition(w)
    BY <1>1, <2>1 DEF LoadPosition, Decide
  <2>2. CASE UNCHANGED <<attempts, faults>>
    BY <2>2
  <2> QED
    BY <1>2, <2>1, <2>2 DEF Work, PopQueue, ScanRows, ScanFindsNothing, Claim,
       ClaimExitIntentExecution, Submit, ExecutePositionExit, SaleConfirms, SaleSent,
       NothingToSell, SaleSkipped, SaleFailsForNow, SaleFailsForGood, ProcessConfirmationIntent,
       UpdatePositionExitIntentState, SettleExitIntentExecution, Decide, KeepWorld
<1>3. ASSUME UNCHANGED attempts, faults' \in {faults, faults + 1}
      PROVE  attempts' \in [Intents -> Nat] /\ faults' \in Nat
  BY <1>3
<1>4. ASSUME NEW w \in Workers, Crash(w) PROVE UNCHANGED attempts /\ faults' \in {faults, faults + 1}
  BY <1>4 DEF Crash
<1>5. CASE LoseQueue
  BY <1>3, <1>5 DEF LoseQueue
<1>6. ASSUME NEW i \in Intents, Time(i) PROVE UNCHANGED <<attempts, faults>>
  BY <1>6 DEF Time, NotBeforePasses, ClaimAges, KeyExpires, CooldownEnds
<1>7. CASE UNCHANGED <<attempts, faults>>
  BY <1>7
<1> QED
  BY <1>2, <1>3, <1>4, <1>5, <1>6, <1>7 DEF Next, EnqueuePositionExitIntent,
     ReconcileTerminalExitGhostPosition, BuyConfirms, SaleSettles, ProjectionCloses, KeepExits, vars

LEMMA BudgetInit == Init => BudgetInv
<1> SUFFICES ASSUME Init PROVE BudgetInv
  OBVIOUS
<1>1. SellerInv
  BY SellerInit
<1>2. \A i \in Intents : attempts[i] = 0 /\ intent[i].state = "absent"
  BY DEF Init, NoRow
<1>3. ASSUME NEW i \in Intents PROVE Budget(i)
  <2>1. RowBudget(i)
    BY <1>2, ExitIntentAssumption DEF Init, RowBudget, Active, ActiveStates
  <2>2. \A w \in Workers : JobBudget(w, i) /\ ~Copied(w, i)
    <3>1. \A w \in Workers : job[w].pc = "idle"
      BY IdleTyped DEF Init
    <3> QED
      BY <3>1 DEF JobBudget, CopyBudget, Copied, ExecutionBudget, Taken, VerdictBudget,
         SettledBudget, Acquired
  <2> QED
    BY <2>1, <2>2 DEF Budget, SameCount
<1> QED
  BY <1>1, <1>3 DEF BudgetInv, Budgeted, Init

LEMMA BudgetNext == BudgetInv /\ [Next]_vars => BudgetInv'
<1> SUFFICES ASSUME BudgetInv, [Next]_vars PROVE BudgetInv'
  OBVIOUS
<1>1. SellerInv' /\ lapses \in Nat
  BY SellerNext DEF BudgetInv, SellerInv, Guarded
<1>2. attempts' \in [Intents -> Nat] /\ faults' \in Nat
  BY HistoryTyped DEF BudgetInv, Budgeted, SellerInv
<1>3. ASSUME lapses' = 0 PROVE \A i \in Intents : Budget(i)'
  <2>1. lapses = 0 /\ lapses' = lapses
    BY <1>1, <1>3, NextKeepsGuards DEF BudgetInv, SellerInv
  <2>2. Level0
    BY <2>1 DEF BudgetInv, Budgeted, Level0, SellerInv, Guarded
  <2> QED
    BY <1>1, <2>1, <2>2, NextKeepsBudget
<1> QED
  BY <1>1, <1>2, <1>3 DEF BudgetInv, Budgeted

LEMMA BudgetAlways == Spec => []BudgetInv
BY BudgetInit, BudgetNext, PTL DEF Spec

(***************************************************************************)
(* As long as no deadline has passed under a job at work, an intent is      *)
(* executed at most once more than the retry limit, and once more for every *)
(* crash and every loss of the queue: for any limit, any number of faults,  *)
(* of processes and of intents.                                             *)
(***************************************************************************)
THEOREM AttemptsBoundedAlways == Spec => []AttemptsBounded
<1>1. BudgetInv => AttemptsBounded
  BY DEF BudgetInv, Budgeted, Budget, RowBudget, AttemptsBounded
<1> QED
  BY <1>1, BudgetAlways, PTL
=============================================================================
