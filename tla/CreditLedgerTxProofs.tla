------------------------ MODULE CreditLedgerTxProofs ------------------------
(***************************************************************************)
(* However the statements of transactions interleave and whichever of them  *)
(* are aborted, no idempotency key is entered twice, charges and            *)
(* reservations never wait for each other in a circle, and as long as no    *)
(* two calls overlap the account matches its lots and its entries: for any  *)
(* deposits and calls, and any situation they are made in.                  *)
(*                                                                          *)
(* The first is the lock on the account: at most one transaction has the    *)
(* row (OneHolder), only that one has uncommitted entries (WritersHold),    *)
(* and what it would commit has every key once (the last two conjuncts of   *)
(* IInv). The second is the order of the lots: every lot a call still has   *)
(* to lock comes after the ones it has locked (SpendersInOrder). The third  *)
(* says at each statement what the call in progress has written to the      *)
(* lots and not yet to the account, or to the account and not yet to the    *)
(* entries (Works); only a call that owes nothing commits (AtCommit).       *)
(***************************************************************************)
EXTENDS CreditLedgerTx, SumTheorems

\* What stands for a call is a record of these fields, whatever they hold.
IsCall(r) == r \in [pc : {r.pc}, plan : {r.plan}, todo : {r.todo}, at : {r.at},
                    read : {r.read}, rows : {r.rows}, account : {r.account},
                    entries : {r.entries}]

Shape == DOMAIN call = Calls /\ \A c \in Calls : IsCall(call[c])

OneHolder == \A b, c \in Calls : HoldsAccount(b) /\ HoldsAccount(c) => b = c

WritersHold ==
  \A c \in Calls : call[c].pc = "entry" \/ call[c].entries # {} => HoldsAccount(c)

KeysUnique(E) == \A e, f \in E : e.op = f.op /\ e.source = f.source => e = f

IInv == /\ Shape /\ OneHolder /\ WritersHold
        /\ KeysUnique(entries)
        /\ \A c \in Calls : KeysUnique(entries \union call[c].entries)
-----------------------------------------------------------------------------
LEMMA AtPcIsCall ==
  ASSUME NEW pc
  PROVE  /\ IsCall(AtPc(pc)) /\ AtPc(pc).pc = pc
         /\ AtPc(pc).account = {} /\ AtPc(pc).entries = {}
BY DEF AtPc, IsCall

LEMMA InitHolds == Init => IInv
<1> SUFFICES ASSUME Init PROVE IInv
  OBVIOUS
<1>1. DOMAIN call = Calls /\ \A c \in Calls : call[c] = AtPc("idle")
  BY DEF Init
<1>2. KeysUnique(entries)
  BY DEF Init, KeysUnique
<1> QED
  BY <1>1, <1>2, AtPcIsCall DEF IInv, Shape, OneHolder, WritersHold, HoldsAccount

\* A statement that leaves the account row and the entries alone.
LEMMA MovesKeep ==
  ASSUME IInv, NEW c \in Calls, NEW r, IsCall(r), call' = [call EXCEPT ![c] = r],
         r.account = call[c].account, r.entries = call[c].entries, r.pc # "entry",
         entries' = entries
  PROVE  IInv'
<1>1. DOMAIN call' = Calls
      /\ \A b \in Calls : /\ IsCall(call'[b])
                          /\ call'[b].account = call[b].account
                          /\ call'[b].entries = call[b].entries
                          /\ call'[b].pc = "entry" => call[b].pc = "entry"
  BY DEF IInv, Shape
<1> QED
  BY <1>1 DEF IInv, Shape, OneHolder, WritersHold, HoldsAccount, KeysUnique

\* A transaction that is over holds nothing.
LEMMA EndsKeep ==
  ASSUME IInv, NEW c \in Calls, NEW pc, pc # "entry",
         call' = [call EXCEPT ![c] = AtPc(pc)], entries' = entries
  PROVE  IInv'
<1>1. DOMAIN call' = Calls /\ call'[c] = AtPc(pc)
      /\ \A b \in Calls \ {c} : call'[b] = call[b]
  BY DEF IInv, Shape
<1> QED
  BY <1>1, AtPcIsCall DEF IInv, Shape, OneHolder, WritersHold, HoldsAccount, KeysUnique

LEMMA GotoKeeps ==
  ASSUME IInv, NEW c \in Calls, NEW pc, pc # "entry", Goto(c, pc), entries' = entries
  PROVE  IInv'
<1> DEFINE r == [call[c] EXCEPT !.pc = pc]
<1>1. IsCall(r) /\ r.pc = pc /\ r.account = call[c].account /\ r.entries = call[c].entries
  <2>1. IsCall(call[c])
    BY DEF IInv, Shape
  <2> QED
    BY <2>1 DEF IsCall
<1>2. call' = [call EXCEPT ![c] = r]
  BY DEF Goto
<1> HIDE DEF r
<1> QED
  BY <1>1, <1>2, MovesKeep

LEMMA LooksUpKeep ==
  ASSUME IInv, NEW c \in Calls, LookUpSpending(c) \/ LookUpDeposit(c)
  PROVE  IInv'
<1>1. entries' = entries
  BY DEF LookUpSpending, LookUpDeposit, KeepData
<1>2. PICK pc \in {"done", "load", "record"} : Goto(c, pc)
  BY DEF LookUpSpending, LookUpDeposit
<1> QED
  BY <1>1, <1>2, GotoKeeps

LEMMA PlansKeep ==
  ASSUME IInv, NEW c \in Calls, LoadOpenLots(c) \/ LookUpReservation(c)
  PROVE  IInv'
<1>1. entries' = entries
  BY DEF LoadOpenLots, LookUpReservation, KeepData
<1>2. CASE Goto(c, "done")
  BY <1>1, <1>2, GotoKeeps
<1>3. CASE Fail(c)
  BY <1>1, <1>3, EndsKeep DEF Fail
<1>4. ASSUME NEW plan, NEW todo,
             call' = [call EXCEPT ![c] = [call[c] EXCEPT
                        !.pc = "read", !.plan = plan, !.todo = todo]]
      PROVE  IInv'
  <2> DEFINE r == [call[c] EXCEPT !.pc = "read", !.plan = plan, !.todo = todo]
  <2>1. IsCall(call[c])
    BY DEF IInv, Shape
  <2>2. IsCall(r) /\ r.pc = "read" /\ r.account = call[c].account
        /\ r.entries = call[c].entries
    BY <2>1 DEF IsCall
  <2>3. call' = [call EXCEPT ![c] = r]
    BY <1>4
  <2> HIDE DEF r
  <2> QED
    BY <1>1, <2>2, <2>3, MovesKeep
<1> QED
  BY <1>2, <1>3, <1>4 DEF LoadOpenLots, LookUpReservation

LEMMA ReadLotKeeps ==
  ASSUME IInv, NEW c \in Calls, ReadLot(c)
  PROVE  IInv'
<1>1. PICK d \in Deposits :
        call' = [call EXCEPT ![c] = [call[c] EXCEPT !.pc = "write", !.at = d, !.read = rows[d]]]
  BY DEF ReadLot
<1> DEFINE r == [call[c] EXCEPT !.pc = "write", !.at = d, !.read = rows[d]]
<1>2. IsCall(call[c]) /\ entries' = entries
  BY DEF IInv, Shape, ReadLot, KeepData
<1>3. IsCall(r) /\ r.pc = "write" /\ r.account = call[c].account /\ r.entries = call[c].entries
  BY <1>2 DEF IsCall
<1>4. call' = [call EXCEPT ![c] = r]
  BY <1>1
<1> HIDE DEF r
<1> QED
  BY <1>2, <1>3, <1>4, MovesKeep

\* The statements that write rows: what they write is no matter here.
LEMMA RowsKeep ==
  ASSUME IInv, NEW c \in Calls, NEW pc \in {"balance", "read", "pool", "commit"},
         NEW todo, NEW written, entries' = entries,
         call' = [call EXCEPT ![c] = [call[c] EXCEPT !.pc = pc, !.todo = todo, !.rows = written]]
  PROVE  IInv'
<1> DEFINE r == [call[c] EXCEPT !.pc = pc, !.todo = todo, !.rows = written]
<1>1. IsCall(call[c])
  BY DEF IInv, Shape
<1>2. IsCall(r) /\ r.pc # "entry" /\ r.account = call[c].account /\ r.entries = call[c].entries
  BY <1>1 DEF IsCall
<1>3. call' = [call EXCEPT ![c] = r]
  OBVIOUS
<1> HIDE DEF r
<1> QED
  BY <1>2, <1>3, MovesKeep

LEMMA RecordKeeps ==
  ASSUME IInv, NEW c \in Calls, RecordTransfer(c)
  PROVE  IInv'
<1>1. PICK status \in {"confirming", "confirmed"} :
        call' = [call EXCEPT ![c] = [call[c] EXCEPT
                   !.pc = IF status = "confirmed" THEN "pool" ELSE "commit",
                   !.rows = Written(OneRow(c.source,
                                           [rows[c.source] EXCEPT !.status = status]), @)]]
  BY DEF RecordTransfer
<1> DEFINE pc == IF status = "confirmed" THEN "pool" ELSE "commit"
           written == Written(OneRow(c.source, [rows[c.source] EXCEPT !.status = status]),
                             call[c].rows)
           r == [call[c] EXCEPT !.pc = pc, !.rows = written]
<1>2. IsCall(call[c]) /\ entries' = entries
  BY DEF IInv, Shape, RecordTransfer, KeepData
<1>3. call' = [call EXCEPT ![c] = r]
  BY <1>1
<1>4. IsCall(r) /\ r.pc # "entry" /\ r.account = call[c].account /\ r.entries = call[c].entries
  <2> HIDE DEF written
  <2> QED
    BY <1>2 DEF IsCall
<1> HIDE DEF r
<1> QED
  BY <1>2, <1>3, <1>4, MovesKeep

LEMMA PoolKeeps ==
  ASSUME IInv, NEW c \in Calls, PoolCandidates(c)
  PROVE  IInv'
<1>1. PICK pool : \E pc \in {"park", "credit"} :
        call' = [call EXCEPT ![c] = [call[c] EXCEPT !.pc = pc, !.todo = pool]]
  BY DEF PoolCandidates
<1>2. PICK pc \in {"park", "credit"} :
        call' = [call EXCEPT ![c] = [call[c] EXCEPT !.pc = pc, !.todo = pool]]
  BY <1>1
<1> DEFINE r == [call[c] EXCEPT !.pc = pc, !.todo = pool]
<1>3. IsCall(call[c]) /\ entries' = entries
  BY DEF IInv, Shape, PoolCandidates, KeepData
<1>4. call' = [call EXCEPT ![c] = r]
  BY <1>2
<1>5. IsCall(r) /\ r.pc # "entry" /\ r.account = call[c].account /\ r.entries = call[c].entries
  BY <1>3 DEF IsCall
<1> HIDE DEF r
<1> QED
  BY <1>3, <1>4, <1>5, MovesKeep

LEMMA LotsKeep ==
  ASSUME IInv, NEW c \in Calls, WriteLot(c) \/ ParkPool(c)
  PROVE  IInv'
<1>1. entries' = entries
  BY DEF WriteLot, ParkPool, KeepData
<1>2. CASE WriteLot(c)
  <2> DEFINE rest == call[c].todo \ {call[c].at}
             pc == IF rest = {} THEN "balance" ELSE "read"
             written == Written(OneRow(call[c].at, Adjusted(c, call[c].at)), call[c].rows)
  <2>1. call' = [call EXCEPT ![c] = [call[c] EXCEPT !.pc = pc, !.todo = rest, !.rows = written]]
    BY <1>2 DEF WriteLot
  <2>2. pc \in {"balance", "read", "pool", "commit"}
    OBVIOUS
  <2> HIDE DEF pc, rest, written
  <2> QED
    BY <1>1, <2>1, <2>2, RowsKeep
<1>3. CASE ParkPool(c)
  <2> DEFINE written == Written([d \in call[c].todo |->
                                   [MyRow(c, d) EXCEPT !.status = "below_minimum"]],
                                call[c].rows)
  <2>1. call' = [call EXCEPT ![c] = [call[c] EXCEPT !.pc = "commit", !.todo = {}, !.rows = written]]
    BY <1>3 DEF ParkPool
  <2> HIDE DEF written
  <2> QED
    BY <1>1, <2>1, RowsKeep
<1> QED
  BY <1>2, <1>3

LEMMA CreditRowKeeps ==
  ASSUME IInv, NEW c \in Calls, CreditRow(c)
  PROVE  IInv'
<1>1. PICK d \in call[c].todo :
        call' = [call EXCEPT ![c] = [call[c] EXCEPT
                   !.pc = "balance", !.at = d, !.todo = @ \ {d},
                   !.plan = [NoPlan EXCEPT ![d] = Worth[d]],
                   !.rows = Written(OneRow(d, [status |-> "credited",
                                               remaining |-> Worth[d], held |-> 0]), @)]]
  BY DEF CreditRow
<1> DEFINE todo == call[c].todo \ {d}
           plan == [NoPlan EXCEPT ![d] = Worth[d]]
           written == Written(OneRow(d, [status |-> "credited",
                                         remaining |-> Worth[d], held |-> 0]),
                              call[c].rows)
           r == [call[c] EXCEPT !.pc = "balance", !.at = d, !.todo = todo, !.plan = plan,
                                !.rows = written]
<1>2. IsCall(call[c]) /\ entries' = entries
  BY DEF IInv, Shape, CreditRow, KeepData
<1>3. call' = [call EXCEPT ![c] = r]
  BY <1>1
<1>4. IsCall(r) /\ r.pc # "entry" /\ r.account = call[c].account /\ r.entries = call[c].entries
  <2> HIDE DEF plan, todo, written
  <2> QED
    BY <1>2 DEF IsCall
<1> HIDE DEF r
<1> QED
  BY <1>2, <1>3, <1>4, MovesKeep

LEMMA ReadAccountKeeps ==
  ASSUME IInv, NEW c \in Calls, ReadAccount(c)
  PROVE  IInv'
<1> DEFINE read == MyAccount(c)
           r == [call[c] EXCEPT !.pc = "account", !.read = read]
<1>1. IsCall(call[c]) /\ entries' = entries
  BY DEF IInv, Shape, ReadAccount, KeepData
<1>2. CASE call' = [call EXCEPT ![c] = r]
  <2>1. IsCall(r) /\ r.pc # "entry" /\ r.account = call[c].account
        /\ r.entries = call[c].entries
    <3> HIDE DEF read
    <3> QED
      BY <1>1 DEF IsCall
  <2> HIDE DEF r
  <2> QED
    BY <1>1, <1>2, <2>1, MovesKeep
<1>3. CASE Fail(c)
  BY <1>1, <1>3, EndsKeep DEF Fail
<1> QED
  BY <1>2, <1>3 DEF ReadAccount

\* The account row is locked by the one that writes it.
LEMMA WriteAccountKeeps ==
  ASSUME IInv, NEW c \in Calls, WriteAccount(c)
  PROVE  IInv'
<1> DEFINE written == {[available |-> call[c].read.available + AvailableDelta(c.op, Amount(c)),
                        reserved  |-> call[c].read.reserved + ReservedDelta(c.op, Amount(c))]}
           r == [call[c] EXCEPT !.pc = "entry", !.account = written]
<1>1. IsCall(call[c]) /\ entries' = entries
  BY DEF IInv, Shape, WriteAccount, KeepData
<1>2. written # {}
  OBVIOUS
<1> HIDE DEF written
<1>3. IsCall(r) /\ r.account # {} /\ r.entries = call[c].entries
  BY <1>1, <1>2 DEF IsCall
<1>4. call' = [call EXCEPT ![c] = r]
  BY DEF WriteAccount, written
<1>5. \A b \in Calls \ {c} : ~HoldsAccount(b)
  BY DEF WriteAccount
<1> HIDE DEF r
<1>6. DOMAIN call' = Calls /\ call'[c] = r /\ \A b \in Calls \ {c} : call'[b] = call[b]
  BY <1>4 DEF IInv, Shape
<1> QED
  BY <1>1, <1>3, <1>5, <1>6 DEF IInv, Shape, OneHolder, WritersHold, HoldsAccount, KeysUnique

\* The look-up sees every entry there is, and the new one takes a free key.
LEMMA EntryKeeps ==
  ASSUME IInv, NEW c \in Calls, CreateLedgerEntry(c)
  PROVE  IInv'
<1> DEFINE pc == IF call[c].todo = {} THEN "commit" ELSE "credit"
           mine == call[c].entries \union NewEntry(c)
           r == [call[c] EXCEPT !.pc = pc, !.entries = mine]
<1>1. IsCall(call[c]) /\ entries' = entries /\ HoldsAccount(c)
  BY DEF IInv, Shape, WritersHold, CreateLedgerEntry, KeepData, Proceeds
<1>2. KeysUnique(entries \union mine)
  <2>1. KeysUnique(MyEntries(c))
    BY DEF IInv, MyEntries
  <2>2. EntryOf(c).op = c.op /\ EntryOf(c).source = Source(c)
    BY DEF EntryOf
  <2>3. entries \union mine = MyEntries(c) \union NewEntry(c)
    BY DEF MyEntries
  <2> QED
    BY <2>1, <2>2, <2>3 DEF NewEntry, HasKey, KeysUnique
<1>3. IsCall(r) /\ r.account = call[c].account /\ r.entries = mine
  <2> HIDE DEF pc, mine
  <2> QED
    BY <1>1 DEF IsCall
<1>4. call' = [call EXCEPT ![c] = r]
  BY DEF CreateLedgerEntry
<1> HIDE DEF r, mine
<1>5. DOMAIN call' = Calls /\ call'[c] = r /\ \A b \in Calls \ {c} : call'[b] = call[b]
  BY <1>4 DEF IInv, Shape
<1> QED
  BY <1>1, <1>2, <1>3, <1>5 DEF IInv, Shape, OneHolder, WritersHold, HoldsAccount, KeysUnique

\* Nobody else has uncommitted entries when entries are committed.
LEMMA CommitKeeps ==
  ASSUME IInv, NEW c \in Calls, Commit(c)
  PROVE  IInv'
<1>1. entries' = entries \union call[c].entries /\ call' = [call EXCEPT ![c] = AtPc("done")]
  BY DEF Commit, MyEntries
<1>2. DOMAIN call' = Calls /\ call'[c] = AtPc("done")
      /\ \A b \in Calls \ {c} : call'[b] = call[b]
  BY <1>1 DEF IInv, Shape
<1>3. call[c].entries # {} => \A b \in Calls \ {c} : call[b].entries = {}
  BY DEF IInv, OneHolder, WritersHold
<1>4. KeysUnique(entries')
      /\ \A b \in Calls \ {c} : KeysUnique(entries' \union call[b].entries)
  <2>1. CASE call[c].entries = {}
    BY <1>1, <2>1 DEF IInv
  <2>2. CASE call[c].entries # {}
    BY <1>1, <1>3, <2>2 DEF IInv
  <2> QED
    BY <2>1, <2>2
<1>5. \A b \in Calls : KeysUnique(entries' \union call'[b].entries)
  <2>1. entries' \union call'[c].entries = entries'
    BY <1>2, AtPcIsCall
  <2> QED
    BY <1>2, <1>4, <2>1
<1>6. Shape' /\ OneHolder' /\ WritersHold'
  BY <1>2, AtPcIsCall DEF IInv, Shape, OneHolder, WritersHold, HoldsAccount
<1> QED
  BY <1>4, <1>5, <1>6 DEF IInv, KeysUnique

LEMMA NextKeeps == IInv /\ [Next]_vars => IInv'
<1> SUFFICES ASSUME IInv, [Next]_vars PROVE IInv'
  OBVIOUS
<1>1. ASSUME NEW c \in Calls, Statement(c) PROVE IInv'
  BY <1>1, LooksUpKeep, PlansKeep, ReadLotKeeps, RecordKeeps, PoolKeeps, LotsKeep,
     CreditRowKeeps, ReadAccountKeeps, WriteAccountKeeps, EntryKeeps, CommitKeeps DEF Statement
<1>2. ASSUME NEW c \in Calls, Abort(c) PROVE IInv'
  BY <1>2, EndsKeep DEF Abort, Fail, KeepData
<1>3. CASE UNCHANGED vars
  BY <1>3 DEF vars, IInv, Shape, OneHolder, WritersHold, HoldsAccount
<1> QED
  BY <1>1, <1>2, <1>3 DEF Next

(***************************************************************************)
(* createLedgerEntry's look-up under the account row is enough: no key is   *)
(* ever entered twice, and the unique index never refuses an entry.         *)
(***************************************************************************)
THEOREM KeysAreEnteredOnce == Spec => []EntryPerKey
<1>1. IInv => EntryPerKey
  BY DEF IInv, KeysUnique, EntryPerKey
<1> QED
  BY <1>1, InitHolds, NextKeeps, PTL DEF Spec
-----------------------------------------------------------------------------
(***************************************************************************)
(* The order in which a charge or a reservation takes its locks: the rows   *)
(* it has are below those it still wants, the one it asks for is the lowest *)
(* of these, and the account row, which it asks for when it wants no more   *)
(* lots, it has only until it ends.                                         *)
(***************************************************************************)
LockOrder(r) ==
  /\ r.pc \in {"idle", "load", "read", "write", "balance", "account", "entry",
               "commit", "done", "failed"}
  /\ r.todo \subseteq Deposits
  /\ DOMAIN r.rows \subseteq Deposits
  /\ r.pc \in {"idle", "load"} => DOMAIN r.rows = {}
  /\ \A d \in DOMAIN r.rows, e \in r.todo : d < e
  /\ r.pc = "write" => r.at \in r.todo /\ Lowest(r.todo, r.at)
  /\ r.pc \in {"balance", "account", "entry", "commit"} => r.todo = {}
  /\ r.account # {} => r.pc \in {"entry", "commit"}

SpendersInOrder == Shape /\ \A c \in Calls : Spends(c) => LockOrder(call[c])

LEMMA AtPcInOrder ==
  ASSUME NEW pc \in {"idle", "done", "failed"}
  PROVE  LockOrder(AtPc(pc)) /\ IsCall(AtPc(pc))
<1>1. DOMAIN AtPc(pc).rows = {}
  BY DEF AtPc
<1> QED
  BY <1>1 DEF AtPc, LockOrder, IsCall

LEMMA InitInOrder == Init => SpendersInOrder
<1> SUFFICES ASSUME Init PROVE SpendersInOrder
  OBVIOUS
<1>1. DOMAIN call = Calls /\ \A c \in Calls : call[c] = AtPc("idle")
  BY DEF Init
<1> QED
  BY <1>1, AtPcInOrder DEF SpendersInOrder, Shape

\* A statement that replaces what stands for one call.
LEMMA OrderKept ==
  ASSUME SpendersInOrder, NEW c \in Calls, NEW r, IsCall(r),
         call' = [call EXCEPT ![c] = r], Spends(c) => LockOrder(r)
  PROVE  SpendersInOrder'
<1>1. DOMAIN call' = Calls /\ call'[c] = r /\ \A b \in Calls \ {c} : call'[b] = call[b]
  BY DEF SpendersInOrder, Shape
<1> QED
  BY <1>1 DEF SpendersInOrder, Shape, Spends

LEMMA ReadsInOrder ==
  ASSUME SpendersInOrder, NEW c \in Calls, LookUpSpending(c) \/ LoadOpenLots(c)
  PROVE  SpendersInOrder'
<1>1. IsCall(call[c]) /\ (Spends(c) => LockOrder(call[c]))
  BY DEF SpendersInOrder, Shape
<1>2. CASE LookUpSpending(c)
  <2>1. PICK pc \in {"done", "load"} : Goto(c, pc)
    BY <1>2 DEF LookUpSpending
  <2> DEFINE r == [call[c] EXCEPT !.pc = pc]
  <2>2. call' = [call EXCEPT ![c] = r] /\ call[c].pc = "idle" /\ Spends(c)
    BY <1>2, <2>1 DEF Goto, LookUpSpending, Begins
  <2>3. /\ r.pc = pc /\ r.todo = call[c].todo /\ r.rows = call[c].rows
        /\ r.account = call[c].account /\ IsCall(r)
    BY <1>1 DEF IsCall
  <2> HIDE DEF r
  <2>4. LockOrder(r)
    BY <1>1, <2>2, <2>3 DEF LockOrder
  <2> QED
    BY <2>2, <2>3, <2>4, OrderKept
<1>3. CASE LoadOpenLots(c)
  <2>1. CASE Fail(c)
    BY <2>1, AtPcInOrder, OrderKept DEF Fail
  <2>2. ASSUME NEW plan, NEW todo \in SUBSET Deposits,
               call' = [call EXCEPT ![c] = [call[c] EXCEPT
                          !.pc = "read", !.plan = plan, !.todo = todo]]
        PROVE  SpendersInOrder'
    <3> DEFINE r == [call[c] EXCEPT !.pc = "read", !.plan = plan, !.todo = todo]
    <3>1. call' = [call EXCEPT ![c] = r] /\ call[c].pc = "load"
      BY <1>3, <2>2 DEF LoadOpenLots, Proceeds
    <3>2. /\ r.pc = "read" /\ r.todo = todo /\ r.rows = call[c].rows
          /\ r.account = call[c].account /\ IsCall(r)
      BY <1>1 DEF IsCall
    <3> HIDE DEF r
    <3>3. Spends(c) => LockOrder(r)
      BY <1>1, <3>1, <3>2 DEF LockOrder
    <3> QED
      BY <3>1, <3>2, <3>3, OrderKept
  <2>3. \/ Fail(c)
        \/ \E plan, todo : /\ todo \in SUBSET Deposits
                           /\ call' = [call EXCEPT ![c] = [call[c] EXCEPT
                                !.pc = "read", !.plan = plan, !.todo = todo]]
    <3> DEFINE plan == Planned(Cost[c.source])
               todo == {d \in Deposits : plan[d] > 0}
    <3>1. todo \in SUBSET Deposits
      OBVIOUS
    <3>2. \/ Fail(c)
          \/ call' = [call EXCEPT ![c] = [call[c] EXCEPT
                        !.pc = "read", !.plan = plan, !.todo = todo]]
      BY <1>3 DEF LoadOpenLots
    <3> HIDE DEF plan, todo
    <3> QED
      BY <3>1, <3>2
  <2> QED
    BY <2>1, <2>2, <2>3
<1> QED
  BY <1>2, <1>3

LEMMA LotsInOrder ==
  ASSUME SpendersInOrder, NEW c \in Calls, ReadLot(c) \/ WriteLot(c)
  PROVE  SpendersInOrder'
<1>1. IsCall(call[c]) /\ (Spends(c) => LockOrder(call[c]))
  BY DEF SpendersInOrder, Shape
<1>2. CASE ReadLot(c)
  <2>1. PICK d \in Deposits :
          /\ NextLot(c, d)
          /\ call' = [call EXCEPT ![c] = [call[c] EXCEPT !.pc = "write", !.at = d, !.read = rows[d]]]
    BY <1>2 DEF ReadLot
  <2> DEFINE r == [call[c] EXCEPT !.pc = "write", !.at = d, !.read = rows[d]]
  <2>2. call' = [call EXCEPT ![c] = r] /\ call[c].pc = "read"
    BY <1>2, <2>1 DEF ReadLot, Proceeds
  <2>3. /\ r.pc = "write" /\ r.at = d /\ r.todo = call[c].todo /\ r.rows = call[c].rows
        /\ r.account = call[c].account /\ IsCall(r)
    BY <1>1 DEF IsCall
  <2> HIDE DEF r
  <2>4. Spends(c) => LockOrder(r)
    BY <1>1, <2>1, <2>2, <2>3 DEF LockOrder, NextLot
  <2> QED
    BY <2>2, <2>3, <2>4, OrderKept
<1>3. CASE WriteLot(c)
  <2> DEFINE d == call[c].at
             rest == call[c].todo \ {d}
             pc == IF rest = {} THEN "balance" ELSE "read"
             written == Written(OneRow(d, Adjusted(c, d)), call[c].rows)
             r == [call[c] EXCEPT !.pc = pc, !.todo = rest, !.rows = written]
  <2>1. call' = [call EXCEPT ![c] = r] /\ call[c].pc = "write"
    BY <1>3 DEF WriteLot, Proceeds
  <2>2. DOMAIN written = {d} \union DOMAIN call[c].rows
    BY DEF Written, OneRow
  <2> HIDE DEF written
  <2>3. /\ r.pc = pc /\ r.todo = rest /\ r.rows = written
        /\ r.account = call[c].account /\ IsCall(r)
    <3> HIDE DEF pc, rest
    <3> QED
      BY <1>1 DEF IsCall
  <2> HIDE DEF r
  <2>4. ASSUME Spends(c) PROVE LockOrder(r)
    <3>1. LockOrder(call[c])
      BY <1>1, <2>4
    <3>2. d \in call[c].todo /\ Lowest(call[c].todo, d) /\ call[c].todo \subseteq Deposits
      BY <2>1, <3>1 DEF LockOrder
    <3>3. Deposits \subseteq Nat
      BY CreditLedgerTxAssumption
    <3>4. ASSUME NEW x \in DOMAIN written, NEW e \in rest PROVE x < e
      <4>1. e \in call[c].todo /\ e # d /\ e \in Nat /\ d \in Nat
        BY <3>2, <3>3
      <4>2. d <= e
        BY <3>2, <4>1 DEF Lowest
      <4>3. \A y \in DOMAIN call[c].rows : y < e
        BY <3>1, <4>1 DEF LockOrder
      <4>4. CASE x = d
        BY <4>1, <4>2, <4>4
      <4>5. CASE x # d
        BY <2>2, <4>3, <4>5
      <4> QED
        BY <4>4, <4>5
    <3>5. pc \in {"balance", "read"} /\ (pc = "balance" => rest = {})
      OBVIOUS
    <3>6. r.account = {}
      BY <2>1, <2>3, <3>1 DEF LockOrder
    <3>7. DOMAIN written \subseteq Deposits /\ rest \subseteq Deposits
      BY <2>2, <3>1, <3>2 DEF LockOrder
    <3> HIDE DEF pc, rest
    <3> QED
      BY <2>3, <3>4, <3>5, <3>6, <3>7 DEF LockOrder
  <2> QED
    BY <2>1, <2>3, <2>4, OrderKept
<1> QED
  BY <1>2, <1>3

LEMMA MutationsInOrder ==
  ASSUME SpendersInOrder, NEW c \in Calls,
         ReadAccount(c) \/ WriteAccount(c) \/ CreateLedgerEntry(c)
  PROVE  SpendersInOrder'
<1>1. IsCall(call[c]) /\ (Spends(c) => LockOrder(call[c]))
  BY DEF SpendersInOrder, Shape
<1>2. CASE ReadAccount(c)
  <2> DEFINE read == MyAccount(c)
             r == [call[c] EXCEPT !.pc = "account", !.read = read]
  <2>1. call[c].pc = "balance" /\ (call' = [call EXCEPT ![c] = r] \/ Fail(c))
    BY <1>2 DEF ReadAccount, Proceeds
  <2>2. /\ r.pc = "account" /\ r.todo = call[c].todo /\ r.rows = call[c].rows
        /\ r.account = call[c].account /\ IsCall(r)
    <3> HIDE DEF read
    <3> QED
      BY <1>1 DEF IsCall
  <2> HIDE DEF r
  <2>3. Spends(c) => LockOrder(r)
    BY <1>1, <2>1, <2>2 DEF LockOrder
  <2> QED
    BY <2>1, <2>2, <2>3, OrderKept, AtPcInOrder DEF Fail
<1>3. CASE WriteAccount(c)
  <2> DEFINE written == {[available |-> call[c].read.available + AvailableDelta(c.op, Amount(c)),
                          reserved  |-> call[c].read.reserved + ReservedDelta(c.op, Amount(c))]}
             r == [call[c] EXCEPT !.pc = "entry", !.account = written]
  <2>1. call[c].pc = "account" /\ call' = [call EXCEPT ![c] = r]
    BY <1>3 DEF WriteAccount, Proceeds
  <2>2. r.pc = "entry" /\ r.todo = call[c].todo /\ r.rows = call[c].rows /\ IsCall(r)
    <3> HIDE DEF written
    <3> QED
      BY <1>1 DEF IsCall
  <2> HIDE DEF r
  <2>3. Spends(c) => LockOrder(r)
    BY <1>1, <2>1, <2>2 DEF LockOrder
  <2> QED
    BY <2>1, <2>2, <2>3, OrderKept
<1>4. CASE CreateLedgerEntry(c)
  <2> DEFINE pc == IF call[c].todo = {} THEN "commit" ELSE "credit"
             mine == call[c].entries \union NewEntry(c)
             r == [call[c] EXCEPT !.pc = pc, !.entries = mine]
  <2>1. call[c].pc = "entry" /\ call' = [call EXCEPT ![c] = r]
    BY <1>4 DEF CreateLedgerEntry, Proceeds
  <2>2. /\ r.pc = pc /\ r.todo = call[c].todo /\ r.rows = call[c].rows
        /\ r.account = call[c].account /\ IsCall(r)
    <3> HIDE DEF pc, mine
    <3> QED
      BY <1>1 DEF IsCall
  <2> HIDE DEF r
  <2>3. Spends(c) => LockOrder(r)
    BY <1>1, <2>1, <2>2 DEF LockOrder
  <2> QED
    BY <2>1, <2>2, <2>3, OrderKept
<1> QED
  BY <1>2, <1>3, <1>4

\* The statements of the other calls: no spending call ever comes to them.
LEMMA OthersInOrder ==
  ASSUME SpendersInOrder, NEW c \in Calls,
         \/ LookUpReservation(c) \/ LookUpDeposit(c) \/ RecordTransfer(c)
         \/ PoolCandidates(c) \/ ParkPool(c) \/ CreditRow(c)
  PROVE  SpendersInOrder'
<1>1. IsCall(call[c]) /\ (Spends(c) => LockOrder(call[c]))
  BY DEF SpendersInOrder, Shape
<1>2. ~Spends(c)
  BY <1>1 DEF LockOrder, Spends, Proceeds, LookUpReservation, LookUpDeposit, RecordTransfer,
              PoolCandidates, ParkPool, CreditRow
<1>3. \E r : IsCall(r) /\ call' = [call EXCEPT ![c] = r]
  <2>1. ASSUME NEW pc, NEW plan, NEW todo, NEW at, NEW written
        PROVE  /\ IsCall([call[c] EXCEPT !.pc = pc])
               /\ IsCall([call[c] EXCEPT !.pc = pc, !.plan = plan, !.todo = todo])
               /\ IsCall([call[c] EXCEPT !.pc = pc, !.rows = written])
               /\ IsCall([call[c] EXCEPT !.pc = pc, !.todo = todo])
               /\ IsCall([call[c] EXCEPT !.pc = pc, !.todo = todo, !.rows = written])
               /\ IsCall([call[c] EXCEPT !.pc = pc, !.at = at, !.todo = todo, !.plan = plan,
                                         !.rows = written])
    BY <1>1 DEF IsCall
  <2>2. CASE LookUpReservation(c)
    BY <2>1, <2>2 DEF LookUpReservation, Goto
  <2>3. CASE LookUpDeposit(c)
    BY <2>1, <2>3 DEF LookUpDeposit, Goto
  <2>4. CASE RecordTransfer(c)
    BY <2>1, <2>4 DEF RecordTransfer
  <2>5. CASE PoolCandidates(c)
    BY <2>1, <2>5 DEF PoolCandidates
  <2>6. CASE ParkPool(c)
    BY <2>1, <2>6 DEF ParkPool
  <2>7. CASE CreditRow(c)
    <3>1. PICK d \in call[c].todo :
            call' = [call EXCEPT ![c] = [call[c] EXCEPT
                       !.pc = "balance", !.at = d, !.todo = @ \ {d},
                       !.plan = [NoPlan EXCEPT ![d] = Worth[d]],
                       !.rows = Written(OneRow(d, [status |-> "credited",
                                                   remaining |-> Worth[d], held |-> 0]), @)]]
      BY <2>7 DEF CreditRow
    <3> QED
      BY <2>1, <3>1
  <2> QED
    BY <2>2, <2>3, <2>4, <2>5, <2>6, <2>7
<1> QED
  BY <1>2, <1>3, OrderKept

LEMMA NextInOrder == SpendersInOrder /\ [Next]_vars => SpendersInOrder'
<1> SUFFICES ASSUME SpendersInOrder, [Next]_vars PROVE SpendersInOrder'
  OBVIOUS
<1>1. ASSUME NEW c \in Calls, Commit(c) \/ Abort(c) PROVE SpendersInOrder'
  BY <1>1, AtPcInOrder, OrderKept DEF Commit, Abort, Fail
<1>2. ASSUME NEW c \in Calls, Statement(c) PROVE SpendersInOrder'
  BY <1>1, <1>2, ReadsInOrder, LotsInOrder, MutationsInOrder, OthersInOrder DEF Statement
<1>3. CASE UNCHANGED vars
  BY <1>3 DEF vars, SpendersInOrder, Shape
<1> QED
  BY <1>1, <1>2, <1>3 DEF Next

\* No finite set of numbers has a larger number for each of its own.
LEMMA NoEndlessAscent ==
  ASSUME NEW A \in SUBSET Nat, IsFiniteSet(A), A # {}
  PROVE  \E x \in A : \A y \in A : ~(x < y)
<1> SUFFICES ASSUME \A x \in A : \E y \in A : x < y PROVE FALSE
  OBVIOUS
<1> DEFINE Above(x) == {y \in A : x < y}
           Bad == {Above(x) : x \in A}
<1>1. Bad \subseteq SUBSET A /\ Bad # {}
  OBVIOUS
<1>2. PICK T \in Bad : \A U \in SUBSET T : U # T => U \notin Bad
  BY <1>1, SmallestSet
<1>3. PICK x \in A : T = Above(x)
  BY <1>2
<1>4. PICK y \in A : x < y
  OBVIOUS
<1>5. Above(y) \in SUBSET T /\ Above(y) # T /\ Above(y) \in Bad
  <2>1. y \in T /\ y \notin Above(y)
    BY <1>3, <1>4
  <2>2. \A z \in Above(y) : z \in T
    BY <1>3, <1>4
  <2> QED
    BY <2>1, <2>2
<1> QED
  BY <1>2, <1>5

(***************************************************************************)
(* Charges and reservations of one user never wait for each other in a      *)
(* cycle.  A call that has the account row waits for nothing; so in a cycle *)
(* every call waits for a lot, which the next one has below the lot it      *)
(* waits for itself, and the lots would ascend for ever.                    *)
(***************************************************************************)
THEOREM SpendersNeverDeadlockEver == Spec => []SpendersNeverDeadlock
<1>1. SpendersInOrder => SpendersNeverDeadlock
  <2> SUFFICES ASSUME SpendersInOrder,
                      NEW S \in SUBSET {c \in Calls : Spends(c) /\ InProgress(c)},
                      DeadlockedAmong(S)
               PROVE  FALSE
    BY DEF SpendersNeverDeadlock
  <2>1. S # {} /\ \A c \in S : /\ c \in Calls /\ LockOrder(call[c])
                               /\ \E b \in S : WaitsFor(c, b)
    BY DEF DeadlockedAmong, SpendersInOrder
  <2>2. ASSUME NEW c \in S, NEW b \in S, WaitsFor(c, b)
        PROVE  call[c].pc \in {"write", "account"}
    BY <2>1, <2>2 DEF WaitsFor, LockOrder
  <2>3. ASSUME NEW c \in S
        PROVE  call[c].pc = "write" /\ \E b \in S : call[c].at \in DOMAIN call[b].rows
    <3>1. PICK b \in S : WaitsFor(c, b)
      BY <2>1
    <3>2. ~HoldsAccount(b)
      BY <2>1, <2>2 DEF HoldsAccount, LockOrder
    <3> QED
      BY <2>2, <3>1, <3>2 DEF WaitsFor, HoldsRow
  <2>4. ASSUME NEW c \in S
        PROVE  /\ call[c].at \in call[c].todo /\ call[c].at \in Deposits
               /\ \A d \in DOMAIN call[c].rows : d < call[c].at
    <3>1. LockOrder(call[c]) /\ call[c].pc = "write"
      BY <2>1, <2>3
    <3> QED
      BY <3>1 DEF LockOrder
  <2> DEFINE A == {call[c].at : c \in S}
  <2>5. A \in SUBSET Nat /\ IsFiniteSet(A) /\ A # {}
    <3>1. A \in SUBSET Deposits /\ A # {}
      BY <2>1, <2>4
    <3> HIDE DEF A
    <3> QED
      BY <3>1, FS_Subset, CreditLedgerTxAssumption
  <2>6. ASSUME NEW x \in A PROVE \E y \in A : x < y
    <3>1. PICK c \in S : x = call[c].at
      OBVIOUS
    <3>2. PICK b \in S : call[c].at \in DOMAIN call[b].rows
      BY <2>3
    <3>3. x < call[b].at
      BY <2>4, <3>1, <3>2
    <3> QED
      BY <3>3
  <2> HIDE DEF A
  <2> QED
    BY <2>5, <2>6, NoEndlessAscent
<1> QED
  BY <1>1, InitInOrder, NextInOrder, PTL DEF Spec
-----------------------------------------------------------------------------
(***************************************************************************)
(* Calls that do not overlap. What the call in progress sees (AccountIn,    *)
(* RowsIn, EntriesIn) is in balance up to what it still owes the lots, the  *)
(* account or the entries at the statement it is at; what is committed is   *)
(* in balance.                                                              *)
(***************************************************************************)
Accounts == [available : Int, reserved : Int]

LotRows == [status : Statuses, remaining : Int, held : Int]

\* What a call sees that has written what r holds.
AccountIn(r) == IF r.account = {} THEN account ELSE CHOOSE a \in r.account : TRUE

RowIn(r, d) == IF d \in DOMAIN r.rows THEN r.rows[d] ELSE rows[d]

RowsIn(r) == [d \in Deposits |-> RowIn(r, d)]

EntriesIn(r) == entries \union r.entries

\* A plan takes the cost of its message or image from credited lots.
PlanFits(plan, source, R) ==
  /\ plan \in [Deposits -> Nat] /\ source \in Requests
  /\ SumFunctionOnSet(plan, Deposits) = Cost[source]
  /\ \A d \in Deposits : plan[d] > 0 => R[d].status = "credited"

\* Types, and: only credited lots have credits, have been entered, or are reserved.
DataFits(A, R, E) ==
  /\ A \in Accounts /\ R \in [Deposits -> LotRows] /\ IsFiniteSet(E)
  /\ \A d \in Deposits : R[d].status # "credited" => R[d].remaining = 0
  /\ \A e \in E : /\ e.amount \in Int
                  /\ e.op = "credit" => e.source \in Deposits /\ R[e.source].status = "credited"
                  /\ e.op = "reserve" => PlanFits(e.plan, e.source, R)

Available(E) == SumOver(E, LAMBDA e : AvailableDelta(e.op, e.amount))

Reserved(E) == SumOver(E, LAMBDA e : ReservedDelta(e.op, e.amount))

\* The account is ahead of the entries by m and n.
Entered(A, E, m, n) == A.available = Available(E) + m /\ A.reserved = Reserved(E) + n

\* The lots are ahead of the account by n.
Total(R) == SumOver(Deposits, LAMBDA d : R[d].remaining)

Owes(A, R, n) == Total(R) = A.available + A.reserved + n

Even(A, R, E) == DataFits(A, R, E) /\ Entered(A, E, 0, 0) /\ Owes(A, R, 0)

NoWrites(r) == r.rows = << >> /\ r.account = {} /\ r.entries = {}

\* The deposits a call is to credit are not credited yet.
Uncredited(r, R) == r.todo \subseteq Deposits /\ \A d \in r.todo : R[d].status # "credited"

LotsLeft(c, r) ==
  RemainingDelta(c.op) * (Cost[c.source] - SumFunctionOnSet(r.plan, r.todo))

KeyOf(c, r) == IF c.op = "credit" THEN r.at ELSE c.source

Price(c, r) == IF c.op = "credit" THEN Worth[r.at] ELSE Cost[c.source]

\* A call that is to change the account and to enter the change.
Mutating(c, r, R, E) ==
  /\ ~HasKey(E, c.op, KeyOf(c, r))
  /\ c.op = "credit" => /\ r.at \in Deposits /\ R[r.at].status = "credited"
                        /\ Uncredited(r, R)
  /\ c.op # "credit" => PlanFits(r.plan, c.source, R) /\ r.todo = {}

AtLoad(c, r, A, R, E) ==
  /\ r.pc = "load" /\ Spends(c) /\ NoWrites(r)
  /\ ~HasKey(E, c.op, c.source) /\ Even(A, R, E)

AtRecord(c, r, A, R, E) ==
  /\ r.pc = "record" /\ c.op = "credit" /\ NoWrites(r)
  /\ R[c.source].status # "credited" /\ Even(A, R, E)

AtPool(c, r, A, R, E) ==
  \/ r.pc = "pool" /\ c.op = "credit" /\ Even(A, R, E)
  \/ r.pc \in {"park", "credit"} /\ c.op = "credit" /\ Uncredited(r, R) /\ Even(A, R, E)

AtLots(c, r, A, R, E) ==
  /\ r.pc \in {"read", "write"} /\ c.op # "credit"
  /\ ~HasKey(E, c.op, c.source) /\ PlanFits(r.plan, c.source, R)
  /\ r.todo \subseteq Deposits /\ r.todo \intersect DOMAIN r.rows = {}
  /\ r.pc = "write" => r.at \in r.todo /\ r.read = R[r.at]
  /\ DataFits(A, R, E) /\ Entered(A, E, 0, 0) /\ Owes(A, R, LotsLeft(c, r))

AtAccount(c, r, A, R, E) ==
  /\ r.pc \in {"balance", "account"} /\ Mutating(c, r, R, E)
  /\ r.pc = "account" => r.read = A
  /\ DataFits(A, R, E) /\ Entered(A, E, 0, 0)
  /\ Owes(A, R, AvailableDelta(c.op, Price(c, r)) + ReservedDelta(c.op, Price(c, r)))

AtEntry(c, r, A, R, E) ==
  /\ r.pc = "entry" /\ Mutating(c, r, R, E) /\ DataFits(A, R, E) /\ Owes(A, R, 0)
  /\ Entered(A, E, AvailableDelta(c.op, Price(c, r)), ReservedDelta(c.op, Price(c, r)))

AtCommit(c, r, A, R, E) == r.pc = "commit" /\ Even(A, R, E)

Fits(c, r, A, R, E) ==
  \/ AtLoad(c, r, A, R, E) \/ AtRecord(c, r, A, R, E) \/ AtPool(c, r, A, R, E)
  \/ AtLots(c, r, A, R, E) \/ AtAccount(c, r, A, R, E) \/ AtEntry(c, r, A, R, E)
  \/ AtCommit(c, r, A, R, E)

Works(c, r) == Fits(c, r, AccountIn(r), RowsIn(r), EntriesIn(r))

OneAtWork == \A b, c \in Calls : InProgress(b) /\ InProgress(c) => b = c

Exact ==
  /\ Shape /\ Even(account, rows, entries) /\ OneAtWork
  /\ \A c \in Calls : /\ call[c].pc = "idle" => call[c] = AtPc("idle")
                      /\ InProgress(c) => Works(c, call[c])

Serial == overlapped \/ Exact
-----------------------------------------------------------------------------
\* A step of the only call in progress that commits nothing.
LEMMA StepKeeps ==
  ASSUME Exact, NEW c \in Calls, \A b \in Calls \ {c} : ~InProgress(b), KeepData,
         NEW r, IsCall(r), call' = [call EXCEPT ![c] = r],
         r.pc \in {"done", "failed"} \/ (r.pc # "idle" /\ Works(c, r))
  PROVE  Exact'
<1>1. DOMAIN call' = Calls /\ call'[c] = r /\ \A b \in Calls \ {c} : call'[b] = call[b]
  BY DEF Exact, Shape
<1>2. Shape'
  BY <1>1 DEF Exact, Shape
<1>3. Even(account, rows, entries)'
  BY DEF Exact, KeepData
<1>4. \A b \in Calls \ {c} : ~InProgress(b)'
  BY <1>1 DEF InProgress, Ended
<1>5. OneAtWork'
  BY <1>4 DEF OneAtWork
<1>6. Works(c, call[c])' <=> Works(c, r)
  BY <1>1 DEF Works, AccountIn, RowsIn, RowIn, EntriesIn, KeepData
<1>7. InProgress(c)' => Works(c, call[c])'
  BY <1>1, <1>6 DEF InProgress, Ended
<1>8. \A b \in Calls : call'[b].pc = "idle" => call'[b] = AtPc("idle")
  BY <1>1 DEF Exact
<1> QED
  BY <1>2, <1>3, <1>4, <1>5, <1>7, <1>8 DEF Exact
-----------------------------------------------------------------------------
Sole(c) == \A b \in Calls \ {c} : ~InProgress(b)

LEMMA SameView ==
  ASSUME NEW q, NEW r, r.rows = q.rows, r.account = q.account, r.entries = q.entries
  PROVE  AccountIn(r) = AccountIn(q) /\ RowsIn(r) = RowsIn(q) /\ EntriesIn(r) = EntriesIn(q)
BY DEF AccountIn, RowsIn, RowIn, EntriesIn

\* A call that has written nothing sees what is committed.
LEMMA FreshView ==
  ASSUME Exact, NEW r, NoWrites(r)
  PROVE  AccountIn(r) = account /\ RowsIn(r) = rows /\ EntriesIn(r) = entries
<1>1. rows \in [Deposits -> LotRows]
  BY DEF Exact, Even, DataFits
<1>2. DOMAIN r.rows = {}
  BY DEF NoWrites
<1>3. RowsIn(r) = [d \in Deposits |-> rows[d]]
  BY <1>2 DEF RowsIn, RowIn
<1>4. RowsIn(r) = rows
  BY <1>1, <1>3
<1> QED
  BY <1>4 DEF NoWrites, AccountIn, EntriesIn

LEMMA CallIs ==
  ASSUME NEW c \in Calls
  PROVE  /\ c.op \in {"credit", "debit", "reserve", "capture", "release"}
         /\ c.op = "credit" => c.source \in Deposits
         /\ c.op # "credit" => c.source \in Requests /\ Cost[c.source] \in Nat \ {0}
         /\ Spends(c) <=> c.op \in {"debit", "reserve"}
<1>1. \/ c.op = "credit" /\ c.source \in Deposits
      \/ c.op \in {"debit", "reserve", "capture", "release"} /\ c.source \in Requests
  BY CreditLedgerTxAssumption
<1>2. \A s \in Requests : Cost[s] \in Nat \ {0}
  BY CreditLedgerTxAssumption
<1> QED
  BY <1>1, <1>2 DEF Spends

LEMMA AtPcIs ==
  ASSUME NEW pc
  PROVE  /\ IsCall(AtPc(pc)) /\ AtPc(pc).pc = pc /\ NoWrites(AtPc(pc))
         /\ AtPc(pc).todo = {}
<1>1. IsCall(AtPc(pc)) /\ AtPc(pc).pc = pc
  BY AtPcIsCall
<1>2. AtPc(pc).rows = << >> /\ AtPc(pc).account = {} /\ AtPc(pc).entries = {} /\ AtPc(pc).todo = {}
  BY DEF AtPc
<1> QED
  BY <1>1, <1>2 DEF NoWrites

LEMMA IdleGoes ==
  ASSUME NEW c \in Calls, call[c] = AtPc("idle"), NEW p, Goto(c, p)
  PROVE  \E r : IsCall(r) /\ r.pc = p /\ NoWrites(r) /\ call' = [call EXCEPT ![c] = r]
<1> DEFINE r == [call[c] EXCEPT !.pc = p]
<1>1. IsCall(call[c]) /\ NoWrites(call[c])
  BY AtPcIs
<1>2. IsCall(r) /\ r.pc = p /\ NoWrites(r)
  BY <1>1 DEF IsCall, NoWrites
<1>3. call' = [call EXCEPT ![c] = r]
  BY DEF Goto
<1> QED
  BY <1>2, <1>3

\* A call that has just been made and has written nothing.
LEMMA LookUpSteps ==
  ASSUME Exact, NEW c \in Calls, Sole(c), call[c] = AtPc("idle"),
         LookUpSpending(c) \/ LookUpDeposit(c)
  PROVE  Exact'
<1>1. Even(account, rows, entries)
  BY DEF Exact
<1>2. ASSUME NEW p, Goto(c, p), KeepData,
             \/ p = "done"
             \/ p = "load" /\ Spends(c) /\ ~HasKey(entries, c.op, c.source)
             \/ p = "record" /\ c.op = "credit" /\ rows[c.source].status # "credited"
      PROVE  Exact'
  <2>2. PICK r : IsCall(r) /\ r.pc = p /\ NoWrites(r) /\ call' = [call EXCEPT ![c] = r]
    BY <1>2, IdleGoes
  <2>3. AccountIn(r) = account /\ RowsIn(r) = rows /\ EntriesIn(r) = entries
    BY <2>2, FreshView
  <2>4. p = "done" \/ Works(c, r)
    BY <1>1, <1>2, <2>2, <2>3 DEF Works, Fits, AtLoad, AtRecord
  <2> QED
    BY <1>2, <2>2, <2>4, StepKeeps DEF Sole
<1>3. CASE LookUpSpending(c)
  <2>1. CASE HasKey(entries, c.op, c.source)
    BY <1>2, <1>3, <2>1 DEF LookUpSpending
  <2>2. CASE ~HasKey(entries, c.op, c.source)
    BY <1>2, <1>3, <2>2 DEF LookUpSpending
  <2> QED
    BY <2>1, <2>2
<1>4. CASE LookUpDeposit(c)
  <2>1. CASE rows[c.source].status = "credited"
    BY <1>2, <1>4, <2>1 DEF LookUpDeposit
  <2>2. CASE rows[c.source].status # "credited"
    BY <1>2, <1>4, <2>2 DEF LookUpDeposit
  <2> QED
    BY <2>1, <2>2
<1> QED
  BY <1>3, <1>4

\* A plan takes nothing from the lots it does not have to work on.
LEMMA PlanLots ==
  ASSUME NEW plan, NEW source, NEW R, PlanFits(plan, source, R)
  PROVE  SumFunctionOnSet(plan, {d \in Deposits : plan[d] > 0}) = Cost[source]
<1> DEFINE todo == {d \in Deposits : plan[d] > 0}
<1>1. IsFiniteSet(Deposits) /\ todo \in SUBSET Deposits
  BY CreditLedgerTxAssumption
<1>2. plan \in [Deposits -> Nat] /\ SumFunctionOnSet(plan, Deposits) = Cost[source]
  BY DEF PlanFits
<1>3. \A d \in Deposits : plan[d] \in Int
  BY <1>2
<1>4. \A d \in Deposits \ todo : plan[d] = 0
  BY <1>2
<1> HIDE DEF todo
<1>5. SumFunctionOnSet(plan, Deposits) = SumFunctionOnSet(plan, todo)
  BY <1>1, <1>3, <1>4, SumSupport
<1> QED
  BY <1>2, <1>5 DEF todo

LEMMA DeltaIs ==
  ASSUME NEW c \in Calls, c.op # "credit", NEW n \in Int
  PROVE  /\ AvailableDelta(c.op, n) \in Int /\ ReservedDelta(c.op, n) \in Int
         /\ RemainingDelta(c.op) \in Int
         /\ AvailableDelta(c.op, n) + ReservedDelta(c.op, n) = RemainingDelta(c.op) * n
<1>1. CASE c.op = "debit"
  BY <1>1 DEF AvailableDelta, ReservedDelta, RemainingDelta, DrawsAvailable, DrawsReserved
<1>2. CASE c.op = "reserve"
  BY <1>2 DEF AvailableDelta, ReservedDelta, RemainingDelta, DrawsAvailable, DrawsReserved
<1>3. CASE c.op = "capture"
  BY <1>3 DEF AvailableDelta, ReservedDelta, RemainingDelta, DrawsAvailable, DrawsReserved
<1>4. CASE c.op = "release"
  BY <1>4 DEF AvailableDelta, ReservedDelta, RemainingDelta, DrawsAvailable, DrawsReserved
<1> QED
  BY <1>1, <1>2, <1>3, <1>4, CallIs

\* A call that has its plan and has written nothing: the lots are even still.
LEMMA PlansFit ==
  ASSUME Exact, NEW c \in Calls, c.op # "credit", NEW plan, PlanFits(plan, c.source, rows),
         ~HasKey(entries, c.op, c.source), NEW q, IsCall(q), NoWrites(q),
         NEW r, r = [q EXCEPT !.pc = "read", !.plan = plan,
                              !.todo = {d \in Deposits : plan[d] > 0}]
  PROVE  IsCall(r) /\ r.pc = "read" /\ Works(c, r)
<1> DEFINE todo == {d \in Deposits : plan[d] > 0}
<1>1. /\ IsCall(r) /\ r.pc = "read" /\ r.plan = plan /\ r.todo = todo
      /\ NoWrites(r)
  BY DEF IsCall, NoWrites
<1>2. SumFunctionOnSet(plan, todo) = Cost[c.source]
  BY PlanLots
<1> HIDE DEF todo
<1>3. AccountIn(r) = account /\ RowsIn(r) = rows /\ EntriesIn(r) = entries
  BY <1>1, FreshView
<1>4. Cost[c.source] \in Int /\ RemainingDelta(c.op) \in Int
  BY CallIs DEF RemainingDelta
<1>5. LotsLeft(c, r) = 0
  <2>1. Cost[c.source] - SumFunctionOnSet(r.plan, r.todo) = 0
    BY <1>1, <1>2, <1>4
  <2>2. RemainingDelta(c.op) * 0 = 0
    BY <1>4
  <2> QED
    BY <2>1, <2>2 DEF LotsLeft
<1>6. Even(account, rows, entries)
  BY DEF Exact
<1>7. r.todo \subseteq Deposits /\ DOMAIN r.rows = {}
  BY <1>1 DEF NoWrites, todo
<1>8. AtLots(c, r, account, rows, entries)
  BY <1>1, <1>5, <1>6, <1>7 DEF AtLots, Even
<1> QED
  BY <1>1, <1>3, <1>8 DEF Works, Fits

LEMMA LookUpReservationSteps ==
  ASSUME Exact, NEW c \in Calls, Sole(c), call[c] = AtPc("idle"), LookUpReservation(c)
  PROVE  Exact'
<1>1. c.op \in {"capture", "release"} /\ KeepData
  BY DEF LookUpReservation
<1>2. CASE Goto(c, "done")
  <2>1. PICK r : IsCall(r) /\ r.pc = "done" /\ call' = [call EXCEPT ![c] = r]
    BY <1>2, IdleGoes
  <2> QED
    BY <1>1, <2>1, StepKeeps DEF Sole
<1>3. CASE ~Goto(c, "done")
  <2>1. PICK e \in entries :
          /\ e.op = "reserve" /\ e.source = c.source /\ ~HasKey(entries, c.op, c.source)
          /\ call' = [call EXCEPT ![c] = [call[c] EXCEPT
                        !.pc = "read", !.plan = e.plan,
                        !.todo = {d \in Deposits : e.plan[d] > 0}]]
    BY <1>3 DEF LookUpReservation
  <2>2. PICK plan : plan = e.plan
    OBVIOUS
  <2>3. PlanFits(plan, c.source, rows)
    BY <2>1, <2>2 DEF Exact, Even, DataFits
  <2>0. PICK q : q = AtPc("idle")
    OBVIOUS
  <2>4. PICK r : r = [q EXCEPT !.pc = "read", !.plan = plan,
                               !.todo = {d \in Deposits : plan[d] > 0}]
    OBVIOUS
  <2>5. call' = [call EXCEPT ![c] = r]
    BY <2>0, <2>1, <2>2, <2>4
  <2>6. IsCall(r) /\ r.pc = "read" /\ Works(c, r)
    <3>1. IsCall(q) /\ NoWrites(q) /\ c.op # "credit" /\ ~HasKey(entries, c.op, c.source)
      BY <1>1, <2>0, <2>1, AtPcIs
    <3> QED
      BY <2>3, <2>4, <3>1, PlansFit
  <2> QED
    BY <1>1, <2>5, <2>6, StepKeeps DEF Sole
<1> QED
  BY <1>2, <1>3
-----------------------------------------------------------------------------
LEMMA SpendableIs ==
  ASSUME DataFits(account, rows, entries), NEW d \in Deposits
  PROVE  Spendable(d) \in Nat /\ (Spendable(d) > 0 => rows[d].status = "credited")
<1>1. rows[d] \in LotRows /\ (rows[d].status # "credited" => rows[d].remaining = 0)
  BY DEF DataFits
<1>2. rows[d].remaining \in Int /\ rows[d].held \in Int
  BY <1>1 DEF LotRows
<1> QED
  BY <1>1, <1>2 DEF Spendable

\* What a charge is planned to take is its amount, from lots that may be spent.
LEMMA PlannedFits ==
  ASSUME DataFits(account, rows, entries), NEW source \in Requests,
         SumOver(Deposits, LAMBDA d : Spendable(d)) >= Cost[source]
  PROVE  PlanFits(Planned(Cost[source]), source, rows)
<1> DEFINE amount == Cost[source]
           w == [d \in Deposits |-> Spendable(d)]
           open == {d \in Deposits : Spendable(d) > 0}
           last == CHOOSE d \in open : \A e \in open : e <= d
           lots == [d \in open |-> [paid |-> Spendable(d), bonus |-> 0]]
           total == SumOver(open, LAMBDA d : Spendable(d))
           share == [d \in open \ {last} |-> FloorShare(lots, total, amount, d)]
           rest == RestOfCharge(lots, total, last, amount)
           plan == [d \in Deposits |->
                      IF d \notin open THEN 0
                      ELSE IF d = last THEN rest ELSE FloorShare(lots, total, amount, d)]
<1>1. Planned(Cost[source]) = plan
  BY DEF Planned
<1>2. amount \in Nat \ {0} /\ IsFiniteSet(Deposits) /\ Deposits \subseteq Nat
  BY CreditLedgerTxAssumption
<1>3. \A d \in Deposits : /\ w[d] = Spendable(d) /\ w[d] \in Nat /\ w[d] \in Int
                          /\ w[d] > 0 => rows[d].status = "credited"
  BY SpendableIs
<1>4. open \in SUBSET Deposits /\ IsFiniteSet(open) /\ open \subseteq Nat
  BY <1>2, FS_Subset
<1>5. SumFunctionOnSet(w, Deposits) >= amount
  BY DEF SumOver
<1>6. SumFunctionOnSet(w, Deposits) = SumFunctionOnSet(w, open)
  <2>1. \A d \in Deposits \ open : w[d] = 0
    BY <1>3
  <2> HIDE DEF w, open
  <2> QED
    BY <1>2, <1>3, <1>4, <2>1, SumSupport
<1>7. total = SumFunctionOnSet(w, open)
  <2>1. total = SumFunctionOnSet([d \in open |-> Spendable(d)], open)
    BY DEF SumOver
  <2>2. \A d \in open : [e \in open |-> Spendable(e)][d] = w[d]
    OBVIOUS
  <2> QED
    BY <1>4, <2>1, <2>2, SumCongruence
<1>8. total \in Nat /\ amount <= total
  <2>1. \A d \in open : w[d] \in Nat
    BY <1>3
  <2> HIDE DEF w, open, total
  <2>2. SumFunctionOnSet(w, open) \in Nat
    BY <1>4, <2>1, SumNat
  <2> QED
    BY <1>2, <1>5, <1>6, <1>7, <2>2
<1>9. open # {}
  <2> SUFFICES ASSUME open = {} PROVE FALSE
    OBVIOUS
  <2>1. total = 0
    BY <1>7, SumEmpty
  <2> HIDE DEF total
  <2> QED
    BY <1>2, <1>8, <2>1
<1>10. last \in open
  <2> HIDE DEF open
  <2>1. \E d \in open : \A e \in open : ~(d < e)
    BY <1>4, <1>9, NoEndlessAscent
  <2>2. \E d \in open : \A e \in open : e <= d
    BY <1>4, <2>1
  <2> QED
    BY <2>2
<1>11. \A d \in open \ {last} : share[d] = (amount * w[d]) \div total
  <2>1. ASSUME NEW d \in open PROVE FloorShare(lots, total, amount, d) = (amount * w[d]) \div total
    <3>1. Balance(lots[d]) = w[d] + 0 /\ w[d] \in Int
      BY <1>3 DEF Balance
    <3>2. Balance(lots[d]) = w[d]
      BY <3>1
    <3> HIDE DEF lots, total, w, amount
    <3> QED
      BY <3>2 DEF FloorShare
  <2> HIDE DEF lots, total, w, amount, open, last
  <2> QED
    BY <2>1
<1>12. rest = amount - SumFunctionOnSet(share, open \ {last})
  <2>1. DOMAIN lots = open
    OBVIOUS
  <2> HIDE DEF lots, total, amount, open, last
  <2> QED
    BY <2>1 DEF RestOfCharge, SumOver
<1> HIDE DEF share, rest
<1>13. SumFunctionOnSet(share, open \ {last}) \in 0 .. amount
  <2>1. \A d \in open : w[d] \in Nat
    BY <1>3
  <2> HIDE DEF w, open, last, total, amount
  <2> QED
    BY <1>2, <1>4, <1>7, <1>8, <1>10, <1>11, <2>1, FloorSharesBound
<1>14. rest \in Nat
  <2> HIDE DEF amount
  <2> QED
    BY <1>2, <1>12, <1>13
<1>15. \A d \in open \ {last} : plan[d] = share[d] /\ share[d] \in Nat
  <2>1. \A d \in open \ {last} : w[d] \in Nat
    BY <1>3
  <2>2. \A d \in open \ {last} : plan[d] = share[d]
    BY DEF share
  <2>3. \A d \in open \ {last} : (amount * w[d]) \in Nat
    BY <1>2, <2>1
  <2>4. total \in Nat \ {0}
    BY <1>2, <1>8
  <2> HIDE DEF w, open, last, total, amount, plan
  <2>5. \A d \in open \ {last} : share[d] \in Nat
    BY <1>11, <2>3, <2>4, QuotientBelow
  <2> QED
    BY <2>2, <2>5
<1>16. plan[last] = rest /\ \A d \in Deposits \ open : plan[d] = 0
  BY <1>10
<1> HIDE DEF plan
<1>17. ASSUME NEW d \in Deposits PROVE plan[d] \in Nat /\ plan[d] \in Int
  <2> HIDE DEF w, open, last, total, amount
  <2> QED
    BY <1>14, <1>15, <1>16
<1>18. SumFunctionOnSet(plan, Deposits) = amount
  <2> HIDE DEF w, open, last, total, amount
  <2>1. SumFunctionOnSet(plan, Deposits) = SumFunctionOnSet(plan, open)
    BY <1>2, <1>4, <1>16, <1>17, SumSupport
  <2>2. SumFunctionOnSet(plan, open) = plan[last] + SumFunctionOnSet(plan, open \ {last})
    BY <1>4, <1>10, <1>17, SumRemove
  <2>3. SumFunctionOnSet(plan, open \ {last}) = SumFunctionOnSet(share, open \ {last})
    BY <1>4, <1>15, FS_Subset, SumCongruence
  <2> QED
    BY <1>2, <1>12, <1>13, <1>16, <2>1, <2>2, <2>3
<1>19. \A d \in Deposits : plan[d] > 0 => rows[d].status = "credited"
  BY <1>3, <1>16
<1>20. plan \in [Deposits -> Nat]
  BY <1>17 DEF plan
<1> QED
  BY <1>1, <1>18, <1>19, <1>20 DEF PlanFits
-----------------------------------------------------------------------------
\* Where a call is, by its program counter.
LEMMA StageIs ==
  ASSUME NEW c \in Calls, NEW r, Works(c, r), NEW A, NEW R, NEW E,
         A = AccountIn(r), R = RowsIn(r), E = EntriesIn(r)
  PROVE  /\ r.pc = "load" => AtLoad(c, r, A, R, E)
         /\ r.pc = "record" => AtRecord(c, r, A, R, E)
         /\ r.pc \in {"pool", "park", "credit"} => AtPool(c, r, A, R, E)
         /\ r.pc \in {"read", "write"} => AtLots(c, r, A, R, E)
         /\ r.pc \in {"balance", "account"} => AtAccount(c, r, A, R, E)
         /\ r.pc = "entry" => AtEntry(c, r, A, R, E)
         /\ r.pc = "commit" => AtCommit(c, r, A, R, E)
BY DEF Works, Fits, AtLoad, AtRecord, AtPool, AtLots, AtAccount, AtEntry, AtCommit

LEMMA FailSteps ==
  ASSUME Exact, NEW c \in Calls, Sole(c), Fail(c), KeepData
  PROVE  Exact'
<1>1. IsCall(AtPc("failed")) /\ AtPc("failed").pc = "failed"
  BY AtPcIs
<1> QED
  BY <1>1, StepKeeps DEF Sole, Fail

LEMMA LoadOpenLotsSteps ==
  ASSUME Exact, NEW c \in Calls, Sole(c), Works(c, call[c]), LoadOpenLots(c)
  PROVE  Exact'
<1>1. call[c].pc = "load" /\ KeepData
  BY DEF LoadOpenLots, Proceeds
<1>2. CASE Fail(c)
  BY <1>1, <1>2, FailSteps
<1>3. CASE ~Fail(c)
  <2>1. PICK plan :
          /\ plan = Planned(Cost[c.source])
          /\ SumOver(Deposits, LAMBDA d : Spendable(d)) >= Cost[c.source]
          /\ call' = [call EXCEPT ![c] = [call[c] EXCEPT
                        !.pc = "read", !.plan = plan, !.todo = {d \in Deposits : plan[d] > 0}]]
    BY <1>3 DEF LoadOpenLots
  <2>2. AtLoad(c, call[c], AccountIn(call[c]), RowsIn(call[c]), EntriesIn(call[c]))
    BY <1>1, StageIs
  <2>3. NoWrites(call[c]) /\ c.op # "credit" /\ c.source \in Requests /\ IsCall(call[c])
    BY <2>2, CallIs DEF AtLoad, Exact, Shape
  <2>4. ~HasKey(entries, c.op, c.source)
    BY <2>2, <2>3, FreshView DEF AtLoad
  <2>5. PlanFits(plan, c.source, rows)
    BY <2>1, <2>3, PlannedFits DEF Exact, Even
  <2>6. PICK q : q = call[c]
    OBVIOUS
  <2>7. PICK r : r = [q EXCEPT !.pc = "read", !.plan = plan,
                               !.todo = {d \in Deposits : plan[d] > 0}]
    OBVIOUS
  <2>8. IsCall(r) /\ r.pc = "read" /\ Works(c, r)
    <3>1. IsCall(q) /\ NoWrites(q)
      BY <2>3, <2>6
    <3> QED
      BY <2>3, <2>4, <2>5, <2>7, <3>1, PlansFit
  <2>9. call' = [call EXCEPT ![c] = r]
    BY <2>1, <2>6, <2>7
  <2> QED
    BY <1>1, <2>8, <2>9, StepKeeps DEF Sole
<1> QED
  BY <1>2, <1>3

LEMMA ReadLotSteps ==
  ASSUME Exact, NEW c \in Calls, Sole(c), Works(c, call[c]), ReadLot(c)
  PROVE  Exact'
<1>1. PICK d \in Deposits :
        /\ d \in call[c].todo
        /\ call' = [call EXCEPT ![c] = [call[c] EXCEPT !.pc = "write", !.at = d, !.read = rows[d]]]
  BY DEF ReadLot, NextLot
<1>2. call[c].pc = "read" /\ KeepData /\ IsCall(call[c])
  BY DEF ReadLot, Proceeds, Exact, Shape
<1>3. PICK q : q = call[c]
  OBVIOUS
<1>4. PICK A, R, E : A = AccountIn(q) /\ R = RowsIn(q) /\ E = EntriesIn(q)
  OBVIOUS
<1>5. AtLots(c, q, A, R, E)
  BY <1>2, <1>3, <1>4, StageIs
<1>6. PICK r : r = [q EXCEPT !.pc = "write", !.at = d, !.read = rows[d]]
  OBVIOUS
<1>7. /\ IsCall(r) /\ r.pc = "write" /\ r.at = d /\ r.read = rows[d]
      /\ r.plan = q.plan /\ r.todo = q.todo /\ r.rows = q.rows /\ r.account = q.account
      /\ r.entries = q.entries
  BY <1>2, <1>3, <1>6 DEF IsCall
<1>8. AccountIn(r) = A /\ RowsIn(r) = R /\ EntriesIn(r) = E
  BY <1>4, <1>7, SameView
<1>9. R[d] = rows[d]
  BY <1>1, <1>3, <1>4, <1>5 DEF AtLots, RowsIn, RowIn
<1>10. LotsLeft(c, r) = LotsLeft(c, q)
  BY <1>7 DEF LotsLeft
<1>11. AtLots(c, r, A, R, E)
  BY <1>1, <1>3, <1>5, <1>7, <1>9, <1>10 DEF AtLots
<1>12. Works(c, r)
  BY <1>8, <1>11 DEF Works, Fits
<1>13. call' = [call EXCEPT ![c] = r]
  BY <1>1, <1>3, <1>6
<1> QED
  BY <1>2, <1>7, <1>12, <1>13, StepKeeps DEF Sole

\* What a call sees once it has written one row more.
LEMMA RowWritten ==
  ASSUME NEW q, NEW d \in Deposits, NEW row, NEW r, r.rows = Written(OneRow(d, row), q.rows)
  PROVE  /\ RowsIn(r) = [RowsIn(q) EXCEPT ![d] = row]
         /\ DOMAIN r.rows = DOMAIN q.rows \union {d}
<1>1. DOMAIN OneRow(d, row) = {d} /\ OneRow(d, row)[d] = row
  BY DEF OneRow
<1>2. /\ DOMAIN r.rows = {d} \union DOMAIN q.rows
      /\ \A e \in DOMAIN r.rows : r.rows[e] = IF e \in {d} THEN OneRow(d, row)[e] ELSE q.rows[e]
  BY <1>1 DEF Written
<1>3. \A e \in Deposits : RowIn(r, e) = IF e = d THEN row ELSE RowIn(q, e)
  BY <1>1, <1>2 DEF RowIn
<1> QED
  BY <1>2, <1>3 DEF RowsIn

LEMMA TotalMoves ==
  ASSUME NEW R, R \in [Deposits -> LotRows], NEW d \in Deposits, NEW row \in LotRows
  PROVE  /\ Total(R) \in Int /\ Total([R EXCEPT ![d] = row]) \in Int
         /\ Total([R EXCEPT ![d] = row]) = Total(R) + row.remaining - R[d].remaining
<1> DEFINE S == [R EXCEPT ![d] = row]
           v == [e \in Deposits |-> R[e].remaining]
           w == [e \in Deposits |-> S[e].remaining]
           O == Deposits \ {d}
<1>1. IsFiniteSet(Deposits) /\ IsFiniteSet(O)
  BY CreditLedgerTxAssumption, FS_Subset
<1>2. S[d] = row /\ \A e \in O : S[e] = R[e]
  OBVIOUS
<1>3. \A e \in Deposits : R[e].remaining \in Int /\ S[e].remaining \in Int
  BY DEF LotRows
<1>4. w[d] = row.remaining /\ v[d] = R[d].remaining /\ \A e \in O : w[e] = v[e]
  BY <1>2
<1>5. Total(R) = SumFunctionOnSet(v, Deposits) /\ Total(S) = SumFunctionOnSet(w, Deposits)
  BY DEF Total, SumOver
<1>6. \A e \in Deposits : v[e] \in Int /\ w[e] \in Int
  BY <1>3
<1> HIDE DEF S, v, w
<1>7. SumFunctionOnSet(v, Deposits) = v[d] + SumFunctionOnSet(v, O)
  BY <1>1, <1>6, SumRemove
<1>8. SumFunctionOnSet(w, Deposits) = w[d] + SumFunctionOnSet(w, O)
  BY <1>1, <1>6, SumRemove
<1>9. SumFunctionOnSet(w, O) = SumFunctionOnSet(v, O) /\ SumFunctionOnSet(v, O) \in Int
  <2>1. \A e \in O : w[e] = v[e] /\ v[e] \in Int
    BY <1>4, <1>6
  <2> HIDE DEF O
  <2> QED
    BY <1>1, <2>1, SumCongruence, SumType
<1>10. Total(S) = Total(R) + row.remaining - R[d].remaining /\ Total(R) \in Int /\ Total(S) \in Int
  BY <1>4, <1>5, <1>6, <1>7, <1>8, <1>9
<1> QED
  BY <1>10 DEF S

\* A credited row stays one, and one that is not has no credits.
LEMMA DataMoves ==
  ASSUME NEW A, NEW R, NEW E, DataFits(A, R, E), NEW d \in Deposits, NEW row \in LotRows,
         R[d].status = "credited" => row.status = "credited",
         row.status # "credited" => row.remaining = 0,
         NEW S, S = [R EXCEPT ![d] = row]
  PROVE  /\ DataFits(A, S, E)
         /\ \A plan, source : PlanFits(plan, source, R) => PlanFits(plan, source, S)
<1>1. /\ S \in [Deposits -> LotRows] /\ S[d] = row
      /\ \A e \in Deposits : e # d => S[e] = R[e]
      /\ \A e \in Deposits : R[e].status = "credited" => S[e].status = "credited"
      /\ \A e \in Deposits : S[e].status # "credited" => S[e].remaining = 0
  BY DEF DataFits
<1>2. \A plan, source : PlanFits(plan, source, R) => PlanFits(plan, source, S)
  BY <1>1 DEF PlanFits
<1> QED
  BY <1>1, <1>2 DEF DataFits
-----------------------------------------------------------------------------
\* What the change of a lot is when the plan takes p from it.
LotChange(op, p) == RemainingDelta(op) * p

\* One lot less is left when a lot of the plan has been written.
LEMMA LotsLeftMoves ==
  ASSUME NEW c \in Calls, c.op # "credit", NEW q, q.plan \in [Deposits -> Nat],
         q.todo \subseteq Deposits, NEW d \in q.todo,
         NEW r, r.plan = q.plan, r.todo = q.todo \ {d}
  PROVE  /\ LotsLeft(c, q) \in Int /\ q.plan[d] \in Nat
         /\ LotChange(c.op, q.plan[d]) \in Int
         /\ LotsLeft(c, r) = LotsLeft(c, q) + LotChange(c.op, q.plan[d])
<1>1. PICK plan \in [Deposits -> Nat] : plan = q.plan
  OBVIOUS
<1>2. PICK todo \in SUBSET Deposits : todo = q.todo
  OBVIOUS
<1>3. IsFiniteSet(todo) /\ d \in todo /\ \A e \in todo : plan[e] \in Int
  <2>1. IsFiniteSet(Deposits) /\ IsFiniteSet(todo)
    BY CreditLedgerTxAssumption, FS_Subset
  <2>2. \A e \in todo : plan[e] \in Int
    BY <1>1, <1>2
  <2> QED
    BY <1>2, <2>1, <2>2
<1>4. PICK s : s = SumFunctionOnSet(plan, todo \ {d})
  OBVIOUS
<1>5. s \in Int
  BY <1>3, <1>4, FS_Subset, SumType
<1>6. SumFunctionOnSet(plan, todo) = plan[d] + s
  BY <1>3, <1>4, SumRemove
<1>7. PICK n \in Int : n = Cost[c.source]
  BY CallIs
<1>8. PICK p \in Nat : p = plan[d]
  BY <1>2
<1>9. PICK k : k = RemainingDelta(c.op) /\ (k = -1 \/ k = 0)
  BY DEF RemainingDelta
<1>10. LotsLeft(c, q) = k * (n - (p + s)) /\ LotsLeft(c, r) = k * (n - s)
  BY <1>1, <1>2, <1>4, <1>6, <1>7, <1>8, <1>9 DEF LotsLeft
<1>11. LotsLeft(c, q) \in Int /\ k * p \in Int /\ LotsLeft(c, r) = LotsLeft(c, q) + k * p
  BY <1>5, <1>9, <1>10
<1>12. LotChange(c.op, q.plan[d]) = k * p
  BY <1>1, <1>8, <1>9 DEF LotChange
<1> QED
  BY <1>1, <1>8, <1>11, <1>12

LEMMA WriteLotSteps ==
  ASSUME Exact, NEW c \in Calls, Sole(c), Works(c, call[c]), WriteLot(c)
  PROVE  Exact'
<1>1. PICK q : q = call[c]
  OBVIOUS
<1>2. PICK d : d = q.at
  OBVIOUS
<1>3. q.pc = "write" /\ KeepData /\ IsCall(q)
  BY <1>1 DEF WriteLot, Proceeds, Exact, Shape
<1>4. PICK A, R, E : A = AccountIn(q) /\ R = RowsIn(q) /\ E = EntriesIn(q)
  OBVIOUS
<1>5. AtLots(c, q, A, R, E)
  BY <1>1, <1>3, <1>4, StageIs
<1>6. d \in q.todo /\ d \in Deposits /\ q.read = R[d] /\ d \notin DOMAIN q.rows
  BY <1>2, <1>3, <1>5 DEF AtLots
<1>7. R[d] = rows[d] /\ R[d] \in LotRows
  BY <1>4, <1>5, <1>6 DEF RowsIn, RowIn, AtLots, DataFits
<1>8. PICK row : row = Adjusted(c, d)
  OBVIOUS
<1>9. PICK p \in Nat : p = q.plan[d]
  BY <1>5, <1>6 DEF AtLots, PlanFits
<1>10. PICK k \in {-1, 0} : k = RemainingDelta(c.op)
  BY DEF RemainingDelta
<1>11. row \in LotRows /\ row.status = R[d].status /\ row.remaining = R[d].remaining + k * p
  <2>1. PICK h \in {-1, 0, 1} : h = HeldDelta(c.op)
    BY DEF HeldDelta
  <2>2. row = [R[d] EXCEPT !.remaining = R[d].remaining + k * p,
                           !.held = IF c.op = "debit" THEN R[d].held ELSE R[d].held + h * p]
    BY <1>1, <1>6, <1>7, <1>8, <1>9, <1>10, <2>1 DEF Adjusted
  <2>3. R[d].remaining \in Int /\ R[d].held \in Int
    BY <1>7 DEF LotRows
  <2>4. R[d].remaining + k * p \in Int /\ R[d].held + h * p \in Int
    BY <2>3
  <2> QED
    BY <1>7, <2>2, <2>3, <2>4 DEF LotRows
<1>12. PICK rest : rest = q.todo \ {d}
  OBVIOUS
<1>13. PICK pc \in {"balance", "read"} : pc = IF rest = {} THEN "balance" ELSE "read"
  OBVIOUS
<1>14. PICK r : r = [q EXCEPT !.pc = pc, !.todo = rest,
                             !.rows = Written(OneRow(d, row), q.rows)]
  OBVIOUS
<1>15. call' = [call EXCEPT ![c] = r]
  BY <1>1, <1>2, <1>8, <1>12, <1>13, <1>14 DEF WriteLot
<1>16. /\ IsCall(r) /\ r.pc = pc /\ r.todo = rest /\ r.plan = q.plan /\ r.account = q.account
       /\ r.entries = q.entries /\ r.rows = Written(OneRow(d, row), q.rows)
  BY <1>3, <1>14 DEF IsCall
<1>17. PICK S : S = [R EXCEPT ![d] = row]
  OBVIOUS
<1>18. /\ AccountIn(r) = A /\ RowsIn(r) = S /\ EntriesIn(r) = E
       /\ DOMAIN r.rows = DOMAIN q.rows \union {d}
  <2>1. AccountIn(r) = A /\ EntriesIn(r) = E
    BY <1>4, <1>16 DEF AccountIn, EntriesIn
  <2>2. /\ RowsIn(r) = [RowsIn(q) EXCEPT ![d] = row]
        /\ DOMAIN r.rows = DOMAIN q.rows \union {d}
    BY <1>6, <1>16, RowWritten
  <2> QED
    BY <1>4, <1>17, <2>1, <2>2
<1>19. row.status # "credited" => row.remaining = 0
  <2> SUFFICES ASSUME row.status # "credited" PROVE row.remaining = 0
    OBVIOUS
  <2>1. R[d].remaining = 0
    BY <1>5, <1>6, <1>11 DEF AtLots, DataFits
  <2>2. p = 0
    BY <1>5, <1>6, <1>9, <1>11 DEF AtLots, PlanFits
  <2> QED
    BY <1>11, <2>1, <2>2
<1>20. DataFits(A, S, E) /\ PlanFits(r.plan, c.source, S)
  BY <1>5, <1>6, <1>11, <1>16, <1>17, <1>19, DataMoves DEF AtLots
<1>21. Total(R) \in Int /\ Total(S) = Total(R) + k * p
  <2>1. R \in [Deposits -> LotRows] /\ R[d].remaining \in Int
    BY <1>5, <1>7 DEF AtLots, DataFits, LotRows
  <2>2. Total(R) \in Int /\ Total(S) = Total(R) + row.remaining - R[d].remaining
    BY <1>6, <1>11, <1>17, <2>1, TotalMoves
  <2> QED
    BY <1>11, <2>1, <2>2
<1>22. /\ LotsLeft(c, q) \in Int /\ k * p \in Int /\ LotsLeft(c, r) = LotsLeft(c, q) + k * p
  <2>1. c.op # "credit" /\ q.plan \in [Deposits -> Nat] /\ q.todo \subseteq Deposits
    BY <1>5 DEF AtLots, PlanFits
  <2>2. r.plan = q.plan /\ d \in q.todo /\ r.todo = q.todo \ {d}
    BY <1>6, <1>12, <1>16
  <2>3. /\ LotsLeft(c, q) \in Int /\ LotChange(c.op, q.plan[d]) \in Int
        /\ LotsLeft(c, r) = LotsLeft(c, q) + LotChange(c.op, q.plan[d])
    BY <2>1, <2>2, LotsLeftMoves
  <2>4. LotChange(c.op, q.plan[d]) = k * p
    BY <1>9, <1>10 DEF LotChange
  <2> QED
    BY <2>3, <2>4
<1>23. Owes(A, S, LotsLeft(c, r))
  <2>1. A.available \in Int /\ A.reserved \in Int
    BY <1>5 DEF AtLots, DataFits, Accounts
  <2>2. Total(R) = A.available + A.reserved + LotsLeft(c, q)
    BY <1>5 DEF AtLots, Owes
  <2> QED
    BY <1>21, <1>22, <2>1, <2>2 DEF Owes
<1>24. /\ c.op # "credit" /\ ~HasKey(E, c.op, c.source) /\ Entered(A, E, 0, 0)
       /\ rest \subseteq Deposits /\ rest \intersect DOMAIN r.rows = {}
  BY <1>5, <1>12, <1>18 DEF AtLots
<1>25. ASSUME rest # {} PROVE Works(c, r)
  <2>1. AtLots(c, r, A, S, E)
    BY <1>13, <1>16, <1>20, <1>23, <1>24, <1>25 DEF AtLots
  <2> QED
    BY <1>18, <2>1 DEF Works, Fits
<1>26. ASSUME rest = {} PROVE Works(c, r)
  <2>1. PICK n \in Int : n = Cost[c.source]
    BY <1>24, CallIs
  <2>2. SumFunctionOnSet(r.plan, r.todo) = 0
    BY <1>16, <1>26, SumEmpty
  <2>3. LotsLeft(c, r) = k * (n - 0)
    BY <1>10, <2>1, <2>2 DEF LotsLeft
  <2>4. LotsLeft(c, r) = AvailableDelta(c.op, n) + ReservedDelta(c.op, n)
    BY <1>10, <1>24, <2>1, <2>3, DeltaIs
  <2>5. Price(c, r) = n /\ KeyOf(c, r) = c.source
    BY <1>24, <2>1 DEF Price, KeyOf
  <2>6. Mutating(c, r, S, E)
    BY <1>16, <1>20, <1>24, <1>26, <2>5 DEF Mutating
  <2>7. AtAccount(c, r, A, S, E)
    BY <1>13, <1>16, <1>20, <1>23, <1>24, <1>26, <2>4, <2>5, <2>6 DEF AtAccount
  <2> QED
    BY <1>18, <2>7 DEF Works, Fits
<1> QED
  BY <1>3, <1>15, <1>16, <1>25, <1>26, StepKeeps DEF Sole
-----------------------------------------------------------------------------
\* Rows that are not credited may change their status, to any but credited.
LEMMA StatusMoves ==
  ASSUME NEW A, NEW R, NEW E, Even(A, R, E), NEW S, S \in [Deposits -> LotRows],
         \A d \in Deposits : /\ S[d].remaining = R[d].remaining
                             /\ S[d].status = "credited" <=> R[d].status = "credited"
  PROVE  Even(A, S, E)
<1>1. DataFits(A, R, E)
  BY DEF Even
<1>2. \A plan, source : PlanFits(plan, source, R) => PlanFits(plan, source, S)
  BY DEF PlanFits
<1>3. \A d \in Deposits : S[d].status # "credited" => S[d].remaining = 0
  BY <1>1 DEF DataFits
<1>4. DataFits(A, S, E)
  BY <1>1, <1>2, <1>3 DEF DataFits
<1>5. Total(S) = Total(R)
  <2> DEFINE v == [d \in Deposits |-> R[d].remaining]
             w == [d \in Deposits |-> S[d].remaining]
  <2>1. \A d \in Deposits : v[d] = w[d]
    OBVIOUS
  <2>2. Total(R) = SumFunctionOnSet(v, Deposits) /\ Total(S) = SumFunctionOnSet(w, Deposits)
    BY DEF Total, SumOver
  <2>3. IsFiniteSet(Deposits)
    BY CreditLedgerTxAssumption
  <2> HIDE DEF v, w
  <2> QED
    BY <2>1, <2>2, <2>3, SumCongruence
<1> QED
  BY <1>4, <1>5 DEF Even, Owes

LEMMA RecordTransferSteps ==
  ASSUME Exact, NEW c \in Calls, Sole(c), Works(c, call[c]), RecordTransfer(c)
  PROVE  Exact'
<1>1. PICK q : q = call[c]
  OBVIOUS
<1>2. q.pc = "record" /\ KeepData /\ IsCall(q)
  BY <1>1 DEF RecordTransfer, Proceeds, Exact, Shape
<1>3. PICK A, R, E : A = AccountIn(q) /\ R = RowsIn(q) /\ E = EntriesIn(q)
  OBVIOUS
<1>4. AtRecord(c, q, A, R, E)
  BY <1>1, <1>2, <1>3, StageIs
<1>5. PICK d \in Deposits : d = c.source
  BY <1>4, CallIs DEF AtRecord
<1>6. R[d] = rows[d] /\ R[d] \in LotRows /\ R[d].status # "credited"
  BY <1>3, <1>4, <1>5, FreshView DEF AtRecord, Even, DataFits
<1>7. PICK status \in {"confirming", "confirmed"} :
        call' = [call EXCEPT ![c] = [call[c] EXCEPT
                   !.pc = IF status = "confirmed" THEN "pool" ELSE "commit",
                   !.rows = Written(OneRow(c.source,
                                           [rows[c.source] EXCEPT !.status = status]), @)]]
  BY DEF RecordTransfer
<1>8. PICK row : row = [R[d] EXCEPT !.status = status]
  OBVIOUS
<1>9. row \in LotRows /\ row.status # "credited" /\ row.remaining = R[d].remaining
  BY <1>6, <1>8 DEF LotRows, Statuses
<1>10. PICK pc \in {"pool", "commit"} : pc = IF status = "confirmed" THEN "pool" ELSE "commit"
  OBVIOUS
<1>11. PICK r : r = [q EXCEPT !.pc = pc, !.rows = Written(OneRow(d, row), q.rows)]
  OBVIOUS
<1>12. call' = [call EXCEPT ![c] = r]
  BY <1>1, <1>5, <1>6, <1>7, <1>8, <1>10, <1>11
<1>13. /\ IsCall(r) /\ r.pc = pc /\ r.account = q.account /\ r.entries = q.entries
       /\ r.rows = Written(OneRow(d, row), q.rows)
  BY <1>2, <1>11 DEF IsCall
<1>14. PICK S : S = [R EXCEPT ![d] = row]
  OBVIOUS
<1>15. AccountIn(r) = A /\ RowsIn(r) = S /\ EntriesIn(r) = E
  <2>1. AccountIn(r) = A /\ EntriesIn(r) = E
    BY <1>3, <1>13 DEF AccountIn, EntriesIn
  <2>2. RowsIn(r) = [RowsIn(q) EXCEPT ![d] = row]
    BY <1>13, RowWritten
  <2> QED
    BY <1>3, <1>14, <2>1, <2>2
<1>16. Even(A, S, E)
  <2>1. Even(A, R, E) /\ R \in [Deposits -> LotRows]
    BY <1>4 DEF AtRecord, Even, DataFits
  <2>2. /\ S \in [Deposits -> LotRows] /\ S[d] = row
        /\ \A e \in Deposits : e # d => S[e] = R[e]
    BY <1>9, <1>14, <2>1
  <2>3. \A e \in Deposits : /\ S[e].remaining = R[e].remaining
                            /\ S[e].status = "credited" <=> R[e].status = "credited"
    BY <1>6, <1>9, <2>2
  <2> QED
    BY <2>1, <2>2, <2>3, StatusMoves
<1>17. c.op = "credit"
  BY <1>4 DEF AtRecord
<1>18. Works(c, r)
  BY <1>10, <1>13, <1>15, <1>16, <1>17 DEF Works, Fits, AtPool, AtCommit
<1> QED
  BY <1>2, <1>10, <1>12, <1>13, <1>18, StepKeeps DEF Sole

LEMMA PoolCandidatesSteps ==
  ASSUME Exact, NEW c \in Calls, Sole(c), Works(c, call[c]), PoolCandidates(c)
  PROVE  Exact'
<1>1. PICK q : q = call[c]
  OBVIOUS
<1>2. q.pc = "pool" /\ KeepData /\ IsCall(q)
  BY <1>1 DEF PoolCandidates, Proceeds, Exact, Shape
<1>3. PICK A, R, E : A = AccountIn(q) /\ R = RowsIn(q) /\ E = EntriesIn(q)
  OBVIOUS
<1>4. c.op = "credit" /\ Even(A, R, E)
  BY <1>1, <1>2, <1>3, StageIs DEF AtPool
<1>5. PICK pool : pool = {d \in Deposits : MyRow(c, d).status \in {"confirmed", "below_minimum"}}
  OBVIOUS
<1>6. pool \subseteq Deposits /\ \A d \in pool : R[d].status # "credited"
  BY <1>1, <1>3, <1>5 DEF MyRow, RowsIn, RowIn
<1>7. PICK pc \in {"park", "credit"} :
        pc = IF SumOver(pool, LAMBDA d : Worth[d]) < MinTopUp THEN "park" ELSE "credit"
  OBVIOUS
<1>8. PICK r : r = [q EXCEPT !.pc = pc, !.todo = pool]
  OBVIOUS
<1>9. call' = [call EXCEPT ![c] = r]
  BY <1>1, <1>5, <1>7, <1>8 DEF PoolCandidates
<1>10. /\ IsCall(r) /\ r.pc = pc /\ r.todo = pool /\ r.rows = q.rows /\ r.account = q.account
       /\ r.entries = q.entries
  BY <1>2, <1>8 DEF IsCall
<1>11. AccountIn(r) = A /\ RowsIn(r) = R /\ EntriesIn(r) = E
  BY <1>3, <1>10, SameView
<1>12. Works(c, r)
  BY <1>4, <1>6, <1>7, <1>10, <1>11 DEF Works, Fits, AtPool, Uncredited
<1> QED
  BY <1>2, <1>7, <1>9, <1>10, <1>12, StepKeeps DEF Sole

LEMMA ParkPoolSteps ==
  ASSUME Exact, NEW c \in Calls, Sole(c), Works(c, call[c]), ParkPool(c)
  PROVE  Exact'
<1>1. PICK q : q = call[c]
  OBVIOUS
<1>2. q.pc = "park" /\ KeepData /\ IsCall(q)
  BY <1>1 DEF ParkPool, Proceeds, Exact, Shape
<1>3. PICK A, R, E : A = AccountIn(q) /\ R = RowsIn(q) /\ E = EntriesIn(q)
  OBVIOUS
<1>4. Uncredited(q, R) /\ Even(A, R, E)
  BY <1>1, <1>2, <1>3, StageIs DEF AtPool
<1>5. PICK parked : parked = [d \in q.todo |-> [MyRow(c, d) EXCEPT !.status = "below_minimum"]]
  OBVIOUS
<1>6. PICK r : r = [q EXCEPT !.pc = "commit", !.todo = {}, !.rows = Written(parked, q.rows)]
  OBVIOUS
<1>7. call' = [call EXCEPT ![c] = r]
  BY <1>1, <1>5, <1>6 DEF ParkPool
<1>8. /\ IsCall(r) /\ r.pc = "commit" /\ r.rows = Written(parked, q.rows)
      /\ r.account = q.account /\ r.entries = q.entries
  BY <1>2, <1>6 DEF IsCall
<1>9. PICK S : S = RowsIn(r)
  OBVIOUS
<1>10. ASSUME NEW d \in Deposits
       PROVE  /\ S[d] \in LotRows /\ S[d].remaining = R[d].remaining
              /\ S[d].status = "credited" <=> R[d].status = "credited"
  <2>1. R[d] \in LotRows
    BY <1>4 DEF Even, DataFits
  <2>2. MyRow(c, d) = R[d]
    BY <1>1, <1>3 DEF MyRow, RowsIn, RowIn
  <2>3. S[d] = IF d \in q.todo THEN parked[d] ELSE R[d]
    BY <1>3, <1>5, <1>8, <1>9 DEF RowsIn, RowIn, Written
  <2>4. CASE d \in q.todo
    <3>1. S[d] = [R[d] EXCEPT !.status = "below_minimum"] /\ R[d].status # "credited"
      BY <1>4, <1>5, <2>2, <2>3, <2>4 DEF Uncredited
    <3> QED
      BY <2>1, <3>1 DEF LotRows, Statuses
  <2>5. CASE d \notin q.todo
    BY <2>1, <2>3, <2>5
  <2> QED
    BY <2>4, <2>5
<1>11. Even(A, S, E)
  <2>1. S \in [Deposits -> LotRows]
    BY <1>9, <1>10 DEF RowsIn
  <2> QED
    BY <1>4, <1>10, <2>1, StatusMoves
<1>12. AccountIn(r) = A /\ EntriesIn(r) = E
  BY <1>3, <1>8 DEF AccountIn, EntriesIn
<1>13. Works(c, r)
  BY <1>8, <1>9, <1>11, <1>12 DEF Works, Fits, AtCommit
<1> QED
  BY <1>2, <1>7, <1>8, <1>13, StepKeeps DEF Sole

\* A call that credits the next deposit owes its worth to the account.
LEMMA CreditRowSteps ==
  ASSUME Exact, NEW c \in Calls, Sole(c), Works(c, call[c]), CreditRow(c)
  PROVE  Exact'
<1>1. PICK q : q = call[c]
  OBVIOUS
<1>2. q.pc = "credit" /\ KeepData /\ IsCall(q)
  BY <1>1 DEF CreditRow, Proceeds, Exact, Shape
<1>3. PICK A, R, E : A = AccountIn(q) /\ R = RowsIn(q) /\ E = EntriesIn(q)
  OBVIOUS
<1>4. c.op = "credit" /\ Uncredited(q, R) /\ Even(A, R, E)
  BY <1>1, <1>2, <1>3, StageIs DEF AtPool
<1>5. PICK d \in q.todo :
        call' = [call EXCEPT ![c] = [call[c] EXCEPT
                   !.pc = "balance", !.at = d, !.todo = @ \ {d},
                   !.plan = [NoPlan EXCEPT ![d] = Worth[d]],
                   !.rows = Written(OneRow(d, [status |-> "credited",
                                               remaining |-> Worth[d], held |-> 0]), @)]]
  BY <1>1 DEF CreditRow
<1>6. PICK row : row = [status |-> "credited", remaining |-> Worth[d], held |-> 0]
  OBVIOUS
<1>7. d \in Deposits /\ R[d].status # "credited" /\ R \in [Deposits -> LotRows]
  BY <1>4, <1>5 DEF Uncredited, Even, DataFits
<1>8. R[d].remaining = 0 /\ Worth[d] \in Int
  BY <1>4, <1>7, CreditLedgerTxAssumption DEF Even, DataFits
<1>9. row \in LotRows /\ row.status = "credited" /\ row.remaining = Worth[d]
  BY <1>6, <1>8 DEF LotRows, Statuses
<1>10. PICK plan : plan = [NoPlan EXCEPT ![d] = Worth[d]]
  OBVIOUS
<1>11. PICK r : r = [q EXCEPT !.pc = "balance", !.at = d, !.todo = q.todo \ {d}, !.plan = plan,
                             !.rows = Written(OneRow(d, row), q.rows)]
  OBVIOUS
<1>12. call' = [call EXCEPT ![c] = r]
  BY <1>1, <1>5, <1>6, <1>10, <1>11
<1>13. /\ IsCall(r) /\ r.pc = "balance" /\ r.at = d /\ r.todo = q.todo \ {d}
       /\ r.account = q.account /\ r.entries = q.entries
       /\ r.rows = Written(OneRow(d, row), q.rows)
  BY <1>2, <1>11 DEF IsCall
<1>14. PICK S : S = [R EXCEPT ![d] = row]
  OBVIOUS
<1>15. AccountIn(r) = A /\ RowsIn(r) = S /\ EntriesIn(r) = E
  <2>1. AccountIn(r) = A /\ EntriesIn(r) = E
    BY <1>3, <1>13 DEF AccountIn, EntriesIn
  <2>2. RowsIn(r) = [RowsIn(q) EXCEPT ![d] = row]
    BY <1>7, <1>13, RowWritten
  <2> QED
    BY <1>3, <1>14, <2>1, <2>2
<1>16. DataFits(A, S, E)
  BY <1>4, <1>7, <1>9, <1>14, DataMoves DEF Even
<1>17. Owes(A, S, Worth[d])
  <2>1. Total(R) \in Int /\ Total(S) = Total(R) + row.remaining - R[d].remaining
    BY <1>7, <1>9, <1>14, TotalMoves
  <2>2. A.available \in Int /\ A.reserved \in Int
    BY <1>16 DEF DataFits, Accounts
  <2>3. Total(R) = A.available + A.reserved + 0
    BY <1>4 DEF Even, Owes
  <2> QED
    BY <1>8, <1>9, <2>1, <2>2, <2>3 DEF Owes
<1>18. AvailableDelta(c.op, Worth[d]) + ReservedDelta(c.op, Worth[d]) = Worth[d]
  BY <1>4, <1>8 DEF AvailableDelta, ReservedDelta, DrawsAvailable, DrawsReserved
<1>19. Mutating(c, r, S, E)
  <2>1. ~HasKey(E, "credit", d)
    BY <1>4, <1>7 DEF HasKey, Even, DataFits
  <2>2. KeyOf(c, r) = d
    BY <1>4, <1>13 DEF KeyOf
  <2>3. S[d].status = "credited" /\ \A e \in Deposits : e # d => S[e] = R[e]
    BY <1>7, <1>9, <1>14
  <2>4. r.at \in Deposits /\ S[r.at].status = "credited"
    BY <1>7, <1>13, <2>3
  <2>5. Uncredited(r, S)
    BY <1>4, <1>13, <2>3 DEF Uncredited
  <2> QED
    BY <1>4, <2>1, <2>2, <2>4, <2>5 DEF Mutating
<1>20. Price(c, r) = Worth[d]
  BY <1>4, <1>13 DEF Price
<1>21. AtAccount(c, r, A, S, E)
  BY <1>4, <1>13, <1>16, <1>17, <1>18, <1>19, <1>20 DEF AtAccount, Even
<1>22. Works(c, r)
  BY <1>15, <1>21 DEF Works, Fits
<1> QED
  BY <1>2, <1>12, <1>13, <1>22, StepKeeps DEF Sole
-----------------------------------------------------------------------------
\* A call that has the same deposit, plan and pool makes the same mutation.
LEMMA SameMutation ==
  ASSUME NEW c, NEW q, NEW r, r.at = q.at, r.plan = q.plan, r.todo = q.todo, NEW R, NEW E
  PROVE  /\ KeyOf(c, r) = KeyOf(c, q) /\ Price(c, r) = Price(c, q)
         /\ Mutating(c, r, R, E) <=> Mutating(c, q, R, E)
BY DEF KeyOf, Price, Mutating, Uncredited

LEMMA MutationIs ==
  ASSUME NEW c \in Calls, NEW q, NEW R, NEW E, Mutating(c, q, R, E)
  PROVE  /\ Price(c, q) \in Int
         /\ AvailableDelta(c.op, Price(c, q)) \in Int
         /\ ReservedDelta(c.op, Price(c, q)) \in Int
<1>1. CASE c.op = "credit"
  <2>1. q.at \in Deposits
    BY <1>1 DEF Mutating
  <2>2. \A d \in Deposits : Worth[d] \in Int
    BY CreditLedgerTxAssumption
  <2>3. Price(c, q) \in Int
    BY <1>1, <2>1, <2>2 DEF Price
  <2> QED
    BY <2>3 DEF AvailableDelta, ReservedDelta
<1>2. CASE c.op # "credit"
  <2>1. Price(c, q) \in Int
    BY <1>2, CallIs DEF Price
  <2> QED
    BY <1>2, <2>1, DeltaIs
<1> QED
  BY <1>1, <1>2

LEMMA ReadAccountSteps ==
  ASSUME Exact, NEW c \in Calls, Sole(c), Works(c, call[c]), ReadAccount(c)
  PROVE  Exact'
<1>1. PICK q : q = call[c]
  OBVIOUS
<1>2. q.pc = "balance" /\ KeepData /\ IsCall(q)
  BY <1>1 DEF ReadAccount, Proceeds, Exact, Shape
<1>3. CASE Fail(c)
  BY <1>2, <1>3, FailSteps
<1>4. CASE ~Fail(c)
  <2>1. PICK A, R, E : A = AccountIn(q) /\ R = RowsIn(q) /\ E = EntriesIn(q)
    OBVIOUS
  <2>2. AtAccount(c, q, A, R, E)
    BY <1>1, <1>2, <2>1, StageIs
  <2>3. MyAccount(c) = A
    BY <1>1, <2>1 DEF MyAccount, AccountIn
  <2>4. PICK r : r = [q EXCEPT !.pc = "account", !.read = A]
    OBVIOUS
  <2>5. call' = [call EXCEPT ![c] = r]
    BY <1>1, <1>4, <2>3, <2>4 DEF ReadAccount
  <2>6. /\ IsCall(r) /\ r.pc = "account" /\ r.read = A /\ r.at = q.at /\ r.plan = q.plan
        /\ r.todo = q.todo /\ r.rows = q.rows /\ r.account = q.account /\ r.entries = q.entries
    BY <1>2, <2>4 DEF IsCall
  <2>7. AccountIn(r) = A /\ RowsIn(r) = R /\ EntriesIn(r) = E
    BY <2>1, <2>6, SameView
  <2>8. Price(c, r) = Price(c, q) /\ (Mutating(c, r, R, E) <=> Mutating(c, q, R, E))
    BY <2>6, SameMutation
  <2>9. AtAccount(c, r, A, R, E)
    BY <2>2, <2>6, <2>8 DEF AtAccount
  <2>10. Works(c, r)
    BY <2>7, <2>9 DEF Works, Fits
  <2> QED
    BY <1>2, <2>5, <2>6, <2>10, StepKeeps DEF Sole
<1> QED
  BY <1>3, <1>4

LEMMA EntriesAdd ==
  ASSUME NEW A, NEW R, NEW E, DataFits(A, R, E)
  PROVE  Available(E) \in Int /\ Reserved(E) \in Int
<1> DEFINE v == [e \in E |-> AvailableDelta(e.op, e.amount)]
           w == [e \in E |-> ReservedDelta(e.op, e.amount)]
<1>1. \A e \in E : v[e] \in Int /\ w[e] \in Int
  BY DEF DataFits, AvailableDelta, ReservedDelta
<1>2. Available(E) = SumFunctionOnSet(v, E) /\ Reserved(E) = SumFunctionOnSet(w, E)
  BY DEF Available, Reserved, SumOver
<1>3. IsFiniteSet(E)
  BY DEF DataFits
<1> HIDE DEF v, w
<1> QED
  BY <1>1, <1>2, <1>3, SumType

LEMMA EntryAdds ==
  ASSUME NEW A, NEW R, NEW E, DataFits(A, R, E), NEW new, new \notin E, new.amount \in Int,
         NEW F, F = E \union {new}
  PROVE  /\ Available(F) = Available(E) + AvailableDelta(new.op, new.amount)
         /\ Reserved(F) = Reserved(E) + ReservedDelta(new.op, new.amount)
<1> DEFINE v == [e \in E |-> AvailableDelta(e.op, e.amount)]
           w == [e \in E |-> ReservedDelta(e.op, e.amount)]
           vf == [e \in F |-> AvailableDelta(e.op, e.amount)]
           wf == [e \in F |-> ReservedDelta(e.op, e.amount)]
<1>1. \A e \in F : vf[e] \in Int /\ wf[e] \in Int
  BY DEF DataFits, AvailableDelta, ReservedDelta
<1>2. /\ Available(E) = SumFunctionOnSet(v, E) /\ Reserved(E) = SumFunctionOnSet(w, E)
      /\ Available(F) = SumFunctionOnSet(vf, F) /\ Reserved(F) = SumFunctionOnSet(wf, F)
  BY DEF Available, Reserved, SumOver
<1>3. IsFiniteSet(E)
  BY DEF DataFits
<1>4. \A e \in E : vf[e] = v[e] /\ wf[e] = w[e]
  OBVIOUS
<1>5. vf[new] = AvailableDelta(new.op, new.amount) /\ wf[new] = ReservedDelta(new.op, new.amount)
  OBVIOUS
<1> HIDE DEF v, w, vf, wf
<1>6. /\ SumFunctionOnSet(vf, E) = SumFunctionOnSet(v, E)
      /\ SumFunctionOnSet(wf, E) = SumFunctionOnSet(w, E)
  BY <1>3, <1>4, SumCongruence
<1>7. /\ \A e \in E : vf[e] \in Int /\ wf[e] \in Int
      /\ vf[new] \in Int /\ wf[new] \in Int
  BY <1>1
<1>8. SumFunctionOnSet(vf, F) = vf[new] + SumFunctionOnSet(vf, E)
  BY <1>3, <1>7, SumInsert
<1>9. SumFunctionOnSet(wf, F) = wf[new] + SumFunctionOnSet(wf, E)
  BY <1>3, <1>7, SumInsert
<1>10. SumFunctionOnSet(vf, E) \in Int /\ SumFunctionOnSet(wf, E) \in Int
  BY <1>3, <1>7, SumType
<1>11. vf[new] + SumFunctionOnSet(vf, E) = SumFunctionOnSet(vf, E) + vf[new]
  BY <1>7, <1>10
<1>12. wf[new] + SumFunctionOnSet(wf, E) = SumFunctionOnSet(wf, E) + wf[new]
  BY <1>7, <1>10
<1> QED
  BY <1>2, <1>5, <1>6, <1>8, <1>9, <1>11, <1>12

LEMMA WriteAccountSteps ==
  ASSUME Exact, NEW c \in Calls, Sole(c), Works(c, call[c]), WriteAccount(c)
  PROVE  Exact'
<1>1. PICK q : q = call[c]
  OBVIOUS
<1>2. q.pc = "account" /\ KeepData /\ IsCall(q)
  BY <1>1 DEF WriteAccount, Proceeds, Exact, Shape
<1>3. PICK A, R, E : A = AccountIn(q) /\ R = RowsIn(q) /\ E = EntriesIn(q)
  OBVIOUS
<1>4. AtAccount(c, q, A, R, E) /\ q.read = A
  BY <1>1, <1>2, <1>3, StageIs DEF AtAccount
<1>5. PICK n : n = Price(c, q)
  OBVIOUS
<1>6. Amount(c) = n
  BY <1>1, <1>5 DEF Amount, Price
<1>7. PICK x, y : x = AvailableDelta(c.op, n) /\ y = ReservedDelta(c.op, n)
  OBVIOUS
<1>8. x \in Int /\ y \in Int
  BY <1>4, <1>5, <1>7, MutationIs DEF AtAccount
<1>9. PICK B : B = [available |-> A.available + x, reserved |-> A.reserved + y]
  OBVIOUS
<1>10. PICK r : r = [q EXCEPT !.pc = "entry", !.account = {B}]
  OBVIOUS
<1>11. call' = [call EXCEPT ![c] = r]
  BY <1>1, <1>4, <1>6, <1>7, <1>9, <1>10 DEF WriteAccount
<1>12. /\ IsCall(r) /\ r.pc = "entry" /\ r.at = q.at /\ r.plan = q.plan /\ r.todo = q.todo
       /\ r.rows = q.rows /\ r.account = {B} /\ r.entries = q.entries
  BY <1>2, <1>10 DEF IsCall
<1>13. AccountIn(r) = B /\ RowsIn(r) = R /\ EntriesIn(r) = E
  BY <1>3, <1>12 DEF AccountIn, RowsIn, RowIn, EntriesIn
<1>14. Price(c, r) = n /\ Mutating(c, r, R, E)
  BY <1>4, <1>5, <1>12, SameMutation DEF AtAccount
<1>15. A.available \in Int /\ A.reserved \in Int
  BY <1>4 DEF AtAccount, DataFits, Accounts
<1>16. /\ B \in Accounts /\ B.available = A.available + x /\ B.reserved = A.reserved + y
  BY <1>8, <1>9, <1>15 DEF Accounts
<1>17. DataFits(B, R, E)
  BY <1>4, <1>16 DEF AtAccount, DataFits
<1>18. Owes(B, R, 0)
  <2>1. Total(R) = A.available + A.reserved + (x + y)
    BY <1>4, <1>5, <1>7 DEF AtAccount, Owes
  <2> QED
    BY <1>8, <1>15, <1>16, <2>1 DEF Owes
<1>19. Entered(B, E, x, y)
  <2>1. A.available = Available(E) + 0 /\ A.reserved = Reserved(E) + 0
    BY <1>4 DEF AtAccount, Entered
  <2>2. Available(E) \in Int /\ Reserved(E) \in Int
    BY <1>17, EntriesAdd
  <2> QED
    BY <1>8, <1>16, <2>1, <2>2 DEF Entered
<1>20. AtEntry(c, r, B, R, E)
  BY <1>7, <1>12, <1>14, <1>17, <1>18, <1>19 DEF AtEntry
<1>21. Works(c, r)
  BY <1>13, <1>20 DEF Works, Fits
<1> QED
  BY <1>2, <1>11, <1>12, <1>21, StepKeeps DEF Sole

\* The entry a call writes is under a free key, and says what it changed.
LEMMA CreateLedgerEntrySteps ==
  ASSUME Exact, NEW c \in Calls, Sole(c), Works(c, call[c]), CreateLedgerEntry(c)
  PROVE  Exact'
<1>1. PICK q : q = call[c]
  OBVIOUS
<1>2. q.pc = "entry" /\ KeepData /\ IsCall(q)
  BY <1>1 DEF CreateLedgerEntry, Proceeds, Exact, Shape
<1>3. PICK A, R, E : A = AccountIn(q) /\ R = RowsIn(q) /\ E = EntriesIn(q)
  OBVIOUS
<1>4. /\ Mutating(c, q, R, E) /\ DataFits(A, R, E) /\ Owes(A, R, 0)
      /\ Entered(A, E, AvailableDelta(c.op, Price(c, q)), ReservedDelta(c.op, Price(c, q)))
  BY <1>1, <1>2, <1>3, StageIs DEF AtEntry
<1>5. PICK n \in Int : n = Price(c, q)
  BY <1>4, MutationIs
<1>6. PICK x, y : x = AvailableDelta(c.op, n) /\ y = ReservedDelta(c.op, n)
  OBVIOUS
<1>7. x \in Int /\ y \in Int
  BY <1>4, <1>5, <1>6, MutationIs
<1>8. Source(c) = KeyOf(c, q) /\ Amount(c) = n
  BY <1>1, <1>5 DEF Source, Amount, Price, KeyOf
<1>9. PICK new : new = EntryOf(c)
  OBVIOUS
<1>10. new.op = c.op /\ new.source = KeyOf(c, q) /\ new.amount = n /\ new.plan = q.plan
  BY <1>1, <1>8, <1>9 DEF EntryOf
<1>11. ~HasKey(E, c.op, KeyOf(c, q))
  BY <1>4 DEF Mutating
<1>12. NewEntry(c) = {new} /\ new \notin E
  <2>1. MyEntries(c) = E
    BY <1>1, <1>3 DEF MyEntries, EntriesIn
  <2> QED
    BY <1>8, <1>9, <1>10, <1>11, <2>1 DEF NewEntry, HasKey
<1>13. PICK pc \in {"commit", "credit"} : pc = IF q.todo = {} THEN "commit" ELSE "credit"
  OBVIOUS
<1>14. PICK r : r = [q EXCEPT !.pc = pc, !.entries = q.entries \union {new}]
  OBVIOUS
<1>15. call' = [call EXCEPT ![c] = r]
  BY <1>1, <1>12, <1>13, <1>14 DEF CreateLedgerEntry
<1>16. /\ IsCall(r) /\ r.pc = pc /\ r.todo = q.todo /\ r.rows = q.rows
       /\ r.account = q.account /\ r.entries = q.entries \union {new}
  BY <1>2, <1>14 DEF IsCall
<1>17. PICK F : F = E \union {new}
  OBVIOUS
<1>18. AccountIn(r) = A /\ RowsIn(r) = R /\ EntriesIn(r) = F
  BY <1>3, <1>16, <1>17 DEF AccountIn, RowsIn, RowIn, EntriesIn
<1>19. Available(F) = Available(E) + x /\ Reserved(F) = Reserved(E) + y
  BY <1>4, <1>5, <1>6, <1>10, <1>12, <1>17, EntryAdds
<1>20. Entered(A, F, 0, 0)
  <2>1. A.available = Available(E) + x /\ A.reserved = Reserved(E) + y
    BY <1>4, <1>5, <1>6 DEF Entered
  <2>2. A.available \in Int /\ A.reserved \in Int
    BY <1>4 DEF DataFits, Accounts
  <2> QED
    BY <1>19, <2>1, <2>2 DEF Entered
<1>21. DataFits(A, R, F)
  <2>1. IsFiniteSet(F)
    BY <1>4, <1>17, FS_AddElement DEF DataFits
  <2>2. new.op = "credit" => new.source \in Deposits /\ R[new.source].status = "credited"
    BY <1>4, <1>10 DEF Mutating, KeyOf
  <2>3. new.op = "reserve" => PlanFits(new.plan, new.source, R)
    BY <1>4, <1>10 DEF Mutating, KeyOf
  <2> QED
    BY <1>4, <1>5, <1>10, <1>17, <2>1, <2>2, <2>3 DEF DataFits
<1>22. Even(A, R, F)
  BY <1>4, <1>20, <1>21 DEF Even
<1>23. q.todo # {} => c.op = "credit" /\ Uncredited(r, R)
  BY <1>4, <1>16 DEF Mutating, Uncredited
<1>24. Works(c, r)
  BY <1>13, <1>16, <1>18, <1>22, <1>23 DEF Works, Fits, AtCommit, AtPool
<1> QED
  BY <1>2, <1>13, <1>15, <1>16, <1>24, StepKeeps DEF Sole

LEMMA CommitSteps ==
  ASSUME Exact, NEW c \in Calls, Sole(c), Works(c, call[c]), Commit(c)
  PROVE  Exact'
<1>1. PICK q : q = call[c]
  OBVIOUS
<1>2. PICK A, R, E : A = AccountIn(q) /\ R = RowsIn(q) /\ E = EntriesIn(q)
  OBVIOUS
<1>3. q.pc = "commit" /\ call' = [call EXCEPT ![c] = AtPc("done")]
  BY <1>1 DEF Commit, Proceeds
<1>4. Even(A, R, E)
  BY <1>1, <1>2, <1>3, StageIs DEF AtCommit
<1>5. account' = A /\ rows' = R /\ entries' = E
  BY <1>1, <1>2 DEF Commit, MyAccount, MyEntries, MyRow, AccountIn, RowsIn, RowIn, EntriesIn
<1>6. Even(account, rows, entries)'
  BY <1>4, <1>5
<1>7. DOMAIN call' = Calls /\ call'[c] = AtPc("done") /\ \A b \in Calls \ {c} : call'[b] = call[b]
  BY <1>3 DEF Exact, Shape
<1>8. Shape' /\ call'[c].pc = "done"
  BY <1>7, AtPcIs DEF Exact, Shape
<1>9. \A b \in Calls : ~InProgress(b)'
  BY <1>7, <1>8 DEF Sole, InProgress, Ended
<1>10. \A b \in Calls : call'[b].pc = "idle" => call'[b] = AtPc("idle")
  BY <1>7, <1>8 DEF Exact
<1> QED
  BY <1>6, <1>8, <1>9, <1>10 DEF Exact, OneAtWork
-----------------------------------------------------------------------------
\* At first there is a credited row and an entry for each deposit credited before.
LEMMA InitExact == Init => Exact
<1> SUFFICES ASSUME Init PROVE Exact
  OBVIOUS
<1>1. PICK D \in SUBSET Deposits : D = load.credited
  BY CreditLedgerTxAssumption DEF Init
<1>2. IsFiniteSet(Deposits) /\ IsFiniteSet(D) /\ \A d \in D : Worth[d] \in Int
  <2>1. IsFiniteSet(Deposits) /\ IsFiniteSet(D)
    BY CreditLedgerTxAssumption, FS_Subset
  <2>2. \A d \in Deposits : Worth[d] \in Int
    BY CreditLedgerTxAssumption
  <2> QED
    BY <2>1, <2>2
<1> DEFINE ent == [d \in D |-> [op |-> "credit", source |-> d, amount |-> Worth[d],
                                plan |-> [NoPlan EXCEPT ![d] = Worth[d]], attempt |-> 0]]
<1>3. entries = {ent[d] : d \in D}
  BY <1>1 DEF Init
<1>4. \A d \in D : ent[d].op = "credit" /\ ent[d].source = d /\ ent[d].amount = Worth[d]
  OBVIOUS
<1> HIDE DEF ent
<1>5. PICK n : n = SumFunctionOnSet(Worth, D)
  OBVIOUS
<1>6. n \in Int
  BY <1>2, <1>5, SumType
<1>7. account = [available |-> n, reserved |-> 0]
  <2> DEFINE v == [d \in D |-> Worth[d]]
  <2>1. account = [available |-> SumFunctionOnSet(v, D), reserved |-> 0]
    BY <1>1 DEF Init, SumOver
  <2>2. \A d \in D : v[d] = Worth[d]
    OBVIOUS
  <2> HIDE DEF v
  <2> QED
    BY <1>2, <1>5, <2>1, <2>2, SumCongruence
<1>8. /\ rows \in [Deposits -> LotRows]
      /\ \A d \in D : rows[d].status = "credited" /\ rows[d].remaining = Worth[d]
      /\ \A d \in Deposits \ D : rows[d].status # "credited" /\ rows[d].remaining = 0
  <2>1. rows = [d \in Deposits |-> IF d \in D
                  THEN [status |-> "credited", remaining |-> Worth[d], held |-> 0]
                  ELSE [status |-> "confirming", remaining |-> 0, held |-> 0]]
    BY <1>1 DEF Init
  <2> QED
    BY <1>2, <2>1 DEF LotRows, Statuses
<1>9. DataFits(account, rows, entries)
  <2>1. account \in Accounts
    BY <1>6, <1>7 DEF Accounts
  <2>2. IsFiniteSet(entries)
    BY <1>2, <1>3, FiniteImage
  <2>3. \A e \in entries : e.op = "credit" /\ e.source \in D /\ e.amount \in Int
    BY <1>2, <1>3, <1>4
  <2> QED
    BY <1>8, <2>1, <2>2, <2>3 DEF DataFits
<1>10. Total(rows) = n
  <2> DEFINE v == [d \in Deposits |-> rows[d].remaining]
  <2>1. \A d \in Deposits : v[d] = rows[d].remaining /\ v[d] \in Int
    BY <1>8 DEF LotRows
  <2>2. Total(rows) = SumFunctionOnSet(v, Deposits)
    BY DEF Total, SumOver
  <2>3. \A d \in Deposits \ D : v[d] = 0
    BY <1>8, <2>1
  <2>4. \A d \in D : v[d] = Worth[d]
    BY <1>8, <2>1
  <2> HIDE DEF v
  <2>5. SumFunctionOnSet(v, Deposits) = SumFunctionOnSet(v, D)
    BY <1>2, <2>1, <2>3, SumSupport
  <2>6. SumFunctionOnSet(v, D) = SumFunctionOnSet(Worth, D)
    BY <1>2, <2>4, SumCongruence
  <2> QED
    BY <1>5, <2>2, <2>5, <2>6
<1>11. Available(entries) = n /\ Reserved(entries) = 0
  <2> DEFINE v == [e \in entries |-> AvailableDelta(e.op, e.amount)]
             w == [e \in entries |-> ReservedDelta(e.op, e.amount)]
  <2>1. /\ Available(entries) = SumFunctionOnSet(v, entries)
        /\ Reserved(entries) = SumFunctionOnSet(w, entries)
    BY DEF Available, Reserved, SumOver
  <2>2. \A d \in D : v[ent[d]] = Worth[d]
    BY <1>3, <1>4 DEF AvailableDelta, DrawsAvailable
  <2>3. \A e \in entries : w[e] = 0
    BY <1>3, <1>4 DEF ReservedDelta, DrawsReserved
  <2> HIDE DEF v, w
  <2>4. \A d, e \in D : ent[d] = ent[e] => d = e
    BY <1>4
  <2>5. SumFunctionOnSet(v, entries) = SumFunctionOnSet(Worth, D)
    BY <1>2, <1>3, <2>2, <2>4, SumImage
  <2>6. SumFunctionOnSet(w, entries) = 0
    BY <1>9, <2>3, SumZero DEF DataFits
  <2> QED
    BY <1>5, <2>1, <2>5, <2>6
<1>12. Even(account, rows, entries)
  <2>1. account.available = n /\ account.reserved = 0
    BY <1>7
  <2> QED
    BY <1>6, <1>9, <1>10, <1>11, <2>1 DEF Even, Entered, Owes
<1>13. DOMAIN call = Calls /\ \A c \in Calls : call[c] = AtPc("idle")
  BY DEF Init
<1>14. \A c \in Calls : IsCall(call[c]) /\ call[c].pc = "idle"
  BY <1>13, AtPcIs
<1> QED
  BY <1>12, <1>13, <1>14 DEF Exact, Shape, OneAtWork, InProgress

\* The statements a call makes once it is in progress.
LEMMA WorkSteps ==
  ASSUME Exact, NEW c \in Calls, Sole(c), Works(c, call[c]),
         \/ LoadOpenLots(c) \/ ReadLot(c) \/ WriteLot(c)
         \/ RecordTransfer(c) \/ PoolCandidates(c) \/ ParkPool(c) \/ CreditRow(c)
         \/ ReadAccount(c) \/ WriteAccount(c) \/ CreateLedgerEntry(c) \/ Commit(c)
  PROVE  Exact'
BY LoadOpenLotsSteps, ReadLotSteps, WriteLotSteps, RecordTransferSteps, PoolCandidatesSteps,
   ParkPoolSteps, CreditRowSteps, ReadAccountSteps, WriteAccountSteps, CreateLedgerEntrySteps,
   CommitSteps

LEMMA ProceedsIs ==
  ASSUME NEW c \in Calls,
         \/ LoadOpenLots(c) \/ ReadLot(c) \/ WriteLot(c)
         \/ RecordTransfer(c) \/ PoolCandidates(c) \/ ParkPool(c) \/ CreditRow(c)
         \/ ReadAccount(c) \/ WriteAccount(c) \/ CreateLedgerEntry(c) \/ Commit(c)
  PROVE  InProgress(c) /\ overlapped' = overlapped
<1>1. \E pc \in {"load", "read", "write", "record", "pool", "park", "credit",
                 "balance", "account", "entry", "commit"} : Proceeds(c, pc)
  BY DEF LoadOpenLots, ReadLot, WriteLot, RecordTransfer, PoolCandidates, ParkPool, CreditRow,
         ReadAccount, WriteAccount, CreateLedgerEntry, Commit
<1> QED
  BY <1>1 DEF Proceeds, InProgress, Ended

LEMMA NextExact == Serial /\ [Next]_vars => Serial'
<1> SUFFICES ASSUME Serial, [Next]_vars PROVE Serial'
  OBVIOUS
<1>1. CASE UNCHANGED vars
  BY <1>1 DEF vars, Serial, Exact, Shape, OneAtWork, InProgress, Ended, Works, AccountIn, RowsIn,
              RowIn, EntriesIn
<1>2. ASSUME NEW c \in Calls, InProgress(c), overlapped' = overlapped,
             Exact /\ Sole(c) /\ Works(c, call[c]) => Exact'
      PROVE  Serial'
  BY <1>2 DEF Serial, Exact, OneAtWork, Sole
<1>3. ASSUME NEW c \in Calls, Abort(c) PROVE Serial'
  BY <1>2, <1>3, FailSteps DEF Abort
<1>4. ASSUME NEW c \in Calls, Begins(c), Exact /\ Sole(c) /\ call[c] = AtPc("idle") => Exact'
      PROVE  Serial'
  BY <1>4 DEF Serial, Begins, Sole, Exact
<1>5. ASSUME NEW c \in Calls, LookUpSpending(c) \/ LookUpDeposit(c) PROVE Serial'
  <2>1. Begins(c)
    BY <1>5 DEF LookUpSpending, LookUpDeposit
  <2> QED
    BY <1>4, <1>5, <2>1, LookUpSteps
<1>6. ASSUME NEW c \in Calls, LookUpReservation(c) PROVE Serial'
  <2>1. Begins(c)
    BY <1>6 DEF LookUpReservation
  <2> QED
    BY <1>4, <1>6, <2>1, LookUpReservationSteps
<1>7. ASSUME NEW c \in Calls,
             \/ LoadOpenLots(c) \/ ReadLot(c) \/ WriteLot(c)
             \/ RecordTransfer(c) \/ PoolCandidates(c) \/ ParkPool(c) \/ CreditRow(c)
             \/ ReadAccount(c) \/ WriteAccount(c) \/ CreateLedgerEntry(c) \/ Commit(c)
      PROVE  Serial'
  <2>1. InProgress(c) /\ overlapped' = overlapped
    BY <1>7, ProceedsIs
  <2>2. Exact /\ Sole(c) /\ Works(c, call[c]) => Exact'
    BY <1>7, WorkSteps
  <2> QED
    BY <1>2, <2>1, <2>2
<1>8. ASSUME NEW c \in Calls, Statement(c) PROVE Serial'
  BY <1>5, <1>6, <1>7, <1>8 DEF Statement
<1> QED
  BY <1>1, <1>3, <1>8 DEF Next

(***************************************************************************)
(* As long as no two calls of a user overlap, the account always matches    *)
(* its lots and its entries, wherever a transaction is aborted: for any     *)
(* deposits, prices and calls.  (Overlapping calls break it: see the run    *)
(* CreditLedgerTxEntries.)                                                  *)
(***************************************************************************)
THEOREM SerialIsExactAlways == Spec => []SerialIsExact
<1>1. Init => Serial
  BY InitExact DEF Serial
<1>2. Serial => SerialIsExact
  <2> SUFFICES ASSUME Exact PROVE AccountMatchesLots /\ EveryMutationHasEntry
    BY DEF Serial, SerialIsExact
  <2>1. /\ DataFits(account, rows, entries) /\ Owes(account, rows, 0)
        /\ Entered(account, entries, 0, 0)
    BY DEF Exact, Even
  <2>2. account.available \in Int /\ account.reserved \in Int
    BY <2>1 DEF DataFits, Accounts
  <2>3. account.available = Available(entries) /\ account.reserved = Reserved(entries)
    BY <2>1, <2>2, EntriesAdd DEF Entered
  <2>4. Total(rows) = account.available + account.reserved
    BY <2>1, <2>2 DEF Owes
  <2> QED
    BY <2>3, <2>4 DEF AccountMatchesLots, EveryMutationHasEntry, Total, Available, Reserved
<1> QED
  BY <1>1, <1>2, NextExact, PTL DEF Spec
=============================================================================
