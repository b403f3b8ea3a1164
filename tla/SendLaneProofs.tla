--------------------------- MODULE SendLaneProofs ---------------------------
(***************************************************************************)
(* What leaves the lane of a wallet, for any number of calls, users and     *)
(* places of the limiter, any limit of attempts and any number of faults.   *)
(*                                                                          *)
(* None of the properties is inductive. They share Base: the types, who     *)
(* reads for whom (JoinsFit), and that a user's lane has one holder, the    *)
(* waiting calls are the ones the queues name, and no place is idle         *)
(* (Lanes). On it rest three invariants: a call that has sent keeps its     *)
(* nonce, and one that has not has nothing on the chain (Once); no nonce    *)
(* that is cached, read or held is beyond the pending count (Bounded); and  *)
(* the nonce of an accepted transaction is below whatever the next call of  *)
(* the wallet can take: the cached one, the one a holder was given, or,     *)
(* while a holder refreshes, what was mined when it asked (Upheld).         *)
(***************************************************************************)
EXTENDS SendLane, SumTheorems

Inside == {"entered", "nonced", "sending", "watching", "refreshing", "fallback", "broadcast",
           "settled"}

PCs == {"new", "ready", "queued", "started", "waiting", "woken", "done"} \union Inside

Nonces  == Nat \union {None}
Entries == [nonce : Nonces, age : Ages]

Records == [pc : PCs, nonce : Nonces, attempt : Nat, prior : BOOLEAN, accepted : BOOLEAN,
            joined : Calls \union {NoCall}, floor : Entries, low : Nat]

IsPool(f) == /\ f \in [DOMAIN f -> Calls]
             /\ DOMAIN f \subseteq Nat /\ IsFiniteSet(DOMAIN f)

Pools == UNION {[S -> Calls] : S \in {T \in SUBSET Nat : IsFiniteSet(T)}}

Typed ==
  /\ call \in [Calls -> Records]
  /\ lane \in [Users -> [running : BOOLEAN, queue : Seq(Calls)]]
  /\ inFlight \in Int /\ waiting \in Seq(Calls)
  /\ cache \in [Users -> Entries]
  /\ reading \in [Users -> Calls \union {NoCall}]
  /\ mined \in [Users -> Seq(Calls)]
  /\ pool \in [Users -> Pools]
  /\ faults \in [transport : Nat, reads : Nat, drops : Nat]
  /\ lowered \in BOOLEAN
-----------------------------------------------------------------------------
\* The numbers of a typed state, one fact at a time.
LEMMA UserOfIn == \A c \in Calls : UserOf[c] \in Users
BY SendLaneAssumption DEF SendLaneAssumption

LEMMA NonceInt == Nonces \subseteq Int
BY DEF Nonces, None

LEMMA CacheInt ==
  ASSUME Typed
  PROVE  \A u \in Users : cache[u].nonce \in Int
<1>1. cache \in [Users -> Entries]
  BY DEF Typed
<1>2. \A e \in Entries : e.nonce \in Int
  BY NonceInt DEF Entries
<1> QED
  BY <1>1, <1>2

LEMMA CacheIntNext ==
  ASSUME Typed'
  PROVE  \A u \in Users : cache'[u].nonce \in Int
<1>1. cache' \in [Users -> Entries]
  BY DEF Typed
<1>2. \A e \in Entries : e.nonce \in Int
  BY NonceInt DEF Entries
<1> QED
  BY <1>1, <1>2

LEMMA CallInt ==
  ASSUME Typed
  PROVE  \A c \in Calls : /\ call[c].nonce \in Int /\ call[c].floor.nonce \in Int
                         /\ call[c].low \in Nat
<1>1. call \in [Calls -> Records]
  BY DEF Typed
<1>2. \A e \in Entries : e.nonce \in Int
  BY NonceInt DEF Entries
<1>3. \A r \in Records : r.nonce \in Int /\ r.floor \in Entries /\ r.low \in Nat
  BY NonceInt DEF Records
<1> QED
  BY <1>1, <1>2, <1>3
-----------------------------------------------------------------------------
LEMMA PoolIs ==
  ASSUME NEW f
  PROVE  f \in Pools <=> IsPool(f)
<1>1. ASSUME f \in Pools PROVE IsPool(f)
  <2>1. PICK S \in SUBSET Nat : IsFiniteSet(S) /\ f \in [S -> Calls]
    BY <1>1 DEF Pools
  <2> QED
    BY <2>1 DEF IsPool
<1>2. ASSUME IsPool(f) PROVE f \in Pools
  <2>1. DOMAIN f \in {T \in SUBSET Nat : IsFiniteSet(T)}
    BY <1>2 DEF IsPool
  <2> QED
    BY <1>2, <2>1 DEF Pools, IsPool
<1> QED
  BY <1>1, <1>2

LEMMA WithIs ==
  ASSUME NEW f \in Pools, NEW n \in Nat, NEW c \in Calls
  PROVE  /\ With(f, n, c) \in Pools
         /\ DOMAIN With(f, n, c) = DOMAIN f \union {n}
         /\ With(f, n, c)[n] = c
         /\ \A m \in DOMAIN f : m # n => With(f, n, c)[m] = f[m]
<1>1. IsPool(f)
  BY PoolIs
<1>2. IsFiniteSet(DOMAIN f \union {n})
  BY <1>1, FS_AddElement DEF IsPool
<1> DEFINE g == With(f, n, c)
<1>3. g = [m \in DOMAIN f \union {n} |-> IF m = n THEN c ELSE f[m]]
  BY DEF With
<1> HIDE DEF g
<1>4. DOMAIN g = DOMAIN f \union {n} /\ g[n] = c /\ \A m \in DOMAIN f : m # n => g[m] = f[m]
  BY <1>3
<1>5. IsPool(g)
  BY <1>1, <1>2, <1>3, <1>4 DEF IsPool
<1> QED
  BY <1>4, <1>5, PoolIs DEF g

LEMMA WithoutIs ==
  ASSUME NEW f \in Pools, NEW n
  PROVE  /\ Restrict(f, DOMAIN f \ {n}) \in Pools
         /\ DOMAIN Restrict(f, DOMAIN f \ {n}) = DOMAIN f \ {n}
         /\ \A m \in DOMAIN f : m # n => Restrict(f, DOMAIN f \ {n})[m] = f[m]
<1>1. IsPool(f)
  BY PoolIs
<1>2. IsFiniteSet(DOMAIN f \ {n})
  BY <1>1, FS_RemoveElement DEF IsPool
<1> DEFINE g == Restrict(f, DOMAIN f \ {n})
<1>3. g = [m \in DOMAIN f \ {n} |-> f[m]]
  BY DEF Restrict
<1> HIDE DEF g
<1>4. DOMAIN g = DOMAIN f \ {n} /\ \A m \in DOMAIN f : m # n => g[m] = f[m]
  BY <1>3
<1>5. IsPool(g)
  BY <1>1, <1>2, <1>3, <1>4 DEF IsPool
<1> QED
  BY <1>4, <1>5, PoolIs DEF g

\* n is the first nonce at or above M that nothing in D has.
FirstFree(D, M, n) == n \notin D /\ \A m \in M .. n - 1 : m \in D

LEMMA FreeExists ==
  ASSUME NEW D \in SUBSET Nat, IsFiniteSet(D), NEW M \in Nat
  PROVE  \E n \in M .. M + Cardinality(D) : FirstFree(D, M, n)
<1> DEFINE card == Cardinality(D)
           All == M .. M + card
           Free == {n \in All : n \notin D}
           Bad == {M .. n - 1 : n \in Free}
<1>1. card \in Nat
  BY FS_CardinalityType
<1>2. IsFiniteSet(All) /\ Cardinality(All) = card + 1
  <2>1. M \in Int /\ M + card \in Int /\ ~(M > M + card) /\ (M + card) - M + 1 = card + 1
    BY <1>1
  <2> HIDE DEF card
  <2> QED
    BY <2>1, FS_Interval
<1>3. Free # {}
  <2>1. SUFFICES ASSUME Free = {} PROVE FALSE
    OBVIOUS
  <2>2. All \in SUBSET D
    BY <2>1
  <2>3. Cardinality(All) <= card
    BY <2>2, FS_Subset
  <2> HIDE DEF card, All
  <2> QED
    BY <1>1, <1>2, <2>3
<1>4. Bad \subseteq SUBSET All /\ Bad # {}
  <2>1. \A n \in Free : M .. n - 1 \subseteq All
    BY <1>1
  <2> QED
    BY <1>3, <2>1
<1>5. PICK T \in Bad : \A U \in SUBSET T : U # T => U \notin Bad
  <2> HIDE DEF All, Bad
  <2> QED
    BY <1>2, <1>4, SmallestSet
<1>6. PICK n \in Free : T = M .. n - 1
  BY <1>5
<1>7. ASSUME NEW m \in M .. n - 1 PROVE m \in D
  <2>1. SUFFICES ASSUME m \notin D PROVE FALSE
    OBVIOUS
  <2>2. m \in Free
    BY <1>1, <1>6, <2>1
  <2>3. M .. m - 1 \in Bad /\ M .. m - 1 \in SUBSET T /\ m \in T /\ m \notin M .. m - 1
    BY <1>1, <1>6, <2>2
  <2> HIDE DEF Bad
  <2> QED
    BY <1>5, <2>3
<1> QED
  BY <1>6, <1>7 DEF FirstFree

LEMMA PendingCountIs ==
  ASSUME Typed, NEW u \in Users
  PROVE  /\ PendingCount(u) \in Nat /\ PendingCount(u) >= Mined(u) /\ Mined(u) \in Nat
         /\ FirstFree(DOMAIN pool[u], Mined(u), PendingCount(u))
<1> DEFINE D == DOMAIN pool[u]
           M == Mined(u)
<1>1. D \in SUBSET Nat /\ IsFiniteSet(D)
  <2>1. pool[u] \in Pools
    BY DEF Typed
  <2> QED
    BY <2>1, PoolIs DEF IsPool
<1>2. M \in Nat /\ Cardinality(D) \in Nat
  BY <1>1, FS_CardinalityType DEF Typed, Mined
<1> DEFINE P(n) == n \notin D /\ \A m \in M .. n - 1 : m \in D
<1>3. PendingCount(u) = CHOOSE n \in M .. M + Cardinality(D) : P(n)
  BY DEF PendingCount
<1> HIDE DEF D, M
<1>4. \E n \in M .. M + Cardinality(D) : P(n)
  BY <1>1, <1>2, FreeExists DEF FirstFree
<1>5. PendingCount(u) \in M .. M + Cardinality(D) /\ P(PendingCount(u))
  BY <1>3, <1>4
<1> QED
  BY <1>2, <1>5 DEF FirstFree, D, M
-----------------------------------------------------------------------------
\* A call that waits for an answer, and the request it waits for.
JoinFits(c) ==
  LET r == call[c].joined IN
  /\ r # NoCall => /\ call[c].pc \in {"new", "entered", "refreshing"}
                   /\ call[c].pc = "entered" => c \notin Disowned
                   /\ UserOf[r] = UserOf[c] /\ call[r].joined = r
  /\ call[c].pc = "refreshing" => r = c /\ call[c].floor = NoEntry

ReadingFits(u) == reading[u] # NoCall => UserOf[reading[u]] = u /\ call[reading[u]].joined = reading[u]

JoinsFit == (\A c \in Calls : JoinFits(c)) /\ (\A u \in Users : ReadingFits(u))

\* The calls that have got the lane of their user, and have not left it.
InLane(c) == call[c].pc \in Inside \union {"started", "waiting", "woken"}

QueueFits(u) ==
  LET q == lane[u].queue IN
  /\ \A k \in 1 .. Len(q) : call[q[k]].pc = "queued" /\ UserOf[q[k]] = u
  /\ \A k, l \in 1 .. Len(q) : q[k] = q[l] => k = l

WaitingFits ==
  /\ \A k \in 1 .. Len(waiting) : call[waiting[k]].pc = "waiting"
  /\ \A k, l \in 1 .. Len(waiting) : waiting[k] = waiting[l] => k = l

OneInLane ==
  /\ \A c \in Calls : InLane(c) => lane[UserOf[c]].running
  /\ \A c, d \in Calls : InLane(c) /\ InLane(d) /\ UserOf[c] = UserOf[d] => c = d

Lanes == (\A u \in Users : QueueFits(u)) /\ WaitingFits /\ OneInLane /\ NoIdlePlace

Base == Typed /\ JoinsFit /\ Lanes
-----------------------------------------------------------------------------
\* A step of c alone.
Alone(c) == call' \in [Calls -> Records] /\ \A d \in Calls : d # c => call'[d] = call[d]

Waits(c) == /\ call'[c].joined = call[c].joined /\ call'[c].floor = call[c].floor
            /\ call'[c].low = call[c].low

LEMMA GotoIs ==
  ASSUME Typed, NEW c \in Calls, NEW p \in PCs, call' = Goto(c, p)
  PROVE  /\ Alone(c) /\ Waits(c) /\ call'[c].pc = p /\ call'[c].nonce = call[c].nonce
         /\ call'[c].prior = call[c].prior /\ call'[c].accepted = call[c].accepted
<1>1. call \in [Calls -> Records]
  BY DEF Typed
<1>2. call' = [call EXCEPT ![c] = [call[c] EXCEPT !.pc = p]]
  BY DEF Goto
<1>3. PICK r \in Records : r = call[c]
  BY <1>1
<1>4. PICK s : s = [r EXCEPT !.pc = p]
  OBVIOUS
<1>5. /\ s \in Records /\ s.pc = p /\ s.joined = r.joined /\ s.floor = r.floor /\ s.low = r.low
      /\ s.nonce = r.nonce /\ s.prior = r.prior /\ s.accepted = r.accepted
  BY <1>4 DEF Records
<1>6. call' = [call EXCEPT ![c] = s]
  BY <1>2, <1>3, <1>4
<1> QED
  BY <1>1, <1>3, <1>5, <1>6 DEF Alone, Waits

LEMMA RetryIs ==
  ASSUME Typed, NEW c \in Calls, call' = Retry(c)
  PROVE  /\ Alone(c) /\ Waits(c) /\ call'[c].pc = "sending" /\ call'[c].nonce = call[c].nonce
         /\ call'[c].prior = call[c].prior /\ call'[c].accepted = call[c].accepted
<1>1. PICK j : j = [call[c] EXCEPT !.pc = "sending", !.attempt = call[c].attempt + 1]
  OBVIOUS
<1>2. call[c] \in Records /\ call \in [Calls -> Records]
  BY DEF Typed
<1>3. j \in Records
  <2>1. "sending" \in PCs /\ call[c].attempt \in Nat /\ call[c].attempt + 1 \in Nat
    BY <1>2 DEF Records, PCs, Inside
  <2> QED
    BY <1>1, <1>2, <2>1 DEF Records
<1>4. call' = [call EXCEPT ![c] = j]
  BY <1>1 DEF Retry
<1>5. /\ j.pc = "sending" /\ j.nonce = call[c].nonce /\ j.prior = call[c].prior
      /\ j.accepted = call[c].accepted /\ j.joined = call[c].joined
      /\ j.floor = call[c].floor /\ j.low = call[c].low
  BY <1>1, <1>2 DEF Records
<1>6. Alone(c) /\ call'[c] = j
  BY <1>2, <1>3, <1>4 DEF Alone
<1> QED
  BY <1>5, <1>6 DEF Waits

LEMMA SettledIs ==
  ASSUME Typed, NEW c \in Calls, NEW ok \in BOOLEAN, call' = Settled(c, ok)
  PROVE  /\ Alone(c) /\ Waits(c) /\ call'[c].pc = "settled" /\ call'[c].nonce = call[c].nonce
         /\ call'[c].prior = call[c].prior /\ call'[c].accepted = ok
<1>1. PICK j : j = [call[c] EXCEPT !.pc = "settled", !.accepted = ok]
  OBVIOUS
<1>2. call[c] \in Records /\ call \in [Calls -> Records]
  BY DEF Typed
<1>3. j \in Records
  BY <1>1, <1>2 DEF Records, PCs, Inside
<1>4. call' = [call EXCEPT ![c] = j]
  BY <1>1 DEF Settled
<1>5. /\ j.pc = "settled" /\ j.nonce = call[c].nonce /\ j.prior = call[c].prior
      /\ j.accepted = ok /\ j.joined = call[c].joined
      /\ j.floor = call[c].floor /\ j.low = call[c].low
  BY <1>1, <1>2 DEF Records
<1>6. Alone(c) /\ call'[c] = j
  BY <1>2, <1>3, <1>4 DEF Alone
<1> QED
  BY <1>5, <1>6 DEF Waits

\* d does not move between the stages of the queue and of the limiter.
Stays(d) == \/ call'[d].pc = call[d].pc
            \/ call'[d].pc \in Inside /\ call[d].pc \in Inside
            \/ call'[d].pc \in {"new", "ready"} /\ call[d].pc \in {"new", "ready"}

LEMMA QuietLane ==
  ASSUME Lanes, UNCHANGED <<lane, inFlight, waiting>>, waiting \in Seq(Calls),
         lane \in [Users -> [running : BOOLEAN, queue : Seq(Calls)]],
         \A d \in Calls : Stays(d)
  PROVE  Lanes'
<1>1. ASSUME NEW d \in Calls
      PROVE /\ call[d].pc = "queued" => call'[d].pc = "queued"
            /\ call[d].pc = "waiting" => call'[d].pc = "waiting"
            /\ call[d].pc = "woken" <=> call'[d].pc = "woken"
            /\ InLane(d)' => InLane(d)
  <2>1. Stays(d)
    OBVIOUS
  <2> QED
    BY <2>1 DEF Stays, Inside, InLane
<1>2. {d \in Calls : call'[d].pc = "woken"} = {d \in Calls : call[d].pc = "woken"}
  BY <1>1
<1>3. NoIdlePlace'
  BY <1>2 DEF Lanes, NoIdlePlace
<1>4. WaitingFits'
  BY <1>1 DEF Lanes, WaitingFits
<1>5. OneInLane'
  BY <1>1 DEF Lanes, OneInLane
<1>6. ASSUME NEW u \in Users PROVE QueueFits(u)'
  BY <1>1 DEF Lanes, QueueFits
<1> QED
  BY <1>3, <1>4, <1>5, <1>6 DEF Lanes

\* A step of a call that waits for nothing: what is being read may be forgotten.
LEMMA QuietJoins ==
  ASSUME Typed, JoinsFit, NEW c \in Calls, Alone(c), Waits(c), call[c].joined = NoCall,
         call'[c].pc # "refreshing",
         \A u \in Users : reading'[u] \in {reading[u], NoCall}
  PROVE  JoinsFit'
<1>1. \A d \in Calls : call'[d].joined = call[d].joined
  BY DEF Alone, Waits
<1>2. \A d \in Calls : call[d].joined \in Calls \union {NoCall}
  BY DEF Typed, Records
<1>3. ASSUME NEW d \in Calls PROVE JoinFits(d)'
  <2>1. CASE d = c
    BY <1>1, <2>1 DEF JoinFits
  <2>2. CASE d # c
    <3>1. JoinFits(d) /\ call'[d] = call[d]
      BY <2>2 DEF JoinsFit, Alone
    <3> QED
      BY <1>1, <1>2, <3>1 DEF JoinFits
  <2> QED
    BY <2>1, <2>2
<1>4. ASSUME NEW u \in Users PROVE ReadingFits(u)'
  <2>1. ReadingFits(u) /\ reading[u] \in Calls \union {NoCall}
    BY DEF JoinsFit, Typed
  <2> QED
    BY <1>1, <2>1 DEF ReadingFits
<1> QED
  BY <1>3, <1>4 DEF JoinsFit

\* The rest of the state, as a step of the lane's holder may leave it.
RestTyped ==
  /\ UNCHANGED <<lane, inFlight, waiting>>
  /\ cache' \in [Users -> Entries]
  /\ reading' \in [Users -> Calls \union {NoCall}]
  /\ mined' \in [Users -> Seq(Calls)]
  /\ pool' \in [Users -> Pools]
  /\ faults' \in [transport : Nat, reads : Nat, drops : Nat]
  /\ lowered' \in BOOLEAN

LEMMA HolderSteps ==
  ASSUME Base, NEW c \in Calls, Alone(c), Waits(c), call[c].joined = NoCall,
         call[c].pc \in Inside, call'[c].pc \in Inside \ {"refreshing"}, RestTyped,
         \A u \in Users : reading'[u] \in {reading[u], NoCall}
  PROVE  Base'
<1>1. \A d \in Calls : Stays(d)
  BY DEF Alone, Stays
<1>2. Lanes'
  BY <1>1, QuietLane DEF Base, Typed, RestTyped
<1>3. JoinsFit'
  BY QuietJoins DEF Base
<1>4. Typed'
  BY DEF Base, Typed, RestTyped, Alone
<1> QED
  BY <1>2, <1>3, <1>4 DEF Base
-----------------------------------------------------------------------------
LEMMA MaxOfIs ==
  ASSUME NEW m \in Int, NEW n \in Int
  PROVE  MaxOf(m, n) \in {m, n} /\ MaxOf(m, n) >= m /\ MaxOf(m, n) >= n
BY DEF MaxOf

\* What a call that waits for nonce makes of it.
Takes(a, r, nonce) ==
  /\ a.prior = r.prior /\ a.accepted = r.accepted
  /\ r.pc = "new" => a.pc = "ready" /\ a.nonce = nonce
  /\ r.pc = "entered" => a.pc = "nonced" /\ a.nonce = MaxOf(r.nonce, nonce)
  /\ r.pc = "refreshing" => a.pc = "sending" /\ a.nonce = MaxOf(r.nonce + 1, nonce)

Waited(a, r) == a.joined = r.joined /\ a.floor = r.floor /\ a.low = r.low

LEMMA AnsweredIs ==
  ASSUME NEW r \in Records, NEW nonce \in Nonces, r.pc \in {"new", "entered", "refreshing"}
  PROVE  /\ Answered(r, nonce) \in Records
         /\ Takes(Answered(r, nonce), r, nonce) /\ Waited(Answered(r, nonce), r)
<1> DEFINE a == Answered(r, nonce)
           high == MaxOf(r.nonce, nonce)
           next == MaxOf(r.nonce + 1, nonce)
<1>1. /\ r.nonce \in Int /\ nonce \in Int /\ high \in Nonces /\ next \in Nonces
      /\ r.attempt + 1 \in Nat /\ "ready" \in PCs /\ "nonced" \in PCs /\ "sending" \in PCs
  BY DEF MaxOf, Records, Nonces, None, PCs, Inside
<1>2. CASE r.pc = "new"
  <2>1. a = [r EXCEPT !.pc = "ready", !.nonce = nonce]
    BY <1>2 DEF Answered
  <2> HIDE DEF a
  <2>2. a \in Records
    BY <1>1, <2>1 DEF Records
  <2> QED
    BY <1>2, <2>1, <2>2 DEF Takes, Waited, a, Records
<1>3. CASE r.pc = "entered"
  <2>1. a = [r EXCEPT !.nonce = high, !.pc = "nonced"]
    BY <1>3 DEF Answered
  <2> HIDE DEF a, high
  <2>2. a \in Records
    BY <1>1, <2>1 DEF Records
  <2>3. a.pc = "nonced" /\ a.nonce = high /\ a.prior = r.prior /\ a.accepted = r.accepted
    BY <2>1 DEF Records
  <2>4. Waited(a, r)
    BY <2>1 DEF Waited, Records
  <2> QED
    BY <1>3, <2>2, <2>3, <2>4 DEF Takes, a, high
<1>4. CASE r.pc = "refreshing"
  <2>1. a = [r EXCEPT !.nonce = next, !.attempt = r.attempt + 1, !.pc = "sending"]
    BY <1>4 DEF Answered
  <2> HIDE DEF a, next
  <2>2. a \in Records
    BY <1>1, <2>1 DEF Records
  <2>3. a.pc = "sending" /\ a.nonce = next /\ a.prior = r.prior /\ a.accepted = r.accepted
    BY <2>1 DEF Records
  <2>4. Waited(a, r)
    BY <2>1 DEF Waited, Records
  <2> QED
    BY <1>4, <2>2, <2>3, <2>4 DEF Takes, a, next
<1> QED
  BY <1>2, <1>3, <1>4

\* d has heard nonce, and waits for nothing.
Heard(d, nonce) ==
  /\ Takes(call'[d], call[d], nonce)
  /\ call'[d].joined = NoCall /\ call'[d].floor = NoEntry /\ call'[d].low = 0

LEMMA DeliverIs ==
  ASSUME Typed, JoinsFit, NEW c \in Calls, NEW nonce \in Nonces, Deliver(c, nonce)
  PROVE  /\ call' \in [Calls -> Records]
         /\ \A d \in Calls : call[d].joined # c => call'[d] = call[d]
         /\ \A d \in Calls : call[d].joined = c => Heard(d, nonce)
<1>1. call \in [Calls -> Records]
  BY DEF Typed
<1>2. ASSUME NEW d \in Calls, call[d].joined # c PROVE call'[d] = call[d]
  BY <1>2 DEF Deliver
<1>3. ASSUME NEW d \in Calls, call[d].joined = c PROVE call'[d] \in Records /\ Heard(d, nonce)
  <2>1. PICK a : a = Answered(call[d], nonce)
    OBVIOUS
  <2>2. call[d].pc \in {"new", "entered", "refreshing"}
    BY <1>3, SendLaneAssumption DEF JoinsFit, JoinFits, SendLaneAssumption
  <2>3. a \in Records /\ Takes(a, call[d], nonce)
    BY <1>1, <2>1, <2>2, AnsweredIs
  <2>4. PICK j : j = [a EXCEPT !.joined = NoCall, !.floor = NoEntry, !.low = 0]
    OBVIOUS
  <2>5. NoEntry \in Entries /\ NoEntry = [nonce |-> None, age |-> "old"]
    BY DEF NoEntry, Entries, Nonces, Ages
  <2>6. j \in Records
    BY <2>3, <2>4, <2>5 DEF Records
  <2>7. /\ j.joined = NoCall /\ j.floor = NoEntry /\ j.low = 0
        /\ j.pc = a.pc /\ j.nonce = a.nonce /\ j.prior = a.prior /\ j.accepted = a.accepted
    BY <2>3, <2>4 DEF Records
  <2>8. call'[d] = j
    BY <1>3, <2>1, <2>4 DEF Deliver
  <2>9. Takes(j, call[d], nonce)
    BY <2>3, <2>7 DEF Takes
  <2> QED
    BY <2>6, <2>7, <2>8, <2>9 DEF Heard
<1>4. call' = [d \in Calls |-> call'[d]]
  BY DEF Deliver
<1>5. \A d \in Calls : call'[d] \in Records
  BY <1>1, <1>2, <1>3
<1> QED
  BY <1>2, <1>3, <1>4, <1>5

LEMMA DeliverSteps ==
  ASSUME Base, NEW c \in Calls, NEW nonce \in Nonces, Deliver(c, nonce),
         reading' = [reading EXCEPT ![UserOf[c]] = NoCall], RestTyped
  PROVE  Base'
<1>1. /\ call' \in [Calls -> Records]
      /\ \A d \in Calls : call[d].joined # c => call'[d] = call[d]
      /\ \A d \in Calls : call[d].joined = c => Heard(d, nonce)
  BY DeliverIs DEF Base
<1>2. Typed'
  BY <1>1 DEF Base, Typed, RestTyped
<1>3. ASSUME NEW d \in Calls PROVE Stays(d)
  <2>1. CASE call[d].joined = c
    <3>1. call[d].pc \in {"new", "entered", "refreshing"}
      BY <2>1, SendLaneAssumption DEF Base, JoinsFit, JoinFits, SendLaneAssumption
    <3>2. Takes(call'[d], call[d], nonce)
      BY <1>1, <2>1 DEF Heard
    <3> QED
      BY <3>1, <3>2 DEF Takes, Stays, Inside
  <2>2. CASE call[d].joined # c
    BY <1>1, <2>2 DEF Stays
  <2> QED
    BY <2>1, <2>2
<1>4. Lanes'
  BY <1>3, QuietLane DEF Base, Typed, RestTyped
<1>5. ASSUME NEW d \in Calls PROVE JoinFits(d)'
  <2>0. JoinFits(d)
    BY DEF Base, JoinsFit
  <2>1. CASE call[d].joined = c
    <3>1. call[d].pc \in {"new", "entered", "refreshing"}
      BY <2>0, <2>1, SendLaneAssumption DEF JoinFits, SendLaneAssumption
    <3>2. Takes(call'[d], call[d], nonce) /\ call'[d].joined = NoCall
      BY <1>1, <2>1 DEF Heard
    <3> QED
      BY <3>1, <3>2 DEF Takes, JoinFits
  <2>2. CASE call[d].joined # c
    <3>1. PICK r : r = call[d].joined
      OBVIOUS
    <3>2. r \in Calls \union {NoCall}
      BY <3>1 DEF Base, Typed, Records
    <3>3. r # NoCall => call[r].joined = r /\ call'[r] = call[r]
      BY <1>1, <2>0, <2>2, <3>1, <3>2 DEF JoinFits
    <3>4. call'[d] = call[d]
      BY <1>1, <2>2
    <3> QED
      BY <2>0, <3>1, <3>3, <3>4 DEF JoinFits
  <2> QED
    BY <2>1, <2>2
<1>6. ASSUME NEW u \in Users PROVE ReadingFits(u)'
  <2>0. ReadingFits(u) /\ reading[u] \in Calls \union {NoCall}
    BY DEF Base, JoinsFit, Typed
  <2>1. CASE u = UserOf[c]
    BY <2>1 DEF Base, Typed, ReadingFits
  <2>2. CASE u # UserOf[c]
    <3>1. reading'[u] = reading[u]
      BY <2>2 DEF Base, Typed
    <3>2. reading[u] # NoCall => call'[reading[u]] = call[reading[u]]
      BY <1>1, <2>0, <2>2 DEF ReadingFits
    <3> QED
      BY <2>0, <3>1, <3>2 DEF ReadingFits
  <2> QED
    BY <2>1, <2>2
<1> QED
  BY <1>2, <1>4, <1>5, <1>6 DEF Base, JoinsFit
-----------------------------------------------------------------------------
LEMMA AskedIs ==
  ASSUME Typed, NEW c \in Calls, NEW entry \in Entries, NEW r, r = Asked(c, entry)
  PROVE  /\ r \in Records /\ r.joined = c /\ r.floor = entry /\ r.low = Mined(UserOf[c])
         /\ r.pc = call[c].pc /\ r.nonce = call[c].nonce /\ r.prior = call[c].prior
         /\ r.accepted = call[c].accepted
<1>1. PICK low : low = Mined(UserOf[c])
  OBVIOUS
<1>2. low \in Nat
  BY <1>1, SendLaneAssumption DEF Mined, Typed, SendLaneAssumption
<1>3. r = [call[c] EXCEPT !.joined = c, !.floor = entry, !.low = low]
  BY <1>1 DEF Asked
<1>4. call[c] \in Records
  BY DEF Typed
<1> QED
  BY <1>1, <1>2, <1>3, <1>4 DEF Records

\* c, which waited for nothing, joins the request of r, perhaps its own.
LEMMA JoinSteps ==
  ASSUME Typed, JoinsFit, NEW c \in Calls, NEW r \in Calls, Alone(c), call[c].joined = NoCall,
         call'[c].joined = r, UserOf[r] = UserOf[c], r # c => call[r].joined = r,
         call'[c].pc \in {"new", "entered", "refreshing"},
         call'[c].pc = "entered" => c \notin Disowned,
         call'[c].pc = "refreshing" => r = c /\ call'[c].floor = NoEntry,
         \A u \in Users : reading'[u] = reading[u] \/ (r = c /\ u = UserOf[c] /\ reading'[u] = c)
  PROVE  JoinsFit'
<1>0. NoCall \notin Calls /\ \A d \in Calls : call[d].joined \in Calls \union {NoCall}
  BY SendLaneAssumption DEF SendLaneAssumption, Typed, Records
<1>1. ASSUME NEW d \in Calls PROVE JoinFits(d)'
  <2>1. CASE d = c
    <3>1. call'[r].joined = r
      BY DEF Alone
    <3> QED
      BY <2>1, <3>1 DEF JoinFits
  <2>2. CASE d # c
    <3>1. call'[d] = call[d] /\ JoinFits(d)
      BY <2>2 DEF JoinsFit, Alone
    <3>2. PICK e : e = call[d].joined
      OBVIOUS
    <3>3. e # NoCall => e # c /\ e \in Calls /\ call'[e] = call[e]
      BY <1>0, <3>1, <3>2 DEF JoinFits, Alone
    <3> QED
      BY <3>1, <3>2, <3>3 DEF JoinFits
  <2> QED
    BY <2>1, <2>2
<1>2. ASSUME NEW u \in Users PROVE ReadingFits(u)'
  <2>1. ReadingFits(u) /\ reading[u] \in Calls \union {NoCall}
    BY DEF JoinsFit, Typed
  <2>2. CASE r = c /\ u = UserOf[c] /\ reading'[u] = c
    BY <2>2 DEF ReadingFits
  <2>3. CASE reading'[u] = reading[u]
    <3>1. reading[u] # NoCall => reading[u] # c /\ call'[reading[u]] = call[reading[u]]
      BY <1>0, <2>1 DEF ReadingFits, Alone
    <3> QED
      BY <2>1, <2>3, <3>1 DEF ReadingFits
  <2> QED
    BY <2>2, <2>3
<1> QED
  BY <1>1, <1>2 DEF JoinsFit

\* How c asks for a nonce: it has a fresh one, joins a read, or starts one.
HasFresh(c) == LET u == UserOf[c] IN
  /\ cache[u].nonce # None /\ Takes(call'[c], call[c], cache[u].nonce) /\ Waits(c)
  /\ UNCHANGED reading

Joins(c) == LET u == UserOf[c] IN
  /\ reading[u] \in Calls /\ call'[c].joined = reading[u] /\ call'[c].floor = call[c].floor
  /\ call'[c].low = call[c].low /\ UNCHANGED reading

Starts(c) == LET u == UserOf[c] IN
  /\ call'[c].joined = c /\ call'[c].floor = cache[u] /\ call'[c].low = Mined(u)
  /\ reading' = [reading EXCEPT ![u] = c]

SameBut(c) == /\ call'[c].pc = call[c].pc /\ call'[c].nonce = call[c].nonce
              /\ call'[c].prior = call[c].prior /\ call'[c].accepted = call[c].accepted

LEMMA GetPendingNonceIs ==
  ASSUME Base, NEW c \in Calls, GetPendingNonce(c), call[c].pc \in {"new", "entered"}
  PROVE  /\ Alone(c) /\ call[c].joined = NoCall
         /\ UNCHANGED <<lane, inFlight, waiting, cache, mined, pool, faults, lowered>>
         /\ HasFresh(c) \/ (SameBut(c) /\ Joins(c)) \/ (SameBut(c) /\ Starts(c))
<1> DEFINE u == UserOf[c]
<1>1. /\ call \in [Calls -> Records] /\ call[c] \in Records /\ u \in Users
      /\ cache[u] \in Entries /\ cache[u].nonce \in Nonces /\ call[c].joined = NoCall
      /\ reading \in [Users -> Calls \union {NoCall}]
      /\ UNCHANGED <<lane, inFlight, waiting, cache, mined, pool, faults, lowered>>
  BY SendLaneAssumption DEF Base, Typed, GetPendingNonce, SendLaneAssumption, Entries
<1>2. CASE /\ cache[u].age = "fresh" /\ cache[u].nonce # None
           /\ call' = [call EXCEPT ![c] = Answered(@, cache[u].nonce)]
           /\ UNCHANGED reading
  <2>1. PICK a : a = Answered(call[c], cache[u].nonce)
    OBVIOUS
  <2>2. a \in Records /\ Takes(a, call[c], cache[u].nonce) /\ Waited(a, call[c])
    BY <1>1, <2>1, AnsweredIs
  <2>3. call' = [call EXCEPT ![c] = a]
    BY <1>2, <2>1
  <2>4. Alone(c) /\ call'[c] = a
    BY <1>1, <2>2, <2>3 DEF Alone
  <2>5. HasFresh(c)
    BY <1>2, <2>2, <2>4 DEF Waits, Waited, HasFresh
  <2> QED
    BY <1>1, <2>4, <2>5
<1>3. CASE /\ cache[u].age # "fresh" /\ reading[u] # NoCall
           /\ call' = [call EXCEPT ![c].joined = reading[u]]
           /\ UNCHANGED reading
  <2>1. PICK r \in Calls : r = reading[u]
    BY <1>1, <1>3
  <2>2. PICK a : a = [call[c] EXCEPT !.joined = r]
    OBVIOUS
  <2>3. /\ a \in Records /\ a.joined = r /\ a.pc = call[c].pc /\ a.nonce = call[c].nonce
        /\ a.prior = call[c].prior /\ a.accepted = call[c].accepted
        /\ a.floor = call[c].floor /\ a.low = call[c].low
    BY <1>1, <2>2 DEF Records
  <2>4. call' = [call EXCEPT ![c] = a]
    BY <1>3, <2>1, <2>2
  <2>5. Alone(c) /\ call'[c] = a
    BY <1>1, <2>3, <2>4 DEF Alone
  <2>6. SameBut(c) /\ Joins(c)
    BY <1>3, <2>1, <2>3, <2>5 DEF SameBut, Joins
  <2> QED
    BY <1>1, <2>5, <2>6
<1>4. CASE /\ cache[u].age # "fresh" /\ reading[u] = NoCall
           /\ call' = [call EXCEPT ![c] = Asked(c, cache[u])]
           /\ reading' = [reading EXCEPT ![u] = c]
  <2>1. PICK a : a = Asked(c, cache[u])
    OBVIOUS
  <2>2. /\ a \in Records /\ a.joined = c /\ a.pc = call[c].pc /\ a.nonce = call[c].nonce
        /\ a.prior = call[c].prior /\ a.accepted = call[c].accepted
        /\ a.floor = cache[u] /\ a.low = Mined(u)
    BY <1>1, <2>1, AskedIs DEF Base
  <2>3. call' = [call EXCEPT ![c] = a]
    BY <1>4, <2>1
  <2>4. Alone(c) /\ call'[c] = a
    BY <1>1, <2>2, <2>3 DEF Alone
  <2>5. SameBut(c) /\ Starts(c)
    BY <1>4, <2>2, <2>4 DEF SameBut, Starts
  <2> QED
    BY <1>1, <2>4, <2>5
<1> QED
  BY <1>2, <1>3, <1>4 DEF GetPendingNonce

LEMMA GetPendingNonceSteps ==
  ASSUME Base, NEW c \in Calls, GetPendingNonce(c), call[c].pc \in {"new", "entered"},
         call[c].pc = "entered" => c \notin Disowned
  PROVE  Base'
<1> DEFINE u == UserOf[c]
<1>1. /\ Alone(c) /\ call[c].joined = NoCall
      /\ UNCHANGED <<lane, inFlight, waiting, cache, mined, pool, faults, lowered>>
      /\ HasFresh(c) \/ (SameBut(c) /\ Joins(c)) \/ (SameBut(c) /\ Starts(c))
      /\ u \in Users /\ reading \in [Users -> Calls \union {NoCall}] /\ NoCall \notin Calls
  BY GetPendingNonceIs, SendLaneAssumption DEF SendLaneAssumption, Base, Typed
<1>2. Lanes'
  <2>1. \A d \in Calls : Stays(d)
    BY <1>1 DEF Alone, Stays, HasFresh, SameBut, Takes, Inside
  <2> QED
    BY <1>1, <2>1, QuietLane DEF Base, Typed
<1>3. Typed'
  <2>1. reading' \in [Users -> Calls \union {NoCall}]
    BY <1>1 DEF HasFresh, Joins, Starts
  <2> QED
    BY <1>1, <2>1 DEF Base, Typed, Alone
<1>4. CASE HasFresh(c)
  <2>1. Waits(c) /\ call'[c].pc # "refreshing"
    BY <1>4 DEF HasFresh, Takes
  <2>2. UNCHANGED reading
    BY <1>4 DEF HasFresh
  <2>3. JoinsFit'
    BY <1>1, <2>1, <2>2, QuietJoins DEF Base
  <2> QED
    BY <1>2, <1>3, <2>3 DEF Base
<1>5. CASE SameBut(c) /\ Joins(c)
  <2>1. PICK r \in Calls : r = reading[u]
    BY <1>5 DEF Joins
  <2>2. UserOf[r] = u /\ call[r].joined = r
    BY <1>1, <2>1 DEF Base, JoinsFit, ReadingFits
  <2>3. call'[c].joined = r /\ call'[c].pc = call[c].pc /\ UNCHANGED reading
    BY <1>5, <2>1 DEF Joins, SameBut
  <2>4. JoinsFit'
    BY <1>1, <2>2, <2>3, JoinSteps DEF Base
  <2> QED
    BY <1>2, <1>3, <2>4 DEF Base
<1>6. CASE SameBut(c) /\ Starts(c)
  <2>1. call'[c].joined = c /\ call'[c].pc = call[c].pc
    BY <1>6 DEF Starts, SameBut
  <2>2. \A v \in Users : reading'[v] = reading[v] \/ (v = u /\ reading'[v] = c)
    BY <1>1, <1>6 DEF Starts
  <2>3. JoinsFit'
    BY <1>1, <2>1, <2>2, JoinSteps DEF Base
  <2> QED
    BY <1>2, <1>3, <2>3 DEF Base
<1> QED
  BY <1>1, <1>4, <1>5, <1>6

LEMMA FaultIs ==
  ASSUME Typed,
         \/ faults' = [faults EXCEPT !.reads = @ + 1]
         \/ faults' = [faults EXCEPT !.transport = @ + 1]
         \/ faults' = [faults EXCEPT !.drops = @ + 1]
  PROVE  faults' \in [transport : Nat, reads : Nat, drops : Nat]
<1>1. faults \in [transport : Nat, reads : Nat, drops : Nat]
  BY DEF Typed
<1>2. faults.reads + 1 \in Nat /\ faults.transport + 1 \in Nat /\ faults.drops + 1 \in Nat
  BY <1>1
<1> QED
  BY <1>1, <1>2

LEMMA ReadSteps ==
  ASSUME Base, NEW c \in Calls,
         ReadFails(c) \/ \E n \in call[c].low .. PendingCount(UserOf[c]) : ReadAnswers(c, n)
  PROVE  Base'
<1> DEFINE u == UserOf[c]
           floor == call[c].floor
<1>1. /\ u \in Users /\ floor \in Entries /\ floor.nonce \in Nonces /\ call[c].low \in Nat
      /\ reading' = [reading EXCEPT ![u] = NoCall]
  BY SendLaneAssumption DEF Base, Typed, Records, Entries, SendLaneAssumption, ReadAnswers,
                            ReadFails
<1>2. reading' \in [Users -> Calls \union {NoCall}]
  BY <1>1 DEF Base, Typed
<1>3. CASE ReadFails(c)
  <2>1. PICK nonce \in Nonces : nonce = (IF floor.age = "old" THEN None ELSE floor.nonce)
    BY <1>1 DEF Nonces
  <2>2. faults' \in [transport : Nat, reads : Nat, drops : Nat]
    BY <1>3, FaultIs DEF Base, ReadFails
  <2>3. RestTyped
    BY <1>2, <1>3, <2>2 DEF RestTyped, ReadFails, Base, Typed
  <2>4. Deliver(c, nonce)
    BY <1>3, <2>1 DEF ReadFails
  <2> QED
    BY <1>1, <2>3, <2>4, DeliverSteps
<1>4. CASE \E n \in call[c].low .. PendingCount(u) : ReadAnswers(c, n)
  <2>1. PICK n \in call[c].low .. PendingCount(u) : ReadAnswers(c, n)
    BY <1>4
  <2>2. PendingCount(u) \in Nat
    BY <1>1, PendingCountIs DEF Base
  <2>3. n \in Nat
    BY <1>1, <2>2
  <2>4. PICK nonce : nonce = ResolvePendingNonce(floor.nonce, n)
    OBVIOUS
  <2>5. nonce \in Nonces
    BY <1>1, <2>3, <2>4 DEF ResolvePendingNonce, MaxOf, Nonces
  <2>6. PICK e : e = [nonce |-> nonce, age |-> "fresh"]
    OBVIOUS
  <2>7. e \in Entries
    BY <2>5, <2>6 DEF Entries, Ages
  <2>8. cache' = [cache EXCEPT ![u] = e] /\ Deliver(c, nonce)
    BY <2>1, <2>4, <2>6 DEF ReadAnswers
  <2>9. cache' \in [Users -> Entries]
    BY <2>7, <2>8 DEF Base, Typed
  <2>11. lowered' \in BOOLEAN
    BY <2>1 DEF ReadAnswers
  <2>10. RestTyped
    BY <1>2, <2>1, <2>9, <2>11 DEF RestTyped, ReadAnswers, Base, Typed
  <2> QED
    BY <1>1, <2>5, <2>8, <2>10, DeliverSteps
<1> QED
  BY <1>3, <1>4
-----------------------------------------------------------------------------
LEMMA SentNonceIs ==
  ASSUME Typed, NEW c \in Calls
  PROVE  SentNonce(c) \in Nat /\ (call[c].nonce # None => SentNonce(c) = call[c].nonce)
<1>1. call[c].nonce \in Nonces /\ UserOf[c] \in Users
  BY SendLaneAssumption DEF Typed, Records, SendLaneAssumption
<1>2. PendingCount(UserOf[c]) \in Nat
  BY <1>1, PendingCountIs
<1> QED
  BY <1>1, <1>2 DEF SentNonce, Nonces

LEMMA PlaceIs ==
  ASSUME Typed, NEW c \in Calls, Place(c)
  PROVE  /\ pool' \in [Users -> Pools]
         /\ \A v \in Users : v # UserOf[c] => pool'[v] = pool[v]
         /\ DOMAIN pool'[UserOf[c]] = DOMAIN pool[UserOf[c]] \union {SentNonce(c)}
         /\ pool'[UserOf[c]][SentNonce(c)] = c
         /\ \A m \in DOMAIN pool[UserOf[c]] :
              m # SentNonce(c) => pool'[UserOf[c]][m] = pool[UserOf[c]][m]
<1>1. PICK n : n = SentNonce(c)
  OBVIOUS
<1>2. PICK u : u = UserOf[c]
  OBVIOUS
<1>3. n \in Nat /\ u \in Users /\ pool[u] \in Pools /\ pool \in [Users -> Pools]
  BY <1>1, <1>2, SentNonceIs, SendLaneAssumption DEF Typed, SendLaneAssumption
<1>4. PICK g : g = With(pool[u], n, c)
  OBVIOUS
<1>5. /\ g \in Pools /\ DOMAIN g = DOMAIN pool[u] \union {n} /\ g[n] = c
      /\ \A m \in DOMAIN pool[u] : m # n => g[m] = pool[u][m]
  <2>1. PICK f \in Pools : f = pool[u]
    BY <1>3
  <2>2. g = With(f, n, c) /\ n \in Nat
    BY <1>3, <1>4, <2>1
  <2>3. /\ With(f, n, c) \in Pools /\ DOMAIN With(f, n, c) = DOMAIN f \union {n}
        /\ With(f, n, c)[n] = c
        /\ \A m \in DOMAIN f : m # n => With(f, n, c)[m] = f[m]
    BY <2>2, WithIs
  <2> QED
    BY <2>1, <2>2, <2>3
<1>6. pool' = [pool EXCEPT ![u] = g]
  BY <1>1, <1>2, <1>4 DEF Place
<1> QED
  BY <1>1, <1>2, <1>3, <1>5, <1>6

LEMMA SeedIs ==
  ASSUME Typed, NEW c \in Calls, Seed(c)
  PROVE  /\ cache' \in [Users -> Entries]
         /\ reading' \in [Users -> Calls \union {NoCall}]
         /\ \A v \in Users : reading'[v] \in {reading[v], NoCall}
         /\ \A v \in Users : v # UserOf[c] => cache'[v] = cache[v]
         /\ call[c].nonce = None => cache' = cache
         /\ call[c].nonce # None =>
              /\ cache'[UserOf[c]].nonce = call[c].nonce + 1
              /\ reading'[UserOf[c]] = NoCall
<1>1. /\ cache \in [Users -> Entries] /\ reading \in [Users -> Calls \union {NoCall}]
      /\ UserOf[c] \in Users /\ call[c].nonce \in Nonces
  BY SendLaneAssumption DEF Typed, Records, SendLaneAssumption
<1>2. CASE call[c].nonce = None
  BY <1>1, <1>2 DEF Seed
<1>3. CASE call[c].nonce # None
  <2>1. PICK e : e = [nonce |-> call[c].nonce + 1, age |-> "fresh"]
    OBVIOUS
  <2>2. e \in Entries /\ e.nonce = call[c].nonce + 1
    BY <1>1, <1>3, <2>1 DEF Entries, Ages, Nonces
  <2>3. cache' = [cache EXCEPT ![UserOf[c]] = e] /\ reading' = [reading EXCEPT ![UserOf[c]] = NoCall]
    BY <1>3, <2>1 DEF Seed
  <2> QED
    BY <1>1, <1>3, <2>2, <2>3
<1> QED
  BY <1>2, <1>3

\* c goes on inside the lane.
Proceeds(c) == \/ \E p \in Inside \ {"refreshing"} : call' = Goto(c, p)
               \/ call' = Retry(c)
               \/ \E ok \in BOOLEAN : call' = Settled(c, ok)

LEMMA ProceedSteps ==
  ASSUME Base, NEW c \in Calls, Proceeds(c), call[c].joined = NoCall, call[c].pc \in Inside,
         RestTyped, \A u \in Users : reading'[u] \in {reading[u], NoCall}
  PROVE  Base'
<1>1. Typed
  BY DEF Base
<1>2. Alone(c) /\ Waits(c) /\ call'[c].pc \in Inside \ {"refreshing"}
  <2>1. ASSUME NEW p \in Inside \ {"refreshing"}, call' = Goto(c, p)
        PROVE  Alone(c) /\ Waits(c) /\ call'[c].pc \in Inside \ {"refreshing"}
    <3>1. p \in PCs
      BY DEF PCs
    <3> QED
      BY <1>1, <2>1, <3>1, GotoIs
  <2>2. ASSUME call' = Retry(c)
        PROVE  Alone(c) /\ Waits(c) /\ call'[c].pc \in Inside \ {"refreshing"}
    BY <1>1, <2>2, RetryIs DEF Inside
  <2>3. ASSUME NEW ok \in BOOLEAN, call' = Settled(c, ok)
        PROVE  Alone(c) /\ Waits(c) /\ call'[c].pc \in Inside \ {"refreshing"}
    BY <1>1, <2>3, SettledIs DEF Inside
  <2> QED
    BY <2>1, <2>2, <2>3 DEF Proceeds
<1> QED
  BY <1>2, HolderSteps

LEMMA JoinedNot ==
  ASSUME Base, NEW c \in Calls,
         call[c].pc \notin {"new", "entered", "refreshing"} \/ (call[c].pc = "entered" /\ c \in Disowned)
  PROVE  call[c].joined = NoCall
BY DEF Base, JoinsFit, JoinFits

\* The steps of the lane's holder that leave nothing but its own state.
SoleSteps(c) ==
  \/ Suppress(c) \/ Watch(c) \/ SendRefused(c) \/ AdoptPrior(c) \/ GiveUpNonce(c) \/ Outbid(c)
  \/ FallbackFails(c)

LEMMA SoleStepsAre ==
  ASSUME NEW c \in Calls, SoleSteps(c)
  PROVE  /\ Proceeds(c) /\ UNCHANGED <<lane, inFlight, waiting, cache, reading, mined, pool, faults, lowered>>
         /\ call[c].pc \in Inside
         /\ call[c].pc \notin {"new", "entered", "refreshing"} \/ (call[c].pc = "entered" /\ c \in Disowned)
<1>1. CASE Suppress(c)
  BY <1>1 DEF Suppress, Proceeds, Inside
<1>2. CASE Watch(c)
  BY <1>2 DEF Watch, Proceeds, Inside
<1>3. CASE SendRefused(c)
  BY <1>3 DEF SendRefused, Proceeds, Inside
<1>4. CASE AdoptPrior(c)
  BY <1>4 DEF AdoptPrior, NonceError, Proceeds, Inside
<1>5. CASE GiveUpNonce(c)
  BY <1>5 DEF GiveUpNonce, NonceError, Proceeds, Inside
<1>6. CASE Outbid(c)
  BY <1>6 DEF Outbid, NonceError, Proceeds, Inside
<1>7. CASE FallbackFails(c)
  BY <1>7 DEF FallbackFails, Proceeds, Inside
<1> QED
  BY <1>1, <1>2, <1>3, <1>4, <1>5, <1>6, <1>7 DEF SoleSteps

LEMMA SoleStepsKeepBase ==
  ASSUME Base, NEW c \in Calls, SoleSteps(c)
  PROVE  Base'
<1>1. RestTyped
  BY SoleStepsAre DEF Base, Typed, RestTyped
<1>2. call[c].joined = NoCall
  BY SoleStepsAre, JoinedNot
<1> QED
  BY <1>1, <1>2, SoleStepsAre, ProceedSteps

LEMMA ResolveNonceSteps ==
  ASSUME Base, NEW c \in Calls, ResolveNonce(c)
  PROVE  /\ Base' /\ Alone(c) /\ call'[c].pc = "sending" /\ call'[c].prior = call[c].prior
         /\ call'[c].accepted = call[c].accepted /\ call'[c].floor = call[c].floor
         /\ \/ call'[c].nonce = call[c].nonce
            \/ /\ Deterministic(c) /\ call[c].nonce = None
               /\ call'[c].nonce \in Mined(UserOf[c]) .. PendingCount(UserOf[c]) \union {None}
<1>1. RestTyped /\ UNCHANGED reading /\ call[c].pc = "nonced"
  BY DEF ResolveNonce, Base, Typed, RestTyped
<1>2. call[c].joined = NoCall
  BY <1>1, JoinedNot
<1>3. CASE ~(Deterministic(c) /\ call[c].nonce = None)
  <2>1. call' = Goto(c, "sending") /\ "sending" \in PCs
    BY <1>3 DEF ResolveNonce, PCs, Inside
  <2>2. Proceeds(c)
    BY <2>1 DEF Proceeds, Inside
  <2>3. Base'
    BY <1>1, <1>2, <2>2, ProceedSteps DEF Inside
  <2> QED
    BY <2>1, <2>3, GotoIs DEF Base, Waits
<1>4. CASE Deterministic(c) /\ call[c].nonce = None
  <2>1. PICK n \in Mined(UserOf[c]) .. PendingCount(UserOf[c]) \union {None} :
          call' = [call EXCEPT ![c].nonce = n, ![c].pc = "sending"]
    BY <1>4 DEF ResolveNonce
  <2>2. UserOf[c] \in Users
    BY SendLaneAssumption DEF SendLaneAssumption
  <2>3. PendingCount(UserOf[c]) \in Nat /\ Mined(UserOf[c]) \in Nat
    BY <2>2, PendingCountIs DEF Base
  <2>4. n \in Nonces
    BY <2>1, <2>3 DEF Nonces
  <2>5. PICK j : j = [call[c] EXCEPT !.nonce = n, !.pc = "sending"]
    OBVIOUS
  <2>6. call[c] \in Records /\ call \in [Calls -> Records] /\ "sending" \in PCs
    BY DEF Base, Typed, PCs, Inside
  <2>7. j \in Records
    BY <2>4, <2>5, <2>6 DEF Records
  <2>8. /\ j.pc = "sending" /\ j.nonce = n /\ j.prior = call[c].prior
        /\ j.accepted = call[c].accepted /\ j.joined = call[c].joined
        /\ j.floor = call[c].floor /\ j.low = call[c].low
    BY <2>5, <2>6 DEF Records
  <2>9. call' = [call EXCEPT ![c] = j]
    BY <2>1, <2>5
  <2>10. Alone(c) /\ call'[c] = j
    BY <2>6, <2>7, <2>9 DEF Alone
  <2>11. Waits(c) /\ call'[c].pc \in Inside \ {"refreshing"} /\ call[c].pc \in Inside
    BY <1>1, <2>8, <2>10 DEF Waits, Inside
  <2>12. Base'
    BY <1>1, <1>2, <2>10, <2>11, HolderSteps
  <2> QED
    BY <1>4, <2>1, <2>8, <2>10, <2>12
<1> QED
  BY <1>3, <1>4
-----------------------------------------------------------------------------
\* What a step of the lane's holder c leaves of its state, but for pc.
Keeps(c) == /\ Alone(c) /\ call'[c].nonce = call[c].nonce
            /\ call'[c].prior = call[c].prior
            /\ call'[c].floor \in {call[c].floor, NoEntry}

LEMMA SendAcceptedSteps ==
  ASSUME Base, NEW c \in Calls, SendAccepted(c)
  PROVE  /\ Base' /\ Alone(c) /\ call'[c].nonce = call[c].nonce
         /\ call'[c].floor = call[c].floor
         /\ \/ Immediate(c) /\ call'[c].pc = "settled"
            \/ /\ ~Immediate(c) /\ call'[c].pc = "watching" /\ call'[c].prior
               /\ call'[c].accepted = call[c].accepted
<1>1. /\ Typed /\ Place(c) /\ Seed(c) /\ call[c].pc = "sending"
      /\ UNCHANGED <<lane, inFlight, waiting, mined, faults, lowered>>
  BY DEF SendAccepted, Base
<1>2. RestTyped /\ \A u \in Users : reading'[u] \in {reading[u], NoCall}
  BY <1>1, PlaceIs, SeedIs DEF Typed, RestTyped
<1>3. call[c].joined = NoCall /\ call[c].pc \in Inside
  BY <1>1, JoinedNot DEF Inside
<1>4. CASE Immediate(c)
  <2>1. call' = Settled(c, TRUE)
    BY <1>4 DEF SendAccepted
  <2>2. Proceeds(c)
    BY <2>1 DEF Proceeds
  <2>3. Base'
    BY <1>2, <1>3, <2>2, ProceedSteps
  <2> QED
    BY <1>1, <1>4, <2>1, <2>3, SettledIs DEF Waits
<1>5. CASE ~Immediate(c)
  <2>1. PICK j : j = [call[c] EXCEPT !.pc = "watching", !.prior = TRUE]
    OBVIOUS
  <2>2. call[c] \in Records /\ call \in [Calls -> Records] /\ "watching" \in PCs
    BY <1>1 DEF Typed, PCs, Inside
  <2>3. /\ j \in Records /\ j.pc = "watching" /\ j.prior = TRUE /\ j.nonce = call[c].nonce
        /\ j.accepted = call[c].accepted /\ j.joined = call[c].joined
        /\ j.floor = call[c].floor /\ j.low = call[c].low
    BY <2>1, <2>2 DEF Records
  <2>4. call' = [call EXCEPT ![c] = j]
    BY <1>5, <2>1 DEF SendAccepted
  <2>5. Alone(c) /\ call'[c] = j
    BY <2>2, <2>3, <2>4 DEF Alone
  <2>6. Waits(c) /\ call'[c].pc \in Inside \ {"refreshing"}
    BY <2>3, <2>5 DEF Waits, Inside
  <2>7. Base'
    BY <1>2, <1>3, <2>5, <2>6, HolderSteps
  <2> QED
    BY <1>5, <2>3, <2>5, <2>7
<1> QED
  BY <1>4, <1>5

LEMMA TransportFailsSteps ==
  ASSUME Base, NEW c \in Calls, TransportFails(c)
  PROVE  /\ Base' /\ Keeps(c) /\ call'[c].pc = "fallback" /\ faults'.transport > faults.transport
         /\ call'[c].accepted = call[c].accepted
<1>1. /\ Typed /\ call[c].pc = "sending" /\ call' = Goto(c, "fallback")
      /\ faults' = [faults EXCEPT !.transport = @ + 1]
      /\ UNCHANGED <<lane, inFlight, waiting, cache, reading, mined, lowered>>
  BY DEF TransportFails, Base
<1>2. pool' \in [Users -> Pools]
  <2>1. CASE UNCHANGED pool
    BY <1>1, <2>1 DEF Typed
  <2>2. CASE Place(c)
    BY <1>1, <2>2, PlaceIs
  <2> QED
    BY <2>1, <2>2 DEF TransportFails
<1>3. RestTyped
  <2>1. faults' \in [transport : Nat, reads : Nat, drops : Nat]
    BY <1>1, FaultIs
  <2> QED
    BY <1>1, <1>2, <2>1 DEF Typed, RestTyped
<1>4. call[c].joined = NoCall /\ call[c].pc \in Inside /\ Proceeds(c) /\ "fallback" \in PCs
  BY <1>1, JoinedNot DEF Inside, Proceeds, PCs
<1>5. Base'
  BY <1>1, <1>3, <1>4, ProceedSteps
<1>6. faults'.transport > faults.transport
  BY <1>1 DEF Typed
<1> QED
  BY <1>1, <1>4, <1>5, <1>6, GotoIs DEF Keeps, Waits

LEMMA FallbackBroadcastSteps ==
  ASSUME Base, NEW c \in Calls, FallbackBroadcast(c)
  PROVE  /\ Base' /\ Keeps(c) /\ call'[c].pc = "broadcast"
         /\ call'[c].accepted = call[c].accepted
<1>1. /\ Typed /\ call[c].pc = "fallback" /\ call' = Goto(c, "broadcast") /\ Place(c)
      /\ UNCHANGED <<lane, inFlight, waiting, cache, reading, mined, faults, lowered>>
  BY DEF FallbackBroadcast, Base
<1>2. RestTyped
  BY <1>1, PlaceIs DEF Typed, RestTyped
<1>3. call[c].joined = NoCall /\ call[c].pc \in Inside /\ Proceeds(c) /\ "broadcast" \in PCs
  BY <1>1, JoinedNot DEF Inside, Proceeds, PCs
<1>4. Base'
  BY <1>1, <1>2, <1>3, ProceedSteps
<1> QED
  BY <1>1, <1>3, <1>4, GotoIs DEF Keeps, Waits

LEMMA FallbackReturnsSteps ==
  ASSUME Base, NEW c \in Calls, FallbackReturns(c)
  PROVE  /\ Base' /\ Keeps(c)
         /\ \/ call'[c].pc = "settled" /\ call'[c].accepted /\ Seed(c)
            \/ call'[c].pc = "sending" /\ call'[c].accepted = call[c].accepted /\ Seed(c)
            \/ call'[c].pc = "settled" /\ ~call'[c].accepted /\ UNCHANGED <<cache, reading>>
<1>1. /\ Typed /\ call[c].pc = "broadcast"
      /\ UNCHANGED <<lane, inFlight, waiting, mined, pool, faults, lowered>>
  BY DEF FallbackReturns, Base
<1>2. Proceeds(c) /\ (Seed(c) \/ UNCHANGED <<cache, reading>>)
  BY DEF FallbackReturns, Proceeds
<1>3. RestTyped /\ \A u \in Users : reading'[u] \in {reading[u], NoCall}
  BY <1>1, <1>2, SeedIs DEF Typed, RestTyped
<1>4. call[c].joined = NoCall /\ call[c].pc \in Inside
  BY <1>1, JoinedNot DEF Inside
<1>5. Base'
  BY <1>2, <1>3, <1>4, ProceedSteps
<1>6. \/ call' = Settled(c, TRUE) /\ Seed(c)
      \/ call' = Retry(c) /\ Seed(c)
      \/ call' = Settled(c, FALSE) /\ UNCHANGED <<cache, reading>>
  BY DEF FallbackReturns
<1> QED
  BY <1>1, <1>5, <1>6, RetryIs, SettledIs DEF Keeps, Waits

LEMMA RefreshNonceSteps ==
  ASSUME Base, NEW c \in Calls, RefreshNonce(c)
  PROVE  /\ Base' /\ Keeps(c) /\ call'[c].pc = "refreshing"
         /\ call'[c].accepted = call[c].accepted /\ call'[c].low = Mined(UserOf[c])
         /\ ~call[c].prior /\ call[c].nonce # None
<1> DEFINE u == UserOf[c]
<1>1. /\ Typed /\ call[c].pc = "sending" /\ u \in Users /\ ~call[c].prior /\ call[c].nonce # None
      /\ UNCHANGED <<lane, inFlight, waiting, mined, pool, faults>>
  BY SendLaneAssumption DEF SendLaneAssumption, RefreshNonce, NonceError, Base
<1>2. PICK a : a = Asked(c, NoEntry)
  OBVIOUS
<1>3. NoEntry \in Entries
  BY DEF NoEntry, Entries, Nonces, Ages
<1>4. /\ a \in Records /\ a.joined = c /\ a.floor = NoEntry /\ a.low = Mined(u)
      /\ a.nonce = call[c].nonce /\ a.prior = call[c].prior /\ a.accepted = call[c].accepted
  BY <1>1, <1>2, <1>3, AskedIs
<1>5. PICK j : j = [a EXCEPT !.pc = "refreshing"]
  OBVIOUS
<1>6. /\ j \in Records /\ j.joined = c /\ j.floor = NoEntry /\ j.low = Mined(u)
      /\ j.pc = "refreshing" /\ j.nonce = call[c].nonce /\ j.prior = call[c].prior
      /\ j.accepted = call[c].accepted
  <2>1. "refreshing" \in PCs
    BY DEF PCs, Inside
  <2> QED
    BY <1>4, <1>5, <2>1 DEF Records
<1>7. call' = [call EXCEPT ![c] = j]
  BY <1>2, <1>5 DEF RefreshNonce
<1>8. Alone(c) /\ call'[c] = j
  BY <1>1, <1>6, <1>7 DEF Alone, Typed
<1>9. /\ cache' \in [Users -> Entries] /\ reading' \in [Users -> Calls \union {NoCall}]
      /\ \A v \in Users : reading'[v] = reading[v] \/ (v = u /\ reading'[v] = c)
  <2>1. cache' = [cache EXCEPT ![u] = NoEntry] /\ reading' = [reading EXCEPT ![u] = c]
    BY DEF RefreshNonce
  <2> QED
    BY <1>1, <1>3, <2>1 DEF Typed
<1>10. lowered' \in BOOLEAN
  BY DEF RefreshNonce
<1>11. Typed'
  BY <1>1, <1>8, <1>9, <1>10 DEF Typed, Alone
<1>12. call[c].joined = NoCall
  BY <1>1, JoinedNot
<1>13. JoinsFit'
  BY <1>1, <1>6, <1>8, <1>9, <1>12, JoinSteps DEF Base
<1>14. \A d \in Calls : Stays(d)
  BY <1>1, <1>6, <1>8 DEF Stays, Alone, Inside
<1>15. Lanes'
  BY <1>1, <1>14, QuietLane DEF Base, Typed
<1> QED
  BY <1>1, <1>6, <1>8, <1>11, <1>13, <1>15 DEF Base, Keeps
-----------------------------------------------------------------------------
LEMMA InsertIs ==
  ASSUME NEW q \in Seq(Calls), NEW c \in Calls, NEW k \in 0 .. Len(q)
  PROVE  /\ Insert(q, c, k) \in Seq(Calls) /\ Len(Insert(q, c, k)) = Len(q) + 1
         /\ Insert(q, c, k)[k + 1] = c
         /\ \A j \in 1 .. k : Insert(q, c, k)[j] = q[j]
         /\ \A j \in k + 2 .. Len(q) + 1 : Insert(q, c, k)[j] = q[j - 1]
<1> DEFINE front == SubSeq(q, 1, k)
           back == SubSeq(q, k + 1, Len(q))
           mid == front \o <<c>>
<1>1. /\ front \in Seq(Calls) /\ Len(front) = k /\ \A j \in 1 .. k : front[j] = q[j]
  OBVIOUS
<1>2. /\ back \in Seq(Calls) /\ Len(back) = Len(q) - k
      /\ \A j \in 1 .. Len(q) - k : back[j] = q[k + j]
  OBVIOUS
<1>3. Insert(q, c, k) = mid \o back
  BY DEF Insert
<1> HIDE DEF front, back
<1>4. /\ mid \in Seq(Calls) /\ Len(mid) = k + 1 /\ mid[k + 1] = c
      /\ \A j \in 1 .. k : mid[j] = q[j]
  BY <1>1
<1> HIDE DEF mid
<1>5. /\ Insert(q, c, k) \in Seq(Calls) /\ Len(Insert(q, c, k)) = Len(q) + 1
      /\ \A j \in 1 .. k + 1 : Insert(q, c, k)[j] = mid[j]
      /\ \A j \in k + 2 .. Len(q) + 1 : Insert(q, c, k)[j] = back[j - (k + 1)]
  BY <1>2, <1>3, <1>4
<1>6. ASSUME NEW j \in k + 2 .. Len(q) + 1 PROVE Insert(q, c, k)[j] = q[j - 1]
  <2>1. j - (k + 1) \in 1 .. Len(q) - k /\ k + (j - (k + 1)) = j - 1
    OBVIOUS
  <2> QED
    BY <1>2, <1>5, <2>1
<1> QED
  BY <1>4, <1>5, <1>6

LEMMA InsertAt ==
  ASSUME NEW q \in Seq(Calls), NEW c \in Calls, NEW k \in 0 .. Len(q), NEW s, s = Insert(q, c, k)
  PROVE  /\ s \in Seq(Calls) /\ Len(s) = Len(q) + 1 /\ s[k + 1] = c
         /\ \A j \in 1 .. k : s[j] = q[j]
         /\ \A j \in k + 2 .. Len(q) + 1 : s[j] = q[j - 1]
         /\ \A j \in 1 .. Len(s) :
              \/ j = k + 1 /\ s[j] = c
              \/ j \in 1 .. k /\ j \in 1 .. Len(q) /\ s[j] = q[j]
              \/ j > k + 1 /\ j - 1 \in 1 .. Len(q) /\ s[j] = q[j - 1]
<1>1. /\ s \in Seq(Calls) /\ Len(s) = Len(q) + 1 /\ s[k + 1] = c
      /\ \A j \in 1 .. k : s[j] = q[j]
      /\ \A j \in k + 2 .. Len(q) + 1 : s[j] = q[j - 1]
  <2>1. /\ Insert(q, c, k) \in Seq(Calls) /\ Len(Insert(q, c, k)) = Len(q) + 1
        /\ Insert(q, c, k)[k + 1] = c
        /\ \A j \in 1 .. k : Insert(q, c, k)[j] = q[j]
        /\ \A j \in k + 2 .. Len(q) + 1 : Insert(q, c, k)[j] = q[j - 1]
    BY InsertIs
  <2> QED
    BY <2>1
<1>2. Len(q) \in Nat /\ k \in Nat /\ k <= Len(q)
  OBVIOUS
<1>3. ASSUME NEW j \in 1 .. Len(s)
      PROVE  \/ j = k + 1 /\ s[j] = c
             \/ j \in 1 .. k /\ j \in 1 .. Len(q) /\ s[j] = q[j]
             \/ j > k + 1 /\ j - 1 \in 1 .. Len(q) /\ s[j] = q[j - 1]
  <2>1. j \in 1 .. Len(q) + 1
    BY <1>1
  <2>2. CASE j = k + 1
    BY <1>1, <2>2
  <2>3. CASE j \in 1 .. k
    <3>1. j \in 1 .. Len(q)
      BY <1>2, <2>3
    <3> QED
      BY <1>1, <2>3, <3>1
  <2>4. CASE j \in k + 2 .. Len(q) + 1
    <3>1. j > k + 1 /\ j - 1 \in 1 .. Len(q)
      BY <1>2, <2>4
    <3> QED
      BY <1>1, <2>4, <3>1
  <2> QED
    BY <1>2, <2>1, <2>2, <2>3, <2>4
<1> QED
  BY <1>1, <1>3

LEMMA InsertMembers ==
  ASSUME NEW q \in Seq(Calls), NEW c \in Calls, NEW k \in 0 .. Len(q), NEW s, s = Insert(q, c, k),
         \A j \in 1 .. Len(q) : q[j] # c,
         \A m, n \in 1 .. Len(q) : q[m] = q[n] => m = n
  PROVE  /\ s \in Seq(Calls)
         /\ \A j \in 1 .. Len(s) : s[j] = c \/ \E i \in 1 .. Len(q) : s[j] = q[i]
         /\ \A j, l \in 1 .. Len(s) : s[j] = s[l] => j = l
<1>0. /\ s \in Seq(Calls) /\ Len(s) = Len(q) + 1 /\ s[k + 1] = c
      /\ \A j \in 1 .. k : s[j] = q[j]
      /\ \A j \in k + 2 .. Len(q) + 1 : s[j] = q[j - 1]
  BY InsertAt
<1>1. \A j \in 1 .. Len(s) :
        \/ j = k + 1 /\ s[j] = c
        \/ j \in 1 .. k /\ j \in 1 .. Len(q) /\ s[j] = q[j]
        \/ j > k + 1 /\ j - 1 \in 1 .. Len(q) /\ s[j] = q[j - 1]
  BY InsertAt
<1>2. ASSUME NEW j \in 1 .. Len(s), NEW l \in 1 .. Len(s), s[j] = s[l] PROVE j = l
  <2>0. k \in Nat /\ j \in Nat /\ l \in Nat
    OBVIOUS
  <2>1. CASE j = k + 1
    <3>1. s[l] = c
      BY <1>0, <1>2, <2>1
    <3>2. l = k + 1
      BY <1>1, <3>1
    <3> QED
      BY <2>1, <3>2
  <2>2. CASE j \in 1 .. k /\ j \in 1 .. Len(q) /\ s[j] = q[j]
    <3>1. CASE l = k + 1
      BY <1>0, <1>2, <2>2, <3>1
    <3>2. CASE l \in 1 .. k /\ l \in 1 .. Len(q) /\ s[l] = q[l]
      BY <1>2, <2>2, <3>2
    <3>3. CASE l > k + 1 /\ l - 1 \in 1 .. Len(q) /\ s[l] = q[l - 1]
      <4>1. j = l - 1
        BY <1>2, <2>2, <3>3
      <4> QED
        BY <2>0, <2>2, <3>3, <4>1
    <3> QED
      BY <1>1, <3>1, <3>2, <3>3
  <2>3. CASE j > k + 1 /\ j - 1 \in 1 .. Len(q) /\ s[j] = q[j - 1]
    <3>1. CASE l = k + 1
      BY <1>0, <1>2, <2>3, <3>1
    <3>2. CASE l \in 1 .. k /\ l \in 1 .. Len(q) /\ s[l] = q[l]
      <4>1. j - 1 = l
        BY <1>2, <2>3, <3>2
      <4> QED
        BY <2>0, <2>3, <3>2, <4>1
    <3>3. CASE l > k + 1 /\ l - 1 \in 1 .. Len(q) /\ s[l] = q[l - 1]
      <4>1. j - 1 = l - 1
        BY <1>2, <2>3, <3>3
      <4> QED
        BY <2>0, <4>1
    <3> QED
      BY <1>1, <3>1, <3>2, <3>3
  <2> QED
    BY <1>1, <2>1, <2>2, <2>3
<1>3. ASSUME NEW j \in 1 .. Len(s) PROVE s[j] = c \/ \E i \in 1 .. Len(q) : s[j] = q[i]
  BY <1>1
<1> QED
  BY <1>0, <1>2, <1>3

LEMMA QueueStays ==
  ASSUME NEW u \in Users, QueueFits(u), lane[u].queue \in Seq(Calls),
         lane'[u].queue = lane[u].queue,
         \A d \in Calls : call[d].pc = "queued" => call'[d].pc = "queued"
  PROVE  QueueFits(u)'
<1>1. PICK q \in Seq(Calls) : q = lane[u].queue
  OBVIOUS
<1>2. /\ \A k \in 1 .. Len(q) : call[q[k]].pc = "queued" /\ UserOf[q[k]] = u /\ q[k] \in Calls
      /\ \A k, l \in 1 .. Len(q) : q[k] = q[l] => k = l
  BY <1>1 DEF QueueFits
<1>3. \A k \in 1 .. Len(q) : call'[q[k]].pc = "queued"
  BY <1>2
<1> QED
  BY <1>1, <1>2, <1>3 DEF QueueFits

LEMMA WaitingStays ==
  ASSUME WaitingFits, waiting \in Seq(Calls), UNCHANGED waiting,
         \A d \in Calls : call[d].pc = "waiting" => call'[d].pc = "waiting"
  PROVE  WaitingFits'
<1>1. \A k \in 1 .. Len(waiting) : call[waiting[k]].pc = "waiting" /\ waiting[k] \in Calls
  BY DEF WaitingFits
<1>2. \A k \in 1 .. Len(waiting) : call'[waiting[k]].pc = "waiting"
  BY <1>1
<1> QED
  BY <1>2 DEF WaitingFits

\* The calls that move between the stages wait for no answer.
LEMMA MovesKeepJoins ==
  ASSUME Typed, JoinsFit, UNCHANGED reading,
         \A d \in Calls : /\ call'[d].joined = call[d].joined /\ call'[d].floor = call[d].floor
                          /\ \/ call'[d].pc = call[d].pc
                             \/ call[d].pc \in PCs \ {"new", "entered", "refreshing"} /\ call'[d].pc # "refreshing"
  PROVE  JoinsFit'
<1>0. /\ \A d \in Calls : call[d].joined \in Calls \union {NoCall}
      /\ \A u \in Users : reading[u] \in Calls \union {NoCall}
  BY DEF Typed, Records
<1>1. ASSUME NEW d \in Calls PROVE JoinFits(d)'
  <2>1. JoinFits(d)
    BY DEF JoinsFit
  <2>2. PICK e : e = call[d].joined
    OBVIOUS
  <2>3. e # NoCall => e \in Calls /\ call'[e].joined = call[e].joined
    BY <1>0, <2>2
  <2> QED
    BY <2>1, <2>2, <2>3 DEF JoinFits
<1>2. ASSUME NEW u \in Users PROVE ReadingFits(u)'
  <2>1. ReadingFits(u)
    BY DEF JoinsFit
  <2> QED
    BY <1>0, <2>1 DEF ReadingFits
<1> QED
  BY <1>1, <1>2 DEF JoinsFit

LEMMA GotoKeepsJoins ==
  ASSUME Base, NEW c \in Calls, NEW p \in PCs \ {"refreshing"}, call' = Goto(c, p),
         call[c].pc \notin {"new", "entered", "refreshing"}, UNCHANGED reading
  PROVE  JoinsFit'
<1>1. Alone(c) /\ Waits(c) /\ call'[c].pc = p
  BY GotoIs DEF Base
<1>2. call[c].pc \in PCs
  BY DEF Base, Typed, Records
<1> QED
  BY <1>1, <1>2, MovesKeepJoins DEF Base, Alone, Waits

LEMMA LockSteps ==
  ASSUME Base, NEW c \in Calls, WithUserTransactionLock(c)
  PROVE  Base'
<1> DEFINE u == UserOf[c]
           q == lane[u].queue
<1>1. /\ Typed /\ Lanes /\ call[c].pc = "ready" /\ u \in Users
      /\ UNCHANGED <<inFlight, waiting, cache, reading, mined, pool, faults, lowered>>
      /\ lane \in [Users -> [running : BOOLEAN, queue : Seq(Calls)]] /\ q \in Seq(Calls)
  BY SendLaneAssumption DEF SendLaneAssumption, WithUserTransactionLock, Base, Typed
<1>2. "queued" \in PCs /\ "started" \in PCs
  BY DEF PCs
<1>3. \A v \in Users : QueueFits(v) /\ lane[v].queue \in Seq(Calls)
  BY <1>1 DEF Lanes
<1>4. CASE /\ lane[u].running
           /\ \E k \in 0 .. Len(q) : Before(q, c, k) /\ lane' = [lane EXCEPT ![u].queue = Insert(q, c, k)]
           /\ call' = Goto(c, "queued")
  <2>1. Alone(c) /\ call'[c].pc = "queued" /\ JoinsFit'
    BY <1>1, <1>2, <1>4, GotoIs, GotoKeepsJoins
  <2>2. PICK k \in 0 .. Len(q) : lane' = [lane EXCEPT ![u].queue = Insert(q, c, k)]
    BY <1>4
  <2>3. PICK s : s = Insert(q, c, k)
    OBVIOUS
  <2>4. /\ s \in Seq(Calls)
        /\ \A j \in 1 .. Len(s) : s[j] = c \/ \E i \in 1 .. Len(q) : s[j] = q[i]
        /\ \A j, l \in 1 .. Len(s) : s[j] = s[l] => j = l
    <3>1. PICK line \in Seq(Calls) : line = q
      BY <1>1
    <3>2. /\ \A j \in 1 .. Len(line) : line[j] # c
          /\ \A m, n \in 1 .. Len(line) : line[m] = line[n] => m = n
      BY <1>1, <1>3, <3>1 DEF QueueFits
    <3>3. k \in 0 .. Len(line) /\ s = Insert(line, c, k)
      BY <2>3, <3>1
    <3>4. /\ s \in Seq(Calls)
          /\ \A j \in 1 .. Len(s) : s[j] = c \/ \E i \in 1 .. Len(line) : s[j] = line[i]
          /\ \A j, l \in 1 .. Len(s) : s[j] = s[l] => j = l
      <4> HIDE DEF q
      <4> QED
        BY <3>2, <3>3, InsertMembers
    <3> QED
      BY <3>1, <3>4
  <2>5. /\ lane' \in [Users -> [running : BOOLEAN, queue : Seq(Calls)]]
        /\ lane'[u].queue = s /\ \A v \in Users : v # u => lane'[v] = lane[v]
        /\ \A v \in Users : lane'[v].running = lane[v].running
    BY <1>1, <2>2, <2>3, <2>4
  <2>6. Typed'
    BY <1>1, <2>1, <2>5 DEF Typed, Alone
  <2>7. \A d \in Calls : call[d].pc # "ready" => call'[d] = call[d]
    BY <1>1, <2>1 DEF Alone
  <2>8. \A d \in Calls : InLane(d)' <=> InLane(d)
    BY <1>1, <2>1 DEF Alone, InLane, Inside
  <2>9. OneInLane'
    <3>1. \A d \in Calls : UserOf[d] \in Users
      BY SendLaneAssumption DEF SendLaneAssumption
    <3> QED
      BY <1>1, <2>5, <2>8, <3>1 DEF Lanes, OneInLane
  <2>10. {d \in Calls : call'[d].pc = "woken"} = {d \in Calls : call[d].pc = "woken"}
    BY <1>1, <2>1 DEF Alone
  <2>11. NoIdlePlace'
    BY <1>1, <2>10 DEF Lanes, NoIdlePlace
  <2>12. WaitingFits'
    <3>1. WaitingFits /\ waiting \in Seq(Calls)
      BY <1>1 DEF Lanes, Typed
    <3> QED
      BY <1>1, <2>7, <3>1, WaitingStays
  <2>13. ASSUME NEW v \in Users, v # u PROVE QueueFits(v)'
    BY <1>3, <2>5, <2>7, <2>13, QueueStays
  <2>14. QueueFits(u)'
    <3>1. ASSUME NEW i \in 1 .. Len(q) PROVE call'[q[i]].pc = "queued" /\ UserOf[q[i]] = u
      <4>1. call[q[i]].pc = "queued" /\ UserOf[q[i]] = u /\ q[i] \in Calls
        BY <1>1, <1>3 DEF QueueFits
      <4> QED
        BY <2>7, <4>1
    <3>2. \A j \in 1 .. Len(s) : call'[s[j]].pc = "queued" /\ UserOf[s[j]] = u
      <4> HIDE DEF q
      <4> QED
        BY <2>1, <2>4, <3>1
    <3> QED
      BY <2>4, <2>5, <3>2 DEF QueueFits
  <2> QED
    BY <2>1, <2>6, <2>9, <2>11, <2>12, <2>13, <2>14 DEF Base, Lanes
<1>5. CASE /\ ~lane[u].running
           /\ lane' = [lane EXCEPT ![u].running = TRUE]
           /\ call' = Goto(c, "started")
  <2>1. Alone(c) /\ call'[c].pc = "started" /\ JoinsFit'
    BY <1>1, <1>2, <1>5, GotoIs, GotoKeepsJoins
  <2>2. /\ lane' \in [Users -> [running : BOOLEAN, queue : Seq(Calls)]]
        /\ lane'[u].running /\ \A v \in Users : lane'[v].queue = lane[v].queue
        /\ \A v \in Users : lane[v].running => lane'[v].running
    BY <1>1, <1>5
  <2>3. Typed'
    BY <1>1, <2>1, <2>2 DEF Typed, Alone
  <2>4. \A d \in Calls : call[d].pc # "ready" => call'[d] = call[d]
    BY <1>1, <2>1 DEF Alone
  <2>5. /\ \A d \in Calls : d # c => (InLane(d)' <=> InLane(d))
        /\ \A d \in Calls : UserOf[d] = u => ~InLane(d)
    BY <1>1, <1>5, <2>1 DEF Alone, InLane, Lanes, OneInLane
  <2>6. OneInLane'
    <3>1. \A d \in Calls : UserOf[d] \in Users
      BY SendLaneAssumption DEF SendLaneAssumption
    <3> QED
      BY <1>1, <2>2, <2>5, <3>1 DEF Lanes, OneInLane
  <2>7. {d \in Calls : call'[d].pc = "woken"} = {d \in Calls : call[d].pc = "woken"}
    BY <1>1, <2>1 DEF Alone
  <2>8. NoIdlePlace'
    BY <1>1, <2>7 DEF Lanes, NoIdlePlace
  <2>9. WaitingFits'
    <3>1. WaitingFits /\ waiting \in Seq(Calls)
      BY <1>1 DEF Lanes, Typed
    <3> QED
      BY <1>1, <2>4, <3>1, WaitingStays
  <2>10. ASSUME NEW v \in Users PROVE QueueFits(v)'
    BY <1>3, <2>2, <2>4, QueueStays
  <2> QED
    BY <2>1, <2>3, <2>6, <2>8, <2>9, <2>10 DEF Base, Lanes
<1> QED
  BY <1>4, <1>5 DEF WithUserTransactionLock
-----------------------------------------------------------------------------
LEMMA AppendIs ==
  ASSUME NEW q \in Seq(Calls), NEW c \in Calls, NEW s, s = Append(q, c),
         \A j \in 1 .. Len(q) : q[j] # c,
         \A m, n \in 1 .. Len(q) : q[m] = q[n] => m = n
  PROVE  /\ s \in Seq(Calls) /\ s # <<>>
         /\ \A j \in 1 .. Len(s) : s[j] = c \/ (j \in 1 .. Len(q) /\ s[j] = q[j])
         /\ \A j, l \in 1 .. Len(s) : s[j] = s[l] => j = l
<1>1. s \in Seq(Calls) /\ Len(s) = Len(q) + 1 /\ s[Len(q) + 1] = c /\ \A j \in 1 .. Len(q) : s[j] = q[j]
  OBVIOUS
<1>2. \A j \in 1 .. Len(s) : (j = Len(q) + 1 /\ s[j] = c) \/ (j \in 1 .. Len(q) /\ s[j] = q[j])
  BY <1>1
<1>3. s # <<>>
  BY <1>1
<1> QED
  BY <1>1, <1>2, <1>3

LEMMA TailIs ==
  ASSUME NEW q \in Seq(Calls), q # <<>>, NEW s, s = Tail(q),
         \A m, n \in 1 .. Len(q) : q[m] = q[n] => m = n
  PROVE  /\ s \in Seq(Calls) /\ Head(q) \in Calls /\ Head(q) = q[1] /\ 1 \in 1 .. Len(q)
         /\ \A j \in 1 .. Len(s) : s[j] # Head(q) /\ \E i \in 1 .. Len(q) : s[j] = q[i]
         /\ \A j, l \in 1 .. Len(s) : s[j] = s[l] => j = l
<1>1. s \in Seq(Calls) /\ Len(s) = Len(q) - 1 /\ Len(q) >= 1 /\ \A j \in 1 .. Len(s) : s[j] = q[j + 1]
  OBVIOUS
<1>2. Head(q) = q[1] /\ Head(q) \in Calls /\ 1 \in 1 .. Len(q)
  BY <1>1
<1>3. \A j \in 1 .. Len(s) : j + 1 \in 1 .. Len(q) /\ j + 1 # 1
  BY <1>1
<1>4. ASSUME NEW j \in 1 .. Len(s) PROVE s[j] # Head(q) /\ \E i \in 1 .. Len(q) : s[j] = q[i]
  BY <1>1, <1>2, <1>3
<1>5. ASSUME NEW j \in 1 .. Len(s), NEW l \in 1 .. Len(s), s[j] = s[l] PROVE j = l
  <2>1. j + 1 = l + 1
    BY <1>1, <1>3, <1>5
  <2> QED
    BY <2>1
<1> QED
  BY <1>1, <1>2, <1>4, <1>5

Woken == {c \in Calls : call[c].pc = "woken"}

LEMMA WokenFinite ==
  IsFiniteSet(Woken) /\ Cardinality(Woken) \in Nat
<1>1. Woken \subseteq Calls
  BY DEF Woken
<1> QED
  BY <1>1, FS_Subset, FS_CardinalityType, SendLaneAssumption DEF SendLaneAssumption

LEMMA EnterLimiterSteps ==
  ASSUME Base, NEW c \in Calls, EnterLimiter(c)
  PROVE  Base'
<1>1. /\ Typed /\ Lanes /\ call[c].pc = "started"
      /\ UNCHANGED <<lane, cache, reading, mined, pool, faults, lowered>>
      /\ waiting \in Seq(Calls) /\ inFlight \in Int /\ Limit \in Nat /\ WaitingFits
  BY SendLaneAssumption DEF SendLaneAssumption, EnterLimiter, Base, Typed, Lanes
<1>2. "waiting" \in PCs /\ "entered" \in PCs
  BY DEF PCs, Inside
<1>3. PICK p \in {"waiting", "entered"} : call' = Goto(c, p)
  BY DEF EnterLimiter
<1>4. Alone(c) /\ call'[c].pc = p /\ JoinsFit'
  BY <1>1, <1>2, <1>3, GotoIs, GotoKeepsJoins
<1>5. \A d \in Calls : call[d].pc # "started" => call'[d] = call[d]
  BY <1>1, <1>4 DEF Alone
<1>6. \A d \in Calls : InLane(d)' <=> InLane(d)
  BY <1>1, <1>4 DEF Alone, InLane, Inside
<1>7. OneInLane'
  BY <1>1, <1>6 DEF Lanes, OneInLane
<1>8. ASSUME NEW u \in Users PROVE QueueFits(u)'
  <2>1. QueueFits(u) /\ lane[u].queue \in Seq(Calls) /\ lane'[u].queue = lane[u].queue
    BY <1>1 DEF Lanes, Typed
  <2> QED
    BY <1>5, <2>1, QueueStays
<1>9. Woken' = Woken
  BY <1>1, <1>4 DEF Alone, Woken
<1>10. CASE /\ inFlight >= Limit
            /\ waiting' = Append(waiting, c) /\ call' = Goto(c, "waiting") /\ UNCHANGED inFlight
  <2>1. \A j \in 1 .. Len(waiting) : waiting[j] # c
    BY <1>1 DEF WaitingFits
  <2>2. \A m, n \in 1 .. Len(waiting) : waiting[m] = waiting[n] => m = n
    BY <1>1 DEF WaitingFits
  <2>3. PICK s : s = Append(waiting, c)
    OBVIOUS
  <2>4. /\ s \in Seq(Calls)
        /\ \A j \in 1 .. Len(s) : s[j] = c \/ (j \in 1 .. Len(waiting) /\ s[j] = waiting[j])
        /\ \A j, l \in 1 .. Len(s) : s[j] = s[l] => j = l
    BY <1>1, <2>1, <2>2, <2>3, AppendIs
  <2>5. waiting' = s /\ call'[c].pc = "waiting"
    BY <1>2, <1>10, <2>3, <1>1, GotoIs
  <2>6. \A j \in 1 .. Len(waiting) : call'[waiting[j]].pc = "waiting"
    <3>1. ASSUME NEW j \in 1 .. Len(waiting) PROVE call'[waiting[j]].pc = "waiting"
      <4>1. waiting[j] \in Calls /\ call[waiting[j]].pc = "waiting"
        BY <1>1 DEF WaitingFits
      <4> QED
        BY <1>5, <4>1
    <3> QED
      BY <3>1
  <2>7. WaitingFits'
    BY <2>4, <2>5, <2>6 DEF WaitingFits
  <2>8. NoIdlePlace'
    <3>1. Cardinality(Woken) \in Nat
      BY WokenFinite
    <3>2. Cardinality(Woken') \in Nat
      BY <1>9, <3>1
    <3> QED
      BY <1>1, <1>10, <3>2 DEF NoIdlePlace, Woken
  <2>9. Typed'
    BY <1>1, <1>4, <1>10, <2>4, <2>5 DEF Typed, Alone
  <2> QED
    BY <1>4, <1>7, <1>8, <2>7, <2>8, <2>9 DEF Base, Lanes
<1>11. CASE /\ ~(inFlight >= Limit)
            /\ inFlight' = inFlight + 1 /\ call' = Goto(c, "entered") /\ UNCHANGED waiting
  <2>1. WaitingFits'
    BY <1>1, <1>5, <1>11, WaitingStays
  <2>2. NoIdlePlace'
    <3>1. Cardinality(Woken) \in Nat
      BY WokenFinite
    <3>2. waiting # <<>> => inFlight + Cardinality(Woken) >= Limit
      BY <1>1 DEF Lanes, NoIdlePlace, Woken
    <3>3. waiting' # <<>> => inFlight' + Cardinality(Woken') >= Limit
      BY <1>1, <1>9, <1>11, <3>1, <3>2
    <3> QED
      BY <1>1, <3>3 DEF NoIdlePlace, Woken
  <2>3. Typed'
    BY <1>1, <1>4, <1>11 DEF Typed, Alone
  <2> QED
    BY <1>4, <1>7, <1>8, <2>1, <2>2, <2>3 DEF Base, Lanes
<1> QED
  BY <1>10, <1>11 DEF EnterLimiter

LEMMA TakePlaceSteps ==
  ASSUME Base, NEW c \in Calls, TakePlace(c)
  PROVE  Base'
<1>1. /\ Typed /\ Lanes /\ call[c].pc = "woken" /\ call' = Goto(c, "entered") /\ inFlight' = inFlight + 1
      /\ UNCHANGED <<lane, waiting, cache, reading, mined, pool, faults, lowered>>
      /\ waiting \in Seq(Calls) /\ inFlight \in Int /\ Limit \in Nat /\ WaitingFits
  BY SendLaneAssumption DEF SendLaneAssumption, TakePlace, Base, Typed, Lanes
<1>2. "entered" \in PCs
  BY DEF PCs, Inside
<1>3. Alone(c) /\ call'[c].pc = "entered" /\ JoinsFit'
  BY <1>1, <1>2, GotoIs, GotoKeepsJoins
<1>4. \A d \in Calls : call[d].pc # "woken" => call'[d] = call[d]
  BY <1>1, <1>3 DEF Alone
<1>5. OneInLane'
  <2>1. \A d \in Calls : InLane(d)' <=> InLane(d)
    BY <1>1, <1>3 DEF Alone, InLane, Inside
  <2> QED
    BY <1>1, <2>1 DEF Lanes, OneInLane
<1>6. ASSUME NEW u \in Users PROVE QueueFits(u)'
  <2>1. QueueFits(u) /\ lane[u].queue \in Seq(Calls) /\ lane'[u].queue = lane[u].queue
    BY <1>1 DEF Lanes, Typed
  <2> QED
    BY <1>4, <2>1, QueueStays
<1>7. WaitingFits'
  BY <1>1, <1>4, WaitingStays
<1>8. NoIdlePlace'
  <2>1. Woken' = Woken \ {c} /\ c \in Woken
    BY <1>1, <1>3 DEF Alone, Woken
  <2>2. Cardinality(Woken') = Cardinality(Woken) - 1 /\ Cardinality(Woken) \in Nat
    BY <2>1, WokenFinite, FS_RemoveElement
  <2>3. waiting # <<>> => inFlight + Cardinality(Woken) >= Limit
    BY <1>1 DEF Lanes, NoIdlePlace, Woken
  <2>4. waiting' # <<>> => inFlight' + Cardinality(Woken') >= Limit
    BY <1>1, <2>2, <2>3
  <2> QED
    BY <1>1, <2>4 DEF NoIdlePlace, Woken
<1>9. Typed'
  BY <1>1, <1>3 DEF Typed, Alone
<1> QED
  BY <1>3, <1>5, <1>6, <1>7, <1>8, <1>9 DEF Base, Lanes
-----------------------------------------------------------------------------
LEMMA MovedIs ==
  ASSUME NEW r \in Records, NEW p \in PCs, NEW a, a = [r EXCEPT !.pc = p]
  PROVE  /\ a \in Records /\ a.pc = p /\ a.nonce = r.nonce /\ a.prior = r.prior
         /\ a.accepted = r.accepted /\ a.joined = r.joined /\ a.floor = r.floor /\ a.low = r.low
BY DEF Records

\* A call that moves between the stages keeps the rest of its state.
MovedOnly(d) == /\ call'[d].nonce = call[d].nonce /\ call'[d].prior = call[d].prior
                /\ call'[d].accepted = call[d].accepted /\ call'[d].joined = call[d].joined
                /\ call'[d].floor = call[d].floor /\ call'[d].low = call[d].low

\* c leaves; n is the next of its lane, and w the next of the limiter, if there is one.
Leaves(c, n, w) ==
  \A d \in Calls :
    /\ MovedOnly(d)
    /\ d = c => call'[d].pc = "done"
    /\ d # c /\ d = n => call'[d].pc = "started"
    /\ d # c /\ d # n /\ d = w => call'[d].pc = "woken"
    /\ d # c /\ d # n /\ d # w => call'[d] = call[d]

FirstOf(q) == IF q = <<>> THEN NoCall ELSE Head(q)

LEMMA LeaveIs ==
  ASSUME Typed, NEW c \in Calls, Leave(c)
  PROVE  call' \in [Calls -> Records] /\ Leaves(c, FirstOf(lane[UserOf[c]].queue), FirstOf(waiting))
<1> DEFINE u == UserOf[c]
           q == lane[u].queue
<1>1. PICK next : next = IF q = <<>> THEN {} ELSE {Head(q)}
  OBVIOUS
<1>2. PICK woken : woken = IF waiting = <<>> THEN {} ELSE {Head(waiting)}
  OBVIOUS
<1>3. call' = [d \in Calls |-> IF d = c THEN [call[d] EXCEPT !.pc = "done"]
                               ELSE IF d \in next THEN [call[d] EXCEPT !.pc = "started"]
                               ELSE IF d \in woken THEN [call[d] EXCEPT !.pc = "woken"]
                               ELSE call[d]]
  BY <1>1, <1>2 DEF Leave
<1>4. PICK n : n = FirstOf(q)
  OBVIOUS
<1>5. PICK w : w = FirstOf(waiting)
  OBVIOUS
<1>6. \A d \in Calls : (d \in next <=> d = n) /\ (d \in woken <=> d = w)
  BY <1>1, <1>2, <1>4, <1>5, SendLaneAssumption DEF FirstOf, SendLaneAssumption
<1>7. "done" \in PCs /\ "started" \in PCs /\ "woken" \in PCs
  BY DEF PCs
<1>8. ASSUME NEW d \in Calls
      PROVE  /\ call'[d] \in Records /\ MovedOnly(d)
             /\ d = c => call'[d].pc = "done"
             /\ d # c /\ d = n => call'[d].pc = "started"
             /\ d # c /\ d # n /\ d = w => call'[d].pc = "woken"
             /\ d # c /\ d # n /\ d # w => call'[d] = call[d]
  <2>0. call[d] \in Records
    BY DEF Typed
  <2>1. CASE d = c
    <3>1. call'[d] = [call[d] EXCEPT !.pc = "done"]
      BY <1>3, <2>1
    <3> QED
      BY <1>7, <2>0, <2>1, <3>1, MovedIs DEF MovedOnly
  <2>2. CASE d # c /\ d = n
    <3>1. call'[d] = [call[d] EXCEPT !.pc = "started"]
      BY <1>3, <1>6, <2>2
    <3> QED
      BY <1>7, <2>0, <2>2, <3>1, MovedIs DEF MovedOnly
  <2>3. CASE d # c /\ d # n /\ d = w
    <3>1. call'[d] = [call[d] EXCEPT !.pc = "woken"]
      BY <1>3, <1>6, <2>3
    <3> QED
      BY <1>7, <2>0, <2>3, <3>1, MovedIs DEF MovedOnly
  <2>4. CASE d # c /\ d # n /\ d # w
    BY <1>3, <1>6, <2>0, <2>4 DEF MovedOnly
  <2> QED
    BY <2>1, <2>2, <2>3, <2>4
<1>9. call' = [d \in Calls |-> call'[d]]
  BY <1>3
<1>10. call' \in [Calls -> Records]
  BY <1>8, <1>9
<1>11. Leaves(c, n, w)
  BY <1>8 DEF Leaves
<1> QED
  BY <1>4, <1>5, <1>10, <1>11

LEMMA LeaveSteps ==
  ASSUME Base, NEW c \in Calls, Leave(c)
  PROVE  Base'
<1> DEFINE u == UserOf[c]
           q == lane[u].queue
<1>1. /\ Typed /\ Lanes /\ call[c].pc = "settled" /\ inFlight' = inFlight - 1
      /\ UNCHANGED <<cache, reading, mined, pool, faults, lowered>>
      /\ waiting \in Seq(Calls) /\ inFlight \in Int /\ Limit \in Nat /\ WaitingFits
      /\ OneInLane /\ NoIdlePlace /\ JoinsFit
      /\ u \in Users /\ \A d \in Calls : UserOf[d] \in Users
      /\ lane \in [Users -> [running : BOOLEAN, queue : Seq(Calls)]]
      /\ NoCall \notin Calls
  BY SendLaneAssumption DEF SendLaneAssumption, Leave, Base, Typed, Lanes
<1>2. PICK n : n = FirstOf(q)
  OBVIOUS
<1>3. PICK w : w = FirstOf(waiting)
  OBVIOUS
<1>4. call' \in [Calls -> Records] /\ Leaves(c, n, w)
  BY <1>1, <1>2, <1>3, LeaveIs
<1>5. PICK line \in Seq(Calls) : line = q
  BY <1>1
<1>6. /\ QueueFits(u) /\ \A k \in 1 .. Len(line) : call[line[k]].pc = "queued" /\ UserOf[line[k]] = u
      /\ \A k, l \in 1 .. Len(line) : line[k] = line[l] => k = l
  <2>1. QueueFits(u)
    BY <1>1 DEF Lanes
  <2> QED
    BY <1>5, <2>1 DEF QueueFits
<1>7. /\ \A k \in 1 .. Len(waiting) : call[waiting[k]].pc = "waiting"
      /\ \A k, l \in 1 .. Len(waiting) : waiting[k] = waiting[l] => k = l
  BY <1>1 DEF WaitingFits
<1>8. \/ line = <<>> /\ n = NoCall
      \/ line # <<>> /\ n = Head(line) /\ n \in Calls /\ call[n].pc = "queued" /\ UserOf[n] = u
  <2>1. CASE line # <<>>
    <3>1. Head(line) \in Calls /\ Head(line) = line[1] /\ 1 \in 1 .. Len(line)
      BY <1>6, <2>1, TailIs
    <3> QED
      BY <1>2, <1>5, <1>6, <2>1, <3>1 DEF FirstOf
  <2> QED
    BY <1>2, <1>5, <2>1 DEF FirstOf
<1>9. \/ waiting = <<>> /\ w = NoCall
      \/ waiting # <<>> /\ w = Head(waiting) /\ w \in Calls /\ call[w].pc = "waiting"
  <2>1. CASE waiting # <<>>
    <3>1. Head(waiting) \in Calls /\ Head(waiting) = waiting[1] /\ 1 \in 1 .. Len(waiting)
      BY <1>1, <1>7, <2>1, TailIs
    <3> QED
      BY <1>3, <1>7, <2>1, <3>1 DEF FirstOf
  <2> QED
    BY <1>3, <2>1 DEF FirstOf
<1>10. w # n \/ w = NoCall
  BY <1>8, <1>9
<1>11. JoinsFit'
  <2>1. \A d \in Calls : call[d].pc \in PCs
    BY <1>1 DEF Typed, Records
  <2>2. ASSUME NEW d \in Calls
        PROVE  /\ call'[d].joined = call[d].joined /\ call'[d].floor = call[d].floor
               /\ \/ call'[d].pc = call[d].pc
                  \/ call[d].pc \in PCs \ {"new", "entered", "refreshing"} /\ call'[d].pc # "refreshing"
    BY <1>1, <1>4, <1>8, <1>9, <2>1 DEF Leaves, MovedOnly
  <2> QED
    BY <1>1, <2>2, MovesKeepJoins
<1>12. /\ lane' \in [Users -> [running : BOOLEAN, queue : Seq(Calls)]]
       /\ \A v \in Users : v # u => lane'[v] = lane[v]
       /\ line = <<>> => lane'[u].queue = <<>> /\ ~lane'[u].running
       /\ line # <<>> => lane'[u].queue = Tail(line) /\ lane'[u].running = lane[u].running
  <2>1. CASE line = <<>>
    <3>1. PICK e : e = [lane[u] EXCEPT !.running = FALSE]
      OBVIOUS
    <3>2. lane' = [lane EXCEPT ![u] = e]
      BY <1>5, <2>1, <3>1 DEF Leave
    <3>3. e \in [running : BOOLEAN, queue : Seq(Calls)] /\ e.queue = q /\ ~e.running
      BY <1>1, <3>1
    <3> QED
      BY <1>1, <1>5, <2>1, <3>2, <3>3
  <2>2. CASE line # <<>>
    <3>0. PICK s : s = Tail(line)
      OBVIOUS
    <3>1. PICK e : e = [lane[u] EXCEPT !.queue = s]
      OBVIOUS
    <3>2. lane' = [lane EXCEPT ![u] = e]
      BY <1>5, <2>2, <3>0, <3>1 DEF Leave
    <3>3. s \in Seq(Calls)
      BY <2>2, <3>0
    <3>4. e \in [running : BOOLEAN, queue : Seq(Calls)] /\ e.queue = s /\ e.running = lane[u].running
      BY <1>1, <3>1, <3>3
    <3> QED
      BY <1>1, <2>2, <3>0, <3>2, <3>4
  <2> QED
    BY <2>1, <2>2
<1>13. waiting' \in Seq(Calls)
  BY <1>1 DEF Leave
<1>14. Typed'
  BY <1>1, <1>4, <1>12, <1>13 DEF Typed
<1>15. /\ \A d \in Calls : d # n /\ call[d].pc = "queued" => call'[d].pc = "queued"
       /\ \A d \in Calls : d # w /\ call[d].pc = "waiting" => call'[d].pc = "waiting"
  BY <1>1, <1>4, <1>8, <1>9 DEF Leaves
<1>16. ASSUME NEW v \in Users, v # u PROVE QueueFits(v)'
  <2>1. QueueFits(v) /\ lane[v].queue \in Seq(Calls) /\ lane'[v].queue = lane[v].queue
    BY <1>1, <1>12, <1>16 DEF Lanes
  <2>2. PICK p \in Seq(Calls) : p = lane[v].queue
    BY <2>1
  <2>3. /\ \A k \in 1 .. Len(p) : call[p[k]].pc = "queued" /\ UserOf[p[k]] = v /\ p[k] \in Calls
        /\ \A k, l \in 1 .. Len(p) : p[k] = p[l] => k = l
    BY <2>1, <2>2 DEF QueueFits
  <2>4. ASSUME NEW k \in 1 .. Len(p) PROVE call'[p[k]].pc = "queued"
    <3>1. p[k] \in Calls /\ call[p[k]].pc = "queued" /\ UserOf[p[k]] # u /\ p[k] # NoCall
      BY <1>1, <1>16, <2>3
    <3>2. p[k] # n
      BY <1>8, <3>1
    <3> QED
      BY <1>15, <3>1, <3>2
  <2> QED
    BY <2>1, <2>2, <2>3, <2>4 DEF QueueFits
<1>17. QueueFits(u)'
  <2>1. CASE line = <<>>
    BY <1>12, <2>1 DEF QueueFits
  <2>2. CASE line # <<>>
    <3>1. PICK s : s = Tail(line)
      OBVIOUS
    <3>2. /\ s \in Seq(Calls)
          /\ \A j \in 1 .. Len(s) : s[j] # Head(line) /\ \E i \in 1 .. Len(line) : s[j] = line[i]
          /\ \A j, l \in 1 .. Len(s) : s[j] = s[l] => j = l
      BY <1>6, <2>2, <3>1, TailIs
    <3>3. ASSUME NEW j \in 1 .. Len(s) PROVE call'[s[j]].pc = "queued" /\ UserOf[s[j]] = u
      <4>1. PICK i \in 1 .. Len(line) : s[j] = line[i]
        BY <3>2
      <4>2. s[j] \in Calls /\ call[s[j]].pc = "queued" /\ UserOf[s[j]] = u /\ s[j] # n
        BY <1>6, <1>8, <2>2, <3>2, <4>1
      <4> QED
        BY <1>15, <4>2
    <3>4. lane'[u].queue = s
      BY <1>12, <2>2, <3>1
    <3> QED
      BY <3>2, <3>3, <3>4 DEF QueueFits
  <2> QED
    BY <2>1, <2>2
<1>18. WaitingFits'
  <2>1. CASE waiting = <<>>
    <3>1. waiting' = <<>>
      BY <2>1 DEF Leave
    <3> QED
      BY <3>1 DEF WaitingFits
  <2>2. CASE waiting # <<>>
    <3>1. PICK s : s = Tail(waiting)
      OBVIOUS
    <3>2. /\ s \in Seq(Calls)
          /\ \A j \in 1 .. Len(s) : s[j] # Head(waiting) /\ \E i \in 1 .. Len(waiting) : s[j] = waiting[i]
          /\ \A j, l \in 1 .. Len(s) : s[j] = s[l] => j = l
      BY <1>1, <1>7, <2>2, <3>1, TailIs
    <3>3. ASSUME NEW j \in 1 .. Len(s) PROVE call'[s[j]].pc = "waiting"
      <4>1. PICK i \in 1 .. Len(waiting) : s[j] = waiting[i]
        BY <3>2
      <4>2. s[j] \in Calls /\ call[s[j]].pc = "waiting" /\ s[j] # w
        BY <1>1, <1>7, <1>9, <2>2, <3>2, <4>1
      <4> QED
        BY <1>15, <4>2
    <3>4. waiting' = s
      BY <2>2, <3>1 DEF Leave
    <3> QED
      BY <3>2, <3>3, <3>4 DEF WaitingFits
  <2> QED
    BY <2>1, <2>2
<1>19. OneInLane'
  <2>1. InLane(c) /\ ~InLane(c)'
    BY <1>1, <1>4 DEF InLane, Inside, Leaves
  <2>2. \A d \in Calls : d # n => (InLane(d)' => InLane(d))
    BY <1>1, <1>4, <1>8, <1>9, <2>1 DEF InLane, Inside, Leaves
  <2>3. \A d \in Calls : UserOf[d] = u /\ InLane(d) => d = c
    BY <1>1, <2>1 DEF OneInLane
  <2>4. lane[u].running
    BY <1>1, <2>1 DEF OneInLane
  <2>5. \A d \in Calls : InLane(d)' /\ UserOf[d] = u => d = n /\ line # <<>>
    BY <1>1, <1>8, <2>1, <2>2, <2>3
  <2>6. \A d \in Calls : InLane(d)' /\ UserOf[d] # u => InLane(d)
    BY <1>1, <1>8, <2>2
  <2>7. ASSUME NEW d \in Calls, InLane(d)' PROVE lane'[UserOf[d]].running
    <3>1. CASE UserOf[d] = u
      BY <1>12, <2>4, <2>5, <2>7, <3>1
    <3>2. CASE UserOf[d] # u
      BY <1>1, <1>12, <2>6, <2>7, <3>2 DEF OneInLane
    <3> QED
      BY <3>1, <3>2
  <2>8. ASSUME NEW d \in Calls, NEW e \in Calls, InLane(d)', InLane(e)', UserOf[d] = UserOf[e]
        PROVE  d = e
    BY <1>1, <2>5, <2>6, <2>8 DEF OneInLane
  <2> QED
    BY <2>7, <2>8 DEF OneInLane
<1>20. NoIdlePlace'
  <2>1. CASE waiting = <<>>
    <3>1. waiting' = <<>>
      BY <2>1 DEF Leave
    <3> QED
      BY <3>1 DEF NoIdlePlace
  <2>2. CASE waiting # <<>>
    <3>1. Woken' = Woken \union {w} /\ w \notin Woken
      BY <1>1, <1>4, <1>8, <1>9, <1>10, <2>2 DEF Woken, Leaves
    <3>2. Cardinality(Woken') = Cardinality(Woken) + 1 /\ Cardinality(Woken) \in Nat
      BY <3>1, WokenFinite, FS_AddElement
    <3>3. inFlight + Cardinality(Woken) >= Limit
      BY <1>1, <2>2 DEF NoIdlePlace, Woken
    <3>4. inFlight' + Cardinality(Woken') >= Limit
      BY <1>1, <3>2, <3>3
    <3> QED
      BY <1>1, <3>4 DEF NoIdlePlace, Woken
  <2> QED
    BY <2>1, <2>2
<1> QED
  BY <1>11, <1>14, <1>16, <1>17, <1>18, <1>19, <1>20 DEF Base, Lanes
-----------------------------------------------------------------------------
LEMMA ChainSteps ==
  ASSUME Base, NEW u \in Users, Mine(u) \/ Drop(u) \/ Age(u)
  PROVE  Base'
<1>0. Typed /\ UNCHANGED <<call, lane, inFlight, waiting, reading>>
  BY DEF Mine, Drop, Age, Base
<1>1. JoinsFit'
  <2>1. \A d \in Calls : JoinFits(d)' = JoinFits(d)
    BY <1>0 DEF JoinFits
  <2>2. \A v \in Users : ReadingFits(v)' = ReadingFits(v)
    BY <1>0 DEF ReadingFits
  <2> QED
    BY <2>1, <2>2 DEF Base, JoinsFit
<1>2. Lanes'
  <2>1. \A d \in Calls : Stays(d)
    BY <1>0 DEF Stays
  <2> QED
    BY <1>0, <2>1, QuietLane DEF Base, Typed
<1>3. Typed'
  <2>1. CASE Mine(u)
    <3>1. PICK m : m = Mined(u)
      OBVIOUS
    <3>2. m \in DOMAIN pool[u] /\ pool[u] \in Pools
      BY <1>0, <2>1, <3>1 DEF Mine, Typed
    <3>3. pool[u][m] \in Calls
      BY <3>2, PoolIs DEF IsPool
    <3>4. PICK f : f = Restrict(pool[u], DOMAIN pool[u] \ {m})
      OBVIOUS
    <3>5. f \in Pools
      BY <3>2, <3>4, WithoutIs
    <3>6. pool' = [pool EXCEPT ![u] = f]
      BY <2>1, <3>1, <3>4 DEF Mine
    <3>7. mined' = [mined EXCEPT ![u] = Append(mined[u], pool[u][m])]
      BY <2>1, <3>1 DEF Mine
    <3>8. pool' \in [Users -> Pools]
      BY <1>0, <3>5, <3>6 DEF Typed
    <3>9. mined' \in [Users -> Seq(Calls)]
      BY <1>0, <3>3, <3>7 DEF Typed
    <3> QED
      BY <1>0, <2>1, <3>8, <3>9 DEF Typed, Mine
  <2>2. CASE Drop(u)
    <3>1. PICK n \in DOMAIN pool[u] : pool' = [pool EXCEPT ![u] = Restrict(@, DOMAIN @ \ {n})]
      BY <2>2 DEF Drop
    <3>2. PICK f : f = Restrict(pool[u], DOMAIN pool[u] \ {n})
      OBVIOUS
    <3>3. pool[u] \in Pools /\ f \in Pools
      BY <1>0, <3>2, WithoutIs DEF Typed
    <3>4. pool' = [pool EXCEPT ![u] = f]
      BY <3>1, <3>2
    <3>5. pool' \in [Users -> Pools]
      BY <1>0, <3>3, <3>4 DEF Typed
    <3>6. faults' \in [transport : Nat, reads : Nat, drops : Nat]
      BY <1>0, <2>2, FaultIs DEF Drop
    <3> QED
      BY <1>0, <2>2, <3>5, <3>6 DEF Typed, Drop
  <2>3. CASE Age(u)
    <3>1. PICK a : a = IF cache[u].age = "fresh" THEN "stale" ELSE "old"
      OBVIOUS
    <3>2. PICK e : e = [cache[u] EXCEPT !.age = a]
      OBVIOUS
    <3>3. cache[u] \in Entries /\ a \in Ages
      BY <1>0, <3>1 DEF Typed, Ages
    <3>4. e \in Entries
      BY <3>2, <3>3 DEF Entries
    <3>5. cache' = [cache EXCEPT ![u] = e]
      BY <2>3, <3>1, <3>2 DEF Age
    <3>6. cache' \in [Users -> Entries]
      BY <1>0, <3>4, <3>5 DEF Typed
    <3> QED
      BY <1>0, <2>3, <3>6 DEF Typed, Age
  <2> QED
    BY <2>1, <2>2, <2>3
<1> QED
  BY <1>1, <1>2, <1>3 DEF Base

LEMMA BaseStep ==
  ASSUME Base, [Next]_vars
  PROVE  Base'
<1>1. ASSUME NEW c \in Calls, Advance(c) PROVE Base'
  <2>1. CASE Prewarm(c)
    BY <2>1, GetPendingNonceSteps DEF Prewarm
  <2>2. CASE LoadFloor(c)
    BY <2>2, GetPendingNonceSteps DEF LoadFloor
  <2>3. CASE ReadFails(c) \/ \E n \in call[c].low .. PendingCount(UserOf[c]) : ReadAnswers(c, n)
    BY <2>3, ReadSteps
  <2>4. CASE WithUserTransactionLock(c)
    BY <2>4, LockSteps
  <2>5. CASE EnterLimiter(c)
    BY <2>5, EnterLimiterSteps
  <2>6. CASE TakePlace(c)
    BY <2>6, TakePlaceSteps
  <2>7. CASE Leave(c)
    BY <2>7, LeaveSteps
  <2>8. CASE SoleSteps(c)
    BY <2>8, SoleStepsKeepBase
  <2>9. CASE ResolveNonce(c)
    BY <2>9, ResolveNonceSteps
  <2>10. CASE SendAccepted(c)
    BY <2>10, SendAcceptedSteps
  <2>11. CASE RefreshNonce(c)
    BY <2>11, RefreshNonceSteps
  <2>12. CASE TransportFails(c)
    BY <2>12, TransportFailsSteps
  <2>13. CASE FallbackBroadcast(c)
    BY <2>13, FallbackBroadcastSteps
  <2>14. CASE FallbackReturns(c)
    BY <2>14, FallbackReturnsSteps
  <2> QED
    BY <1>1, <2>1, <2>2, <2>3, <2>4, <2>5, <2>6, <2>7, <2>8, <2>9, <2>10, <2>11, <2>12, <2>13,
       <2>14 DEF Advance, SoleSteps
<1>2. ASSUME NEW u \in Users, Mine(u) \/ Drop(u) \/ Age(u) PROVE Base'
  BY <1>2, ChainSteps
<1>3. CASE UNCHANGED vars
  <2>0. /\ UNCHANGED <<call, lane, inFlight, waiting, reading>> /\ Typed
        /\ UNCHANGED <<cache, mined, pool, faults, lowered>>
    BY <1>3 DEF vars, Base
  <2>1. \A d \in Calls : JoinFits(d)' = JoinFits(d)
    BY <2>0 DEF JoinFits
  <2>2. \A v \in Users : ReadingFits(v)' = ReadingFits(v)
    BY <2>0 DEF ReadingFits
  <2>3. \A d \in Calls : Stays(d)
    BY <2>0 DEF Stays
  <2>4. Lanes'
    BY <2>0, <2>3, QuietLane DEF Base, Typed
  <2>5. Typed'
    BY <2>0 DEF Typed
  <2> QED
    BY <2>1, <2>2, <2>4, <2>5 DEF Base, JoinsFit
<1> QED
  BY <1>1, <1>2, <1>3 DEF Next

LEMMA BaseInit == Init => Base
<1> SUFFICES ASSUME Init PROVE Base
  OBVIOUS
<1>1. ASSUME NEW c \in Calls
      PROVE  /\ call[c] \in Records /\ call[c].pc \in {"new", "ready"} /\ call[c].joined = NoCall
             /\ ~call[c].accepted /\ ~call[c].prior /\ call[c].nonce = None
  <2>1. PICK p : p = IF c \in Prewarmed THEN "new" ELSE "ready"
    OBVIOUS
  <2>2. call[c] = [pc |-> p, nonce |-> None, attempt |-> 1, prior |-> FALSE,
                   accepted |-> FALSE, joined |-> NoCall, floor |-> NoEntry, low |-> 0]
    BY <2>1 DEF Init
  <2>3. NoEntry \in Entries /\ None \in Nonces /\ p \in {"new", "ready"} /\ p \in PCs
    BY <2>1 DEF NoEntry, Entries, Nonces, Ages, PCs
  <2> QED
    BY <2>2, <2>3 DEF Records
<1>2. call \in [Calls -> Records]
  <2>1. call = [c \in Calls |-> call[c]]
    BY DEF Init
  <2> QED
    BY <1>1, <2>1
<1>3. \A u \in Users : lane[u].running = FALSE /\ lane[u].queue = <<>>
  BY DEF Init
<1>4. Typed
  <2>1. NoEntry \in Entries
    BY DEF NoEntry, Entries, Nonces, Ages
  <2>2. cache \in [Users -> Entries] /\ reading \in [Users -> Calls \union {NoCall}]
    BY <2>1 DEF Init
  <2>3. PICK none : none = <<>>
    OBVIOUS
  <2>4. none \in Seq(Calls) /\ IsPool(none)
    BY <2>3, FS_EmptySet DEF IsPool
  <2>5. pool \in [Users -> Pools]
    BY <2>3, <2>4, PoolIs DEF Init
  <2>6. mined \in [Users -> Seq(Calls)] /\ waiting \in Seq(Calls) /\ inFlight \in Int
    BY DEF Init
  <2>7. faults \in [transport : Nat, reads : Nat, drops : Nat] /\ lowered \in BOOLEAN
    BY DEF Init
  <2>8. lane \in [Users -> [running : BOOLEAN, queue : Seq(Calls)]]
    <3>1. PICK idle : idle = [running |-> FALSE, queue |-> none]
      OBVIOUS
    <3>2. idle \in [running : BOOLEAN, queue : Seq(Calls)]
      BY <2>4, <3>1
    <3>3. lane = [u \in Users |-> idle]
      BY <2>3, <3>1 DEF Init
    <3> QED
      BY <3>2, <3>3
  <2> QED
    BY <1>2, <2>2, <2>5, <2>6, <2>7, <2>8 DEF Typed
<1>5. JoinsFit
  BY <1>1 DEF JoinsFit, JoinFits, ReadingFits, Init
<1>6. Lanes
  <2>1. \A c \in Calls : ~InLane(c)
    BY <1>1 DEF InLane, Inside
  <2>2. \A u \in Users : QueueFits(u)
    BY <1>3 DEF QueueFits
  <2>3. WaitingFits /\ NoIdlePlace
    BY DEF Init, WaitingFits, NoIdlePlace
  <2> QED
    BY <2>1, <2>2, <2>3 DEF Lanes, OneInLane
<1> QED
  BY <1>4, <1>5, <1>6 DEF Base

LEMMA BaseAlways == Spec => []Base
<1>1. Base /\ [Next]_vars => Base'
  BY BaseStep
<1> QED
  BY <1>1, BaseInit, PTL DEF Spec

\* No call waits at the limiter beside a free place: releaseChainSendPermit
\* wakes one for every place it gives back, and a newcomer that takes the
\* place first leaves the woken call one of its own (privyChainSendLimiter.ts:18-33).
THEOREM NoIdlePlaceAlways == Spec => []NoIdlePlace
<1>1. Base => NoIdlePlace
  BY DEF Base, Lanes
<1> QED
  BY <1>1, BaseAlways, PTL
-----------------------------------------------------------------------------
\* The moves between the stages of the queue, of the limiter and of the lane.
Ways == {<<"ready", "queued">>, <<"ready", "started">>, <<"queued", "started">>,
         <<"started", "waiting">>, <<"started", "entered">>, <<"waiting", "woken">>,
         <<"woken", "entered">>, <<"settled", "done">>}

Queues(c) == WithUserTransactionLock(c) \/ EnterLimiter(c) \/ TakePlace(c) \/ Leave(c)

LEMMA QueuesIs ==
  ASSUME Base, NEW c \in Calls, Queues(c)
  PROVE  /\ UNCHANGED <<cache, reading, mined, pool, faults, lowered>>
         /\ \A d \in Calls : /\ MovedOnly(d)
                             /\ call'[d].pc = call[d].pc \/ <<call[d].pc, call'[d].pc>> \in Ways
<1>0. UNCHANGED <<cache, reading, mined, pool, faults, lowered>>
  BY DEF Queues, WithUserTransactionLock, EnterLimiter, TakePlace, Leave
<1>1. ASSUME NEW p \in PCs, call' = Goto(c, p), <<call[c].pc, p>> \in Ways
      PROVE  \A d \in Calls : /\ MovedOnly(d)
                              /\ call'[d].pc = call[d].pc \/ <<call[d].pc, call'[d].pc>> \in Ways
  <2>1. /\ Alone(c) /\ Waits(c) /\ call'[c].pc = p /\ call'[c].nonce = call[c].nonce
        /\ call'[c].prior = call[c].prior /\ call'[c].accepted = call[c].accepted
    BY <1>1, GotoIs DEF Base
  <2> QED
    BY <1>1, <2>1 DEF Alone, Waits, MovedOnly
<1>2. CASE WithUserTransactionLock(c)
  <2>1. PICK p \in {"queued", "started"} : call' = Goto(c, p) /\ call[c].pc = "ready"
    BY <1>2 DEF WithUserTransactionLock
  <2>2. p \in PCs /\ <<call[c].pc, p>> \in Ways
    BY <2>1 DEF PCs, Ways
  <2> QED
    BY <1>0, <1>1, <2>1, <2>2
<1>3. CASE EnterLimiter(c)
  <2>1. PICK p \in {"waiting", "entered"} : call' = Goto(c, p) /\ call[c].pc = "started"
    BY <1>3 DEF EnterLimiter
  <2>2. p \in PCs /\ <<call[c].pc, p>> \in Ways
    BY <2>1 DEF PCs, Ways, Inside
  <2> QED
    BY <1>0, <1>1, <2>1, <2>2
<1>4. CASE TakePlace(c)
  <2>1. call' = Goto(c, "entered") /\ call[c].pc = "woken"
    BY <1>4 DEF TakePlace
  <2>2. "entered" \in PCs /\ <<call[c].pc, "entered">> \in Ways
    BY <2>1 DEF PCs, Ways, Inside
  <2> QED
    BY <1>0, <1>1, <2>1, <2>2
<1>5. CASE Leave(c)
  <2>1. PICK n : n = FirstOf(lane[UserOf[c]].queue)
    OBVIOUS
  <2>2. PICK w : w = FirstOf(waiting)
    OBVIOUS
  <2>3. Leaves(c, n, w) /\ call[c].pc = "settled"
    BY <1>5, <2>1, <2>2, LeaveIs DEF Base, Leave
  <2>4. n \in Calls => call[n].pc = "queued"
    <3>1. PICK q \in Seq(Calls) : q = lane[UserOf[c]].queue
      BY SendLaneAssumption DEF SendLaneAssumption, Base, Typed
    <3>2. \A k \in 1 .. Len(q) : call[q[k]].pc = "queued"
      BY <3>1, SendLaneAssumption DEF SendLaneAssumption, Base, Lanes, QueueFits
    <3>3. q # <<>> => Head(q) = q[1] /\ 1 \in 1 .. Len(q)
      OBVIOUS
    <3> QED
      BY <2>1, <3>1, <3>2, <3>3, SendLaneAssumption DEF SendLaneAssumption, FirstOf
  <2>5. w \in Calls => call[w].pc = "waiting"
    <3>1. waiting \in Seq(Calls) /\ \A k \in 1 .. Len(waiting) : call[waiting[k]].pc = "waiting"
      BY DEF Base, Typed, Lanes, WaitingFits
    <3>2. waiting # <<>> => Head(waiting) = waiting[1] /\ 1 \in 1 .. Len(waiting)
      BY <3>1
    <3> QED
      BY <2>2, <3>1, <3>2, SendLaneAssumption DEF SendLaneAssumption, FirstOf
  <2>6. ASSUME NEW d \in Calls
        PROVE  /\ MovedOnly(d)
               /\ call'[d].pc = call[d].pc \/ <<call[d].pc, call'[d].pc>> \in Ways
    BY <2>3, <2>4, <2>5 DEF Leaves, Ways
  <2> QED
    BY <1>0, <2>6
<1> QED
  BY <1>2, <1>3, <1>4, <1>5 DEF Queues
\* What a read answers, and to whom.
LEMMA ReadFailsIs ==
  ASSUME Typed, NEW c \in Calls, ReadFails(c)
  PROVE  \E nonce \in Nonces :
           /\ Deliver(c, nonce) /\ nonce \in {call[c].floor.nonce, None}
           /\ UNCHANGED <<cache, mined, pool, lowered>>
<1>1. call[c].floor.nonce \in Nonces
  BY DEF Typed, Records, Entries
<1>2. PICK nonce : nonce = IF call[c].floor.age = "old" THEN None ELSE call[c].floor.nonce
  OBVIOUS
<1>3. Deliver(c, nonce) /\ UNCHANGED <<cache, mined, pool, lowered>>
  BY <1>2 DEF ReadFails
<1>4. nonce \in Nonces /\ nonce \in {call[c].floor.nonce, None}
  BY <1>1, <1>2 DEF Nonces
<1> QED
  BY <1>3, <1>4

Answers(c) == \E n \in call[c].low .. PendingCount(UserOf[c]) : ReadAnswers(c, n)

Lowers(c, nonce) == /\ call[c].floor.nonce # cache[UserOf[c]].nonce
                    /\ nonce < cache[UserOf[c]].nonce

LEMMA ReadAnswersIs ==
  ASSUME Typed, NEW c \in Calls, Answers(c)
  PROVE  \E nonce \in Nat :
           /\ Deliver(c, nonce) /\ nonce >= call[c].low /\ nonce >= call[c].floor.nonce
           /\ nonce \in {call[c].floor.nonce} \union 0 .. PendingCount(UserOf[c])
           /\ cache'[UserOf[c]].nonce = nonce
           /\ \A u \in Users : u # UserOf[c] => cache'[u] = cache[u]
           /\ UNCHANGED <<mined, pool>>
           /\ lowered' <=> lowered \/ Lowers(c, nonce)
<1>1. /\ call[c].floor.nonce \in Int /\ call[c].low \in Nat /\ UserOf[c] \in Users
      /\ PendingCount(UserOf[c]) \in Nat
  BY PendingCountIs, UserOfIn, CallInt
<1>2. PICK n \in call[c].low .. PendingCount(UserOf[c]) : ReadAnswers(c, n)
  BY DEF Answers
<1>3. PICK nonce : nonce = ResolvePendingNonce(call[c].floor.nonce, n)
  OBVIOUS
<1>4. PICK e : e = [nonce |-> nonce, age |-> "fresh"]
  OBVIOUS
<1>5. /\ Deliver(c, nonce) /\ cache' = [cache EXCEPT ![UserOf[c]] = e] /\ UNCHANGED <<mined, pool>>
      /\ e.nonce = nonce
  BY <1>2, <1>3, <1>4 DEF ReadAnswers
<1>6. nonce = MaxOf(call[c].floor.nonce, n) /\ n \in Nat
  BY <1>1, <1>3 DEF ResolvePendingNonce
<1>7. /\ nonce \in Nat /\ nonce >= call[c].low /\ nonce >= call[c].floor.nonce
      /\ nonce \in {call[c].floor.nonce} \union 0 .. PendingCount(UserOf[c])
  BY <1>1, <1>6 DEF MaxOf
<1>8. lowered' = (lowered \/ Lowers(c, nonce))
  BY <1>2, <1>3 DEF ReadAnswers, Lowers
<1>9. /\ cache'[UserOf[c]].nonce = nonce
      /\ \A u \in Users : u # UserOf[c] => cache'[u] = cache[u]
  BY <1>1, <1>5 DEF Typed
<1> QED
  BY <1>5, <1>7, <1>8, <1>9
-----------------------------------------------------------------------------
(***************************************************************************)
(* What is on the chain of a call.                                          *)
(***************************************************************************)
LEMMA OnChainStays ==
  ASSUME NEW c \in Calls, UNCHANGED <<mined, pool>>
  PROVE  OnChain(c)' = OnChain(c)
BY DEF OnChain, Mined

LEMMA OnChainPlaced ==
  ASSUME Typed, NEW c \in Calls, Place(c), UNCHANGED mined, NEW d \in Calls
  PROVE  /\ OnChain(d)' \subseteq OnChain(d) \union {SentNonce(c)}
         /\ d # c => OnChain(d)' \subseteq OnChain(d)
         /\ OnChain(d) \ {SentNonce(c)} \subseteq OnChain(d)'
         /\ SentNonce(c) \in OnChain(c)'
         /\ UserOf[d] # UserOf[c] => OnChain(d)' = OnChain(d)
<1> DEFINE u == UserOf[d]
<1>1. u \in Users /\ UserOf[c] \in Users /\ Mined(u)' = Mined(u) /\ mined' = mined
  BY SendLaneAssumption DEF SendLaneAssumption, Mined
<1>2. SentNonce(c) \in OnChain(c)'
  BY PlaceIs DEF OnChain
<1>3. CASE UserOf[c] # u
  <2>1. pool'[u] = pool[u]
    BY <1>1, <1>3, PlaceIs
  <2>2. OnChain(d)' = OnChain(d)
    BY <1>1, <2>1 DEF OnChain
  <2> QED
    BY <1>2, <2>2
<1>4. CASE UserOf[c] = u
  <2>1. PICK s : s = SentNonce(c)
    OBVIOUS
  <2>2. PICK g : g = pool'[u]
    OBVIOUS
  <2>3. /\ DOMAIN g = DOMAIN pool[u] \union {s} /\ g[s] = c
        /\ \A m \in DOMAIN pool[u] : m # s => g[m] = pool[u][m]
    BY <1>4, <2>1, <2>2, PlaceIs
  <2>4. OnChain(d)' = {n \in 0 .. Mined(u) - 1 : mined[u][n + 1] = d} \union {n \in DOMAIN g : g[n] = d}
    BY <1>1, <2>2 DEF OnChain
  <2>5. OnChain(d) = {n \in 0 .. Mined(u) - 1 : mined[u][n + 1] = d} \union {n \in DOMAIN pool[u] : pool[u][n] = d}
    BY DEF OnChain
  <2> QED
    BY <1>2, <1>4, <2>1, <2>3, <2>4, <2>5
<1> QED
  BY <1>3, <1>4

LEMMA OnChainMined ==
  ASSUME Typed, NEW v \in Users, Mine(v), NEW d \in Calls
  PROVE  OnChain(d)' = OnChain(d)
<1> DEFINE u == UserOf[d]
<1>1. u \in Users /\ mined \in [Users -> Seq(Calls)] /\ pool \in [Users -> Pools]
  BY SendLaneAssumption DEF SendLaneAssumption, Typed
<1>2. PICK m : m = Mined(v)
  OBVIOUS
<1>3. /\ m \in DOMAIN pool[v] /\ mined' = [mined EXCEPT ![v] = Append(mined[v], pool[v][m])]
      /\ pool' = [pool EXCEPT ![v] = Restrict(pool[v], DOMAIN pool[v] \ {m})]
  BY <1>2 DEF Mine
<1>4. CASE u # v
  BY <1>1, <1>3, <1>4 DEF OnChain, Mined
<1>5. CASE u = v
  <2>1. PICK g : g = Restrict(pool[v], DOMAIN pool[v] \ {m})
    OBVIOUS
  <2>2. DOMAIN g = DOMAIN pool[v] \ {m} /\ \A n \in DOMAIN pool[v] : n # m => g[n] = pool[v][n]
    BY <1>1, <2>1, WithoutIs
  <2>3. PICK s \in Seq(Calls) : s = mined[v]
    BY <1>1
  <2>4. PICK p \in Calls : p = pool[v][m]
    BY <1>1, <1>3, PoolIs DEF IsPool
  <2>5. PICK t : t = Append(s, p)
    OBVIOUS
  <2>6. m = Len(s) /\ m \in Nat /\ Len(t) = m + 1 /\ t[m + 1] = p /\ \A n \in 0 .. m - 1 : t[n + 1] = s[n + 1]
    BY <1>2, <2>3, <2>5 DEF Mined
  <2>7. mined'[u] = t /\ pool'[u] = g
    BY <1>1, <1>3, <1>5, <2>1, <2>3, <2>4, <2>5
  <2>8. OnChain(d)' = {n \in 0 .. m : t[n + 1] = d} \union {n \in DOMAIN g : g[n] = d}
    BY <2>6, <2>7 DEF OnChain, Mined
  <2>9. OnChain(d) = {n \in 0 .. m - 1 : s[n + 1] = d} \union {n \in DOMAIN pool[v] : pool[v][n] = d}
    BY <1>5, <2>3, <2>6 DEF OnChain, Mined
  <2>10. \A n : n \in 0 .. m <=> n \in 0 .. m - 1 \/ n = m
    BY <2>6
  <2> QED
    BY <1>3, <2>2, <2>4, <2>6, <2>8, <2>9, <2>10
<1> QED
  BY <1>4, <1>5

LEMMA OnChainDropped ==
  ASSUME Typed, NEW v \in Users, Drop(v), NEW d \in Calls
  PROVE  OnChain(d)' \subseteq OnChain(d)
<1> DEFINE u == UserOf[d]
<1>1. u \in Users /\ pool \in [Users -> Pools] /\ UNCHANGED mined
  BY SendLaneAssumption DEF SendLaneAssumption, Typed, Drop
<1>2. PICK n \in DOMAIN pool[v] : pool' = [pool EXCEPT ![v] = Restrict(@, DOMAIN @ \ {n})]
  BY DEF Drop
<1>3. PICK g : g = Restrict(pool[v], DOMAIN pool[v] \ {n})
  OBVIOUS
<1>4. DOMAIN g = DOMAIN pool[v] \ {n} /\ \A m \in DOMAIN pool[v] : m # n => g[m] = pool[v][m]
  BY <1>1, <1>3, WithoutIs
<1>5. pool' = [pool EXCEPT ![v] = g]
  BY <1>2, <1>3
<1>6. CASE u # v
  BY <1>1, <1>5, <1>6 DEF OnChain, Mined
<1>7. CASE u = v
  BY <1>1, <1>4, <1>5, <1>7 DEF OnChain, Mined
<1> QED
  BY <1>6, <1>7
-----------------------------------------------------------------------------
(***************************************************************************)
(* One call, one transaction.  A call has something on the chain only after *)
(* it was accepted, and from then on it keeps its nonce.                     *)
(***************************************************************************)
Clean(c) == OnChain(c) = {} /\ ~call[c].prior

Once(c) ==
  /\ call[c].pc \notin {"fallback", "broadcast"}
  /\ \/ Clean(c) /\ call[c].pc # "watching"
     \/ call[c].pc \in {"settled", "done"}
     \/ /\ call[c].prior /\ call[c].pc \in {"watching", "sending"}
        /\ call[c].pc = "sending" => call[c].nonce # None
        /\ call[c].nonce # None => OnChain(c) \subseteq {call[c].nonce}
  /\ \A m, n \in OnChain(c) : m = n

OnceInv == Base /\ (faults.transport = 0 => \A c \in Calls : Once(c))

\* The moves that keep Once, whatever the step.
LEMMA OnceKept ==
  ASSUME NEW d \in Calls, Once(d), OnChain(d)' \subseteq OnChain(d), call'[d].prior = call[d].prior,
         \/ call'[d].pc = call[d].pc /\ call'[d].nonce = call[d].nonce
         \/ Clean(d) /\ call'[d].pc \notin {"fallback", "broadcast", "watching"}
         \/ call'[d].pc \in {"settled", "done"}
  PROVE  Once(d)'
BY DEF Once, Clean

LEMMA OnceHolder ==
  ASSUME Base, NEW c \in Calls, Alone(c), \A d \in Calls : Once(d),
         \A d \in Calls : d # c => OnChain(d)' \subseteq OnChain(d), Once(c)'
  PROVE  \A d \in Calls : Once(d)'
<1>1. ASSUME NEW d \in Calls, d # c PROVE Once(d)'
  BY <1>1, OnceKept DEF Alone
<1> QED
  BY <1>1

LEMMA WatchIs ==
  ASSUME Base, NEW c \in Calls, Watch(c)
  PROVE  /\ Keeps(c) /\ call[c].pc = "watching"
         /\ \/ call'[c].pc = "settled" /\ call'[c].accepted
            \/ call'[c].pc = "settled" /\ ~call'[c].accepted /\ Deterministic(c)
            \/ /\ call'[c].pc = "sending" /\ call'[c].accepted = call[c].accepted
               /\ call[c].nonce # None
<1>1. call[c].pc = "watching"
  BY DEF Watch
<1>2. \/ call' = Settled(c, TRUE)
      \/ Deterministic(c) /\ call' = Settled(c, FALSE)
      \/ call[c].nonce # None /\ call' = Retry(c)
  BY DEF Watch
<1>3. Typed
  BY DEF Base
<1> QED
  BY <1>1, <1>2, <1>3, SettledIs, RetryIs DEF Keeps, Waits

\* Every other step of the holder that leaves nothing but its own state: it
\* tries again with the same nonce, or gives up, or adopts what was sent before.
Retries(c) == SendRefused(c) \/ Outbid(c) \/ FallbackFails(c)
Ends(c)    == Suppress(c) \/ GiveUpNonce(c) \/ Retries(c)

LEMMA EndsIs ==
  ASSUME Base, NEW c \in Calls, Ends(c)
  PROVE  /\ Keeps(c)
         /\ \/ call'[c].pc = "settled" /\ ~call'[c].accepted
            \/ /\ Retries(c) /\ call'[c].pc = "sending" /\ call[c].pc \in {"sending", "fallback"}
               /\ call'[c].accepted = call[c].accepted
<1>1. \/ call' = Settled(c, FALSE)
      \/ Retries(c) /\ call' = Retry(c) /\ call[c].pc \in {"sending", "fallback"}
  BY DEF Ends, Retries, Suppress, SendRefused, GiveUpNonce, Outbid, FallbackFails, NonceError
<1>2. Typed
  BY DEF Base
<1> QED
  BY <1>1, <1>2, SettledIs, RetryIs DEF Keeps, Waits

LEMMA AdoptPriorIs ==
  ASSUME Base, NEW c \in Calls, AdoptPrior(c)
  PROVE  /\ Keeps(c) /\ call[c].pc = "sending" /\ call[c].prior /\ call[c].nonce # None
         /\ call'[c].pc = "settled" /\ call'[c].accepted
<1>1. call' = Settled(c, TRUE) /\ call[c].pc = "sending" /\ call[c].prior /\ call[c].nonce # None
  BY DEF AdoptPrior, NonceError
<1> QED
  BY <1>1, SettledIs DEF Keeps, Waits, Base

LEMMA FaultsGrow ==
  ASSUME Typed, [Next]_vars
  PROVE  /\ faults'.transport \in {faults.transport, faults.transport + 1}
         /\ faults'.drops \in {faults.drops, faults.drops + 1}
         /\ faults'.reads \in {faults.reads, faults.reads + 1}
         /\ faults.transport \in Nat /\ faults.drops \in Nat /\ faults.reads \in Nat
<1>1. \/ UNCHANGED faults
      \/ faults' = [faults EXCEPT !.reads = @ + 1]
      \/ faults' = [faults EXCEPT !.transport = @ + 1]
      \/ faults' = [faults EXCEPT !.drops = @ + 1]
  <2>1. ASSUME NEW c \in Calls, Advance(c)
        PROVE  \/ UNCHANGED faults
               \/ faults' = [faults EXCEPT !.reads = @ + 1]
               \/ faults' = [faults EXCEPT !.transport = @ + 1]
    BY <2>1 DEF Advance, Prewarm, LoadFloor, GetPendingNonce, ReadAnswers, ReadFails,
         WithUserTransactionLock, EnterLimiter, TakePlace, Leave, Suppress, ResolveNonce,
         SendAccepted, Watch, SendRefused, AdoptPrior, GiveUpNonce, Outbid, RefreshNonce,
         TransportFails, FallbackBroadcast, FallbackReturns, FallbackFails
  <2>2. ASSUME NEW u \in Users, Mine(u) \/ Drop(u) \/ Age(u)
        PROVE  UNCHANGED faults \/ faults' = [faults EXCEPT !.drops = @ + 1]
    BY <2>2 DEF Mine, Drop, Age
  <2> QED
    BY <2>1, <2>2 DEF Next, vars
<1>2. faults \in [transport : Nat, reads : Nat, drops : Nat]
  BY DEF Typed
<1> QED
  BY <1>1, <1>2

LEMMA OnceStep ==
  ASSUME OnceInv, [Next]_vars, faults'.transport = 0
  PROVE  \A d \in Calls : Once(d)'
<1>0. Base /\ Typed /\ Base'
  BY BaseStep DEF OnceInv, Base
<1>1. faults.transport = 0
  BY <1>0, FaultsGrow
<1>2. \A d \in Calls : Once(d)
  BY <1>1 DEF OnceInv
<1>3. UNCHANGED <<mined, pool>> => \A d \in Calls : OnChain(d)' \subseteq OnChain(d)
  BY OnChainStays
<1>4. ASSUME NEW c \in Calls, Advance(c) PROVE \A d \in Calls : Once(d)'
  <2>1. CASE Prewarm(c) \/ LoadFloor(c)
    <3>1. GetPendingNonce(c) /\ call[c].pc \in {"new", "entered"}
      BY <2>1 DEF Prewarm, LoadFloor
    <3>2. /\ Alone(c) /\ UNCHANGED <<mined, pool>>
          /\ HasFresh(c) \/ SameBut(c)
      BY <1>0, <3>1, GetPendingNonceIs
    <3>3. Clean(c) /\ call'[c].prior = call[c].prior /\ call'[c].pc \notin {"fallback", "broadcast", "watching"}
      BY <1>2, <3>1, <3>2 DEF Once, HasFresh, Takes, SameBut
    <3>4. Once(c)'
      BY <1>2, <1>3, <3>2, <3>3, OnceKept
    <3> QED
      BY <1>0, <1>2, <1>3, <3>2, <3>4, OnceHolder
  <2>2. CASE ReadFails(c) \/ Answers(c)
    <3>1. UNCHANGED <<mined, pool>> /\ \E nonce \in Nonces : Deliver(c, nonce)
      BY <1>0, <2>2, ReadFailsIs, ReadAnswersIs DEF Nonces
    <3>2. PICK nonce \in Nonces : Deliver(c, nonce)
      BY <3>1
    <3>3. /\ \A d \in Calls : call[d].joined # c => call'[d] = call[d]
          /\ \A d \in Calls : call[d].joined = c => Heard(d, nonce)
      BY <1>0, <3>2, DeliverIs DEF Base
    <3>4. ASSUME NEW d \in Calls PROVE Once(d)'
      <4>1. CASE call[d].joined # c
        BY <1>2, <1>3, <3>1, <3>3, <4>1, OnceKept
      <4>2. CASE call[d].joined = c
        <5>1. call[d].pc \in {"new", "entered", "refreshing"}
          BY <1>0, <4>2, SendLaneAssumption DEF SendLaneAssumption, Base, JoinsFit, JoinFits
        <5>2. Takes(call'[d], call[d], nonce)
          BY <3>3, <4>2 DEF Heard
        <5>3. Clean(d)
          BY <1>2, <5>1 DEF Once
        <5>4. call'[d].prior = call[d].prior /\ call'[d].pc \in {"ready", "nonced", "sending"}
          BY <5>1, <5>2 DEF Takes
        <5> QED
          BY <1>2, <1>3, <3>1, <5>3, <5>4, OnceKept
      <4> QED
        BY <4>1, <4>2
    <3> QED
      BY <3>4
  <2>3. CASE Queues(c)
    <3>1. /\ UNCHANGED <<mined, pool>>
          /\ \A d \in Calls : /\ MovedOnly(d)
                              /\ call'[d].pc = call[d].pc \/ <<call[d].pc, call'[d].pc>> \in Ways
      BY <1>0, <2>3, QueuesIs
    <3>2. ASSUME NEW d \in Calls PROVE Once(d)'
      <4>1. OnChain(d)' \subseteq OnChain(d) /\ MovedOnly(d) /\ Once(d)
        BY <1>2, <1>3, <3>1
      <4>2. CASE call'[d].pc = call[d].pc
        BY <4>1, <4>2, OnceKept DEF MovedOnly
      <4>3. CASE <<call[d].pc, call'[d].pc>> \in Ways
        <5>1. \/ call[d].pc \in {"ready", "queued", "started", "waiting", "woken"}
                 /\ call'[d].pc \in {"queued", "started", "waiting", "woken", "entered"}
              \/ call'[d].pc = "done"
          BY <4>3 DEF Ways
        <5>2. call[d].pc \in {"ready", "queued", "started", "waiting", "woken"} => Clean(d)
          BY <4>1 DEF Once
        <5> QED
          BY <4>1, <5>1, <5>2, OnceKept DEF MovedOnly
      <4> QED
        BY <3>1, <4>2, <4>3
    <3> QED
      BY <3>2
  <2>4. CASE Ends(c) \/ AdoptPrior(c)
    <3>1. UNCHANGED <<mined, pool>>
      BY <2>4, SoleStepsAre DEF Ends, Retries, SoleSteps
    <3>2. Keeps(c) /\ (call'[c].pc = "settled" \/ (call'[c].pc = "sending" /\ call[c].pc \in {"sending", "fallback"}))
      BY <1>0, <2>4, EndsIs, AdoptPriorIs
    <3>3. call[c].pc # "fallback"
      BY <1>2 DEF Once
    <3>4. Once(c)'
      BY <1>2, <1>3, <3>1, <3>2, <3>3, OnceKept DEF Keeps
    <3> QED
      BY <1>0, <1>2, <1>3, <3>1, <3>2, <3>4, OnceHolder DEF Keeps
  <2>5. CASE Watch(c)
    <3>1. UNCHANGED <<mined, pool>>
      BY <2>5 DEF Watch
    <3>2. /\ Keeps(c) /\ call[c].pc = "watching"
          /\ call'[c].pc = "settled" \/ (call'[c].pc = "sending" /\ call[c].nonce # None)
      BY <1>0, <2>5, WatchIs
    <3>3. Once(c) /\ OnChain(c)' = OnChain(c)
      BY <1>2, <3>1, OnChainStays
    <3>4. Once(c)'
      BY <3>2, <3>3 DEF Once, Keeps
    <3> QED
      BY <1>0, <1>2, <1>3, <3>1, <3>2, <3>4, OnceHolder DEF Keeps
  <2>6. CASE ResolveNonce(c)
    <3>1. UNCHANGED <<mined, pool>> /\ call[c].pc = "nonced"
      BY <2>6 DEF ResolveNonce
    <3>2. Alone(c) /\ call'[c].pc = "sending" /\ call'[c].prior = call[c].prior
      BY <1>0, <2>6, ResolveNonceSteps
    <3>3. Clean(c)
      BY <1>2, <3>1 DEF Once
    <3>4. Once(c)'
      BY <1>2, <1>3, <3>1, <3>2, <3>3, OnceKept
    <3> QED
      BY <1>0, <1>2, <1>3, <3>1, <3>2, <3>4, OnceHolder
  <2>7. CASE RefreshNonce(c)
    <3>1. UNCHANGED <<mined, pool>> /\ call[c].pc = "sending"
      BY <2>7 DEF RefreshNonce, NonceError
    <3>2. Keeps(c) /\ call'[c].pc = "refreshing" /\ ~call[c].prior
      BY <1>0, <2>7, RefreshNonceSteps
    <3>3. Clean(c)
      BY <1>2, <3>1, <3>2 DEF Once
    <3>4. Once(c)'
      BY <1>2, <1>3, <3>1, <3>2, <3>3, OnceKept DEF Keeps
    <3> QED
      BY <1>0, <1>2, <1>3, <3>1, <3>2, <3>4, OnceHolder DEF Keeps
  <2>8. CASE SendAccepted(c)
    <3>1. Place(c) /\ UNCHANGED mined /\ call[c].pc = "sending"
      BY <2>8 DEF SendAccepted
    <3>2. /\ Alone(c) /\ call'[c].nonce = call[c].nonce
          /\ call'[c].pc = "settled" \/ (call'[c].pc = "watching" /\ call'[c].prior)
      BY <1>0, <2>8, SendAcceptedSteps
    <3>3. PICK s : s = SentNonce(c)
      OBVIOUS
    <3>4. call[c].nonce # None => s = call[c].nonce
      BY <1>0, <3>3, SentNonceIs
    <3>5. OnChain(c)' \subseteq OnChain(c) \union {s}
      BY <1>0, <3>1, <3>3, OnChainPlaced
    <3>6. OnChain(c) \subseteq {s}
      BY <1>2, <3>1, <3>4 DEF Once, Clean
    <3>7. Once(c)'
      BY <3>2, <3>4, <3>5, <3>6 DEF Once
    <3>8. \A d \in Calls : d # c => OnChain(d)' \subseteq OnChain(d)
      BY <1>0, <3>1, OnChainPlaced
    <3> QED
      BY <1>0, <1>2, <3>2, <3>7, <3>8, OnceHolder
  <2>9. CASE TransportFails(c)
    <3>1. faults'.transport > faults.transport
      BY <1>0, <2>9, TransportFailsSteps
    <3> QED
      BY <1>1, <3>1
  <2>10. CASE FallbackBroadcast(c) \/ FallbackReturns(c)
    BY <1>2, <2>10 DEF FallbackBroadcast, FallbackReturns, Once
  <2> QED
    BY <1>4, <2>1, <2>2, <2>3, <2>4, <2>5, <2>6, <2>7, <2>8, <2>9, <2>10
       DEF Advance, Queues, Ends, Retries, Answers
<1>5. ASSUME NEW u \in Users, Mine(u) \/ Drop(u) \/ Age(u), NEW d \in Calls PROVE Once(d)'
  <2>1. UNCHANGED call
    BY <1>5 DEF Mine, Drop, Age
  <2>2. OnChain(d)' \subseteq OnChain(d)
    BY <1>0, <1>3, <1>5, OnChainMined, OnChainDropped DEF Age
  <2> QED
    BY <1>2, <2>1, <2>2, OnceKept
<1>6. CASE UNCHANGED vars
  <2>1. UNCHANGED call /\ UNCHANGED <<mined, pool>>
    BY <1>6 DEF vars
  <2> QED
    BY <1>2, <1>3, <2>1, OnceKept
<1> QED
  BY <1>4, <1>5, <1>6 DEF Next

LEMMA OnChainInit == Init => \A c \in Calls : OnChain(c) = {} /\ ~call[c].prior /\ ~call[c].accepted
<1> SUFFICES ASSUME Init, NEW c \in Calls PROVE OnChain(c) = {} /\ ~call[c].prior /\ ~call[c].accepted
  OBVIOUS
<1>1. UserOf[c] \in Users
  BY SendLaneAssumption DEF SendLaneAssumption
<1>2. mined[UserOf[c]] = <<>> /\ pool[UserOf[c]] = <<>>
  BY <1>1 DEF Init
<1>3. OnChain(c) = {}
  BY <1>2 DEF OnChain, Mined
<1>4. PICK p : p = IF c \in Prewarmed THEN "new" ELSE "ready"
  OBVIOUS
<1>5. call[c] = [pc |-> p, nonce |-> None, attempt |-> 1, prior |-> FALSE,
                 accepted |-> FALSE, joined |-> NoCall, floor |-> NoEntry, low |-> 0]
  BY <1>4 DEF Init
<1> QED
  BY <1>3, <1>5

\* While the transport answers, one call puts at most one transaction on the
\* chain, through refusals, refreshed nonces and gas bumps: it leaves its
\* nonce only when nothing was accepted (privyWallet.ts:1616-1635).
THEOREM SentOnceAlways == Spec => []SentOnce
<1>1. Init => OnceInv
  <2>1. ASSUME Init, NEW c \in Calls PROVE Once(c)
    <3>1. call[c].pc \in {"new", "ready"}
      BY <2>1 DEF Init
    <3> QED
      BY <2>1, <3>1, OnChainInit DEF Once, Clean
  <2> QED
    BY <2>1, BaseInit DEF OnceInv
<1>2. OnceInv /\ [Next]_vars => OnceInv'
  BY BaseStep, OnceStep DEF OnceInv
<1>3. OnceInv => SentOnce
  <2>1. ASSUME NEW c \in Calls, \A m, n \in OnChain(c) : m = n PROVE Cardinality(OnChain(c)) <= 1
    <3>1. CASE OnChain(c) = {}
      BY <3>1, FS_EmptySet
    <3>2. CASE OnChain(c) # {}
      <4>1. PICK n : OnChain(c) = {n}
        BY <2>1, <3>2
      <4> QED
        BY <4>1, FS_Singleton
    <3> QED
      BY <3>1, <3>2
  <2> QED
    BY <2>1 DEF OnceInv, SentOnce, Once
<1> QED
  BY <1>1, <1>2, <1>3, PTL DEF Spec
-----------------------------------------------------------------------------
(***************************************************************************)
(* No gap.  While the mempool forgets nothing, no nonce that is known        *)
(* anywhere is above the pending count, and that count never falls.          *)
(***************************************************************************)
CountOf(D, M) == CHOOSE n \in M .. M + Cardinality(D) : n \notin D /\ \A m \in M .. n - 1 : m \in D

LEMMA CountOfInterval ==
  ASSUME NEW M \in Nat, NEW p \in Nat, p >= M
  PROVE  CountOf(M .. p - 1, M) = p
<1>1. PICK D : D = M .. p - 1
  OBVIOUS
<1>2. IsFiniteSet(D) /\ Cardinality(D) = p - M
  <2>1. PICK k \in Int : k = p - 1
    OBVIOUS
  <2>2. D = M .. k /\ M \in Int /\ (M > k => p - M = 0) /\ (M <= k => k - M + 1 = p - M)
    BY <1>1, <2>1
  <2>3. IsFiniteSet(M .. k) /\ Cardinality(M .. k) = IF M > k THEN 0 ELSE k - M + 1
    BY FS_Interval
  <2> QED
    BY <2>2, <2>3
<1> DEFINE P(n) == n \notin D /\ \A m \in M .. n - 1 : m \in D
<1>3. p \in M .. M + Cardinality(D) /\ P(p)
  BY <1>1, <1>2
<1>4. ASSUME NEW n \in M .. M + Cardinality(D), P(n) PROVE n = p
  <2>1. n \in Nat
    BY <1>2
  <2>2. ~(n < p)
    BY <1>1, <1>4, <2>1
  <2>3. ~(n > p)
    <3>1. SUFFICES ASSUME n > p PROVE FALSE
      OBVIOUS
    <3>2. p \in M .. n - 1
      BY <2>1, <3>1
    <3> QED
      BY <1>1, <1>4, <3>2
  <2> QED
    BY <2>1, <2>2, <2>3
<1>5. CountOf(D, M) = CHOOSE n \in M .. M + Cardinality(D) : P(n)
  BY DEF CountOf
<1>6. CountOf(D, M) \in M .. M + Cardinality(D) /\ P(CountOf(D, M))
  <2> HIDE DEF P
  <2> QED
    BY <1>3, <1>5
<1> HIDE DEF P
<1> QED
  BY <1>1, <1>4, <1>6

Gapless(u) == DOMAIN pool[u] = Mined(u) .. PendingCount(u) - 1

LEMMA GaplessFrom ==
  ASSUME NEW u \in Users, Mined(u)' \in Nat, NEW p \in Nat, p >= Mined(u)',
         DOMAIN pool'[u] = Mined(u)' .. p - 1
  PROVE  PendingCount(u)' = p /\ Gapless(u)'
<1>1. PICK M : M = Mined(u)'
  OBVIOUS
<1>2. PICK D : D = DOMAIN pool'[u]
  OBVIOUS
<1>3. PendingCount(u)' = CountOf(D, M)
  BY <1>1, <1>2 DEF PendingCount, CountOf
<1>4. CountOf(D, M) = p
  BY <1>1, <1>2, CountOfInterval
<1> QED
  BY <1>3, <1>4 DEF Gapless

LEMMA CountStays ==
  ASSUME NEW u \in Users, pool'[u] = pool[u], mined'[u] = mined[u]
  PROVE  PendingCount(u)' = PendingCount(u) /\ Mined(u)' = Mined(u) /\ (Gapless(u) => Gapless(u)')
<1>1. Mined(u)' = Mined(u)
  BY DEF Mined
<1>2. PendingCount(u)' = PendingCount(u)
  BY <1>1 DEF PendingCount
<1> QED
  BY <1>1, <1>2 DEF Gapless

\* A transaction at a nonce that is not above the pending count leaves no gap.
LEMMA PlacedCount ==
  ASSUME Typed, NEW c \in Calls, Place(c), UNCHANGED mined, ~TooLow(c),
         \A u \in Users : Gapless(u), call[c].nonce <= PendingCount(UserOf[c])
  PROVE  /\ \A u \in Users : Gapless(u)' /\ PendingCount(u)' >= PendingCount(u) /\ PendingCount(u)' \in Nat
         /\ SentNonce(c) < PendingCount(UserOf[c])'
<1>1. PICK v \in Users : v = UserOf[c]
  BY SendLaneAssumption DEF SendLaneAssumption
<1>2. PICK s : s = SentNonce(c)
  OBVIOUS
<1>3. PICK M : M = Mined(v)
  OBVIOUS
<1>4. PICK p : p = PendingCount(v)
  OBVIOUS
<1>5. M \in Nat /\ p \in Nat /\ p >= M /\ s \in Nat /\ s >= M /\ s <= p
  <2>1. p \in Nat /\ M \in Nat /\ p >= M /\ s \in Nat
    BY <1>1, <1>2, <1>3, <1>4, PendingCountIs, SentNonceIs
  <2>2. s >= M
    BY <1>1, <1>2, <1>3, <2>1 DEF TooLow
  <2>3. s <= p
    BY <1>1, <1>2, <1>4, <2>1 DEF SentNonce
  <2> QED
    BY <2>1, <2>2, <2>3
<1>6. PICK q : q = IF s = p THEN p + 1 ELSE p
  OBVIOUS
<1>7. q \in Nat /\ q >= p /\ s < q /\ q >= M
  BY <1>5, <1>6
<1>8. DOMAIN pool'[v] = M .. q - 1
  <2>1. DOMAIN pool'[v] = DOMAIN pool[v] \union {s}
    BY <1>1, <1>2, PlaceIs
  <2>2. DOMAIN pool[v] = M .. p - 1
    BY <1>3, <1>4 DEF Gapless
  <2> QED
    BY <1>5, <1>6, <2>1, <2>2
<1>9. Mined(v)' = M
  BY <1>3 DEF Mined
<1>10. PendingCount(v)' = q /\ Gapless(v)'
  BY <1>5, <1>7, <1>8, <1>9, GaplessFrom
<1>11. ASSUME NEW u \in Users, u # v
       PROVE  Gapless(u)' /\ PendingCount(u)' >= PendingCount(u) /\ PendingCount(u)' \in Nat
  <2>1. pool'[u] = pool[u] /\ mined'[u] = mined[u]
    BY <1>1, <1>11, PlaceIs
  <2> QED
    BY <2>1, CountStays, PendingCountIs
<1> QED
  BY <1>1, <1>2, <1>4, <1>7, <1>10, <1>11

LEMMA MinedCount ==
  ASSUME Typed, NEW v \in Users, Mine(v), \A u \in Users : Gapless(u), NEW u \in Users
  PROVE  Gapless(u)' /\ PendingCount(u)' = PendingCount(u)
<1>1. PICK M : M = Mined(v)
  OBVIOUS
<1>2. PICK p : p = PendingCount(v)
  OBVIOUS
<1>3. /\ M \in Nat /\ p \in Nat /\ p >= M /\ M \in DOMAIN pool[v] /\ DOMAIN pool[v] = M .. p - 1
      /\ mined' = [mined EXCEPT ![v] = Append(mined[v], pool[v][M])]
      /\ pool' = [pool EXCEPT ![v] = Restrict(pool[v], DOMAIN pool[v] \ {M})]
  BY <1>1, <1>2, PendingCountIs DEF Mine, Gapless
<1>4. CASE u # v
  <2>1. pool'[u] = pool[u] /\ mined'[u] = mined[u]
    BY <1>3, <1>4 DEF Typed
  <2> QED
    BY <2>1, CountStays
<1>5. CASE u = v
  <2>1. PICK g : g = Restrict(pool[v], DOMAIN pool[v] \ {M})
    OBVIOUS
  <2>2. DOMAIN g = DOMAIN pool[v] \ {M}
    BY <2>1, WithoutIs DEF Typed
  <2>3. pool'[v] = g
    BY <1>3, <2>1 DEF Typed
  <2>4. DOMAIN g = M + 1 .. p - 1
    BY <1>3, <2>2
  <2>5. Mined(v)' = M + 1
    <3>1. PICK s \in Seq(Calls) : s = mined[v]
      BY DEF Typed
    <3>2. PICK t : t = Append(s, pool[v][M])
      OBVIOUS
    <3>3. Len(t) = Len(s) + 1
      BY <3>2
    <3>4. mined'[v] = t
      BY <1>3, <3>1, <3>2 DEF Typed
    <3> QED
      BY <1>1, <3>1, <3>3, <3>4 DEF Mined
  <2>6. p >= M + 1
    BY <1>3
  <2>7. PendingCount(v)' = p /\ Gapless(v)'
    <3>1. PICK N \in Nat : N = Mined(v)'
      BY <1>3, <2>5
    <3>2. Mined(v)' \in Nat /\ p >= Mined(v)' /\ DOMAIN pool'[v] = Mined(v)' .. p - 1
      BY <2>3, <2>4, <2>5, <2>6, <3>1
    <3> QED
      BY <1>3, <3>2, GaplessFrom
  <2> QED
    BY <1>2, <1>5, <2>7
<1> QED
  BY <1>4, <1>5

Bound(c) ==
  /\ call[c].nonce <= PendingCount(UserOf[c]) /\ call[c].floor.nonce <= PendingCount(UserOf[c])
  /\ call[c].pc \in {"refreshing", "broadcast"} /\ call[c].nonce # None =>
       call[c].nonce < PendingCount(UserOf[c])

Bounded == /\ \A u \in Users : Gapless(u) /\ cache[u].nonce <= PendingCount(u)
           /\ \A c \in Calls : Bound(c)

GapInv == Base /\ (faults.drops = 0 => Bounded)

\* The counts do not fall.
Grows == \A u \in Users : /\ PendingCount(u) \in Nat /\ PendingCount(u)' \in Nat
                          /\ PendingCount(u)' >= PendingCount(u)

LEMMA BoundKept ==
  ASSUME Typed, Grows, NEW d \in Calls, Bound(d), call'[d].nonce = call[d].nonce,
         call'[d].floor \in {call[d].floor, NoEntry},
         call'[d].pc = call[d].pc \/ call'[d].pc \notin {"refreshing", "broadcast"}
  PROVE  Bound(d)'
<1>1. PICK u \in Users : u = UserOf[d]
  BY SendLaneAssumption DEF SendLaneAssumption
<1>2. PICK p \in Nat : p = PendingCount(u)
  BY DEF Grows
<1>3. PICK q \in Nat : q = PendingCount(u)'
  BY DEF Grows
<1>4. q >= p
  BY <1>2, <1>3 DEF Grows
<1>5. call[d].nonce \in Int /\ call[d].floor.nonce \in Int /\ NoEntry.nonce = -1
  BY CallInt DEF NoEntry, None
<1>6. /\ call[d].nonce <= p /\ call[d].floor.nonce <= p
      /\ call[d].pc \in {"refreshing", "broadcast"} /\ call[d].nonce # None => call[d].nonce < p
  BY <1>1, <1>2 DEF Bound
<1>7. /\ call'[d].nonce <= q /\ call'[d].floor.nonce <= q
      /\ call'[d].pc \in {"refreshing", "broadcast"} /\ call'[d].nonce # None => call'[d].nonce < q
  BY <1>4, <1>5, <1>6
<1> QED
  BY <1>1, <1>3, <1>7 DEF Bound

LEMMA BoundSet ==
  ASSUME NEW d \in Calls, NEW q \in Int, q = PendingCount(UserOf[d])',
         call'[d].nonce <= q, call'[d].floor.nonce <= q, call'[d].pc \notin {"refreshing", "broadcast"}
  PROVE  Bound(d)'
BY DEF Bound
-----------------------------------------------------------------------------
LEMMA BoundHolder ==
  ASSUME Base, Grows, NEW c \in Calls, Alone(c), \A d \in Calls : Bound(d), Bound(c)'
  PROVE  \A d \in Calls : Bound(d)'
<1>1. ASSUME NEW d \in Calls, d # c PROVE Bound(d)'
  BY <1>1, BoundKept DEF Alone, Base
<1> QED
  BY <1>1

LEMMA GrowsStill ==
  ASSUME Typed, Bounded, UNCHANGED <<mined, pool>>
  PROVE  /\ Grows /\ \A u \in Users : Gapless(u)' /\ PendingCount(u)' = PendingCount(u)
         /\ \A u \in Users : cache'[u] = cache[u] => cache'[u].nonce <= PendingCount(u)'
<1>1. ASSUME NEW u \in Users
      PROVE  /\ PendingCount(u)' = PendingCount(u) /\ Gapless(u)' /\ PendingCount(u) \in Nat
             /\ cache[u].nonce <= PendingCount(u)
  BY CountStays, PendingCountIs DEF Bounded
<1>2. ASSUME NEW u \in Users PROVE PendingCount(u)' >= PendingCount(u) /\ PendingCount(u)' \in Nat
  BY <1>1
<1> QED
  BY <1>1, <1>2 DEF Grows

\* The steps that change nothing on the chain, nor the cache.
LEMMA BoundedStill ==
  ASSUME Base, Bounded, UNCHANGED <<mined, pool, cache>>,
         \A d \in Calls : call'[d] = call[d] \/ Bound(d)'
  PROVE  Bounded'
<1>1. /\ Grows /\ \A u \in Users : Gapless(u)' /\ PendingCount(u)' = PendingCount(u)
      /\ \A u \in Users : cache'[u].nonce <= PendingCount(u)'
  BY GrowsStill DEF Base
<1>2. ASSUME NEW d \in Calls PROVE Bound(d)'
  <2>1. CASE call'[d] = call[d]
    BY <1>1, <2>1, BoundKept DEF Base, Bounded
  <2> QED
    BY <2>1
<1> QED
  BY <1>1, <1>2 DEF Bounded

LEMMA CacheStill ==
  ASSUME Typed, Bounded, Grows, NEW u \in Users, cache'[u].nonce = cache[u].nonce
  PROVE  cache'[u].nonce <= PendingCount(u)'
<1>1. PICK p \in Nat : p = PendingCount(u)
  BY DEF Grows
<1>2. PICK q \in Nat : q = PendingCount(u)' /\ q >= p
  BY <1>1 DEF Grows
<1>3. cache[u].nonce \in Int /\ cache[u].nonce <= p
  BY <1>1, CacheInt DEF Bounded
<1> QED
  BY <1>2, <1>3

\* A step that places a transaction of c, and may seed the cache with it.
LEMMA BoundedPlaced ==
  ASSUME Base, Base', Bounded, NEW c \in Calls, Place(c), ~TooLow(c), UNCHANGED mined,
         Seed(c) \/ UNCHANGED cache, Alone(c), call'[c].nonce = call[c].nonce,
         call'[c].floor \in {call[c].floor, NoEntry}, call'[c].pc # "refreshing"
  PROVE  Bounded'
<1>1. UserOf[c] \in Users /\ Typed
  BY SendLaneAssumption DEF SendLaneAssumption, Base
<1>2. PICK u \in Users : u = UserOf[c]
  BY <1>1
<1>3. /\ \A v \in Users : Gapless(v)' /\ PendingCount(v)' >= PendingCount(v) /\ PendingCount(v)' \in Nat
      /\ SentNonce(c) < PendingCount(u)'
  BY <1>1, <1>2, PlacedCount DEF Bounded, Bound
<1>4. Grows
  BY <1>1, <1>3, PendingCountIs DEF Grows
<1>5. PICK q \in Nat : q = PendingCount(u)'
  BY <1>3
<1>6. call[c].nonce \in Nonces /\ (call[c].nonce # None => call[c].nonce < q)
  BY <1>1, <1>3, <1>5, SentNonceIs DEF Typed, Records
<1>7. ASSUME NEW v \in Users PROVE cache'[v].nonce <= PendingCount(v)'
  <2>1. CASE Seed(c) /\ call[c].nonce # None /\ v = u
    <3>1. cache'[v].nonce = call[c].nonce + 1
      BY <1>1, <1>2, <2>1, SeedIs
    <3> QED
      BY <1>5, <1>6, <2>1, <3>1 DEF Nonces
  <2>2. CASE cache'[v] = cache[v]
    BY <1>1, <1>4, <2>2, CacheStill
  <2> QED
    BY <1>1, <1>2, <2>1, <2>2, SeedIs
<1>8. Bound(c)'
  <2>1. PICK p \in Nat : p = PendingCount(u) /\ q >= p
    BY <1>3, <1>4, <1>5 DEF Grows
  <2>2. call[c].nonce <= p /\ call[c].floor.nonce <= p
    BY <1>2, <2>1 DEF Bounded, Bound
  <2>3. call[c].nonce \in Int /\ call[c].floor.nonce \in Int /\ NoEntry.nonce = -1
    BY <1>1, CallInt DEF NoEntry, None
  <2>4. call'[c].nonce <= q /\ call'[c].floor.nonce <= q
    BY <2>1, <2>2, <2>3
  <2>5. call'[c].nonce # None => call'[c].nonce < q
    BY <1>6
  <2> QED
    BY <1>2, <1>5, <2>4, <2>5 DEF Bound
<1>9. \A d \in Calls : Bound(d)'
  BY <1>4, <1>8, BoundHolder DEF Bounded
<1> QED
  BY <1>3, <1>7, <1>9 DEF Bounded

LEMMA BoundDelivered ==
  ASSUME Base, Bounded, NEW c \in Calls, NEW nonce \in Nonces, Deliver(c, nonce),
         nonce <= PendingCount(UserOf[c]), UNCHANGED <<mined, pool>>, NEW d \in Calls
  PROVE  Bound(d)'
<1>1. /\ call[d].joined # c => call'[d] = call[d]
      /\ call[d].joined = c => Heard(d, nonce)
  BY DeliverIs DEF Base
<1>2. Grows /\ PendingCount(UserOf[d])' = PendingCount(UserOf[d])
  BY GrowsStill, SendLaneAssumption DEF SendLaneAssumption, Base
<1>3. CASE call[d].joined # c
  BY <1>1, <1>2, <1>3, BoundKept DEF Base, Bounded
<1>4. CASE call[d].joined = c
  <2>1. call[d].pc \in {"new", "entered", "refreshing"} /\ UserOf[d] = UserOf[c]
    BY <1>4, SendLaneAssumption DEF SendLaneAssumption, Base, JoinsFit, JoinFits
  <2>2. PICK p \in Nat : p = PendingCount(UserOf[d])
    BY <1>2, SendLaneAssumption DEF SendLaneAssumption, Grows
  <2>3. Takes(call'[d], call[d], nonce) /\ call'[d].floor = NoEntry /\ NoEntry.nonce = -1
    BY <1>1, <1>4 DEF Heard, NoEntry, None
  <2>4. /\ call[d].nonce \in Int /\ nonce \in Int /\ nonce <= p /\ call[d].nonce <= p
        /\ call[d].pc = "refreshing" => call[d].nonce + 1 <= p
    <3>1. call[d].nonce \in Nonces /\ Bound(d)
      BY DEF Base, Typed, Records, Bounded
    <3> QED
      BY <2>1, <2>2, <3>1 DEF Nonces, None, Bound
  <2>5. call'[d].nonce <= p /\ call'[d].pc \in {"ready", "nonced", "sending"}
    BY <2>1, <2>3, <2>4 DEF Takes, MaxOf
  <2> QED
    BY <1>2, <2>2, <2>3, <2>5, BoundSet
<1> QED
  BY <1>3, <1>4
-----------------------------------------------------------------------------
LEMMA GapStep ==
  ASSUME GapInv, [Next]_vars, faults'.drops = 0
  PROVE  Bounded'
<1>0. Base /\ Typed /\ Base'
  BY BaseStep DEF GapInv, Base
<1>1. Bounded
  <2>1. faults.drops = 0
    BY <1>0, FaultsGrow
  <2> QED
    BY <2>1 DEF GapInv
<1>2. \A c \in Calls : Bound(c) /\ UserOf[c] \in Users
  BY <1>1, SendLaneAssumption DEF SendLaneAssumption, Bounded
<1>3. ASSUME UNCHANGED <<mined, pool>>, \A d \in Calls : Bound(d)',
             \A u \in Users : cache'[u].nonce <= PendingCount(u)
      PROVE  Bounded'
  <2>1. \A u \in Users : Gapless(u)' /\ PendingCount(u)' = PendingCount(u)
    BY <1>0, <1>1, <1>3, GrowsStill
  <2> QED
    BY <1>3, <2>1 DEF Bounded
<1>4. ASSUME NEW c \in Calls, Advance(c) PROVE Bounded'
  <2>1. CASE Prewarm(c) \/ LoadFloor(c)
    <3>1. GetPendingNonce(c) /\ call[c].pc \in {"new", "entered"}
      BY <2>1 DEF Prewarm, LoadFloor
    <3>2. /\ Alone(c) /\ UNCHANGED <<cache, mined, pool>>
          /\ HasFresh(c) \/ (SameBut(c) /\ Joins(c)) \/ (SameBut(c) /\ Starts(c))
      BY <1>0, <3>1, GetPendingNonceIs
    <3>3. PICK p \in Nat : p = PendingCount(UserOf[c])
      BY <1>0, <1>2, PendingCountIs
    <3>4. PendingCount(UserOf[c])' = p /\ Grows
      BY <1>0, <1>1, <1>2, <3>2, <3>3, GrowsStill
    <3>5. /\ call[c].nonce \in Int /\ call[c].nonce <= p /\ call[c].floor.nonce <= p
          /\ cache[UserOf[c]].nonce \in Int /\ cache[UserOf[c]].nonce <= p
      BY <1>0, <1>1, <1>2, <3>3, CallInt, CacheInt, UserOfIn DEF Bound, Bounded
    <3>6. Bound(c)'
      <4>1. CASE HasFresh(c)
        <5>1. call'[c].nonce <= p /\ call'[c].floor.nonce <= p /\ call'[c].pc \in {"ready", "nonced"}
          BY <3>1, <3>5, <4>1 DEF HasFresh, Takes, Waits, MaxOf
        <5> QED
          BY <3>4, <5>1, BoundSet
      <4>2. CASE SameBut(c) /\ Joins(c)
        BY <1>0, <1>2, <3>1, <3>4, <4>2, BoundKept DEF SameBut, Joins
      <4>3. CASE SameBut(c) /\ Starts(c)
        <5>1. call'[c].nonce <= p /\ call'[c].floor.nonce <= p /\ call'[c].pc \in {"new", "entered"}
          BY <3>1, <3>5, <4>3 DEF SameBut, Starts
        <5> QED
          BY <3>4, <5>1, BoundSet
      <4> QED
        BY <3>2, <4>1, <4>2, <4>3
    <3> QED
      BY <1>0, <1>1, <3>2, <3>6, BoundedStill DEF Alone
  <2>2. CASE ReadFails(c) \/ Answers(c)
    <3>0. PICK p \in Nat : p = PendingCount(UserOf[c])
      BY <1>0, <1>2, PendingCountIs
    <3>1. call[c].floor.nonce <= p /\ call[c].floor.nonce \in Int
      BY <1>0, <1>2, <3>0, CallInt DEF Bound
    <3>2. CASE ReadFails(c)
      <4>1. PICK nonce \in Nonces : /\ Deliver(c, nonce) /\ nonce \in {call[c].floor.nonce, None}
                                    /\ UNCHANGED <<cache, mined, pool, lowered>>
        BY <1>0, <3>2, ReadFailsIs
      <4>2. nonce <= p
        BY <3>1, <4>1 DEF None
      <4>3. \A d \in Calls : Bound(d)'
        BY <1>0, <1>1, <3>0, <4>1, <4>2, BoundDelivered
      <4> QED
        BY <1>0, <1>1, <4>1, <4>3, BoundedStill
    <3>3. CASE Answers(c)
      <4>1. PICK nonce \in Nat :
              /\ Deliver(c, nonce) /\ nonce \in {call[c].floor.nonce} \union 0 .. PendingCount(UserOf[c])
              /\ cache'[UserOf[c]].nonce = nonce
              /\ \A u \in Users : u # UserOf[c] => cache'[u] = cache[u]
              /\ UNCHANGED <<mined, pool>>
        BY <1>0, <3>3, ReadAnswersIs
      <4>2. nonce <= p /\ nonce \in Nonces
        BY <3>0, <3>1, <4>1 DEF Nonces
      <4>3. \A d \in Calls : Bound(d)'
        BY <1>0, <1>1, <3>0, <4>1, <4>2, BoundDelivered
      <4>4. \A u \in Users : cache'[u].nonce <= PendingCount(u)
        BY <1>1, <3>0, <4>1, <4>2 DEF Bounded
      <4> QED
        BY <1>3, <4>1, <4>3, <4>4
    <3> QED
      BY <2>2, <3>2, <3>3
  <2>3. CASE Queues(c)
    <3>1. /\ UNCHANGED <<cache, mined, pool>>
          /\ \A d \in Calls : /\ MovedOnly(d)
                              /\ call'[d].pc = call[d].pc \/ <<call[d].pc, call'[d].pc>> \in Ways
      BY <1>0, <2>3, QueuesIs
    <3>2. Grows
      BY <1>0, <1>1, <3>1, GrowsStill
    <3>3. ASSUME NEW d \in Calls PROVE Bound(d)'
      <4>1. MovedOnly(d) /\ (call'[d].pc = call[d].pc \/ call'[d].pc \notin {"refreshing", "broadcast"})
        BY <3>1 DEF Ways
      <4> QED
        BY <1>0, <1>2, <3>2, <4>1, BoundKept DEF MovedOnly
    <3> QED
      BY <1>0, <1>1, <3>1, <3>3, BoundedStill
  <2>4. CASE Ends(c) \/ AdoptPrior(c) \/ Watch(c)
    <3>1. UNCHANGED <<cache, mined, pool>>
      BY <2>4, SoleStepsAre DEF Ends, Retries, SoleSteps
    <3>2. Keeps(c) /\ call'[c].pc \notin {"refreshing", "broadcast"}
      BY <1>0, <2>4, EndsIs, AdoptPriorIs, WatchIs
    <3>3. Grows
      BY <1>0, <1>1, <3>1, GrowsStill
    <3>4. Bound(c)'
      BY <1>0, <1>2, <3>2, <3>3, BoundKept DEF Keeps
    <3> QED
      BY <1>0, <1>1, <3>1, <3>2, <3>4, BoundedStill DEF Keeps, Alone
  <2>5. CASE ResolveNonce(c)
    <3>1. UNCHANGED <<cache, mined, pool>>
      BY <2>5 DEF ResolveNonce
    <3>2. PICK p \in Nat : p = PendingCount(UserOf[c]) /\ Mined(UserOf[c]) \in Nat
      BY <1>0, <1>2, PendingCountIs
    <3>3. /\ Alone(c) /\ call'[c].pc = "sending" /\ call'[c].floor = call[c].floor
          /\ call'[c].nonce \in {call[c].nonce, None} \union Mined(UserOf[c]) .. p
      BY <1>0, <2>5, <3>2, ResolveNonceSteps
    <3>4. call[c].nonce <= p /\ call[c].floor.nonce <= p /\ call[c].nonce \in Int
      BY <1>0, <1>2, <3>2, CallInt DEF Bound
    <3>5. PendingCount(UserOf[c])' = p
      BY <1>0, <1>1, <1>2, <3>1, <3>2, GrowsStill
    <3>6. call'[c].nonce <= p /\ call'[c].floor.nonce <= p
      BY <3>2, <3>3, <3>4 DEF None
    <3>7. Bound(c)'
      BY <3>3, <3>5, <3>6, BoundSet
    <3> QED
      BY <1>0, <1>1, <3>1, <3>3, <3>7, BoundedStill DEF Alone
  <2>6. CASE SendAccepted(c)
    <3>1. Place(c) /\ Seed(c) /\ ~TooLow(c) /\ UNCHANGED mined
      BY <2>6 DEF SendAccepted
    <3>2. /\ Alone(c) /\ call'[c].nonce = call[c].nonce /\ call'[c].floor = call[c].floor
          /\ call'[c].pc # "refreshing"
      BY <1>0, <2>6, SendAcceptedSteps
    <3> QED
      BY <1>0, <1>1, <3>1, <3>2, BoundedPlaced
  <2>7. CASE TransportFails(c)
    <3>1. /\ Keeps(c) /\ call'[c].pc = "fallback"
      BY <1>0, <2>7, TransportFailsSteps
    <3>2. UNCHANGED <<cache, mined>> /\ (UNCHANGED pool \/ (~TooLow(c) /\ Place(c)))
      BY <2>7 DEF TransportFails
    <3>3. CASE Place(c) /\ ~TooLow(c)
      BY <1>0, <1>1, <3>1, <3>2, <3>3, BoundedPlaced DEF Keeps
    <3>4. CASE UNCHANGED pool
      <4>1. Grows
        BY <1>0, <1>1, <3>2, <3>4, GrowsStill
      <4>2. Bound(c)'
        BY <1>0, <1>2, <3>1, <4>1, BoundKept DEF Keeps
      <4> QED
        BY <1>0, <1>1, <3>1, <3>2, <3>4, <4>2, BoundedStill DEF Keeps, Alone
    <3> QED
      BY <3>2, <3>3, <3>4
  <2>8. CASE FallbackBroadcast(c)
    <3>1. Keeps(c) /\ call'[c].pc = "broadcast"
      BY <1>0, <2>8, FallbackBroadcastSteps
    <3>2. UNCHANGED <<cache, mined>> /\ ~TooLow(c) /\ Place(c)
      BY <2>8 DEF FallbackBroadcast
    <3> QED
      BY <1>0, <1>1, <3>1, <3>2, BoundedPlaced DEF Keeps
  <2>9. CASE FallbackReturns(c)
    <3>1. /\ Keeps(c) /\ call'[c].pc \in {"settled", "sending"}
          /\ Seed(c) \/ UNCHANGED <<cache, reading>>
      BY <1>0, <2>9, FallbackReturnsSteps
    <3>2. UNCHANGED <<mined, pool>> /\ call[c].pc = "broadcast"
      BY <2>9 DEF FallbackReturns
    <3>3. Grows
      BY <1>0, <1>1, <3>2, GrowsStill
    <3>4. Bound(c)'
      BY <1>0, <1>2, <3>1, <3>3, BoundKept DEF Keeps
    <3>5. \A d \in Calls : Bound(d)'
      BY <1>0, <1>2, <3>1, <3>3, <3>4, BoundHolder DEF Keeps
    <3>6. ASSUME NEW u \in Users PROVE cache'[u].nonce <= PendingCount(u)
      <4>1. CASE Seed(c) /\ call[c].nonce # None /\ u = UserOf[c]
        <5>1. cache'[u].nonce = call[c].nonce + 1
          BY <1>0, <4>1, SeedIs
        <5>2. call[c].nonce \in Nonces /\ call[c].nonce < PendingCount(u) /\ PendingCount(u) \in Nat
          BY <1>0, <1>2, <3>2, <4>1, PendingCountIs DEF Bound, Typed, Records
        <5> QED
          BY <4>1, <5>1, <5>2 DEF Nonces
      <4>2. CASE cache'[u] = cache[u]
        BY <1>1, <4>2 DEF Bounded
      <4> QED
        BY <1>0, <3>1, <4>1, <4>2, SeedIs
    <3> QED
      BY <1>3, <3>2, <3>5, <3>6
  <2>10. CASE RefreshNonce(c)
    <3>1. Keeps(c) /\ call'[c].pc = "refreshing" /\ call[c].nonce # None
      BY <1>0, <2>10, RefreshNonceSteps
    <3>2. UNCHANGED <<mined, pool>> /\ cache' = [cache EXCEPT ![UserOf[c]] = NoEntry] /\ NonceError(c)
      BY <2>10 DEF RefreshNonce
    <3>3. PICK p \in Nat : p = PendingCount(UserOf[c]) /\ Mined(UserOf[c]) \in Nat /\ Mined(UserOf[c]) <= p
      BY <1>0, <1>2, PendingCountIs
    <3>4. PendingCount(UserOf[c])' = p /\ Grows
      BY <1>0, <1>1, <1>2, <3>2, <3>3, GrowsStill
    <3>5. call[c].nonce < p
      <4>1. SentNonce(c) = call[c].nonce /\ call[c].nonce \in Nat
        BY <1>0, <3>1, SentNonceIs DEF Typed, Records, Nonces
      <4>2. DOMAIN pool[UserOf[c]] = Mined(UserOf[c]) .. p - 1
        BY <1>1, <1>2, <3>3 DEF Bounded, Gapless
      <4> QED
        BY <3>2, <3>3, <4>1, <4>2 DEF NonceError, TooLow, Occupied
    <3>6. Bound(c)'
      <4>1. call[c].floor.nonce <= p /\ NoEntry.nonce = -1
        BY <1>2, <3>3 DEF Bound, NoEntry, None
      <4>2. call'[c].nonce <= p /\ call'[c].floor.nonce <= p /\ call'[c].nonce < p
        <5>1. call[c].nonce \in Int
          BY <1>0, CallInt
        <5> QED
          BY <3>1, <3>3, <3>5, <4>1, <5>1 DEF Keeps
      <4> QED
        BY <3>4, <4>2 DEF Bound
    <3>7. \A d \in Calls : Bound(d)'
      BY <1>0, <1>2, <3>1, <3>4, <3>6, BoundHolder DEF Keeps
    <3>8. ASSUME NEW u \in Users PROVE cache'[u].nonce <= PendingCount(u)
      <4>1. CASE u = UserOf[c]
        <5>1. cache'[u] = NoEntry /\ NoEntry.nonce = -1
          BY <1>0, <3>2, <4>1 DEF Typed, NoEntry, None
        <5> QED
          BY <3>3, <4>1, <5>1
      <4>2. CASE u # UserOf[c]
        <5>1. cache'[u] = cache[u]
          BY <1>0, <3>2, <4>2 DEF Typed
        <5> QED
          BY <1>1, <5>1 DEF Bounded
      <4> QED
        BY <4>1, <4>2
    <3> QED
      BY <1>3, <3>2, <3>7, <3>8
  <2> QED
    BY <1>4, <2>1, <2>2, <2>3, <2>4, <2>5, <2>6, <2>7, <2>8, <2>9, <2>10
       DEF Advance, Queues, Ends, Retries, Answers
<1>5. ASSUME NEW v \in Users, Mine(v) PROVE Bounded'
  <2>1. UNCHANGED <<call, cache>>
    BY <1>5 DEF Mine
  <2>2. ASSUME NEW u \in Users
        PROVE  Gapless(u)' /\ PendingCount(u)' = PendingCount(u) /\ PendingCount(u) \in Nat
    BY <1>0, <1>1, <1>5, MinedCount, PendingCountIs DEF Bounded
  <2>3. Grows
    BY <2>2 DEF Grows
  <2>4. \A d \in Calls : Bound(d)'
    BY <1>0, <1>2, <2>1, <2>3, BoundKept
  <2>5. \A u \in Users : cache'[u].nonce <= PendingCount(u)'
    BY <1>1, <2>1, <2>2 DEF Bounded
  <2> QED
    BY <2>2, <2>4, <2>5 DEF Bounded
<1>6. ASSUME NEW v \in Users, Drop(v) PROVE Bounded'
  <2>1. faults' = [faults EXCEPT !.drops = @ + 1]
    BY <1>6 DEF Drop
  <2>2. faults \in [transport : Nat, reads : Nat, drops : Nat]
    BY <1>0 DEF Typed
  <2>3. faults'.drops > 0
    BY <2>1, <2>2
  <2> QED
    BY <2>3
<1>7. ASSUME NEW v \in Users, Age(v) PROVE Bounded'
  <2>1. UNCHANGED <<call, mined, pool>>
    BY <1>7 DEF Age
  <2>2. Grows
    BY <1>0, <1>1, <2>1, GrowsStill
  <2>3. \A d \in Calls : Bound(d)'
    BY <1>0, <1>2, <2>1, <2>2, BoundKept
  <2>4. \A u \in Users : cache'[u].nonce = cache[u].nonce
    <3>1. PICK a : a = IF cache[v].age = "fresh" THEN "stale" ELSE "old"
      OBVIOUS
    <3>2. cache' = [cache EXCEPT ![v].age = a]
      BY <1>7, <3>1 DEF Age
    <3> QED
      BY <1>0, <3>2 DEF Typed, Entries
  <2>5. \A u \in Users : cache'[u].nonce <= PendingCount(u)
    BY <1>1, <2>4 DEF Bounded
  <2> QED
    BY <1>3, <2>1, <2>3, <2>5
<1>8. CASE UNCHANGED vars
  <2>1. UNCHANGED <<call, cache, mined, pool>>
    BY <1>8 DEF vars
  <2> QED
    BY <1>0, <1>1, <2>1, BoundedStill
<1> QED
  BY <1>4, <1>5, <1>6, <1>7, <1>8 DEF Next

\* While the mempool forgets nothing, the pending nonces of every wallet have
\* no gap: nothing that is cached, prewarmed, raised to a floor or refreshed
\* is ever beyond the pending count (resolvePendingNonce, resolveNonceFloor).
THEOREM NoGapAlways == Spec => []NoGap
<1>1. Init => GapInv
  <2>1. SUFFICES ASSUME Init PROVE GapInv
    OBVIOUS
  <2>2. Base /\ Typed
    BY <2>1, BaseInit DEF Base
  <2>3. ASSUME NEW u \in Users PROVE PendingCount(u) = 0 /\ Gapless(u) /\ cache[u].nonce = -1
    <3>1. mined[u] = <<>> /\ pool[u] = <<>> /\ cache[u] = NoEntry
      BY <2>1 DEF Init
    <3>2. Mined(u) = 0 /\ DOMAIN pool[u] = {}
      BY <3>1 DEF Mined
    <3>3. PendingCount(u) = CountOf(0 .. 0 - 1, 0)
      BY <3>2 DEF PendingCount, CountOf
    <3>4. PendingCount(u) = 0
      BY <3>3, CountOfInterval
    <3> QED
      BY <3>1, <3>2, <3>4 DEF Gapless, NoEntry, None
  <2>4. ASSUME NEW c \in Calls PROVE Bound(c)
    <3>1. PICK p : p = IF c \in Prewarmed THEN "new" ELSE "ready"
      OBVIOUS
    <3>2. call[c] = [pc |-> p, nonce |-> None, attempt |-> 1, prior |-> FALSE,
                     accepted |-> FALSE, joined |-> NoCall, floor |-> NoEntry, low |-> 0]
      BY <2>1, <3>1 DEF Init
    <3>3. call[c].nonce = None /\ call[c].floor.nonce = -1 /\ None = -1
      BY <3>2 DEF NoEntry, None
    <3>4. PendingCount(UserOf[c]) = 0
      BY <2>3, SendLaneAssumption DEF SendLaneAssumption
    <3> QED
      BY <3>3, <3>4 DEF Bound
  <2> QED
    BY <2>2, <2>3, <2>4 DEF GapInv, Bounded
<1>2. GapInv /\ [Next]_vars => GapInv'
  BY BaseStep, GapStep DEF GapInv
<1>3. GapInv => NoGap
  BY DEF GapInv, NoGap, Bounded, Gapless
<1> QED
  BY <1>1, <1>2, <1>3, PTL DEF Spec
-----------------------------------------------------------------------------
(***************************************************************************)
(* What was accepted stays.  The nonce of an accepted transaction is below   *)
(* what is cached, or, while the holder of the lane refreshes, below what    *)
(* was mined when it asked; and below what another holder will send.         *)
(***************************************************************************)
Below(c, bound) == \E n \in OnChain(c) : n < bound

Sure(c) == call[c].accepted \/ call[c].prior

\* The stages in which a holder of the lane has a nonce to send.
Holding == {"nonced", "sending", "watching", "fallback", "broadcast"}

Own(d) ==
  /\ call[d].pc \in Holding \union {"refreshing"} => call[d].nonce # None
  /\ call[d].pc = "broadcast" => call[d].nonce \in OnChain(d)
  /\ call[d].accepted => call[d].pc \in {"settled", "done"}
  /\ call[d].pc = "watching" => call[d].prior
  /\ call[d].pc = "refreshing" => ~call[d].prior

Refreshed(u) == \E d \in Calls : UserOf[d] = u /\ call[d].pc = "refreshing"

Held(c) ==
  /\ ~Refreshed(UserOf[c]) => Below(c, cache[UserOf[c]].nonce)
  /\ \A d \in Calls : UserOf[d] = UserOf[c] =>
       /\ d # c /\ call[d].pc \in Holding => Below(c, call[d].nonce)
       /\ call[d].pc = "refreshing" => Below(c, call[d].low)

Upheld == \A c \in Calls : Own(c) /\ (Sure(c) => Held(c))

StaysInv == Base /\ (Calm => Upheld)

\* d is where Held cannot tell the difference.
Like(d) == \/ call'[d].pc \notin Holding \union {"refreshing"} /\ call[d].pc # "refreshing"
           \/ {call[d].pc, call'[d].pc} \subseteq Holding /\ call'[d].nonce = call[d].nonce
           \/ /\ call'[d].pc = call[d].pc /\ call'[d].nonce = call[d].nonce
              /\ call'[d].low = call[d].low

\* The holder d takes a nonce that is not below the cached one.
Raised(d) == /\ call[d].pc = "entered" /\ call'[d].pc = "nonced"
             /\ call'[d].nonce \in Int /\ call'[d].nonce >= cache[UserOf[d]].nonce

LEMMA HeldStays ==
  ASSUME Typed, OneInLane, NEW c \in Calls, Held(c),
         OnChain(c) \subseteq OnChain(c)', OnChain(c) \subseteq Int,
         cache'[UserOf[c]].nonce \in Int,
         cache'[UserOf[c]].nonce >= cache[UserOf[c]].nonce,
         \A d \in Calls : UserOf[d] = UserOf[c] => Like(d) \/ Raised(d)
  PROVE  Held(c)'
<1>1. PICK u \in Users : u = UserOf[c] /\ cache[u].nonce \in Int
  BY UserOfIn, CacheInt
<1>2. ASSUME NEW d \in Calls, UserOf[d] = u
      PROVE  /\ call[d].pc = "refreshing" <=> call'[d].pc = "refreshing"
             /\ d # c /\ call'[d].pc \in Holding => Below(c, call[d].nonce)'
             /\ call'[d].pc = "refreshing" => Below(c, call[d].low)'
  <2>1. /\ d # c /\ call[d].pc \in Holding => Below(c, call[d].nonce)
        /\ call[d].pc = "refreshing" => Below(c, call[d].low)
    BY <1>1, <1>2 DEF Held
  <2>2. CASE Like(d)
    <3>1. "refreshing" \notin Holding
      BY DEF Holding
    <3> QED
      BY <2>1, <2>2, <3>1 DEF Like, Below
  <2>3. CASE Raised(d)
    <3>1. call[d].pc = "entered" /\ call'[d].pc = "nonced"
      BY <2>3 DEF Raised
    <3>2. ~Refreshed(u)
      BY <1>2, <3>1 DEF Refreshed, OneInLane, InLane, Inside
    <3>3. PICK n \in OnChain(c) : n < cache[u].nonce
      BY <1>1, <3>2 DEF Held, Below
    <3>4. n \in Int /\ call'[d].nonce \in Int /\ call'[d].nonce >= cache[u].nonce
      BY <1>2, <2>3 DEF Raised
    <3>5. n < call'[d].nonce
      BY <1>1, <3>3, <3>4
    <3>6. Below(c, call[d].nonce)'
      BY <3>3, <3>5 DEF Below
    <3> QED
      BY <3>1, <3>6
  <2> QED
    BY <1>1, <1>2, <2>2, <2>3
<1>3. Refreshed(u)' <=> Refreshed(u)
  BY <1>2 DEF Refreshed
<1>4. ~Refreshed(u) => Below(c, cache[u].nonce)'
  <2>1. SUFFICES ASSUME ~Refreshed(u) PROVE Below(c, cache[u].nonce)'
    OBVIOUS
  <2>2. PICK n \in OnChain(c) : n < cache[u].nonce
    BY <1>1, <2>1 DEF Held, Below
  <2>3. n \in Int /\ cache'[u].nonce \in Int /\ cache'[u].nonce >= cache[u].nonce
    BY <1>1
  <2>4. n < cache'[u].nonce
    BY <1>1, <2>2, <2>3
  <2> QED
    BY <2>2, <2>4 DEF Below
<1> QED
  BY <1>1, <1>2, <1>3, <1>4 DEF Held

LEMMA OnChainInt ==
  ASSUME Typed, NEW c \in Calls
  PROVE  OnChain(c) \subseteq Nat
<1>1. UserOf[c] \in Users
  BY SendLaneAssumption DEF SendLaneAssumption
<1>2. DOMAIN pool[UserOf[c]] \subseteq Nat /\ Mined(UserOf[c]) \in Nat
  BY <1>1, PoolIs, PendingCountIs DEF Typed, IsPool
<1> QED
  BY <1>2 DEF OnChain

LEMMA OwnStays ==
  ASSUME NEW d \in Calls, Own(d), OnChain(d) \subseteq OnChain(d)' \/ call[d].pc # "broadcast",
         SameBut(d)
  PROVE  Own(d)'
BY DEF Own, SameBut

\* With one holder, Held is about it alone.
LEMMA HeldAfter ==
  ASSUME OneInLane', NEW c \in Calls, call'[c].pc \in Inside, NEW e \in Calls, UserOf[e] = UserOf[c],
         e # c /\ call'[c].pc \in Holding => Below(e, call[c].nonce)',
         call'[c].pc # "refreshing" => Below(e, cache[UserOf[c]].nonce)',
         call'[c].pc = "refreshing" => Below(e, call[c].low)'
  PROVE  Held(e)'
<1>1. ASSUME NEW d \in Calls, UserOf[d] = UserOf[c], d # c PROVE call'[d].pc \notin Holding \union {"refreshing"}
  BY <1>1 DEF OneInLane, InLane, Inside, Holding
<1>2. ~Refreshed(UserOf[e])' => Below(e, cache[UserOf[e]].nonce)'
  BY DEF Refreshed
<1>3. ASSUME NEW d \in Calls, UserOf[d] = UserOf[e]
      PROVE  /\ d # e /\ call'[d].pc \in Holding => Below(e, call[d].nonce)'
             /\ call'[d].pc = "refreshing" => Below(e, call[d].low)'
  BY <1>1, <1>3
<1> QED
  BY <1>2, <1>3 DEF Held

LEMMA BelowPlaced ==
  ASSUME Typed, NEW c \in Calls, Place(c), UNCHANGED mined, NEW e \in Calls, e # c,
         UserOf[e] = UserOf[c] => call[c].nonce # None /\ Below(e, call[c].nonce),
         NEW bound \in Int, Below(e, bound)
  PROVE  \E n \in OnChain(e)' : n < bound
<1>1. OnChain(e) \subseteq Nat
  BY OnChainInt
<1>2. PICK n \in OnChain(e) : n < bound
  BY DEF Below
<1>3. CASE UserOf[e] # UserOf[c]
  BY <1>2, <1>3, OnChainPlaced
<1>4. CASE UserOf[e] = UserOf[c]
  <2>1. PICK s \in Nat : s = SentNonce(c) /\ s = call[c].nonce
    BY <1>4, SentNonceIs
  <2>2. OnChain(e) \ {s} \subseteq OnChain(e)'
    BY <2>1, OnChainPlaced
  <2>3. PICK m \in OnChain(e) : m < s
    BY <1>4, <2>1 DEF Below
  <2>4. CASE n # s
    BY <1>2, <2>2, <2>4
  <2>5. CASE n = s
    <3>1. m \in OnChain(e)' /\ m < bound
      BY <1>1, <1>2, <2>1, <2>2, <2>3, <2>5
    <3> QED
      BY <3>1
  <2> QED
    BY <2>4, <2>5
<1> QED
  BY <1>3, <1>4
-----------------------------------------------------------------------------
LEMMA UpheldStill ==
  ASSUME Typed, Typed', OneInLane, Upheld, \A d \in Calls : OnChain(d) \subseteq OnChain(d)',
         \A d \in Calls : (Like(d) \/ Raised(d)) /\ Own(d)' /\ (Sure(d)' => Sure(d)),
         \A u \in Users : cache'[u].nonce >= cache[u].nonce
  PROVE  Upheld'
<1>1. ASSUME NEW d \in Calls, Sure(d)' PROVE Held(d)'
  <2>1. Held(d) /\ OnChain(d) \subseteq OnChain(d)' /\ OnChain(d) \subseteq Int
    BY <1>1, OnChainInt DEF Upheld
  <2>2. cache'[UserOf[d]].nonce \in Int /\ cache'[UserOf[d]].nonce >= cache[UserOf[d]].nonce
    BY UserOfIn, CacheIntNext
  <2> QED
    BY <2>1, <2>2, HeldStays
<1> QED
  BY <1>1 DEF Upheld

\* The same for a step of c that changes nothing on the chain.
LEMMA UpheldAlone ==
  ASSUME Typed, Typed', OneInLane, Upheld, NEW c \in Calls, Alone(c), UNCHANGED <<mined, pool>>,
         Like(c) \/ Raised(c), Own(c)', Sure(c)' => Sure(c),
         \A u \in Users : cache'[u].nonce >= cache[u].nonce
  PROVE  Upheld'
<1>1. \A d \in Calls : OnChain(d)' = OnChain(d)
  BY OnChainStays
<1>2. ASSUME NEW d \in Calls, d # c PROVE Like(d) /\ Own(d)' /\ (Sure(d)' => Sure(d))
  <2>1. call'[d] = call[d] /\ Own(d)
    BY <1>2 DEF Alone, Upheld
  <2>2. Own(d)'
    BY <1>1, <2>1, OwnStays DEF SameBut
  <2> QED
    BY <2>1, <2>2 DEF Like, Sure
<1>3. \A d \in Calls : (Like(d) \/ Raised(d)) /\ Own(d)' /\ (Sure(d)' => Sure(d))
  BY <1>2
<1> QED
  BY <1>1, <1>3, UpheldStill

LEMMA CacheSame ==
  ASSUME Typed, UNCHANGED cache
  PROVE  \A u \in Users : cache'[u].nonce >= cache[u].nonce
BY CacheInt

\* What Held says while c is the holder, and does not refresh.
LEMMA HeldBefore ==
  ASSUME OneInLane, NEW c \in Calls, call[c].pc \in Inside \ {"refreshing"},
         NEW e \in Calls, UserOf[e] = UserOf[c], Held(e)
  PROVE  /\ Below(e, cache[UserOf[c]].nonce)
         /\ e # c /\ call[c].pc \in Holding => Below(e, call[c].nonce)
<1>1. ~Refreshed(UserOf[c])
  BY DEF Refreshed, OneInLane, InLane, Inside
<1> QED
  BY <1>1 DEF Held

LEMMA UpheldPlaced ==
  ASSUME Base, Base', Upheld, NEW c \in Calls, Place(c), UNCHANGED mined,
         call[c].pc \in {"sending", "fallback"}, Alone(c), call'[c].nonce = call[c].nonce,
         call'[c].pc \in {"settled", "watching", "fallback", "broadcast"},
         Seed(c) \/ UNCHANGED cache, Sure(c)' => Sure(c) \/ Seed(c), Own(c)'
  PROVE  Upheld'
<1>0. /\ Typed /\ Typed' /\ OneInLane /\ OneInLane' /\ UserOf[c] \in Users
      /\ call[c].pc \in Inside \ {"refreshing"} /\ call[c].pc \in Holding
      /\ call'[c].pc \in Inside \ {"refreshing"}
  BY SendLaneAssumption DEF SendLaneAssumption, Base, Lanes, Inside, Holding
<1>1. call[c].nonce # None /\ call[c].nonce \in Nat /\ SentNonce(c) = call[c].nonce
  <2>1. Own(c) /\ call[c].nonce \in Nonces
    BY <1>0 DEF Upheld, Typed, Records
  <2> QED
    BY <1>0, <2>1, SentNonceIs DEF Own, Nonces
<1>2. ASSUME NEW u \in Users PROVE cache[u].nonce \in Int /\ cache'[u].nonce \in Int
  <2>1. cache[u].nonce \in Int
    BY <1>0, CacheInt
  <2>2. cache'[u].nonce \in Int
    BY <1>0, CacheIntNext
  <2> QED
    BY <2>1, <2>2
<1>3. Seed(c) => cache'[UserOf[c]].nonce = call[c].nonce + 1
  BY <1>0, <1>1, SeedIs
<1>4. ASSUME NEW e \in Calls, UserOf[e] # UserOf[c] PROVE Own(e)' /\ (Sure(e)' => Held(e)')
  <2>1. OnChain(e)' = OnChain(e) /\ OnChain(e) \subseteq Int
    BY <1>0, <1>4, OnChainPlaced, OnChainInt
  <2>2. \A d \in Calls : UserOf[d] = UserOf[e] => call'[d] = call[d] /\ Like(d)
    BY <1>4 DEF Alone, Like
  <2>3. UserOf[e] \in Users /\ cache'[UserOf[e]] = cache[UserOf[e]]
    BY <1>0, <1>4, SeedIs, SendLaneAssumption DEF SendLaneAssumption
  <2>4. Own(e)'
    BY <2>1, <2>2, OwnStays DEF SameBut, Upheld
  <2>5. cache'[UserOf[e]].nonce \in Int /\ cache'[UserOf[e]].nonce >= cache[UserOf[e]].nonce
    BY <1>2, <2>3
  <2>6. Sure(e)' => Sure(e)
    BY <2>2 DEF Sure
  <2>7. Sure(e) => Held(e)
    BY DEF Upheld
  <2> QED
    BY <1>0, <2>1, <2>2, <2>4, <2>5, <2>6, <2>7, HeldStays
<1>5. ASSUME NEW e \in Calls, UserOf[e] = UserOf[c], e # c PROVE Own(e)' /\ (Sure(e)' => Held(e)')
  <2>1. call'[e] = call[e] /\ Own(e)
    BY <1>5 DEF Alone, Upheld
  <2>2. call[e].pc # "broadcast"
    BY <1>0, <1>5 DEF OneInLane, InLane, Inside
  <2>3. Own(e)'
    BY <2>1, <2>2, OwnStays DEF SameBut
  <2>4. ASSUME Sure(e)' PROVE Held(e)'
    <3>1. Held(e)
      BY <2>1, <2>4 DEF Sure, Upheld
    <3>2. Below(e, cache[UserOf[c]].nonce) /\ Below(e, call[c].nonce)
      BY <1>0, <1>5, <3>1, HeldBefore
    <3>3. \E n \in OnChain(e)' : n < call[c].nonce
      BY <1>0, <1>1, <1>5, <3>2, BelowPlaced
    <3>4. \E n \in OnChain(e)' : n < cache[UserOf[c]].nonce
      BY <1>0, <1>1, <1>2, <1>5, <3>2, BelowPlaced
    <3>5. \E n \in OnChain(e)' : n < cache'[UserOf[c]].nonce
      <4>1. CASE Seed(c)
        <5>1. PICK n \in OnChain(e)' : n < call[c].nonce
          BY <3>3
        <5>2. n \in Int
          <6>1. n \in OnChain(e) \union {SentNonce(c)}
            BY <1>0, OnChainPlaced
          <6> QED
            BY <1>0, <1>1, <6>1, OnChainInt
        <5>3. n < call[c].nonce + 1
          BY <1>1, <5>1, <5>2
        <5> QED
          BY <1>3, <4>1, <5>1, <5>3
      <4>2. CASE UNCHANGED cache
        BY <3>4, <4>2
      <4> QED
        BY <4>1, <4>2
    <3>6. Below(e, call[c].nonce)' /\ Below(e, cache[UserOf[c]].nonce)'
      BY <3>3, <3>5 DEF Below
    <3> QED
      BY <1>0, <1>5, <3>6, HeldAfter
  <2> QED
    BY <2>3, <2>4
<1>6. ASSUME Sure(c)' PROVE Held(c)'
  <2>1. CASE Seed(c)
    <3>1. call[c].nonce \in OnChain(c)' /\ call[c].nonce < cache'[UserOf[c]].nonce
      BY <1>0, <1>1, <1>3, <2>1, OnChainPlaced
    <3>2. Below(c, cache[UserOf[c]].nonce)'
      BY <3>1 DEF Below
    <3> QED
      BY <1>0, <3>2, HeldAfter
  <2>2. CASE UNCHANGED cache /\ Sure(c)
    <3>1. Held(c)
      BY <2>2 DEF Upheld
    <3>2. Below(c, cache[UserOf[c]].nonce)
      BY <1>0, <3>1, HeldBefore
    <3>3. OnChain(c) \subseteq OnChain(c)'
      BY <1>0, OnChainPlaced
    <3>4. Below(c, cache[UserOf[c]].nonce)'
      BY <2>2, <3>2, <3>3 DEF Below
    <3> QED
      BY <1>0, <3>4, HeldAfter
  <2> QED
    BY <1>6, <2>1, <2>2
<1> QED
  BY <1>4, <1>5, <1>6 DEF Upheld

LEMMA UpheldSeeded ==
  ASSUME Base, Base', Upheld, NEW c \in Calls, Seed(c), UNCHANGED <<mined, pool>>,
         call[c].pc = "broadcast", Keeps(c), call'[c].pc \in {"settled", "sending"}, Own(c)'
  PROVE  Upheld'
<1>0. /\ Typed /\ Typed' /\ OneInLane /\ OneInLane' /\ UserOf[c] \in Users
      /\ call[c].pc \in Inside \ {"refreshing"} /\ call[c].pc \in Holding
      /\ call'[c].pc \in Inside \ {"refreshing"} /\ Alone(c) /\ call'[c].nonce = call[c].nonce
  BY SendLaneAssumption DEF SendLaneAssumption, Base, Lanes, Inside, Holding, Keeps
<1>1. call[c].nonce # None /\ call[c].nonce \in Nat /\ call[c].nonce \in OnChain(c)
  <2>1. Own(c) /\ call[c].nonce \in Nonces
    BY <1>0 DEF Upheld, Typed, Records
  <2> QED
    BY <1>0, <2>1 DEF Own, Nonces
<1>2. cache'[UserOf[c]].nonce = call[c].nonce + 1
  BY <1>0, <1>1, SeedIs
<1>3. \A e \in Calls : OnChain(e)' = OnChain(e) /\ OnChain(e) \subseteq Nat
  BY <1>0, OnChainStays, OnChainInt
<1>4. ASSUME NEW e \in Calls, UserOf[e] # UserOf[c] PROVE Own(e)' /\ (Sure(e)' => Held(e)')
  <2>2. \A d \in Calls : UserOf[d] = UserOf[e] => call'[d] = call[d] /\ Like(d)
    BY <1>0, <1>4 DEF Alone, Like
  <2>3. UserOf[e] \in Users /\ cache'[UserOf[e]] = cache[UserOf[e]]
    BY <1>0, <1>4, SeedIs, SendLaneAssumption DEF SendLaneAssumption
  <2>4. Own(e)'
    BY <1>3, <2>2, OwnStays DEF SameBut, Upheld
  <2>5. cache'[UserOf[e]].nonce \in Int /\ cache'[UserOf[e]].nonce >= cache[UserOf[e]].nonce
    BY <1>0, <2>3, CacheInt
  <2>6. Sure(e)' => Sure(e)
    BY <2>2 DEF Sure
  <2>7. (Sure(e) => Held(e)) /\ OnChain(e) \subseteq Int
    BY <1>3 DEF Upheld
  <2> QED
    BY <1>0, <1>3, <2>2, <2>4, <2>5, <2>6, <2>7, HeldStays
<1>5. ASSUME NEW e \in Calls, UserOf[e] = UserOf[c], e # c PROVE Own(e)' /\ (Sure(e)' => Held(e)')
  <2>1. call'[e] = call[e] /\ Own(e)
    BY <1>0, <1>5 DEF Alone, Upheld
  <2>2. Own(e)'
    BY <1>3, <2>1, OwnStays DEF SameBut
  <2>3. ASSUME Sure(e)' PROVE Held(e)'
    <3>1. Held(e)
      BY <2>1, <2>3 DEF Sure, Upheld
    <3>2. Below(e, call[c].nonce)
      BY <1>0, <1>5, <3>1, HeldBefore
    <3>3. PICK n \in OnChain(e) : n < call[c].nonce
      BY <3>2 DEF Below
    <3>4. n < call[c].nonce + 1
      BY <1>1, <1>3, <3>3
    <3>5. Below(e, call[c].nonce)' /\ Below(e, cache[UserOf[c]].nonce)'
      BY <1>0, <1>2, <1>3, <3>3, <3>4 DEF Below
    <3> QED
      BY <1>0, <1>5, <3>5, HeldAfter
  <2> QED
    BY <2>2, <2>3
<1>6. Held(c)'
  <2>1. call[c].nonce < cache'[UserOf[c]].nonce /\ call[c].nonce \in OnChain(c)'
    BY <1>1, <1>2, <1>3
  <2>2. Below(c, cache[UserOf[c]].nonce)'
    BY <2>1 DEF Below
  <2> QED
    BY <1>0, <2>2, HeldAfter
<1> QED
  BY <1>4, <1>5, <1>6 DEF Upheld
-----------------------------------------------------------------------------
LEMMA UpheldRead ==
  ASSUME Base, Base', Upheld, NEW c \in Calls, NEW nonce \in Nat, Deliver(c, nonce),
         nonce >= call[c].low, nonce >= call[c].floor.nonce, ~Lowers(c, nonce),
         cache'[UserOf[c]].nonce = nonce,
         \A u \in Users : u # UserOf[c] => cache'[u] = cache[u], UNCHANGED <<mined, pool>>
  PROVE  Upheld'
<1>0. /\ Typed /\ Typed' /\ JoinsFit /\ OneInLane /\ OneInLane' /\ UserOf[c] \in Users
      /\ nonce \in Nonces
  BY SendLaneAssumption DEF SendLaneAssumption, Base, Lanes, Nonces
<1>1. /\ \A d \in Calls : call[d].joined # c => call'[d] = call[d]
      /\ \A d \in Calls : call[d].joined = c => Heard(d, nonce)
  BY <1>0, DeliverIs
<1>2. ASSUME NEW d \in Calls, call[d].joined = c
      PROVE  /\ call[d].pc \in {"new", "entered", "refreshing"} /\ UserOf[d] = UserOf[c]
             /\ call[d].pc = "refreshing" => d = c
             /\ Takes(call'[d], call[d], nonce)
  BY <1>0, <1>1, <1>2, SendLaneAssumption DEF SendLaneAssumption, JoinsFit, JoinFits, Heard
<1>3. \A d \in Calls : OnChain(d)' = OnChain(d) /\ OnChain(d) \subseteq Nat
  BY <1>0, OnChainStays, OnChainInt
<1>4. ASSUME NEW d \in Calls PROVE Own(d)' /\ (Sure(d)' => Sure(d))
  <2>1. CASE call[d].joined # c
    <3>1. call'[d] = call[d]
      BY <1>1, <2>1
    <3> QED
      BY <1>3, <3>1, OwnStays DEF Upheld, SameBut, Sure
  <2>2. CASE call[d].joined = c
    <3>1. Own(d) /\ call[d].nonce \in Int
      BY <1>0, CallInt DEF Upheld
    <3>2. /\ call'[d].pc \in {"ready", "nonced", "sending"}
          /\ call'[d].prior = call[d].prior /\ call'[d].accepted = call[d].accepted
          /\ call'[d].nonce # None
      BY <1>2, <2>2, <3>1 DEF Takes, MaxOf, None
    <3> QED
      BY <1>2, <2>2, <3>1, <3>2 DEF Own, Sure, Holding
  <2> QED
    BY <2>1, <2>2
<1>5. cache[UserOf[c]].nonce \in Int /\ call[c].floor.nonce \in Int /\ call[c].low \in Int
  BY <1>0, UserOfIn, CacheInt, CallInt
<1>6. nonce >= cache[UserOf[c]].nonce
  BY <1>5 DEF Lowers
<1>7. \A u \in Users : cache'[u].nonce >= cache[u].nonce
  <2>1. \A u \in Users : cache[u].nonce \in Int
    BY <1>0, CacheInt
  <2> QED
    BY <1>6, <2>1
<1>8. CASE call[c].joined = c /\ call[c].pc = "refreshing"
  <2>1. Takes(call'[c], call[c], nonce) /\ call[c].nonce \in Int /\ Own(c)
    BY <1>0, <1>2, <1>8, CallInt DEF Upheld
  <2>2. /\ call'[c].pc = "sending" /\ call'[c].nonce \in Int /\ call'[c].nonce >= nonce
        /\ ~Sure(c)'
    BY <1>8, <2>1 DEF Takes, MaxOf, Own, Sure
  <2>3. ASSUME NEW e \in Calls, Sure(e)', UserOf[e] = UserOf[c] PROVE Held(e)'
    <3>1. Held(e)
      BY <1>4, <2>3 DEF Upheld
    <3>2. Below(e, call[c].low)
      BY <1>8, <2>3, <3>1 DEF Held
    <3>3. PICK n \in OnChain(e) : n < call[c].low
      BY <3>2 DEF Below
    <3>4. n < nonce /\ n < call'[c].nonce
      BY <1>3, <1>5, <2>2, <3>3
    <3>5. Below(e, call[c].nonce)' /\ Below(e, cache[UserOf[c]].nonce)'
      BY <1>3, <3>3, <3>4 DEF Below
    <3>6. call'[c].pc \in Inside /\ call'[c].pc # "refreshing"
      BY <2>2 DEF Inside
    <3> QED
      BY <1>0, <2>3, <3>5, <3>6, HeldAfter
  <2>4. ASSUME NEW e \in Calls, Sure(e)', UserOf[e] # UserOf[c] PROVE Held(e)'
    <3>1. Held(e) /\ OnChain(e) \subseteq Int /\ OnChain(e) \subseteq OnChain(e)'
      BY <1>3, <1>4, <2>4 DEF Upheld
    <3>2. \A d \in Calls : UserOf[d] = UserOf[e] => Like(d)
      BY <1>1, <1>2, <2>4 DEF Like
    <3>3. UserOf[e] \in Users /\ cache'[UserOf[e]].nonce \in Int
      BY <1>0, UserOfIn, CacheIntNext
    <3> QED
      BY <1>0, <1>7, <3>1, <3>2, <3>3, HeldStays
  <2> QED
    BY <1>4, <2>3, <2>4 DEF Upheld
<1>9. CASE ~(call[c].joined = c /\ call[c].pc = "refreshing")
  <2>1. ASSUME NEW d \in Calls PROVE Like(d) \/ Raised(d)
    <3>1. CASE call[d].joined # c
      BY <1>1, <3>1 DEF Like
    <3>2. CASE call[d].joined = c
      <4>1. Takes(call'[d], call[d], nonce) /\ call[d].pc \in {"new", "entered"} /\ UserOf[d] = UserOf[c]
        BY <1>2, <1>9, <3>2
      <4>2. CASE call[d].pc = "new"
        BY <4>1, <4>2 DEF Takes, Like, Holding
      <4>3. CASE call[d].pc = "entered"
        <5>1. call[d].nonce \in Int
          BY <1>0, CallInt
        <5>2. call'[d].pc = "nonced" /\ call'[d].nonce = MaxOf(call[d].nonce, nonce)
          BY <4>1, <4>3 DEF Takes
        <5>3. call'[d].nonce \in Int /\ call'[d].nonce >= nonce
          BY <5>1, <5>2 DEF MaxOf
        <5> QED
          BY <1>5, <1>6, <4>1, <4>3, <5>2, <5>3 DEF Raised
      <4> QED
        BY <4>1, <4>2, <4>3
    <3> QED
      BY <3>1, <3>2
  <2> QED
    BY <1>0, <1>3, <1>4, <1>7, <2>1, UpheldStill
<1> QED
  BY <1>8, <1>9

LEMMA UpheldRefreshed ==
  ASSUME Base, Base', Upheld, NEW c \in Calls, RefreshNonce(c), ~lowered'
  PROVE  Upheld'
<1> DEFINE u == UserOf[c]
<1>0. /\ Typed /\ Typed' /\ OneInLane /\ OneInLane' /\ u \in Users
      /\ call[c].pc = "sending" /\ call[c].pc \in Inside \ {"refreshing"}
  BY SendLaneAssumption DEF SendLaneAssumption, Base, Lanes, RefreshNonce, NonceError, Inside
<1>1. /\ Keeps(c) /\ Alone(c) /\ call'[c].pc = "refreshing" /\ call'[c].low = Mined(u)
      /\ call'[c].nonce = call[c].nonce /\ call[c].nonce # None
      /\ ~call[c].prior /\ call'[c].prior = call[c].prior
      /\ call'[c].accepted = call[c].accepted
  BY RefreshNonceSteps DEF Keeps
<1>2. /\ UNCHANGED <<mined, pool>> /\ ~(cache[u].nonce > Mined(u))
      /\ cache' = [cache EXCEPT ![u] = NoEntry]
  BY DEF RefreshNonce
<1>3. \A d \in Calls : OnChain(d)' = OnChain(d) /\ OnChain(d) \subseteq Nat
  BY <1>0, <1>2, OnChainStays, OnChainInt
<1>4. Mined(u) \in Nat /\ cache[u].nonce \in Int
  <2>1. cache[u].nonce \in Int
    BY <1>0, UserOfIn, CacheInt
  <2> QED
    BY <1>0, <2>1, PendingCountIs
<1>5. ASSUME NEW d \in Calls, d # c PROVE Own(d)' /\ (Sure(d)' => Sure(d))
  <2>1. call'[d] = call[d] /\ Own(d)
    BY <1>1, <1>5 DEF Alone, Upheld
  <2>2. Own(d)'
    BY <1>3, <2>1, OwnStays DEF SameBut
  <2> QED
    BY <2>1, <2>2 DEF Sure
<1>6. Own(c)' /\ ~Sure(c)'
  <2>1. Own(c) /\ ~call[c].accepted
    BY <1>0 DEF Upheld, Own
  <2> QED
    BY <1>1, <2>1 DEF Own, Sure, Holding
<1>7. ASSUME NEW e \in Calls, Sure(e)', UserOf[e] = u PROVE Held(e)'
  <2>1. e # c /\ Held(e)
    BY <1>5, <1>6, <1>7 DEF Upheld
  <2>2. Below(e, cache[u].nonce)
    BY <1>0, <1>7, <2>1, HeldBefore
  <2>3. PICK n \in OnChain(e) : n < cache[u].nonce
    BY <2>2 DEF Below
  <2>4. n < Mined(u)
    BY <1>2, <1>3, <1>4, <2>3
  <2>5. Below(e, call[c].low)'
    BY <1>1, <1>3, <2>3, <2>4 DEF Below
  <2>6. call'[c].pc \in Inside /\ call'[c].pc \notin Holding
    BY <1>1 DEF Inside, Holding
  <2> QED
    BY <1>0, <1>1, <1>7, <2>5, <2>6, HeldAfter
<1>8. ASSUME NEW e \in Calls, Sure(e)', UserOf[e] # u PROVE Held(e)'
  <2>1. Held(e) /\ OnChain(e) \subseteq Int /\ OnChain(e) \subseteq OnChain(e)'
    BY <1>3, <1>5, <1>8 DEF Upheld
  <2>2. \A d \in Calls : UserOf[d] = UserOf[e] => Like(d)
    BY <1>1, <1>8 DEF Like, Alone
  <2>3. UserOf[e] \in Users /\ cache[UserOf[e]].nonce \in Int
    BY <1>0, UserOfIn, CacheInt
  <2>4. cache'[UserOf[e]] = cache[UserOf[e]]
    BY <1>0, <1>2, <1>8, <2>3 DEF Typed
  <2>5. cache'[UserOf[e]].nonce \in Int /\ cache'[UserOf[e]].nonce >= cache[UserOf[e]].nonce
    BY <2>3, <2>4
  <2> QED
    BY <1>0, <2>1, <2>2, <2>5, HeldStays
<1> QED
  BY <1>5, <1>6, <1>7, <1>8 DEF Upheld
-----------------------------------------------------------------------------
LEMMA LoweredStays ==
  ASSUME [Next]_vars, lowered
  PROVE  lowered'
<1>1. ASSUME NEW c \in Calls, Advance(c) PROVE UNCHANGED lowered \/ lowered'
  <2>1. CASE RefreshNonce(c)
    BY <2>1 DEF RefreshNonce
  <2>2. CASE Answers(c)
    BY <2>2 DEF Answers, ReadAnswers
  <2>3. CASE ~RefreshNonce(c) /\ ~Answers(c)
    BY <1>1, <2>3 DEF Advance, Answers, Prewarm, LoadFloor, GetPendingNonce, ReadFails,
         WithUserTransactionLock, EnterLimiter, TakePlace, Leave, Suppress, ResolveNonce,
         SendAccepted, Watch, SendRefused, AdoptPrior, GiveUpNonce, Outbid,
         TransportFails, FallbackBroadcast, FallbackReturns, FallbackFails
  <2> QED
    BY <2>1, <2>2, <2>3
<1>2. ASSUME NEW u \in Users, Mine(u) \/ Drop(u) \/ Age(u) PROVE UNCHANGED lowered
  BY <1>2 DEF Mine, Drop, Age
<1> QED
  BY <1>1, <1>2 DEF Next, vars

LEMMA CalmBefore ==
  ASSUME Typed, [Next]_vars, Calm'
  PROVE  Calm
<1>1. faults.drops = 0 /\ faults.reads = 0
  BY FaultsGrow DEF Calm
<1>2. ~lowered
  BY LoweredStays DEF Calm
<1> QED
  BY <1>1, <1>2 DEF Calm

LEMMA UpheldStep ==
  ASSUME StaysInv, [Next]_vars, Calm'
  PROVE  Upheld'
<1>0. Base /\ Typed /\ OneInLane /\ Base' /\ Typed' /\ Upheld
  BY BaseStep, CalmBefore DEF StaysInv, Base, Lanes
<1>1. \A c \in Calls : Own(c)
  BY <1>0 DEF Upheld
<1>2. UNCHANGED cache => \A u \in Users : cache'[u].nonce >= cache[u].nonce
  BY <1>0, CacheSame
<1>3. \A c \in Calls : UNCHANGED <<mined, pool>> => OnChain(c)' = OnChain(c)
  BY OnChainStays
<1>4. ASSUME NEW c \in Calls, Advance(c) PROVE Upheld'
  <2>1. CASE Prewarm(c) \/ LoadFloor(c)
    <3>1. GetPendingNonce(c) /\ call[c].pc \in {"new", "entered"}
      BY <2>1 DEF Prewarm, LoadFloor
    <3>2. /\ Alone(c) /\ UNCHANGED <<cache, mined, pool>>
          /\ HasFresh(c) \/ SameBut(c)
      BY <1>0, <3>1, GetPendingNonceIs
    <3>3. (Like(c) \/ Raised(c)) /\ Own(c)' /\ (Sure(c)' => Sure(c))
      <4>1. CASE HasFresh(c)
        <5>1. PICK m : m = cache[UserOf[c]].nonce /\ m \in Nat
          <6>1. cache[UserOf[c]].nonce # None /\ cache[UserOf[c]].nonce \in Nonces
            BY <1>0, <4>1, SendLaneAssumption DEF SendLaneAssumption, HasFresh, Typed, Entries
          <6> QED
            BY <6>1 DEF Nonces
        <5>2. /\ call'[c].prior = call[c].prior /\ call'[c].accepted = call[c].accepted
              /\ call[c].pc = "new" => call'[c].pc = "ready"
              /\ call[c].pc = "entered" => call'[c].pc = "nonced" /\ call'[c].nonce = MaxOf(call[c].nonce, m)
          BY <4>1, <5>1 DEF HasFresh, Takes
        <5>3. call[c].nonce \in Int
          BY <1>0, CallInt
        <5>4. PICK x : x = MaxOf(call[c].nonce, m) /\ x \in Nat /\ x >= m
          BY <5>1, <5>3, MaxOfIs
        <5>5. ~call[c].accepted
          BY <1>1, <3>1 DEF Own
        <5>6. CASE call[c].pc = "new"
          BY <5>2, <5>5, <5>6 DEF Like, Own, Sure, Holding
        <5>7. CASE call[c].pc = "entered"
          <6>1. call'[c].nonce \in Nat /\ call'[c].nonce >= m /\ call'[c].pc = "nonced"
            BY <5>2, <5>4, <5>7
          <6>2. Raised(c)
            BY <5>1, <5>7, <6>1 DEF Raised
          <6>3. call'[c].nonce # None
            BY <6>1 DEF None
          <6> QED
            BY <5>2, <5>5, <6>1, <6>2, <6>3 DEF Own, Sure, Holding
        <5> QED
          BY <3>1, <5>6, <5>7
      <4>2. CASE SameBut(c)
        <5>1. Own(c)'
          BY <1>1, <1>3, <3>2, <4>2, OwnStays
        <5> QED
          BY <3>1, <4>2, <5>1 DEF SameBut, Like, Holding, Sure
      <4> QED
        BY <3>2, <4>1, <4>2
    <3> QED
      BY <1>0, <1>2, <3>2, <3>3, UpheldAlone
  <2>2. CASE ReadFails(c)
    <3>1. faults' = [faults EXCEPT !.reads = @ + 1]
      BY <2>2 DEF ReadFails
    <3>2. faults'.reads > 0
      BY <1>0, <3>1 DEF Typed
    <3> QED
      BY <3>2 DEF Calm
  <2>3. CASE Answers(c)
    <3>1. PICK nonce \in Nat :
            /\ Deliver(c, nonce) /\ nonce >= call[c].low /\ nonce >= call[c].floor.nonce
            /\ cache'[UserOf[c]].nonce = nonce
            /\ \A u \in Users : u # UserOf[c] => cache'[u] = cache[u]
            /\ UNCHANGED <<mined, pool>>
            /\ lowered' <=> lowered \/ Lowers(c, nonce)
      BY <1>0, <2>3, ReadAnswersIs
    <3>2. ~Lowers(c, nonce)
      BY <3>1 DEF Calm
    <3> QED
      BY <1>0, <3>1, <3>2, UpheldRead
  <2>4. CASE Queues(c)
    <3>1. /\ UNCHANGED <<cache, mined, pool>>
          /\ \A d \in Calls : /\ MovedOnly(d)
                              /\ call'[d].pc = call[d].pc \/ <<call[d].pc, call'[d].pc>> \in Ways
      BY <1>0, <2>4, QueuesIs
    <3>2. ASSUME NEW d \in Calls PROVE Like(d) /\ Own(d)' /\ (Sure(d)' => Sure(d))
      <4>1. MovedOnly(d) /\ Own(d) /\ OnChain(d)' = OnChain(d)
        BY <1>1, <1>3, <3>1
      <4>2. CASE call'[d].pc = call[d].pc
        <5>1. Own(d)'
          BY <4>1, <4>2, OwnStays DEF MovedOnly, SameBut
        <5> QED
          BY <4>1, <4>2, <5>1 DEF MovedOnly, Like, Sure
      <4>3. CASE <<call[d].pc, call'[d].pc>> \in Ways
        <5>1. /\ call'[d].pc \notin Holding \union {"refreshing"} /\ call[d].pc # "refreshing"
              /\ call[d].pc = "settled" => call'[d].pc = "done"
              /\ call[d].pc # "done"
          BY <4>3 DEF Ways, Holding
        <5>2. Own(d)'
          BY <4>1, <5>1 DEF MovedOnly, Own, Holding
        <5> QED
          BY <4>1, <5>1, <5>2 DEF MovedOnly, Like, Sure
      <4> QED
        BY <3>1, <4>2, <4>3
    <3>3. \A d \in Calls : OnChain(d) \subseteq OnChain(d)'
      BY <1>3, <3>1
    <3> QED
      BY <1>0, <1>2, <3>1, <3>2, <3>3, UpheldStill
  <2>5. CASE Ends(c) \/ AdoptPrior(c) \/ Watch(c)
    <3>1. /\ UNCHANGED <<cache, mined, pool>> /\ call[c].pc # "refreshing"
          /\ call[c].pc \in Inside
      BY <2>5, SoleStepsAre DEF Ends, Retries, SoleSteps
    <3>2. /\ Keeps(c)
          /\ \/ call'[c].pc = "settled" /\ (call'[c].accepted => call[c].prior)
             \/ /\ call'[c].pc = "sending" /\ call[c].pc \in Holding
                /\ call'[c].accepted = call[c].accepted
      <4>1. CASE Ends(c)
        BY <1>0, <4>1, EndsIs DEF Holding
      <4>2. CASE AdoptPrior(c)
        BY <1>0, <4>2, AdoptPriorIs
      <4>3. CASE Watch(c)
        BY <1>0, <1>1, <4>3, WatchIs DEF Own, Holding
      <4> QED
        BY <2>5, <4>1, <4>2, <4>3
    <3>3. Own(c) /\ call'[c].nonce = call[c].nonce /\ call'[c].prior = call[c].prior
      BY <1>1, <3>2 DEF Keeps
    <3>4. Like(c) /\ (Sure(c)' => Sure(c)) /\ Own(c)'
      <4>1. CASE call'[c].pc = "settled" /\ (call'[c].accepted => call[c].prior)
        BY <3>1, <3>3, <4>1 DEF Like, Sure, Own, Holding
      <4>2. CASE call'[c].pc = "sending" /\ call[c].pc \in Holding /\ call'[c].accepted = call[c].accepted
        BY <3>3, <4>2 DEF Like, Sure, Own, Holding
      <4> QED
        BY <3>2, <4>1, <4>2
    <3> QED
      BY <1>0, <1>2, <3>1, <3>2, <3>4, UpheldAlone DEF Keeps
  <2>6. CASE ResolveNonce(c)
    <3>1. UNCHANGED <<cache, mined, pool>> /\ call[c].pc = "nonced"
      BY <2>6 DEF ResolveNonce
    <3>2. Own(c) /\ call[c].nonce # None /\ ~call[c].accepted
      BY <1>1, <3>1 DEF Own, Holding
    <3>3. /\ Alone(c) /\ call'[c].pc = "sending" /\ call'[c].prior = call[c].prior
          /\ call'[c].accepted = call[c].accepted /\ call'[c].nonce = call[c].nonce
      BY <1>0, <2>6, <3>2, ResolveNonceSteps
    <3>4. Like(c) /\ (Sure(c)' => Sure(c)) /\ Own(c)'
      BY <3>1, <3>2, <3>3 DEF Like, Sure, Own, Holding
    <3> QED
      BY <1>0, <1>2, <3>1, <3>3, <3>4, UpheldAlone
  <2>7. CASE SendAccepted(c)
    <3>1. Place(c) /\ Seed(c) /\ UNCHANGED mined /\ call[c].pc = "sending"
      BY <2>7 DEF SendAccepted
    <3>2. /\ Alone(c) /\ call'[c].nonce = call[c].nonce
          /\ \/ call'[c].pc = "settled"
             \/ call'[c].pc = "watching" /\ call'[c].prior /\ call'[c].accepted = call[c].accepted
      BY <1>0, <2>7, SendAcceptedSteps
    <3>3. Own(c)'
      BY <1>1, <3>1, <3>2 DEF Own, Holding
    <3>4. call'[c].pc \in {"settled", "watching", "fallback", "broadcast"}
      BY <3>2
    <3> QED
      BY <1>0, <3>1, <3>2, <3>3, <3>4, UpheldPlaced
  <2>8. CASE TransportFails(c)
    <3>1. UNCHANGED <<cache, mined>> /\ call[c].pc = "sending" /\ (UNCHANGED pool \/ Place(c))
      BY <2>8 DEF TransportFails
    <3>2. Keeps(c) /\ call'[c].pc = "fallback" /\ call'[c].accepted = call[c].accepted
      BY <1>0, <2>8, TransportFailsSteps
    <3>3. Like(c) /\ (Sure(c)' => Sure(c)) /\ Own(c)'
      BY <1>1, <3>1, <3>2 DEF Like, Sure, Own, Holding, Keeps
    <3>4. CASE Place(c)
      BY <1>0, <3>1, <3>2, <3>3, <3>4, UpheldPlaced DEF Keeps
    <3>5. CASE UNCHANGED pool
      BY <1>0, <1>2, <3>1, <3>2, <3>3, <3>5, UpheldAlone DEF Keeps
    <3> QED
      BY <3>1, <3>4, <3>5
  <2>9. CASE FallbackBroadcast(c)
    <3>1. UNCHANGED <<cache, mined>> /\ call[c].pc = "fallback" /\ Place(c)
      BY <2>9 DEF FallbackBroadcast
    <3>2. Keeps(c) /\ call'[c].pc = "broadcast" /\ call'[c].accepted = call[c].accepted
      BY <1>0, <2>9, FallbackBroadcastSteps
    <3>3. Own(c) /\ call[c].nonce # None
      BY <1>1, <3>1 DEF Own, Holding
    <3>4. call[c].nonce \in OnChain(c)'
      BY <1>0, <3>1, <3>3, OnChainPlaced, SentNonceIs
    <3>5. Own(c)' /\ (Sure(c)' => Sure(c))
      BY <3>1, <3>2, <3>3, <3>4 DEF Own, Sure, Holding, Keeps
    <3> QED
      BY <1>0, <3>1, <3>2, <3>5, UpheldPlaced DEF Keeps
  <2>10. CASE FallbackReturns(c)
    <3>1. UNCHANGED <<mined, pool>> /\ call[c].pc = "broadcast"
      BY <2>10 DEF FallbackReturns
    <3>2. /\ Keeps(c)
          /\ \/ /\ Seed(c)
                /\ \/ call'[c].pc = "settled"
                   \/ call'[c].pc = "sending" /\ call'[c].accepted = call[c].accepted
             \/ call'[c].pc = "settled" /\ ~call'[c].accepted /\ UNCHANGED cache
      BY <1>0, <2>10, FallbackReturnsSteps
    <3>3. Own(c)'
      BY <1>1, <3>1, <3>2 DEF Own, Holding, Keeps
    <3>4. CASE Seed(c)
      BY <1>0, <3>1, <3>2, <3>3, <3>4, UpheldSeeded
    <3>5. CASE call'[c].pc = "settled" /\ ~call'[c].accepted /\ UNCHANGED cache
      <4>1. Like(c) /\ (Sure(c)' => Sure(c))
        BY <3>1, <3>2, <3>5 DEF Like, Sure, Holding, Keeps
      <4> QED
        BY <1>0, <1>2, <3>1, <3>2, <3>3, <3>5, <4>1, UpheldAlone DEF Keeps
    <3> QED
      BY <3>2, <3>4, <3>5
  <2>11. CASE RefreshNonce(c)
    BY <1>0, <2>11, UpheldRefreshed DEF Calm
  <2> QED
    BY <1>4, <2>1, <2>2, <2>3, <2>4, <2>5, <2>6, <2>7, <2>8, <2>9, <2>10, <2>11
       DEF Advance, Queues, Ends, Retries, Answers
<1>5. ASSUME UNCHANGED call, \A d \in Calls : OnChain(d)' = OnChain(d),
             \A u \in Users : cache'[u].nonce >= cache[u].nonce
      PROVE  Upheld'
  <2>1. ASSUME NEW d \in Calls PROVE Like(d) /\ Own(d)' /\ (Sure(d)' => Sure(d))
    <3>1. Own(d)'
      BY <1>1, <1>5, OwnStays DEF SameBut
    <3> QED
      BY <1>5, <3>1 DEF Like, Sure
  <2>2. \A d \in Calls : OnChain(d) \subseteq OnChain(d)'
    BY <1>5
  <2> QED
    BY <1>0, <1>5, <2>1, <2>2, UpheldStill
<1>6. ASSUME NEW v \in Users, Mine(v) PROVE Upheld'
  <2>1. UNCHANGED <<call, cache>>
    BY <1>6 DEF Mine
  <2>2. \A d \in Calls : OnChain(d)' = OnChain(d)
    BY <1>0, <1>6, OnChainMined
  <2> QED
    BY <1>2, <1>5, <2>1, <2>2
<1>7. ASSUME NEW v \in Users, Drop(v) PROVE Upheld'
  <2>1. faults' = [faults EXCEPT !.drops = @ + 1]
    BY <1>7 DEF Drop
  <2>2. faults \in [transport : Nat, reads : Nat, drops : Nat]
    BY <1>0 DEF Typed
  <2>3. faults'.drops > 0
    BY <2>1, <2>2
  <2> QED
    BY <2>3 DEF Calm
<1>8. ASSUME NEW v \in Users, Age(v) PROVE Upheld'
  <2>1. UNCHANGED <<call, mined, pool>>
    BY <1>8 DEF Age
  <2>2. PICK a : a = IF cache[v].age = "fresh" THEN "stale" ELSE "old"
    OBVIOUS
  <2>3. cache' = [cache EXCEPT ![v].age = a]
    BY <1>8, <2>2 DEF Age
  <2>4. \A u \in Users : cache'[u].nonce = cache[u].nonce
    BY <1>0, <2>3 DEF Typed, Entries
  <2>5. \A u \in Users : cache[u].nonce \in Int
    BY <1>0, CacheInt
  <2>6. \A u \in Users : cache'[u].nonce >= cache[u].nonce
    BY <2>4, <2>5
  <2> QED
    BY <1>3, <1>5, <2>1, <2>6
<1>9. CASE UNCHANGED vars
  BY <1>2, <1>3, <1>5, <1>9 DEF vars
<1> QED
  BY <1>4, <1>6, <1>7, <1>8, <1>9 DEF Next

\* While nothing is forgotten, every answer arrives and none lowers a nonce
\* that is cached, an accepted transaction keeps a place on the chain: its
\* nonce is never given to a later call (seedNextPendingNonce,
\* resolveNonceFloor, privyWallet.ts:591-669, 1684-1716).
THEOREM AcceptedStaysAlways == Spec => []AcceptedStays
<1>1. Init => StaysInv
  <2>1. ASSUME Init, NEW c \in Calls PROVE Own(c) /\ ~Sure(c)
    <3>1. call[c].pc \in {"new", "ready"}
      BY <2>1 DEF Init
    <3>2. ~call[c].prior /\ ~call[c].accepted
      BY <2>1, OnChainInit
    <3> QED
      BY <3>1, <3>2 DEF Own, Sure, Holding
  <2> QED
    BY <2>1, BaseInit DEF StaysInv, Upheld
<1>2. StaysInv /\ [Next]_vars => StaysInv'
  BY BaseStep, UpheldStep DEF StaysInv
<1>3. StaysInv => AcceptedStays
  <2>1. ASSUME NEW c \in Calls, OneInLane, Sure(c), Held(c) PROVE OnChain(c) # {}
    <3>1. CASE Refreshed(UserOf[c])
      BY <2>1, <3>1 DEF Refreshed, Held, Below
    <3>2. CASE ~Refreshed(UserOf[c])
      BY <2>1, <3>2 DEF Held, Below
    <3> QED
      BY <3>1, <3>2
  <2> QED
    BY <2>1 DEF StaysInv, Upheld, AcceptedStays, Sure, Base, Lanes
<1> QED
  BY <1>1, <1>2, <1>3, PTL DEF Spec
=============================================================================
