------------------------------ MODULE SendLane ------------------------------
(***************************************************************************)
(* How a transaction of an embedded wallet leaves the server: the priority  *)
(* queue of each user (privyWalletQueue.ts), the chain's send limiter        *)
(* (privyChainSendLimiter.ts), the cache of pending nonces with its shared   *)
(* reads (privyWallet.ts:591-669, nonce/), and the attempt loop of           *)
(* sendTransactionLifecycle (privyWallet.ts:868-1803), against a chain that  *)
(* mines, and may drop, what it was sent.                                    *)
(*                                                                           *)
(* One chain on which Privy sends (PRIVY_SEND_TX_CHAIN_IDS), one embedded    *)
(* wallet per user, so that the queue key is also the wallet key and         *)
(* withWalletChainLock never waits.  The steps of a call are separated by    *)
(* its awaits: everything between two of them is atomic.                     *)
(***************************************************************************)
EXTENDS Integers, Sequences, FiniteSets, Functions

CONSTANTS
  Calls,            \* calls of sendTransactionLifecycle
  Users,
  UserOf,           \* [Calls -> Users]
  Purpose,          \* txPurpose; "fast" is a trade with a sniper profile
  Prewarmed,        \* calls whose caller reads the nonce before it enqueues
  Disowned,         \* calls whose order a fallback has taken over
  NoCall,
  Limit,            \* CHAIN_SEND_CONCURRENCY_LIMIT
  MaxRetries,       \* MAX_RETRIES
  MaxFaults         \* bound: answers of Privy that are lost, failed nonce reads,
                    \* and transactions the mempool forgets, together

ASSUME SendLaneAssumption ==
  /\ UserOf \in [Calls -> Users]
  /\ Purpose \in [Calls -> {"trade", "fast", "approval", "fee"}]
  /\ Prewarmed \subseteq Calls /\ Disowned \subseteq Calls /\ NoCall \notin Calls
  /\ IsFiniteSet(Calls)
  /\ Limit \in Nat \ {0} /\ MaxRetries \in Nat \ {0}
  /\ MaxFaults \in Nat

VARIABLES
  call,      \* the calls
  lane,      \* userTransactionQueues: is one running, and who waits
  inFlight,  \* the limiter's count
  waiting,   \* the limiter's queue
  cache,     \* pendingNonceCache, per wallet
  reading,   \* pendingNonceInflight: the call whose read others join
  mined,     \* per wallet: the calls whose transactions were mined, by nonce
  pool,      \* per wallet: nonce -> the call whose transaction is pending
  faults,    \* faults so far
  lowered    \* history: the nonce that was cached has been lowered, by a read
             \* that was asked before it was cached, or by a refresh

vars == <<call, lane, inFlight, waiting, cache, reading, mined, pool, faults, lowered>>
-----------------------------------------------------------------------------
\* A nonce that is undefined in the code; smaller than every nonce.
None == -1

MaxOf(m, n) == IF m >= n THEN m ELSE n

Ages == {"fresh", "stale", "old"}  \* within the TTL, within the floor retention, older

NoEntry == [nonce |-> None, age |-> "old"]

Deterministic(c) == Purpose[c] \in {"trade", "fast"}
Immediate(c)     == Purpose[c] \in {"approval", "fast"}
Fast(c)          == Purpose[c] = "fast"

\* resolveTransactionQueuePriority
Priority(c) == CASE Deterministic(c) -> 400
                 [] Purpose[c] = "approval" -> 300
                 [] OTHER -> 100

Mined(u) == Len(mined[u])

\* The chain's pending transaction count.
PendingCount(u) == CHOOSE n \in Mined(u) .. Mined(u) + Cardinality(DOMAIN pool[u]) :
                     /\ n \notin DOMAIN pool[u]
                     /\ \A m \in Mined(u) .. n - 1 : m \in DOMAIN pool[u]

\* The nonce a broadcast of c carries; Privy fills in the one it is not given.
SentNonce(c) == IF call[c].nonce = None THEN PendingCount(UserOf[c]) ELSE call[c].nonce

TooLow(c)   == SentNonce(c) < Mined(UserOf[c])
Occupied(c) == SentNonce(c) \in DOMAIN pool[UserOf[c]]

\* A pending transaction of the same nonce is replaced.
With(f, n, c) == [m \in DOMAIN f \union {n} |-> IF m = n THEN c ELSE f[m]]

Place(c) == pool' = [pool EXCEPT ![UserOf[c]] = With(@, SentNonce(c), c)]

MoreFaults == faults.transport + faults.reads + faults.drops < MaxFaults

Goto(c, pc) == [call EXCEPT ![c].pc = pc]

Retry(c) == [call EXCEPT ![c].pc = "sending", ![c].attempt = @ + 1]

Settled(c, ok) == [call EXCEPT ![c].pc = "settled", ![c].accepted = ok]

Init ==
  /\ call = [c \in Calls |-> [pc |-> IF c \in Prewarmed THEN "new" ELSE "ready",
                              nonce |-> None, attempt |-> 1, prior |-> FALSE,
                              accepted |-> FALSE, joined |-> NoCall,
                              floor |-> NoEntry, low |-> 0]]
  /\ lane = [u \in Users |-> [running |-> FALSE, queue |-> <<>>]]
  /\ inFlight = 0 /\ waiting = <<>>
  /\ cache = [u \in Users |-> NoEntry]
  /\ reading = [u \in Users |-> NoCall]
  /\ mined = [u \in Users |-> <<>>]
  /\ pool = [u \in Users |-> <<>>]
  /\ faults = [transport |-> 0, reads |-> 0, drops |-> 0]
  /\ lowered = FALSE
-----------------------------------------------------------------------------
(***************************************************************************)
(* getPendingNonce.  The cached entry, and its age, are read before the      *)
(* request goes out and used when it answers; a call that arrives meanwhile  *)
(* joins the request, unless a send has taken it off pendingNonceInflight.   *)
(***************************************************************************)

\* (mutation) the lane keeps the nonce it was given, however old.
KeepRequested(r, nonce) ==
  CASE r.pc = "new" -> [r EXCEPT !.pc = "ready", !.nonce = nonce]
    [] r.pc = "entered" ->
         [r EXCEPT !.nonce = IF @ = None THEN nonce ELSE @, !.pc = "nonced"]
    [] r.pc = "refreshing" ->
         [r EXCEPT !.nonce = MaxOf(@ + 1, nonce), !.attempt = @ + 1, !.pc = "sending"]

\* What a reader does with the nonce: the caller keeps it, the lane raises
\* it to the floor (resolveNonceFloor), a retry advances past its own.
Answered(r, nonce) ==
  CASE r.pc = "new" -> [r EXCEPT !.pc = "ready", !.nonce = nonce]
    [] r.pc = "entered" ->
         [r EXCEPT !.nonce = MaxOf(@, nonce), !.pc = "nonced"]
    [] r.pc = "refreshing" ->
         [r EXCEPT !.nonce = MaxOf(@ + 1, nonce), !.attempt = @ + 1, !.pc = "sending"]

\* The state of reader c with the request it started.
Asked(c, entry) == [call[c] EXCEPT !.joined = c, !.floor = entry, !.low = Mined(UserOf[c])]

GetPendingNonce(c) ==
  LET u == UserOf[c] IN
  /\ call[c].joined = NoCall
  /\ \/ /\ cache[u].age = "fresh" /\ cache[u].nonce # None
        /\ call' = [call EXCEPT ![c] = Answered(@, cache[u].nonce)]
        /\ UNCHANGED reading
     \/ /\ cache[u].age # "fresh" /\ reading[u] # NoCall
        /\ call' = [call EXCEPT ![c].joined = reading[u]]
        /\ UNCHANGED reading
     \/ /\ cache[u].age # "fresh" /\ reading[u] = NoCall
        /\ call' = [call EXCEPT ![c] = Asked(c, cache[u])]
        /\ reading' = [reading EXCEPT ![u] = c]
  /\ UNCHANGED <<lane, inFlight, waiting, cache, mined, pool, faults, lowered>>

Prewarm(c) == call[c].pc = "new" /\ GetPendingNonce(c)

\* (mutation) only the call that started the request hears of its answer.
DeliverToOwner(c, nonce) ==
  call' = [call EXCEPT ![c] = [Answered(@, nonce) EXCEPT !.joined = NoCall, !.floor = NoEntry,
                                                         !.low = 0]]

\* Everyone who joined the request of c gets its answer.
Deliver(c, nonce) ==
  call' = [d \in Calls |-> IF call[d].joined = c
                           THEN [Answered(call[d], nonce) EXCEPT !.joined = NoCall,
                                                                 !.floor = NoEntry, !.low = 0]
                           ELSE call[d]]

\* resolvePendingNonce
ResolvePendingNonce(cached, rpc) == MaxOf(cached, rpc)

\* A node answers with any count between what was mined when it was asked and
\* what is pending now: it need not have seen the pending transactions.
ReadAnswers(c, n) ==
  LET u == UserOf[c]
      nonce == ResolvePendingNonce(call[c].floor.nonce, n)
  IN /\ call[c].joined = c
     /\ Deliver(c, nonce)
     /\ cache' = [cache EXCEPT ![u] = [nonce |-> nonce, age |-> "fresh"]]
     /\ reading' = [reading EXCEPT ![u] = NoCall]
     /\ lowered' = (lowered \/ (/\ call[c].floor.nonce # cache[u].nonce
                                /\ nonce < cache[u].nonce))
     /\ UNCHANGED <<lane, inFlight, waiting, mined, pool, faults>>

ReadFails(c) ==
  /\ call[c].joined = c /\ MoreFaults
  /\ Deliver(c, IF call[c].floor.age = "old" THEN None ELSE call[c].floor.nonce)
  /\ reading' = [reading EXCEPT ![UserOf[c]] = NoCall]
  /\ faults' = [faults EXCEPT !.reads = @ + 1]
  /\ UNCHANGED <<lane, inFlight, waiting, cache, mined, pool, lowered>>
-----------------------------------------------------------------------------
(***************************************************************************)
(* withUserTransactionLock and withChainSendLimiter.  A waiter of the        *)
(* limiter is woken by a promise: it takes its place a step later, and a     *)
(* newcomer may take one in between.                                         *)
(***************************************************************************)
\* Behind the calls of the same priority: k calls stay in front.
Insert(q, c, k) == SubSeq(q, 1, k) \o <<c>> \o SubSeq(q, k + 1, Len(q))

Before(q, c, k) == /\ \A j \in 1 .. k : Priority(q[j]) >= Priority(c)
                   /\ \A j \in k + 1 .. Len(q) : Priority(q[j]) < Priority(c)

WithUserTransactionLock(c) ==
  LET u == UserOf[c]
      q == lane[u].queue
  IN /\ call[c].pc = "ready"
     /\ \/ /\ lane[u].running
           /\ \E k \in 0 .. Len(q) : /\ Before(q, c, k)
                                     /\ lane' = [lane EXCEPT ![u].queue = Insert(q, c, k)]
           /\ call' = Goto(c, "queued")
        \/ /\ ~lane[u].running
           /\ lane' = [lane EXCEPT ![u].running = TRUE]
           /\ call' = Goto(c, "started")
     /\ UNCHANGED <<inFlight, waiting, cache, reading, mined, pool, faults, lowered>>

EnterLimiter(c) ==
  /\ call[c].pc = "started"
  /\ IF inFlight >= Limit
     THEN waiting' = Append(waiting, c) /\ call' = Goto(c, "waiting") /\ UNCHANGED inFlight
     ELSE inFlight' = inFlight + 1 /\ call' = Goto(c, "entered") /\ UNCHANGED waiting
  /\ UNCHANGED <<lane, cache, reading, mined, pool, faults, lowered>>

TakePlace(c) ==
  /\ call[c].pc = "woken"
  /\ inFlight' = inFlight + 1
  /\ call' = Goto(c, "entered")
  /\ UNCHANGED <<lane, waiting, cache, reading, mined, pool, faults, lowered>>

\* (mutation) the limiter gives its place back and wakes nobody.
LeaveSilently(c) ==
  LET u == UserOf[c]
      q == lane[u].queue
  IN /\ call[c].pc = "settled"
     /\ inFlight' = inFlight - 1
     /\ lane' = [lane EXCEPT ![u] = IF q = <<>> THEN [@ EXCEPT !.running = FALSE]
                                                ELSE [@ EXCEPT !.queue = Tail(q)]]
     /\ call' = [d \in Calls |-> IF d = c THEN [call[d] EXCEPT !.pc = "done"]
                                 ELSE IF q # <<>> /\ d = q[1] THEN [call[d] EXCEPT !.pc = "started"]
                                 ELSE call[d]]
     /\ UNCHANGED <<waiting, cache, reading, mined, pool, faults, lowered>>

\* The limiter's finally, and with it the lane's: the next call of the user.
Leave(c) ==
  LET u == UserOf[c]
      q == lane[u].queue
      next == IF q = <<>> THEN {} ELSE {Head(q)}
      woken == IF waiting = <<>> THEN {} ELSE {Head(waiting)}
  IN /\ call[c].pc = "settled"
     /\ inFlight' = inFlight - 1
     /\ waiting' = IF waiting = <<>> THEN <<>> ELSE Tail(waiting)
     /\ lane' = [lane EXCEPT ![u] = IF q = <<>> THEN [@ EXCEPT !.running = FALSE]
                                                ELSE [@ EXCEPT !.queue = Tail(q)]]
     /\ call' = [d \in Calls |-> IF d = c THEN [call[d] EXCEPT !.pc = "done"]
                                 ELSE IF d \in next THEN [call[d] EXCEPT !.pc = "started"]
                                 ELSE IF d \in woken THEN [call[d] EXCEPT !.pc = "woken"]
                                 ELSE call[d]]
     /\ UNCHANGED <<cache, reading, mined, pool, faults, lowered>>
-----------------------------------------------------------------------------
(***************************************************************************)
(* sendTransactionLifecycle, inside the lane.                               *)
(***************************************************************************)

\* shouldSuppressSendForFallbackOwnership, or a user without a wallet.
Suppress(c) ==
  /\ call[c].pc = "entered" /\ c \in Disowned
  /\ call' = Settled(c, FALSE)
  /\ UNCHANGED <<lane, inFlight, waiting, cache, reading, mined, pool, faults, lowered>>

LoadFloor(c) == call[c].pc = "entered" /\ c \notin Disowned /\ GetPendingNonce(c)

\* A trade is not sent without a nonce of its own if a provider knows one.
ResolveNonce(c) ==
  LET u == UserOf[c] IN
  /\ call[c].pc = "nonced"
  /\ IF Deterministic(c) /\ call[c].nonce = None
     THEN \E n \in Mined(u) .. PendingCount(u) \union {None} :
            call' = [call EXCEPT ![c].nonce = n, ![c].pc = "sending"]
     ELSE call' = Goto(c, "sending")
  /\ UNCHANGED <<lane, inFlight, waiting, cache, reading, mined, pool, faults, lowered>>

\* seedNextPendingNonce: the cache, and the shared read, are replaced.
Seed(c) ==
  IF call[c].nonce = None THEN UNCHANGED <<cache, reading>>
  ELSE /\ cache' = [cache EXCEPT ![UserOf[c]] = [nonce |-> call[c].nonce + 1, age |-> "fresh"]]
       /\ reading' = [reading EXCEPT ![UserOf[c]] = NoCall]

\* (mutation) an accepted send is not remembered for the next attempt.
SendUnnoted(c) ==
  /\ call[c].pc = "sending" /\ ~TooLow(c)
  /\ Place(c) /\ Seed(c)
  /\ call' = IF Immediate(c) THEN Settled(c, TRUE) ELSE Goto(c, "watching")
  /\ UNCHANGED <<lane, inFlight, waiting, mined, faults, lowered>>

\* Privy answers with a hash.  A transaction that occupies the nonce is replaced.
SendAccepted(c) ==
  /\ call[c].pc = "sending" /\ ~TooLow(c)
  /\ Place(c) /\ Seed(c)
  /\ call' = IF Immediate(c) THEN Settled(c, TRUE)
             ELSE [call EXCEPT ![c].pc = "watching", ![c].prior = TRUE]
  /\ UNCHANGED <<lane, inFlight, waiting, mined, faults, lowered>>

\* verifyTxVisibility and the receipt.  An unseen trade is sent again with the
\* same nonce and more gas (shouldRetryAfterBroadcastUnseen).
Watch(c) ==
  /\ call[c].pc = "watching"
  /\ \/ call' = Settled(c, TRUE)
     \/ Deterministic(c) /\ call' = Settled(c, FALSE)
     \/ /\ Deterministic(c) /\ call[c].nonce # None /\ call[c].attempt < MaxRetries
        /\ call' = Retry(c)
  /\ UNCHANGED <<lane, inFlight, waiting, cache, reading, mined, pool, faults, lowered>>

\* (mutation) the next nonce is cached before the send is known to be accepted.
SeedBeforeRefusal(c) ==
  /\ call[c].pc = "sending"
  /\ \/ call[c].attempt < MaxRetries /\ call' = Retry(c)
     \/ call' = Settled(c, FALSE)
  /\ Seed(c)
  /\ UNCHANGED <<lane, inFlight, waiting, mined, pool, faults, lowered>>

\* Refused for its funds or its fee; a fee is raised for the next attempt.
SendRefused(c) ==
  /\ call[c].pc = "sending"
  /\ \/ call[c].attempt < MaxRetries /\ call' = Retry(c)
     \/ call' = Settled(c, FALSE)
  /\ UNCHANGED <<lane, inFlight, waiting, cache, reading, mined, pool, faults, lowered>>

\* "nonce too low" or "replacement transaction underpriced".
NonceError(c) ==
  /\ call[c].pc = "sending" /\ call[c].nonce # None
  /\ TooLow(c) \/ Occupied(c)

AdoptPrior(c) ==
  /\ NonceError(c) /\ call[c].prior
  /\ call' = Settled(c, TRUE)
  /\ UNCHANGED <<lane, inFlight, waiting, cache, reading, mined, pool, faults, lowered>>

GiveUpNonce(c) ==
  /\ NonceError(c) /\ ~call[c].prior /\ call[c].attempt = MaxRetries
  /\ call' = Settled(c, FALSE)
  /\ UNCHANGED <<lane, inFlight, waiting, cache, reading, mined, pool, faults, lowered>>

\* A trade that is underpriced keeps its nonce and raises its gas.
Outbid(c) ==
  /\ NonceError(c) /\ ~call[c].prior /\ call[c].attempt < MaxRetries
  /\ Deterministic(c) /\ Occupied(c)
  /\ call' = Retry(c)
  /\ UNCHANGED <<lane, inFlight, waiting, cache, reading, mined, pool, faults, lowered>>

\* invalidatePendingNonce, and a new read.
RefreshNonce(c) ==
  /\ NonceError(c) /\ ~call[c].prior /\ call[c].attempt < MaxRetries
  /\ Deterministic(c) => TooLow(c)
  /\ cache' = [cache EXCEPT ![UserOf[c]] = NoEntry]
  /\ reading' = [reading EXCEPT ![UserOf[c]] = c]
  /\ call' = [call EXCEPT ![c] = [Asked(c, NoEntry) EXCEPT !.pc = "refreshing"]]
  /\ lowered' = (lowered \/ cache[UserOf[c]].nonce > Mined(UserOf[c]))
  /\ UNCHANGED <<lane, inFlight, waiting, mined, pool, faults>>

\* The transport fails; whether Privy has sent the transaction is not known.
TransportFails(c) ==
  /\ call[c].pc = "sending" /\ MoreFaults
  /\ faults' = [faults EXCEPT !.transport = @ + 1]
  /\ call' = Goto(c, "fallback")
  /\ UNCHANGED pool \/ (~TooLow(c) /\ Place(c))
  /\ UNCHANGED <<lane, inFlight, waiting, cache, reading, mined, lowered>>

\* signAndBroadcastRawTransaction with the same nonce; it looks for the
\* transaction before it returns.
FallbackBroadcast(c) ==
  /\ call[c].pc = "fallback" /\ ~TooLow(c)
  /\ Place(c)
  /\ call' = Goto(c, "broadcast")
  /\ UNCHANGED <<lane, inFlight, waiting, cache, reading, mined, faults, lowered>>

\* The lane seeds the cache, and does not note that a send was accepted; a
\* trade whose receipt says it failed is not even seeded.
FallbackReturns(c) ==
  /\ call[c].pc = "broadcast"
  /\ \/ call' = Settled(c, TRUE) /\ Seed(c)
     \/ /\ Deterministic(c) /\ ~Fast(c) /\ call[c].nonce # None
        /\ call[c].attempt < MaxRetries
        /\ call' = Retry(c) /\ Seed(c)
     \/ Deterministic(c) /\ ~Fast(c) /\ call' = Settled(c, FALSE) /\ UNCHANGED <<cache, reading>>
  /\ UNCHANGED <<lane, inFlight, waiting, mined, pool, faults, lowered>>

\* The fallback's error is not classified: the transport's decides.
FallbackFails(c) ==
  /\ call[c].pc = "fallback"
  /\ \/ call[c].attempt < MaxRetries /\ call' = Retry(c)
     \/ call' = Settled(c, FALSE)
  /\ UNCHANGED <<lane, inFlight, waiting, cache, reading, mined, pool, faults, lowered>>
-----------------------------------------------------------------------------
(***************************************************************************)
(* The chain, and time.                                                     *)
(***************************************************************************)
Mine(u) ==
  /\ Mined(u) \in DOMAIN pool[u]
  /\ mined' = [mined EXCEPT ![u] = Append(@, pool[u][Mined(u)])]
  /\ pool' = [pool EXCEPT ![u] = Restrict(@, DOMAIN @ \ {Mined(u)})]
  /\ UNCHANGED <<call, lane, inFlight, waiting, cache, reading, faults, lowered>>

Drop(u) ==
  /\ MoreFaults
  /\ \E n \in DOMAIN pool[u] : pool' = [pool EXCEPT ![u] = Restrict(@, DOMAIN @ \ {n})]
  /\ faults' = [faults EXCEPT !.drops = @ + 1]
  /\ UNCHANGED <<call, lane, inFlight, waiting, cache, reading, mined, lowered>>

Age(u) ==
  /\ cache[u].nonce # None /\ cache[u].age # "old"
  /\ cache' = [cache EXCEPT ![u].age = IF @ = "fresh" THEN "stale" ELSE "old"]
  /\ UNCHANGED <<call, lane, inFlight, waiting, reading, mined, pool, faults, lowered>>

Advance(c) ==
  \/ Prewarm(c) \/ LoadFloor(c)
  \/ \E n \in call[c].low .. PendingCount(UserOf[c]) : ReadAnswers(c, n)
  \/ ReadFails(c)
  \/ WithUserTransactionLock(c) \/ EnterLimiter(c) \/ TakePlace(c) \/ Leave(c)
  \/ Suppress(c) \/ ResolveNonce(c) \/ SendAccepted(c) \/ Watch(c) \/ SendRefused(c)
  \/ AdoptPrior(c) \/ GiveUpNonce(c) \/ Outbid(c) \/ RefreshNonce(c)
  \/ TransportFails(c) \/ FallbackBroadcast(c) \/ FallbackReturns(c) \/ FallbackFails(c)

Next ==
  \/ \E c \in Calls : Advance(c)
  \/ \E u \in Users : Mine(u) \/ Drop(u) \/ Age(u)

Spec == Init /\ [][Next]_vars

\* Every request is answered or fails, and every promise runs: a call that
\* can take a step takes one.  The chain need not mine anything.
FairSpec == Spec /\ \A c \in Calls : WF_vars(Advance(c))
-----------------------------------------------------------------------------
OnChain(c) ==
  LET u == UserOf[c] IN
  {n \in 0 .. Mined(u) - 1 : mined[u][n + 1] = c} \union {n \in DOMAIN pool[u] : pool[u][n] = c}

\* What an accepted send relies on: the mempool forgets nothing, nonce reads
\* are answered, none that was under way during a send lowers its floor, and
\* no refresh forgets a floor above what was mined: the node that answers the
\* refresh may miss the pending transactions, and the next call then takes
\* the nonce of one that was accepted (TLC finds it with three calls).
Calm == faults.drops = 0 /\ faults.reads = 0 /\ ~lowered

\* A transaction that was reported as accepted is pending or mined: no later
\* call of the wallet takes its nonce, although nodes answer with counts that
\* miss it (nonce/pendingNonceResolution.ts, nonce/nonceFloorPolicy.ts).
AcceptedStays == Calm => \A c \in Calls : call[c].accepted => OnChain(c) # {}

\* As long as the transport answers, one call puts one transaction on the
\* chain, whatever it retries: its nonce advances only when nothing of it
\* was accepted ("adopting prior tx hash", privyWallet.ts:1616-1635).
SentOnce == faults.transport = 0 => \A c \in Calls : Cardinality(OnChain(c)) <= 1

\* While the mempool forgets nothing, the pending nonces have no gap: every
\* transaction can be mined, whatever was cached, prewarmed or refreshed.
NoGap == faults.drops = 0 =>
           \A u \in Users : DOMAIN pool[u] = Mined(u) .. PendingCount(u) - 1

\* No call waits at the limiter while a place is free: every place is held,
\* or promised to a call that has been woken (privyChainSendLimiter.ts:18-33).
NoIdlePlace ==
  waiting # <<>> => inFlight + Cardinality({c \in Calls : call[c].pc = "woken"}) >= Limit

\* Every call returns, whatever fails (the attempt loop, the finally blocks
\* of the limiter and of the lane, and the shared nonce read).
EverySendEnds == <>[](\A c \in Calls : call[c].pc = "done")
=============================================================================
