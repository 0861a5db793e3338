----------------------------- MODULE RateLimiter -----------------------------
(***************************************************************************)
(* src/src/security/RateLimiter.ts: the limiter of one key, in one or more *)
(* worker processes, some of which share a RateLimitStore.                 *)
(*                                                                         *)
(* checkLimit awaits #get, computes a verdict and a new state from what it *)
(* was handed, and awaits #set.  Continuations of one process run in the   *)
(* order in which they became ready (the microtask queue).  Time is in     *)
(* ticks, and a token is Window units, so that a bucket refills by         *)
(* MaxRequests units a tick; the rounding of fractions is left out.        *)
(*                                                                         *)
(* KeptTooShort is a mutated form of the definition it precedes; no action *)
(* uses it.                                                                *)
(***************************************************************************)
EXTENDS Numbers, Undefined, Integers, Sequences, FiniteSets, SequencesExt

CONSTANTS
    Workers,           \* processes
    Calls,             \* concurrent calls of checkLimit
    Configs,           \* the configurations to consider
    MaxRequests, Window, Burst,
    LimiterTime            \* bound on the clock

\* LimiterState, by algorithm.
Bucket == [tokens : 0..(Burst * Window), lastRefill : 0..LimiterTime]
Log    == [requests : Seq(0..LimiterTime)]
Count  == [count : 0..MaxRequests, windowId : 0..LimiterTime]
State  == Bucket \cup Log \cup Count

ASSUME LimiterAssumption ==
    /\ IsFiniteSet(Calls) /\ None \notin State
    /\ Configs \subseteq [algorithm : {"token_bucket", "sliding_window", "fixed_window"},
                          storage : BOOLEAN, owner : UNION {[S -> Workers] : S \in SUBSET Calls}]
    /\ MaxRequests \in Nat \ {0} /\ Window \in Nat \ {0} /\ Burst \in Nat \ {0}
    /\ LimiterTime \in Nat

VARIABLES
    config,     \* #config, which never changes: the algorithm, whether there is a
                \* shared store, and the process of each call there is
    limiters,   \* #limiters.get(key) of each process, or None
    store,      \* the state in the shared store, or None
    callAt,     \* where each call is
    seen,       \* the state #get hands to a call, or the one on its way to the store
    ready,      \* the microtask queue of each process
    clock,      \* Date.now()
    granted,    \* when calls were granted, in order (a history)
    crowd       \* the most calls that were under way at a time (a history)

limiterVars == <<config, limiters, store, callAt, seen, ready, clock, granted, crowd>>

Callers == DOMAIN config.owner

-----------------------------------------------------------------------------
\* #tokenBucket, #slidingWindow and #fixedWindow, up to the decision.

Refilled(s) == Smaller(Burst * Window, s.tokens + (clock - s.lastRefill) * MaxRequests)

KeptTooShort(s) == Recent(s.requests, clock - Window + 1)
Kept(s) == Recent(s.requests, clock - Window)

CountedNow(s) == IF s.windowId = clock \div Window THEN s.count ELSE 0

Current(s) ==
    CASE config.algorithm = "token_bucket"   ->
            [tokens |-> IF s = None THEN Burst * Window ELSE Refilled(s), lastRefill |-> clock]
      [] config.algorithm = "sliding_window" ->
            [requests |-> IF s = None THEN <<>> ELSE Kept(s)]
      [] config.algorithm = "fixed_window" ->
            [count |-> IF s = None THEN 0 ELSE CountedNow(s), windowId |-> clock \div Window]

\* `allowed`, of the current state.
Allowed(c) ==
    CASE config.algorithm = "token_bucket"   -> c.tokens >= Window
      [] config.algorithm = "sliding_window" -> Len(c.requests) < MaxRequests
      [] config.algorithm = "fixed_window"   -> c.count < MaxRequests

\* The state after an allowed request.
Charged(c) ==
    CASE config.algorithm = "token_bucket"   -> [c EXCEPT !.tokens = @ - Window]
      [] config.algorithm = "sliding_window" -> [c EXCEPT !.requests = Append(@, clock)]
      [] config.algorithm = "fixed_window"   -> [c EXCEPT !.count = @ + 1]

\* #evaluate: the state to be stored.
Evaluated(s) == IF Allowed(Current(s)) THEN Charged(Current(s)) ELSE Current(s)

-----------------------------------------------------------------------------
LimiterInit ==
    /\ config \in Configs
    /\ limiters = [w \in Workers |-> None]
    /\ store = None
    /\ callAt = [r \in Calls |-> "idle"]
    /\ seen = [r \in Calls |-> None]
    /\ ready = [w \in Workers |-> <<>>]
    /\ clock = 0
    /\ granted = <<>>
    /\ crowd = 0

\* checkLimit up to its first wait: #get finds a state, or asks the store.  A
\* `?.` on a store that is not there is awaited like an answer.
CheckLimit(r) ==
    LET w == config.owner[r]
        hit == limiters[w] # None
    IN /\ r \in Callers /\ callAt[r] = "idle"
       /\ seen' = [seen EXCEPT ![r] = limiters[w]]
       /\ callAt' = [callAt EXCEPT ![r] = IF hit THEN "got" ELSE IF config.storage THEN "reading" ELSE "missed"]
       /\ ready' = [ready EXCEPT ![w] = IF callAt'[r] = "reading" THEN @ ELSE Append(@, r)]
       /\ crowd' = Larger(crowd, Cardinality({q \in Calls : callAt'[q] # "idle"}))
       /\ UNCHANGED <<config, limiters, store, clock, granted>>

StoreRead(r) ==
    /\ callAt[r] = "reading"
    /\ seen' = [seen EXCEPT ![r] = store]
    /\ callAt' = [callAt EXCEPT ![r] = "missed"]
    /\ ready' = [ready EXCEPT ![config.owner[r]] = Append(@, r)]
    /\ UNCHANGED <<config, limiters, store, clock, granted, crowd>>

Turn(r) == r \in Callers /\ ready[config.owner[r]] # <<>> /\ r = Head(ready[config.owner[r]])

\* #get after its await: a stored state replaces the local one.
Hydrate(r) ==
    LET w == config.owner[r] IN
    /\ Turn(r) /\ callAt[r] = "missed"
    /\ limiters' = [limiters EXCEPT ![w] = IF seen[r] # None THEN seen[r] ELSE @]
    /\ callAt' = [callAt EXCEPT ![r] = "got"]
    /\ ready' = [ready EXCEPT ![w] = Append(Tail(@), r)]
    /\ UNCHANGED <<config, store, seen, clock, granted, crowd>>

\* checkLimit after `await #get`: the verdict, and the synchronous part of #set.
\* The call then waits for store.set, if there is a store, and is granted or
\* refused.
Evaluate(r) ==
    LET w == config.owner[r]
        s == Evaluated(seen[r])
    IN /\ Turn(r) /\ callAt[r] = "got"
       /\ limiters' = [limiters EXCEPT ![w] = s]
       /\ seen' = [seen EXCEPT ![r] = IF config.storage THEN s ELSE None]
       /\ callAt' = [callAt EXCEPT ![r] = IF config.storage THEN "writing" ELSE "idle"]
       /\ ready' = [ready EXCEPT ![w] = Tail(@)]
       /\ granted' = IF Allowed(Current(seen[r])) THEN Append(granted, clock) ELSE granted
       /\ UNCHANGED <<config, store, clock, crowd>>

StoreWrite(r) ==
    /\ callAt[r] = "writing"
    /\ store' = seen[r]
    /\ seen' = [seen EXCEPT ![r] = None]
    /\ callAt' = [callAt EXCEPT ![r] = "idle"]
    /\ UNCHANGED <<config, limiters, ready, clock, granted, crowd>>

\* The store rejects: checkLimit throws the store's error.
StoreFails(r) ==
    /\ callAt[r] \in {"reading", "writing"}
    /\ seen' = [seen EXCEPT ![r] = None]
    /\ callAt' = [callAt EXCEPT ![r] = "idle"]
    /\ UNCHANGED <<config, limiters, store, ready, clock, granted, crowd>>

\* A tick is much longer than the microtasks of a turn, which all read one time.
LimiterTick ==
    /\ clock < LimiterTime
    /\ \A w \in Workers : ready[w] = <<>>
    /\ clock' = clock + 1
    /\ UNCHANGED <<config, limiters, store, callAt, seen, ready, granted, crowd>>

LimiterNext ==
    \/ \E r \in Calls :
        CheckLimit(r) \/ StoreRead(r) \/ Hydrate(r) \/ Evaluate(r) \/ StoreWrite(r) \/ StoreFails(r)
    \/ LimiterTick

LimiterSpec == LimiterInit /\ [][LimiterNext]_limiterVars
-----------------------------------------------------------------------------
\* Types.
LimiterTypeOK ==
    /\ config \in Configs
    /\ limiters \in [Workers -> State \cup {None}]
    /\ store \in State \cup {None}
    /\ callAt \in [Calls -> {"idle", "reading", "missed", "got", "writing"}]
    /\ seen \in [Calls -> State \cup {None}]
    /\ ready \in [Workers -> Seq(Calls)]
    /\ clock \in 0..LimiterTime
    /\ granted \in Seq(0..LimiterTime)
    /\ crowd \in 0..Cardinality(Calls)

-----------------------------------------------------------------------------
Granted(from, to) == Cardinality({i \in DOMAIN granted : granted[i] \in from..to})

\* What a limiter allows between two times, in units of a token.
Limit(from, to) ==
    IF config.algorithm = "token_bucket" THEN Burst * Window + (to - from) * MaxRequests
    ELSE MaxRequests * Window

\* The intervals the algorithm speaks of, up to clock.
Intervals ==
    CASE config.algorithm = "token_bucket"   -> {i \in (0..clock) \X (0..clock) : i[1] <= i[2]}
      [] config.algorithm = "sliding_window" -> {<<to - Window + 1, to>> : to \in 0..clock}
      [] config.algorithm = "fixed_window"   -> {<<to - (to % Window), to>> : to \in 0..clock}

\* One process that calls the limiter one by one is limited exactly, by each of
\* the algorithms and across the borders of its windows.  Concurrent calls read
\* the same state and overwrite each other's, so that grants are lost; but the
\* overrun is a multiple of how many callers there were at a time, and does not
\* grow with the number of requests.
OneProcess == ~config.storage /\ \E w \in Workers : \A r \in Callers : config.owner[r] = w
Overrun(limit) ==
    IF crowd > 1 THEN (crowd - 1) * (limit + Window) ELSE 0
OverrunBounded ==
    OneProcess =>
        \A i \in Intervals :
            LET limit == Limit(i[1], i[2]) IN Granted(i[1], i[2]) * Window <= limit + Overrun(limit)

\* The limiter refuses a request only if granting it would exceed the limit over
\* some interval that ends clock, whichever process granted the others and whatever
\* was lost or stale: nothing is counted twice, kept beyond its window or charged
\* for a refusal.
Refused(r) == Turn(r) /\ callAt[r] = "got" /\ ~Allowed(Current(seen[r]))
NeverTooStrict ==
    \A r \in Calls : Refused(r) =>
        \E i \in Intervals : i[2] = clock /\ (Granted(i[1], clock) + 1) * Window > Limit(i[1], clock)

\* Called one by one it grants no more than its limit, called concurrently no more
\* over it than its callers can, and it refuses nobody who is within the limit.
AllowanceKept == OverrunBounded /\ NeverTooStrict

-----------------------------------------------------------------------------
\* What the documentation says and the code does not do.

\* docs/config-reference.md:178, "request rate limiting: it counts requests per
\* window", docs/security-features.md:152, "caps request counts".
CountCapped == \A i \in Intervals : Granted(i[1], i[2]) * Window <= Limit(i[1], i[2])
=============================================================================
