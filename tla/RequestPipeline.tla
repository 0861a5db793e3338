--------------------------- MODULE RequestPipeline ---------------------------
(***************************************************************************)
(* NeutrxClient.request (src/src/core/NeutrxClient.ts) for the requests of *)
(* one origin: what the circuit breaker, the retry loop, the bulkhead, the *)
(* deduplicator (src/src/performance/Deduplicator.ts) and the fallback to  *)
(* the cache do to each other.                                             *)
(*                                                                         *)
(* The bulkhead is module Bulkhead, step for step.  The circuit breaker is *)
(* the promise BreakerProtocol, which CircuitBreaker keeps in one process  *)
(* without a store.  Of the retry loop only the number of attempts is kept *)
(* and of the cache that it may hold something to fall back to.  The       *)
(* network and the clock are external.  Background revalidations, which    *)
(* meet none of these parts, are in CacheEngine.                           *)
(*                                                                         *)
(* JoinsLate is a mutated form of the definition it precedes; no action    *)
(* uses it.                                                                *)
(***************************************************************************)
EXTENDS Undefined, Integers, Sequences, FiniteSets

CONSTANTS
    Requests,
    Keyed,             \* those the deduplicator gives a key, the same for all
    Retryable,         \* those whose method and deadline allow a retry
    Origin,
    MaxConcurrent, MaxQueue, MaxRetries,
    FailureThreshold, SuccessThreshold, Timeout,
    MayServeStale      \* the cache may hold a response to fall back to

ASSUME PipelineAssumption ==
    /\ Keyed \subseteq Requests /\ Retryable \subseteq Requests /\ None \notin Requests
    /\ MaxConcurrent \in Nat \ {0} /\ MaxQueue \in Nat /\ MaxRetries \in Nat
    /\ FailureThreshold \in Nat \ {0} /\ SuccessThreshold \in Nat \ {0}
    /\ Timeout \in Nat /\ MayServeStale \in BOOLEAN

VARIABLES
    state, failures, successes, age, inFlight, reported,    \* of BreakerProtocol
    active, queue, limit, armed, status, dom,               \* of Bulkhead
    pc,          \* where in request() each request is
    tries,       \* the failed attempts of its retry loop
    call,        \* its part in a network call, and the outcome
    flight       \* Deduplicator.#inflight: who leads the call of the key, or None

circuit == <<state, failures, successes, age, inFlight, reported>>
pool == <<active, queue, limit, armed, status, dom>>
vars == <<circuit, pool, pc, tries, call, flight>>

Circuit == INSTANCE BreakerProtocol
Pool == INSTANCE Bulkhead WITH
    Tasks <- Requests, Domains <- {Origin}, Adaptive <- FALSE,
    MinLimit <- 1, MaxLimit <- 1, InitialLimit <- 1, IncreaseStep <- 1, DecreasePercent <- 10

-----------------------------------------------------------------------------
Init ==
    /\ Circuit!AInit
    /\ Pool!BulkheadInit
    /\ pc = [r \in Requests |-> "idle"]
    /\ tries = [r \in Requests |-> 0]
    /\ call = [r \in Requests |-> "none"]
    /\ flight = None

\* The requests that this step gives a slot.
Started == {r \in Requests : status[r] # "running" /\ status'[r] = "running"}

\* Deduplicator.dispatch, which a request calls as soon as it has its slot: with
\* a key it joins the call under way or leads one that others may join.
JoinsLate(r, lead) == FALSE
Joins(r, lead) == r \in Keyed /\ lead # None
Dispatched(after) ==
    /\ call' = [r \in Requests |->
                   IF r \notin Started THEN after[r] ELSE IF Joins(r, flight) THEN "follows" ELSE "leads"]
    /\ flight' = IF flight = None /\ Started \cap Keyed # {}
                 THEN CHOOSE r \in Started \cap Keyed : TRUE ELSE flight

\* The finally of dispatch: the call has settled and can be joined no more.
EntryAfter(r) == IF flight = r THEN None ELSE flight

-----------------------------------------------------------------------------
\* Up to `await canRequest`.  A request that the cache serves, or that the rate
\* limiter, a check or the circuit refuses, ends here without a trace.
Admit(r) ==
    /\ pc[r] = "idle"
    /\ Circuit!Admit(r)
    /\ pc' = [pc EXCEPT ![r] = "trying"]
    /\ UNCHANGED <<pool, tries, call, flight>>

\* An attempt: bulkhead.execute.  Its own errors are not retried
\* (their codes are not among the default retryableCodes).
Attempt(r) ==
    /\ pc[r] = "trying"
    /\ \/ (Pool!Start(r, Origin) \/ Pool!Enqueue(r, Origin)) /\ pc' = [pc EXCEPT ![r] = "waiting"]
       \/ Pool!Refuse(r, Origin) /\ pc' = [pc EXCEPT ![r] = "failing"]
    /\ Dispatched(call)
    /\ UNCHANGED <<circuit, tries>>

\* The caller aborts, or the deadline passes, before an attempt or in a backoff.
GiveUp(r) ==
    /\ pc[r] = "trying"
    /\ pc' = [pc EXCEPT ![r] = "failing"]
    /\ UNCHANGED <<circuit, pool, tries, call, flight>>

QueueTimeout(r) ==
    /\ pc[r] = "waiting"
    /\ Pool!QueueTimeout(r)
    /\ pc' = [pc EXCEPT ![r] = "failing"]
    /\ UNCHANGED <<circuit, tries, call, flight>>

\* The network call of r ends, for r and for those that joined it.
Answer(r, outcome) ==
    /\ call[r] = "leads"
    /\ call' = [q \in Requests |->
                   IF q = r \/ (flight = r /\ call[q] = "follows") THEN outcome ELSE call[q]]
    /\ flight' = EntryAfter(r)
    /\ UNCHANGED <<circuit, pool, pc, tries>>

\* RetryEngine's loop: the attempts are not used up and the error is retryable.
MayRetry(r) == r \in Retryable /\ tries[r] < MaxRetries

\* The attempt ends: the slot goes to the next in the queue, and the loop goes
\* on or ends.  An answer may still be no good (#parse, validateStatus).
Leave(r) ==
    /\ call[r] \in {"ok", "failed"}
    /\ Pool!Finish(r, "fast")
    /\ Dispatched([call EXCEPT ![r] = "none"])
    /\ \/ /\ call[r] = "ok"
          /\ pc' = [pc EXCEPT ![r] = "processing"]
          /\ UNCHANGED tries
       \/ /\ MayRetry(r)
          /\ pc' = [pc EXCEPT ![r] = "trying"]
          /\ tries' = [tries EXCEPT ![r] = @ + 1]
       \/ /\ pc' = [pc EXCEPT ![r] = "failing"]
          /\ UNCHANGED tries
    /\ UNCHANGED <<circuit>>

Over(r) ==
    /\ pc' = [pc EXCEPT ![r] = "idle"]
    /\ tries' = [tries EXCEPT ![r] = 0]

\* sanitizeResponse, the interceptors and plugins, cache.set and recordSuccess,
\* then the listeners of request:success.  One of them may throw.
Succeed(r) ==
    /\ pc[r] = "processing"
    /\ Circuit!Success(r)
    /\ pc' = [pc EXCEPT ![r] = "told"]
    /\ UNCHANGED <<pool, tries, call, flight>>

Resolve(r) ==
    /\ pc[r] = "told"
    /\ Circuit!Leave(r)
    /\ Over(r)
    /\ UNCHANGED <<pool, call, flight>>

Stumble(r) ==
    /\ pc[r] \in {"processing", "told"}
    /\ pc' = [pc EXCEPT ![r] = "failing"]
    /\ UNCHANGED <<circuit, pool, tries, call, flight>>

\* The catch clause: recordFailure, also of a request whose success has been
\* recorded, unless the cache has something to return.  Then the circuit is told
\* nothing.
Fail(r) ==
    /\ pc[r] = "failing"
    /\ Circuit!Failure(r)
    /\ Over(r)
    /\ UNCHANGED <<pool, call, flight>>

FallBack(r) ==
    /\ MayServeStale /\ pc[r] = "failing"
    /\ Circuit!Leave(r)
    /\ Over(r)
    /\ UNCHANGED <<pool, call, flight>>

Elapse ==
    /\ Circuit!Elapse
    /\ UNCHANGED <<pool, pc, tries, call, flight>>

Answered(r) == \E outcome \in {"ok", "failed"} : Answer(r, outcome)

Next ==
    \/ \E r \in Requests :
        \/ Admit(r) \/ Attempt(r) \/ GiveUp(r) \/ QueueTimeout(r) \/ Answered(r) \/ Leave(r)
        \/ Succeed(r) \/ Resolve(r) \/ Stumble(r) \/ Fail(r) \/ FallBack(r)
    \/ Elapse

Spec == Init /\ [][Next]_vars

\* The event loop runs and network calls end (the adapters time out).
FairSpec ==
    /\ Spec
    /\ \A r \in Requests :
        /\ WF_vars(Attempt(r)) /\ WF_vars(Answered(r)) /\ WF_vars(Leave(r))
        /\ WF_vars(Succeed(r)) /\ WF_vars(Resolve(r)) /\ WF_vars(Fail(r))
-----------------------------------------------------------------------------
\* Types.
TypeOK ==
    /\ state \in {"CLOSED", "OPEN", "HALF_OPEN"} /\ inFlight \subseteq Requests /\ reported \subseteq Requests
    /\ failures \in 0..FailureThreshold /\ successes \in 0..SuccessThreshold /\ age \in 0..Timeout
    /\ Pool!BulkheadTypeOK
    /\ pc \in [Requests -> {"idle", "trying", "waiting", "processing", "told", "failing"}]
    /\ tries \in [Requests -> 0..MaxRetries]
    /\ call \in [Requests -> {"none", "leads", "follows", "ok", "failed"}]
    /\ flight \in Keyed \cup {None}

\* A slot of the bulkhead is held for as long as its request waits for a network
\* call, its own or one it joined, and no longer: not in a backoff, not while
\* interceptors run, and by nobody who was told that the queue timed out.  So,
\* however requests, retries and joined calls meet, no more than maxConcurrent
\* calls of the origin are on the network.  (A background revalidation passes the
\* bulkhead by, and comes on top.)
OnNetwork == {r \in Requests : call[r] = "leads"}
SlotsHeld ==
    /\ Cardinality(OnNetwork) <= MaxConcurrent
    /\ \A r \in Requests : call[r] # "none" <=> status[r] = "running"
    /\ \A r \in Requests : pc[r] = "waiting" <=> status[r] # "idle"
    /\ active[Origin] = Cardinality({r \in Requests : call[r] # "none"})

\* Identical requests share one network call: there are never two, and whoever
\* waits for one waits for a call that is under way, whatever ended or was
\* retried, timed out or was refused in between.
Coalesced ==
    /\ \A r \in Keyed : call[r] = "leads" <=> flight = r
    /\ \A r \in Requests : call[r] = "follows" => r \in Keyed /\ flight # None

\* What a request holds it gives back, and nothing is held for nobody: a slot of the
\* pool is held by one that is under way, and the key in flight by the one it leads.
HeldByTheLiving == SlotsHeld /\ Coalesced

\* Every request ends: a request that waits in a slot for another's call does not
\* keep that other from its slot, and the queue moves on without its timers.
Terminates == \A r \in Requests : pc[r] # "idle" ~> pc[r] = "idle"

-----------------------------------------------------------------------------
\* What the documentation says and the code does not do.

\* docs/retries.md:25, "a retried request still respects concurrency limits and
\* the circuit breaker".
RetriesRespectCircuit ==
    [][\A r \in Requests :
        tries[r] > 0 /\ call[r] = "none" /\ call'[r] = "leads" => state # "OPEN"]_vars

=============================================================================
