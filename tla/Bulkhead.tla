------------------------------- MODULE Bulkhead -------------------------------
(***************************************************************************)
(* src/src/resilience/Bulkhead.ts: one pool per domain with a concurrency  *)
(* limit, a bounded FIFO queue of waiting calls and, optionally, an        *)
(* adaptive (additive increase, multiplicative decrease) limit.            *)
(*                                                                         *)
(* A call t \in Tasks is one pending execute(): "idle" before the call and *)
(* after its promise settles, so the same identifier may call again.  The  *)
(* code is single-threaded and none of the steps below contains an await,  *)
(* so each is one atomic action.                                           *)
(*                                                                         *)
(* Operators named after a mistake (ReleasedNever, DrainedOne, ...) are    *)
(* mutated forms of the definition that follows them; no action uses them. *)
(***************************************************************************)
EXTENDS Numbers, Integers, Sequences, FiniteSets, SequencesExt

CONSTANTS
    Tasks,            \* concurrent calls of execute()
    Domains,          \* the keys of #pools
    MaxConcurrent,    \* maxConcurrent: the fixed limit
    MaxQueue,         \* maxQueue
    Adaptive,         \* adaptiveConcurrency.enabled
    MinLimit, MaxLimit, InitialLimit, IncreaseStep, \* adaptiveConcurrency, normalised
    DecreasePercent   \* 100 * decreaseRatio

\* The constructor's normalisation (lines 36-51): Math.max(1, ..) on the
\* adaptive fields and decreaseRatio clamped to 0.1 .. 0.99.
ASSUME BulkheadAssumption ==
    /\ MaxConcurrent \in Nat /\ MaxQueue \in Nat /\ Adaptive \in BOOLEAN
    /\ MinLimit \in Nat \ {0} /\ MaxLimit \in Nat \ {0} /\ InitialLimit \in Nat \ {0}
    /\ IncreaseStep \in Nat \ {0} /\ DecreasePercent \in 10..99

VARIABLES
    active,  \* pool.active, per domain
    queue,   \* pool.queue, per domain
    limit,   \* pool.limit, per domain
    armed,   \* the calls whose queue timer is set and not cleared
    status,  \* what each call is doing
    dom      \* the domain of each call's latest execute()

bulkheadVars == <<active, queue, limit, armed, status, dom>>


Queued(d) == {t \in Tasks : status[t] = "queued" /\ dom[t] = d}
Running(d) == {t \in Tasks : status[t] = "running" /\ dom[t] = d}

-----------------------------------------------------------------------------

\* #initialLimit
FirstLimit ==
    IF Adaptive THEN Smaller(MaxLimit, Larger(MinLimit, InitialLimit)) ELSE MaxConcurrent

\* #record: the limit after a call that took an `outcome`; a failure and a
\* success slower than targetLatency count alike.
Lowered(d) == (limit[d] * DecreasePercent) \div 100
RecordUnclamped(d, outcome) ==
    IF outcome = "fast" THEN limit[d] + IncreaseStep ELSE Lowered(d)
Record(d, outcome) ==
    IF ~Adaptive THEN limit[d]
    ELSE IF outcome = "fast" THEN Smaller(MaxLimit, limit[d] + IncreaseStep)
    ELSE Larger(MinLimit, Lowered(d))

\* #run's finally: the slot is given back.
ReleasedNever(d) == active[d]
ReleasedTwice(d) == active[d] - 2
Released(d) == Larger(0, active[d] - 1)

\* How many waiting calls #drain starts, its loop run to the end.
DrainedNone(d, act, lim) == 0
DrainedOne(d, act, lim) == Smaller(1, Smaller(Len(queue[d]), Larger(0, lim - act)))
DrainedPastLimit(d, act, lim) == Smaller(Len(queue[d]), Larger(0, lim - act + 1))
Drained(d, act, lim) == Smaller(Len(queue[d]), Larger(0, lim - act))

\* execute's queue.push(item) and setTimeout; item.run's clearTimeout.
PushedInFront(q, t) == <<t>> \o q
Pushed(q, t) == Append(q, t)
ArmedNever(t) == armed
Armed(t) == armed \cup {t}
ClearedNever(started) == armed
Cleared(started) == armed \ started

BulkheadInit ==
    /\ active = [d \in Domains |-> 0]
    /\ queue = [d \in Domains |-> <<>>]
    /\ limit = [d \in Domains |-> FirstLimit]
    /\ armed = {}
    /\ status = [t \in Tasks |-> "idle"]
    /\ dom \in [Tasks -> Domains]

\* execute with a free slot: #run raises active before its first await.
Start(t, d) ==
    /\ status[t] = "idle"
    /\ active[d] < limit[d]
    /\ active' = [active EXCEPT ![d] = @ + 1]
    /\ status' = [status EXCEPT ![t] = "running"]
    /\ dom' = [dom EXCEPT ![t] = d]
    /\ UNCHANGED <<queue, limit, armed>>

\* execute with no slot and room in the queue: arm the timer, push the item.
Enqueue(t, d) ==
    /\ status[t] = "idle"
    /\ active[d] >= limit[d]
    /\ Len(queue[d]) < MaxQueue
    /\ queue' = [queue EXCEPT ![d] = Pushed(@, t)]
    /\ armed' = Armed(t)
    /\ status' = [status EXCEPT ![t] = "queued"]
    /\ dom' = [dom EXCEPT ![t] = d]
    /\ UNCHANGED <<active, limit>>

\* execute with a full queue: BULKHEAD_FULL, no state is touched.
Refuse(t, d) ==
    /\ status[t] = "idle"
    /\ active[d] >= limit[d]
    /\ Len(queue[d]) >= MaxQueue
    /\ dom' = [dom EXCEPT ![t] = d]
    /\ UNCHANGED <<active, queue, limit, armed, status>>

\* #run's continuation: #record, give the slot back, #drain.  Every started
\* item clears its own timer.
Finish(t, outcome) ==
    LET d == dom[t]
        lim == Record(d, outcome)
        act == Released(d)
        n == Drained(d, act, lim)
        started == {queue[d][i] : i \in 1..n}
    IN /\ status[t] = "running"
       /\ limit' = [limit EXCEPT ![d] = lim]
       /\ active' = [active EXCEPT ![d] = act + n]
       /\ queue' = [queue EXCEPT ![d] = SubSeq(@, n + 1, Len(@))]
       /\ armed' = Cleared(started)
       /\ status' = [u \in Tasks |-> IF u = t THEN "idle"
                                     ELSE IF u \in started THEN "running" ELSE status[u]]
       /\ UNCHANGED dom

\* The timer of t fires (all delays are equal, so the timers of one queue fire
\* in its order): #removeQueued, then BULKHEAD_QUEUE_TIMEOUT rejects the call,
\* a no-op when its promise has already settled.
QueueTimeout(t) ==
    LET d == dom[t]
        at == {i \in DOMAIN queue[d] : queue[d][i] = t}
    IN /\ t \in armed
       /\ \A i \in at : \A j \in 1..(i - 1) : queue[d][j] \notin armed
       /\ armed' = armed \ {t}
       /\ queue' = IF at = {} THEN queue
                   ELSE [queue EXCEPT ![d] = RemoveAt(@, CHOOSE i \in at : TRUE)]
       /\ status' = [status EXCEPT ![t] = IF @ = "queued" THEN "idle" ELSE @]
       /\ UNCHANGED <<active, limit, dom>>

Outcomes == IF Adaptive THEN {"fast", "slow", "failed"} ELSE {"fast"}

BulkheadNext ==
    \/ \E t \in Tasks, d \in Domains : Start(t, d) \/ Enqueue(t, d) \/ Refuse(t, d)
    \/ \E t \in Tasks, outcome \in Outcomes : Finish(t, outcome)
    \/ \E t \in Tasks : QueueTimeout(t)

BulkheadSpec == BulkheadInit /\ [][BulkheadNext]_bulkheadVars

-----------------------------------------------------------------------------

\* Types.
BulkheadTypeOK ==
    /\ active \in [Domains -> Nat]
    /\ queue \in [Domains -> Seq(Tasks)]
    /\ limit \in [Domains -> Nat]
    /\ armed \subseteq Tasks
    /\ status \in [Tasks -> {"idle", "queued", "running"}]
    /\ dom \in [Tasks -> Domains]

\* No lost wake-up: calls wait only while the pool is full.  Any path that
\* frees a slot or raises the limit must hand the room to the queue in the
\* same turn (#run's finally calls #drain).
WorkConserving == \A d \in Domains : queue[d] # <<>> => active[d] >= limit[d]

\* The counter tells the truth: pool.active is the number of calls inside
\* task(), so no slot leaks and none is given back twice, whatever mixture of
\* direct starts, hand-overs, failures and timeouts happened.
ActiveExact == \A d \in Domains : active[d] = Cardinality(Running(d))

\* A call waits in the queue of its own domain, once, and its timer is armed
\* exactly as long, so a call that was handed a slot can no longer be rejected
\* by its timer and a timed-out call can no longer be handed a slot.
QueueExact ==
    /\ \A t \in Tasks : t \in armed <=> status[t] = "queued"
    /\ \A d \in Domains :
        /\ {queue[d][i] : i \in DOMAIN queue[d]} = Queued(d)
        /\ \A i, j \in DOMAIN queue[d] : queue[d][i] = queue[d][j] => i = j

\* The queue never exceeds maxQueue, and an adaptive limit stays where the
\* documentation puts it (docs/bulkhead-isolation.md: clamped to minLimit and
\* maxLimit) however long the run of successes or failures.
Bounded ==
    \A d \in Domains :
        /\ Len(queue[d]) <= MaxQueue
        /\ Adaptive /\ MinLimit <= MaxLimit => limit[d] \in MinLimit..MaxLimit

\* A pool's three fields agree with what its calls do, however timers, hand-overs
\* and adaptive limits interleave.
PoolExact == ActiveExact /\ QueueExact /\ Bounded

\* The fields agree with the calls, and nobody waits beside a free slot.
PoolSound == PoolExact /\ WorkConserving

\* A pool never grows past its limit.  The adaptive limit may fall below the
\* number of running calls; then the excess only drains.
NoStep == \A d \in Domains : active'[d] > active[d] => active'[d] <= limit'[d]
NoGrowthOverLimit == [][NoStep]_bulkheadVars

\* First come, first served within a domain: while a call u waits, no call that
\* came after it starts, from the queue or directly, or gets ahead of it.
Position(t) == CHOOSE i \in DOMAIN queue[dom[t]] : queue[dom[t]][i] = t
After(t, u) ==
    /\ t # u /\ status[u] = "queued" /\ dom'[t] = dom[u] /\ status[t] # "running"
    /\ status[t] = "queued" => Position(t) > Position(u)
StartsInOrder ==
    [][\A t, u \in Tasks :
        After(t, u) /\ status'[u] = "queued" =>
            /\ status'[t] # "running"
            /\ status'[t] = "queued" => Position(t)' > Position(u)']_bulkheadVars
=============================================================================
