---------------------------- MODULE CircuitBreaker ----------------------------
(***************************************************************************)
(* src/src/resilience/CircuitBreaker.ts: the breaker of one key (an        *)
(* origin), in one or more worker processes that may share a state store.  *)
(*                                                                         *)
(* A request calls canRequest, makes its attempts, then calls              *)
(* recordSuccess or recordFailure (NeutrxClient.request), neither when it  *)
(* failed and the cache answers, and both when it throws after the first.  *)
(* Each method awaits #get, changes the record it got in place and awaits  *)
(* #set.                                                                   *)
(* Records are objects: #circuits holds a reference, and so does a         *)
(* continuation that has not run yet.  The continuations of one process    *)
(* run in the order in which they became ready (the microtask queue).      *)
(*                                                                         *)
(* AdmitsEarly, AdmitsClosed, ReleasedNever and ClearsAlways are           *)
(* mutated forms of the definitions they precede; no action uses them.     *)
(***************************************************************************)
EXTENDS Undefined, Integers, Sequences, FiniteSets, SequencesExt

CONSTANTS
    Workers,           \* processes
    Requests,          \* concurrent requests to this key, all processes together
    Owner,             \* the process of each request
    Cached,            \* those the cache may answer when they fail
    Throwing,          \* those with a listener of request:success that may throw
    FailureThreshold, SuccessThreshold,
    Timeout,           \* circuitTimeout, in ticks
    HasStore,          \* circuitBreakerStorage is configured
    MaxRestarts,       \* bound on process restarts
    MaxUnreported      \* bound, in a process, on requests that end without a report

\* Thresholds of 0 behave as 1; a timeout of 0 never refuses.
ASSUME BreakerAssumption ==
    /\ Owner \in [Requests -> Workers]
    /\ FailureThreshold \in Nat \ {0} /\ SuccessThreshold \in Nat \ {0}
    /\ Timeout \in Nat /\ HasStore \in BOOLEAN
    /\ Cached \subseteq Requests /\ Throwing \subseteq Requests
    /\ MaxRestarts \in Nat /\ MaxUnreported \in Nat
    /\ None \notin Requests

VARIABLES
    rec,       \* the record object a request created, when it created one
    circuits,  \* #circuits.get(key) of each process: the creator of that object, or None
    store,     \* the record in the shared store, or None
    pc, op,    \* where each request is, and in which method
    ref,       \* the object a pending continuation was handed by #get
    copy,      \* the store's answer, or the copy on its way to the store
    ready,     \* the microtask queue of each process
    restarts,
    unreported \* history: how many requests of a process ended without a report

vars == <<rec, circuits, store, pc, op, ref, copy, ready, restarts, unreported>>

Smaller(a, b) == IF a < b THEN a ELSE b
Larger(a, b)  == IF a > b THEN a ELSE b

\* CircuitRecord.  `age` is Date.now() - openedAt of an open circuit, counted up
\* to Timeout; `failures` is counted up to FailureThreshold.  No comparison in
\* the code tells larger values apart.  lastFailure only feeds getStatus.
Record ==
    [state : {"CLOSED", "OPEN", "HALF_OPEN"}, failures : 0..FailureThreshold,
     successCount : 0..SuccessThreshold, active : Nat, age : 0..Timeout]

\* #get's `created`
Created == [state |-> "CLOSED", failures |-> 0, successCount |-> 0, active |-> 0, age |-> 0]

-----------------------------------------------------------------------------
\* What the three methods do to the record.

\* canRequest: an open circuit lets requests through once `remaining` is 0.
AdmitsEarly(c) == c.state = "OPEN" => c.age + 1 >= Timeout
AdmitsClosed(c) == c.state # "OPEN"
Admits(c) == c.state = "OPEN" => c.age >= Timeout

Admitted(c) ==
    [c EXCEPT !.state = IF @ = "OPEN" THEN "HALF_OPEN" ELSE @,
              !.successCount = IF c.state = "OPEN" THEN 0 ELSE @,
              !.active = @ + 1,
              !.age = 0]

ReleasedNever(c) == c.active
Released(c) == Larger(0, c.active - 1)

Closes(c) == c.state = "HALF_OPEN" /\ c.successCount + 1 >= SuccessThreshold

ClearsAlways(c) == TRUE
Clears(c) == Closes(c) \/ c.state = "CLOSED"

Succeeded(c) ==
    [c EXCEPT !.active = Released(c),
              !.state = IF Closes(c) THEN "CLOSED" ELSE @,
              !.failures = IF Clears(c) THEN 0 ELSE @,
              !.successCount = IF Closes(c) THEN 0
                               ELSE IF c.state = "HALF_OPEN" THEN @ + 1 ELSE @]

Trips(c) == c.state = "HALF_OPEN" \/ c.failures + 1 >= FailureThreshold

Failed(c) ==
    [c EXCEPT !.active = Released(c),
              !.failures = Smaller(FailureThreshold, @ + 1),
              !.state = IF Trips(c) THEN "OPEN" ELSE @,
              !.age = IF Trips(c) THEN 0 ELSE @]

Changed(method, c) ==
    CASE method = "canRequest" -> Admitted(c)
      [] method = "recordSuccess" -> Succeeded(c)
      [] method \in {"recordFailure", "takeBack"} -> Failed(c)

-----------------------------------------------------------------------------

Init ==
    /\ rec = [r \in Requests |-> Created]
    /\ circuits = [w \in Workers |-> None]
    /\ store = None
    /\ pc = [r \in Requests |-> "idle"]
    /\ op = [r \in Requests |-> "canRequest"]
    /\ ref = [r \in Requests |-> None]
    /\ copy = [r \in Requests |-> None]
    /\ ready = [w \in Workers |-> <<>>]
    /\ restarts = 0
    /\ unreported = [w \in Workers |-> 0]

\* The synchronous part of a method, up to #get's result or its store.get: a
\* hit, and a miss without a store, leave one continuation to run.
Call(r, method, queue) ==
    LET w == Owner[r]
        hit == circuits[w] # None
    IN /\ op' = [op EXCEPT ![r] = method]
       /\ ref' = [ref EXCEPT ![r] = circuits[w]]
       /\ pc' = [pc EXCEPT ![r] = IF hit THEN "got" ELSE IF HasStore THEN "reading" ELSE "missed"]
       /\ ready' = [ready EXCEPT ![w] = IF hit \/ ~HasStore THEN Append(queue, r) ELSE queue]
       /\ UNCHANGED <<rec, circuits, store, copy, restarts, unreported>>

CanRequest(r) == pc[r] = "idle" /\ Call(r, "canRequest", ready[Owner[r]])

\* The request's attempts are over.
Settle(r, method) ==
    /\ pc[r] = "calling"
    /\ Call(r, method, ready[Owner[r]])

\* They are, without an answer, and the cache has one that may be served instead
\* (stale-if-error, network-first): the circuit is told nothing.
FallBack(r) ==
    /\ pc[r] = "calling" /\ r \in Cached
    /\ unreported[Owner[r]] < MaxUnreported
    /\ unreported' = [unreported EXCEPT ![Owner[r]] = @ + 1]
    /\ pc' = [pc EXCEPT ![r] = "idle"]
    /\ UNCHANGED <<rec, circuits, store, op, ref, copy, ready, restarts>>

\* The store answers #get with what it holds at that moment.
StoreRead(r) ==
    /\ pc[r] = "reading"
    /\ pc' = [pc EXCEPT ![r] = "missed"]
    /\ copy' = [copy EXCEPT ![r] = store]
    /\ ready' = [ready EXCEPT ![Owner[r]] = Append(@, r)]
    /\ UNCHANGED <<rec, circuits, store, op, ref, restarts, unreported>>

\* #get after its await: hydrate or create an object, overwrite the map entry.
Hydrate(r) ==
    LET w == Owner[r] IN
    /\ ready[w] # <<>> /\ r = Head(ready[w]) /\ pc[r] = "missed"
    /\ rec' = [rec EXCEPT ![r] = IF copy[r] # None THEN copy[r] ELSE Created]
    /\ circuits' = [circuits EXCEPT ![w] = r]
    /\ ref' = [ref EXCEPT ![r] = r]
    /\ pc' = [pc EXCEPT ![r] = "got"]
    /\ copy' = [copy EXCEPT ![r] = None]
    /\ ready' = [ready EXCEPT ![w] = Append(Tail(@), r)]
    /\ UNCHANGED <<store, op, restarts, unreported>>

\* The method after `await #get`: a refusal throws, anything else changes the
\* object it was handed, puts that object in the map and starts store.set.
Refuse(r) ==
    LET w == Owner[r] IN
    /\ ready[w] # <<>> /\ r = Head(ready[w]) /\ pc[r] = "got"
    /\ op[r] = "canRequest" /\ ~Admits(rec[ref[r]])
    /\ pc' = [pc EXCEPT ![r] = "idle"]
    /\ ref' = [ref EXCEPT ![r] = None]
    /\ ready' = [ready EXCEPT ![w] = Tail(@)]
    /\ UNCHANGED <<rec, circuits, store, op, copy, restarts, unreported>>

Update(r) ==
    LET w == Owner[r]
        c == Changed(op[r], rec[ref[r]])
    IN /\ ready[w] # <<>> /\ r = Head(ready[w]) /\ pc[r] = "got"
       /\ op[r] = "canRequest" => Admits(rec[ref[r]])
       /\ rec' = [rec EXCEPT ![ref[r]] = c]
       /\ circuits' = [circuits EXCEPT ![w] = ref[r]]
       /\ copy' = [copy EXCEPT ![r] = IF HasStore THEN c ELSE None]
       /\ pc' = [pc EXCEPT ![r] = IF HasStore THEN "writing" ELSE "returning"]
       /\ ref' = [ref EXCEPT ![r] = None]
       /\ ready' = [ready EXCEPT ![w] = IF HasStore THEN Tail(@) ELSE Append(Tail(@), r)]
       /\ UNCHANGED <<store, op, restarts, unreported>>

StoreWrite(r) ==
    /\ pc[r] = "writing"
    /\ store' = copy[r]
    /\ copy' = [copy EXCEPT ![r] = None]
    /\ pc' = [pc EXCEPT ![r] = "returning"]
    /\ ready' = [ready EXCEPT ![Owner[r]] = Append(@, r)]
    /\ UNCHANGED <<rec, circuits, op, ref, restarts, unreported>>

\* The caller's continuation after `await #set`: an admitted request starts its
\* attempts, one that has reported is done.
Return(r) ==
    LET w == Owner[r] IN
    /\ ready[w] # <<>> /\ r = Head(ready[w]) /\ pc[r] = "returning"
    /\ pc' = [pc EXCEPT ![r] = IF op[r] = "canRequest" THEN "sent" ELSE "idle"]
    /\ ready' = [ready EXCEPT ![w] = Tail(@)]
    /\ UNCHANGED <<rec, circuits, store, op, ref, copy, restarts, unreported>>

\* A listener of request:success, or the span, throws after recordSuccess: the catch
\* clause calls recordFailure for the same request, in the same turn.
TakeBack(r) ==
    LET w == Owner[r] IN
    /\ ready[w] # <<>> /\ r = Head(ready[w]) /\ pc[r] = "returning"
    /\ op[r] = "recordSuccess" /\ r \in Throwing
    /\ Call(r, "takeBack", Tail(ready[w]))

\* An attempt waits for I/O, which the process sees only once the microtasks of
\* the present turn have all run.
Wait(r) ==
    /\ pc[r] = "sent"
    /\ ready[Owner[r]] = <<>>
    /\ pc' = [pc EXCEPT ![r] = "calling"]
    /\ UNCHANGED <<rec, circuits, store, op, ref, copy, ready, restarts, unreported>>

\* Time passes for every copy of an open record.
Aged(c) == IF c # None /\ c.state = "OPEN" THEN [c EXCEPT !.age = Smaller(Timeout, @ + 1)] ELSE c

Tick ==
    /\ rec' = [r \in Requests |-> Aged(rec[r])]
    /\ store' = Aged(store)
    /\ copy' = [r \in Requests |-> Aged(copy[r])]
    /\ UNCHANGED <<circuits, pc, op, ref, ready, restarts, unreported>>

\* A worker process dies and starts again: its requests and its map are gone,
\* a store.set in flight may or may not have been applied before.
Restart(w) ==
    LET mine == {r \in Requests : Owner[r] = w} IN
    /\ restarts < MaxRestarts
    /\ restarts' = restarts + 1
    /\ rec' = [r \in Requests |-> IF r \in mine THEN Created ELSE rec[r]]
    /\ circuits' = [circuits EXCEPT ![w] = None]
    /\ pc' = [r \in Requests |-> IF r \in mine THEN "idle" ELSE pc[r]]
    /\ ref' = [r \in Requests |-> IF r \in mine THEN None ELSE ref[r]]
    /\ copy' = [r \in Requests |-> IF r \in mine THEN None ELSE copy[r]]
    /\ ready' = [ready EXCEPT ![w] = <<>>]
    /\ unreported' = [unreported EXCEPT ![w] = 0]
    /\ UNCHANGED <<store, op>>

\* A request that is handed a reply, a stored record or its turn goes on.
Step(r) ==
    \/ StoreRead(r) \/ StoreWrite(r) \/ Hydrate(r) \/ Refuse(r) \/ Update(r) \/ Return(r)
    \/ TakeBack(r) \/ Wait(r) \/ FallBack(r)
    \/ \E method \in {"recordSuccess", "recordFailure"} : Settle(r, method)

Next ==
    \/ \E r \in Requests : CanRequest(r) \/ Step(r)
    \/ \E w \in Workers : Restart(w)
    \/ Tick

Spec == Init /\ [][Next]_vars

\* The event loop runs, the store answers, attempts end (they have a timeout),
\* time passes and callers keep calling.
FairSpec ==
    Spec /\ WF_vars(Tick) /\ \A r \in Requests : WF_vars(Step(r)) /\ WF_vars(CanRequest(r))
-----------------------------------------------------------------------------
\* The record a new call in process w would be handed.
Here(w) == IF circuits[w] = None THEN Created ELSE rec[circuits[w]]

\* Admitted by canRequest and not ended, neither recordSuccess nor recordFailure
\* applied yet.
InFlight ==
    {r \in Requests :
        \/ pc[r] \in {"sent", "calling"}
        \/ op[r] = "canRequest" /\ pc[r] \in {"writing", "returning"}
        \/ op[r] \in {"recordSuccess", "recordFailure"} /\ pc[r] \in {"reading", "missed", "got"}}

\* recordSuccess applied, the request not ended, nor its recordFailure applied.
Reported ==
    {r \in Requests :
        \/ op[r] = "recordSuccess" /\ pc[r] \in {"writing", "returning"}
        \/ op[r] = "takeBack" /\ pc[r] \in {"reading", "missed", "got"}}

Young(c) == c # None /\ c.state = "OPEN" /\ c.age < Timeout

\* Types.
TypeOK ==
    /\ rec \in [Requests -> Record]
    /\ circuits \in [Workers -> Requests \cup {None}]
    /\ store \in Record \cup {None}
    /\ pc \in [Requests -> {"idle", "reading", "missed", "got", "writing", "returning", "sent", "calling"}]
    /\ op \in [Requests -> {"canRequest", "recordSuccess", "recordFailure", "takeBack"}]
    /\ ref \in [Requests -> Requests \cup {None}]
    /\ copy \in [Requests -> Record \cup {None}]
    /\ ready \in [Workers -> Seq(Requests)]
    /\ restarts \in 0..MaxRestarts
    /\ unreported \in [Workers -> 0..MaxUnreported]

\* The counters and the state of a record agree, in every object of every
\* process, in the store and on the way to or from it: a circuit has stopped
\* being closed exactly when it has counted FailureThreshold failures, and a
\* half-open one has not yet seen SuccessThreshold successes.  Otherwise a
\* reset at the wrong place leaves a circuit that opens early or never closes.
Agree(c) ==
    /\ c.state = "CLOSED" <=> c.failures < FailureThreshold
    /\ c.state = "HALF_OPEN" => c.successCount < SuccessThreshold
CountersAgree ==
    /\ \A r \in Requests : Agree(rec[r]) /\ (copy[r] # None => Agree(copy[r]))
    /\ store # None => Agree(store)

\* Without a store `active` counts, besides requests in flight, only those that
\* ended on a response of the cache without a report, each of them once and for
\* good: nothing else leaks, in whatever order requests create the record, overwrite
\* it, report and report again.  (It may miss some: requests that raced to create the
\* record counted themselves in objects that were overwritten, and one that reports
\* twice is taken off twice.)
ActiveNotLeaked ==
    \A w \in Workers : Here(w).active <= Cardinality(InFlight) + unreported[w]

\* Recovery: once the upstream only answers well, every process ends up with a
\* closed circuit and keeps it, whatever was open, half-open, in flight or
\* stale in the store at that time.
Fails(r) ==
    \/ op[r] \notin {"recordFailure", "takeBack"} /\ op'[r] \in {"recordFailure", "takeBack"}
    \/ unreported'[Owner[r]] > unreported[Owner[r]]
Recovers ==
    <>[][\A r \in Requests : ~Fails(r)]_vars
        => <>[](\A w \in Workers : Here(w).state = "CLOSED")

-----------------------------------------------------------------------------
\* What the documentation says and the code does not do.

\* docs/circuit-breaker.md:52, OPEN: "Requests fail fast with
\* NeutrxCircuitBreakerError; no network I/O": the process that tripped the
\* circuit admits nothing before the cooldown is over.
OpenFailsFast ==
    [][\A w \in Workers : Young(Here(w)) => Here(w)'.state # "CLOSED"]_vars

=============================================================================
