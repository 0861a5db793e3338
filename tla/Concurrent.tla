------------------------------ MODULE Concurrent ------------------------------
(***************************************************************************)
(* NeutrxClient.concurrent (src/src/core/NeutrxClient.ts): workers that    *)
(* take requests from one queue, fail-fast, and the timeout of the whole.  *)
(*                                                                         *)
(* A request is a configuration or a function that makes one and may       *)
(* throw.  onProgress is taken not to throw.                               *)
(*                                                                         *)
(* QueueKept is a mutated form of the definition it precedes; no action    *)
(* uses it.                                                                *)
(***************************************************************************)
EXTENDS Integers, Sequences

CONSTANTS
    Items,        \* the number of requests of a call
    Limit,        \* options.limit
    Throwing      \* the requests whose function may throw

ASSUME ConcurrentAssumption ==
    /\ Items \in Nat \ {0} /\ Limit \in Nat \ {0} /\ Throwing \subseteq 1..Items

VARIABLES
    failFast,     \* options.failFast
    todo,         \* queue
    worker,       \* the request of each worker, 0 at the end of its loop, or Broken
    outcome,      \* results[i] or errors[i]
    completed,
    verdict       \* what has become of the promise of concurrent

concurrentVars == <<failFast, todo, worker, outcome, completed, verdict>>

CrewSize == IF Limit < Items THEN Limit ELSE Items
Crew == 1..CrewSize
Broken == Items + 1     \* of a worker: its promise was rejected
Working == {w \in Crew : worker[w] \in 1..Items}

ConcurrentInit ==
    /\ failFast = FALSE
    /\ todo = <<>>
    /\ worker = [w \in Crew |-> 0]
    /\ outcome = [i \in 1..Items |-> "none"]
    /\ completed = 0
    /\ verdict = "none"

\* Promise.race of all workers and the timeout.
Raced(crew) ==
    CASE \E w \in Crew : crew[w] = Broken -> "rejected"
      [] \A w \in Crew : crew[w] = 0 -> "resolved"
      [] OTHER -> "pending"

\* The call, by whose end every worker has taken its first request.
Call ==
    /\ Working = {}
    /\ failFast' \in BOOLEAN
    /\ worker' \in {crew \in [Crew -> 1..Broken] :
                       \A w \in Crew : crew[w] = w \/ (w \in Throwing /\ crew[w] = Broken)}
    /\ todo' = [i \in 1..(Items - CrewSize) |-> CrewSize + i]
    /\ outcome' = [i \in 1..Items |-> "none"]
    /\ completed' = 0
    /\ verdict' = Raced(worker')

\* A worker that finds the queue q ends its loop, sends the next request, or
\* breaks because the function of that request throws.
TakesNext(w, q) ==
    /\ todo' = IF q = <<>> THEN q ELSE Tail(q)
    /\ \E next \in IF q = <<>> THEN {0} ELSE {Head(q)} \cup (IF Head(q) \in Throwing THEN {Broken} ELSE {}) :
        worker' = [worker EXCEPT ![w] = next]

QueueKept == todo
QueueCleared == <<>>
FailedFast(w) == todo' = QueueCleared /\ worker' = [worker EXCEPT ![w] = Broken]

\* The request of worker w is done.
Done(w, result) ==
    /\ w \in Working
    /\ outcome' = [outcome EXCEPT ![worker[w]] = result]
    /\ completed' = completed + 1
    /\ IF result = "error" /\ failFast THEN FailedFast(w) ELSE TakesNext(w, todo)
    /\ verdict' = IF verdict = "pending" THEN Raced(worker') ELSE verdict
    /\ UNCHANGED failFast

\* The caller is told; the workers go on.
TimedOut ==
    /\ verdict = "pending"
    /\ verdict' = "rejected"
    /\ UNCHANGED <<failFast, todo, worker, outcome, completed>>

ConcurrentNext ==
    \/ Call \/ TimedOut
    \/ \E w \in Crew : Done(w, "result") \/ Done(w, "error")

ConcurrentSpec == ConcurrentInit /\ [][ConcurrentNext]_concurrentVars

-----------------------------------------------------------------------------
\* Types.
ConcurrentTypeOK ==
    /\ failFast \in BOOLEAN
    /\ todo \in Seq(1..Items)
    /\ worker \in [Crew -> 0..Broken]
    /\ outcome \in [1..Items -> {"none", "result", "error"}]
    /\ completed \in 0..Items
    /\ verdict \in {"none", "pending", "resolved", "rejected"}

Sent(i) == \E w \in Crew : worker[w] = i

\* A call resolves only when every request has a result or an error, however the
\* workers share the queue and fail; each is sent at most once; and a call that
\* is to fail fast sends nothing after the first error.
Accounted ==
    [][/\ verdict' = "resolved" => completed' = Items /\ \A i \in 1..Items : outcome'[i] # "none"
       /\ \A i \in 1..Items : Sent(i)' /\ ~Sent(i) /\ ~Call =>
             /\ outcome[i] = "none"
             /\ failFast => \A j \in 1..Items : outcome'[j] # "error"]_concurrentVars
===============================================================================
