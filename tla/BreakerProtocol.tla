--------------------------- MODULE BreakerProtocol ---------------------------
(***************************************************************************)
(* What a circuit breaker promises to the callers of one process: requests *)
(* are admitted one by one, an admitted request reports at most once, or a *)
(* success and then a failure, and only reports and the passing of time    *)
(* move the circuit.  docs/circuit-breaker describes these states; the     *)
(* transitions are those of CircuitBreaker.ts with its three asynchronous  *)
(* methods taken as atomic.                                                *)
(***************************************************************************)
EXTENDS Integers

CONSTANTS Requests, FailureThreshold, SuccessThreshold, Timeout

VARIABLES
    state,      \* "CLOSED", "OPEN" or "HALF_OPEN"
    failures,   \* failures in a row while closed
    successes,  \* successes since half-open
    age,        \* how long the circuit has been open, up to Timeout
    inFlight,   \* the admitted requests that have not reported
    reported    \* those that have reported a success and have not ended

avars == <<state, failures, successes, age, inFlight, reported>>

AInit ==
    /\ state = "CLOSED" /\ failures = 0 /\ successes = 0 /\ age = 0
    /\ inFlight = {} /\ reported = {}

\* A closed or half-open circuit admits; an open one only after its timeout,
\* and by that becomes half-open.
Admit(r) ==
    /\ r \notin inFlight \cup reported
    /\ inFlight' = inFlight \cup {r}
    /\ \/ state # "OPEN" /\ UNCHANGED <<state, successes, age>>
       \/ state = "OPEN" /\ age = Timeout /\ state' = "HALF_OPEN" /\ successes' = 0 /\ age' = 0
    /\ UNCHANGED <<failures, reported>>

\* A success clears a closed circuit, counts in a half-open one and closes it
\* at the threshold, and changes nothing in an open one.
Success(r) ==
    /\ r \in inFlight
    /\ inFlight' = inFlight \ {r} /\ reported' = reported \cup {r}
    /\ \/ state = "CLOSED" /\ failures' = 0 /\ UNCHANGED <<state, successes>>
       \/ state = "OPEN" /\ UNCHANGED <<state, failures, successes>>
       \/ /\ state = "HALF_OPEN" /\ successes + 1 < SuccessThreshold
          /\ successes' = successes + 1 /\ UNCHANGED <<state, failures>>
       \/ /\ state = "HALF_OPEN" /\ successes + 1 >= SuccessThreshold
          /\ state' = "CLOSED" /\ failures' = 0 /\ successes' = 0
    /\ UNCHANGED age

\* A failure opens a half-open circuit, and a closed one at the threshold; in
\* an open circuit it restarts the cooldown.  A request whose success has been
\* counted may still fail.
Failure(r) ==
    /\ r \in inFlight \cup reported
    /\ inFlight' = inFlight \ {r} /\ reported' = reported \ {r}
    /\ \/ /\ state = "CLOSED" /\ failures + 1 < FailureThreshold
          /\ failures' = failures + 1 /\ UNCHANGED <<state, age>>
       \/ /\ state # "CLOSED" \/ failures + 1 = FailureThreshold
          /\ state' = "OPEN" /\ failures' = FailureThreshold /\ age' = 0
    /\ UNCHANGED successes

\* A request ends: after its success, or on a response of the cache without having
\* reported anything.
Leave(r) ==
    /\ r \in inFlight \cup reported
    /\ inFlight' = inFlight \ {r} /\ reported' = reported \ {r}
    /\ UNCHANGED <<state, failures, successes, age>>

Elapse ==
    /\ state = "OPEN" /\ age < Timeout
    /\ age' = age + 1
    /\ UNCHANGED <<state, failures, successes, inFlight, reported>>

ANext == Elapse \/ \E r \in Requests : Admit(r) \/ Success(r) \/ Failure(r) \/ Leave(r)

ASpec == AInit /\ [][ANext]_avars
=============================================================================
