----------------------------- MODULE RetryEngine -----------------------------
(***************************************************************************)
(* src/src/resilience/RetryEngine.ts: the execute loops of the requests    *)
(* that share one engine and one key of its retry budget.                  *)
(*                                                                         *)
(* An attempt is external: it succeeds, or fails with one of the errors    *)
(* below, within the request's timeout.  onRetry is a callback that may    *)
(* take time and may throw.  Date.now() is `now`; timers fire on time or   *)
(* late.  A budget store is a collaborator and not modelled.               *)
(*                                                                         *)
(* RetriesBlocked and AffordableOver are mutated forms of the definitions  *)
(* they precede; no action uses them.                                      *)
(***************************************************************************)
EXTENDS Numbers, Integers, Sequences, FiniteSets, SequencesExt

CONSTANTS
    Requests,
    MaxRetries,
    RequestTimeout,           \* rc.timeout, the deadline and the limit of each attempt
    Strategy, BaseDelay, Jitters, MaxDelay,
    RetryAfters,              \* values of the Retry-After header, 0 when there is none
    Replayable,               \* requests whose method, or key, allows a retry
    Insistent,                \* requests for which a shouldRetry option always answers true
    Budget, WindowMs,         \* retryBudget
    Failures,                 \* the errors attempts end with
    Waits,                    \* what of its timeout a request has used before execute
    MaxTime                   \* bound on the clock

ASSUME RetryAssumption ==
    /\ IsFiniteSet(Requests) /\ MaxRetries \in Nat /\ RequestTimeout \in Nat \ {0} /\ MaxTime \in Nat
    /\ Strategy \in {"fixed", "linear", "exponential", "fibonacci"}
    /\ BaseDelay \in Nat /\ MaxDelay \in Nat
    /\ Jitters \subseteq Nat /\ Jitters # {} /\ RetryAfters \subseteq Nat /\ RetryAfters # {}
    /\ Replayable \subseteq Requests /\ Insistent \subseteq Requests
    /\ Budget \in Nat /\ WindowMs \in Nat \ {0}
    /\ Failures \subseteq
          {"security", "status503", "status404", "ECONNRESET", "timeout", "unknown"}
    /\ Waits \subseteq 0..RequestTimeout

VARIABLES
    now,
    spent,     \* #retryBudgetSpentAt.get(key)
    pc,        \* where each execute is
    attempt,   \* its loop counter
    begun,     \* when its latest attempt began
    started,   \* how many attempts it began
    aborted,   \* context.signal.aborted
    deadline,  \* context.deadlineAt
    wake,      \* when its backoff is over
    lastError  \* what execute throws in the end

vars == <<now, spent, pc, attempt, begun, started, aborted, deadline, wake, lastError>>

-----------------------------------------------------------------------------
\* #shouldRetry.  The errors stand for the classes its tests tell apart: one that
\* a security or validation check threw, an HTTP status in retryableStatuses and
\* one that is not, a code in retryableCodes and one that is not (a response
\* timeout, a full bulkhead), an error with none of these, and the engine's own.
Blocked        == {"security"}
Statuses       == {"status503", "status404"}
ListedStatuses == {"status503"}
ListedCodes    == {"ECONNRESET"}

RetriesBlocked(r, e) ==
    r \in Insistent \/ (r \in Replayable /\ e \in ListedStatuses \cup ListedCodes \cup Blocked)
ShouldRetry(r, e) == r \in Insistent \/ (r \in Replayable /\ e \in ListedStatuses \cup ListedCodes)

\* #delay, with #fibonacci
Fib[n \in Nat] == IF n < 2 THEN 1 ELSE Fib[n - 1] + Fib[n - 2]
Backoff(n) ==
    CASE Strategy = "fixed"       -> BaseDelay
      [] Strategy = "linear"      -> BaseDelay * n
      [] Strategy = "fibonacci"   -> BaseDelay * Fib[n]
      [] Strategy = "exponential" -> BaseDelay * 2^(n - 1)

Delays(n, e) ==
    LET computed == {Smaller(Backoff(n) + j, MaxDelay) : j \in Jitters}
        announced == {Smaller(after, MaxDelay) : after \in RetryAfters \ {0}}
    IN IF e \notin Statuses THEN computed
       ELSE announced \cup (IF 0 \in RetryAfters THEN computed ELSE {})

\* #consumeBudget: the part of the budget still held, and whether one more fits.
Held == Recent(spent, now - WindowMs)
AffordableOver(fresh) == Len(fresh) <= Budget
Affordable(fresh) == Len(fresh) < Budget

\* throwIfAbortedOrExpired, and the same tests at the head of sleep.
Reason(r) ==
    IF aborted[r] THEN "aborted" ELSE IF now >= deadline[r] THEN "expired" ELSE "none"

-----------------------------------------------------------------------------
Init ==
    /\ now = 0
    /\ spent = <<>>
    /\ pc = [r \in Requests |-> "idle"]
    /\ attempt = [r \in Requests |-> 0]
    /\ begun = [r \in Requests |-> 0]
    /\ started = [r \in Requests |-> 0]
    /\ aborted = [r \in Requests |-> FALSE]
    /\ deadline = [r \in Requests |-> 0]
    /\ wake = [r \in Requests |-> 0]
    /\ lastError = [r \in Requests |-> "none"]

Asks(r, e) == attempt[r] < MaxRetries /\ ShouldRetry(r, e)

Counted(r, again) == IF again THEN attempt[r] + 1 ELSE attempt[r]

\* The catch clause, with #consumeBudget, which runs to its end in one go.
Caught(r, e) ==
    LET asks  == Asks(r, e)
        again == asks /\ Affordable(Held)
    IN /\ lastError' = [lastError EXCEPT ![r] = e]
       /\ spent' = IF again THEN Append(Held, now) ELSE IF asks THEN Held ELSE spent
       /\ attempt' = [attempt EXCEPT ![r] = Counted(r, again)]
       /\ pc' = [pc EXCEPT ![r] = IF again THEN "looping" ELSE "failed"]
       /\ UNCHANGED <<begun, started, wake>>

\* fn(attempt)
Begin(r) ==
    /\ pc' = [pc EXCEPT ![r] = "trying"]
    /\ begun' = [begun EXCEPT ![r] = now]
    /\ started' = [started EXCEPT ![r] = @ + 1]
    /\ UNCHANGED <<spent, attempt, wake, lastError>>

\* execute, some time after NeutrxClient.request took the time its deadline counts
\* from; the first attempt begins at once, unless the deadline has passed by then.
\* The bound leaves every request the time to end.
Execute(r) ==
    /\ pc[r] = "idle"
    /\ now + 2 * RequestTimeout <= MaxTime
    /\ \E w \in Waits :
        /\ deadline' = [deadline EXCEPT ![r] = now + RequestTimeout - w]
        /\ IF aborted[r] THEN Caught(r, "aborted")
           ELSE IF w = RequestTimeout THEN Caught(r, "expired")
           ELSE Begin(r)
    /\ UNCHANGED <<now, aborted>>

\* The head of a later iteration, up to the call of onRetry.
Loop(r) ==
    /\ pc[r] = "looping"
    /\ IF Reason(r) # "none"
       THEN Caught(r, Reason(r))
       ELSE /\ pc' = [pc EXCEPT ![r] = "hooking"]
            /\ UNCHANGED <<spent, attempt, begun, started, wake, lastError>>
    /\ UNCHANGED <<now, aborted, deadline>>

\* onRetry returns and sleep begins.  Its timer is due at `wake` or at the
\* deadline, whichever is first; a delay of 0 needs none.
HookDone(r) ==
    /\ pc[r] = "hooking"
    /\ IF Reason(r) # "none"
       THEN Caught(r, Reason(r))
       ELSE \E d \in Delays(attempt[r], lastError[r]) :
                /\ wake' = [wake EXCEPT ![r] = now + d]
                /\ pc' = [pc EXCEPT ![r] = IF d = 0 THEN "resumed" ELSE "sleeping"]
                /\ UNCHANGED <<spent, attempt, begun, started, lastError>>
    /\ UNCHANGED <<now, aborted, deadline>>

HookThrows(r) ==
    /\ pc[r] = "hooking"
    /\ Caught(r, "unknown")
    /\ UNCHANGED <<now, aborted, deadline>>

\* The timer of sleep fires: it rejects when the deadline cut the sleep short.
Wake(r) ==
    /\ pc[r] = "sleeping"
    /\ now >= Smaller(wake[r], deadline[r])
    /\ IF deadline[r] < wake[r] THEN Caught(r, "expired") ELSE Begin(r)
    /\ UNCHANGED <<now, aborted, deadline>>

Resume(r) ==
    /\ pc[r] = "resumed"
    /\ Begin(r)
    /\ UNCHANGED <<now, aborted, deadline>>

Succeed(r) ==
    /\ pc[r] = "trying"
    /\ pc' = [pc EXCEPT ![r] = "done"]
    /\ UNCHANGED <<now, spent, attempt, begun, started, aborted, deadline, wake, lastError>>

Fail(r) ==
    /\ pc[r] = "trying"
    /\ \E e \in Failures \cup (IF aborted[r] THEN {"aborted"} ELSE {}) : Caught(r, e)
    /\ UNCHANGED <<now, aborted, deadline>>

\* The caller aborts; a sleeping loop is told at once.
Abort(r) ==
    /\ ~aborted[r] /\ pc[r] \notin {"done", "failed"}
    /\ aborted' = [aborted EXCEPT ![r] = TRUE]
    /\ IF pc[r] = "sleeping"
       THEN Caught(r, "aborted")
       ELSE UNCHANGED <<spent, pc, attempt, begun, started, wake, lastError>>
    /\ UNCHANGED <<now, deadline>>

\* Time passes, but no attempt outlives its own timeout.
Tick ==
    /\ now < MaxTime
    /\ \A r \in Requests : pc[r] = "trying" => now < begun[r] + RequestTimeout
    /\ now' = now + 1
    /\ UNCHANGED <<spent, pc, attempt, begun, started, aborted, deadline, wake, lastError>>

\* What goes on by itself once a request has been made.
Step(r) ==
    Loop(r) \/ HookDone(r) \/ HookThrows(r) \/ Wake(r) \/ Resume(r) \/ Succeed(r) \/ Fail(r)

Next ==
    \/ \E r \in Requests : Execute(r) \/ Abort(r) \/ Step(r)
    \/ Tick

Spec == Init /\ [][Next]_vars

\* The event loop runs, attempts end, onRetry returns and time passes.
FairSpec == Spec /\ WF_vars(Tick) /\ \A r \in Requests : WF_vars(Step(r))
-----------------------------------------------------------------------------
Over == {"done", "failed"}
Retries(r) == Larger(0, started[r] - 1)

\* Types.
TypeOK ==
    /\ now \in 0..MaxTime
    /\ spent \in Seq(0..MaxTime)
    /\ pc \in [Requests -> {"idle", "trying", "looping", "hooking", "sleeping", "resumed"} \cup Over]
    /\ attempt \in [Requests -> 0..MaxRetries]
    /\ begun \in [Requests -> 0..MaxTime]
    /\ started \in [Requests -> Nat]
    /\ aborted \in [Requests -> BOOLEAN]
    /\ deadline \in [Requests -> Nat] /\ wake \in [Requests -> Nat]
    /\ lastError \in [Requests -> Failures \cup {"unknown", "aborted", "expired", "none"}]

\* Every attempt after the first was granted by shouldRetry and by the budget, and
\* a grant is good for one: a loop that was refused, or that is still asking, has
\* begun no more attempts than it was granted.
AttemptsGranted ==
    \A r \in Requests : started[r] <= attempt[r] + (IF pc[r] \in {"trying"} \cup Over THEN 1 ELSE 0)

\* The retries of all requests together never run ahead of the budget: at most
\* Budget for every window begun so far, however long the grants were slept on.
BudgetRate ==
    SumFunction([r \in Requests |-> Retries(r)]) <= Budget * (1 + now \div WindowMs)

\* A retry has been granted, by shouldRetry and by the budget, once each.
RetriesGranted == AttemptsGranted /\ BudgetRate

\* Once a request is aborted it begins no attempt, wherever its loop is and
\* whatever shouldRetry says.  (A backoff of 0 has no point at which to stop.)
StopsWhenAborted ==
    [][\A r \in Requests : aborted[r] /\ pc[r] # "resumed" => started'[r] = started[r]]_vars

\* What a check of the client refused, and what must not be sent twice, is never
\* tried again, whatever goes on in the meantime, unless a shouldRetry of the
\* user's insists.
NothingUnsafeRetried ==
    [][\A r \in Requests :
        r \notin Insistent /\ started'[r] > started[r] /\ started[r] > 0
            => r \in Replayable /\ lastError[r] \notin Blocked]_vars

\* No attempt is begun that must not be: none after the abort, none of a request that
\* is not to be sent twice or that the client itself has refused.
SafeRetries == StopsWhenAborted /\ NothingUnsafeRetried

\* Every execute ends, also when shouldRetry is always true, when the budget is
\* used up by others, when the caller aborts at any point and when onRetry throws.
Terminates == \A r \in Requests : pc[r] # "idle" ~> pc[r] \in Over

=============================================================================
