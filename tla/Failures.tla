------------------------------ MODULE Failures ------------------------------
(***************************************************************************)
(* src/src/core/NeutrxError.ts with its users: what goes wrong in an       *)
(* attempt, the error that is made of it, what the retry engine makes of   *)
(* that error, and what the caller is told in the end.                     *)
(*                                                                         *)
(* The classes of errors and the lists of RetryEngine.#shouldRetry are two *)
(* accounts of what may be tried again, written in two files.  Of an error *)
(* only what either of them looks at is kept.  What goes wrong is          *)
(* external: a code of Node's, a status of the server's, a limit, a check. *)
(* Of the options shouldRetry, onRetry, retryBudget and the lists only the *)
(* defaults are modelled; RetryEngine has the others.                      *)
(*                                                                         *)
(* NoneRefused is a mutated form of the definition it precedes; no action  *)
(* uses it.                                                                *)
(***************************************************************************)
EXTENDS Undefined, Naturals

CONSTANTS
    NodeCodes,     \* codes of Node's errors; None is an error without one
    Statuses,      \* answers of the server that validateStatus refuses
    MaxTries       \* maxRetries

ASSUME FailuresAssumption == MaxTries \in Nat /\ Statuses \subseteq 300..599

VARIABLES
    made,      \* who makes the request, and how
    tries,     \* the loop counter of execute
    thrown,    \* the error of the last attempt, or None
    course     \* where the request is

failureVars == <<made, tries, thrown, course>>

-----------------------------------------------------------------------------
\* The errors.  An Error of the platform's has no category and no flag.
Error(name, code, category, retryable) ==
    [name |-> name, code |-> code, category |-> category, retryable |-> retryable, status |-> None]

PlainError(code)   == Error("Error", code, None, None)
NetworkError(code) == Error("NeutrxNetworkError", code, "network", TRUE)
Refused            == Error("NeutrxConnectionRefusedError", "ECONNREFUSED", "network", TRUE)
DNSError           == Error("NeutrxDNSError", "ENOTFOUND", "network", TRUE)
TimeoutError       == Error("NeutrxTimeoutError", "TIMEOUT", "timeout", TRUE)

\* axiosTimeoutErrorCode
ClarifiedCode == IF made.clarify THEN "ETIMEDOUT" ELSE "ECONNABORTED"
ResponseTimeoutError == Error("NeutrxResponseTimeoutError", ClarifiedCode, "timeout", TRUE)
ConnectTimeoutError  == Error("NeutrxConnectTimeoutError", ClarifiedCode, "timeout", TRUE)

SecurityError(code) == Error("NeutrxSecurityError", code, "security", FALSE)
SSRFError           == Error("NeutrxSSRFError", "SSRF_BLOCKED", "security", FALSE)
CertPinError        == Error("NeutrxCertPinError", "CERT_PIN_MISMATCH", "security", FALSE)
InjectionError      == Error("NeutrxInjectionError", "INJECTION_DETECTED", "security", FALSE)
RateLimitError      == Error("NeutrxRateLimitError", "RATE_LIMIT_EXCEEDED", "security", TRUE)

CircuitBreakerError   == Error("NeutrxCircuitBreakerError", "CIRCUIT_OPEN", "resilience", FALSE)
MaxRetriesError       == Error("NeutrxMaxRetriesError", "MAX_RETRIES_EXCEEDED", "resilience", FALSE)
\* The code its maker gives it, BULKHEAD_QUEUE_TIMEOUT, is written over.
BulkheadError         == Error("NeutrxBulkheadError", "BULKHEAD_FULL", "resilience", TRUE)
ResponseSizeError     == Error("NeutrxResponseSizeError", "RESPONSE_TOO_LARGE", "limits", FALSE)
RequestSizeError      == Error("NeutrxRequestSizeError", "REQUEST_TOO_LARGE", "limits", FALSE)
ValidationError(code) == Error("NeutrxValidationError", code, "validation", FALSE)

HTTPError(name, s, retryable) ==
    [name |-> name, code |-> "HTTP", category |-> "http", retryable |-> retryable, status |-> s]
ServerError(s) == HTTPError("NeutrxServerError", s, s \in {500, 502, 503, 504})
ClientError(s) == HTTPError("NeutrxClientError", s, s \in {408, 429})

\* NeutrxErrorFactory
fromNodeError(code) ==
    CASE code = "ECONNREFUSED"               -> Refused
      [] code = "ENOTFOUND"                  -> DNSError
      [] code = "ETIMEDOUT"                  -> TimeoutError
      [] code = "CERT_HAS_EXPIRED"           -> SecurityError("CERT_EXPIRED")
      [] code = "DEPTH_ZERO_SELF_SIGNED_CERT" -> SecurityError("SELF_SIGNED")
      [] code = None                         -> NetworkError("NETWORK_ERROR")
      [] OTHER                               -> NetworkError(code)
fromHTTPStatus(s) ==
    IF s \in 400..499 THEN ClientError(s)
    ELSE IF s >= 500 THEN ServerError(s) ELSE HTTPError("NeutrxHTTPError", s, FALSE)

-----------------------------------------------------------------------------
\* RetryEngine.

ListedStatus == {408, 429, 500, 502, 503, 504}
ListedCode ==
    IF made.client = "browser" THEN {"NETWORK_ERROR", "REQUEST_ABORTED"}
    ELSE {"ECONNRESET", "ETIMEDOUT", "ECONNREFUSED", "ENETUNREACH", "ERR_HTTP2_STREAM_ERROR"}
NoRetryNames ==
    {"NeutrxSecurityError", "NeutrxSSRFError", "NeutrxInjectionError",
     "NeutrxPrototypePollutionError", "NeutrxValidationError"}
MethodAllows == made.method # "POST" \/ made.keyed

\* The flag only decides on an error with neither a status nor a code.
Retries(e) ==
    /\ MethodAllows
    /\ e.name \notin NoRetryNames
    /\ IF e.status # None THEN e.status \in ListedStatus
       ELSE IF e.code # None THEN e.code \in ListedCode
       ELSE e.retryable = TRUE

DeadlineError == PlainError("RETRY_DEADLINE_EXCEEDED")

-----------------------------------------------------------------------------
\* What an attempt throws.  The Node transport passes errors of the client's own on
\* and translates Node's; the fetch adapter passes on what fetch rejects with, a
\* TypeError without a code; the browser client translates whatever comes out of
\* fetch and of reading the answer, its own errors too.
NodeErrors ==
    {IF made.client = "node" THEN fromNodeError(c)
     ELSE IF made.client = "browser" THEN fromNodeError(None) ELSE PlainError(None) : c \in NodeCodes}
TooLarge ==
    IF made.client = "browser" THEN fromNodeError(ResponseSizeError.code) ELSE ResponseSizeError
Checked ==
    {TooLarge, ResponseTimeoutError, BulkheadError, ValidationError("RESPONSE_VALIDATION_FAILED")}
    \cup (IF made.client = "node"
          THEN {ConnectTimeoutError, RequestSizeError, SSRFError, CertPinError, InjectionError,
                SecurityError("REDIRECT_PROTOCOL_DOWNGRADE")}
          ELSE {})
AttemptErrors == NodeErrors \cup Checked \cup {fromHTTPStatus(s) : s \in Statuses}

\* Before the loop: checks of the request, the limiter, the circuit.
Beforehand ==
    {SSRFError, InjectionError, ValidationError("REQUEST_VALIDATION_FAILED"), CircuitBreakerError}
    \cup (IF made.client = "browser" THEN {} ELSE {RateLimitError})

FailureInit ==
    /\ made \in [client : {"node", "fetch", "browser"}, method : {"GET", "POST"},
                 keyed : BOOLEAN, clarify : BOOLEAN]
    /\ tries = 0 /\ thrown = None /\ course = "asked"

\* request() up to execute.
RejectBefore ==
    /\ course = "asked"
    /\ thrown' \in Beforehand
    /\ course' = "failed"
    /\ UNCHANGED <<made, tries>>

\* The catch clause of execute.
NoneRefused(e) == tries < MaxTries /\ MethodAllows
Again(e) == tries < MaxTries /\ Retries(e)
CatchError(e) ==
    /\ thrown' = e
    /\ IF Again(e)
       THEN tries' = tries + 1 /\ course' = "looping"
       ELSE UNCHANGED tries /\ course' = "failed"
    /\ UNCHANGED made

AttemptFails ==
    /\ course \in {"asked", "trying"}
    /\ \E e \in AttemptErrors : CatchError(e)

\* The head of the next round: the deadline may have passed, and has when the attempt
\* ended with the timeout of the request.  Had the rounds been used up, what follows
\* the loop would be thrown.
NextRound ==
    /\ course = "looping"
    /\ IF tries > MaxTries
       THEN thrown' = MaxRetriesError /\ course' = "failed" /\ UNCHANGED <<made, tries>>
       ELSE \/ CatchError(DeadlineError)
            \/ /\ thrown.name # "NeutrxResponseTimeoutError"
               /\ course' = "trying" /\ UNCHANGED <<made, tries, thrown>>

AttemptSucceeds ==
    /\ course \in {"asked", "trying"}
    /\ course' = "done"
    /\ UNCHANGED <<made, tries, thrown>>

FailureNext == RejectBefore \/ AttemptFails \/ NextRound \/ AttemptSucceeds

FailureSpec == FailureInit /\ [][FailureNext]_failureVars

-----------------------------------------------------------------------------
\* An attempt that is repeated failed with an error that says of itself that it may
\* be, in a request that may be sent twice: the two accounts of what is worth another
\* try, the classes' and the engine's, do not contradict each other, in any client.
RetriedWereRetryable ==
    [][course = "looping" /\ course' = "trying"
        => thrown.retryable = TRUE /\ (made.method = "POST" => made.keyed)]_failureVars

=============================================================================
