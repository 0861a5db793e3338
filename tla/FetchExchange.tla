---------------------------- MODULE FetchExchange ----------------------------
(***************************************************************************)
(* One request through fetch, and what may cancel it: the caller's         *)
(* AbortSignal, a CancelToken, and the timeout.  fetchAdapter of           *)
(* src/src/adapters/fetch.ts, #fetch of src/src/core/BrowserClient.ts, and *)
(* mergeCancellationSignal and CancelToken of src/src/core/cancel.ts.      *)
(* fetch itself is external: it rejects when its signal is aborted.        *)
(*                                                                         *)
(* StartUnchecked is a mutated form of the definition it precedes; no      *)
(* action uses it.                                                         *)
(***************************************************************************)
EXTENDS Undefined

VARIABLES
    setup,       \* who fetches ("browser" or "adapter"), and whether there is a signal, a token
    aborted,     \* the caller's signal
    ticket,      \* the token: "quiet", "canceled", or "delivered": its promise has been reacted to
    merged,      \* why the request's signal is aborted, or None
    timer,       \* "off", "on" or "fired"
    inner,       \* why the signal given to fetch is aborted, or None
    listening,   \* the signals listened to: the caller's, and the request's
    step,        \* where the request is
    answer,      \* what the caller was told, or None
    first,       \* history: what first canceled the request after it was configured
    doomed       \* history: that was before it was sent

\* None is no cause and no answer.
ASSUME FetchAssumption == None \notin {"signal", "token", "timeout", "response", "error", "refused"}

fetchVars == <<setup, aborted, ticket, merged, timer, inner, listening, step, answer, first, doomed>>

Causes == {"signal", "token", "timeout"}
SettleFetch(result) == step' = "done" /\ answer' = result
Happens(cause) == first' = IF first = None /\ step \notin {"new", "done"} THEN cause ELSE first
Or(reason, other) == IF reason = None THEN other ELSE reason

FetchInit ==
    /\ setup \in [client : {"browser", "adapter"}, signal : BOOLEAN, token : BOOLEAN]
    /\ aborted = FALSE /\ ticket = "quiet" /\ merged = None /\ timer = "off" /\ inner = None
    /\ listening = {} /\ step = "new" /\ answer = None /\ first = None /\ doomed = FALSE

-----------------------------------------------------------------------------
\* What cancels.

\* A cause reaches the request's signal, and the signal of fetch if that listens.
AbortFetch(cause) ==
    /\ merged' = Or(merged, cause)
    /\ inner' = IF "request" \in listening THEN Or(inner, merged') ELSE inner

\* The caller aborts: the event goes to whoever listens, at once.
AbortSignal ==
    /\ setup.signal /\ ~aborted
    /\ aborted' = TRUE
    /\ IF step # "new" /\ (~setup.token \/ "caller" \in listening)
       THEN AbortFetch("signal") /\ Happens("signal")
       ELSE UNCHANGED <<merged, inner, first>>
    /\ listening' = listening \ {"caller"}
    /\ UNCHANGED <<setup, ticket, timer, step, answer, doomed>>

\* CancelToken's cancel: the first one counts, and is heard of a microtask later.
Cancel ==
    /\ setup.token /\ ticket = "quiet"
    /\ ticket' = "canceled"
    /\ UNCHANGED <<setup, aborted, merged, timer, inner, listening, step, answer, first, doomed>>

Deliver ==
    /\ ticket = "canceled" /\ step # "new"
    /\ ticket' = "delivered"
    /\ AbortFetch("token") /\ Happens("token")
    /\ listening' = listening \ {"caller"}
    /\ UNCHANGED <<setup, aborted, timer, step, answer, doomed>>

FetchTimesOut ==
    /\ timer = "on"
    /\ timer' = "fired" /\ inner' = Or(inner, "timeout") /\ Happens("timeout")
    /\ UNCHANGED <<setup, aborted, ticket, merged, listening, step, answer, doomed>>

-----------------------------------------------------------------------------
\* The request.

\* mergeCancellationSignal, when the request is configured.
ConfigureFetch ==
    /\ step = "new"
    /\ IF setup.token /\ ticket # "quiet"
       THEN SettleFetch("token") /\ UNCHANGED <<merged, listening, first>>
       ELSE /\ step' = "configured" /\ UNCHANGED answer
            /\ merged' = IF aborted THEN "signal" ELSE None
            /\ first' = merged'
            /\ listening' = IF setup.signal /\ setup.token /\ ~aborted THEN {"caller"} ELSE {}
    /\ UNCHANGED <<setup, aborted, ticket, timer, inner, doomed>>

\* There is no fetch, or the body cannot be made.
RefuseFetch ==
    /\ step = "configured"
    /\ SettleFetch("refused")
    /\ UNCHANGED <<setup, aborted, ticket, merged, timer, inner, listening, first, doomed>>

\* The timer is set and fetch is called, with a signal that may be aborted already.
StartUnchecked ==
    /\ step = "configured"
    /\ step' = "fetching" /\ timer' = "on" /\ doomed' = (first # None)
    /\ listening' = listening \cup {"request"}
    /\ UNCHANGED <<setup, aborted, ticket, merged, inner, answer, first>>
StartFetch ==
    /\ step = "configured"
    /\ step' = "fetching" /\ timer' = "on" /\ doomed' = (first # None)
    /\ inner' = merged
    /\ listening' = IF merged = None THEN listening \cup {"request"} ELSE listening
    /\ UNCHANGED <<setup, aborted, ticket, merged, answer, first>>

\* fetch resolves, and then its body is read; either may fail.
FetchGoes(from, to) ==
    /\ step = from /\ step' = to
    /\ UNCHANGED <<setup, aborted, ticket, merged, timer, inner, listening, answer, first, doomed>>

FetchAnswers == inner = None /\ FetchGoes("fetching", "reading")
BodyIsRead == inner = None /\ FetchGoes("reading", "read")
FetchRejects == FetchGoes("fetching", "caught") \/ FetchGoes("reading", "caught")

\* BrowserClient's finally; the adapter leaves its timer to run out.
Cleaned ==
    IF setup.client = "browser"
    THEN timer' = "off" /\ listening' = listening \ {"request"}
    ELSE UNCHANGED <<timer, listening>>

ReturnFetch ==
    /\ step = "read"
    /\ SettleFetch("response") /\ Cleaned
    /\ UNCHANGED <<setup, aborted, ticket, merged, inner, first, doomed>>

\* The reason of the abort goes before the error; the adapter takes a timer that has
\* fired for the reason.
CatchFetch ==
    /\ step = "caught"
    /\ SettleFetch(IF inner = None THEN "error"
              ELSE IF setup.client = "adapter" /\ timer = "fired" THEN "timeout" ELSE inner)
    /\ Cleaned
    /\ UNCHANGED <<setup, aborted, ticket, merged, inner, first, doomed>>

FetchNext ==
    \/ AbortSignal \/ Cancel \/ Deliver \/ FetchTimesOut
    \/ ConfigureFetch \/ RefuseFetch \/ StartFetch \/ FetchAnswers \/ BodyIsRead \/ FetchRejects \/ ReturnFetch \/ CatchFetch

FetchSpec == FetchInit /\ [][FetchNext]_fetchVars

-----------------------------------------------------------------------------
\* Types.
FetchTypeOK ==
    /\ setup \in [client : {"browser", "adapter"}, signal : BOOLEAN, token : BOOLEAN]
    /\ aborted \in BOOLEAN /\ ticket \in {"quiet", "canceled", "delivered"} /\ timer \in {"off", "on", "fired"}
    /\ {merged, inner, first} \subseteq Causes \cup {None} /\ listening \subseteq {"caller", "request"}
    /\ step \in {"new", "configured", "fetching", "reading", "read", "caught", "done"}
    /\ answer \in Causes \cup {"response", "error", "refused", None} /\ doomed \in BOOLEAN

\* The first cause wins.  Of a signal, a token and a timeout that race with each other
\* and with the answer, the caller is told the one that came first; the adapter may
\* say timeout instead, but only of a timer that fired.  A request canceled between
\* its configuration and its start is not answered, no error hides a cancellation,
\* and BrowserClient leaves no timer and no listener of fetch behind.
FirstCauseTold ==
    step = "done" =>
        /\ answer \in Causes \ {first} =>
               \/ answer = "timeout" /\ timer = "fired" /\ setup.client = "adapter"
               \/ answer = "token" /\ first = None
        /\ doomed => answer # "response"
        /\ answer = "error" => first = None
        /\ setup.client = "browser" => timer # "on" /\ "request" \notin listening
=============================================================================
