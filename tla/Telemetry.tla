------------------------------ MODULE Telemetry ------------------------------
(***************************************************************************)
(* What is recorded of NeutrxClient's requests: MetricsCollector and       *)
(* OpenTelemetryInstrumentation of src/src/monitoring, as                  *)
(* NeutrxClient.request calls them.  Requests overlap; between two steps   *)
(* of one, others move.  The circuit's store, the listeners of the         *)
(* client's events and the plugins may throw.  What decides how a request  *)
(* ends is RequestPipeline.  The metrics of the browser's client are in    *)
(* BrowserClient, and ToldOnce is about both.                              *)
(*                                                                         *)
(* CaughtTwice is a mutated form of the definition it precedes; no action  *)
(* uses it.                                                                *)
(***************************************************************************)
EXTENDS BrowserClient, Numbers

CONSTANTS
    Watched,       \* requests
    MaxSamples,    \* MetricsCollector's maxSamples
    Durations      \* how long a request may take

ASSUME TelemetryAssumption ==
    MaxSamples \in Nat \ {0} /\ Durations \subseteq Nat /\ IsFiniteSet(Watched)

VARIABLES
    traced,     \* instrumentation.openTelemetry
    phase,      \* where each request is
    admitted,   \* it asked the circuit breaker
    span,       \* its span: "none", "open" or "ended"
    metrics,    \* MutableMetrics
    samples,    \* the durations kept
    counts,     \* history: how often each was counted since the last reset
    excused     \* history: what went wrong in each while it was recorded

telemetryVars == <<traced, phase, admitted, span, metrics, samples, counts, excused>>

Fresh == [success |-> 0, errors |-> 0, cached |-> 0, total |-> 0, active |-> 0,
          min |-> 0, max |-> 0, p50 |-> 0, p99 |-> 0]

TelemetryInit ==
    /\ traced \in BOOLEAN
    /\ phase = [r \in Watched |-> "idle"]
    /\ admitted = [r \in Watched |-> FALSE] /\ span = [r \in Watched |-> "none"]
    /\ metrics = Fresh /\ samples = <<>>
    /\ counts = [r \in Watched |-> 0] /\ excused = [r \in Watched |-> {}]

-----------------------------------------------------------------------------
\* MetricsCollector

CountOf(r, what) ==
    /\ metrics' = [metrics EXCEPT ![what] = @ + 1, !.total = @ + 1]
    /\ counts' = [counts EXCEPT ![r] = @ + 1]

\* #duration and #percentiles; the collector's timer computes the same again.
KeptSamples(ms) == Append(IF Len(samples) >= MaxSamples THEN Tail(samples) ELSE samples, ms)
\* What is at a place, from 0, of the durations in ascending order.
Sorted(kept, place) ==
    CHOOSE ms \in {kept[i] : i \in DOMAIN kept} :
        /\ Cardinality({i \in DOMAIN kept : kept[i] < ms}) <= place
        /\ Cardinality({i \in DOMAIN kept : kept[i] <= ms}) > place
Quantile(kept, percent) == Sorted(kept, ((Len(kept) - 1) * percent) \div 100)
recordSuccess(r, ms) ==
    /\ samples' = KeptSamples(ms)
    /\ metrics' = [metrics EXCEPT !.success = @ + 1, !.total = @ + 1,
                       !.min = IF samples = <<>> THEN ms ELSE Smaller(@, ms), !.max = Larger(@, ms),
                       !.p50 = Quantile(samples', 50), !.p99 = Quantile(samples', 99)]
    /\ counts' = [counts EXCEPT ![r] = @ + 1]

-----------------------------------------------------------------------------
\* One request.

Moves(r, from, to) == phase[r] = from /\ phase' = [phase EXCEPT ![r] = to]
Ends(r) == span' = [span EXCEPT ![r] = IF @ = "open" THEN "ended" ELSE @]
Excuse(r, what) == excused' = [excused EXCEPT ![r] = @ \cup {what}]
\* finally: recordEnd never goes below zero.
Decremented(m) == [m EXCEPT !.active = Larger(0, @ - 1)]

BeginWatch(r) ==
    /\ Moves(r, "idle", "begun")
    /\ metrics' = [metrics EXCEPT !.active = @ + 1]
    /\ UNCHANGED <<traced, admitted, span, samples, counts, excused>>

Opened(r) ==
    /\ Moves(r, "begun", "opened")
    /\ span' = [span EXCEPT ![r] = IF traced THEN "open" ELSE "none"]
    /\ UNCHANGED <<traced, admitted, metrics, samples, counts, excused>>

\* A plugin answers; nothing is counted.
PluginAnswers(r) ==
    /\ Moves(r, "opened", "ending") /\ Ends(r) /\ Excuse(r, "mocked")
    /\ UNCHANGED <<traced, admitted, metrics, samples, counts>>

\* An answer from the cache; a listener of cache:hit may throw.
ServedFromCache(r) ==
    /\ phase[r] = "opened"
    /\ CountOf(r, "cached")
    /\ \/ Moves(r, "opened", "ending") /\ Ends(r) /\ UNCHANGED excused
       \/ Moves(r, "opened", "caught") /\ Excuse(r, "late") /\ UNCHANGED span
    /\ UNCHANGED <<traced, admitted, samples>>

Admitted(r) ==
    /\ Moves(r, "opened", "asking")
    /\ admitted' = [admitted EXCEPT ![r] = TRUE]
    /\ UNCHANGED <<traced, span, metrics, samples, counts, excused>>

\* It is refused, or the attempts, the parsing or an interceptor fail.
Failed(r) ==
    /\ \E from \in {"begun", "opened", "asking"} : Moves(r, from, "caught")
    /\ UNCHANGED <<traced, admitted, span, metrics, samples, counts, excused>>

\* The plugins are shown the response, and may throw.
Responded(r, ms) ==
    /\ phase[r] = "asking"
    /\ \/ Moves(r, "asking", "succeeding") /\ recordSuccess(r, ms)
       \/ Moves(r, "asking", "caught") /\ UNCHANGED <<metrics, samples, counts>>
    /\ UNCHANGED <<traced, admitted, span, excused>>

\* The circuit breaker is told; its store, or a listener of request:success, may throw.
Succeeded(r) ==
    /\ \/ Moves(r, "succeeding", "ending") /\ Ends(r) /\ UNCHANGED excused
       \/ Moves(r, "succeeding", "caught") /\ Excuse(r, "late") /\ UNCHANGED span
    /\ UNCHANGED <<traced, admitted, metrics, samples, counts>>

\* An old answer instead of the error, of which a listener is told and may throw.
FellBack(r) ==
    /\ phase[r] = "caught"
    /\ CountOf(r, "cached")
    /\ phase' = [phase EXCEPT ![r] = "ending"]
    /\ \/ Ends(r) /\ UNCHANGED excused
       \/ Excuse(r, "unended") /\ UNCHANGED span
    /\ UNCHANGED <<traced, admitted, samples>>

\* Otherwise the error is counted, and the circuit breaker is told if it was asked.
CaughtTwice(r) ==
    /\ phase[r] = "caught"
    /\ metrics' = [metrics EXCEPT !.errors = @ + 2, !.total = @ + 2]
    /\ counts' = [counts EXCEPT ![r] = @ + 2]
    /\ phase' = [phase EXCEPT ![r] = IF admitted[r] THEN "reporting" ELSE "failing"]
    /\ UNCHANGED <<traced, admitted, span, samples, excused>>
Caught(r) ==
    /\ phase[r] = "caught"
    /\ CountOf(r, "errors")
    /\ phase' = [phase EXCEPT ![r] = IF admitted[r] THEN "reporting" ELSE "failing"]
    /\ UNCHANGED <<traced, admitted, span, samples, excused>>

ErrorReported(r) ==
    /\ \/ Moves(r, "reporting", "failing") /\ UNCHANGED excused
       \/ Moves(r, "reporting", "ending") /\ Excuse(r, "unended")
    /\ UNCHANGED <<traced, admitted, span, metrics, samples, counts>>

\* The span fails; what listeners, plugins and interceptors do then changes nothing here.
Told(r) ==
    /\ Moves(r, "failing", "ending") /\ Ends(r)
    /\ UNCHANGED <<traced, admitted, metrics, samples, counts, excused>>

EndWatch(r) ==
    /\ Moves(r, "ending", "done")
    /\ metrics' = Decremented(metrics)
    /\ UNCHANGED <<traced, admitted, span, samples, counts, excused>>

-----------------------------------------------------------------------------
InFlight == {r \in Watched : phase[r] \notin {"idle", "done"}}

ResetMetrics ==
    /\ metrics # Fresh
    /\ metrics' = Fresh /\ samples' = <<>>
    /\ counts' = [r \in Watched |-> 0]
    /\ excused' = [r \in Watched |-> IF r \in InFlight \/ phase[r] = "done" THEN excused[r] \cup {"reset"}
                                     ELSE excused[r]]
    /\ UNCHANGED <<traced, phase, admitted, span>>

TelemetryNext ==
    \/ \E r \in Watched :
           \/ BeginWatch(r) \/ Opened(r) \/ PluginAnswers(r) \/ ServedFromCache(r) \/ Admitted(r)
           \/ Failed(r)
           \/ \E ms \in Durations : Responded(r, ms)
           \/ Succeeded(r) \/ FellBack(r) \/ Caught(r) \/ ErrorReported(r) \/ Told(r) \/ EndWatch(r)
    \/ ResetMetrics

TelemetrySpec == TelemetryInit /\ [][TelemetryNext]_telemetryVars

-----------------------------------------------------------------------------
Phases == {"idle", "begun", "opened", "asking", "succeeding", "caught", "reporting", "failing", "ending", "done"}

\* Types.
TelemetryTypeOK ==
    /\ traced \in BOOLEAN /\ phase \in [Watched -> Phases]
    /\ admitted \in [Watched -> BOOLEAN] /\ span \in [Watched -> {"none", "open", "ended"}]
    /\ DOMAIN metrics = DOMAIN Fresh /\ \A m \in DOMAIN metrics : metrics[m] \in Nat
    /\ samples \in Seq(Durations) /\ Len(samples) <= MaxSamples
    /\ counts \in [Watched -> Nat]
    /\ excused \in [Watched -> SUBSET {"mocked", "late", "unended", "reset"}]

\* The books balance.  Every request that is over was counted once: not at all only
\* when a plugin answered, twice only when the circuit's store or a listener threw
\* after it had been counted; the totals are the sum.  Its span has ended, unless the
\* store, or a listener of the fallback, threw first.  The gauge is the number of requests in
\* flight, and never more after a reset.  And percentiles lie between the extremes.
Balanced ==
    /\ metrics.total = metrics.success + metrics.errors + metrics.cached
    /\ \A r \in Watched : phase[r] = "done" =>
           /\ "reset" \notin excused[r] =>
                  counts[r] = IF "mocked" \in excused[r] THEN 0 ELSE IF "late" \in excused[r] THEN 2 ELSE 1
           /\ span[r] = "open" => "unended" \in excused[r]
    /\ metrics.active <= Cardinality(InFlight)
    /\ (\A r \in Watched : "reset" \notin excused[r]) => metrics.active = Cardinality(InFlight)
    /\ samples # <<>> => metrics.min <= metrics.p50 /\ metrics.p50 <= metrics.p99 /\ metrics.p99 <= metrics.max

\* Every request is told of once as begun, how it ended and as ended, by the telemetry of
\* the Node client and by the metrics of the browser's.
ToldOnce == Balanced /\ Reported
=============================================================================
