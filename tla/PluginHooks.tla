------------------------------ MODULE PluginHooks ------------------------------
(***************************************************************************)
(* PluginManager (src/src/plugins/PluginManager.ts) and the plugins whose  *)
(* hooks it runs in request(): TraceContextPlugin, MockPlugin,             *)
(* ValidationPlugin and the recorder of HarRecorder.ts.                    *)
(*                                                                         *)
(* A plugin that is taken out leaves its hooks behind; used again it adds  *)
(* them once more, with a state of their own.  Exchanges of several requests  *)
(* overlap: every hook is awaited, and an array is iterated live.          *)
(*                                                                         *)
(* A header of a trace is a value by its name.  Identities are numbers: a  *)
(* fresh one is a number that nothing else of its request has.  tracestate,*)
(* parent spans, bodies and URLs are left out: a request matches a set of  *)
(* patterns.  Whether a response comes, from wherever, or an error, which  *)
(* may know its configuration, is external.                                *)
(*                                                                         *)
(* SpanOfOwn is a mutated form of the definition it precedes; no action    *)
(* uses it.                                                                *)
(***************************************************************************)
EXTENDS Undefined, Naturals, SequencesExt

CONSTANTS
    Exchanges,         \* the requests
    Matches,        \* by request, the patterns its URL matches
    Programs,       \* the programs tried: the plugins they use, the options of their
                    \* TraceContextPlugin, and what trace headers their requests have
                    \* already, from users or OTel: [plugins, installs, formats, overwrite,
                    \* own, brought], where installs bounds the calls of use()
    MaxEntries      \* the recorder's maxEntries

ASSUME HookAssumption ==
    /\ None \notin Nat /\ MaxEntries \in Nat \ {0}
    /\ \A r \in Exchanges : None \notin Matches[r]
    /\ \A program \in Programs :
          /\ program.installs \in Nat
          /\ program.formats \subseteq {"w3c", "b3-single", "b3-multi"}
          /\ "trace-context" \in program.plugins => program.formats # {}
          /\ program.own \in [trace : Nat \cup {None}, span : Nat \cup {None},
                             sampled : BOOLEAN \cup {None}]

VARIABLES
    options,     \* the program
    inUse,       \* #plugins
    hooks,       \* #hooks: by event, the plugins whose hooks were added, in order, with
                 \* the number of the installation they belong to
    mocks,       \* by installation of MockPlugin, its controller; client.mock is the last
    flow,        \* by request, the pass it is in and what it carries
    recorded      \* the recorder's

hookVars == <<options, inUse, hooks, mocks, flow, recorded>>

Events == {"beforeRequest", "afterRequest", "onError"}
HooksOf(plugin) ==
    CASE plugin = "trace-context" -> {"beforeRequest"}
      [] plugin = "mock"          -> {"beforeRequest"}
      [] plugin = "validation"    -> {"beforeRequest", "afterRequest"}
      [] plugin = "har-recorder"  -> {"afterRequest", "onError"}
Installs == Len(hooks["beforeRequest"]) + Len(hooks["onError"])

-----------------------------------------------------------------------------
\* TraceContextPlugin.

Part(carried, name) == IF name \in DOMAIN carried THEN carried[name] ELSE None

Readable(context) == context.trace # None /\ context.span # None
Reads(carried, name) == name \in DOMAIN carried /\ Readable(carried[name])

\* traceparent, then b3, then the headers of B3 multi: the first that can be read.
extractTraceContext(carried) ==
    LET multi == [trace |-> Part(carried, "X-B3-TraceId"), span |-> Part(carried, "X-B3-SpanId"),
                  sampled |-> Part(carried, "X-B3-Sampled")]
    IN  IF Reads(carried, "traceparent") THEN carried["traceparent"]
        ELSE IF Reads(carried, "b3") THEN carried["b3"]
        ELSE IF Readable(multi) THEN multi
        ELSE [trace |-> None, span |-> None, sampled |-> None]

\* a ?? b
Or(a, b) == IF a # None THEN a ELSE b

SpanOfOwn(existing, fresh) == Or(options.own.span, fresh)
Span(existing, fresh) == Or(options.own.span, Or(existing.span, fresh))

buildTraceContext(carried, fresh) ==
    LET existing == extractTraceContext(carried)
    IN  [trace |-> Or(options.own.trace, Or(existing.trace, fresh)),
         span |-> Span(existing, fresh),
         sampled |-> Or(options.own.sampled, Or(existing.sampled, FALSE))]

NamesOf(format) ==
    CASE format = "w3c"       -> {"traceparent"}
      [] format = "b3-single" -> {"b3"}
      [] format = "b3-multi"  -> {"X-B3-TraceId", "X-B3-SpanId", "X-B3-Sampled"}
traceHeaders(context) ==
    [name \in UNION {NamesOf(format) : format \in options.formats} |->
        CASE name = "X-B3-TraceId" -> context.trace
          [] name = "X-B3-SpanId"  -> context.span
          [] name = "X-B3-Sampled" -> context.sampled
          [] OTHER                 -> context]

\* headers.set of all of the upper, or setIfUnset of all of the lower.
Covering(upper, lower) ==
    [name \in DOMAIN upper \cup DOMAIN lower |-> IF name \in DOMAIN upper THEN upper[name] ELSE lower[name]]

WithTrace(request, fresh) ==
    LET context == buildTraceContext(request.headers, fresh)
        sent    == traceHeaders(context)
    IN  [request EXCEPT !.trace = context,
                        !.headers = IF options.overwrite THEN Covering(sent, @) ELSE Covering(@, sent)]

-----------------------------------------------------------------------------
\* ValidationPlugin: what a schema may give for a value, and what is made of it.  An
\* array of issues may be empty.

SchemaResults ==
    {"undefined", "true", "false", "array of issues", "issue", "success", "success with data",
     "no success", "thrown", "value"}
validateValue(result) ==
    CASE result \in {"undefined", "true", "success"}     -> "unchanged"
      [] result \in {"success with data", "value"}       -> "changed"
      [] OTHER                                           -> "failed"

-----------------------------------------------------------------------------
\* The client and its plugins.

HookInit ==
    /\ options \in Programs
    /\ inUse = {} /\ hooks = [e \in Events |-> <<>>] /\ mocks = <<>>
    /\ flow = [r \in Exchanges |-> [stage |-> "idle", at |-> 1, headers |-> <<>>, brought |-> <<>>,
                                 trace |-> None, mock |-> None, covered |-> FALSE]]
    /\ recorded = <<>>

\* Whether a mock of the controller answers r.
Mocks(controller, r) == controller.enabled /\ ToSet(controller.patterns) \cap Matches[r] # {}

install(plugin) ==
    /\ hooks' = [e \in Events |-> IF e \in HooksOf(plugin)
                                  THEN Append(hooks[e], [plugin |-> plugin, made |-> Len(mocks) + 1])
                                  ELSE hooks[e]]
    /\ mocks' = IF plugin = "mock" THEN Append(mocks, [enabled |-> FALSE, patterns |-> <<>>]) ELSE mocks

use(plugin) ==
    /\ plugin \notin inUse /\ Installs < options.installs
    /\ inUse' = inUse \cup {plugin}
    /\ install(plugin)
    /\ UNCHANGED <<options, flow, recorded>>

unuse(plugin) ==
    /\ plugin \in inUse
    /\ inUse' = inUse \ {plugin}
    /\ UNCHANGED <<options, hooks, mocks, flow, recorded>>

\* A call of the controller that client.mock is: enable, disable, register or clear.  A
\* pattern that is registered again keeps its place.
Control(controller) ==
    /\ controller # Last(mocks)
    /\ mocks' = [mocks EXCEPT ![Len(mocks)] = controller]
    /\ flow' = [r \in Exchanges |-> [flow[r] EXCEPT !.covered = @ /\ Mocks(controller, r)]]
    /\ UNCHANGED <<options, inUse, hooks, recorded>>
Controls ==
    /\ mocks # <<>>
    /\ LET now == Last(mocks) IN
        \/ \E on \in BOOLEAN : Control([now EXCEPT !.enabled = on])
        \/ \E p \in UNION {Matches[r] : r \in Exchanges} :
              p \notin ToSet(now.patterns) /\ Control([now EXCEPT !.patterns = Append(@, p)])
        \/ Control([now EXCEPT !.patterns = <<>>])

\* The recorder's push, and its clear.
push(entry) ==
    LET all == Append(recorded, entry)
    IN  recorded' = SubSeq(all, Len(all) - (IF Len(all) > MaxEntries THEN MaxEntries ELSE Len(all)) + 1, Len(all))
ClearEntries == recorded # <<>> /\ recorded' = <<>> /\ UNCHANGED <<options, inUse, hooks, mocks, flow>>

-----------------------------------------------------------------------------
\* A request.

To(r, stage) == flow' = [flow EXCEPT ![r].stage = stage, ![r].at = 1]
Installed == UNCHANGED <<options, inUse, hooks, mocks>>

\* #buildRC and the carrier of OpenTelemetry are done.
BeginRequest(r, carried) ==
    /\ flow[r].stage = "idle"
    /\ flow' = [flow EXCEPT ![r] = [@ EXCEPT !.stage = "beforeRequest", !.headers = carried, !.brought = carried,
                                    !.covered = mocks # <<>> /\ Mocks(Last(mocks), r)]]
    /\ UNCHANGED recorded /\ Installed

\* runHook awaits the hooks one after another; those that are added meanwhile too.
Due(r, event) == flow[r].stage = event /\ flow[r].at <= Len(hooks[event])
HookOf(r) == hooks[flow[r].stage][flow[r].at]
HookReturns(r, request) == flow' = [flow EXCEPT ![r] = [request EXCEPT !.at = @ + 1]]

TraceHook(r) ==
    /\ Due(r, "beforeRequest") /\ HookOf(r).plugin = "trace-context"
    /\ HookReturns(r, WithTrace(flow[r], 10 + flow[r].at))
    /\ UNCHANGED recorded /\ Installed

\* The first pattern that matches, now or after its delay.
FirstMatch(patterns, r) ==
    patterns[CHOOSE i \in DOMAIN patterns :
                patterns[i] \in Matches[r] /\ \A j \in 1..(i - 1) : patterns[j] \notin Matches[r]]
MockHook(r) ==
    /\ Due(r, "beforeRequest") /\ HookOf(r).plugin = "mock"
    /\ LET controller == mocks[HookOf(r).made]
           found == FirstMatch(controller.patterns, r)
       IN  IF ~Mocks(controller, r) THEN HookReturns(r, flow[r])
           ELSE \/ HookReturns(r, [flow[r] EXCEPT !.mock = found])
                \/ flow' = [flow EXCEPT ![r].stage = "delayed", ![r].mock = found]
    /\ UNCHANGED recorded /\ Installed
MockDelayed(r) ==
    /\ flow[r].stage = "delayed"
    /\ HookReturns(r, [flow[r] EXCEPT !.stage = "beforeRequest"])
    /\ UNCHANGED recorded /\ Installed

ValidationHook(r, event) ==
    /\ Due(r, event) /\ HookOf(r).plugin = "validation"
    /\ \E result \in SchemaResults :
          IF validateValue(result) = "failed" THEN To(r, "onError") ELSE HookReturns(r, flow[r])
    /\ UNCHANGED recorded /\ Installed

\* A failure is recorded if its error knows a configuration.
RecorderHook(r, event) ==
    /\ Due(r, event) /\ HookOf(r).plugin = "har-recorder"
    /\ push([request |-> r, of |-> event]) \/ (event = "onError" /\ UNCHANGED recorded)
    /\ HookReturns(r, flow[r])
    /\ Installed

\* All hooks had their turn: a mock is the answer, and nothing else happens.
EndOfHooks(r) ==
    /\ flow[r].stage \in Events /\ flow[r].at > Len(hooks[flow[r].stage])
    /\ To(r, IF flow[r].stage = "beforeRequest" /\ flow[r].mock = None THEN "sent" ELSE "done")
    /\ UNCHANGED recorded /\ Installed

\* A response; one of the cache; or the request fails, before it is sent or later.
HookAnswer(r) ==
    /\ flow[r].stage = "sent"
    /\ \E next \in {"afterRequest", "onError", "done"} : To(r, next)
    /\ UNCHANGED recorded /\ Installed

HookNext ==
    \/ \E p \in options.plugins : use(p) \/ unuse(p)
    \/ Controls \/ ClearEntries
    \/ \E r \in Exchanges :
          \/ \E carried \in options.brought : BeginRequest(r, carried)
          \/ TraceHook(r) \/ MockHook(r) \/ MockDelayed(r)
          \/ \E e \in Events : ValidationHook(r, e) \/ RecorderHook(r, e)
          \/ EndOfHooks(r) \/ HookAnswer(r)

HookSpec == HookInit /\ [][HookNext]_hookVars

-----------------------------------------------------------------------------
\* Of every format a request brought, all headers, and they can be read.
Complete(carried) ==
    /\ \A name \in DOMAIN carried \cap {"traceparent", "b3"} : Readable(carried[name])
    /\ \A name \in DOMAIN carried \cap NamesOf("b3-multi"), id \in {"X-B3-TraceId", "X-B3-SpanId"} :
          id \in DOMAIN carried /\ carried[id] # None

\* The identity that a response or an error is given is the one the next service reads
\* from the headers, whatever the request brought and however often the plugin is
\* installed, unless the plugin is to impose its own on a request that brought another;
\* and where the request brought nothing all formats say the same.
TraceTold ==
    \A r \in Exchanges :
        LET f == flow[r]
            read == extractTraceContext(f.headers)
            Own == \E part \in DOMAIN options.own : options.own[part] # None
        IN  f.trace # None /\ Complete(f.brought) /\ (f.brought = <<>> \/ ~Own) =>
               /\ read.trace = f.trace.trace /\ read.span = f.trace.span
               /\ read.sampled \in {None, f.trace.sampled}
               /\ f.brought = <<>> => \A n \in DOMAIN traceHeaders(f.trace) : f.headers[n] = traceHeaders(f.trace)[n]

\* A request for which a mock was registered and enabled when it began, and all the time
\* since, is not sent.
MockedStaysHome == \A r \in Exchanges : flow[r].covered => flow[r].stage # "sent"

\* What the hooks of plugins do to requests is what they are said to do, however their
\* passes overlap with each other and with use(), unuse() and the controller's calls.
HooksAsTold == TraceTold /\ MockedStaysHome /\ Len(recorded) <= MaxEntries
===============================================================================
