------------------------------ MODULE HookProofs ------------------------------
(***************************************************************************)
(* Theorems about PluginHooks: what the hooks of plugins do to requests    *)
(* is what they are said to do, for any number of requests, programs,      *)
(* patterns, formats and installations, and any bound of the recorder;     *)
(* about RequestHeaders: what any attempt sends is what the caller, the    *)
(* client and the hooks meant; about BodyTransfer: bodies flow as          *)
(* configured, for any plans, rates and limits, however far time goes; and *)
(* about Endpoints: each has its share, whatever the resolver answers.     *)
(***************************************************************************)
EXTENDS PluginHooks, RequestHeaders, BodyTransfer, Endpoints, Lists

-----------------------------------------------------------------------------
\* The trace context.

\* What a service that reads the headers takes from them is the context.
Tells(carried, context) ==
    LET read == extractTraceContext(carried)
    IN  /\ read.trace = context.trace /\ read.span = context.span
        /\ read.sampled \in {None, context.sampled}

\* What is read from headers can be read, or is nothing.
LEMMA ReadOrNothing ==
    ASSUME NEW h
    PROVE  LET e == extractTraceContext(h) IN
           Readable(e) \/ (e.trace = None /\ e.span = None /\ e.sampled = None)
  BY DEF extractTraceContext, Readable, Reads

\* The headers of a context, by format.
LEMMA HeadersOfFormats ==
    ASSUME NEW c, options.formats \subseteq {"w3c", "b3-single", "b3-multi"}
    PROVE  LET t == traceHeaders(c) IN
           /\ "traceparent" \in DOMAIN t <=> "w3c" \in options.formats
           /\ "b3" \in DOMAIN t <=> "b3-single" \in options.formats
           /\ \A n \in NamesOf("b3-multi") : n \in DOMAIN t <=> "b3-multi" \in options.formats
           /\ "traceparent" \in DOMAIN t => t["traceparent"] = c
           /\ "b3" \in DOMAIN t => t["b3"] = c
           /\ "X-B3-TraceId" \in DOMAIN t => t["X-B3-TraceId"] = c.trace
           /\ "X-B3-SpanId" \in DOMAIN t => t["X-B3-SpanId"] = c.span
           /\ "X-B3-Sampled" \in DOMAIN t => t["X-B3-Sampled"] = c.sampled
<1> DEFINE t == traceHeaders(c)
           Its == UNION {NamesOf(format) : format \in options.formats}
<1>1. /\ NamesOf("w3c") = {"traceparent"} /\ NamesOf("b3-single") = {"b3"}
      /\ NamesOf("b3-multi") = {"X-B3-TraceId", "X-B3-SpanId", "X-B3-Sampled"}
  BY DEF NamesOf
<1>2. \A n : n \in Its <=> \E format \in options.formats : n \in NamesOf(format)
  OBVIOUS
<1>3. /\ DOMAIN t = Its
      /\ \A n \in Its : t[n] = CASE n = "X-B3-TraceId" -> c.trace
                                   [] n = "X-B3-SpanId"  -> c.span
                                   [] n = "X-B3-Sampled" -> c.sampled
                                   [] OTHER              -> c
  BY DEF traceHeaders
<1> HIDE DEF t, Its
<1>4. /\ "traceparent" \in Its <=> "w3c" \in options.formats
      /\ "b3" \in Its <=> "b3-single" \in options.formats
      /\ \A n \in NamesOf("b3-multi") : n \in Its <=> "b3-multi" \in options.formats
  BY <1>1, <1>2
<1> QED BY <1>1, <1>3, <1>4 DEF t

\* One function laid over another.
LEMMA LaidOver ==
    ASSUME NEW f, NEW g
    PROVE  LET o == Covering(f, g) IN
           /\ \A n : n \in DOMAIN o <=> n \in DOMAIN f \/ n \in DOMAIN g
           /\ \A n \in DOMAIN f : o[n] = f[n]
           /\ \A n \in DOMAIN g : n \notin DOMAIN f => o[n] = g[n]
  BY DEF Covering

\* Headers to which those of a context are added, over or under what they have, tell that
\* context, if what was to be read from them agrees with it.
LEMMA AddedTell ==
    ASSUME options.formats \subseteq {"w3c", "b3-single", "b3-multi"}, options.formats # {},
           NEW h, Complete(h), NEW c, Readable(c),
           Readable(extractTraceContext(h)) => Tells(h, c),
           NEW g, g = Covering(traceHeaders(c), h) \/ g = Covering(h, traceHeaders(c))
    PROVE  Complete(g) /\ Tells(g, c)
<1> DEFINE t == traceHeaders(c)
           Named == {"traceparent", "b3", "X-B3-TraceId", "X-B3-SpanId", "X-B3-Sampled"}
<1>1. /\ "traceparent" \in DOMAIN t <=> "w3c" \in options.formats
      /\ "b3" \in DOMAIN t <=> "b3-single" \in options.formats
      /\ "X-B3-TraceId" \in DOMAIN t <=> "b3-multi" \in options.formats
      /\ "X-B3-SpanId" \in DOMAIN t <=> "b3-multi" \in options.formats
      /\ "X-B3-Sampled" \in DOMAIN t <=> "b3-multi" \in options.formats
      /\ "traceparent" \in DOMAIN t => t["traceparent"] = c
      /\ "b3" \in DOMAIN t => t["b3"] = c
      /\ "X-B3-TraceId" \in DOMAIN t => t["X-B3-TraceId"] = c.trace
      /\ "X-B3-SpanId" \in DOMAIN t => t["X-B3-SpanId"] = c.span
      /\ "X-B3-Sampled" \in DOMAIN t => t["X-B3-Sampled"] = c.sampled
  BY HeadersOfFormats DEF NamesOf
<1> HIDE DEF t
<1>2. \A n : n \in DOMAIN g <=> n \in DOMAIN h \/ n \in DOMAIN t
  BY LaidOver DEF t
<1>3. \A n \in DOMAIN g : \/ n \in DOMAIN t /\ g[n] = t[n]
                          \/ n \in DOMAIN h /\ g[n] = h[n]
  BY LaidOver DEF t
<1>4. \/ \A n \in DOMAIN h : g[n] = h[n]
      \/ \A n \in DOMAIN t : g[n] = t[n]
  BY LaidOver DEF t
<1>5. c.trace # None /\ c.span # None
  BY DEF Readable
<1>6. /\ "traceparent" \in DOMAIN h => Readable(h["traceparent"])
      /\ "b3" \in DOMAIN h => Readable(h["b3"])
      /\ "X-B3-TraceId" \in DOMAIN h \/ "X-B3-SpanId" \in DOMAIN h \/ "X-B3-Sampled" \in DOMAIN h
            => /\ "X-B3-TraceId" \in DOMAIN h /\ h["X-B3-TraceId"] # None
               /\ "X-B3-SpanId" \in DOMAIN h /\ h["X-B3-SpanId"] # None
  BY DEF Complete, NamesOf
<1>7. /\ "traceparent" \in DOMAIN g => Readable(g["traceparent"])
      /\ "b3" \in DOMAIN g => Readable(g["b3"])
  BY <1>1, <1>3, <1>6
<1>8. "X-B3-TraceId" \in DOMAIN g \/ "X-B3-SpanId" \in DOMAIN g \/ "X-B3-Sampled" \in DOMAIN g
         => /\ "X-B3-TraceId" \in DOMAIN g /\ g["X-B3-TraceId"] # None
            /\ "X-B3-SpanId" \in DOMAIN g /\ g["X-B3-SpanId"] # None
  BY <1>1, <1>2, <1>3, <1>5, <1>6
<1>9. Complete(g)
  BY <1>7, <1>8 DEF Complete, NamesOf
<1> DEFINE m(k) == [trace |-> Part(k, "X-B3-TraceId"), span |-> Part(k, "X-B3-SpanId"),
                    sampled |-> Part(k, "X-B3-Sampled")]
<1>10. CASE "traceparent" \in DOMAIN g
  <2>1. extractTraceContext(g) = g["traceparent"]
    BY <1>7, <1>10 DEF extractTraceContext, Reads
  <2>2. CASE g["traceparent"] = c
    BY <1>9, <2>1, <2>2 DEF Tells
  <2>3. CASE "traceparent" \in DOMAIN h /\ g["traceparent"] = h["traceparent"]
    <3>1. extractTraceContext(h) = h["traceparent"]
      BY <1>6, <2>3 DEF extractTraceContext, Reads
    <3> QED BY <1>6, <1>9, <2>1, <2>3, <3>1 DEF Tells
  <2> QED BY <1>1, <1>3, <1>9, <1>10, <2>2, <2>3
<1>11. CASE "traceparent" \notin DOMAIN g /\ "b3" \in DOMAIN g
  <2>1. extractTraceContext(g) = g["b3"]
    BY <1>7, <1>11 DEF extractTraceContext, Reads
  <2>2. CASE g["b3"] = c
    BY <1>9, <2>1, <2>2 DEF Tells
  <2>3. CASE "b3" \in DOMAIN h /\ g["b3"] = h["b3"]
    <3>1. extractTraceContext(h) = h["b3"]
      BY <1>2, <1>6, <1>11, <2>3 DEF extractTraceContext, Reads
    <3> QED BY <1>6, <1>9, <2>1, <2>3, <3>1 DEF Tells
  <2> QED BY <1>1, <1>3, <1>9, <1>11, <2>2, <2>3
<1>12. CASE "traceparent" \notin DOMAIN g /\ "b3" \notin DOMAIN g
  <2>1. "b3-multi" \in options.formats
    BY <1>1, <1>2, <1>12
  <2>2. /\ "X-B3-TraceId" \in DOMAIN g /\ g["X-B3-TraceId"] # None
        /\ "X-B3-SpanId" \in DOMAIN g /\ g["X-B3-SpanId"] # None
        /\ "X-B3-Sampled" \in DOMAIN g
    BY <1>1, <1>2, <1>8, <2>1
  <2>3. m(g).trace = g["X-B3-TraceId"] /\ m(g).span = g["X-B3-SpanId"] /\ m(g).sampled = g["X-B3-Sampled"]
    BY <2>2 DEF Part
  <2>4. extractTraceContext(g) = m(g)
    BY <1>12, <2>2, <2>3 DEF extractTraceContext, Reads, Readable
  <2>5. CASE "X-B3-TraceId" \in DOMAIN h
    <3>1. /\ "X-B3-SpanId" \in DOMAIN h
          /\ h["X-B3-TraceId"] # None /\ h["X-B3-SpanId"] # None
          /\ "traceparent" \notin DOMAIN h /\ "b3" \notin DOMAIN h
      BY <1>2, <1>6, <1>12, <2>5
    <3>2. /\ m(h).trace = h["X-B3-TraceId"] /\ m(h).span = h["X-B3-SpanId"]
          /\ m(h).sampled = IF "X-B3-Sampled" \in DOMAIN h THEN h["X-B3-Sampled"] ELSE None
      BY <2>5, <3>1 DEF Part
    <3>3. extractTraceContext(h) = m(h) /\ Readable(m(h))
      BY <3>1, <3>2 DEF extractTraceContext, Reads, Readable
    <3>4. /\ h["X-B3-TraceId"] = c.trace /\ h["X-B3-SpanId"] = c.span
          /\ "X-B3-Sampled" \in DOMAIN h => h["X-B3-Sampled"] \in {None, c.sampled}
      BY <3>2, <3>3 DEF Tells
    <3>5. /\ g["X-B3-TraceId"] = c.trace /\ g["X-B3-SpanId"] = c.span
          /\ g["X-B3-Sampled"] \in {None, c.sampled}
      BY <1>1, <1>3, <2>2, <3>4
    <3> QED BY <1>9, <2>3, <2>4, <3>5 DEF Tells
  <2>6. CASE "X-B3-TraceId" \notin DOMAIN h
    <3>1. "X-B3-SpanId" \notin DOMAIN h /\ "X-B3-Sampled" \notin DOMAIN h
      BY <1>6, <2>6
    <3>2. /\ g["X-B3-TraceId"] = c.trace /\ g["X-B3-SpanId"] = c.span
          /\ g["X-B3-Sampled"] = c.sampled
      BY <1>1, <1>3, <2>2, <2>6, <3>1
    <3> QED BY <1>9, <2>3, <2>4, <3>2 DEF Tells
  <2> QED BY <2>5, <2>6
<1> QED BY <1>10, <1>11, <1>12

-----------------------------------------------------------------------------
\* The inductive invariant.

Fields == {"stage", "at", "headers", "brought", "trace", "mock", "covered"}
Patterns == UNION {Matches[r] : r \in Exchanges}
HookEntry == [plugin : options.plugins, made : Nat]
Controllers == [enabled : BOOLEAN, patterns : Seq(Patterns)]
Entries == [request : Exchanges, of : Events]
Own == \E part \in DOMAIN options.own : options.own[part] # None

\* A request's flow; one that has not begun carries nothing.
Flowing(f) ==
    /\ DOMAIN f = Fields /\ f.at \in Nat \ {0} /\ f.covered \in BOOLEAN
    /\ f.stage = "idle" => f.at = 1 /\ f.mock = None /\ f.trace = None

\* Every mock's controller has a hook that asks it.
Kept ==
    /\ options \in Programs
    /\ hooks \in [Events -> Seq(HookEntry)]
    /\ mocks \in Seq(Controllers)
    /\ \A i \in DOMAIN hooks["beforeRequest"] :
          hooks["beforeRequest"][i].plugin = "mock" => hooks["beforeRequest"][i].made \in DOMAIN mocks
    /\ mocks # <<>> => \E i \in DOMAIN hooks["beforeRequest"] :
                          /\ hooks["beforeRequest"][i].plugin = "mock"
                          /\ hooks["beforeRequest"][i].made = Len(mocks)
    /\ DOMAIN flow = Exchanges
    /\ \A r \in Exchanges : Flowing(flow[r])
    /\ recorded \in Seq(Entries) /\ Len(recorded) <= MaxEntries

\* What a request was given is what it says; one that brought nothing says it in every
\* format, and what the program imposes is part of it.
Given(f) ==
    /\ Complete(f.headers) /\ Readable(f.trace) /\ Tells(f.headers, f.trace)
    /\ f.brought = <<>> =>
          /\ f.headers = traceHeaders(f.trace)
          /\ f.trace = [trace |-> f.trace.trace, span |-> f.trace.span, sampled |-> f.trace.sampled]
          /\ options.own.trace # None => f.trace.trace = options.own.trace
          /\ options.own.span # None => f.trace.span = options.own.span
          /\ f.trace.sampled = Or(options.own.sampled, FALSE)
Tracing(f) ==
    Complete(f.brought) /\ (f.brought = <<>> \/ ~Own) =>
        Given(f) \/ (f.trace = None /\ f.headers = f.brought)

\* A hook of a mock that still has its turn to come would answer.
Answered(f, r) ==
    \E i \in DOMAIN hooks["beforeRequest"] :
        /\ i >= f.at /\ hooks["beforeRequest"][i].plugin = "mock"
        /\ Mocks(mocks[hooks["beforeRequest"][i].made], r)
Mocked(f, r) ==
    /\ f.stage = "delayed" => f.mock # None
    /\ f.covered => /\ f.stage # "sent"
                    /\ f.stage = "beforeRequest" => f.mock # None \/ Answered(f, r)

IInv == Kept /\ \A r \in Exchanges : Tracing(flow[r]) /\ Mocked(flow[r], r)

-----------------------------------------------------------------------------
\* What the program may impose.
LEMMA OwnParts ==
    ASSUME options \in Programs
    PROVE  /\ options.formats \subseteq {"w3c", "b3-single", "b3-multi"}
           /\ "trace-context" \in options.plugins => options.formats # {}
           /\ ~Own => options.own.trace = None /\ options.own.span = None /\ options.own.sampled = None
  BY HookAssumption DEF HookAssumption, Own

\* The context that is made for headers agrees with what is read from them.
LEMMA MadeReadable ==
    ASSUME options \in Programs, NEW h, NEW fresh \in Nat
    PROVE  LET c == buildTraceContext(h, fresh)
               e == extractTraceContext(h)
           IN  /\ Readable(c)
               /\ c = [trace |-> c.trace, span |-> c.span, sampled |-> c.sampled]
               /\ c.trace = Or(options.own.trace, Or(e.trace, fresh))
               /\ c.span = Or(options.own.span, Or(e.span, fresh))
               /\ c.sampled = Or(options.own.sampled, Or(e.sampled, FALSE))
<1>1. fresh # None
  BY HookAssumption DEF HookAssumption
<1> QED BY <1>1 DEF buildTraceContext, Readable, Or, Span

\* TraceTold is preserved by a pass of the plugin.
LEMMA TraceGiven ==
    ASSUME options \in Programs, "trace-context" \in options.plugins,
           NEW f, Flowing(f), Tracing(f), NEW fresh \in Nat
    PROVE  Tracing(WithTrace(f, fresh))
<1> DEFINE h == f.headers
           c == buildTraceContext(h, fresh)
           g == IF options.overwrite THEN Covering(traceHeaders(c), h) ELSE Covering(h, traceHeaders(c))
           w == WithTrace(f, fresh)
<1>1. w.headers = g /\ w.trace = c /\ w.brought = f.brought
  BY DEF WithTrace, Flowing, Fields
<1>2. SUFFICES ASSUME Complete(f.brought), f.brought = <<>> \/ ~Own
               PROVE  Given(w)
  BY <1>1 DEF Tracing
<1>3. /\ Readable(c) /\ c = [trace |-> c.trace, span |-> c.span, sampled |-> c.sampled]
      /\ c.trace = Or(options.own.trace, Or(extractTraceContext(h).trace, fresh))
      /\ c.span = Or(options.own.span, Or(extractTraceContext(h).span, fresh))
      /\ c.sampled = Or(options.own.sampled, Or(extractTraceContext(h).sampled, FALSE))
  BY MadeReadable
<1>4. /\ options.formats \subseteq {"w3c", "b3-single", "b3-multi"} /\ options.formats # {}
      /\ ~Own => options.own.trace = None /\ options.own.span = None /\ options.own.sampled = None
  BY OwnParts
<1> HIDE DEF c, w
<1>5. CASE f.brought # <<>>
  <2>1. ~Own /\ Complete(h)
    BY <1>2, <1>5 DEF Tracing, Given
  <2>2. Readable(extractTraceContext(h)) => Tells(h, c)
    BY <1>3, <1>4, <2>1 DEF Tells, Or, Readable
  <2>3. Complete(g) /\ Tells(g, c)
    BY <1>3, <1>4, <2>1, <2>2, AddedTell
  <2> QED BY <1>1, <1>3, <1>5, <2>3 DEF Given
<1>6. CASE f.brought = <<>> /\ ~Given(f)
  <2>1. h = <<>> /\ DOMAIN h = {}
    BY <1>2, <1>6 DEF Tracing
  <2>2. Complete(h) /\ extractTraceContext(h) = [trace |-> None, span |-> None, sampled |-> None]
    BY <2>1 DEF Complete, extractTraceContext, Reads, Readable, Part
  <2>3. /\ g = traceHeaders(c)
    BY <2>1 DEF Covering, traceHeaders
  <2>4. ~Readable(extractTraceContext(h))
    BY <2>2 DEF Readable
  <2>5. Complete(g) /\ Tells(g, c)
    BY <1>3, <1>4, <2>2, <2>4, AddedTell
  <2>6. /\ options.own.trace # None => c.trace = options.own.trace
        /\ options.own.span # None => c.span = options.own.span
        /\ c.sampled = Or(options.own.sampled, FALSE)
    BY <1>3, <2>2 DEF Or
  <2> QED BY <1>1, <1>3, <2>3, <2>5, <2>6 DEF Given
<1>7. CASE f.brought = <<>> /\ Given(f)
  <2> DEFINE T == f.trace
             e == extractTraceContext(h)
  <2>1. /\ Complete(h) /\ Readable(T) /\ Tells(h, T) /\ h = traceHeaders(T)
        /\ T = [trace |-> T.trace, span |-> T.span, sampled |-> T.sampled]
        /\ options.own.trace # None => T.trace = options.own.trace
        /\ options.own.span # None => T.span = options.own.span
        /\ T.sampled = Or(options.own.sampled, FALSE)
    BY <1>7 DEF Given
  <2> HIDE DEF T
  <2>2. e.trace = T.trace /\ e.span = T.span /\ e.sampled \in {None, T.sampled}
    BY <2>1 DEF Tells
  <2>3. T.trace # None /\ T.span # None
    BY <2>1 DEF Readable
  <2> HIDE DEF e
  <2>4. c.trace = T.trace /\ c.span = T.span /\ c.sampled = T.sampled
    BY <1>3, <2>1, <2>2, <2>3 DEF Or, e
  <2>5. c = T
    BY <1>3, <2>1, <2>4
  <2>6. g = h
    BY <2>1, <2>5 DEF Covering, traceHeaders
  <2> QED BY <1>1, <1>7, <2>5, <2>6 DEF Given, T
<1> QED BY <1>5, <1>6, <1>7

-----------------------------------------------------------------------------
\* The steps.

\* A list with one more at its end.
LEMMA Appended ==
    ASSUME NEW S, NEW s \in Seq(S), NEW x \in S
    PROVE  LET t == Append(s, x) IN
           /\ t \in Seq(S) /\ Len(t) = Len(s) + 1 /\ DOMAIN s \subseteq DOMAIN t
           /\ Len(t) \in DOMAIN t /\ t[Len(t)] = x
           /\ \A i \in DOMAIN s : t[i] = s[i]
           /\ \A i \in DOMAIN t : i \in DOMAIN s \/ t[i] = x
  OBVIOUS

\* A step of one request.
LEMMA OneFlow ==
    ASSUME IInv, NEW r \in Exchanges, NEW g, Flowing(g), Tracing(g), Mocked(g, r),
           flow' = [flow EXCEPT ![r] = g], UNCHANGED <<options, hooks, mocks>>,
           recorded' \in Seq(Entries), Len(recorded') <= MaxEntries
    PROVE  IInv'
<1>1. DOMAIN flow' = Exchanges /\ \A q \in Exchanges : flow'[q] = IF q = r THEN g ELSE flow[q]
  BY DEF IInv, Kept
<1>2. Kept'
  <2>1. HookEntry' = HookEntry
    BY DEF HookEntry
  <2> QED BY <1>1, <2>1 DEF IInv, Kept, Flowing
<1>3. ASSUME NEW q \in Exchanges PROVE (Tracing(flow[q]) /\ Mocked(flow[q], q))'
  <2>1. Tracing(flow'[q]) /\ Mocked(flow'[q], q)
    BY <1>1 DEF IInv
  <2>2. Tracing(flow[q])'
    BY <2>1 DEF Tracing, Own, Given, traceHeaders, Tells
  <2>3. Mocked(flow[q], q)'
    BY <2>1 DEF Mocked, Answered
  <2> QED BY <2>2, <2>3
<1> QED BY <1>2, <1>3 DEF IInv

\* A step of no request, and of no plugin or mock.
LEMMA NoFlow ==
    ASSUME IInv, UNCHANGED <<options, hooks, mocks, flow>>,
           recorded' \in Seq(Entries), Len(recorded') <= MaxEntries
    PROVE  IInv'
<1>1. Kept'
  <2>1. HookEntry' = HookEntry
    BY DEF HookEntry
  <2> QED BY <2>1 DEF IInv, Kept, Flowing
<1>2. ASSUME NEW q \in Exchanges PROVE (Tracing(flow[q]) /\ Mocked(flow[q], q))'
  <2>1. Tracing(flow[q]) /\ Mocked(flow[q], q)
    BY DEF IInv
  <2>2. Tracing(flow[q])'
    BY <2>1 DEF Tracing, Own, Given, traceHeaders, Tells
  <2>3. Mocked(flow[q], q)'
    BY <2>1 DEF Mocked, Answered
  <2> QED BY <2>2, <2>3
<1> QED BY <1>1, <1>2 DEF IInv

\* A flow that is moved on, with what has answered it by now.
Moved(f, stage, at, mock) == [f EXCEPT !.stage = stage, !.at = at, !.mock = mock]

LEMMA MovedOn ==
    ASSUME NEW f, Flowing(f), Tracing(f), NEW s, s # "idle", NEW n \in Nat \ {0}, NEW m
    PROVE  /\ Flowing(Moved(f, s, n, m)) /\ Tracing(Moved(f, s, n, m))
           /\ Moved(f, s, n, m).stage = s /\ Moved(f, s, n, m).at = n
           /\ Moved(f, s, n, m).mock = m /\ Moved(f, s, n, m).covered = f.covered
<1> DEFINE g == Moved(f, s, n, m)
<1>1. /\ DOMAIN g = Fields /\ g.stage = s /\ g.at = n /\ g.mock = m /\ g.covered = f.covered
      /\ g.headers = f.headers /\ g.brought = f.brought /\ g.trace = f.trace
  BY DEF Flowing, Fields, Moved
<1> HIDE DEF g
<1>2. Flowing(g)
  BY <1>1 DEF Flowing
<1>3. Tracing(g)
  BY <1>1 DEF Tracing, Given
<1> QED BY <1>1, <1>2, <1>3 DEF g

\* Requests run on when hooks or mocks are added.
LEMMA UseKeeps ==
    ASSUME IInv, NEW p \in options.plugins, use(p)
    PROVE  IInv'
<1>1. /\ hooks \in [Events -> Seq(HookEntry)]
      /\ mocks \in Seq(Controllers)
      /\ UNCHANGED <<options, flow, recorded>>
  BY DEF IInv, Kept, use
<1> DEFINE b == "beforeRequest"
           hook == [plugin |-> p, made |-> Len(mocks) + 1]
<1>2. /\ hooks' = [e \in Events |-> IF e \in HooksOf(p) THEN Append(hooks[e], hook) ELSE hooks[e]]
      /\ mocks' = IF p = "mock" THEN Append(mocks, [enabled |-> FALSE, patterns |-> <<>>]) ELSE mocks
  BY DEF use, install
<1>3. hook \in HookEntry /\ hook.plugin = p /\ hook.made = Len(mocks) + 1
  BY <1>1 DEF HookEntry
<1> HIDE DEF hook
<1>4. ASSUME NEW e \in Events
      PROVE  /\ hooks'[e] \in Seq(HookEntry)
             /\ DOMAIN hooks[e] \subseteq DOMAIN hooks'[e]
             /\ \A i \in DOMAIN hooks[e] : hooks'[e][i] = hooks[e][i]
             /\ \A i \in DOMAIN hooks'[e] : i \in DOMAIN hooks[e] \/ hooks'[e][i] = hook
  <2>1. hooks[e] \in Seq(HookEntry) /\ (hooks'[e] = hooks[e] \/ hooks'[e] = Append(hooks[e], hook))
    BY <1>1, <1>2
  <2>2. CASE hooks'[e] = Append(hooks[e], hook)
    BY <1>3, <2>1, <2>2, Appended
  <2> QED BY <2>1, <2>2
<1> DEFINE fresh == [enabled |-> FALSE, patterns |-> <<>>]
<1>5. fresh \in Controllers
  <2>1. <<>> \in Seq(Patterns)
    OBVIOUS
  <2> QED BY <2>1 DEF Controllers
<1> HIDE DEF fresh
<1>6. /\ mocks' \in Seq(Controllers)
      /\ DOMAIN mocks \subseteq DOMAIN mocks'
      /\ \A m \in DOMAIN mocks : mocks'[m] = mocks[m]
  <2>1. mocks' = Append(mocks, fresh) \/ mocks' = mocks
    BY <1>2 DEF fresh
  <2>2. CASE mocks' = Append(mocks, fresh)
    BY <1>1, <1>5, <2>2, Appended
  <2> QED BY <1>1, <2>1, <2>2
<1>7. b \in Events
  BY DEF Events
<1>8. mocks' # <<>> => \E i \in DOMAIN hooks'[b] : hooks'[b][i].plugin = "mock" /\ hooks'[b][i].made = Len(mocks')
  <2>1. CASE p = "mock"
    <3>1. hooks'[b] = Append(hooks[b], hook) /\ Len(mocks') = Len(mocks) + 1
      BY <1>1, <1>2, <1>5, <1>7, <2>1, Appended DEF HooksOf, fresh
    <3>2. Len(hooks[b]) + 1 \in DOMAIN hooks'[b] /\ hooks'[b][Len(hooks[b]) + 1] = hook
      BY <1>1, <1>3, <1>7, <3>1, Appended
    <3> QED BY <1>3, <2>1, <3>1, <3>2
  <2>2. CASE p # "mock"
    BY <1>2, <1>4, <1>7, <2>2 DEF IInv, Kept
  <2> QED BY <2>1, <2>2
<1>9. \A i \in DOMAIN hooks'[b] : hooks'[b][i].plugin = "mock" => hooks'[b][i].made \in DOMAIN mocks'
  <2>1. p = "mock" => Len(mocks) + 1 \in DOMAIN mocks'
    BY <1>1, <1>2, <1>5, Appended DEF fresh
  <2> QED BY <1>3, <1>4, <1>6, <1>7, <2>1 DEF IInv, Kept
<1>10. hooks' \in [Events -> Seq(HookEntry)]
  BY <1>2, <1>4
<1>11. Kept'
  <2>1. HookEntry' = HookEntry
    BY <1>1 DEF HookEntry
  <2> QED BY <1>1, <1>6, <1>8, <1>10, <1>9, <2>1 DEF IInv, Kept, Flowing
<1>12. ASSUME NEW r \in Exchanges PROVE Tracing(flow[r])' /\ Mocked(flow[r], r)'
  <2>1. Tracing(flow[r]) /\ Mocked(flow[r], r)
    BY DEF IInv
  <2>2. Tracing(flow[r])'
    BY <1>1, <2>1 DEF Tracing, Own, Given, traceHeaders, Tells
  <2>3. Answered(flow[r], r) => Answered(flow[r], r)'
    BY <1>1, <1>4, <1>6, <1>7 DEF Answered, IInv, Kept
  <2>4. Mocked(flow[r], r)'
    BY <1>1, <2>1, <2>3 DEF Mocked
  <2> QED BY <2>2, <2>4
<1> QED BY <1>11, <1>12 DEF IInv

\* A call of the controller.
LEMMA ControlKeeps ==
    ASSUME IInv, mocks # <<>>, NEW controller \in Controllers,
           Control(controller)
    PROVE  IInv'
<1> DEFINE n == Len(mocks)
           b == "beforeRequest"
<1>1. /\ mocks \in Seq(Controllers)
      /\ mocks' = [mocks EXCEPT ![n] = controller]
      /\ UNCHANGED <<options, hooks, recorded>>
      /\ flow' = [r \in Exchanges |-> [flow[r] EXCEPT !.covered = @ /\ Mocks(controller, r)]]
  BY DEF IInv, Kept, Control
<1>2. /\ mocks' \in Seq(Controllers)
      /\ Len(mocks') = n /\ mocks' # <<>> /\ DOMAIN mocks' = DOMAIN mocks
      /\ \A m \in DOMAIN mocks : mocks'[m] = IF m = n THEN controller ELSE mocks[m]
  BY <1>1
<1> HIDE DEF n
<1>3. ASSUME NEW r \in Exchanges
      PROVE  /\ Flowing(flow[r])' /\ Tracing(flow[r])'
             /\ flow'[r].covered <=> (flow[r].covered /\ Mocks(controller, r))
             /\ flow'[r].stage = flow[r].stage /\ flow'[r].at = flow[r].at /\ flow'[r].mock = flow[r].mock
  <2> DEFINE f == flow[r]
             c == f.covered /\ Mocks(controller, r)
             g == [f EXCEPT !.covered = c]
  <2>1. c \in BOOLEAN
    OBVIOUS
  <2>2. flow'[r] = g
    BY <1>1
  <2>3. Flowing(f) /\ Tracing(f)
    BY DEF IInv, Kept
  <2> HIDE DEF c, f
  <2>4. /\ DOMAIN g = Fields /\ g.covered = c
        /\ \A x \in Fields \ {"covered"} : g[x] = f[x]
    BY <2>3 DEF Flowing, Fields
  <2>5. /\ g.stage = f.stage /\ g.at = f.at /\ g.mock = f.mock /\ g.trace = f.trace
        /\ g.headers = f.headers /\ g.brought = f.brought
    BY <2>4 DEF Fields
  <2>6. Flowing(g) /\ Tracing(g)
    BY <2>1, <2>3, <2>4, <2>5 DEF Flowing, Tracing, Given
  <2> HIDE DEF g
  <2>7. Flowing(flow'[r]) /\ Tracing(flow'[r])
    BY <2>2, <2>6
  <2>8. Flowing(flow[r])'
    BY <2>7 DEF Flowing
  <2>9. Tracing(flow[r])'
    BY <1>1, <2>7 DEF Tracing, Own, Given, traceHeaders, Tells
  <2> QED BY <2>2, <2>4, <2>5, <2>8, <2>9 DEF c, f
<1>4. Kept'
  <2>1. HookEntry' = HookEntry
    BY <1>1 DEF HookEntry
  <2> QED BY <1>1, <1>2, <1>3, <2>1 DEF IInv, Kept, n
<1>5. ASSUME NEW r \in Exchanges PROVE Mocked(flow[r], r)'
  <2>1. Mocked(flow[r], r)
    BY DEF IInv
  <2>2. ASSUME Answered(flow[r], r), flow'[r].covered PROVE Answered(flow[r], r)'
    <3>1. PICK i \in DOMAIN hooks[b] :
              /\ i >= flow[r].at /\ hooks[b][i].plugin = "mock"
              /\ Mocks(mocks[hooks[b][i].made], r)
      BY <2>2 DEF Answered
    <3>2. Mocks(mocks'[hooks[b][i].made], r)
      <4>1. hooks[b][i].made \in DOMAIN mocks
        BY <3>1 DEF IInv, Kept
      <4> QED BY <1>2, <1>3, <2>2, <3>1, <4>1
    <3> QED BY <1>1, <1>2, <1>3, <3>1, <3>2 DEF Answered
  <2> QED BY <1>3, <2>1, <2>2 DEF Mocked
<1> QED BY <1>3, <1>4, <1>5 DEF IInv

LEMMA ControlsKeep ==
    ASSUME IInv, Controls
    PROVE  IInv'
<1> DEFINE now == Last(mocks)
<1>1. mocks # <<>> /\ mocks \in Seq(Controllers)
  BY DEF Controls, IInv, Kept
<1>2. now \in Controllers
  <2>1. Len(mocks) \in DOMAIN mocks
    BY <1>1
  <2> QED BY <1>1, <2>1 DEF Last
<1> HIDE DEF now
<1>3. <<>> \in Seq(Patterns)
  OBVIOUS
<1>4. \A on \in BOOLEAN : [now EXCEPT !.enabled = on] \in Controllers
  BY <1>2 DEF Controllers
<1>5. \A p \in Patterns : [now EXCEPT !.patterns = Append(@, p)] \in Controllers
  BY <1>2 DEF Controllers
<1>6. [now EXCEPT !.patterns = <<>>] \in Controllers
  BY <1>2, <1>3 DEF Controllers
<1>7. \E controller \in Controllers : Control(controller)
  BY <1>4, <1>5, <1>6 DEF Controls, now, Patterns
<1> QED BY <1>1, <1>7, ControlKeeps

\* The recorder forgets the oldest.
LEMMA PushKeeps ==
    ASSUME IInv, NEW entry \in Entries, push(entry)
    PROVE  recorded' \in Seq(Entries) /\ Len(recorded') <= MaxEntries
<1> DEFINE all == Append(recorded, entry)
           kept == IF Len(all) > MaxEntries THEN MaxEntries ELSE Len(all)
<1>1. all \in Seq(Entries) /\ Len(all) \in Nat \ {0} /\ MaxEntries \in Nat \ {0}
  BY HookAssumption DEF HookAssumption, IInv, Kept
<1>2. recorded' = SubSeq(all, Len(all) - kept + 1, Len(all))
  BY DEF push
<1> HIDE DEF all
<1>3. kept \in 1..Len(all) /\ kept <= MaxEntries
  BY <1>1
<1> HIDE DEF kept
<1>4. /\ SubSeq(all, Len(all) - kept + 1, Len(all)) \in Seq(Entries)
      /\ Len(SubSeq(all, Len(all) - kept + 1, Len(all))) = kept
  BY <1>1, <1>3
<1> QED BY <1>2, <1>3, <1>4

\* A request begins: if a mock answers it the hook of the controller that was made last
\* has its turn to come.
LEMMA BeginKeeps ==
    ASSUME IInv, NEW r \in Exchanges, NEW carried, BeginRequest(r, carried)
    PROVE  IInv'
<1> DEFINE f == flow[r]
           c == mocks # <<>> /\ Mocks(Last(mocks), r)
           g == [f EXCEPT !.stage = "beforeRequest", !.headers = carried, !.brought = carried, !.covered = c]
<1>1. /\ f.stage = "idle" /\ flow' = [flow EXCEPT ![r] = g]
      /\ UNCHANGED <<options, hooks, mocks, recorded>>
  BY DEF BeginRequest, Installed
<1>2. Flowing(f) /\ f.at = 1 /\ f.mock = None /\ f.trace = None
  BY <1>1 DEF IInv, Kept, Flowing
<1>3. c \in BOOLEAN
  OBVIOUS
<1> HIDE DEF f, c
<1>4. /\ DOMAIN g = Fields /\ g.stage = "beforeRequest" /\ g.headers = carried /\ g.brought = carried
      /\ g.covered = c /\ g.at = 1 /\ g.mock = None /\ g.trace = None
  BY <1>2 DEF Flowing, Fields
<1> HIDE DEF g
<1>5. Flowing(g) /\ Tracing(g)
  BY <1>3, <1>4 DEF Flowing, Tracing
<1>6. c => Answered(g, r)
  <2>1. SUFFICES ASSUME c PROVE Answered(g, r)
    OBVIOUS
  <2>2. /\ mocks # <<>> /\ Mocks(Last(mocks), r) /\ mocks \in Seq(Controllers)
        /\ hooks["beforeRequest"] \in Seq(HookEntry)
    BY <2>1 DEF c, IInv, Kept, Events
  <2>3. Len(mocks) \in DOMAIN mocks /\ mocks[Len(mocks)] = Last(mocks)
    BY <2>2 DEF Last
  <2>4. PICK i \in DOMAIN hooks["beforeRequest"] :
            hooks["beforeRequest"][i].plugin = "mock" /\ hooks["beforeRequest"][i].made = Len(mocks)
    BY <2>2 DEF IInv, Kept
  <2>5. i >= 1
    BY <2>2
  <2> QED BY <1>4, <2>2, <2>3, <2>4, <2>5 DEF Answered
<1>7. Mocked(g, r)
  BY <1>3, <1>4, <1>6 DEF Mocked
<1>8. recorded' \in Seq(Entries) /\ Len(recorded') <= MaxEntries
  BY <1>1 DEF IInv, Kept
<1> QED BY <1>1, <1>5, <1>7, <1>8, OneFlow

\* A hook that is not a mock's and lets the request go on.
LEMMA ReturnKeeps ==
    ASSUME IInv, NEW r \in Exchanges, NEW e \in Events, Due(r, e), HookOf(r).plugin # "mock",
           HookReturns(r, flow[r]), Installed,
           recorded' \in Seq(Entries), Len(recorded') <= MaxEntries
    PROVE  IInv'
<1> DEFINE f == flow[r]
           g == Moved(f, f.stage, f.at + 1, f.mock)
<1>1. /\ f.stage = e /\ e # "idle" /\ e # "delayed" /\ f.at \in Nat \ {0} /\ DOMAIN f = Fields
      /\ Flowing(f) /\ Tracing(f) /\ Mocked(f, r)
      /\ hooks[f.stage][f.at].plugin # "mock"
  BY DEF Due, HookOf, IInv, Kept, Flowing, Events
<1>2. flow' = [flow EXCEPT ![r] = g]
  <2>1. [f EXCEPT !.at = @ + 1] = g
    BY <1>1 DEF Fields, Moved
  <2> QED BY <2>1 DEF HookReturns
<1>3. /\ Flowing(g) /\ Tracing(g)
      /\ g.stage = f.stage /\ g.at = f.at + 1 /\ g.mock = f.mock /\ g.covered = f.covered
  BY <1>1, MovedOn
<1> HIDE DEF f, g
<1>4. f.stage = "beforeRequest" /\ Answered(f, r) => Answered(g, r)
  <2>1. hooks["beforeRequest"] \in Seq(HookEntry)
    BY DEF IInv, Kept, Events
  <2> QED BY <1>1, <1>3, <2>1 DEF Answered
<1>5. Mocked(g, r)
  BY <1>1, <1>3, <1>4 DEF Mocked
<1> QED BY <1>2, <1>3, <1>5, OneFlow DEF Installed

\* A request goes on to a stage in which nothing can answer it any more.
LEMMA ToKeeps ==
    ASSUME IInv, NEW r \in Exchanges, NEW s \in {"sent", "afterRequest", "onError", "done"}, To(r, s),
           s = "sent" => ~flow[r].covered, Installed, UNCHANGED recorded
    PROVE  IInv'
<1> DEFINE f == flow[r]
           g == Moved(f, s, 1, f.mock)
<1>1. DOMAIN flow = Exchanges /\ Flowing(f) /\ Tracing(f)
  BY DEF IInv, Kept
<1>2. flow' = [flow EXCEPT ![r] = g]
  <2>1. [f EXCEPT !.stage = s, !.at = 1] = g
    BY <1>1 DEF Moved, Flowing, Fields
  <2>2. flow' = [flow EXCEPT ![r] = [f EXCEPT !.stage = s, !.at = 1]]
    BY <1>1 DEF To
  <2> QED BY <2>1, <2>2
<1>3. /\ Flowing(g) /\ Tracing(g) /\ g.stage = s /\ g.covered = f.covered
  BY <1>1, MovedOn
<1> HIDE DEF f, g
<1>4. Mocked(g, r)
  BY <1>3 DEF Mocked, f
<1>5. recorded' \in Seq(Entries) /\ Len(recorded') <= MaxEntries
  BY DEF IInv, Kept
<1> QED BY <1>2, <1>3, <1>4, <1>5, OneFlow DEF Installed

LEMMA TraceKeeps ==
    ASSUME IInv, NEW r \in Exchanges, TraceHook(r)
    PROVE  IInv'
<1> DEFINE f == flow[r]
           w == WithTrace(f, 10 + f.at)
           g == [w EXCEPT !.at = @ + 1]
<1>1. /\ f.stage = "beforeRequest" /\ f.at \in Nat \ {0} /\ f.at <= Len(hooks["beforeRequest"])
      /\ Flowing(f) /\ Tracing(f) /\ Mocked(f, r)
      /\ hooks["beforeRequest"] \in Seq(HookEntry)
      /\ hooks["beforeRequest"][f.at].plugin = "trace-context"
      /\ flow' = [flow EXCEPT ![r] = g] /\ UNCHANGED <<options, hooks, mocks, recorded>>
  BY DEF TraceHook, Due, HookOf, HookReturns, Installed, IInv, Kept, Flowing, Events
<1>2. f.at \in DOMAIN hooks["beforeRequest"]
  BY <1>1
<1>3. "trace-context" \in options.plugins
  <2>1. hooks["beforeRequest"][f.at] \in HookEntry
    BY <1>1, <1>2
  <2> QED BY <1>1, <2>1 DEF HookEntry
<1>4. Tracing(w)
  <2>1. 10 + f.at \in Nat /\ options \in Programs
    BY <1>1 DEF IInv, Kept
  <2> QED BY <1>1, <1>3, <2>1, TraceGiven
<1>5. /\ DOMAIN w = Fields /\ w.stage = f.stage /\ w.at = f.at /\ w.mock = f.mock /\ w.covered = f.covered
  BY <1>1 DEF WithTrace, Flowing, Fields
<1> HIDE DEF w
<1>6. /\ DOMAIN g = Fields /\ g.stage = f.stage /\ g.at = f.at + 1 /\ g.mock = f.mock /\ g.covered = f.covered
      /\ g.headers = w.headers /\ g.brought = w.brought /\ g.trace = w.trace
  BY <1>5 DEF Fields
<1> HIDE DEF g
<1>7. Flowing(g) /\ Tracing(g)
  <2>1. Flowing(g)
    BY <1>1, <1>6 DEF Flowing
  <2>2. Tracing(g)
    BY <1>4, <1>6 DEF Tracing, Given
  <2> QED BY <2>1, <2>2
<1>8. Answered(f, r) => Answered(g, r)
  BY <1>1, <1>6 DEF Answered
<1>9. Mocked(g, r)
  BY <1>1, <1>6, <1>8 DEF Mocked
<1>10. recorded' \in Seq(Entries) /\ Len(recorded') <= MaxEntries
  BY <1>1 DEF IInv, Kept
<1> QED BY <1>1, <1>7, <1>9, <1>10, OneFlow

\* The pattern that answers is one of those that match.
LEMMA Matched ==
    ASSUME NEW r, NEW patterns \in Seq(Patterns), ToSet(patterns) \cap Matches[r] # {}
    PROVE  FirstMatch(patterns, r) \in Matches[r]
<1> DEFINE S == {i \in DOMAIN patterns : patterns[i] \in Matches[r]}
<1>1. S # {} /\ S \subseteq Nat
  BY DEF ToSet
<1>2. PICK i \in S : \A j \in S : i <= j
  BY <1>1, Least
<1>3. /\ i \in DOMAIN patterns /\ patterns[i] \in Matches[r]
      /\ \A j \in 1..(i - 1) : patterns[j] \notin Matches[r]
  BY <1>2
<1> QED BY <1>3 DEF FirstMatch

LEMMA MockKeeps ==
    ASSUME IInv, NEW r \in Exchanges, MockHook(r)
    PROVE  IInv'
<1> DEFINE f == flow[r]
           b == hooks["beforeRequest"]
           controller == mocks[b[f.at].made]
           found == FirstMatch(controller.patterns, r)
<1>1. /\ f.stage = "beforeRequest" /\ f.at \in Nat \ {0} /\ Flowing(f) /\ Tracing(f) /\ Mocked(f, r)
      /\ b \in Seq(HookEntry) /\ DOMAIN flow = Exchanges
      /\ b[f.at].plugin = "mock" /\ UNCHANGED <<options, hooks, mocks, recorded>>
  BY DEF MockHook, Due, HookOf, Installed, IInv, Kept, Flowing, Events
<1>2. recorded' \in Seq(Entries) /\ Len(recorded') <= MaxEntries
  BY <1>1 DEF IInv, Kept
<1>3. IF ~Mocks(controller, r) THEN HookReturns(r, f)
      ELSE \/ HookReturns(r, [f EXCEPT !.mock = found])
           \/ flow' = [flow EXCEPT ![r].stage = "delayed", ![r].mock = found]
  BY <1>1 DEF MockHook, HookOf
<1>4. CASE ~Mocks(controller, r)
  <2> DEFINE g == Moved(f, "beforeRequest", f.at + 1, f.mock)
  <2>1. flow' = [flow EXCEPT ![r] = g]
    <3>1. [f EXCEPT !.at = @ + 1] = g
      BY <1>1 DEF Flowing, Fields, Moved
    <3> QED BY <1>3, <1>4, <3>1 DEF HookReturns
  <2>2. /\ Flowing(g) /\ Tracing(g)
        /\ g.stage = "beforeRequest" /\ g.at = f.at + 1 /\ g.mock = f.mock /\ g.covered = f.covered
    BY <1>1, MovedOn
  <2> HIDE DEF g, f
  <2>3. Answered(f, r) => Answered(g, r)
    BY <1>1, <1>4, <2>2 DEF Answered
  <2>4. Mocked(g, r)
    BY <1>1, <2>2, <2>3 DEF Mocked
  <2> QED BY <1>1, <1>2, <2>1, <2>2, <2>4, OneFlow
<1>5. CASE Mocks(controller, r)
  <2>1. found # None
    <3>1. f.at \in DOMAIN b
      BY <1>1 DEF MockHook, Due
    <3>2. controller \in Controllers
      BY <1>1, <3>1 DEF IInv, Kept
    <3>3. controller.patterns \in Seq(Patterns) /\ ToSet(controller.patterns) \cap Matches[r] # {}
      BY <1>5, <3>2 DEF Controllers, Mocks
    <3>4. found \in Matches[r]
      BY <3>3, Matched
    <3> QED BY <3>4, HookAssumption DEF HookAssumption
  <2> HIDE DEF found, f
  <2>2. ASSUME NEW s \in {"beforeRequest", "delayed"}, NEW n \in Nat \ {0},
               flow' = [flow EXCEPT ![r] = Moved(f, s, n, found)]
        PROVE  IInv'
    <3> DEFINE g == Moved(f, s, n, found)
    <3>1. Flowing(g) /\ Tracing(g) /\ g.stage = s /\ g.mock = found
      BY <1>1, MovedOn
    <3> HIDE DEF g
    <3>2. Mocked(g, r)
      BY <2>1, <3>1 DEF Mocked
    <3> QED BY <1>1, <1>2, <2>2, <3>1, <3>2, OneFlow DEF g
  <2>3. CASE HookReturns(r, [f EXCEPT !.mock = found])
    <3>1. [[f EXCEPT !.mock = found] EXCEPT !.at = @ + 1] = Moved(f, "beforeRequest", f.at + 1, found)
      BY <1>1 DEF Flowing, Fields, Moved
    <3>2. flow' = [flow EXCEPT ![r] = Moved(f, "beforeRequest", f.at + 1, found)]
      BY <2>3, <3>1 DEF HookReturns
    <3>3. "beforeRequest" \in {"beforeRequest", "delayed"} /\ f.at + 1 \in Nat \ {0}
      BY <1>1
    <3> QED BY <2>2, <3>2, <3>3
  <2>4. CASE flow' = [flow EXCEPT ![r].stage = "delayed", ![r].mock = found]
    <3>1. [f EXCEPT !.stage = "delayed", !.mock = found] = Moved(f, "delayed", f.at, found)
      BY <1>1 DEF Flowing, Fields, Moved
    <3>2. flow' = [flow EXCEPT ![r] = [f EXCEPT !.stage = "delayed", !.mock = found]]
      BY <1>1, <2>4 DEF f
    <3>3. "delayed" \in {"beforeRequest", "delayed"} /\ f.at \in Nat \ {0}
      BY <1>1
    <3>4. flow' = [flow EXCEPT ![r] = Moved(f, "delayed", f.at, found)]
      BY <3>1, <3>2
    <3> QED BY <2>2, <3>3, <3>4
  <2> QED BY <1>3, <1>5, <2>3, <2>4
<1> QED BY <1>4, <1>5

LEMMA DelayKeeps ==
    ASSUME IInv, NEW r \in Exchanges, MockDelayed(r)
    PROVE  IInv'
<1> DEFINE f == flow[r]
           g == Moved(f, "beforeRequest", f.at + 1, f.mock)
<1>1. /\ f.stage = "delayed" /\ f.at \in Nat \ {0} /\ Flowing(f) /\ Tracing(f) /\ Mocked(f, r)
      /\ UNCHANGED <<options, hooks, mocks, recorded>>
  BY DEF MockDelayed, Installed, IInv, Kept, Flowing
<1>2. flow' = [flow EXCEPT ![r] = g]
  <2>1. [[f EXCEPT !.stage = "beforeRequest"] EXCEPT !.at = @ + 1] = g
    BY <1>1 DEF Flowing, Fields, Moved
  <2> QED BY <2>1 DEF MockDelayed, HookReturns
<1>3. /\ Flowing(g) /\ Tracing(g) /\ g.stage = "beforeRequest" /\ g.mock = f.mock
  BY <1>1, MovedOn
<1> HIDE DEF f, g
<1>4. Mocked(g, r)
  BY <1>1, <1>3 DEF Mocked
<1>5. recorded' \in Seq(Entries) /\ Len(recorded') <= MaxEntries
  BY <1>1 DEF IInv, Kept
<1> QED BY <1>1, <1>2, <1>3, <1>4, <1>5, OneFlow

\* A request whose hooks all had their turn is sent only if none of them answered.
LEMMA EndKeeps ==
    ASSUME IInv, NEW r \in Exchanges, EndOfHooks(r)
    PROVE  IInv'
<1> DEFINE f == flow[r]
           s == IF f.stage = "beforeRequest" /\ f.mock = None THEN "sent" ELSE "done"
<1>1. /\ f.stage \in Events /\ f.at > Len(hooks[f.stage]) /\ To(r, s) /\ Installed /\ UNCHANGED recorded
  BY DEF EndOfHooks
<1>2. /\ f.at \in Nat /\ Mocked(f, r) /\ f.covered \in BOOLEAN
      /\ hooks["beforeRequest"] \in Seq(HookEntry)
  BY DEF IInv, Kept, Flowing, Events
<1> HIDE DEF f
<1>3. s = "sent" => ~f.covered
  <2>1. SUFFICES ASSUME f.stage = "beforeRequest", f.mock = None PROVE ~f.covered
    OBVIOUS
  <2>2. ~Answered(f, r)
    BY <1>1, <1>2, <2>1 DEF Answered
  <2> QED BY <1>2, <2>1, <2>2 DEF Mocked
<1> QED BY <1>1, <1>3, ToKeeps DEF f

LEMMA IInvInit == HookInit => IInv
<1>1. SUFFICES ASSUME HookInit PROVE IInv
  OBVIOUS
<1> DEFINE f == [stage |-> "idle", at |-> 1, headers |-> <<>>, brought |-> <<>>, trace |-> None,
                 mock |-> None, covered |-> FALSE]
<1>2. /\ options \in Programs /\ hooks = [e \in Events |-> <<>>] /\ mocks = <<>> /\ recorded = <<>>
      /\ flow = [r \in Exchanges |-> f]
  BY <1>1 DEF HookInit
<1>3. /\ DOMAIN f = Fields /\ f.stage = "idle" /\ f.at = 1 /\ f.headers = <<>> /\ f.brought = <<>>
      /\ f.trace = None /\ f.mock = None /\ f.covered = FALSE
  BY DEF Fields
<1> HIDE DEF f
<1>4. Flowing(f) /\ Tracing(f) /\ \A r : Mocked(f, r)
  <2>1. Flowing(f)
    <3>1. f.covered \in BOOLEAN
      BY <1>3, Zenon
    <3> QED BY <1>3, <3>1 DEF Flowing
  <2>2. Tracing(f)
    BY <1>3 DEF Tracing
  <2>3. \A r : Mocked(f, r)
    BY <1>3 DEF Mocked
  <2> QED BY <2>1, <2>2, <2>3
<1>5. <<>> \in Seq(Entries) /\ <<>> \in Seq(Controllers) /\ <<>> \in Seq(HookEntry) /\ Len(<<>>) = 0
  OBVIOUS
<1>6. 0 <= MaxEntries
  BY HookAssumption DEF HookAssumption
<1>7. "beforeRequest" \in Events
  BY DEF Events
<1>8. Kept
  BY <1>2, <1>4, <1>5, <1>6, <1>7 DEF Kept
<1> QED BY <1>2, <1>4, <1>8 DEF IInv

LEMMA IInvStep == IInv /\ [HookNext]_hookVars => IInv'
<1>1. SUFFICES ASSUME IInv, [HookNext]_hookVars PROVE IInv'
  OBVIOUS
<1>2. UNCHANGED recorded => recorded' \in Seq(Entries) /\ Len(recorded') <= MaxEntries
  BY <1>1 DEF IInv, Kept
<1>3. ASSUME NEW p \in options.plugins, use(p) \/ unuse(p) PROVE IInv'
  <2>1. CASE use(p)
    BY <1>1, <2>1, UseKeeps
  <2>2. CASE unuse(p)
    BY <1>1, <1>2, <2>2, NoFlow DEF unuse
  <2> QED BY <1>3, <2>1, <2>2
<1>4. CASE ClearEntries
  <2>1. <<>> \in Seq(Entries) /\ Len(<<>>) <= MaxEntries
    BY HookAssumption DEF HookAssumption
  <2> QED BY <1>1, <1>4, <2>1, NoFlow DEF ClearEntries
<1>5. ASSUME NEW r \in Exchanges, NEW e \in Events, ValidationHook(r, e) PROVE IInv'
  <2>1. /\ Due(r, e) /\ HookOf(r).plugin # "mock" /\ Installed /\ UNCHANGED recorded
        /\ To(r, "onError") \/ HookReturns(r, flow[r])
    BY <1>5 DEF ValidationHook
  <2>2. recorded' \in Seq(Entries) /\ Len(recorded') <= MaxEntries
    BY <1>1, <2>1 DEF IInv, Kept
  <2>3. CASE To(r, "onError")
    BY <1>1, <2>1, <2>3, ToKeeps
  <2>4. CASE HookReturns(r, flow[r])
    BY <1>1, <2>1, <2>2, <2>4, ReturnKeeps
  <2> QED BY <2>1, <2>3, <2>4
<1>6. ASSUME NEW r \in Exchanges, NEW e \in Events, RecorderHook(r, e) PROVE IInv'
  <2>1. [request |-> r, of |-> e] \in Entries
    BY DEF Entries
  <2>2. /\ Due(r, e) /\ HookOf(r).plugin # "mock" /\ Installed /\ HookReturns(r, flow[r])
        /\ push([request |-> r, of |-> e]) \/ UNCHANGED recorded
    BY <1>6 DEF RecorderHook
  <2>3. recorded' \in Seq(Entries) /\ Len(recorded') <= MaxEntries
    <3>1. CASE push([request |-> r, of |-> e])
      BY <1>1, <2>1, <3>1, PushKeeps
    <3>2. CASE UNCHANGED recorded
      BY <1>1, <3>2 DEF IInv, Kept
    <3> QED BY <2>2, <3>1, <3>2
  <2> QED BY <1>1, <2>2, <2>3, ReturnKeeps
<1>7. ASSUME NEW r \in Exchanges, HookAnswer(r) PROVE IInv'
  <2>1. PICK s \in {"afterRequest", "onError", "done"} : To(r, s)
    BY <1>7 DEF HookAnswer
  <2>2. Installed /\ UNCHANGED recorded
    BY <1>7 DEF HookAnswer
  <2> QED BY <1>1, <2>1, <2>2, ToKeeps
<1>8. CASE UNCHANGED hookVars
  BY <1>1, <1>8, <1>2, NoFlow DEF hookVars
<1> QED
  <2>1. CASE HookNext
    BY <1>1, <1>3, <1>4, <1>5, <1>6, <1>7, <2>1, ControlsKeep, BeginKeeps, TraceKeeps, MockKeeps, DelayKeeps,
       EndKeeps DEF HookNext
  <2> QED BY <1>1, <1>8, <2>1

-----------------------------------------------------------------------------
\* What the hooks of plugins do to requests is what they are said to do, for any
\* programs: the trace that a response or an error is given is the one the next service
\* reads from the headers, however often the plugin is installed and whatever its formats
\* (TraceContextPlugin.ts:33-42); a request that a mock answers when it begins, and ever
\* since, is not sent, however use(), unuse() and the controller's calls interleave with
\* its hooks (PluginManager.ts:96-116, 250-276); and the recorder stays within its bound.
THEOREM HooksDoAsTold == HookSpec => []HooksAsTold
<1>1. IInv => HooksAsTold
  <2>1. SUFFICES ASSUME IInv PROVE HooksAsTold
    OBVIOUS
  <2>2. ASSUME NEW r \in Exchanges, flow[r].trace # None, Complete(flow[r].brought),
               flow[r].brought = <<>> \/ ~Own
        PROVE  /\ Given(flow[r])
               /\ flow[r].brought = <<>> => flow[r].headers = traceHeaders(flow[r].trace)
    BY <2>1, <2>2 DEF IInv, Tracing, Given
  <2>3. TraceTold
    BY <2>2 DEF TraceTold, Given, Tells, Own
  <2>4. MockedStaysHome
    BY <2>1 DEF MockedStaysHome, IInv, Mocked
  <2> QED BY <2>1, <2>3, <2>4 DEF HooksAsTold, IInv, Kept
<1> QED BY IInvInit, IInvStep, <1>1, PTL DEF HookSpec

-----------------------------------------------------------------------------
\* RequestHeaders: what goes out at an attempt depends on the headers only, which no
\* attempt changes.

\* A header of the caller's that is false stays so until it is dropped with the body.
BlocksKept ==
    \A n \in DOMAIN asked.given \ meddled :
        asked.given[n] = Blocked =>
            IF n \in DOMAIN headers
            THEN headers[n] = Blocked \/ (n = "traceparent" /\ asked.trace = "overwrite")
            ELSE n \in DroppedNames /\ asked.data = None

\* The type that the client gives a body before it is serialised.
Described ==
    readiness # "asked" /\ "content-type" \notin DOMAIN asked.given \cup meddled /\ asked.data # None =>
        IF asked.data = "form" THEN ~has(headers, "content-type")
        ELSE has(headers, "content-type") /\ headers["content-type"] = detectContentType(asked.data)

\* What belongs to an attempt is in its copy only.
NothingLeftOver == \A n \in DOMAIN headers : headers[n] \notin {"attempt", "proxy"}

HeaderInv ==
    /\ Requested(asked)
    /\ readiness = "asked" => headers = asked.given
    /\ sent # None => readiness = "sent" /\ sent = visible(OnTheWire(asked, headers))
    /\ BlocksKept /\ Described /\ NothingLeftOver

LEMMA Asked ==
    ASSUME NEW r, Requested(r)
    PROVE  /\ r.data \in Bodies /\ r.policy \in FormPolicies /\ r.route \in Routes
           /\ r.trace \in {None, "unset", "overwrite"}
           /\ \A n \in DOMAIN r.given : r.given[n] \in Types \cup {"caller", Blocked}
BY DEF Requested

LEMMA SetGives ==
    ASSUME NEW h, NEW n, NEW v
    PROVE  /\ \A m : m \in DOMAIN set(h, n, v) <=> m \in DOMAIN h \/ m = n
           /\ set(h, n, v)[n] = v
           /\ \A m \in DOMAIN h : m # n => set(h, n, v)[m] = h[m]
BY DEF set

LEMMA UnsetGives ==
    ASSUME NEW h, NEW n, NEW v
    PROVE  /\ \A m : m \in DOMAIN setIfUnset(h, n, v) <=> m \in DOMAIN h \/ m = n
           /\ \A m \in DOMAIN h : setIfUnset(h, n, v)[m] = h[m]
           /\ n \notin DOMAIN h => setIfUnset(h, n, v)[n] = v
<1>1. CASE n \in DOMAIN h
  BY <1>1 DEF setIfUnset, has
<1>2. CASE n \notin DOMAIN h
  BY <1>2, SetGives DEF setIfUnset, has
<1>3. QED
  BY <1>1, <1>2

LEMMA NotBlockedGives ==
    ASSUME NEW h, NEW n, NEW v
    PROVE  /\ \A m : m \in DOMAIN setIfNotBlocked(h, n, v) <=> m \in DOMAIN h \/ m = n
           /\ \A m \in DOMAIN h : \/ setIfNotBlocked(h, n, v)[m] = h[m]
                                 \/ (m = n /\ h[n] # Blocked /\ setIfNotBlocked(h, n, v)[m] = v)
           /\ n \notin DOMAIN h => setIfNotBlocked(h, n, v)[n] = v
<1>1. CASE n \in DOMAIN h /\ h[n] = Blocked
  BY <1>1 DEF setIfNotBlocked, has
<1>2. CASE ~(n \in DOMAIN h /\ h[n] = Blocked)
  <2>1. setIfNotBlocked(h, n, v) = set(h, n, v)
    BY <1>2 DEF setIfNotBlocked, has
  <2>2. QED
    BY <1>2, <2>1, SetGives
<1>3. QED
  BY <1>1, <1>2

LEMMA WithoutGives ==
    ASSUME NEW h, NEW names
    PROVE  /\ \A m : m \in DOMAIN without(h, names) <=> m \in DOMAIN h /\ m \notin names
           /\ \A m \in DOMAIN h \ names : without(h, names)[m] = h[m]
BY DEF without

\* A multipart body's type is replaced, but for one that is false.
LEMMA MultipartGives ==
    ASSUME NEW h, NEW policy
    PROVE  LET w == Multipart(h, policy)
           IN /\ \A m : m \in DOMAIN w => m \in DOMAIN h \/ m = "content-type"
              /\ \A m \in DOMAIN h : m \in DOMAIN w
              /\ \A m \in DOMAIN h : w[m] = h[m] \/ (m = "content-type" /\ h[m] # Blocked)
              /\ \A m \in DOMAIN w : w[m] = "multipart-boundary" \/ (m \in DOMAIN h /\ w[m] = h[m])
<1>1. CASE Multipart(h, policy) = h
  BY <1>1
<1>2. CASE Multipart(h, policy) # h
  <2>1. Multipart(h, policy) = set(h, "content-type", "multipart-boundary")
        /\ ContentType(h) # Blocked
    BY <1>2 DEF Multipart
  <2>2. "content-type" \in DOMAIN h => h["content-type"] # Blocked
    BY <2>1 DEF ContentType, has
  <2>3. QED
    BY <2>1, <2>2, SetGives
<1>3. QED
  BY <1>1, <1>2

LEMMA SerializedCases ==
    ASSUME NEW r, Requested(r), NEW h
    PROVE  \/ /\ SerializedAs(r, h) = "multipart" /\ Serialized(r, h) = Multipart(h, r.policy)
              /\ r.data \in {"form", "object"}
           \/ /\ SerializedAs(r, h) = "form-urlencoded"
              /\ Serialized(r, h) = setIfUnset(h, "content-type", "application/x-www-form-urlencoded")
              /\ r.data \in {"params", "object"}
           \/ /\ SerializedAs(r, h) = "json" /\ Serialized(r, h) = setIfUnset(h, "content-type", "application/json")
              /\ r.data \in {"array", "object"}
           \/ /\ SerializedAs(r, h) = "itself" /\ Serialized(r, h) = h
              /\ r.data \in {None, "text", "bytes", "stream", "blob"}
<1>1. r.data \in Bodies /\ None \notin BodyKinds \cup Types \cup {Blocked}
  BY Asked, HeaderAssumption
<1>2. \/ SerializedAs(r, h) = "multipart" /\ r.data \in {"form", "object"}
      \/ SerializedAs(r, h) = "form-urlencoded" /\ r.data \in {"params", "object"}
      \/ SerializedAs(r, h) = "json" /\ r.data \in {"array", "object"}
      \/ SerializedAs(r, h) = "itself" /\ r.data \in {None, "text", "bytes", "stream", "blob"}
  BY <1>1 DEF SerializedAs, Bodies, BodyKinds
<1>3. QED
  BY <1>2 DEF Serialized

\* What has been added when the attempt is made.
LEMMA WireKeepsBlocks ==
    ASSUME NEW r, Requested(r), NEW h, NEW n \in DOMAIN h, h[n] = Blocked
    PROVE  LET w == OnTheWire(r, h)
           IN n \in DOMAIN w /\ (w[n] = Blocked \/ (n = "proxy-authorization" /\ r.route = "proxy"))
<1> DEFINE s == Serialized(r, h)
           m == Measured(r, s)
<1>1. n \in DOMAIN s /\ s[n] = Blocked
  BY SerializedCases, MultipartGives, UnsetGives
<1>2. n \in DOMAIN m /\ m[n] = Blocked
  BY <1>1, UnsetGives DEF Measured
<1>3. OnTheWire(r, h) = Routed(r, m)
  BY DEF OnTheWire
<1> HIDE DEF s, m
<1>4. CASE r.route # "proxy"
  BY <1>2, <1>3, <1>4 DEF Routed
<1>5. CASE r.route = "proxy"
  <2> DEFINE p == set(m, "proxy-authorization", "proxy")
  <2>1. OnTheWire(r, h) = setIfUnset(p, "host", "attempt")
    BY <1>3, <1>5 DEF Routed
  <2>2. n \in DOMAIN p /\ (p[n] = Blocked \/ n = "proxy-authorization")
    BY <1>2, SetGives
  <2> HIDE DEF p
  <2>3. QED
    BY <1>5, <2>1, <2>2, UnsetGives
<1>6. QED
  BY <1>4, <1>5

\* Nothing else is added to what is not there.
LEMMA WireAdds ==
    ASSUME NEW r, Requested(r), NEW h, NEW n, n \notin DOMAIN h, n \in DOMAIN OnTheWire(r, h)
    PROVE  \/ (n = "content-type" /\ r.data \notin {None, "text", "bytes", "stream", "blob"})
           \/ (n = "content-length" /\ r.data \notin {None, "stream"})
           \/ (n \in {"proxy-authorization", "host"} /\ r.route = "proxy")
<1> DEFINE s == Serialized(r, h)
           m == Measured(r, s)
<1>1. n \in DOMAIN s => n = "content-type" /\ r.data \notin {None, "text", "bytes", "stream", "blob"}
  <2>1. None \notin BodyKinds \cup Types \cup {Blocked}
    BY HeaderAssumption
  <2>2. QED
    BY <2>1, SerializedCases, MultipartGives, UnsetGives DEF BodyKinds
<1>2. n \in DOMAIN m => n \in DOMAIN s \/ (n = "content-length" /\ r.data \notin {None, "stream"})
  BY UnsetGives DEF Measured
<1>3. OnTheWire(r, h) = Routed(r, m)
  BY DEF OnTheWire
<1> HIDE DEF s, m
<1>4. CASE r.route # "proxy"
  BY <1>1, <1>2, <1>3, <1>4 DEF Routed
<1>5. CASE r.route = "proxy"
  <2>1. OnTheWire(r, h) = setIfUnset(set(m, "proxy-authorization", "proxy"), "host", "attempt")
    BY <1>3, <1>5 DEF Routed
  <2>2. n \in DOMAIN m \cup {"proxy-authorization", "host"}
    BY <2>1, SetGives, UnsetGives
  <2>3. QED
    BY <1>1, <1>2, <1>5, <2>2
<1>6. QED
  BY <1>4, <1>5

\* An attempt marks as its own only what it adds.
LEMMA WireOwn ==
    ASSUME NEW r, Requested(r), NEW h, \A n \in DOMAIN h : h[n] \notin {"attempt", "proxy"}
    PROVE  LET w == OnTheWire(r, h)
           IN /\ "proxy-authorization" \in DOMAIN w /\ w["proxy-authorization"] = "proxy" => r.route = "proxy"
              /\ "content-length" \in DOMAIN w /\ r.data \in {None, "stream"} => w["content-length"] # "attempt"
<1> DEFINE s == Serialized(r, h)
           m == Measured(r, s)
<1>1. \A n \in DOMAIN s : s[n] \notin {"attempt", "proxy"}
  BY SerializedCases, MultipartGives, UnsetGives
<1> HIDE DEF s
<1>2. \A n \in DOMAIN m : m[n] # "proxy" /\ (r.data \in {None, "stream"} => m[n] # "attempt")
  BY <1>1, UnsetGives DEF Measured
<1>3. OnTheWire(r, h) = Routed(r, m)
  BY DEF OnTheWire, s
<1> HIDE DEF m
<1>4. CASE r.route # "proxy"
  BY <1>2, <1>3, <1>4 DEF Routed
<1>5. CASE r.route = "proxy"
  <2>1. OnTheWire(r, h) = setIfUnset(set(m, "proxy-authorization", "proxy"), "host", "attempt")
    BY <1>3, <1>5 DEF Routed
  <2>2. QED
    BY <1>2, <1>5, <2>1, SetGives, UnsetGives
<1>6. QED
  BY <1>4, <1>5

\* An attempt leaves the type of the body as it was serialised.
LEMMA WireType == ASSUME NEW r, NEW h PROVE ContentType(OnTheWire(r, h)) = ContentType(Serialized(r, h))
<1> DEFINE s == Serialized(r, h)
           m == Measured(r, s)
<1>1. ContentType(m) = ContentType(s)
  BY UnsetGives DEF Measured, ContentType, has
<1>2. OnTheWire(r, h) = Routed(r, m)
  BY DEF OnTheWire
<1> HIDE DEF s, m
<1>3. CASE r.route # "proxy"
  BY <1>1, <1>2, <1>3 DEF Routed, s
<1>4. CASE r.route = "proxy"
  <2> DEFINE p == set(m, "proxy-authorization", "proxy")
  <2>1. ContentType(p) = ContentType(m)
    BY SetGives DEF ContentType, has
  <2>2. OnTheWire(r, h) = setIfUnset(p, "host", "attempt")
    BY <1>2, <1>4 DEF Routed
  <2> HIDE DEF p
  <2>3. ContentType(setIfUnset(p, "host", "attempt")) = ContentType(p)
    BY UnsetGives DEF ContentType, has
  <2>4. QED
    BY <1>1, <2>1, <2>2, <2>3 DEF s
<1>5. QED
  BY <1>3, <1>4

\* The type of the body, if the headers say nothing else than what it is.
Fits(r, as, type) ==
    CASE as = "multipart" -> type = (IF r.policy = "none" THEN None ELSE "multipart-boundary")
      [] as = "json" -> type = "application/json"
      [] as = "form-urlencoded" -> type = "application/x-www-form-urlencoded"
      [] as = "itself" -> type \in {"text/plain", "application/octet-stream"}

LEMMA WireDescribes ==
    ASSUME NEW r, Requested(r), NEW h, r.data # None,
           IF r.data = "form" THEN ~has(h, "content-type")
           ELSE has(h, "content-type") /\ h["content-type"] = detectContentType(r.data)
    PROVE  Fits(r, SerializedAs(r, h), ContentType(visible(OnTheWire(r, h))))
<1> DEFINE as == SerializedAs(r, h)
           type == ContentType(Serialized(r, h))
<1>1. r.data \in Bodies /\ r.policy \in FormPolicies /\ None \notin BodyKinds \cup Types \cup {Blocked}
  BY Asked, HeaderAssumption
<1>2. Fits(r, as, type) /\ type # Blocked
  <2>1. CASE r.data = "form"
    <3>1. as = "multipart" /\ Serialized(r, h) = Multipart(h, r.policy)
      BY <2>1 DEF SerializedAs, Serialized
    <3>2. type = IF r.policy = "none" THEN None ELSE "multipart-boundary"
      <4>1. ContentType(h) = None /\ ~has(h, "content-type")
        BY <2>1 DEF ContentType
      <4>2. CASE r.policy = "none"
        BY <3>1, <4>1, <4>2 DEF Multipart
      <4>3. CASE r.policy # "none"
        <5>1. Multipart(h, r.policy) = set(h, "content-type", "multipart-boundary")
          BY <1>1, <4>1, <4>3 DEF Multipart, Blocked, Types
        <5>2. QED
          BY <3>1, <4>3, <5>1, SetGives DEF ContentType, has
      <4>4. QED
        BY <4>2, <4>3
    <3>3. QED
      BY <1>1, <3>1, <3>2 DEF Fits, Blocked
  <2>2. CASE r.data # "form"
    <3>1. has(h, "content-type") /\ ContentType(h) = detectContentType(r.data)
      BY <2>2 DEF ContentType
    <3>2. \A v : setIfUnset(h, "content-type", v) = h
      BY <3>1 DEF setIfUnset
    <3>3. \/ r.data = "params" /\ ContentType(h) = "application/x-www-form-urlencoded"
          \/ r.data \in {"array", "object"} /\ ContentType(h) = "application/json"
          \/ /\ r.data \in {"text", "bytes", "stream", "blob"}
             /\ ContentType(h) \in {"text/plain", "application/octet-stream"}
      <4>1. r.data \in BodyKinds \ {"form"}
        BY <1>1, <2>2 DEF Bodies
      <4>2. CASE r.data \in {"text", "bytes", "stream", "blob"}
        BY <3>1, <4>2 DEF detectContentType
      <4>3. CASE r.data \in {"params", "array", "object"}
        BY <3>1, <4>3 DEF detectContentType
      <4>4. QED
        BY <4>1, <4>2, <4>3 DEF BodyKinds
    <3>4. /\ as = CASE r.data = "params" -> "form-urlencoded" [] r.data \in {"array", "object"} -> "json"
                    [] OTHER -> "itself"
          /\ Serialized(r, h) = h
      BY <1>1, <3>2, <3>3 DEF SerializedAs, Serialized
    <3>5. QED
      BY <3>3, <3>4 DEF Fits, Blocked
  <2>3. QED
    BY <2>1, <2>2
<1>3. ContentType(OnTheWire(r, h)) = type
  BY WireType
<1>4. \A w : ContentType(w) # Blocked => ContentType(visible(w)) = ContentType(w)
  <2> TAKE w
  <2> HAVE ContentType(w) # Blocked
  <2> DEFINE B == {n \in DOMAIN w : w[n] = Blocked}
  <2>1. /\ \A n : n \in DOMAIN visible(w) <=> n \in DOMAIN w /\ n \notin B
        /\ \A n \in DOMAIN w \ B : visible(w)[n] = w[n]
    BY WithoutGives DEF visible
  <2>2. "content-type" \in DOMAIN w <=> "content-type" \in DOMAIN w \ B
    BY DEF ContentType, has
  <2> HIDE DEF B
  <2>3. QED
    BY <2>1, <2>2 DEF ContentType, has
<1>5. QED
  BY <1>2, <1>3, <1>4

\* Nothing is lost, unblocked or retyped when a name is added.
Clean(h) == \A n \in DOMAIN h : h[n] \notin {"attempt", "proxy"}
Added(g, h) ==
    /\ Clean(g) => Clean(h)
    /\ \A n \in DOMAIN g : n \in DOMAIN h /\ (g[n] = Blocked => h[n] = Blocked)
    /\ has(h, "content-type") => has(g, "content-type") /\ h["content-type"] = g["content-type"]

LEMMA AddedSelf == ASSUME NEW h PROVE Added(h, h)
BY DEF Added

LEMMA AddedTwice == ASSUME NEW f, NEW g, NEW h, Added(f, g), Added(g, h) PROVE Added(f, h)
BY DEF Added, has

LEMMA NotBlockedAdds ==
    ASSUME NEW h, NEW n, n # "content-type" PROVE Added(h, setIfNotBlocked(h, n, "client"))
BY NotBlockedGives DEF Added, Clean, has, Blocked

LEMMA BuiltGives ==
    ASSUME NEW r, Requested(r)
    PROVE  LET h == Built(r)
           IN /\ Clean(h)
              /\ \A n \in DOMAIN r.given : n \in DOMAIN h /\ (r.given[n] = Blocked => h[n] = Blocked)
              /\ ~has(r.given, "content-type") /\ r.data # None =>
                     IF r.data = "form" THEN ~has(h, "content-type")
                     ELSE has(h, "content-type") /\ h["content-type"] = detectContentType(r.data)
<1> DEFINE withId   == setIfNotBlocked(r.given, "x-request-id", "client")
           withKey  == When(r.key, setIfNotBlocked(withId, "idempotency-key", "client"), withId)
           withAuth == When(r.auth, setIfNotBlocked(withKey, "authorization", "client"), withKey)
<1>1. Added(r.given, withId)
  BY NotBlockedAdds
<1>2. Built(r) = IF r.data \in {None, "form"} THEN withAuth
                 ELSE setIfUnset(withAuth, "content-type", detectContentType(r.data))
  BY DEF Built
<1>3. Added(withId, withKey)
  BY NotBlockedAdds, AddedSelf DEF When
<1>4. Added(withKey, withAuth)
  BY NotBlockedAdds, AddedSelf DEF When
<1> HIDE DEF withId, withKey, withAuth
<1>5. Added(r.given, withAuth)
  BY <1>1, <1>3, <1>4, AddedTwice
<1>6. Clean(r.given)
  <2>1. \A n \in DOMAIN r.given : r.given[n] \in Types \cup {"caller", Blocked}
    BY Asked
  <2>2. QED
    BY <2>1 DEF Clean, Types, Blocked
<1>7. CASE r.data \in {None, "form"}
  BY <1>2, <1>5, <1>6, <1>7 DEF Added, has
<1>8. CASE r.data \notin {None, "form"}
  <2>1. detectContentType(r.data) \notin {"attempt", "proxy"}
    <3>1. r.data \in BodyKinds \ {"form"}
      BY <1>8, Asked DEF Bodies
    <3>2. CASE r.data \in {"text", "bytes", "stream", "blob"}
      BY <3>2 DEF detectContentType
    <3>3. CASE r.data \in {"params", "array", "object"}
      BY <3>3 DEF detectContentType
    <3>4. QED
      BY <3>1, <3>2, <3>3 DEF BodyKinds
  <2>2. Built(r) = setIfUnset(withAuth, "content-type", detectContentType(r.data))
    BY <1>2, <1>8
  <2>3. QED
    BY <1>5, <1>6, <1>8, <2>1, <2>2, UnsetGives DEF Added, Clean, has
<1>9. QED
  BY <1>7, <1>8

LEMMA HeadersStart == HeaderInit => HeaderInv
<1> SUFFICES ASSUME HeaderInit PROVE HeaderInv
  OBVIOUS
<1>1. Requested(asked) /\ headers = asked.given /\ readiness = "asked" /\ sent = None
  BY HeaderAssumption DEF HeaderInit
<1>2. \A n \in DOMAIN asked.given : asked.given[n] \in Types \cup {"caller", Blocked}
  BY <1>1, Asked
<1>3. NothingLeftOver
  BY <1>1, <1>2 DEF NothingLeftOver, Types, Blocked
<1>4. BlocksKept /\ Described
  BY <1>1 DEF BlocksKept, Described
<1>5. QED
  BY <1>1, <1>3, <1>4 DEF HeaderInv

LEMMA ReroutedGives ==
    ASSUME NEW r, Requested(r), NEW route \in Routes
    PROVE  LET q == Rerouted(r, route)
           IN Requested(q) /\ q.given = r.given /\ q.trace = r.trace /\ q.data = None
BY DEF Rerouted, Requested, Bodies

LEMMA HeadersKept == HeaderInv /\ [HeaderNext]_headerVars => HeaderInv'
<1> SUFFICES ASSUME HeaderInv, [HeaderNext]_headerVars PROVE HeaderInv'
  OBVIOUS
<1> USE DEF HeaderInv
<1>1. ASSUME UNCHANGED headerVars PROVE HeaderInv'
  BY <1>1 DEF headerVars, BlocksKept, Described, NothingLeftOver
<1>2. ASSUME Build PROVE HeaderInv'
  <2>1. /\ readiness = "asked" /\ readiness' = "built" /\ headers' = Built(asked)
        /\ UNCHANGED <<asked, attempts, sent, meddled>> /\ headers = asked.given
    BY <1>2 DEF Build, Adds
  <2>2. BlocksKept' /\ NothingLeftOver'
    BY <2>1, BuiltGives DEF BlocksKept, NothingLeftOver, Clean
  <2>3. Described'
    BY <2>1, BuiltGives DEF Described, has
  <2>4. QED
    BY <2>1, <2>2, <2>3
<1>3. ASSUME Trace PROVE HeaderInv'
  <2>1. /\ readiness = "built" /\ readiness' = "traced" /\ headers' = Traced(asked, headers)
        /\ UNCHANGED <<asked, attempts, sent, meddled>> /\ sent = None
    BY <1>3 DEF Trace, Adds
  <2>2. \/ headers' = headers
        \/ headers' = set(headers, "traceparent", "client") /\ asked.trace = "overwrite"
        \/ headers' = setIfUnset(headers, "traceparent", "client")
    BY <2>1, Asked DEF Traced
  <2>3. NothingLeftOver'
    BY <2>2, SetGives, UnsetGives DEF NothingLeftOver
  <2>4. /\ has(headers', "content-type") <=> has(headers, "content-type")
        /\ has(headers, "content-type") => headers'["content-type"] = headers["content-type"]
    BY <2>2, SetGives, UnsetGives DEF has
  <2>5. Described'
    BY <2>1, <2>4 DEF Described
  <2>6. /\ \A n \in DOMAIN headers :
               n \in DOMAIN headers' /\ (headers'[n] = headers[n] \/ (n = "traceparent" /\ asked.trace = "overwrite"))
        /\ \A n \in DOMAIN headers' : n \in DOMAIN headers \/ n = "traceparent"
    BY <2>2, SetGives, UnsetGives
  <2>7. BlocksKept'
    BY <2>1, <2>6 DEF BlocksKept, DroppedNames
  <2>8. QED
    BY <2>1, <2>3, <2>5, <2>7
<1>4. ASSUME Secure PROVE HeaderInv'
  <2>1. /\ readiness = "traced" /\ readiness' = "secured" /\ headers' = Secured(asked, headers)
        /\ UNCHANGED <<asked, attempts, sent, meddled>> /\ sent = None
    BY <1>4 DEF Secure, Adds
  <2>2. Added(headers, headers')
    <3> DEFINE signed == When(asked.signing, setIfNotBlocked(headers, "x-neutrx-signature", "client"), headers)
    <3>1. Added(headers, signed)
      BY NotBlockedAdds, AddedSelf DEF When
    <3>2. headers' = setIfNotBlocked(signed, "x-request-id", "client")
      BY <2>1 DEF Secured
    <3> HIDE DEF signed
    <3>3. QED
      BY <3>1, <3>2, NotBlockedAdds, AddedTwice
  <2>3. \A n \in DOMAIN headers' : n \in DOMAIN headers \/ n \in {"x-neutrx-signature", "x-request-id"}
    <3> DEFINE signed == When(asked.signing, setIfNotBlocked(headers, "x-neutrx-signature", "client"), headers)
    <3>1. \A n \in DOMAIN signed : n \in DOMAIN headers \/ n = "x-neutrx-signature"
      BY NotBlockedGives DEF When
    <3>2. headers' = setIfNotBlocked(signed, "x-request-id", "client")
      BY <2>1 DEF Secured
    <3> HIDE DEF signed
    <3>3. QED
      BY <3>1, <3>2, NotBlockedGives
  <2>5. BlocksKept'
    BY <2>1, <2>2, <2>3 DEF BlocksKept, Added, DroppedNames
  <2>6. NothingLeftOver' /\ Described'
    BY <2>1, <2>2 DEF NothingLeftOver, Clean, Described, Added, has
  <2>7. QED
    BY <2>1, <2>5, <2>6
<1>5. ASSUME NEW n \in Names, Hook(n) PROVE HeaderInv'
  <2>1. /\ readiness \in {"traced", "secured"} /\ meddled = {} /\ meddled' = {n}
        /\ UNCHANGED <<asked, readiness, attempts, sent>> /\ sent = None
    BY <1>5 DEF Hook, Meddles
  <2>2. \/ \E v \in {"application/json", "hook", Blocked} : headers' = set(headers, n, v)
        \/ headers' = without(headers, {n})
    BY <1>5 DEF Hook, Meddles, deleted
  <2>3. \A m : m # n => (m \in DOMAIN headers' <=> m \in DOMAIN headers)
                        /\ (m \in DOMAIN headers => headers'[m] = headers[m])
    BY <2>2, SetGives, WithoutGives
  <2>4. NothingLeftOver'
    BY <2>2, SetGives, WithoutGives DEF NothingLeftOver, Blocked
  <2>5. BlocksKept'
    BY <2>1, <2>3 DEF BlocksKept
  <2>6. Described'
    BY <2>1, <2>3 DEF Described, has
  <2>7. QED
    BY <2>1, <2>4, <2>5, <2>6
<1>6. ASSUME Copy PROVE HeaderInv'
  <2>1. /\ readiness \in {"traced", "secured"} /\ meddled = {} /\ headers' = visible(headers)
        /\ meddled' = DOMAIN headers \ DOMAIN headers'
        /\ UNCHANGED <<asked, readiness, attempts, sent>> /\ sent = None
    BY <1>6 DEF Copy, Meddles
  <2>2. \A m : m \in DOMAIN headers' <=> m \in DOMAIN headers /\ headers[m] # Blocked
    BY <2>1, WithoutGives DEF visible
  <2>3. \A m \in DOMAIN headers' : headers'[m] = headers[m]
    BY <2>1, WithoutGives DEF visible
  <2>4. NothingLeftOver'
    BY <2>2, <2>3 DEF NothingLeftOver
  <2>5. BlocksKept'
    BY <2>1, <2>2, <2>3 DEF BlocksKept
  <2>6. Described'
    BY <2>1, <2>2, <2>3 DEF Described, has
  <2>7. QED
    BY <2>1, <2>4, <2>5, <2>6
<1>7. ASSUME AttemptSends PROVE HeaderInv'
  BY <1>7 DEF AttemptSends, BlocksKept, Described, NothingLeftOver
<1>8. ASSUME RedirectElsewhere PROVE HeaderInv'
  <2>1. /\ readiness = "sent" /\ readiness' = "secured" /\ headers' = without(headers, DroppedNames)
        /\ sent' = None /\ meddled' = meddled
    BY <1>8 DEF RedirectElsewhere
  <2>2. PICK route \in Routes : asked' = Rerouted(asked, route)
    BY <1>8 DEF RedirectElsewhere
  <2>3. /\ Requested(asked') /\ asked'.given = asked.given /\ asked'.trace = asked.trace
        /\ asked'.data = None
    BY <2>2, ReroutedGives
  <2>4. NothingLeftOver'
    BY <2>1, WithoutGives DEF NothingLeftOver
  <2>5. BlocksKept'
    BY <2>1, <2>3, WithoutGives DEF BlocksKept
  <2>6. Described'
    BY <2>3 DEF Described
  <2>7. QED
    BY <2>1, <2>3, <2>4, <2>5, <2>6
<1>9. QED
  BY <1>1, <1>2, <1>3, <1>4, <1>5, <1>6, <1>7, <1>8 DEF HeaderNext

\* For any requests, hooks, attempts and redirects: what the caller set to false is not
\* sent but where the code says so, nothing of one attempt or route is left in another,
\* and a body goes out as what it is.
THEOREM SentAsIntended == HeaderSpec => []SentAsMeant
<1>1. HeaderInv => SentAsMeant
  <2> SUFFICES ASSUME HeaderInv, sent # None PROVE SentAsMeant
    BY DEF SentAsMeant
  <2> DEFINE w == OnTheWire(asked, headers)
  <2>1. sent = visible(w) /\ Requested(asked) /\ readiness # "asked"
    BY DEF HeaderInv
  <2> HIDE DEF w
  <2>2. /\ \A n : n \in DOMAIN sent <=> n \in DOMAIN w /\ w[n] # Blocked
        /\ \A n \in DOMAIN sent : sent[n] = w[n]
    BY <2>1, WithoutGives DEF visible
  <2>3. ASSUME NEW n \in DOMAIN sent \cap DOMAIN asked.given, asked.given[n] = Blocked, n \notin meddled
        PROVE  \/ n = "traceparent" /\ asked.trace = "overwrite"
               \/ n = "proxy-authorization" /\ asked.route = "proxy"
               \/ n = "host" /\ asked.route = "proxy" /\ n \notin DOMAIN headers
    <3>1. CASE n \in DOMAIN headers
      BY <2>1, <2>2, <2>3, <3>1, WireKeepsBlocks DEF HeaderInv, BlocksKept, w
    <3>2. CASE n \notin DOMAIN headers
      BY <2>1, <2>2, <2>3, <3>2, WireAdds DEF HeaderInv, BlocksKept, w
    <3>3. QED
      BY <3>1, <3>2
  <2>4. /\ "proxy-authorization" \in DOMAIN sent /\ sent["proxy-authorization"] = "proxy" => asked.route = "proxy"
        /\ "content-length" \in DOMAIN sent /\ asked.data \in {None, "stream"} => sent["content-length"] # "attempt"
    BY <2>1, <2>2, WireOwn DEF HeaderInv, NothingLeftOver, w
  <2>5. ASSUME "content-type" \notin DOMAIN asked.given \cup meddled, asked.data # None
        PROVE  Fits(asked, SerializedAs(asked, headers), ContentType(sent))
    BY <2>1, <2>5, WireDescribes DEF HeaderInv, Described, w
  <2>6. QED
    BY <2>3, <2>4, <2>5 DEF SentAsMeant, Fits
<1>2. QED
  BY <1>1, HeadersStart, HeadersKept, PTL DEF HeaderSpec


-----------------------------------------------------------------------------
\* BodyTransfer: its arithmetic.

\* As many slices of length c as it takes, and what they are.
Enough(n, size, c) == n \in Nat \ {0} /\ size <= n * c /\ (n - 1) * c < size
Sliced(s, n, size, c) == s = [i \in 1..n |-> Smaller(size, (i - 1) * c + c) - (i - 1) * c]

LEMMA RoundedUp ==
    ASSUME NEW size \in Nat \ {0}, NEW c \in Nat \ {0}
    PROVE  Enough((size + c - 1) \div c, size, c)
<1>1. size + c - 1 \in Nat
  OBVIOUS
<1>2. PICK n : n = (size + c - 1) \div c
  OBVIOUS
<1>3. n \in Nat /\ n * c <= size + c - 1 /\ size + c - 1 < n * c + c
  BY <1>1, <1>2, Division
<1>4. (n - 1) * c + c = n * c /\ n * c \in Nat /\ (n - 1) * c \in Int
  BY <1>3, Distributed
<1>5. size <= n * c /\ (n - 1) * c < size
  BY <1>3, <1>4
<1>6. n # 0
  BY <1>3, <1>5
<1> QED BY <1>2, <1>3, <1>5, <1>6 DEF Enough

\* They begin at the multiples of c below the size.
LEMMA Offsets ==
    ASSUME NEW size \in Nat \ {0}, NEW c \in Nat \ {0}, NEW n, Enough(n, size, c), NEW i \in 1..n
    PROVE  /\ (i - 1) * c \in Nat /\ i * c \in Nat /\ (i - 1) * c < size /\ (i - 1) * c + c = i * c
<1>1. n \in Nat \ {0} /\ (n - 1) * c < size /\ (n - 1) * c \in Int
  BY DEF Enough
<1>2. i \in Nat /\ i - 1 \in Nat /\ n - 1 \in Int /\ i - 1 <= n - 1
  BY <1>1
<1>3. (i - 1) * c <= (n - 1) * c /\ (i - 1) * c \in Nat
  BY <1>2, Stretched
<1>4. (i - 1) * c + c = i * c /\ i * c \in Nat
  BY <1>2, Distributed
<1> QED BY <1>1, <1>3, <1>4

\* Together they are the whole.
LEMMA SlicesAdd ==
    ASSUME NEW size \in Nat \ {0}, NEW c \in Nat \ {0}, NEW n, Enough(n, size, c),
           NEW s, Sliced(s, n, size, c)
    PROVE  s \in Seq(Nat) /\ s # <<>> /\ Total(s) = size
<1>1. n \in Nat \ {0} /\ size <= n * c /\ n * c \in Int
  BY DEF Enough
<1>2. ASSUME NEW i \in 1..n
      PROVE  /\ s[i] = Smaller(size, i * c) - (i - 1) * c /\ s[i] \in Nat
             /\ Smaller(size, i * c) \in Nat /\ (i - 1) * c \in Nat
             /\ Smaller(size, (i - 1) * c) = (i - 1) * c
  <2>1. s[i] = Smaller(size, (i - 1) * c + c) - (i - 1) * c
    BY DEF Sliced
  <2>2. /\ (i - 1) * c \in Nat /\ i * c \in Nat /\ (i - 1) * c < size /\ (i - 1) * c + c = i * c
    BY Offsets
  <2>3. (i - 1) * c <= i * c
    BY <2>2
  <2> QED BY <2>1, <2>2, <2>3 DEF Smaller
<1>3. s \in Seq(Nat) /\ Len(s) = n
  <2>1. DOMAIN s = 1..n /\ s = [i \in 1..n |-> s[i]]
    BY DEF Sliced
  <2>2. s \in [1..n -> Nat]
    BY <1>2, <2>1
  <2> QED BY <1>1, <2>2
<1>4. Summed(s, n, Sums(s))
  BY <1>3, SumsAre
<1> DEFINE Off == {i \in 0..n : Sums(s)[i] # Smaller(size, i * c)}
<1>5. Off = {}
  <2> SUFFICES ASSUME Off # {} PROVE FALSE
    OBVIOUS
  <2>1. Off \subseteq Nat
    BY <1>1
  <2>2. PICK i \in Off : \A m \in Off : i <= m
    BY <2>1, Least
  <2>3. i \in 0..n /\ Sums(s)[i] # Smaller(size, i * c)
    BY <2>2
  <2>4. i # 0
    <3>1. Sums(s)[0] = 0 /\ Smaller(size, 0 * c) = 0
      BY <1>4 DEF Summed, Smaller
    <3> QED BY <2>3, <3>1
  <2>5. i \in 1..n /\ i - 1 \in 0..n /\ ~(i <= i - 1)
    BY <1>1, <2>3, <2>4
  <2>6. Sums(s)[i - 1] = Smaller(size, (i - 1) * c)
    BY <2>2, <2>5
  <2>7. Sums(s)[i] = Sums(s)[i - 1] + s[i]
    BY <1>4, <2>5 DEF Summed
  <2>8. /\ s[i] = Smaller(size, i * c) - (i - 1) * c
        /\ Smaller(size, i * c) \in Nat /\ (i - 1) * c \in Nat
        /\ Smaller(size, (i - 1) * c) = (i - 1) * c
    BY <1>2, <2>5
  <2> HIDE DEF Off
  <2> QED BY <2>3, <2>6, <2>7, <2>8
<1>6. Sums(s)[n] = Smaller(size, n * c)
  <2>1. n \in 0..n /\ n \notin Off
    BY <1>1, <1>5
  <2> QED BY <2>1
<1>7. Total(s) = size
  BY <1>1, <1>3, <1>6 DEF Total, Smaller
<1> QED BY <1>1, <1>3, <1>7

LEMMA SlicesWhole ==
    ASSUME NEW size \in Nat, NEW rate \in Nat
    PROVE  /\ transferSlices(size, rate) \in Seq(Nat) /\ transferSlices(size, rate) # <<>>
           /\ Total(transferSlices(size, rate)) = size
<1>1. CASE rate = 0 \/ size = 0
  <2>1. transferSlices(size, rate) = <<size>>
    BY <1>1 DEF transferSlices
  <2>2. <<size>> \in Seq(Nat) /\ <<size>> # <<>>
    OBVIOUS
  <2> QED BY <2>1, <2>2, TotalOfOne
<1>2. CASE ~(rate = 0 \/ size = 0)
  <2>1. rate * SliceInterval \in Nat /\ Second \in Nat \ {0}
    BY TransferAssumption
  <2>2. (rate * SliceInterval) \div Second \in Nat
    BY <2>1, Division
  <2>3. PICK c : c = Larger(1, (rate * SliceInterval) \div Second)
    OBVIOUS
  <2>4. c \in Nat \ {0}
    BY <2>2, <2>3 DEF Larger
  <2>5. PICK n : n = (size + c - 1) \div c
    OBVIOUS
  <2>6. Sliced(transferSlices(size, rate), n, size, c)
    BY <1>2, <2>3, <2>5 DEF transferSlices, Sliced
  <2>7. Enough(n, size, c)
    BY <1>2, <2>4, <2>5, RoundedUp
  <2> HIDE <2>5, <2>3
  <2> QED BY <1>2, <2>4, <2>6, <2>7, SlicesAdd
<1> QED BY <1>1, <1>2

-----------------------------------------------------------------------------
\* BodyTransfer: what holds along the way.

\* A loop has moved no more by now than its rate allows, its last millisecond included.
InPace(loaded, rate, started, now) == rate > 0 => loaded * Second < rate * (now - started + 1)
Coming(lane) == lane.loaded + Head(lane.slices)
Lanes ==
    [stage : {"none", "loop", "waiting", "writing", "due", "ended", "broken"}, chunks : Seq(Nat),
     slices : Seq(Nat), loaded : Nat, until : Nat, started : Nat]

\* go is the stage in which a slice whose time has come is.
Paced(lane, rate, go, now) ==
    /\ InPace(lane.loaded, rate, lane.started, now)
    /\ lane.stage \in {"waiting", go} => lane.slices # <<>>
    /\ lane.stage = "waiting" => InPace(Coming(lane), rate, lane.started, lane.until)
    /\ lane.stage = go => InPace(Coming(lane), rate, lane.started, now)

FlowTypeOK ==
    /\ plan \in Plans /\ readable.left \in Seq(Nat) /\ reader \in BOOLEAN
    /\ readable = [left |-> readable.left, state |-> readable.state]
    /\ ms \in Nat /\ sends \in Nat

\* The body is within its limit: a stream's by what is about to be written, a buffer
\* by what it is.
UpLimited ==
    /\ plan.body # "none" => up.loaded <= plan.maxBody
    /\ plan.body = "stream" /\ up.stage \in {"waiting", "writing"} => Coming(up) <= plan.maxBody
    /\ plan.body = "buffer" /\ up.stage \in {"loop", "waiting", "writing", "ended"} =>
           Total(plan.chunks) <= plan.maxBody

DownLimited ==
    /\ ~plan.asStream => down.loaded <= plan.maxContent
    /\ ~plan.asStream /\ down.stage \in {"waiting", "due"} => Coming(down) <= plan.maxContent

\* Nothing of it is lost: of a buffer in any attempt, of a stream in the first.
NothingLost(lane, left, whole) ==
    /\ lane.stage \in {"loop", "waiting", "writing", "due"} =>
           lane.loaded + Total(lane.slices) + Total(left) = whole
    /\ lane.stage = "ended" => lane.loaded = whole

UpCounted ==
    /\ sends <= 1 => ~reader
    /\ sends = 0 => up.stage = "none" /\ readable.left = plan.chunks
    /\ plan.body = "buffer" => NothingLost(up, up.chunks, Total(plan.chunks))
    /\ plan.body = "stream" /\ sends = 1 => NothingLost(up, readable.left, Total(plan.chunks))

DownCounted ==
    ~(plan.asStream /\ plan.watched /\ plan.download = 0) => NothingLost(down, down.chunks, Total(plan.replies))

AnswerEnds == result = "response" /\ ~plan.asStream => down.stage = "ended"

UpHolds ==
    /\ up \in Lanes /\ up.started <= ms /\ up.stage # "due"
    /\ Paced(up, plan.upload, "writing", ms) /\ UpLimited /\ UpCounted
DownHolds ==
    /\ down \in Lanes /\ down.started <= ms /\ down.stage # "writing"
    /\ Paced(down, plan.download, "due", ms) /\ DownLimited /\ DownCounted

FlowInv == FlowTypeOK /\ UpHolds /\ DownHolds /\ AnswerEnds

-----------------------------------------------------------------------------
\* BodyTransfer: what a step does to a loop.

\* More time is more room; a loop that has moved nothing is in pace.
LEMMA LaterInPace ==
    ASSUME NEW loaded \in Nat, NEW rate \in Nat, NEW started \in Nat, NEW now \in Nat, NEW later \in Nat,
           now <= later, InPace(loaded, rate, started, now)
    PROVE  InPace(loaded, rate, started, later)
<1>1. now - started + 1 \in Int /\ later - started + 1 \in Int /\ now - started + 1 <= later - started + 1
  OBVIOUS
<1>2. rate * (now - started + 1) <= rate * (later - started + 1)
  BY <1>1, Stretched
<1>3. loaded * Second \in Nat /\ rate * (now - started + 1) \in Int /\ rate * (later - started + 1) \in Int
  BY <1>1, TransferAssumption
<1> QED BY <1>2, <1>3 DEF InPace

LEMMA NothingInPace ==
    ASSUME NEW rate \in Nat, NEW now \in Nat
    PROVE  InPace(0, rate, now, now)
<1>1. 0 * Second = 0 /\ now - now + 1 = 1
  BY TransferAssumption
<1>2. rate * 1 = rate
  OBVIOUS
<1> QED BY <1>1, <1>2 DEF InPace

\* The pause is long enough.
LEMMA LongEnough ==
    ASSUME NEW moved \in Nat, NEW rate \in Nat \ {0}, NEW time \in Nat, NEW d \in Nat,
           d = moved - rate * time
    PROVE  /\ d \div rate \in Nat
           /\ moved < rate * (time + (d \div rate) + 1)
<1>1. PICK q : q = d \div rate
  OBVIOUS
<1>2. q \in Nat /\ d < q * rate + rate
  BY <1>1, Division
<1>3. rate * (time + q + 1) = rate * (time + q) + rate
  BY <1>2, Distributed
<1>4. rate * (time + q) = rate * time + q * rate
  BY <1>2
<1>5. rate * time \in Nat /\ q * rate \in Nat
  BY <1>2
<1>6. moved < rate * (time + q + 1)
  BY <1>2, <1>3, <1>4, <1>5
<1> QED BY <1>1, <1>2, <1>6

LEMMA ThrottledInPace ==
    ASSUME NEW loaded \in Nat, NEW rate \in Nat, NEW started \in Nat, ms \in Nat, started <= ms
    PROVE  /\ throttleDelay(loaded, rate, started) \in Nat
           /\ InPace(loaded, rate, started, ms + throttleDelay(loaded, rate, started))
<1> DEFINE moved == loaded * Second
           time == ms - started
           pause == throttleDelay(loaded, rate, started)
<1>1. moved \in Nat /\ time \in Nat /\ rate * time \in Nat
  BY TransferAssumption
<1>2. CASE rate = 0
  BY <1>2 DEF throttleDelay, InPace
<1>3. CASE rate # 0 /\ moved <= rate * time
  <2>1. pause = 0
    BY <1>3 DEF throttleDelay
  <2>2. rate * (time + 1) = rate * time + rate
    BY <1>1, Distributed
  <2>3. moved < rate * (time + 1)
    BY <1>1, <1>3, <2>2
  <2> QED BY <2>1, <2>3 DEF InPace
<1>4. CASE rate # 0 /\ ~(moved <= rate * time)
  <2>1. PICK d : d = moved - rate * time
    OBVIOUS
  <2>2. d \in Nat
    BY <1>1, <1>4, <2>1
  <2>3. pause = Larger(1, d \div rate)
    BY <1>4, <2>1 DEF throttleDelay
  <2>4. d \div rate \in Nat /\ moved < rate * (time + (d \div rate) + 1)
    BY <1>1, <1>4, <2>1, <2>2, LongEnough
  <2>5. PICK q : q = d \div rate
    OBVIOUS
  <2>6. q \in Nat /\ pause \in Nat /\ q <= pause
    BY <2>3, <2>4, <2>5 DEF Larger
  <2>7. time + q + 1 \in Int /\ ms + pause - started + 1 \in Int /\ time + q + 1 <= ms + pause - started + 1
    BY <2>6, <1>1
  <2>8. rate * (time + q + 1) <= rate * (ms + pause - started + 1)
    BY <2>7, Stretched
  <2>9. moved < rate * (ms + pause - started + 1)
    <3>1. rate * (time + q + 1) \in Int /\ rate * (ms + pause - started + 1) \in Int
      BY <2>7
    <3> HIDE DEF moved, time, pause
    <3> QED BY <1>1, <2>4, <2>5, <2>8, <3>1
  <2> QED BY <2>6, <2>9 DEF InPace
<1> QED BY <1>2, <1>3, <1>4

\* A new loop.
LEMMA NewLane ==
    ASSUME ms \in Nat, NEW stage \in {"none", "loop", "ended", "broken"}, NEW chunks \in Seq(Nat)
    PROVE  /\ Lane(stage, chunks) \in Lanes
           /\ \A rate \in Nat, go \in {"writing", "due"} : Paced(Lane(stage, chunks), rate, go, ms)
<1>1. <<>> \in Seq(Nat)
  OBVIOUS
<1> QED BY <1>1, NothingInPace DEF Lane, Lanes, Paced

\* Time passes.
LEMMA LanePassed ==
    ASSUME NEW lane \in Lanes, NEW rate \in Nat, NEW go, NEW now \in Nat, Paced(lane, rate, go, now),
           lane.started <= now
    PROVE  Paced(lane, rate, go, now + 1)
<1>1. lane.loaded \in Nat /\ lane.started \in Nat /\ now + 1 \in Nat /\ now <= now + 1
  BY DEF Lanes
<1>2. lane.slices # <<>> => Coming(lane) \in Nat
  BY DEF Lanes, Coming
<1> QED BY <1>1, <1>2, LaterInPace DEF Paced

\* It ends or breaks, or takes the slices of a chunk.
LEMMA LaneSet ==
    ASSUME NEW lane \in Lanes, NEW rate, NEW go, NEW now, Paced(lane, rate, go, now),
           NEW stage \in {"loop", "ended", "broken"}, go \in {"writing", "due"}
    PROVE  [lane EXCEPT !.stage = stage] \in Lanes /\ Paced([lane EXCEPT !.stage = stage], rate, go, now)
BY DEF Lanes, Paced

LEMMA LaneFilled ==
    ASSUME NEW lane \in Lanes, NEW rate, NEW go, NEW now, Paced(lane, rate, go, now),
           lane.stage = "loop", go \in {"writing", "due"}, NEW slices \in Seq(Nat), NEW chunks \in Seq(Nat)
    PROVE  LET new == [lane EXCEPT !.slices = slices, !.chunks = chunks]
           IN  new \in Lanes /\ Paced(new, rate, go, now)
BY DEF Lanes, Paced

\* A slice is at hand.
LEMMA ComingIsNat ==
    ASSUME NEW lane \in Lanes, lane.slices # <<>>
    PROVE  Coming(lane) \in Nat /\ Coming(lane) = lane.loaded + Head(lane.slices)
BY DEF Lanes, Coming

LEMMA LanePaused ==
    ASSUME ms \in Nat, NEW lane \in Lanes, NEW rate \in Nat, NEW go \in {"writing", "due"},
           Paced(lane, rate, go, ms), lane.started <= ms, lane.stage = "loop", lane.slices # <<>>
    PROVE  LET new == Paused(lane, Coming(lane), rate, go)
           IN  /\ new \in Lanes /\ Paced(new, rate, go, ms)
               /\ new.stage \in {"waiting", go} /\ new.loaded = lane.loaded /\ new.slices = lane.slices
               /\ new.chunks = lane.chunks /\ new.started = lane.started
<1> DEFINE pause == throttleDelay(Coming(lane), rate, lane.started)
           stage == IF pause = 0 THEN go ELSE "waiting"
<1>1. PICK new : new = [lane EXCEPT !.stage = stage, !.until = ms + pause]
  OBVIOUS
<1>2. new = Paused(lane, Coming(lane), rate, go)
  BY <1>1 DEF Paused
<1>3. lane.started \in Nat /\ Coming(lane) \in Nat
  BY ComingIsNat DEF Lanes
<1>4. pause \in Nat /\ InPace(Coming(lane), rate, lane.started, ms + pause)
  BY <1>3, ThrottledInPace
<1> HIDE DEF pause
<1>5. /\ new.stage = stage /\ new.until = ms + pause /\ new.loaded = lane.loaded
      /\ new.slices = lane.slices /\ new.chunks = lane.chunks /\ new.started = lane.started
      /\ new \in Lanes
  <2>1. stage \in {"none", "loop", "waiting", "writing", "due", "ended", "broken"} /\ ms + pause \in Nat
    BY <1>4
  <2>2. new = [stage |-> stage, chunks |-> lane.chunks, slices |-> lane.slices, loaded |-> lane.loaded,
               until |-> ms + pause, started |-> lane.started]
    BY <1>1 DEF Lanes
  <2> HIDE DEF stage
  <2> QED BY <2>1, <2>2 DEF Lanes
<1>6. Coming(new) = Coming(lane)
  BY <1>5 DEF Coming
<1>7. pause = 0 => ms + pause = ms
  OBVIOUS
<1>8. Paced(new, rate, go, ms)
  BY <1>4, <1>5, <1>6, <1>7 DEF Paced
<1> QED BY <1>2, <1>5, <1>8

\* The time of a slice has come.
LEMMA LaneDue ==
    ASSUME NEW lane \in Lanes, NEW rate \in Nat, NEW go \in {"writing", "due"}, NEW now \in Nat,
           Paced(lane, rate, go, now), lane.stage = "waiting", now >= lane.until
    PROVE  lane.slices # <<>> /\ InPace(Coming(lane), rate, lane.started, now)
<1>1. lane.slices # <<>> /\ lane.started \in Nat /\ lane.until \in Nat
  BY DEF Lanes, Paced
<1>2. Coming(lane) \in Nat
  BY <1>1, ComingIsNat
<1> QED BY <1>1, <1>2, LaterInPace DEF Paced

\* The slice at hand has been moved.
Advanced(lane) == [lane EXCEPT !.stage = "loop", !.slices = Tail(@), !.loaded = @ + Head(lane.slices)]

LEMMA LaneMoved ==
    ASSUME NEW lane \in Lanes, NEW rate, NEW go, NEW now, go \in {"writing", "due"},
           lane.slices # <<>>, InPace(Coming(lane), rate, lane.started, now),
           NEW new, new = Advanced(lane)
    PROVE  /\ new \in Lanes /\ Paced(new, rate, go, now) /\ new.stage = "loop"
           /\ new.loaded = Coming(lane) /\ new.chunks = lane.chunks /\ new.started = lane.started
           /\ new.loaded + Total(new.slices) = lane.loaded + Total(lane.slices)
           /\ lane.loaded + Total(lane.slices) \in Nat /\ Coming(lane) <= lane.loaded + Total(lane.slices)
<1>1. new = [lane EXCEPT !.stage = "loop", !.slices = Tail(@), !.loaded = @ + Head(lane.slices)]
  BY DEF Advanced
<1>2. lane.slices \in Seq(Nat) /\ lane.loaded \in Nat
  BY DEF Lanes
<1>3. /\ Head(lane.slices) \in Nat /\ Tail(lane.slices) \in Seq(Nat) /\ Total(Tail(lane.slices)) \in Nat
      /\ Total(lane.slices) = Head(lane.slices) + Total(Tail(lane.slices))
  BY <1>2, TotalOfTail
<1>4. /\ new.stage = "loop" /\ new.slices = Tail(lane.slices) /\ new.loaded = Coming(lane)
      /\ new.chunks = lane.chunks /\ new.started = lane.started /\ new \in Lanes
  <2>1. new = [stage |-> "loop", chunks |-> lane.chunks, slices |-> Tail(lane.slices), loaded |-> Coming(lane),
               until |-> lane.until, started |-> lane.started]
    BY <1>1 DEF Lanes, Coming
  <2>2. Coming(lane) \in Nat
    BY ComingIsNat
  <2> QED BY <1>3, <2>1, <2>2 DEF Lanes
<1>5. Paced(new, rate, go, now)
  BY <1>4 DEF Paced
<1>6. /\ new.loaded + Total(new.slices) = lane.loaded + Total(lane.slices)
      /\ lane.loaded + Total(lane.slices) \in Nat /\ Coming(lane) <= lane.loaded + Total(lane.slices)
  BY <1>2, <1>3, <1>4 DEF Coming
<1> QED BY <1>1, <1>4, <1>5, <1>6

-----------------------------------------------------------------------------
\* BodyTransfer: every step.

LEMMA PlanTypes ==
    ASSUME plan \in Plans
    PROVE  /\ plan.upload \in Nat /\ plan.download \in Nat /\ plan.maxBody \in Nat /\ plan.maxContent \in Nat
           /\ plan.chunks \in Seq(Nat) /\ plan.replies \in Seq(Nat) /\ plan.body \in {"none", "buffer", "stream"}
           /\ plan.asStream \in BOOLEAN /\ Total(plan.chunks) \in Nat /\ Total(plan.replies) \in Nat
<1>1. /\ plan.upload \in Nat /\ plan.download \in Nat /\ plan.maxBody \in Nat /\ plan.maxContent \in Nat
      /\ plan.chunks \in Seq(Nat) /\ plan.replies \in Seq(Nat) /\ plan.body \in {"none", "buffer", "stream"}
      /\ plan.asStream \in BOOLEAN
  BY TransferAssumption
<1> QED BY <1>1, TotalIsNat

LEMMA FlowTyped ==
    ASSUME FlowTypeOK, UpHolds, [TransferNext]_transferVars
    PROVE  FlowTypeOK'
<1> USE DEF FlowTypeOK
<1>1. CASE Send
  BY <1>1 DEF Send
<1>2. CASE NextChunk
  <2>1. Breaks => FlowTypeOK'
    BY <1>2 DEF NextChunk, Breaks
  <2>2. readable.left # <<>> => Tail(readable.left) \in Seq(Nat)
    OBVIOUS
  <2> QED BY <1>2, <2>1, <2>2 DEF NextChunk
<1>3. CASE NextSlice \/ Written
  BY <1>3 DEF NextSlice, Written, Breaks
<1>4. CASE OldReaderBreaks
  <2>1. PICK left \in {readable.left, IF readable.left = <<>> THEN <<>> ELSE Tail(readable.left)} :
           readable' = [left |-> left, state |-> IF readable.state = "ended" THEN "ended" ELSE "destroyed"]
    BY <1>4 DEF OldReaderBreaks
  <2>2. left \in Seq(Nat)
    <3>1. readable.left # <<>> => Tail(readable.left) \in Seq(Nat)
      OBVIOUS
    <3> QED BY <3>1
  <2>3. PICK state : readable' = [left |-> left, state |-> state]
    BY <2>1
  <2>4. readable'.left = left /\ readable' = [left |-> readable'.left, state |-> readable'.state]
    BY <2>3
  <2> QED BY <1>4, <2>2, <2>4 DEF OldReaderBreaks
<1>5. CASE Passes
  BY <1>5 DEF Passes
<1>6. CASE SliceDue \/ AnswerBegins \/ BreaksOff \/ Arrives \/ Discarded \/ NextPart \/ PartKept \/ Cut
           \/ UNCHANGED transferVars
  BY <1>6 DEF SliceDue, AnswerBegins, BreaksOff, Arrives, Discarded, NextPart, PartKept, Cut, transferVars
<1> QED BY <1>1, <1>2, <1>3, <1>4, <1>5, <1>6 DEF TransferNext

\* A loop that breaks.
LEMMA UpBroken ==
    ASSUME FlowTypeOK, UpHolds, Breaks, UNCHANGED <<plan, reader, sends, ms>>, up.stage # "none"
    PROVE  UpHolds'
<1>1. up' = [up EXCEPT !.stage = "broken"]
  BY DEF Breaks
<1>2. up' \in Lanes /\ Paced(up', plan.upload, "writing", ms)
  BY <1>1, LaneSet DEF UpHolds
<1>3. up'.stage = "broken" /\ up'.loaded = up.loaded /\ up'.started = up.started
  BY <1>1 DEF UpHolds, Lanes
<1>4. UpLimited'
  BY <1>3 DEF UpHolds, UpLimited
<1>5. UpCounted'
  BY <1>3 DEF UpHolds, UpCounted, NothingLost
<1> QED BY <1>2, <1>3, <1>4, <1>5 DEF UpHolds

LEMMA UpBegins ==
    ASSUME FlowTypeOK, UpHolds, Send
    PROVE  UpHolds'
<1>1. PICK stage \in {"loop", "ended", "broken"} :
          /\ stage = IF TooLarge(plan) THEN "broken" ELSE IF plan.body = "none" THEN "ended" ELSE "loop"
          /\ TRUE
  OBVIOUS
<1>2. PICK chunks : chunks = IF TooLarge(plan) THEN <<>> ELSE Source(plan)
  OBVIOUS
<1>3. chunks \in Seq(Nat) /\ (plan.body = "buffer" /\ ~TooLarge(plan) => Total(chunks) = Total(plan.chunks))
  <2>1. <<>> \in Seq(Nat) /\ <<Total(plan.chunks)>> \in Seq(Nat)
    BY PlanTypes DEF FlowTypeOK
  <2> QED BY <1>2, <2>1, PlanTypes, TotalOfOne DEF Source, FlowTypeOK
<1>4. up' = Lane(stage, chunks) /\ sends' = sends + 1 /\ UNCHANGED <<plan, readable, ms>>
  BY <1>1, <1>2 DEF Send
<1>5. up' \in Lanes /\ Paced(up', plan.upload, "writing", ms)
  BY <1>3, <1>4, NewLane, PlanTypes DEF FlowTypeOK
<1>6. /\ up'.stage = stage /\ up'.loaded = 0 /\ up'.slices = <<>> /\ up'.chunks = chunks /\ up'.started = ms
  BY <1>4 DEF Lane
<1>7. UpLimited'
  BY <1>1, <1>4, <1>6, PlanTypes DEF UpLimited, TooLarge, FlowTypeOK
<1>8. UpCounted'
  <2>1. sends' <= 1 => sends = 0
    BY <1>4 DEF FlowTypeOK
  <2>2. sends' <= 1 => ~reader' /\ readable'.left = plan.chunks
    BY <1>4, <2>1 DEF UpHolds, UpCounted, FlowTypeOK, Send
  <2>3. plan.body = "buffer" => NothingLost(up', up'.chunks, Total(plan.chunks))
    BY <1>1, <1>3, <1>6, TotalOfNone, PlanTypes DEF NothingLost, FlowTypeOK
  <2>4. plan.body = "stream" /\ sends' = 1 => NothingLost(up', readable'.left, Total(plan.chunks))
    BY <1>1, <1>6, <2>2, TotalOfNone, PlanTypes DEF NothingLost, FlowTypeOK
  <2>5. sends' # 0
    BY <1>4 DEF FlowTypeOK
  <2> QED BY <1>4, <2>2, <2>3, <2>4, <2>5 DEF UpCounted
<1>9. ms <= ms
  BY DEF FlowTypeOK
<1> QED BY <1>1, <1>4, <1>5, <1>6, <1>7, <1>8, <1>9 DEF UpHolds

\* The next chunk of the body, or its end.
LEMMA UpFilled ==
    ASSUME FlowTypeOK, UpHolds, NextChunk
    PROVE  UpHolds'
<1>1. /\ up \in Lanes /\ up.stage = "loop" /\ up.slices = <<>> /\ up.loaded \in Nat /\ up.chunks \in Seq(Nat)
      /\ UNCHANGED <<plan, reader, sends, ms>>
  BY DEF NextChunk, UpHolds, Lanes
<1>2. CASE Breaks
  BY <1>1, <1>2, UpBroken
<1>3. CASE ~(plan.body = "stream" /\ readable.state = "destroyed")
  <2>1. PICK chunks : chunks = IF plan.body = "stream" THEN readable.left ELSE up.chunks
    OBVIOUS
  <2>2. chunks \in Seq(Nat)
    BY <1>1, <2>1 DEF FlowTypeOK
  <2>3. CASE chunks = <<>>
    <3>1. /\ up' = [up EXCEPT !.stage = "ended"] /\ UNCHANGED <<readable.left>>
      BY <1>3, <2>1, <2>3 DEF NextChunk, FlowTypeOK
    <3>2. up' \in Lanes /\ Paced(up', plan.upload, "writing", ms)
      BY <3>1, LaneSet DEF UpHolds
    <3>3. up'.stage = "ended" /\ up'.loaded = up.loaded /\ up'.started = up.started
      BY <1>1, <3>1 DEF Lanes
    <3>4. UpLimited'
      BY <1>1, <3>3 DEF UpHolds, UpLimited
    <3>5. UpCounted'
      <4>1. plan.body = "buffer" => up.loaded = Total(plan.chunks)
        BY <1>1, <2>1, <2>3, TotalOfNone DEF UpHolds, UpCounted, NothingLost
      <4>2. plan.body = "stream" /\ sends = 1 => up.loaded = Total(plan.chunks)
        BY <1>1, <2>1, <2>3, TotalOfNone DEF UpHolds, UpCounted, NothingLost
      <4> QED BY <1>1, <3>1, <3>3, <4>1, <4>2 DEF UpHolds, UpCounted, NothingLost
    <3> QED BY <1>1, <3>2, <3>3, <3>4, <3>5 DEF UpHolds
  <2>4. CASE chunks # <<>>
    <3>1. PICK slices : slices = transferSlices(Head(chunks), plan.upload)
      OBVIOUS
    <3>2. /\ Head(chunks) \in Nat /\ Tail(chunks) \in Seq(Nat) /\ Total(Tail(chunks)) \in Nat
          /\ Total(chunks) = Head(chunks) + Total(Tail(chunks))
      BY <2>2, <2>4, TotalOfTail
    <3>3. slices \in Seq(Nat) /\ slices # <<>> /\ Total(slices) = Head(chunks)
      BY <3>1, <3>2, SlicesWhole, PlanTypes DEF FlowTypeOK
    <3>4. /\ up' = [up EXCEPT !.slices = slices, !.chunks = Tail(chunks)]
          /\ plan.body = "stream" => readable'.left = Tail(chunks)
          /\ plan.body # "stream" => readable' = readable
      BY <1>3, <2>1, <2>4, <3>1 DEF NextChunk, FlowTypeOK
    <3>5. up' \in Lanes /\ Paced(up', plan.upload, "writing", ms)
      BY <1>1, <3>2, <3>3, <3>4, LaneFilled DEF UpHolds
    <3>6. /\ up'.stage = "loop" /\ up'.loaded = up.loaded /\ up'.started = up.started /\ up'.slices = slices
          /\ up'.chunks = Tail(chunks)
      BY <1>1, <3>4 DEF Lanes
    <3>7. UpLimited'
      BY <1>1, <3>6 DEF UpHolds, UpLimited
    <3>8. up.loaded + Total(slices) + Total(Tail(chunks)) = up.loaded + Total(<<>>) + Total(chunks)
      <4>1. Total(<<>>) = 0 /\ up.loaded \in Nat /\ Head(chunks) \in Nat /\ Total(Tail(chunks)) \in Nat
        BY <1>1, <3>2, TotalOfNone
      <4>2. up.loaded + Total(slices) + Total(Tail(chunks)) = up.loaded + Head(chunks) + Total(Tail(chunks))
        BY <3>3
      <4>3. up.loaded + Total(<<>>) + Total(chunks) = up.loaded + 0 + (Head(chunks) + Total(Tail(chunks)))
        BY <3>2, <4>1
      <4> QED BY <4>1, <4>2, <4>3
    <3>9. UpCounted'
      <4>1. plan.body = "buffer" => NothingLost(up', up'.chunks, Total(plan.chunks))
        BY <1>1, <2>1, <3>6, <3>8 DEF UpHolds, UpCounted, NothingLost
      <4>2. plan.body = "stream" /\ sends = 1 => NothingLost(up', readable'.left, Total(plan.chunks))
        BY <1>1, <2>1, <3>4, <3>6, <3>8 DEF UpHolds, UpCounted, NothingLost
      <4> QED BY <1>1, <3>4, <4>1, <4>2 DEF UpHolds, UpCounted
    <3> QED BY <1>1, <3>5, <3>6, <3>7, <3>9 DEF UpHolds
  <2> QED BY <2>3, <2>4
<1> QED BY <1>2, <1>3 DEF NextChunk

\* A slice is refused, or waits for its time or for its write.
LEMMA UpPaused ==
    ASSUME FlowTypeOK, UpHolds, NextSlice
    PROVE  UpHolds'
<1>1. /\ up \in Lanes /\ up.stage = "loop" /\ up.slices # <<>> /\ UNCHANGED <<plan, reader, sends, ms>>
      /\ ms \in Nat /\ up.started <= ms /\ plan.upload \in Nat /\ Paced(up, plan.upload, "writing", ms)
  BY PlanTypes DEF NextSlice, UpHolds, FlowTypeOK
<1>2. CASE Breaks
  BY <1>1, <1>2, UpBroken
<1>3. CASE ~(plan.body = "stream" /\ Coming(up) > plan.maxBody)
  <2>1. PICK new : new = Paused(up, Coming(up), plan.upload, "writing")
    OBVIOUS
  <2>2. up' = new /\ UNCHANGED readable
    BY <1>3, <2>1 DEF NextSlice, Coming
  <2>3. /\ new \in Lanes /\ Paced(new, plan.upload, "writing", ms)
        /\ new.stage \in {"waiting", "writing"} /\ new.loaded = up.loaded /\ new.slices = up.slices
        /\ new.chunks = up.chunks /\ new.started = up.started
    BY <1>1, <2>1, LanePaused
  <2>4. Coming(new) = Coming(up) /\ Coming(up) \in Nat
    BY <1>1, <2>3, ComingIsNat DEF Coming
  <2>5. UpLimited'
    BY <1>1, <1>3, <2>2, <2>3, <2>4, PlanTypes DEF UpHolds, UpLimited, FlowTypeOK
  <2>6. UpCounted'
    BY <1>1, <2>2, <2>3 DEF UpHolds, UpCounted, NothingLost
  <2> QED BY <1>1, <2>2, <2>3, <2>5, <2>6 DEF UpHolds
<1> QED BY <1>2, <1>3 DEF NextSlice, Coming

LEMMA UpDue ==
    ASSUME FlowTypeOK, UpHolds, SliceDue
    PROVE  UpHolds'
<1>1. /\ up \in Lanes /\ up.stage = "waiting" /\ ms >= up.until /\ UNCHANGED <<plan, readable, reader, sends, ms>>
      /\ ms \in Nat /\ plan.upload \in Nat /\ Paced(up, plan.upload, "writing", ms)
      /\ up' = [up EXCEPT !.stage = "writing"]
  BY PlanTypes DEF SliceDue, UpHolds, FlowTypeOK
<1>2. up.slices # <<>> /\ InPace(Coming(up), plan.upload, up.started, ms)
  BY <1>1, LaneDue
<1>3. /\ up' \in Lanes /\ up'.stage = "writing" /\ up'.loaded = up.loaded /\ up'.slices = up.slices
      /\ up'.chunks = up.chunks /\ up'.started = up.started
  BY <1>1 DEF Lanes
<1>4. Coming(up') = Coming(up)
  BY <1>3 DEF Coming
<1>5. Paced(up', plan.upload, "writing", ms)
  BY <1>1, <1>2, <1>3, <1>4 DEF Paced
<1>6. UpLimited'
  BY <1>1, <1>3, <1>4 DEF UpHolds, UpLimited
<1>7. UpCounted'
  BY <1>1, <1>3 DEF UpHolds, UpCounted, NothingLost
<1> QED BY <1>1, <1>3, <1>5, <1>6, <1>7 DEF UpHolds

LEMMA UpWritten ==
    ASSUME FlowTypeOK, UpHolds, Written
    PROVE  UpHolds'
<1>1. /\ up \in Lanes /\ up.stage = "writing" /\ UNCHANGED <<plan, reader, sends, ms>>
      /\ up.slices # <<>> /\ InPace(Coming(up), plan.upload, up.started, ms)
  BY DEF Written, UpHolds, Paced
<1>2. CASE Breaks
  BY <1>1, <1>2, UpBroken
<1>3. CASE /\ up' = [up EXCEPT !.stage = "loop", !.slices = Tail(@), !.loaded = @ + Head(up.slices)]
           /\ UNCHANGED readable
  <2>1. /\ up' \in Lanes /\ Paced(up', plan.upload, "writing", ms) /\ up'.stage = "loop"
        /\ up'.loaded = Coming(up) /\ up'.chunks = up.chunks /\ up'.started = up.started
        /\ up'.loaded + Total(up'.slices) = up.loaded + Total(up.slices)
        /\ up.loaded + Total(up.slices) \in Nat /\ Coming(up) <= up.loaded + Total(up.slices)
    <3>1. PICK new : new = Advanced(up)
      OBVIOUS
    <3>2. /\ new \in Lanes /\ Paced(new, plan.upload, "writing", ms) /\ new.stage = "loop"
          /\ new.loaded = Coming(up) /\ new.chunks = up.chunks /\ new.started = up.started
          /\ new.loaded + Total(new.slices) = up.loaded + Total(up.slices)
          /\ up.loaded + Total(up.slices) \in Nat /\ Coming(up) <= up.loaded + Total(up.slices)
      BY <1>1, <3>1, LaneMoved
    <3> QED BY <1>3, <3>1, <3>2 DEF Advanced
  <2>2. UpCounted'
    BY <1>1, <1>3, <2>1 DEF UpHolds, UpCounted, NothingLost
  <2>3. UpLimited'
    <3>1. plan.body = "stream" => Coming(up) <= plan.maxBody
      BY <1>1 DEF UpHolds, UpLimited
    <3>2. plan.body = "buffer" => Coming(up) <= plan.maxBody
      <4>1. plan.body = "buffer" => up.loaded + Total(up.slices) + Total(up.chunks) <= plan.maxBody
        BY <1>1 DEF UpHolds, UpLimited, UpCounted, NothingLost
      <4>2. Total(up.chunks) \in Nat /\ Coming(up) \in Nat
        BY <1>1, TotalIsNat, ComingIsNat DEF Lanes
      <4> QED BY <2>1, <4>1, <4>2, PlanTypes DEF FlowTypeOK
    <3> QED BY <1>1, <2>1, <3>1, <3>2, PlanTypes DEF UpHolds, UpLimited, FlowTypeOK
  <2> QED BY <1>1, <2>1, <2>2, <2>3 DEF UpHolds
<1> QED BY <1>2, <1>3 DEF Written

LEMMA UpKept ==
    ASSUME FlowTypeOK, UpHolds, [TransferNext]_transferVars
    PROVE  UpHolds'
<1>1. CASE OldReaderBreaks
  <2>1. UNCHANGED <<plan, up, sends, ms>> /\ sends # 0 /\ sends # 1 /\ ~reader'
    BY <1>1 DEF OldReaderBreaks, UpHolds, UpCounted
  <2>2. UpLimited' /\ UpCounted'
    BY <2>1 DEF UpHolds, UpLimited, UpCounted
  <2> QED BY <2>1, <2>2 DEF UpHolds
<1>2. CASE Passes
  <2>1. ms' = ms + 1 /\ UNCHANGED <<plan, readable, reader, up, sends>>
    BY <1>2 DEF Passes
  <2>2. Paced(up', plan.upload, "writing", ms')
    BY <2>1, LanePassed, PlanTypes DEF UpHolds, FlowTypeOK
  <2>3. up.started <= ms + 1
    BY DEF UpHolds, FlowTypeOK, Lanes
  <2>4. UpLimited' /\ UpCounted'
    BY <2>1 DEF UpHolds, UpLimited, UpCounted
  <2> QED BY <2>1, <2>2, <2>3, <2>4 DEF UpHolds
<1>3. CASE AnswerBegins \/ BreaksOff \/ Arrives \/ Discarded \/ NextPart \/ PartKept \/ Cut
           \/ UNCHANGED transferVars
  <2>1. UNCHANGED <<plan, readable, reader, up, sends, ms>>
    BY <1>3 DEF AnswerBegins, BreaksOff, Arrives, Discarded, NextPart, PartKept, Cut, transferVars
  <2> QED BY <2>1 DEF UpHolds, UpLimited, UpCounted
<1> QED BY <1>1, <1>2, <1>3, UpBegins, UpFilled, UpPaused, UpDue, UpWritten DEF TransferNext

\* The same for the answer.
LEMMA DownBegins ==
    ASSUME FlowTypeOK, NEW stage \in {"none", "loop"}, NEW chunks \in Seq(Nat),
           stage = "loop" => chunks = plan.replies,
           down' = Lane(stage, chunks), UNCHANGED <<plan, ms>>
    PROVE  DownHolds'
<1>1. down' \in Lanes /\ Paced(down', plan.download, "due", ms)
  BY NewLane, PlanTypes DEF FlowTypeOK
<1>2. /\ down'.stage = stage /\ down'.loaded = 0 /\ down'.slices = <<>> /\ down'.chunks = chunks
      /\ down'.started = ms
  BY DEF Lane
<1>3. DownLimited'
  BY <1>2, PlanTypes DEF DownLimited, FlowTypeOK
<1>4. NothingLost(down', down'.chunks, Total(plan.replies))
  BY <1>2, TotalOfNone, PlanTypes DEF NothingLost, FlowTypeOK
<1>5. ms <= ms
  BY DEF FlowTypeOK
<1> QED BY <1>1, <1>2, <1>3, <1>4, <1>5 DEF DownHolds, DownCounted

LEMMA DownStops ==
    ASSUME FlowTypeOK, DownHolds, down.stage = "loop", UNCHANGED <<plan, ms>>, NEW stage \in {"ended", "broken"},
           down' = [down EXCEPT !.stage = stage],
           stage = "ended" => down.slices = <<>> /\ down.chunks = <<>>
    PROVE  DownHolds'
<1>1. down' \in Lanes /\ Paced(down', plan.download, "due", ms)
  BY LaneSet DEF DownHolds
<1>2. down'.stage = stage /\ down'.loaded = down.loaded /\ down'.started = down.started /\ down.loaded \in Nat
  BY DEF DownHolds, Lanes
<1>3. DownLimited'
  BY <1>2 DEF DownHolds, DownLimited
<1>4. DownCounted'
  BY <1>2, TotalOfNone DEF DownHolds, DownCounted, NothingLost
<1> QED BY <1>1, <1>2, <1>3, <1>4 DEF DownHolds

LEMMA DownFilled ==
    ASSUME FlowTypeOK, DownHolds, Arrives
    PROVE  DownHolds'
<1>1. /\ down \in Lanes /\ down.stage = "loop" /\ down.slices = <<>> /\ down.loaded \in Nat
      /\ down.chunks \in Seq(Nat) /\ UNCHANGED <<plan, ms>>
  BY DEF Arrives, DownHolds, Lanes
<1>2. CASE down.chunks = <<>>
  BY <1>1, <1>2, DownStops DEF Arrives
<1>3. CASE down.chunks # <<>>
  <2>1. PICK slices : slices = transferSlices(Head(down.chunks), plan.download)
    OBVIOUS
  <2>2. PICK rest : rest = Tail(down.chunks)
    OBVIOUS
  <2>3. /\ Head(down.chunks) \in Nat /\ rest \in Seq(Nat) /\ Total(rest) \in Nat
        /\ Total(down.chunks) = Head(down.chunks) + Total(rest)
    BY <1>1, <1>3, <2>2, TotalOfTail
  <2>4. slices \in Seq(Nat) /\ slices # <<>> /\ Total(slices) = Head(down.chunks)
    BY <2>1, <2>3, SlicesWhole, PlanTypes DEF FlowTypeOK
  <2>5. down' = [down EXCEPT !.slices = slices, !.chunks = rest]
    BY <1>3, <2>1, <2>2 DEF Arrives
  <2>6. down' \in Lanes /\ Paced(down', plan.download, "due", ms)
    BY <1>1, <2>3, <2>4, <2>5, LaneFilled DEF DownHolds
  <2>7. /\ down'.stage = "loop" /\ down'.loaded = down.loaded /\ down'.started = down.started
        /\ down'.slices = slices /\ down'.chunks = rest
    BY <1>1, <2>5 DEF Lanes
  <2>8. DownLimited'
    BY <1>1, <2>7 DEF DownHolds, DownLimited
  <2>9. down.loaded + Total(slices) + Total(rest) = down.loaded + Total(<<>>) + Total(down.chunks)
    <3>1. Total(<<>>) = 0
      BY TotalOfNone
    <3>2. down.loaded + Total(slices) + Total(rest) = down.loaded + Head(down.chunks) + Total(rest)
      BY <2>4
    <3>3. down.loaded + Total(<<>>) + Total(down.chunks) = down.loaded + 0 + (Head(down.chunks) + Total(rest))
      BY <2>3, <3>1
    <3> QED BY <1>1, <2>3, <3>2, <3>3
  <2>10. DownCounted'
    BY <1>1, <2>7, <2>9 DEF DownHolds, DownCounted, NothingLost
  <2> QED BY <1>1, <2>6, <2>7, <2>8, <2>10 DEF DownHolds
<1> QED BY <1>2, <1>3

LEMMA DownDiscarded ==
    ASSUME FlowTypeOK, DownHolds, Discarded
    PROVE  DownHolds'
<1>1. /\ down \in Lanes /\ down.stage = "loop" /\ down.slices \in Seq(Nat) /\ Tail(down.chunks) \in Seq(Nat)
      /\ UNCHANGED <<plan, ms>> /\ down' = [down EXCEPT !.chunks = Tail(down.chunks)]
  BY DEF Discarded, DownHolds, Lanes
<1>2. /\ down' \in Lanes /\ down'.stage = "loop" /\ down'.loaded = down.loaded /\ down'.started = down.started
      /\ down'.slices = down.slices
  BY <1>1 DEF Lanes
<1>3. Paced(down', plan.download, "due", ms)
  BY <1>1, <1>2 DEF DownHolds, Paced
<1>4. DownLimited' /\ DownCounted'
  BY <1>1, <1>2 DEF DownHolds, DownLimited, DownCounted, Discarded
<1> QED BY <1>1, <1>2, <1>3, <1>4 DEF DownHolds

LEMMA DownPaused ==
    ASSUME FlowTypeOK, DownHolds, NextPart
    PROVE  DownHolds'
<1>1. /\ down \in Lanes /\ down.stage = "loop" /\ down.slices # <<>> /\ UNCHANGED <<plan, ms>>
      /\ ms \in Nat /\ down.started <= ms /\ plan.download \in Nat /\ Paced(down, plan.download, "due", ms)
  BY PlanTypes DEF NextPart, DownHolds, FlowTypeOK
<1>2. CASE ~plan.asStream /\ Coming(down) > plan.maxContent
  BY <1>1, <1>2, DownStops DEF NextPart, DownBreaks, Coming
<1>3. CASE ~(~plan.asStream /\ Coming(down) > plan.maxContent)
  <2>1. PICK new : new = Paused(down, Coming(down), plan.download, "due")
    OBVIOUS
  <2>2. down' = new
    BY <1>3, <2>1 DEF NextPart, Coming
  <2>3. /\ new \in Lanes /\ Paced(new, plan.download, "due", ms)
        /\ new.stage \in {"waiting", "due"} /\ new.loaded = down.loaded /\ new.slices = down.slices
        /\ new.chunks = down.chunks /\ new.started = down.started
    BY <1>1, <2>1, LanePaused
  <2>4. Coming(new) = Coming(down) /\ Coming(down) \in Nat
    BY <1>1, <2>3, ComingIsNat DEF Coming
  <2>5. DownLimited'
    BY <1>1, <1>3, <2>2, <2>3, <2>4, PlanTypes DEF DownHolds, DownLimited, FlowTypeOK
  <2>6. DownCounted'
    BY <1>1, <2>2, <2>3 DEF DownHolds, DownCounted, NothingLost
  <2> QED BY <1>1, <2>2, <2>3, <2>5, <2>6 DEF DownHolds
<1> QED BY <1>2, <1>3

LEMMA DownTaken ==
    ASSUME FlowTypeOK, DownHolds, PartKept
    PROVE  DownHolds'
<1>1. /\ down \in Lanes /\ UNCHANGED <<plan, ms>> /\ down.stage \in {"waiting", "due"}
      /\ ms \in Nat /\ plan.download \in Nat /\ Paced(down, plan.download, "due", ms)
      /\ down' = [down EXCEPT !.stage = "loop", !.slices = Tail(@), !.loaded = @ + Head(down.slices)]
  BY PlanTypes DEF PartKept, DownHolds, FlowTypeOK
<1>2. down.slices # <<>> /\ InPace(Coming(down), plan.download, down.started, ms)
  <2>1. CASE down.stage = "due"
    BY <1>1, <2>1 DEF Paced
  <2>2. CASE down.stage = "waiting"
    <3>1. ms >= down.until
      BY <2>2 DEF PartKept
    <3> QED BY <1>1, <2>2, <3>1, LaneDue
  <2> QED BY <1>1, <2>1, <2>2
<1>3. /\ down' \in Lanes /\ Paced(down', plan.download, "due", ms) /\ down'.stage = "loop"
      /\ down'.loaded = Coming(down) /\ down'.chunks = down.chunks /\ down'.started = down.started
      /\ down'.loaded + Total(down'.slices) = down.loaded + Total(down.slices)
  <2>1. PICK new : new = Advanced(down)
    OBVIOUS
  <2>2. /\ new \in Lanes /\ Paced(new, plan.download, "due", ms) /\ new.stage = "loop"
        /\ new.loaded = Coming(down) /\ new.chunks = down.chunks /\ new.started = down.started
        /\ new.loaded + Total(new.slices) = down.loaded + Total(down.slices)
    BY <1>1, <1>2, <2>1, LaneMoved
  <2> QED BY <1>1, <2>1, <2>2 DEF Advanced
<1>4. DownLimited'
  BY <1>1, <1>3 DEF DownHolds, DownLimited
<1>5. DownCounted'
  BY <1>1, <1>3 DEF DownHolds, DownCounted, NothingLost
<1> QED BY <1>1, <1>3, <1>4, <1>5 DEF DownHolds

LEMMA DownKept ==
    ASSUME FlowTypeOK, DownHolds, [TransferNext]_transferVars
    PROVE  DownHolds'
<1>1. <<>> \in Seq(Nat) /\ plan.replies \in Seq(Nat)
  BY PlanTypes DEF FlowTypeOK
<1>2. CASE Send
  BY <1>1, <1>2, DownBegins DEF Send
<1>3. CASE AnswerBegins
  BY <1>1, <1>3, DownBegins DEF AnswerBegins
<1>4. CASE BreaksOff
  BY <1>4, DownStops DEF BreaksOff, DownBreaks
<1>5. CASE Passes
  <2>1. ms' = ms + 1 /\ UNCHANGED <<plan, down>>
    BY <1>5 DEF Passes
  <2>2. Paced(down', plan.download, "due", ms')
    BY <2>1, LanePassed, PlanTypes DEF DownHolds, FlowTypeOK
  <2>3. down.started <= ms + 1
    BY DEF DownHolds, FlowTypeOK, Lanes
  <2>4. DownLimited' /\ DownCounted'
    BY <2>1 DEF DownHolds, DownLimited, DownCounted
  <2> QED BY <2>1, <2>2, <2>3, <2>4 DEF DownHolds
<1>6. CASE NextChunk \/ NextSlice \/ SliceDue \/ Written \/ OldReaderBreaks \/ Cut \/ UNCHANGED transferVars
  <2>1. UNCHANGED <<plan, down, ms>>
    BY <1>6 DEF NextChunk, NextSlice, SliceDue, Written, OldReaderBreaks, Cut, transferVars
  <2> QED BY <2>1 DEF DownHolds, DownLimited, DownCounted
<1> QED BY <1>2, <1>3, <1>4, <1>5, <1>6, DownFilled, DownDiscarded, DownPaused, DownTaken DEF TransferNext

\* Nobody is answered but at the end of what was collected.
LEMMA AnswerEndsKept ==
    ASSUME FlowTypeOK, DownHolds, AnswerEnds, [TransferNext]_transferVars
    PROVE  AnswerEnds'
<1> USE DEF AnswerEnds
<1>1. down.stage = "loop" => \A s \in {"loop", "ended", "broken"} : [down EXCEPT !.stage = s].stage = s
  BY DEF DownHolds, Lanes
<1>2. plan.asStream \in BOOLEAN
  BY PlanTypes DEF FlowTypeOK
<1>3. CASE Send
  BY <1>3 DEF Send
<1>4. CASE NextChunk \/ NextSlice \/ Written
  <2>1. UNCHANGED <<plan, down>> /\ (result' = "response" => result = "response")
    BY <1>4 DEF NextChunk, NextSlice, Written, Breaks
  <2> QED BY <2>1
<1>5. CASE SliceDue \/ OldReaderBreaks \/ Passes \/ UNCHANGED transferVars
  BY <1>5 DEF SliceDue, OldReaderBreaks, Passes, transferVars
<1>6. CASE Cut
  BY <1>6 DEF Cut
<1>7. CASE AnswerBegins
  BY <1>7 DEF AnswerBegins
<1>8. CASE BreaksOff \/ Discarded \/ NextPart
  <2>1. down.stage = "loop" /\ UNCHANGED plan /\ (result' = "response" => result = "response")
    BY <1>8 DEF BreaksOff, Discarded, NextPart, DownBreaks
  <2> QED BY <2>1
<1>9. CASE PartKept
  <2>1. down.stage # "ended" /\ UNCHANGED <<plan, result>>
    BY <1>9 DEF PartKept
  <2> QED BY <2>1
<1>10. CASE Arrives
  <2>1. down.stage = "loop" /\ UNCHANGED plan
    BY <1>10 DEF Arrives
  <2>2. CASE down.chunks = <<>>
    BY <1>1, <1>10, <2>1, <2>2 DEF Arrives
  <2>3. CASE down.chunks # <<>>
    BY <1>10, <2>1, <2>3 DEF Arrives
  <2> QED BY <2>2, <2>3
<1> QED BY <1>3, <1>4, <1>5, <1>6, <1>7, <1>8, <1>9, <1>10 DEF TransferNext

LEMMA FlowBegins == TransferInit => FlowInv
<1> SUFFICES ASSUME TransferInit PROVE FlowInv
  OBVIOUS
<1>1. plan \in Plans /\ ms = 0 /\ <<>> \in Seq(Nat)
  BY DEF TransferInit
<1>2. /\ readable.left = plan.chunks /\ readable.state = "fresh" /\ readable = [left |-> plan.chunks, state |-> "fresh"]
  BY DEF TransferInit
<1>3. FlowTypeOK
  <2>1. readable = [left |-> readable.left, state |-> readable.state]
    BY <1>2
  <2>2. reader \in BOOLEAN /\ sends \in Nat /\ ms \in Nat
    BY DEF TransferInit
  <2>3. readable.left \in Seq(Nat)
    BY <1>1, <1>2, PlanTypes
  <2> QED BY <1>1, <2>1, <2>2, <2>3 DEF FlowTypeOK
<1>4. /\ Lane("none", <<>>) \in Lanes
      /\ \A rate \in Nat, go \in {"writing", "due"} : Paced(Lane("none", <<>>), rate, go, ms)
  BY <1>1, NewLane
<1>5. up = Lane("none", <<>>) /\ down = Lane("none", <<>>)
  BY DEF TransferInit
<1>6. /\ up.stage = "none" /\ up.loaded = 0 /\ up.started = ms
      /\ down.stage = "none" /\ down.loaded = 0 /\ down.started = ms
  BY <1>5 DEF Lane
<1>7. UpHolds
  BY <1>1, <1>2, <1>4, <1>5, <1>6, PlanTypes DEF UpHolds, UpLimited, UpCounted, NothingLost, TransferInit
<1>8. DownHolds
  BY <1>1, <1>4, <1>5, <1>6, PlanTypes DEF DownHolds, DownLimited, DownCounted, NothingLost
<1> QED BY <1>3, <1>7, <1>8 DEF FlowInv, AnswerEnds, TransferInit

\* Whatever is sent and answered, however slowly or in whatever pieces: never faster than
\* the rates, never more than the limits, and what ended, or was answered in full, whole.
THEOREM BytesFlow == TransferSpec => []FlowsAsConfigured
<1>1. FlowInv /\ [TransferNext]_transferVars => FlowInv'
  BY FlowTyped, UpKept, DownKept, AnswerEndsKept DEF FlowInv
<1>2. FlowInv => FlowsAsConfigured
  BY PlanTypes DEF FlowInv, FlowTypeOK, UpHolds, DownHolds, AnswerEnds, UpLimited, DownLimited, UpCounted, DownCounted,
     NothingLost, Paced, InPace, FlowsAsConfigured
<1> QED BY <1>1, <1>2, FlowBegins, PTL DEF TransferSpec

-----------------------------------------------------------------------------
\* FairShares.

\* The last choices of a round: consecutive places of the pool, up to the one
\* before `end`, around its corner.
Place(pool, n) == 1 + (n % Len(pool))
Round(pool, urls, end) ==
    /\ pool \in Seq(Urls) /\ Len(pool) # 0 /\ urls \in Seq(Urls) /\ end \in Nat
    /\ Len(urls) <= Len(pool) /\ Len(urls) <= end
    /\ \A j \in 1..Len(urls) : urls[j] = pool[Place(pool, end - Len(urls) + j - 1)]

\* What a counter says is where the round ended, unless it has begun again.
RoundInv ==
    /\ balancing \in {"round-robin", "random", "sticky-origin"}
    /\ \A k \in DOMAIN counters : counters[k] \in 0..CounterLimit
    /\ \A k \in DOMAIN runs :
           /\ k \in DOMAIN counters
           /\ \E end \in Nat : (counters[k] = end \/ counters[k] = 0) /\ Round(runs[k].pool, runs[k].urls, end)

LEMMA PlaceIn ==
    ASSUME NEW pool \in Seq(Urls), Len(pool) # 0, NEW n \in Nat
    PROVE  Place(pool, n) \in 1..Len(pool)
<1>1. Len(pool) \in Nat \ {0}
  OBVIOUS
<1>2. n % Len(pool) \in 0..(Len(pool) - 1)
  BY <1>1
<1> QED BY <1>1, <1>2 DEF Place

\* The places of a round are different ones.
LEMMA PlacesDiffer ==
    ASSUME NEW pool, NEW urls, NEW end, Round(pool, urls, end)
    PROVE  LET f == [j \in 1..Len(urls) |-> Place(pool, end - Len(urls) + j - 1)]
           IN  f \in Injection(1..Len(urls), 1..Len(pool))
<1> DEFINE m == Len(urls)
           f == [j \in 1..m |-> Place(pool, end - m + j - 1)]
<1>1. m \in Nat /\ end \in Nat /\ m <= end /\ Len(pool) \in Nat \ {0} /\ m <= Len(pool) /\ pool \in Seq(Urls)
  BY DEF Round
<1>2. \A j \in 1..m : end - m + j - 1 \in Nat
  BY <1>1
<1>3. \A j \in 1..m : f[j] = Place(pool, end - m + j - 1) /\ f[j] \in 1..Len(pool)
  BY <1>1, <1>2, PlaceIn
<1>4. ASSUME NEW i \in 1..m, NEW j \in 1..m, i < j PROVE f[i] # f[j]
  <2>1. PICK a, b : a = end - m + i - 1 /\ b = end - m + j - 1
    OBVIOUS
  <2>2. a \in Nat /\ b \in Nat /\ a < b /\ b < a + Len(pool)
    BY <1>1, <1>4, <2>1
  <2>3. a % Len(pool) # b % Len(pool)
    BY <1>1, <2>2, Remainders
  <2>4. a % Len(pool) \in Nat /\ b % Len(pool) \in Nat
    BY <1>1, <2>2
  <2>5. f[i] = 1 + (a % Len(pool)) /\ f[j] = 1 + (b % Len(pool))
    BY <1>3, <2>1 DEF Place
  <2> QED BY <2>3, <2>4, <2>5
<1>5. \A i, j \in 1..m : i < j \/ i = j \/ j < i
  BY <1>1
<1> HIDE DEF f
<1>6. \A i, j \in 1..m : f[i] = f[j] => i = j
  BY <1>4, <1>5
<1>7. f \in [1..m -> 1..Len(pool)] /\ DOMAIN f = 1..m
  BY <1>3 DEF f
<1>8. f \in Injection(1..m, 1..Len(pool))
  BY <1>6, <1>7 DEF Injection, IsInjective
<1> QED BY <1>8 DEF f

\* Of a round, each url has no more than its places in the pool, and of a whole one
\* all of them.
LEMMA SharesOfRound ==
    ASSUME NEW pool, NEW urls, NEW end, Round(pool, urls, end), NEW url
    PROVE  /\ Times(urls, url) <= Times(pool, url)
           /\ Len(urls) = Len(pool) => Times(urls, url) = Times(pool, url)
<1> DEFINE m == Len(urls)
           Is == {j \in 1..m : urls[j] = url}
           Ps == {i \in 1..Len(pool) : pool[i] = url}
<1>1. PICK f : f = [j \in 1..m |-> Place(pool, end - m + j - 1)]
  OBVIOUS
<1>2. f \in Injection(1..m, 1..Len(pool))
  BY <1>1, PlacesDiffer
<1>3. m \in Nat /\ Len(pool) \in Nat /\ DOMAIN urls = 1..m /\ DOMAIN pool = 1..Len(pool)
  BY DEF Round
<1>4. \A j \in 1..m : urls[j] = pool[f[j]] /\ f[j] \in 1..Len(pool)
  BY <1>1, <1>2 DEF Round, Injection
<1>5. \A i, j \in 1..m : f[i] = f[j] => i = j
  BY <1>2 DEF Injection, IsInjective
<1>6. /\ IsFiniteSet(1..m) /\ IsFiniteSet(1..Len(pool))
      /\ Cardinality(1..m) = m /\ Cardinality(1..Len(pool)) = Len(pool)
  <2>1. m \in Int /\ Len(pool) \in Int /\ 1 \in Int
    BY <1>3
  <2>2. IsFiniteSet(1..m) /\ Cardinality(1..m) = IF 1 > m THEN 0 ELSE m - 1 + 1
    BY <2>1, FS_Interval
  <2>3. /\ IsFiniteSet(1..Len(pool))
        /\ Cardinality(1..Len(pool)) = IF 1 > Len(pool) THEN 0 ELSE Len(pool) - 1 + 1
    BY <2>1, FS_Interval
  <2> QED BY <1>3, <2>2, <2>3
<1>7. /\ Is \subseteq 1..m /\ Ps \subseteq 1..Len(pool) /\ IsFiniteSet(Is) /\ IsFiniteSet(Ps)
      /\ Times(urls, url) = Cardinality(Is) /\ Times(pool, url) = Cardinality(Ps)
  BY <1>3, <1>6, FS_Subset DEF Times
<1> DEFINE g == [j \in Is |-> f[j]]
<1>8. g \in [Is -> Ps] /\ \A j \in Is : g[j] = f[j]
  BY <1>4
<1>9. g \in Injection(Is, Ps)
  BY <1>5, <1>8 DEF Injection, IsInjective
<1> HIDE DEF g
<1>10. /\ Cardinality(Is) <= Cardinality(Ps)
       /\ Cardinality(Is) = Cardinality(Ps) <=> g \in Surjection(Is, Ps)
  BY <1>7, <1>9, FS_Injection
<1>11. ASSUME m = Len(pool) PROVE g \in Surjection(Is, Ps)
  <2>1. f \in Surjection(1..m, 1..Len(pool))
    BY <1>2, <1>6, <1>11, FS_Injection
  <2>2. \A i \in Ps : \E j \in Is : g[j] = i
    <3> SUFFICES ASSUME NEW i \in Ps PROVE \E j \in Is : g[j] = i
      OBVIOUS
    <3>1. PICK j \in 1..m : f[j] = i
      BY <2>1 DEF Surjection
    <3>2. j \in Is
      BY <1>4, <3>1
    <3> QED BY <1>8, <3>1, <3>2
  <2> QED BY <1>8, <2>2 DEF Surjection
<1> QED BY <1>7, <1>10, <1>11

\* One more choice.
LEMMA RoundGoesOn ==
    ASSUME NEW pool \in Seq(Urls), Len(pool) # 0, NEW old, NEW c \in Nat,
           old = <<>> \/ Round(pool, old, c),
           NEW urls, urls = Append(old, pool[Place(pool, c)])
    PROVE  Round(pool, IF Len(urls) > Len(pool) THEN Tail(urls) ELSE urls, c + 1)
<1>1. Len(pool) \in Nat \ {0} /\ c + 1 \in Nat /\ Place(pool, c) \in 1..Len(pool) /\ pool[Place(pool, c)] \in Urls
  BY PlaceIn
<1>2. /\ old \in Seq(Urls) /\ Len(old) \in Nat /\ Len(old) <= Len(pool) /\ Len(old) <= c
      /\ \A j \in 1..Len(old) : old[j] = pool[Place(pool, c - Len(old) + j - 1)]
  <2>1. CASE old = <<>>
    <3>1. old \in Seq(Urls) /\ Len(old) = 0
      BY <2>1
    <3> QED BY <1>1, <3>1
  <2>2. CASE Round(pool, old, c)
    BY <2>2 DEF Round
  <2> QED BY <2>1, <2>2
<1>3. /\ urls \in Seq(Urls) /\ Len(urls) = Len(old) + 1 /\ urls[Len(old) + 1] = pool[Place(pool, c)]
      /\ \A j \in 1..Len(old) : urls[j] = old[j]
  BY <1>1, <1>2
<1>4. \A j \in 1..(Len(old) + 1) : urls[j] = pool[Place(pool, c - Len(old) + j - 1)]
  <2> SUFFICES ASSUME NEW j \in 1..(Len(old) + 1) PROVE urls[j] = pool[Place(pool, c - Len(old) + j - 1)]
    OBVIOUS
  <2>1. CASE j = Len(old) + 1
    <3>1. c - Len(old) + j - 1 = c
      BY <1>2, <2>1
    <3> QED BY <1>3, <2>1, <3>1
  <2>2. CASE j \in 1..Len(old)
    BY <1>2, <1>3, <2>2
  <2> QED BY <1>2, <2>1, <2>2
<1>5. CASE Len(urls) <= Len(pool)
  <2>1. ~(Len(urls) > Len(pool)) /\ Len(urls) <= c + 1
    BY <1>1, <1>2, <1>3, <1>5
  <2>2. \A j \in 1..Len(urls) : urls[j] = pool[Place(pool, c + 1 - Len(urls) + j - 1)]
    <3>1. c + 1 - Len(urls) = c - Len(old)
      BY <1>2, <1>3
    <3> QED BY <1>3, <1>4, <3>1
  <2>3. Round(pool, urls, c + 1)
    BY <1>1, <1>3, <1>5, <2>1, <2>2 DEF Round
  <2> QED BY <2>1, <2>3
<1>6. CASE Len(urls) > Len(pool)
  <2>1. PICK last : last = Tail(urls)
    OBVIOUS
  <2>2. /\ last \in Seq(Urls) /\ Len(last) = Len(old)
        /\ \A j \in 1..Len(old) : last[j] = urls[j + 1]
    BY <1>2, <1>3, <2>1
  <2>3. \A j \in 1..Len(last) : last[j] = pool[Place(pool, c + 1 - Len(last) + j - 1)]
    <3> SUFFICES ASSUME NEW j \in 1..Len(old) PROVE last[j] = pool[Place(pool, c + 1 - Len(old) + j - 1)]
      BY <2>2
    <3>1. j + 1 \in 1..(Len(old) + 1) /\ c - Len(old) + (j + 1) - 1 = c + 1 - Len(old) + j - 1
      BY <1>2
    <3> QED BY <1>4, <2>2, <3>1
  <2>4. Len(last) <= Len(pool) /\ Len(last) <= c + 1
    BY <1>1, <1>2, <2>2
  <2>5. Round(pool, last, c + 1)
    <3>1. last \in Seq(Urls) /\ pool \in Seq(Urls) /\ Len(pool) # 0 /\ c + 1 \in Nat
      BY <1>1, <2>2
    <3> QED BY <2>3, <2>4, <3>1 DEF Round
  <2> QED BY <1>6, <2>1, <2>5
<1> QED BY <1>1, <1>2, <1>3, <1>5, <1>6

\* A pool lists urls.
LEMMA PoolListsUrls ==
    ASSUME NEW list \in Lists
    PROVE  weightedEndpointPool(Limited(list)) \in Seq(Urls)
<1>1. list \in Seq([url : Urls, weight : Int]) /\ EndpointLimit \in Nat /\ WeightLimit \in Nat
  BY EndpointAssumption
<1>2. PICK endpoints : endpoints = Limited(list)
  OBVIOUS
<1>3. endpoints \in Seq([url : Urls, weight : Int])
  <2>1. PICK S : S = [url : Urls, weight : Int]
    OBVIOUS
  <2>2. PICK n : n = IF Len(list) < EndpointLimit THEN Len(list) ELSE EndpointLimit
    OBVIOUS
  <2>3. list \in Seq(S) /\ n \in 0..Len(list)
    BY <1>1, <2>1, <2>2
  <2>4. SubSeq(list, 1, n) \in Seq(S)
    BY <2>3
  <2> QED BY <1>2, <2>1, <2>2, <2>4 DEF Limited
<1>4. PICK parts : parts = [i \in DOMAIN endpoints |-> [n \in 1..Shares(endpoints[i]) |-> endpoints[i].url]]
  OBVIOUS
<1>5. \A i \in 1..Len(endpoints) : parts[i] \in Seq(Urls)
  <2> SUFFICES ASSUME NEW i \in 1..Len(endpoints) PROVE parts[i] \in Seq(Urls)
    OBVIOUS
  <2>1. PICK e : e = endpoints[i]
    OBVIOUS
  <2>2. e \in [url : Urls, weight : Int] /\ parts[i] = [n \in 1..Shares(e) |-> e.url]
    <3>1. i \in DOMAIN endpoints /\ endpoints[i] \in [url : Urls, weight : Int]
      <4>1. PICK S : S = [url : Urls, weight : Int]
        OBVIOUS
      <4>2. endpoints \in Seq(S)
        BY <1>3, <4>1
      <4>3. i \in DOMAIN endpoints /\ endpoints[i] \in S
        BY <4>2
      <4> QED BY <4>1, <4>3
    <3> QED BY <1>4, <2>1, <3>1
  <2>3. Shares(e) \in Nat /\ e.url \in Urls
    BY <1>1, <2>2 DEF Shares
  <2> QED BY <2>2, <2>3
<1>6. parts \in Seq(Seq(Urls))
  <2>1. DOMAIN parts = 1..Len(endpoints) /\ Len(endpoints) \in Nat
    BY <1>3, <1>4
  <2>2. parts = [i \in 1..Len(endpoints) |-> parts[i]]
    BY <1>4, <2>1
  <2> QED BY <1>5, <2>1, <2>2
<1>7. FlattenSeq(parts) \in Seq(Urls)
  BY <1>6, Flattened
<1> QED BY <1>2, <1>4, <1>7 DEF weightedEndpointPool

LEMMA RoundInit == EndpointInit => RoundInv
BY DEF EndpointInit, RoundInv

LEMMA RoundStep == RoundInv /\ [EndpointNext]_endpointVars => RoundInv'
<1> SUFFICES ASSUME RoundInv, [EndpointNext]_endpointVars PROVE RoundInv'
  OBVIOUS
<1> balancing' = balancing
  BY DEF EndpointNext, KeepsURL, Choose, endpointVars
<1>1. ASSUME UNCHANGED <<counters, runs>> PROVE RoundInv'
  BY <1>1 DEF RoundInv
<1>2. ASSUME NEW base \in Bases, NEW list \in Lists, Choose(base, list) PROVE RoundInv'
  <2> DEFINE endpoints == Limited(list)
  <2>1. PICK pool, key : pool = weightedEndpointPool(endpoints) /\ key = CounterOf(base, endpoints)
    OBVIOUS
  <2>2. pool \in Seq(Urls)
    BY <2>1, PoolListsUrls
  <2>3. PICK c : c = IF key \in DOMAIN counters THEN counters[key] ELSE 0
    OBVIOUS
  <2>4. \/ UNCHANGED <<counters, runs>>
        \/ /\ pool # <<>>
           /\ counters' = [k \in DOMAIN counters \cup {key} |->
                  IF k # key THEN counters[k] ELSE IF c >= CounterLimit THEN 0 ELSE c + 1]
           /\ runs' = Noted(key, pool, pool[1 + (c % Len(pool))], c = 0)
    <3>1. key = <<base, [i \in DOMAIN endpoints |-> endpoints[i].url]>>
      BY <2>1 DEF CounterOf
    <3>2. /\ pool # <<>> => balancing \in {"random", "sticky-origin", "round-robin"}
          /\ pool = <<>> \/ balancing # "round-robin" => UNCHANGED <<counters, runs>>
      BY <1>2, <2>1 DEF Choose, RoundInv
    <3>3. ASSUME pool # <<>>, balancing = "round-robin"
          PROVE  /\ counters' = [k \in DOMAIN counters \cup {key} |->
                        IF k # key THEN counters[k] ELSE IF c >= CounterLimit THEN 0 ELSE c + 1]
                 /\ runs' = Noted(key, pool, pool[1 + (c % Len(pool))], c = 0)
      BY <1>2, <2>1, <2>3, <3>1, <3>3 DEF Choose
    <3> QED BY <3>2, <3>3
  <2> SUFFICES ASSUME pool # <<>>,
                      counters' = [k \in DOMAIN counters \cup {key} |->
                         IF k # key THEN counters[k] ELSE IF c >= CounterLimit THEN 0 ELSE c + 1],
                      runs' = Noted(key, pool, pool[1 + (c % Len(pool))], c = 0)
               PROVE  RoundInv'
    BY <1>1, <2>4
  <2>5. c \in 0..CounterLimit /\ CounterLimit \in Nat /\ c \in Nat
    BY <2>3, EndpointAssumption DEF RoundInv
  <2>6. PICK next : next = IF c >= CounterLimit THEN 0 ELSE c + 1
    OBVIOUS
  <2>7. next \in 0..CounterLimit /\ (next = c + 1 \/ next = 0)
    BY <2>5, <2>6
  <2>8. /\ DOMAIN counters' = DOMAIN counters \cup {key} /\ counters'[key] = next
        /\ \A k \in DOMAIN counters : k # key => counters'[k] = counters[k]
    BY <2>6
  <2>9. \A k \in DOMAIN counters' : counters'[k] \in 0..CounterLimit
    BY <2>7, <2>8 DEF RoundInv
  <2>10. PICK old, urls :
           /\ old = IF key \in DOMAIN runs /\ runs[key].pool = pool /\ ~(c = 0) THEN runs[key].urls ELSE <<>>
           /\ urls = Append(old, pool[Place(pool, c)])
    OBVIOUS
  <2>11. PICK kept : kept = IF Len(urls) > Len(pool) THEN Tail(urls) ELSE urls
    OBVIOUS
  <2>12. runs' = [k \in DOMAIN runs \cup {key} |-> IF k = key THEN [pool |-> pool, urls |-> kept] ELSE runs[k]]
    BY <2>10, <2>11 DEF Noted, Place
  <2>13. old = <<>> \/ Round(pool, old, c)
    <3> SUFFICES ASSUME key \in DOMAIN runs, runs[key].pool = pool, c # 0
                 PROVE  Round(pool, runs[key].urls, c)
      BY <2>10
    <3>1. key \in DOMAIN counters /\ c = counters[key]
      BY <2>3 DEF RoundInv
    <3> QED BY <3>1 DEF RoundInv
  <2>14. Round(pool, kept, c + 1) /\ c + 1 \in Nat
    <3>1. Len(pool) # 0
      BY <2>2
    <3>2. Round(pool, IF Len(urls) > Len(pool) THEN Tail(urls) ELSE urls, c + 1)
      BY <2>2, <2>5, <2>10, <2>13, <3>1, RoundGoesOn
    <3> QED BY <2>5, <2>11, <3>2
  <2>15. ASSUME NEW k \in DOMAIN runs'
         PROVE  /\ k \in DOMAIN counters'
                /\ \E end \in Nat : /\ counters'[k] = end \/ counters'[k] = 0
                                    /\ Round(runs'[k].pool, runs'[k].urls, end)
    <3>1. CASE k = key
      <4>1. runs'[k].pool = pool /\ runs'[k].urls = kept /\ k \in DOMAIN counters' /\ counters'[k] = next
        BY <2>8, <2>12, <3>1
      <4> QED BY <2>7, <2>14, <4>1
    <3>2. CASE k # key
      <4>1. k \in DOMAIN runs /\ runs'[k] = runs[k]
        BY <2>12, <3>2
      <4>2. k \in DOMAIN counters /\ counters'[k] = counters[k] /\ k \in DOMAIN counters'
        BY <2>8, <3>2, <4>1 DEF RoundInv
      <4> QED BY <4>1, <4>2 DEF RoundInv
    <3> QED BY <3>1, <3>2
  <2> QED BY <2>9, <2>15 DEF RoundInv
<1>3. KeepsURL => UNCHANGED <<counters, runs>>
  BY DEF KeepsURL
<1>4. UNCHANGED endpointVars => UNCHANGED <<counters, runs>>
  BY DEF endpointVars
<1> QED BY <1>1, <1>2, <1>3, <1>4 DEF EndpointNext

\* Over a whole round every endpoint has exactly its share, and over a part of one no
\* more, for any lists, weights and limits, and whoever asks in between.
THEOREM SharesAreFair == EndpointSpec => []FairShares
<1>1. RoundInv => FairShares
  <2> SUFFICES ASSUME RoundInv, NEW k \in DOMAIN runs
               PROVE  LET run == runs[k]
                      IN /\ Len(run.urls) = Len(run.pool) =>
                               \A url \in Range(run.pool) : Times(run.urls, url) = Times(run.pool, url)
                         /\ \A url \in Range(run.urls) : Times(run.urls, url) <= Times(run.pool, url)
    BY DEF FairShares
  <2>1. PICK end \in Nat : Round(runs[k].pool, runs[k].urls, end)
    BY DEF RoundInv
  <2> QED BY <2>1, SharesOfRound
<1>2. QED
  BY <1>1, RoundInit, RoundStep, PTL DEF EndpointSpec
===============================================================================
