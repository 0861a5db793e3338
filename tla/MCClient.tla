------------------------------- MODULE MCClient -------------------------------
(***************************************************************************)
(* Instances for TLC of what a client is made of besides its pipeline and  *)
(* its transports, side by side: Redirects, RateLimiter, RequestHeaders,   *)
(* BodyTransfer, Endpoints, Telemetry, BrowserClient, Pagination, Hedging  *)
(* and PluginHooks.  `part` says which of them moves in a behaviour; they  *)
(* share no state in the code.                                             *)
(***************************************************************************)
EXTENDS Redirects, RateLimiter, RequestHeaders, BodyTransfer, Endpoints, Telemetry, BrowserClient,
        Pagination, Hedging, PluginHooks

CONSTANTS r1, r2, r3, w1, w2, Parts

VARIABLE part

-----------------------------------------------------------------------------
\* RateLimiter.

\* Which process each call is in: one without a store, or two with it.
ThreeCalls == {r1, r2, r3}
TwoCalls == {r1, r2}
OneWorker == {w1}
TwoWorkers == {w1, w2}
Algorithms == {"token_bucket", "sliding_window", "fixed_window"}
Deployments ==
    [algorithm : Algorithms, storage : {FALSE}, owner : {[r \in ThreeCalls |-> w1]}] \cup
    [algorithm : Algorithms, storage : {TRUE},
     owner : {[r \in TwoCalls |-> IF r = r1 THEN w1 ELSE w2]}]
JustWindow ==
    {[algorithm |-> "fixed_window", storage |-> FALSE, owner |-> [r \in TwoCalls |-> w1]]}

-----------------------------------------------------------------------------
\* Redirects.

IPv4(a, b, c, d) == [form |-> "ipv4", parts |-> <<a, b, c, d>>]
IPv6(form) == [form |-> form, parts |-> <<>>]
Mapped(a, b, c, d) == [form |-> "mapped", parts |-> <<a, b, c, d>>]

\* The first and last addresses of the blocks that are kept out, and the rest.
PublicAddress == IPv4(8, 8, 8, 8)
Edges ==
    {IPv4(0, 0, 0, 1), IPv4(10, 255, 255, 255), IPv4(100, 64, 0, 0), IPv4(100, 127, 255, 255),
     IPv4(100, 100, 100, 200), IPv4(127, 0, 0, 1), IPv4(169, 254, 169, 254), IPv4(169, 254, 0, 1),
     IPv4(172, 16, 0, 0), IPv4(172, 31, 255, 255), IPv4(192, 168, 0, 1), Mapped(10, 0, 0, 1),
     Mapped(8, 8, 8, 8)}
    \cup {IPv6(form) : form \in Forms \ {"ipv4", "mapped"}}
Anywhere == Edges \cup {PublicAddress}
SomeAnswers == {{PublicAddress, a} : a \in Anywhere}

Name(labels) == [labels |-> labels, address |-> None]
Api == Name(<<"api", "example", "com">>)
Elsewhere == Name(<<"other", "net">>)
URL(protocol, host, port) ==
    [protocol |-> protocol, host |-> host, port |-> port, credentials |-> FALSE, injected |-> FALSE]
SomeTargets ==
    {URL("https", Api, None), URL("http", Api, 8443),
     URL("https", Elsewhere, None), URL("http", AddressHost(Mapped(10, 0, 0, 1)), None)}

Ten == {[form |-> "ipv4", parts |-> <<10, 0, 0, 0>>, prefix |-> 8]}
OwnHosts == {[wild |-> TRUE, labels |-> <<"example", "com">>]}

\* The profiles; the presets; private addresses let in by range, with and without
\* requirePublicDns; redirects to own hosts only; a legacy client that keeps metadata out.
Profile(profile) == Manager(profile, <<>>, "custom", <<>>, FALSE)
Preset(mode) == Manager("standard", <<>>, mode, <<>>, FALSE)
Custom(egress) == Manager("standard", <<>>, "custom", egress, TRUE)
SomePolicies ==
    [strict |-> Profile("strict"), legacy |-> Profile("legacy"),
     public |-> Preset("public-api"), internal |-> Preset("internal-service"),
     ranges |-> Custom([allowedCidrs |-> Ten]),
     nothing |-> Custom([allowedCidrs |-> Ten, requirePublicDns |-> TRUE]),
     own |-> Custom([allowRedirectsTo |-> OwnHosts, deniedCidrs |-> Ten]),
     migrating |-> Manager("legacy", [enforceHTTPS |-> TRUE], "legacy-migration", <<>>, FALSE)]
-----------------------------------------------------------------------------
\* RequestHeaders: a caller's header of each name, marked or not, with each content
\* type; and every kind of body under every policy.

Given(n) == {n :> Blocked} \cup (IF n = "content-type" THEN {n :> t : t \in Types} ELSE {n :> "caller"})
GivenTypes == {<<>>} \cup Given("content-type")
GivenHeaders == {t @@ g : t \in GivenTypes, g \in {<<>>} \cup UNION {Given(n) : n \in Names}}
SomeConfigured ==
    [given : GivenHeaders, data : {"object"}, policy : {"auto"}, key : {TRUE}, auth : {TRUE},
     trace : {"unset", "overwrite"}, signing : {TRUE}, route : {"direct", "proxy"}]
    \cup [given : GivenTypes, data : Bodies, policy : FormPolicies, key : {FALSE}, auth : {FALSE},
          trace : {None}, signing : {FALSE}, route : {"tunnel"}]

-----------------------------------------------------------------------------
\* BodyTransfer: bodies up to the limit of 3 and past it, known or not beforehand, at
\* full speed and at 5 a second; answers with and without their length.

Upload(body, chunks, declared, rate) ==
    [body |-> body, chunks |-> chunks, declared |-> declared, maxBody |-> 3, maxContent |-> 3,
     upload |-> rate, download |-> 0, asStream |-> FALSE, watched |-> FALSE, replies |-> <<>>]
Download(rate, asStream, replies) ==
    [body |-> "none", chunks |-> <<>>, declared |-> -1, maxBody |-> 3, maxContent |-> 3,
     upload |-> 0, download |-> rate, asStream |-> asStream, watched |-> TRUE, replies |-> replies]
SomePlans ==
    {Upload(body, <<2, 1>>, -1, rate) : body \in {"buffer", "stream"}, rate \in {0, 5}}
    \cup {Upload("stream", <<2, 2>>, declared, 5) : declared \in {-1, 4}}
    \cup {Upload("buffer", <<4>>, -1, 0), [Upload("stream", <<1, 1>>, -1, 0) EXCEPT !.replies = <<1>>]}
    \cup {Download(rate, asStream, replies) :
            rate \in {0, 5}, asStream \in BOOLEAN, replies \in {<<2, 1>>, <<3, 1>>}}

-----------------------------------------------------------------------------
\* Endpoints: weights left out, zero, above the limit; more endpoints than the limit.

Endpoint(url, weight) == [url |-> url, weight |-> weight]
SomeLists ==
    {<<Endpoint("a", -1), Endpoint("b", 0)>>, <<Endpoint("a", 2), Endpoint("b", 1)>>,
     <<Endpoint("a", 9), Endpoint("b", -1)>>,
     <<Endpoint("b", 1), Endpoint("a", 1), Endpoint("c", 2)>>}
OneHash == [base \in {"x"} |-> 1]

-----------------------------------------------------------------------------
\* PluginHooks: headers that can and cannot be read, of one format and of two; the
\* plugin twice in a client, and its own identity.

Matched == <<{"x", "y"}, {"y"}>>
Context(id, sampled) == [trace |-> id, span |-> id, sampled |-> sampled]
Unset == Context(None, None)
MultiOf(id) == ("X-B3-TraceId" :> id) @@ ("X-B3-SpanId" :> id)
SomeTraces ==
    {<<>>, "traceparent" :> Context(1, TRUE), "traceparent" :> Unset, "b3" :> Context(2, None),
     MultiOf(2), "X-B3-TraceId" :> 2, ("traceparent" :> Context(1, FALSE)) @@ MultiOf(2)}
Tracing(formats, overwrite, own, carried) ==
    [plugins |-> {"trace-context"}, installs |-> 2, formats |-> formats, overwrite |-> overwrite,
     own |-> own, brought |-> {carried}]
Untraced(plugins, installs) ==
    [Tracing({}, FALSE, Unset, <<>>) EXCEPT !.plugins = plugins, !.installs = installs]
SomePrograms ==
    {Tracing(formats, overwrite, Unset, carried) :
        formats \in {{"w3c"}, {"b3-single", "b3-multi"}}, overwrite \in BOOLEAN, carried \in SomeTraces}
    \cup {Tracing({"w3c", "b3-multi"}, FALSE, [Unset EXCEPT !.trace = 3, !.sampled = TRUE], carried) :
            carried \in {<<>>, MultiOf(2)}}
    \cup {Untraced({"mock", "validation"}, 2), Untraced({"har-recorder", "validation"}, 3)}

-----------------------------------------------------------------------------
ClientVars ==
    <<redirectVars, limiterVars, headerVars, transferVars, endpointVars, telemetryVars, browserVars,
      pageVars, hedgeVars, hookVars, part>>

\* Of a part that does not move one initial state will do.
One(S) == CHOOSE x \in S : TRUE
MCInit ==
    /\ part \in Parts
    /\ IF part = "redirects" THEN TRUE
       ELSE /\ client = One(DOMAIN Policies) /\ lookup = "pinned" /\ origin = One(Targets)
            /\ request = [url |-> origin, method |-> "GET", data |-> TRUE, socketPath |-> FALSE,
                          servername |-> None, headers |-> [k \in Kinds |-> origin], hops |-> 0]
    /\ IF part = "limiter" THEN TRUE ELSE config = One(Configs)
    /\ IF part = "headers" THEN TRUE ELSE asked = One(Configured)
    /\ IF part = "bodies" THEN TRUE ELSE plan = One(Plans)
    /\ IF part = "endpoints" THEN TRUE ELSE balancing = "random"
    /\ IF part = "telemetry" THEN TRUE ELSE traced = FALSE
    /\ IF part = "browser" THEN TRUE ELSE strategy = One(Strategies)
    /\ IF part = "pages" THEN TRUE ELSE collection = {} /\ walk = One(Walks)
    /\ IF part = "hooks" THEN TRUE ELSE options = One(Programs)
    /\ RedirectInit /\ LimiterInit /\ HeaderInit /\ TransferInit /\ EndpointInit
    /\ TelemetryInit /\ BrowserInit /\ PageInit /\ HedgeInit /\ HookInit

\* What moves when only p does.
Only(p) ==
    /\ part = p /\ UNCHANGED part
    /\ p # "redirects" => UNCHANGED redirectVars
    /\ p # "limiter" => UNCHANGED limiterVars
    /\ p # "headers" => UNCHANGED headerVars
    /\ p # "bodies" => UNCHANGED transferVars
    /\ p # "endpoints" => UNCHANGED endpointVars
    /\ p # "telemetry" => UNCHANGED telemetryVars
    /\ p # "browser" => UNCHANGED browserVars
    /\ p # "pages" => UNCHANGED pageVars
    /\ p # "hedges" => UNCHANGED hedgeVars
    /\ p # "hooks" => UNCHANGED hookVars

MCNext ==
    \/ Only("redirects") /\ RedirectNext
    \/ Only("limiter") /\ LimiterNext
    \/ Only("headers") /\ HeaderNext
    \/ Only("bodies") /\ TransferNext
    \/ Only("endpoints") /\ EndpointNext
    \/ Only("telemetry") /\ TelemetryNext
    \/ Only("browser") /\ BrowserNext
    \/ Only("pages") /\ PageNext
    \/ Only("hedges") /\ HedgeNext
    \/ Only("hooks") /\ HookNext

MCSpec == MCInit /\ [][MCNext]_ClientVars

Symmetry == Permutations(Users) \cup Permutations(Tasks) \cup Permutations(Keys)
===============================================================================
