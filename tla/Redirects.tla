------------------------------ MODULE Redirects ------------------------------
(***************************************************************************)
(* One request of NeutrxClient and the redirects it follows:               *)
(* #dispatchWithRedirects of src/src/core/NeutrxClient.ts,                 *)
(* src/src/core/redirect.ts, and the lookups of src/src/core/dns.ts by     *)
(* which the adapters find the address to connect to.  What may be         *)
(* contacted is SecurityPolicy.  Servers, resolvers and the user's         *)
(* beforeRedirect hook are external.                                       *)
(*                                                                         *)
(* A header is a kind, with the origin it is meant for: the caller's       *)
(* headers for the URL the caller gave, and what a hook sets for the new    *)
(* target unless it puts back what was taken away.                         *)
(*                                                                         *)
(* StrippedByOriginOnly and AnsweredAnew are mutated forms of the          *)
(* definitions they precede; no action uses them.                          *)
(***************************************************************************)
EXTENDS SecurityPolicy

CONSTANTS
    Policies,        \* configured SecurityManagers, by name
    Targets,         \* URLs that callers and servers name
    Found,           \* addresses that resolvers give
    Answers,         \* the sets of them that one lookup may give
    MaxRedirects

\* A protocol of another name would be spoken as plain HTTP (adapters/http.ts:87).
ASSUME RedirectAssumption ==
    /\ Answers \subseteq SUBSET Found /\ {} \notin Answers /\ MaxRedirects \in Nat
    /\ None \notin Addresses /\ Found \subseteq Addresses
    /\ \A u \in Targets : u.host.address \in Addresses \cup {None}
    /\ \A name \in DOMAIN Policies : Policies[name].protocols \subseteq {"http", "https"}

\* The kinds of headers: those the expression for secrets matches, those the
\* caller lists in sensitiveHeaders, those that describe a body, and the rest.
Kinds == {"secret", "listed", "host", "content", "plain"}
Sensitive == {"secret", "listed", "host"}
Lookups == {"pinned", "custom", "fetch"}

VARIABLES
    client,      \* the name of the client's SecurityManager
    lookup,      \* how addresses are found: "pinned", "custom" (the user's lookup)
                 \* or "fetch" (left to the platform)
    request,     \* InternalRequestConfig
    origin,      \* the caller's URL
    stage,       \* where the request is
    records,     \* the records of the pinned lookup
    contact      \* the address it is connected to, or None

redirectVars == <<client, lookup, request, origin, stage, records, contact>>

policy == Policies[client]
Origin(u) == <<u.protocol, u.host, urlPort(u)>>

-----------------------------------------------------------------------------
\* redirect.ts

shouldRedirectWithGet(status, method) ==
    \/ status = 303 /\ method # "HEAD"
    \/ status \in {301, 302} /\ method = "POST"

\* A change of protocol is a change of origin.  When the body is dropped, the
\* credentials go too, even within an origin, but not those only the expression
\* for secrets knows.
StrippedByOriginOnly(from, to, bodyDropped) ==
    IF from.host # to.host THEN Sensitive \cup (IF bodyDropped THEN {"content"} ELSE {})
    ELSE IF bodyDropped THEN {"secret", "listed", "content"} ELSE {}
Stripped(from, to, bodyDropped) ==
    IF Origin(from) # Origin(to) THEN Sensitive \cup (IF bodyDropped THEN {"content"} ELSE {})
    ELSE IF bodyDropped THEN {"secret", "listed", "content"} ELSE {}

Without(headers, kinds) == [k \in DOMAIN headers \ kinds |-> headers[k]]
stripRedirectHeaders(headers, from, to, bodyDropped) ==
    Without(headers, Stripped(from, to, bodyDropped))

-----------------------------------------------------------------------------
RedirectInit ==
    /\ client \in DOMAIN Policies
    /\ lookup \in Lookups
    /\ \E u \in Targets, method \in {"GET", "POST", "HEAD"}, data, socketPath \in BOOLEAN :
        /\ request = [url |-> u, method |-> method, data |-> data, socketPath |-> socketPath,
                      servername |-> None, headers |-> [k \in Kinds |-> u], hops |-> 0]
        /\ data = (method # "HEAD")
        /\ socketPath => lookup = "pinned"
        /\ origin = u
    /\ stage = "checking" /\ records = {} /\ contact = None

\* SecurityManager.validateRequest.
Check ==
    /\ stage = "checking"
    /\ stage' = IF validateRequest(policy, request) THEN "looking" ELSE "refused"
    /\ UNCHANGED <<client, lookup, request, origin, records, contact>>

\* createLookup, before the adapter opens a connection: without a lookup of the
\* user's the records are fetched, all of them checked, and pinned.  A literal
\* IPv4 address needs no lookup; a literal IPv6 address, still in its brackets, is
\* looked up as a name that no resolver knows.
Literal == request.url.host.address
Look ==
    /\ stage = "looking"
    /\ \/ /\ request.socketPath \/ lookup # "pinned" \/ (Literal # None /\ Is4(Literal))
          /\ stage' = "connecting" /\ records' = {}
       \/ /\ ~request.socketPath /\ lookup = "pinned" /\ Literal = None
          /\ records' \in Answers
          /\ stage' = IF \A a \in records' : validateResolvedAddress(policy, a)
                      THEN "connecting" ELSE "refused"
       \/ /\ ~request.socketPath /\ lookup = "pinned" /\ Literal # None /\ ~Is4(Literal)
          /\ stage' = "refused" /\ records' = {}
    /\ UNCHANGED <<client, lookup, request, origin, contact>>

\* The addresses a connection may be made to: a literal one; one of the records, which
\* the resolver is not asked for again; one that the user's lookup gives now and
\* wrapLookup lets pass; or whatever the platform finds.
AnsweredAnew ==
    IF Literal # None THEN {Literal} ELSE Found
Answered ==
    IF Literal # None THEN {Literal}
    ELSE IF lookup = "pinned" THEN records
    ELSE {a \in Found : lookup = "custom" => validateResolvedAddress(policy, a)}

Connect ==
    /\ stage = "connecting"
    /\ IF request.socketPath THEN contact' = None ELSE contact' \in Answered
    /\ stage' = "asking"
    /\ UNCHANGED <<client, lookup, request, origin, records>>

\* The adapter has an answer.
Answer ==
    /\ stage = "asking"
    /\ stage' = "answered" /\ contact' = None /\ records' = {}
    /\ UNCHANGED <<client, lookup, request, origin>>

\* An answer that is no redirect, an error, or a hook that throws.
Finish ==
    /\ stage = "answered"
    /\ stage' = "done"
    /\ UNCHANGED <<client, lookup, request, origin, records, contact>>

\* The request that a redirect asks for, before the hook.
Redirected(status, to) ==
    LET method == IF shouldRedirectWithGet(status, request.method) THEN "GET" ELSE request.method
    IN [request EXCEPT
           !.url = to, !.method = method, !.hops = @ + 1, !.data = @ /\ method # "GET",
           !.headers = stripRedirectHeaders(@, request.url, to, method # request.method)]

RedirectAllowed(to) ==
    IF request.socketPath THEN validateSocketURL(policy, to)
    ELSE validateURL(policy, to) /\ validateRedirect(policy, request.url, to)

\* What the hook may leave: the headers it was shown, and some of its own, meant for
\* the new target or put back for the old one.
Hooked(headers, from, to) ==
    {headers} \cup
    {[k \in DOMAIN headers \cup kinds |-> IF k \in kinds THEN u ELSE headers[k]] :
        kinds \in {Kinds, {"secret"}}, u \in {from, to}}

\* A redirect is followed: checks, stripping, the hook, and stripping again.
Follow(status, to) ==
    LET next == Redirected(status, to)
    IN /\ stage = "answered"
       /\ IF request.hops < MaxRedirects /\ RedirectAllowed(to)
          THEN /\ stage' = "looking"
               /\ \E headers \in Hooked(next.headers, request.url, to) :
                      request' = [next EXCEPT !.headers =
                          stripRedirectHeaders(headers, request.url, to, next.method # request.method)]
          ELSE stage' = "refused" /\ UNCHANGED request
       /\ UNCHANGED <<client, lookup, origin, records, contact>>

RedirectStatuses == {301, 302, 303, 307, 308}
RedirectNext ==
    \/ Check \/ Look \/ Connect \/ Answer \/ Finish
    \/ \E status \in RedirectStatuses, to \in Targets : Follow(status, to)

RedirectSpec == RedirectInit /\ [][RedirectNext]_redirectVars

-----------------------------------------------------------------------------
\* Types.
RedirectTypeOK ==
    /\ client \in DOMAIN Policies /\ lookup \in Lookups /\ origin \in Targets
    /\ request.url \in Targets /\ request.method \in {"GET", "POST", "HEAD"}
    /\ request.data \in BOOLEAN /\ request.socketPath \in BOOLEAN /\ request.servername = None
    /\ DOMAIN request.headers \subseteq Kinds
    /\ \A k \in DOMAIN request.headers : request.headers[k] \in Targets
    /\ request.hops \in 0..MaxRedirects
    /\ stage \in {"checking", "looking", "connecting", "asking", "answered", "refused", "done"}
    /\ records \subseteq Found /\ (contact \in Found \/ contact \in {Literal, None})

\* Credentials stay at home (docs/axios-migration.md:139, docs/node-infrastructure.md:72):
\* over any chain of redirects, there and back, with a hook that puts back what was
\* stripped, no secret, listed or host header reaches an origin it was not meant for,
\* and a request that lost its method has neither its body nor the headers of one.
CredentialsStayHome ==
    stage \in {"looking", "connecting", "asking"} =>
        /\ \A k \in DOMAIN request.headers \cap Sensitive :
               Origin(request.headers[k]) = Origin(request.url)
        /\ request.method = "GET" /\ request.hops > 0 => ~request.data

\* What the configuration means, by address ranges (docs/security-features.md and
\* docs/secure-egress.md), whatever the code calls each address.
Block(parts, prefix) == [form |-> "ipv4", parts |-> parts, prefix |-> prefix]
MetadataBlocks == {Block(<<169, 254, 169, 254>>, 32), Block(<<100, 100, 100, 200>>, 32)}
InternalBlocks ==
    [loopback  |-> {Block(<<127, 0, 0, 0>>, 8)},
     linkLocal |-> {Block(<<169, 254, 0, 0>>, 16)},
     private   |-> {Block(<<0, 0, 0, 0>>, 8), Block(<<10, 0, 0, 0>>, 8), Block(<<100, 64, 0, 0>>, 10),
                    Block(<<172, 16, 0, 0>>, 12), Block(<<192, 168, 0, 0>>, 16)}]
In(a, blocks) == \E b \in blocks : cidrContains(b, a)

Permitted(p, a) ==
    LET metadata == In(a, MetadataBlocks) \/ a.form = "fd00:ec2::254"
        internal == [loopback  |-> In(a, InternalBlocks.loopback) \/ a.form = "::1",
                     linkLocal |-> In(a, InternalBlocks.linkLocal) \/ a.form = "fe80:",
                     private   |-> In(a, InternalBlocks.private) \/ a.form = "fc00:"]
        granted  == p.egress.allowedCidrs # None /\ In(a, p.egress.allowedCidrs)
    IN /\ metadata => ~p.blockMetadataIPs /\ ~p.egress.blockCloudMetadata
       /\ metadata \/ granted \/
          /\ p.blockLoopbackIPs => ~internal.loopback
          /\ p.blockLinkLocalIPs => ~internal.linkLocal
          /\ p.blockPrivateIPs => ~internal.private
       /\ p.egress.requirePublicDns => ~metadata /\ \A kind \in DOMAIN internal : ~internal[kind]
       /\ p.egress.allowedCidrs # None => granted
       /\ ~In(a, p.egress.deniedCidrs)

\* Only what the policy allows is contacted, at any hop: a name that is resolved
\* again, differently, between the check and the connection, a redirect to an address
\* or to a name of one, and a step back from https change nothing.  Left out are the
\* platform's own lookups, and mapped addresses that a resolver gives: assertHostAllowed
\* does not unwrap those.
OnlyAllowedContacted ==
    stage = "asking" /\ ~request.socketPath =>
        /\ policy.enforceHTTPS /\ origin.protocol = "https" => request.url.protocol = "https"
        /\ request.hops > 0 => MatchesAny(request.url.host, policy.egress.allowRedirectsTo)
        /\ \/ lookup = "fetch" \/ ~policy.enableSSRFProtection
           \/ contact.form = "mapped" /\ contact # Literal
           \/ Permitted(policy, contact)
=============================================================================
