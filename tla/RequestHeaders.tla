--------------------------- MODULE RequestHeaders ---------------------------
(***************************************************************************)
(* The headers of one request, from the caller to the wire: NeutrxHeaders  *)
(* of src/src/core/headers.ts, what NeutrxClient and SecurityManager add,  *)
(* what each attempt of the HTTP/1.1 adapter adds to its own copy          *)
(* (src/src/core/bodySerializer.ts, src/src/core/proxy.ts), and hooks of   *)
(* the user's between them.                                                *)
(*                                                                         *)
(* Headers are a function of the names present, in lower case.  A value is *)
(* who set it; of Content-Type it is the type itself.  Blocked is the      *)
(* value false: present, and never sent.                                   *)
(*                                                                         *)
(* AttemptInPlace is a mutated form of the definition it precedes; no      *)
(* action uses it.                                                         *)
(***************************************************************************)
EXTENDS Undefined, Naturals

CONSTANTS
    Configured,     \* what callers and clients configure
    MaxAttempts

\* A request is [given, data, policy, key, auth, trace, signing, route]: the caller's
\* headers over the client's, the kind of its body, formDataHeaderPolicy, whether
\* it has an idempotency key and auth, "unset" or "overwrite" for the trace headers
\* or None, whether requests are signed, and how the target is reached.
BodyKinds == {"text", "bytes", "stream", "params", "blob", "form", "array", "object"}
Bodies == BodyKinds \cup {None}
FormPolicies == {"auto", "preserve", "none"}
Routes == {"direct", "proxy", "tunnel"}
Names == {"authorization", "content-type", "content-length", "host", "proxy-authorization",
          "x-request-id", "idempotency-key", "traceparent", "x-neutrx-signature"}
Types == {"text/plain", "application/octet-stream", "multipart/form-data", "multipart-boundary",
          "application/x-www-form-urlencoded", "application/json"}
Blocked == "blocked"

Requested(r) ==
    /\ r \in [given : {r.given}, data : Bodies, policy : FormPolicies, key : BOOLEAN, auth : BOOLEAN,
              trace : {None, "unset", "overwrite"}, signing : BOOLEAN, route : Routes]
    /\ DOMAIN r.given \subseteq Names
    /\ \A n \in DOMAIN r.given : r.given[n] \in Types \cup {"caller", Blocked}
ASSUME HeaderAssumption ==
    /\ None \notin BodyKinds \cup Types \cup {Blocked} /\ MaxAttempts \in Nat
    /\ \A r \in Configured : Requested(r)

VARIABLES
    asked,       \* the request
    headers,     \* config.headers
    readiness,   \* how far it is
    attempts,    \* attempts made
    sent,        \* what the last attempt sent, or None
    meddled      \* history: names that hooks changed

headerVars == <<asked, headers, readiness, attempts, sent, meddled>>

-----------------------------------------------------------------------------
\* NeutrxHeaders.

has(h, n) == n \in DOMAIN h
set(h, n, v) == [m \in DOMAIN h \cup {n} |-> IF m = n THEN v ELSE h[m]]
setIfUnset(h, n, v) == IF has(h, n) THEN h ELSE set(h, n, v)
setIfNotBlocked(h, n, v) == IF has(h, n) /\ h[n] = Blocked THEN h ELSE set(h, n, v)
without(h, names) == [m \in DOMAIN h \ names |-> h[m]]
deleted(h, n) == without(h, {n})
visible(h) == without(h, {n \in DOMAIN h : h[n] = Blocked})

When(condition, new, old) == IF condition THEN new ELSE old

-----------------------------------------------------------------------------
\* What is added before the request is dispatched.

\* bodySerializer.ts
detectContentType(data) ==
    CASE data = "text" -> "text/plain"
      [] data \in {"bytes", "stream", "blob"} -> "application/octet-stream"
      [] data = "params" -> "application/x-www-form-urlencoded"
      [] data \in {"array", "object"} -> "application/json"

\* #buildHeaders and the end of #buildRC.
Built(r) ==
    LET withId   == setIfNotBlocked(r.given, "x-request-id", "client")
        withKey  == When(r.key, setIfNotBlocked(withId, "idempotency-key", "client"), withId)
        withAuth == When(r.auth, setIfNotBlocked(withKey, "authorization", "client"), withKey)
    IN IF r.data \in {None, "form"} THEN withAuth
       ELSE setIfUnset(withAuth, "content-type", detectContentType(r.data))

\* mergeCarrierHeaders
Traced(r, h) ==
    CASE r.trace = None -> h
      [] r.trace = "overwrite" -> set(h, "traceparent", "client")
      [] r.trace = "unset" -> setIfUnset(h, "traceparent", "client")

\* SecurityManager's validateRequest.
Secured(r, h) ==
    LET signed == When(r.signing, setIfNotBlocked(h, "x-neutrx-signature", "client"), h)
    IN setIfNotBlocked(signed, "x-request-id", "client")

-----------------------------------------------------------------------------
\* What an attempt adds.

\* multipartBoundary, for a body of parts.
ContentType(h) == IF has(h, "content-type") THEN h["content-type"] ELSE None
Multipart(h, policy) ==
    IF \/ ContentType(h) \in {"multipart-boundary", Blocked} \/ policy = "none"
       \/ policy = "preserve" /\ has(h, "content-type")
    THEN h ELSE set(h, "content-type", "multipart-boundary")

\* serializeBody: what it is serialised as, and the headers after it.
SerializedAs(r, h) ==
    CASE r.data = "form" -> "multipart"
      [] r.data = "params" -> "form-urlencoded"
      [] r.data = "array" -> "json"
      [] r.data = "object" ->
             IF ContentType(h) \in {"multipart/form-data", "multipart-boundary"} THEN "multipart"
             ELSE IF ContentType(h) = "application/x-www-form-urlencoded" THEN "form-urlencoded" ELSE "json"
      [] r.data \in {None, "text", "bytes", "stream", "blob"} -> "itself"
Serialized(r, h) ==
    CASE SerializedAs(r, h) = "multipart" -> Multipart(h, r.policy)
      [] SerializedAs(r, h) = "form-urlencoded" ->
             setIfUnset(h, "content-type", "application/x-www-form-urlencoded")
      [] SerializedAs(r, h) = "json" -> setIfUnset(h, "content-type", "application/json")
      [] SerializedAs(r, h) = "itself" -> h

\* nodeHttpAdapter, and proxyRequestTarget: the client's proxy credentials go to an
\* HTTP proxy with the request, and to one that tunnels in its own CONNECT only.
Measured(r, h) ==
    IF r.data \in {None, "stream"} THEN h ELSE setIfUnset(h, "content-length", "attempt")
Routed(r, h) ==
    IF r.route = "proxy" THEN setIfUnset(set(h, "proxy-authorization", "proxy"), "host", "attempt") ELSE h
OnTheWire(r, h) == Routed(r, Measured(r, Serialized(r, h)))

-----------------------------------------------------------------------------
HeaderInit ==
    /\ asked \in Configured
    /\ headers = asked.given /\ readiness = "asked" /\ attempts = 0 /\ sent = None /\ meddled = {}

Adds(from, to, next) ==
    /\ readiness = from /\ readiness' = to /\ headers' = next
    /\ UNCHANGED <<asked, attempts, sent, meddled>>

Build == Adds("asked", "built", Built(asked))
Trace == Adds("built", "traced", Traced(asked, headers))
Secure == Adds("traced", "secured", Secured(asked, headers))

\* A plugin's beforeRequest or an interceptor, before or after that: it sets, blocks or
\* deletes one, or copies the headers into an object, which loses the blocks.
Meddles(n, next) == headers' = next /\ meddled' = meddled \cup n
Hook(n) ==
    /\ readiness \in {"traced", "secured"} /\ meddled = {}
    /\ \/ Meddles({n}, set(headers, n, IF n = "content-type" THEN "application/json" ELSE "hook"))
       \/ Meddles({n}, set(headers, n, Blocked))
       \/ Meddles({n}, deleted(headers, n))
    /\ UNCHANGED <<asked, readiness, attempts, sent>>
Copy ==
    /\ readiness \in {"traced", "secured"} /\ meddled = {}
    /\ visible(headers) # headers
    /\ Meddles(DOMAIN headers \ DOMAIN visible(headers), visible(headers))
    /\ UNCHANGED <<asked, readiness, attempts, sent>>

\* An attempt of the dispatch, the first or a retry, on a copy of the headers.
AttemptInPlace ==
    /\ readiness \in {"secured", "sent"} /\ attempts < MaxAttempts
    /\ headers' = OnTheWire(asked, headers)
    /\ sent' = visible(headers') /\ attempts' = attempts + 1 /\ readiness' = "sent"
    /\ UNCHANGED <<asked, meddled>>
AttemptSends ==
    /\ readiness \in {"secured", "sent"} /\ attempts < MaxAttempts
    /\ sent' = visible(OnTheWire(asked, headers)) /\ attempts' = attempts + 1 /\ readiness' = "sent"
    /\ UNCHANGED <<asked, headers, meddled>>

\* A redirect elsewhere, which drops the body and what goes with it (Redirects), and is
\* dispatched again: another target may be reached by another route.
DroppedNames == {"authorization", "proxy-authorization", "host", "content-type", "content-length"}
Rerouted(r, route) == [r EXCEPT !.data = None, !.route = route]
RedirectElsewhere ==
    /\ readiness = "sent" /\ attempts < MaxAttempts
    /\ headers' = without(headers, DroppedNames)
    /\ \E route \in Routes : asked' = Rerouted(asked, route)
    /\ readiness' = "secured" /\ sent' = None
    /\ UNCHANGED <<attempts, meddled>>

HeaderNext ==
    \/ Build \/ Trace \/ Secure \/ Copy \/ AttemptSends \/ RedirectElsewhere
    \/ \E n \in Names : Hook(n)

HeaderSpec == HeaderInit /\ [][HeaderNext]_headerVars

-----------------------------------------------------------------------------
Values == Types \cup {"caller", "client", "hook", "attempt", "proxy", Blocked}

\* Types.
HeaderTypeOK ==
    /\ asked.data \in Bodies /\ asked.policy \in FormPolicies /\ asked.route \in Routes
    /\ DOMAIN headers \subseteq Names /\ \A n \in DOMAIN headers : headers[n] \in Values
    /\ readiness \in {"asked", "built", "traced", "secured", "sent"} /\ attempts \in 0..MaxAttempts
    /\ sent # None => DOMAIN sent \subseteq Names /\ \A n \in DOMAIN sent : sent[n] \in Values \ {Blocked}
    /\ meddled \subseteq Names

\* What goes out is what was meant, at every attempt and after a redirect.  A header the
\* caller set to false is not sent, whoever would add it (docs/config-reference.md:149),
\* but for trace headers that overwrite, the credentials of a proxy, and the Host a
\* proxy is given after a redirect elsewhere took the false away with the rest; a proxy's
\* credentials and the length of a body are sent by no attempt that has another route
\* or no body; and a body is described as what it is, unless the caller or a hook said
\* what it is.
SentAsMeant ==
    sent # None =>
        /\ \A n \in DOMAIN sent \cap DOMAIN asked.given :
               asked.given[n] = Blocked /\ n \notin meddled =>
                   \/ n = "traceparent" /\ asked.trace = "overwrite"
                   \/ n = "proxy-authorization" /\ asked.route = "proxy"
                   \/ n = "host" /\ asked.route = "proxy" /\ n \notin DOMAIN headers
        /\ "proxy-authorization" \in DOMAIN sent /\ sent["proxy-authorization"] = "proxy" => asked.route = "proxy"
        /\ "content-length" \in DOMAIN sent /\ asked.data \in {None, "stream"} => sent["content-length"] # "attempt"
        /\ "content-type" \notin DOMAIN asked.given \cup meddled /\ asked.data # None =>
               LET type == ContentType(sent)
               IN CASE SerializedAs(asked, headers) = "multipart" ->
                         type = (IF asked.policy = "none" THEN None ELSE "multipart-boundary")
                    [] SerializedAs(asked, headers) = "json" -> type = "application/json"
                    [] SerializedAs(asked, headers) = "form-urlencoded" -> type = "application/x-www-form-urlencoded"
                    [] SerializedAs(asked, headers) = "itself" -> type \in {"text/plain", "application/octet-stream"}
=============================================================================
