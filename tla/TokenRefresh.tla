----------------------------- MODULE TokenRefresh -----------------------------
(***************************************************************************)
(* OAuth2Plugin (src/src/plugins/PluginManager.ts): the beforeRequest hook *)
(* of concurrent requests, which share one token and fetch it when it is   *)
(* missing or about to expire.                                             *)
(*                                                                         *)
(* The hook runs once in a request (NeutrxClient.request).  What comes     *)
(* after it takes its time with the token attached: other hooks, the rate  *)
(* limiter, interceptors, the circuit and the bulkhead's queue before the  *)
(* first attempt, the backoff and the queue before each retry.             *)
(*                                                                         *)
(* The token endpoint is external.  It issues a token, valid for Lifetime, *)
(* at some time while the fetch is under way; its answers may come in any  *)
(* order, and a fetch takes no longer than MaxDelay (the client's timeout).*)
(* A unit of time is 15 seconds.                                           *)
(*                                                                         *)
(* ExpiredLate is a mutated form of the definition it precedes; no action  *)
(* uses it.                                                                *)
(***************************************************************************)
EXTENDS Integers

CONSTANTS
    Clients,      \* the requests
    Lifetime,     \* expires_in
    Margin,       \* 30_000
    MaxDelay,
    Horizon       \* bound on the clock

ASSUME TokenAssumption ==
    /\ Lifetime \in Nat /\ Margin \in Nat /\ MaxDelay \in Nat /\ Horizon \in Nat
    /\ MaxDelay <= Margin /\ MaxDelay < Lifetime

VARIABLES
    clock,
    token,     \* when the token held was issued, or -1 for null
    expiry,
    hook,      \* where each request is: "before" the hook, in its await, "attached", or "sent"
    asked,     \* when it sent its fetch
    carried,   \* when the token in its Authorization header was issued, or -1
    since      \* when that was attached

tokenVars == <<clock, token, expiry, hook, asked, carried, since>>

TokenInit ==
    /\ clock = 0 /\ token = -1 /\ expiry = 0
    /\ hook = [c \in Clients |-> "before"]
    /\ asked = [c \in Clients |-> 0]
    /\ carried = [c \in Clients |-> -1]
    /\ since = [c \in Clients |-> 0]

ExpiredLate == token = -1 \/ clock >= expiry
Expired == token = -1 \/ clock >= expiry - Margin

\* The hook's last statement: the header gets the token held by then.
Attaches(c) ==
    /\ hook' = [hook EXCEPT ![c] = "attached"]
    /\ carried' = [carried EXCEPT ![c] = token']
    /\ since' = [since EXCEPT ![c] = clock]

\* The hook: the token held will do, or one is fetched.
Attach(c) ==
    /\ hook[c] = "before" /\ ~Expired
    /\ UNCHANGED <<clock, token, expiry, asked>>
    /\ Attaches(c)

Fetch(c) ==
    /\ hook[c] = "before" /\ Expired
    /\ hook' = [hook EXCEPT ![c] = "fetching"]
    /\ asked' = [asked EXCEPT ![c] = clock]
    /\ UNCHANGED <<clock, token, expiry, carried, since>>

\* The answer: its token replaces whatever is held by then.
Fetched(c) ==
    /\ hook[c] = "fetching"
    /\ token' \in asked[c]..clock
    /\ expiry' = clock + Lifetime
    /\ Attaches(c)
    /\ UNCHANGED <<clock, asked>>

\* The fetch fails, or its answer holds no token: the hook throws.
FetchFails(c) ==
    /\ hook[c] = "fetching"
    /\ hook' = [hook EXCEPT ![c] = "before"]
    /\ UNCHANGED <<clock, token, expiry, asked, carried, since>>

\* An attempt goes out, some time later, with what the hook attached.
Send(c) ==
    /\ hook[c] = "attached"
    /\ hook' = [hook EXCEPT ![c] = "sent"]
    /\ UNCHANGED <<clock, token, expiry, asked, carried, since>>

\* It fails and is to be retried: no hook runs again.
Retry(c) ==
    /\ hook[c] = "sent"
    /\ hook' = [hook EXCEPT ![c] = "attached"]
    /\ UNCHANGED <<clock, token, expiry, asked, carried, since>>

\* The request is over, sent or not; c stands for another one.
Another(c) ==
    /\ hook[c] \in {"attached", "sent"}
    /\ hook' = [hook EXCEPT ![c] = "before"]
    /\ carried' = [carried EXCEPT ![c] = -1]
    /\ since' = [since EXCEPT ![c] = 0]
    /\ UNCHANGED <<clock, token, expiry, asked>>

TokenTick ==
    /\ clock < Horizon
    /\ \A c \in Clients : hook[c] = "fetching" => clock < asked[c] + MaxDelay
    /\ clock' = clock + 1
    /\ UNCHANGED <<token, expiry, hook, asked, carried, since>>

TokenNext ==
    \/ \E c \in Clients :
        \/ Attach(c) \/ Fetch(c) \/ Fetched(c) \/ FetchFails(c)
        \/ Send(c) \/ Retry(c) \/ Another(c)
    \/ TokenTick

TokenSpec == TokenInit /\ [][TokenNext]_tokenVars

-----------------------------------------------------------------------------
\* Types.
TokenTypeOK ==
    /\ clock \in 0..Horizon /\ token \in -1..Horizon /\ expiry \in 0..(Horizon + Lifetime)
    /\ hook \in [Clients -> {"before", "fetching", "attached", "sent"}]
    /\ asked \in [Clients -> 0..Horizon]
    /\ carried \in [Clients -> -1..Horizon] /\ since \in [Clients -> 0..Horizon]

\* How long a token lasts at least when it is attached.  The margin pays for the
\* delay of the fetch, which the plugin does not count, and leaves the rest to the
\* request; a token that lasts no longer than the margin is fetched for each request.
Grace == (IF Margin < Lifetime THEN Margin ELSE Lifetime - 1) - MaxDelay

\* What a request sends within Grace of its hook, in its first attempt or in a retry,
\* carries a token that has not expired, although fetches overlap, an older token may
\* replace a newer one, and the plugin counts a lifetime from the arrival.  A request
\* that is queued or backs off for longer may well send an expired one.
TokenValid ==
    [][\A c \in Clients :
        hook[c] = "attached" /\ hook'[c] = "sent" /\ clock <= since[c] + Grace
            => clock < carried[c] + Lifetime]_tokenVars
===============================================================================
