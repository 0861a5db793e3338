---------------------------- MODULE MCCacheEngine ----------------------------
(***************************************************************************)
(* Instances for TLC of CacheEngine, and beside it of what a request's     *)
(* bodies and errors are made of: FetchBodies and Failures.  `part` says   *)
(* which of them moves in a behaviour; they share no state in the code.    *)
(***************************************************************************)
EXTENDS CacheEngine, Failures, FetchBodies, TLC

CONSTANTS k1, k2, r1, r2, t1, t2, Parts

VARIABLE part

-----------------------------------------------------------------------------
\* CacheEngine.

OneKey == {k1}
TwoKeys == {k1, k2}
OneRequest == {r1}
TwoRequests == {r1, r2}
TwoTasks == {t1, t2}

-----------------------------------------------------------------------------
\* Failures: every code and status that the lists and the classes name, and one of
\* those that they do not.

SomeCodes ==
    {"ECONNREFUSED", "ENOTFOUND", "ETIMEDOUT", "ECONNRESET", "ENETUNREACH", "ERR_HTTP2_STREAM_ERROR",
     "EPIPE", "CERT_HAS_EXPIRED", "DEPTH_ZERO_SELF_SIGNED_CERT", None}
SomeStatuses == {304, 404, 408, 429, 500, 501, 502, 503, 504}

-----------------------------------------------------------------------------
\* FetchBodies: a body of two parts, and an answer of none, of the limit's size or of
\* more, with its length given or not.

Request(client, body, watched, type, streams, blobs, answer, declared, told) ==
    [client |-> client, body |-> body, watched |-> watched, type |-> type, streams |-> streams,
     blobs |-> blobs, reply |-> answer, limit |-> 3, parts |-> <<1, 2>>, declared |-> declared,
     told |-> told]
BodiesOf(client) ==
    {"none", "text", "form", "stream"} \cup (IF client = "fetch" THEN {"readable"} ELSE {})
SomeExchanges ==
    UNION {{Request(client, body, w, type, s, b, answer, declared, told) :
              body \in BodiesOf(client), w \in BOOLEAN, type \in {"text", "blob", "stream"},
              s \in BOOLEAN, b \in BOOLEAN, answer \in {<<>>, <<2, 1>>, <<3, 1>>},
              declared \in {None, 3}, told \in {None, 3}} :
            client \in {"fetch", "plain", "browser"}}

-----------------------------------------------------------------------------
StoreVars == <<cacheVars, failureVars, fetchBodyVars, part>>

\* Of a part that does not move one initial state will do.
One(S) == CHOOSE x \in S : TRUE
MCInit ==
    /\ part \in Parts
    /\ IF part = "failures" THEN TRUE
       ELSE made = [client |-> "node", method |-> "GET", keyed |-> FALSE, clarify |-> FALSE]
    /\ IF part = "bodies" THEN TRUE ELSE exchange = One(Exchanges)
    /\ CacheInit /\ FailureInit /\ FetchBodiesInit

\* What moves when only p does.
Only(p) ==
    /\ part = p /\ UNCHANGED part
    /\ p # "cache" => UNCHANGED cacheVars
    /\ p # "failures" => UNCHANGED failureVars
    /\ p # "bodies" => UNCHANGED fetchBodyVars

MCNext ==
    \/ Only("cache") /\ CacheNext
    \/ Only("failures") /\ FailureNext
    \/ Only("bodies") /\ FetchBodiesNext

MCSpec == MCInit /\ [][MCNext]_StoreVars
MCFairSpec == MCSpec /\ CacheFairness
=============================================================================
