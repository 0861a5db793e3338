------------------------------ MODULE Endpoints ------------------------------
(***************************************************************************)
(* Service discovery: resolveServiceEndpoint of src/src/core/config.ts,    *)
(* which chooses an endpoint for a request.  The resolver is the user's    *)
(* and may answer differently each time; between its answer and the choice *)
(* nothing else runs.                                                      *)
(*                                                                         *)
(* An endpoint is [url, weight]; a weight is rounded down, and -1 is one   *)
(* that is no finite number.  Choices by hash are any constant choice.     *)
(*                                                                         *)
(* OneCounter is a mutated form of the definition it precedes; no action   *)
(* uses it.                                                                *)
(***************************************************************************)
EXTENDS Undefined, Integers, Sequences, FiniteSets, SequencesExt

CONSTANTS
    Lists,          \* what a resolver may answer: sequences of endpoints, the blank ones left out
    Bases,          \* baseURLs
    EndpointLimit,  \* maxEndpoints
    WeightLimit,    \* MAX_SERVICE_ENDPOINT_WEIGHT
    CounterLimit,   \* Number.MAX_SAFE_INTEGER
    HashOf          \* hashString of a base, with the request's URL

Urls == UNION {{list[i].url : i \in DOMAIN list} : list \in Lists}

ASSUME EndpointAssumption ==
    /\ Lists \subseteq Seq([url : Urls, weight : Int])
    /\ EndpointLimit \in Nat \ {0} /\ {WeightLimit, CounterLimit} \subseteq Nat
    /\ HashOf \in [Bases -> Nat]

VARIABLES
    balancing,   \* serviceDiscovery.strategy
    counters,    \* ServiceDiscoveryState
    chosen,      \* the endpoint last chosen, or None: the request was refused, or keeps its URL
    runs         \* history: of each base and list of urls, the last round of choices

endpointVars == <<balancing, counters, chosen, runs>>

EndpointInit ==
    /\ balancing \in {"round-robin", "random", "sticky-origin"}
    /\ counters = <<>> /\ chosen = None /\ runs = <<>>

-----------------------------------------------------------------------------
\* resolveEndpointList
Limited(list) == SubSeq(list, 1, IF Len(list) < EndpointLimit THEN Len(list) ELSE EndpointLimit)

\* weightedEndpointPool
Shares(e) ==
    IF e.weight < 0 THEN 0 ELSE IF e.weight > WeightLimit THEN WeightLimit ELSE e.weight
weightedEndpointPool(endpoints) ==
    FlattenSeq([i \in DOMAIN endpoints |-> [n \in 1..Shares(endpoints[i]) |-> endpoints[i].url]])

\* The key of a counter does not know the weights.
OneCounter(base, endpoints) == <<>>
CounterOf(base, endpoints) == <<base, [i \in DOMAIN endpoints |-> endpoints[i].url]>>

\* A history of the choices from one pool under one counter; another pool under
\* the same counter, and a counter that starts again, begin it anew.
Noted(key, pool, url, restarts) ==
    LET old  == IF key \in DOMAIN runs /\ runs[key].pool = pool /\ ~restarts THEN runs[key].urls ELSE <<>>
        urls == Append(old, url)
    IN [k \in DOMAIN runs \cup {key} |->
            IF k = key THEN [pool |-> pool, urls |-> IF Len(urls) > Len(pool) THEN Tail(urls) ELSE urls]
            ELSE runs[k]]

-----------------------------------------------------------------------------
\* A request with an absolute URL keeps it.
KeepsURL == chosen' = None /\ UNCHANGED <<balancing, counters, runs>>

\* An endpoint is chosen; without one that is eligible the request is refused.
Choose(base, list) ==
    LET endpoints == Limited(list)
        pool      == weightedEndpointPool(endpoints)
        key       == CounterOf(base, endpoints)
        current   == IF key \in DOMAIN counters THEN counters[key] ELSE 0
        place     == <<base, [i \in DOMAIN endpoints |-> endpoints[i].url]>>
    IN /\ UNCHANGED balancing
       /\ CASE pool = <<>> -> chosen' = None /\ UNCHANGED <<counters, runs>>
            [] pool # <<>> /\ balancing = "random" ->
                   /\ \E i \in DOMAIN pool : chosen' = pool[i]
                   /\ UNCHANGED <<counters, runs>>
            [] pool # <<>> /\ balancing = "sticky-origin" ->
                   /\ chosen' = pool[1 + (HashOf[base] % Len(pool))]
                   /\ UNCHANGED <<counters, runs>>
            [] pool # <<>> /\ balancing = "round-robin" ->
                   /\ counters' = [k \in DOMAIN counters \cup {key} |->
                          IF k # key THEN counters[k] ELSE IF current >= CounterLimit THEN 0 ELSE current + 1]
                   /\ chosen' = pool[1 + (current % Len(pool))]
                   /\ runs' = Noted(place, pool, chosen', current = 0)

EndpointNext == KeepsURL \/ \E base \in Bases, list \in Lists : Choose(base, list)

EndpointSpec == EndpointInit /\ [][EndpointNext]_endpointVars

-----------------------------------------------------------------------------
Times(urls, url) == Cardinality({i \in DOMAIN urls : urls[i] = url})

\* Types.
EndpointTypeOK ==
    /\ balancing \in {"round-robin", "random", "sticky-origin"}
    /\ \A k \in DOMAIN counters : counters[k] \in 0..CounterLimit
    /\ \A k \in DOMAIN runs : Len(runs[k].urls) \in 1..Len(runs[k].pool)
    /\ chosen = None \/ \E list \in Lists, i \in 1..EndpointLimit : i \in DOMAIN list /\ list[i].url = chosen

\* Everybody has the share it is entitled to.  Whoever else asks, with other lists and
\* other base URLs in between, in every round of as many choices as the pool is long
\* each endpoint has exactly its weight of them, wherever the round begins; and so it
\* is from the next choice on when the weights change.
FairShares ==
    \A k \in DOMAIN runs :
        LET run == runs[k]
        IN /\ Len(run.urls) = Len(run.pool) =>
                  \A url \in Range(run.pool) : Times(run.urls, url) = Times(run.pool, url)
           /\ \A url \in Range(run.urls) : Times(run.urls, url) <= Times(run.pool, url)
=============================================================================
