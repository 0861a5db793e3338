-------------------------- MODULE MCRequestPipeline --------------------------
(***************************************************************************)
(* Instances for TLC of RequestPipeline and, side by side with it, of what *)
(* callers and plugins put around and into request(): Batching,            *)
(* Concurrent, TokenRefresh, Interceptors, and FetchExchange, which is     *)
(* where its signal ends.  `part` says which of them moves in a behaviour; *)
(* they share no state in the code.                                        *)
(***************************************************************************)
EXTENDS RequestPipeline, Batching, Concurrent, TokenRefresh, Interceptors, FetchExchange, TLC

CONSTANTS r1, r2, r3, r4, k1, k2, Parts

VARIABLE part

AllRequests == {r1, r2, r3, r4}
Pair == {r1, r2}

others == <<loaderVars, concurrentVars, tokenVars>>
passing == <<interceptorVars, fetchVars>>
around == <<others, passing, part>>
MCVars == <<vars, around>>

\* Of the exchange one initial state will do where it does not move.
MCInit ==
    /\ Init /\ LoaderInit /\ ConcurrentInit /\ TokenInit /\ InterceptorInit /\ FetchInit
    /\ part \in Parts
    /\ part # "fetch" => setup = [client |-> "browser", signal |-> FALSE, token |-> FALSE]

Pipeline(A) == part = "pipeline" /\ A /\ UNCHANGED around
Loader(A) == part = "loader" /\ A /\ UNCHANGED <<vars, concurrentVars, tokenVars, passing, part>>
Fanout(A) == part = "concurrent" /\ A /\ UNCHANGED <<vars, loaderVars, tokenVars, passing, part>>
Tokens(A) == part = "token" /\ A /\ UNCHANGED <<vars, loaderVars, concurrentVars, passing, part>>
Chain(A) == part = "chain" /\ A /\ UNCHANGED <<vars, others, fetchVars, part>>
Fetching(A) == part = "fetch" /\ A /\ UNCHANGED <<vars, others, interceptorVars, part>>

\* An exchange that is done moves no more; everything else goes on, or is deadlocked.
FetchDone == step = "done" /\ UNCHANGED fetchVars

MCNext ==
    \/ Pipeline(Next) \/ Loader(LoaderNext) \/ Fanout(ConcurrentNext) \/ Tokens(TokenNext)
    \/ Chain(InterceptorNext) \/ Fetching(FetchNext) \/ Fetching(FetchDone)

MCSpec == MCInit /\ [][MCNext]_MCVars

\* The fairness of FairSpec; the scheduled callback of the loader runs, and its
\* batch function returns.
MCFairSpec ==
    /\ MCSpec
    /\ \A r \in Requests :
        /\ WF_MCVars(Pipeline(Attempt(r))) /\ WF_MCVars(Pipeline(Answered(r)))
        /\ WF_MCVars(Pipeline(Leave(r)))
        /\ WF_MCVars(Pipeline(Succeed(r))) /\ WF_MCVars(Pipeline(Resolve(r)))
        /\ WF_MCVars(Pipeline(Fail(r)))
    /\ WF_MCVars(Loader(Dispatch))
    /\ \A l \in Loads : WF_MCVars(Loader(BatchReturns(l)))

\* Terminates, for one request of each kind: r1 and r2, and r3 and r4, may be
\* exchanged in every behaviour.
EachKindTerminates == \A r \in {r1, r3} : pc[r] # "idle" ~> pc[r] = "idle"

\* Every request comes to an end, and every load of a key.
AllSettle == EachKindTerminates /\ LoadsSettle
===============================================================================
