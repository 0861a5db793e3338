---------------------------- MODULE MCResilience ----------------------------
(***************************************************************************)
(* Bulkhead and RetryEngine side by side for TLC: `part` says which of     *)
(* them moves in a behaviour; they share no state in the code.             *)
(***************************************************************************)
EXTENDS RetryEngine, Bulkhead

CONSTANTS r1, r2, r3, Parts,
    Live   \* the domains whose calls finish; those of the others may hang

VARIABLE part

\* r1 may be replayed, r2 may not, and the user's shouldRetry insists on r3.
ThreeRequests == {r1, r2, r3}
MayReplay == {r1}
Insisting == {r3}
Jumpy == {0, 2}
NoHeader == {0}
Mixed == {"security", "status503"}
NoneOrAll == {0, RequestTimeout}

-----------------------------------------------------------------------------
MCVars == <<vars, bulkheadVars, part>>

\* The last domains of a bulkhead that does not move do not matter.
MCInit ==
    /\ Init /\ BulkheadInit /\ part \in Parts
    /\ part = "bulkhead" \/ dom = CHOOSE f \in [Tasks -> Domains] : TRUE

Retrying(A) == part = "retry" /\ A /\ UNCHANGED <<bulkheadVars, part>>
Pooling(A) == part = "bulkhead" /\ A /\ UNCHANGED <<vars, part>>

MCNext == Retrying(Next) \/ Pooling(BulkheadNext)
MCSpec == MCInit /\ [][MCNext]_MCVars

\* The fairness of the retry loop's FairSpec.  Of the bulkhead, calls of a live
\* domain finish, and their queue timers need not fire; calls of another domain may
\* hang for ever, and the timers of those queued behind them fire.
MCFairSpec ==
    /\ MCSpec
    /\ WF_MCVars(Retrying(Tick)) /\ \A r \in Requests : WF_MCVars(Retrying(Step(r)))
    /\ \A t \in Tasks :
        /\ WF_MCVars(Pooling(dom[t] \in Live /\ \E outcome \in Outcomes : Finish(t, outcome)))
        /\ WF_MCVars(Pooling(dom[t] \notin Live /\ QueueTimeout(t)))

\* No call is stranded: an execute of the retry loop ends whatever callers, hooks
\* and the budget do; a call queued for a healthy domain is served although another
\* domain hangs, and one queued for a domain that hangs is let go by its timer.
NoneStranded == Terminates /\ \A t \in Tasks : status[t] = "queued" ~> status[t] # "queued"

\* Waiting calls are started in the order of their arrival, and none waits for ever.
EachGetsItsTurn == StartsInOrder /\ NoneStranded

\* Types of both.
ResilienceTypeOK == TypeOK /\ BulkheadTypeOK
=============================================================================
