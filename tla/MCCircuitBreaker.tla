--------------------------- MODULE MCCircuitBreaker ---------------------------
(***************************************************************************)
(* Instances of CircuitBreaker for TLC.  Three deployments are explored    *)
(* side by side: "alone", the one the constants describe, in which one     *)
(* process w1 serves r1 and r2; "race", the same with r3 as well, in which *)
(* every request reports, and once; and "fleet", two processes with a      *)
(* shared store, one of which may restart, in which r3 stays out again.    *)
(* Beside them Settings, from which the breaker's clients are made, and    *)
(* StateAdapters, behind which its store may be: in "settings" and in      *)
(* "adapters" nothing else moves.                                          *)
(***************************************************************************)
EXTENDS CircuitBreaker, Settings, StateAdapters, TLC

CONSTANTS w1, w2, r1, r2, r3, Deployments

VARIABLE deployment

TwoWorkers == {w1, w2}
ThreeRequests == {r1, r2, r3}
OwnerOne == [r \in ThreeRequests |-> w1]
OwnerEach == [r \in ThreeRequests |-> IF r = r2 THEN w2 ELSE w1]

Fleet == INSTANCE CircuitBreaker WITH Owner <- OwnerEach, HasStore <- TRUE, MaxRestarts <- 1, MaxUnreported <- 0

\* Three words, but two on the topics that have more ways of being set.
WordsOn == [t \in Topics |-> IF t \cap {"headers", "security"} # {} THEN 2 ELSE 3]

\* A tenant's key, another's that holds a circuit's record, and one of another adapter.
Place(adapter, space, bridge) == [adapter |-> adapter, space |-> space, name |-> "key", bridge |-> bridge]
SomePlaces == {Place("a", "t1", "none"), Place("a", "t2", "circuit"), Place("b", "none", "none")}
SomeTTL == [p \in SomePlaces |-> IF p.space = "t1" THEN 2 ELSE 1]

MCInit ==
    /\ deployment \in Deployments
    /\ IF deployment = "settings" THEN TRUE ELSE about = {"timeout"}
    /\ IF deployment = "adapters" THEN TRUE ELSE backend = "memory"
    /\ Init /\ SettingInit /\ StoreInit
InAlone(A) ==
    /\ A /\ UNCHANGED <<deployment, settingVars, storeVars>>
    /\ \/ deployment = "alone" /\ pc'[r3] = "idle"
       \/ deployment = "race" /\ unreported' = unreported /\ \A r \in Requests : op'[r] # "takeBack"
InFleet(A) == deployment = "fleet" /\ A /\ UNCHANGED <<deployment, settingVars, storeVars>>
MCNext ==
    \/ InAlone(Next)
    \/ InFleet(Fleet!Next /\ pc'[r3] = "idle")
    \/ deployment = "settings" /\ SettingNext /\ UNCHANGED <<deployment, vars, storeVars>>
    \/ deployment = "adapters" /\ StoreNext /\ UNCHANGED <<deployment, vars, settingVars>>
MCVars == <<vars, settingVars, storeVars, deployment>>
MCSpec == MCInit /\ [][MCNext]_MCVars

\* The fairness of FairSpec, for the fleet.
MCFairSpec ==
    /\ MCSpec
    /\ WF_MCVars(InFleet(Fleet!Tick))
    /\ \A r \in {r1, r2} : WF_MCVars(InFleet(Fleet!Step(r))) /\ WF_MCVars(InFleet(Fleet!CanRequest(r)))

\* Without a store `active` counts only requests in flight and those the cache
\* answered: the objects that racing requests overwrite take their counts with them.
Watched == deployment \in {"alone", "race"}
NothingLeaked == Watched => ActiveNotLeaked

\* Without a store a process keeps the promise of BreakerProtocol, although
\* concurrent first requests create several objects and overwrite each other's.
Promise ==
    INSTANCE BreakerProtocol WITH
        state <- IF Watched THEN Here(w1).state ELSE "CLOSED",
        failures <- IF Watched THEN Here(w1).failures ELSE 0,
        successes <- IF Watched THEN Here(w1).successCount ELSE 0,
        age <- IF Watched THEN Here(w1).age ELSE 0,
        inFlight <- IF Watched THEN InFlight ELSE {},
        reported <- IF Watched THEN Reported ELSE {}
KeepsPromise == Promise!ASpec

\* Recovers, of the fleet.
FleetRecovers ==
    <>[][\A r \in Requests : ~Fleet!Fails(r)]_vars
        => <>[](deployment = "fleet" => \A w \in Workers : Fleet!Here(w).state = "CLOSED")
===============================================================================
