------------------------------- MODULE Hedging -------------------------------
(***************************************************************************)
(* hedged of NeutrxClient (src/src/core/NeutrxClient.ts, of which the      *)
(* browser's client has a copy): the same request several times, each one  *)
(* `delay` later than the last, until the first of them settles.           *)
(*                                                                         *)
(* A request, which is external here, answers or fails whenever it likes,  *)
(* a request whose signal has fired too, and a function that makes one may *)
(* throw.  Timers fire in the order in which they are due, and continue-   *)
(* ations run before the next timer.                                       *)
(*                                                                         *)
(* LosersBehind is a mutated form of the definition it precedes; no action *)
(* uses it.                                                                *)
(***************************************************************************)
EXTENDS Naturals, FiniteSets

CONSTANT Hedges    \* how many requests hedged is given

ASSUME HedgeAssumption == Hedges \in Nat \ {0}

VARIABLES
    leg,       \* by index, where its promise has got to
    signals,   \* the indices whose controller has aborted
    first,     \* the index whose promise settled first, or 0
    hedge,     \* the promise of hedged itself
    belated    \* history: the requests sent after that was settled

hedgeVars == <<leg, signals, first, hedge, belated>>

Legs == 1..Hedges
UnderWay == {i \in Legs : leg[i] = "sent"}

HedgeInit ==
    /\ leg = [i \in Legs |-> "sleeping"]
    /\ signals = {} /\ first = 0
    /\ hedge = "racing" /\ belated = {}

\* Promise.race hears of the first promise that settles, and of no other.
Settles(i, how) ==
    /\ leg' = [leg EXCEPT ![i] = how]
    /\ first' = IF first = 0 THEN i ELSE first

\* The first request at once, the others when their sleep is over.  One whose signal has
\* fired by then is refused before anything is sent.
Wake(i) ==
    /\ leg[i] = "sleeping" /\ \A j \in 1..(i - 1) : leg[j] # "sleeping"
    /\ ~(hedge = "racing" /\ first # 0)
    /\ \/ i \notin signals
          /\ leg' = [leg EXCEPT ![i] = "sent"] /\ first' = first
          /\ belated' = IF hedge = "racing" THEN belated ELSE belated \cup {i}
       \/ Settles(i, "failed") /\ UNCHANGED belated
    /\ UNCHANGED <<signals, hedge>>

LegSettles(i) ==
    /\ leg[i] = "sent"
    /\ \E how \in {"answered", "failed"} : Settles(i, how)
    /\ UNCHANGED <<signals, hedge, belated>>

LosersBehind(i) == {j \in Legs : j > i}
Losers(i) == Legs \ {i}

\* The continuation of hedged: the losers are aborted, or the error is thrown.
Conclude ==
    /\ hedge = "racing" /\ first # 0
    /\ IF leg[first] = "answered"
       THEN hedge' = "won" /\ signals' = Losers(first)
       ELSE hedge' = "lost" /\ UNCHANGED signals
    /\ UNCHANGED <<leg, first, belated>>

HedgeNext == Conclude \/ \E i \in Legs : Wake(i) \/ LegSettles(i)

HedgeSpec == HedgeInit /\ [][HedgeNext]_hedgeVars

-----------------------------------------------------------------------------
\* Once a hedged call has its answer no other of its requests is sent, and those under
\* way have been told to stop.  (One that has failed leaves the others alone: they are
\* sent when their time comes, for nobody.)
LosersStopped ==
    hedge = "won" => belated = {} /\ UnderWay \subseteq signals
===============================================================================
