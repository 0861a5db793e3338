---------------------------- MODULE Interceptors ----------------------------
(***************************************************************************)
(* src/src/interceptors/InterceptorChain.ts: the user's handlers, and one   *)
(* pass through them at a time: a request, its response, or its error.     *)
(* Handlers are added and ejected at any time, by other handlers too.      *)
(* What a handler does is external: whether runWhen lets it run, and what   *)
(* its two functions return or throw.  Numbers are never given twice.      *)
(*                                                                         *)
(* CapturedBackwards is a mutated form of the definition it precedes; no   *)
(* action uses it.                                                         *)
(***************************************************************************)
EXTENDS Naturals, Sequences, FiniteSets, SequencesExt

CONSTANT MaxUses       \* bound on the handlers ever added

VARIABLES
    registered,    \* by side, the handlers in the order they were added
    counter,       \* the next number
    pass,          \* the pass: kind, stage, the number below which all had their turn,
                   \* and the handlers its chain of promises holds
    turns,         \* history: numbers of the handlers that had their turn, in order
    owed           \* history: numbers that were there when it began, and not ejected since

interceptorVars == <<registered, counter, pass, turns, owed>>

Sides == {"request", "response"}
PassKinds == {"request", "response", "error"}
SideOf(kind) == IF kind = "request" THEN "request" ELSE "response"
Numbered(handlers) == {h.id : h \in ToSet(handlers)}

InterceptorInit ==
    /\ registered = [s \in Sides |-> <<>>] /\ counter = 0
    /\ pass = [kind |-> "request", stage |-> "ended", from |-> 0, chain |-> <<>>]
    /\ turns = <<>> /\ owed = {}

-----------------------------------------------------------------------------
\* The managers: use, eject, clear.

Use(side, synchronous, rejects) ==
    /\ counter < MaxUses
    /\ counter' = counter + 1
    /\ registered' = [registered EXCEPT ![side] = Append(@,
           [id |-> counter, synchronous |-> synchronous /\ side = "request", rejects |-> rejects])]
    /\ UNCHANGED <<pass, turns, owed>>

Eject(id) ==
    \E side \in Sides : \E i \in DOMAIN registered[side] :
        /\ registered[side][i].id = id
        /\ registered' = [registered EXCEPT ![side] = RemoveAt(@, i)]
        /\ owed' = owed \ {id}
        /\ UNCHANGED <<counter, pass, turns>>

ClearHandlers(side) ==
    /\ registered[side] # <<>>
    /\ registered' = [registered EXCEPT ![side] = <<>>]
    /\ owed' = owed \ Numbered(registered[side])
    /\ UNCHANGED <<counter, pass, turns>>

-----------------------------------------------------------------------------
\* The passes.  A Map is iterated live: handlers added behind the current one get their
\* turn, and those ejected before theirs get none.

BeginPass(kind) ==
    /\ pass.stage \in {"ended", "failed"}
    /\ pass' = [kind |-> kind, stage |-> "looping", from |-> 0, chain |-> <<>>]
    /\ turns' = <<>>
    /\ owed' = Numbered(registered[SideOf(kind)])
    /\ UNCHANGED <<registered, counter>>

Ahead ==
    LET handlers == registered[SideOf(pass.kind)]
        left == {i \in DOMAIN handlers : handlers[i].id >= pass.from}
    IN IF left = {} THEN <<>>
       ELSE SubSeq(handlers, CHOOSE i \in left : \A j \in left : i <= j, Len(handlers))
Ended(stage) == pass' = [pass EXCEPT !.stage = stage, !.chain = <<>>]
Unmoved == UNCHANGED <<registered, counter, owed>>

\* h has its turn, which may be to be skipped.
Takes(h) == turns' = Append(turns, h.id)
Past(h) == [pass EXCEPT !.from = h.id + 1]

\* How its turn ends: with a value (it is skipped, or returns, or throws and repairs it
\* itself), or with an error that is the whole pass's.
Settled(next) == Ended("failed") \/ pass' = next

\* runRequest gives the rest of the handlers, as they are now, to a chain of promises.
CapturedBackwards == Reverse(Ahead)
Captured == Ahead

\* A synchronous handler, while there is no chain: skipped by runWhen, or called.
Synchronous ==
    /\ pass.kind = "request" /\ pass.stage = "looping" /\ Ahead # <<>> /\ Head(Ahead).synchronous
    /\ Takes(Head(Ahead)) /\ Settled(Past(Head(Ahead)))
    /\ Unmoved

\* It, or its onRejected, returns a promise: the others wait for it in the chain,
\* and if it is rejected nobody repairs that.
ReturnsPromise ==
    /\ pass.kind = "request" /\ pass.stage = "looping" /\ Ahead # <<>> /\ Head(Ahead).synchronous
    /\ Takes(Head(Ahead))
    /\ pass' = [pass EXCEPT !.stage = "promised", !.chain = Tail(Captured)]
    /\ Unmoved

PromiseSettles ==
    /\ pass.stage = "promised"
    /\ Ended("failed") \/ pass' = [pass EXCEPT !.stage = "chained"]
    /\ UNCHANGED turns /\ Unmoved

\* The first handler that is not synchronous.
Capture ==
    /\ pass.kind = "request" /\ pass.stage = "looping" /\ Ahead # <<>> /\ ~Head(Ahead).synchronous
    /\ pass' = [pass EXCEPT !.stage = "chained", !.chain = Captured]
    /\ UNCHANGED turns /\ Unmoved

\* The next of the chain, ejected or not.
Chained ==
    /\ pass.stage = "chained" /\ pass.chain # <<>>
    /\ Takes(Head(pass.chain)) /\ Settled([pass EXCEPT !.chain = Tail(@)])
    /\ Unmoved

\* runResponse: one after another, each awaited.
Response ==
    /\ pass.kind = "response" /\ pass.stage = "looping" /\ Ahead # <<>>
    /\ Takes(Head(Ahead)) /\ Settled(Past(Head(Ahead)))
    /\ Unmoved

\* runError: the first onRejected that returns has the last word; what one throws is
\* the next one's error.
Error ==
    /\ pass.kind = "error" /\ pass.stage = "looping" /\ Ahead # <<>>
    /\ Takes(Head(Ahead))
    /\ pass' = Past(Head(Ahead)) \/ (Head(Ahead).rejects /\ Ended("ended"))
    /\ Unmoved

\* Nobody is left: an error that nobody resolved is passed on.
EndPass ==
    /\ \/ pass.stage = "looping" /\ Ahead = <<>>
       \/ pass.stage = "chained" /\ pass.chain = <<>>
    /\ Ended(IF pass.kind = "error" THEN "failed" ELSE "ended")
    /\ UNCHANGED turns /\ Unmoved

InterceptorNext ==
    \/ \E side \in Sides, synchronous, rejects \in BOOLEAN : Use(side, synchronous, rejects)
    \/ \E id \in 0..MaxUses - 1 : Eject(id)
    \/ \E side \in Sides : ClearHandlers(side)
    \/ \E kind \in PassKinds : BeginPass(kind)
    \/ Synchronous \/ ReturnsPromise \/ PromiseSettles \/ Capture \/ Chained \/ Response \/ Error \/ EndPass

InterceptorSpec == InterceptorInit /\ [][InterceptorNext]_interceptorVars

-----------------------------------------------------------------------------
Handlers == [id : 0..MaxUses - 1, synchronous : BOOLEAN, rejects : BOOLEAN]

\* Types.
InterceptorTypeOK ==
    /\ counter \in 0..MaxUses /\ \A s \in Sides : ToSet(registered[s]) \subseteq Handlers
    /\ pass.kind \in PassKinds /\ pass.from \in 0..MaxUses /\ ToSet(pass.chain) \subseteq Handlers
    /\ pass.stage \in {"looping", "promised", "chained", "ended", "failed"}
    /\ ToSet(turns) \subseteq 0..MaxUses - 1 /\ owed \subseteq 0..MaxUses - 1

\* Handlers have their turn in the order they were added, each at most once, whatever
\* mixture of synchronous ones, promises and errors a pass meets and whoever is added or
\* ejected meanwhile (docs/axios-migration-matrix.md:26, :27).  And of those that were
\* there all along nobody is passed over: not by a request or response that comes
\* through, and not by an error that nobody repaired.
HandlersInTurn ==
    /\ \A i \in 1..Len(turns) - 1 : turns[i] < turns[i + 1]
    /\ pass.stage = (IF pass.kind = "error" THEN "failed" ELSE "ended") => owed \subseteq ToSet(turns)
=============================================================================
