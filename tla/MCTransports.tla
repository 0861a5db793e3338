----------------------------- MODULE MCTransports -----------------------------
(***************************************************************************)
(* HttpExchange, Http2Sessions, NodeWebSocket and NativeSocket side by     *)
(* side for TLC: `part` says which of them moves in a behaviour; they      *)
(* share no state in the code.                                             *)
(***************************************************************************)
EXTENDS Http2Sessions, NodeWebSocket, HttpExchange, NativeSocket, TLC

CONSTANTS r1, r2, r3, k1, k2, Parts

VARIABLE part

ThreeRequests == {r1, r2, r3}
TwoKeys == {k1, k2}
Mixed == [r \in ThreeRequests |-> IF r = r2 THEN k2 ELSE k1]
Same == [r \in ThreeRequests |-> k1]

MCVars == <<poolVars, socketVars, exchangeVars, nativeVars, part>>

AllBackoffs == {"fixed", "linear", "exponential", "function"}
NumbersAndNone == {-1, 0, 1, 9}

\* Of the native socket one initial state will do where it does not move.
MCInit ==
    /\ PoolInit /\ SocketInit /\ ExchangeInit /\ NativeInit /\ part \in Parts
    /\ part # "native" => reconnects = [enabled |-> FALSE, backoff |-> "fixed"]

Pool(A) == part = "pool" /\ A /\ UNCHANGED <<socketVars, exchangeVars, nativeVars, part>>
Socket(A) == part = "socket" /\ A /\ UNCHANGED <<poolVars, exchangeVars, nativeVars, part>>
Exchange(A) == part = "exchange" /\ A /\ UNCHANGED <<poolVars, socketVars, nativeVars, part>>
Native(A) == part = "native" /\ A /\ UNCHANGED <<poolVars, socketVars, exchangeVars, part>>

MCNext == Pool(PoolNext) \/ Socket(SocketNext) \/ Exchange(ExchangeNext) \/ Native(NativeNext)
MCSpec == MCInit /\ [][MCNext]_MCVars

\* Continuations run, connect timers and response timeouts fire, ended streams and
\* sessions are reported; a socket that is being closed ends; an HTTP/1.1
\* connection does not stay active without coming to an end.
MCFairSpec ==
    /\ MCSpec
    /\ WF_MCVars(Pool(\/ \E r \in Requests : Fail(r) \/ Stream(r) \/ Settle(r) \/ StreamCloses(r)
                      \/ \E s \in Sessions : ConnectTimeout(s) \/ Ended(s)))
    /\ WF_MCVars(Socket(readyState = "closing" /\ \E k \in Wires : SocketCloses(k)))
    /\ \A e \in Exchanges :
        /\ WF_MCVars(Exchange(ConnectTimesOut(e))) /\ WF_MCVars(Exchange(Errs(e)))
        /\ WF_MCVars(Exchange(Handled(e)))
    /\ WF_MCVars(Exchange(Idles))

\* What is begun comes to an end: every HTTP/1.1 exchange settles, every HTTP/2
\* request gets a stream or an error, and a WebSocket that is closed reports it.
EachComesToAnEnd == ExchangesSettle /\ GetsAnswer /\ Closes
===============================================================================
