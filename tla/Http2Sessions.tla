---------------------------- MODULE Http2Sessions ----------------------------
(***************************************************************************)
(* src/src/adapters/http2.ts: the table of HTTP/2 sessions of one client   *)
(* and the streams its requests open on them.                              *)
(*                                                                         *)
(* The handlers of a session (close, error, goaway, timeout, the connect   *)
(* timer) name the record they change by its key: they act on whatever     *)
(* record the key has when they run.  A session is closed gracefully       *)
(* (`close`, it ends with its last stream) or destroyed; its error and     *)
(* close events come later.  Continuations of awaits run before the next   *)
(* event (the microtask queue).                                            *)
(*                                                                         *)
(* SlotKept is a mutated form of the definition it precedes; no action     *)
(* uses it.                                                                *)
(***************************************************************************)
EXTENDS Naturals, Sequences, FiniteSets, SequencesExt

CONSTANTS
    Requests, Keys,
    KeyOf,          \* sessionKey(...) of each request: origin, TLS settings, owner
    SessionBound,   \* bound on the sessions ever opened
    MaxSessions,    \* http2Options.maxSessions
    StreamLimit     \* streamLimitFor(record, http2Options.maxConcurrentStreams)

ASSUME PoolAssumption ==
    /\ KeyOf \in [Requests -> Keys] /\ IsFiniteSet(Requests) /\ Keys # {}
    /\ SessionBound \in Nat /\ MaxSessions \in Nat \ {0} /\ StreamLimit \in Nat \ {0}

VARIABLES
    sessions,       \* the Map: ids of the registered sessions, in insertion order
    opened,         \* how many sessions were opened; the ids are 1..opened
    key,            \* record.key
    net,            \* record.session: what has become of it
    ready,          \* record.ready, and with it the connect timer
    activeStreams,  \* record.activeStreams
    pc, at          \* where each request is, and the session it was given

poolVars == <<sessions, opened, key, net, ready, activeStreams, pc, at>>

Sessions == 1..SessionBound

\* "failing" and "destroyed": destroyed with or without an error, events pending.
Alive(s) == net[s] \in {"connecting", "open"}

\* The requests whose stream on s is not closed; `settled` ones have a response
\* or an error already.
Streams(s) == {r \in Requests : at[r] = s /\ pc[r] \in {"streaming", "settled"}}

\* sessions.get, .delete and .set
Registered(k) == {s \in ToSet(sessions) : key[s] = k}
Place(k, table) == {i \in DOMAIN table : key[table[i]] = k}
Without(k, table) ==
    IF Place(k, table) = {} THEN table ELSE RemoveAt(table, CHOOSE i \in Place(k, table) : TRUE)
Inserted(s, k, table) ==
    IF Place(k, table) = {} THEN Append(table, s)
    ELSE [table EXCEPT ![CHOOSE i \in Place(k, table) : TRUE] = s]

\* session.close() of the sessions S.
Closed(S) ==
    [s \in Sessions |->
        IF s \in S /\ Alive(s)
        THEN IF Streams(s) = {} THEN "destroyed" ELSE "closing"
        ELSE net[s]]

PoolInit ==
    /\ sessions = <<>> /\ opened = 0
    /\ key = [s \in Sessions |-> CHOOSE k \in Keys : TRUE]
    /\ net = [s \in Sessions |-> "none"]
    /\ ready = [s \in Sessions |-> "none"]
    /\ activeStreams = [s \in Sessions |-> 0]
    /\ pc = [r \in Requests |-> "idle"]
    /\ at = [r \in Requests |-> 0]

-----------------------------------------------------------------------------
\* getSession

\* A registered session that is neither closed nor destroyed is shared, also
\* while it connects.
Share(r) ==
    /\ pc[r] = "idle"
    /\ \E s \in Registered(KeyOf[r]) :
        /\ Alive(s)
        /\ at' = [at EXCEPT ![r] = s]
    /\ pc' = [pc EXCEPT ![r] = "waiting"]
    /\ UNCHANGED <<sessions, opened, key, net, ready, activeStreams>>

Crowded == Len(sessions) >= MaxSessions

\* Otherwise the oldest record makes room and a new session connects.
Open(r) ==
    LET k == KeyOf[r]
        s == opened + 1
        evicted == IF Crowded THEN {Head(sessions)} ELSE {}
        kept == IF Crowded THEN Tail(sessions) ELSE sessions
    IN /\ pc[r] = "idle"
       /\ ~\E other \in Registered(k) : Alive(other)
       /\ opened < SessionBound
       /\ opened' = s
       /\ key' = [key EXCEPT ![s] = k]
       /\ sessions' = Inserted(s, k, kept)
       /\ net' = [Closed(evicted) EXCEPT ![s] = "connecting"]
       /\ ready' = [ready EXCEPT ![s] = "pending"]
       /\ pc' = [pc EXCEPT ![r] = "waiting"]
       /\ at' = [at EXCEPT ![r] = s]
       /\ UNCHANGED activeStreams

-----------------------------------------------------------------------------
\* http2Adapter, after `await getSession`

Woken(r) == pc[r] = "waiting" /\ ready[at[r]] # "pending"

\* The session did not connect, has no stream to spare, or was closed since
\* getSession looked at it (session.request throws).
Fail(r) ==
    /\ Woken(r)
    /\ \/ ready[at[r]] = "failed"
       \/ activeStreams[at[r]] >= StreamLimit
       \/ net[at[r]] # "open"
    /\ pc' = [pc EXCEPT ![r] = "failed"]
    /\ UNCHANGED <<sessions, opened, key, net, ready, activeStreams, at>>

Stream(r) ==
    /\ Woken(r)
    /\ ready[at[r]] = "ok" /\ activeStreams[at[r]] < StreamLimit /\ net[at[r]] = "open"
    /\ activeStreams' = [activeStreams EXCEPT ![at[r]] = @ + 1]
    /\ pc' = [pc EXCEPT ![r] = "streaming"]
    /\ UNCHANGED <<sessions, opened, key, net, ready, at>>

-----------------------------------------------------------------------------
\* Events; they wait for the continuations of the turn before.
Turn == ~\E r \in Requests : Woken(r)

\* finish or fail: the response, its headers alone for a stream response, the
\* response timeout, an abort, a size limit or an error of the stream.
Settle(r) ==
    /\ Turn /\ pc[r] = "streaming"
    /\ pc' = [pc EXCEPT ![r] = "settled"]
    /\ UNCHANGED <<sessions, opened, key, net, ready, activeStreams, at>>

SlotKept(s) == activeStreams[s]
SlotReturned(s) == IF activeStreams[s] = 0 THEN 0 ELSE activeStreams[s] - 1

\* The close event of a stream.  One that is reset without an error code closes
\* with neither `end` nor `error`: its request stays pending ("lost").  The
\* last stream of a closing session takes the session with it.
StreamCloses(r) ==
    LET s == at[r] IN
    /\ Turn /\ pc[r] \in {"streaming", "settled"}
    /\ activeStreams' = [activeStreams EXCEPT ![s] = SlotReturned(s)]
    /\ pc' = [pc EXCEPT ![r] = IF @ = "settled" THEN "done" ELSE "lost"]
    /\ net' = [net EXCEPT ![s] = IF @ = "closing" /\ Streams(s) = {r} THEN "destroyed" ELSE @]
    /\ UNCHANGED <<sessions, opened, key, ready, at>>

Connected(s) ==
    /\ Turn /\ net[s] = "connecting"
    /\ net' = [net EXCEPT ![s] = "open"]
    /\ ready' = [ready EXCEPT ![s] = IF @ = "pending" THEN "ok" ELSE @]
    /\ UNCHANGED <<sessions, opened, key, activeStreams, pc, at>>

\* The connect timer is only cleared by the connect and error events.
Armed(s) == ready[s] = "pending"

ConnectTimeout(s) ==
    /\ Turn /\ Armed(s)
    /\ ready' = [ready EXCEPT ![s] = "failed"]
    /\ net' = [net EXCEPT ![s] = IF @ = "connecting" THEN "destroyed" ELSE @]
    /\ sessions' = Without(key[s], sessions)
    /\ UNCHANGED <<opened, key, activeStreams, pc, at>>

\* The connection breaks; Node destroys the session and its streams.
Break(s) ==
    /\ Turn /\ net[s] \in {"connecting", "open", "closing"}
    /\ net' = [net EXCEPT ![s] = "failing"]
    /\ UNCHANGED <<sessions, opened, key, ready, activeStreams, pc, at>>

\* The error event, if there was an error, and the close event.
Ended(s) ==
    /\ Turn /\ net[s] \in {"failing", "destroyed"}
    /\ net' = [net EXCEPT ![s] = "closed"]
    /\ ready' = [ready EXCEPT ![s] = IF @ = "pending" /\ net[s] = "failing" THEN "failed" ELSE @]
    /\ sessions' = Without(key[s], sessions)
    /\ UNCHANGED <<opened, key, activeStreams, pc, at>>

\* Node closes the session, or destroys it if the frame carries an error; the
\* handler retires what is registered.
GoAway(s) ==
    /\ Turn /\ net[s] \in {"open", "closing"}
    /\ \/ net' = Closed({s} \cup Registered(key[s]))
       \/ net' = [Closed(Registered(key[s])) EXCEPT ![s] = "failing"]
    /\ sessions' = Without(key[s], sessions)
    /\ UNCHANGED <<opened, key, ready, activeStreams, pc, at>>

\* http2Options.sessionTimeout: nothing has moved on s for that long.
IdleTimeout(s) ==
    /\ Turn /\ net[s] \in {"connecting", "open", "closing"}
    /\ net' = Closed(Registered(key[s]))
    /\ sessions' = Without(key[s], sessions)
    /\ UNCHANGED <<opened, key, ready, activeStreams, pc, at>>

\* closeHttp2Sessions(owner), from client.destroy().
CloseSessions ==
    /\ sessions # <<>>
    /\ net' = Closed(ToSet(sessions))
    /\ sessions' = <<>>
    /\ UNCHANGED <<opened, key, ready, activeStreams, pc, at>>

PoolNext ==
    \/ \E r \in Requests : Share(r) \/ Open(r) \/ Fail(r) \/ Stream(r) \/ Settle(r) \/ StreamCloses(r)
    \/ \E s \in Sessions : Connected(s) \/ ConnectTimeout(s) \/ Break(s) \/ Ended(s) \/ GoAway(s) \/ IdleTimeout(s)
    \/ CloseSessions

PoolSpec == PoolInit /\ [][PoolNext]_poolVars

-----------------------------------------------------------------------------

\* Types.
PoolTypeOK ==
    /\ sessions \in Seq(Sessions) /\ opened \in 0..SessionBound
    /\ key \in [Sessions -> Keys]
    /\ net \in [Sessions -> {"none", "connecting", "open", "closing", "destroyed", "failing", "closed"}]
    /\ ready \in [Sessions -> {"none", "pending", "ok", "failed"}]
    /\ activeStreams \in [Sessions -> Nat]
    /\ pc \in [Requests -> {"idle", "waiting", "streaming", "settled", "done", "lost", "failed"}]
    /\ at \in [Requests -> Sessions \cup {0}]

\* docs/api.md:377, maxConcurrentStreams: a session's count is that of its open
\* streams, through early responses, timeouts, aborts and retirement, and stays
\* within the limit although many requests waited for the same session.
StreamsCounted ==
    \A s \in Sessions : activeStreams[s] = Cardinality(Streams(s)) /\ activeStreams[s] <= StreamLimit

\* The table holds one record per key and at most maxSessions records.
PoolBounded ==
    /\ Len(sessions) <= MaxSessions
    /\ \A s, t \in ToSet(sessions) : key[s] = key[t] => s = t

\* Both, which is what getSession decides on.
TableExact == StreamsCounted /\ PoolBounded

\* Whatever happens to the session it waits for, also when the session is
\* retired before it has connected, a request gets a stream or an error.
GetsAnswer == \A r \in Requests : pc[r] = "waiting" ~> pc[r] # "waiting"

-----------------------------------------------------------------------------
\* What the documentation says and the code does not do.

\* docs/config-reference.md:258: "Sessions are reused by origin and compatible
\* TLS settings until they are closed, receive GOAWAY, exceed `maxSessions`, or
\* sit idle longer than `sessionTimeout`": no second one beside an open one.
Reused ==
    \A s, t \in Sessions : Alive(s) /\ Alive(t) /\ key[s] = key[t] => s = t
=============================================================================
