----------------------------- MODULE NativeSocket -----------------------------
(***************************************************************************)
(* createNativeWebSocketConnection of src/src/core/websocket.ts: a         *)
(* connection over the platform's WebSocket that reconnects.               *)
(*                                                                         *)
(* The platform's socket is external: it opens or not, is closed by either *)
(* side, and its close event is its last.  Handlers and constructors are   *)
(* the user's and may throw.                                               *)
(*                                                                         *)
(* DisconnectForgetsTimer is a mutated form of the definition it precedes; *)
(* no action uses it.                                                      *)
(***************************************************************************)
EXTENDS Numbers, Integers

CONSTANTS
    Backoffs,         \* "fixed", "linear", "exponential" or "function", of the configurations
    Tries,            \* reconnect.attempts
    Delay, LongestDelay, Factor,
    Given             \* what a backoff function returns, negative ones for no number

ASSUME NativeAssumption ==
    /\ {Tries, Delay, LongestDelay} \subseteq Nat /\ Factor \in Nat \ {0}
    /\ Backoffs \subseteq {"fixed", "linear", "exponential", "function"} /\ Given \subseteq Int

VARIABLES
    reconnects,       \* whether reconnect is enabled, and its backoff
    native,           \* readyState of the socket: "connecting", "open", "closing", "closed"
    retried,          \* attempts
    pending,          \* whether the timer is set
    delay,            \* what it was last set to
    quit,             \* closedByCaller
    drops,            \* history: close events since the last open
    broken            \* history: a handler of close, or a constructor, has thrown

nativeVars == <<reconnects, native, retried, pending, delay, quit, drops, broken>>

NativeInit ==
    /\ reconnects \in [enabled : BOOLEAN, backoff : Backoffs]
    /\ native = "connecting" /\ retried = 0 /\ pending = FALSE /\ delay = 0 /\ quit = FALSE
    /\ drops = 0 /\ broken = FALSE

-----------------------------------------------------------------------------
canReconnect(attempts) == reconnects.enabled /\ attempts < Tries

\* reconnectDelay, before the limit: of a function, any delay it gives.
RawDelays(attempt) ==
    CASE reconnects.backoff = "fixed"       -> {Delay}
      [] reconnects.backoff = "linear"      -> {Delay * attempt}
      [] reconnects.backoff = "exponential" -> {Delay * Factor ^ (attempt - 1)}
      [] reconnects.backoff = "function"    -> Given
reconnectDelay(raw) == Smaller(LongestDelay, IF raw >= 0 THEN raw ELSE Delay)

\* onopen: what a handler throws changes nothing.
Opens ==
    /\ native = "connecting"
    /\ native' = "open" /\ retried' = 0 /\ drops' = 0
    /\ UNCHANGED <<reconnects, pending, delay, quit, broken>>

\* onclose, after the user's handler, which may close the connection or throw.
ReconnectAgain ==
    IF quit' \/ ~canReconnect(retried)
    THEN UNCHANGED <<retried, pending, delay>>
    ELSE /\ retried' = retried + 1 /\ pending' = TRUE
         /\ \E raw \in RawDelays(retried + 1) : delay' = reconnectDelay(raw)

Drops ==
    /\ native # "closed"
    /\ native' = "closed" /\ drops' = drops + 1
    /\ \/ quit' \in {quit, TRUE} /\ ReconnectAgain /\ UNCHANGED broken
       \/ broken' = TRUE /\ UNCHANGED <<retried, pending, delay, quit>>
    /\ UNCHANGED reconnects

\* The timer's callback constructs the next socket, or its constructor throws.
TimerConnects ==
    /\ pending
    /\ pending' = FALSE
    /\ \/ native' = "connecting" /\ UNCHANGED broken
       \/ broken' = TRUE /\ UNCHANGED native
    /\ UNCHANGED <<reconnects, retried, delay, quit, drops>>

\* close(): the socket's own close() throws when it does not like the code, and does
\* nothing if it is closing or closed.
DisconnectForgetsTimer ==
    /\ quit' = TRUE
    /\ native' \in {native, IF native \in {"connecting", "open"} THEN "closing" ELSE native}
    /\ UNCHANGED <<reconnects, retried, pending, delay, drops, broken>>
Disconnect ==
    /\ quit' = TRUE /\ pending' = FALSE
    /\ native' \in {native, IF native \in {"connecting", "open"} THEN "closing" ELSE native}
    /\ UNCHANGED <<reconnects, retried, delay, drops, broken>>

NativeNext == Opens \/ Drops \/ TimerConnects \/ Disconnect

NativeSpec == NativeInit /\ [][NativeNext]_nativeVars

-----------------------------------------------------------------------------
\* Types.
NativeTypeOK ==
    /\ reconnects \in [enabled : BOOLEAN, backoff : Backoffs]
    /\ native \in {"connecting", "open", "closing", "closed"} /\ retried \in 0..Tries
    /\ {pending, quit, broken} \subseteq BOOLEAN /\ delay \in 0..LongestDelay /\ drops \in Nat

\* A connection is given up for a reason: reconnecting is off, the caller closed it,
\* a handler or a constructor threw, or as many reconnects as may be tried
\* (docs/api.md:399) have failed since it was last open, no fewer and no more.  Once
\* closed by the caller it never comes back, and no timer runs beside a socket.
GivenUpForAReason ==
    /\ native = "closed" /\ ~pending =>
           ~reconnects.enabled \/ quit \/ broken \/ drops = Tries + 1
    /\ drops <= Tries + 1
    /\ pending => native = "closed" /\ ~quit
===============================================================================
