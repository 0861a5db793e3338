---------------------------- MODULE NodeWebSocket ----------------------------
(***************************************************************************)
(* src/src/core/nodeWebSocket.ts: one connection object, its handshakes,   *)
(* reconnects, frames and close.                                           *)
(*                                                                         *)
(* The k-th #connect makes request k, which may be upgraded to socket k.   *)
(* Handlers of request or socket k change the fields of the object         *)
(* whichever request or socket those name by then: a late event of an old  *)
(* connection can make the object drop the one it has, which goes on with  *)
(* nobody to close it.  `stranded` remembers these.                        *)
(*                                                                         *)
(* HungUpNever and KeptPieces are mutated forms of the definitions they    *)
(* precede; no action uses them.                                           *)
(***************************************************************************)
EXTENDS Naturals, FiniteSets

CONSTANTS
    MaxConnects,   \* bound on the calls of #connect
    Attempts       \* reconnect.attempts; 0 stands for reconnect: false

ASSUME SocketAssumption ==
    MaxConnects \in Nat \ {0} /\ Attempts \in Nat

VARIABLES
    readyState, request, socket,    \* #request and #socket, 0 for undefined
    closedByCaller, closeNotified, timer, attempts,
    pieces,       \* the sockets whose bytes #buffer and #fragments hold
    wire,         \* what has become of request and socket k
    listening,    \* the requests whose abort listener is registered
    aborted,      \* config.signal.aborted
    stranded      \* history: connections dropped through an event of another one

socketVars == <<readyState, request, socket, closedByCaller, closeNotified, timer, attempts,
                pieces, wire, listening, aborted, stranded>>

Wires == 1..MaxConnects
Fresh == {k \in Wires : wire[k] = "unused"}

\* A wire is "leaving" after a close frame, "failing" once its request is
\* destroyed and "spent" by an answer that is no upgrade.  These are not gone
\* yet, and the object is done with them.
OnTheLine == {k \in Wires : wire[k] \in {"dialing", "open"}}

\* What an event of wire k drops when it has #request and #socket forgotten.
Others(k) == {request, socket} \ {0, k}

-----------------------------------------------------------------------------

NotYetNotified == FALSE

\* #connect and the request it makes.  With an aborted signal the request is
\* destroyed before it has any listener and the state stays CONNECTING.
Connect ==
    \E k \in Fresh :
        /\ \A j \in Fresh : k <= j
        /\ request' = k
        /\ readyState' = "connecting"
        /\ closeNotified' = NotYetNotified
        /\ IF aborted
           THEN /\ closedByCaller' = TRUE
                /\ wire' = [wire EXCEPT ![k] = "gone"]
                /\ UNCHANGED listening
           ELSE /\ wire' = [wire EXCEPT ![k] = "dialing"]
                /\ listening' = listening \cup {k}
                /\ UNCHANGED closedByCaller

\* The constructor.
SocketInit ==
    /\ readyState = "connecting" /\ request = 1 /\ socket = 0
    /\ closedByCaller = FALSE /\ closeNotified = FALSE /\ timer = FALSE /\ attempts = 0
    /\ pieces = {}
    /\ wire = [k \in Wires |-> IF k = 1 THEN "dialing" ELSE "unused"]
    /\ listening = {1}
    /\ aborted = FALSE /\ stranded = {}

Rearmed(caller) == ~caller /\ attempts < Attempts

\* #notifyClose with its #scheduleReconnect, in a handler of wire k; `caller` is
\* #closedByCaller by then.
Silenced == closeNotified
NotifyClose(k, caller) ==
    IF Silenced
    THEN UNCHANGED <<readyState, request, socket, closeNotified, timer, attempts, stranded>>
    ELSE /\ closeNotified' = TRUE
         /\ readyState' = "closed"
         /\ request' = 0 /\ socket' = 0
         /\ timer' = (timer \/ Rearmed(caller))
         /\ attempts' = IF Rearmed(caller) THEN attempts + 1 ELSE attempts
         /\ stranded' = stranded \cup Others(k)

-----------------------------------------------------------------------------
\* The handshake.

Upgrade(k) ==
    /\ wire[k] = "dialing"
    /\ wire' = [wire EXCEPT ![k] = "open"]
    /\ listening' = listening \ {k}
    /\ request' = 0 /\ socket' = k
    /\ readyState' = "open" /\ attempts' = 0
    /\ stranded' = stranded \cup Others(k)
    /\ UNCHANGED <<closedByCaller, closeNotified, timer, pieces, aborted>>

\* #isValidUpgrade is false: the socket is destroyed unlistened.
BadUpgrade(k) ==
    /\ wire[k] = "dialing"
    /\ wire' = [wire EXCEPT ![k] = "gone"]
    /\ listening' = listening \ {k}
    /\ IF Silenced
       THEN /\ request' = 0 /\ stranded' = stranded \cup ({request} \ {0, k})
            /\ UNCHANGED <<readyState, socket, closeNotified, timer, attempts>>
       ELSE NotifyClose(k, closedByCaller)
    /\ UNCHANGED <<closedByCaller, pieces, aborted>>

\* An answer that is no upgrade.
Response(k) ==
    /\ wire[k] = "dialing"
    /\ wire' = [wire EXCEPT ![k] = "spent"]
    /\ NotifyClose(k, closedByCaller)
    /\ UNCHANGED <<closedByCaller, pieces, listening, aborted>>

\* The error event: refused, connectTimeout, hung up, or destroyed.
RequestError(k) ==
    /\ wire[k] \in {"dialing", "failing", "spent"}
    /\ wire' = [wire EXCEPT ![k] = "gone"]
    /\ listening' = listening \ {k}
    /\ NotifyClose(k, closedByCaller)
    /\ UNCHANGED <<closedByCaller, pieces, aborted>>

\* The body of an answer ends.
ResponseEnds(k) ==
    /\ wire[k] = "spent"
    /\ wire' = [wire EXCEPT ![k] = "gone"]
    /\ UNCHANGED <<readyState, request, socket, closedByCaller, closeNotified, timer, attempts,
                   pieces, listening, aborted, stranded>>

\* The signal fires: the listeners that are left destroy their requests.
Abort ==
    /\ ~aborted
    /\ aborted' = TRUE
    /\ closedByCaller' = (closedByCaller \/ listening # {})
    /\ wire' = [k \in Wires |->
                    IF k \in listening /\ wire[k] \in {"dialing", "spent"} THEN "failing" ELSE wire[k]]
    /\ listening' = {}
    /\ UNCHANGED <<readyState, request, socket, closeNotified, timer, attempts, pieces, stranded>>

-----------------------------------------------------------------------------
\* Frames and the end of a socket.

\* Bytes that do not complete a message yet: part of a frame, or a fragment.
Piece(k) ==
    /\ wire[k] = "open"
    /\ pieces' = pieces \cup {k}
    /\ UNCHANGED <<readyState, request, socket, closedByCaller, closeNotified, timer, attempts,
                   wire, listening, aborted, stranded>>

\* The bytes that complete a message; it is put together from all there is.
Message(k) ==
    /\ wire[k] = "open"
    /\ pieces' = {}
    /\ UNCHANGED <<readyState, request, socket, closedByCaller, closeNotified, timer, attempts,
                   wire, listening, aborted, stranded>>

\* Opcode 8: the peer begins, or answers, the closing handshake.
CloseFrame(k) ==
    /\ wire[k] = "open"
    /\ wire' = [wire EXCEPT ![k] = "leaving"]
    /\ IF Silenced
       THEN /\ readyState' = IF readyState = "open" THEN "closing" ELSE readyState
            /\ UNCHANGED <<request, socket, closeNotified, timer, attempts, stranded>>
       ELSE NotifyClose(k, closedByCaller)
    /\ UNCHANGED <<closedByCaller, pieces, listening, aborted>>

\* The close event of a socket.
SocketCloses(k) ==
    /\ wire[k] \in {"open", "leaving"}
    /\ wire' = [wire EXCEPT ![k] = "gone"]
    /\ NotifyClose(k, closedByCaller)
    /\ UNCHANGED <<closedByCaller, pieces, listening, aborted>>

-----------------------------------------------------------------------------

HungUpNever(k) == wire[k]
HungUp(k) ==
    CASE wire[k] \in {"dialing", "spent"} -> "failing"
      [] wire[k] = "open" -> "leaving"
      [] OTHER -> wire[k]

\* close(): an open socket gets a close frame, anything else is destroyed.
Close ==
    /\ closedByCaller' = TRUE
    /\ IF readyState = "open" /\ socket # 0
       THEN /\ readyState' = "closing" /\ timer' = FALSE
            /\ UNCHANGED <<request, socket, closeNotified, attempts, wire>>
       ELSE /\ wire' = [k \in Wires |-> IF k \in {request, socket} THEN HungUp(k) ELSE wire[k]]
            /\ IF Silenced
               THEN timer' = FALSE /\ UNCHANGED <<readyState, request, socket, closeNotified, attempts>>
               ELSE /\ closeNotified' = TRUE /\ readyState' = "closed"
                    /\ request' = 0 /\ socket' = 0 /\ timer' = FALSE
                    /\ UNCHANGED attempts
    /\ UNCHANGED <<pieces, listening, aborted, stranded>>

KeptPieces == pieces
FreshPieces == {}

\* The reconnect timer.
Reconnect ==
    /\ timer
    /\ timer' = FALSE
    /\ pieces' = FreshPieces
    /\ stranded' = stranded \cup ({request} \ {0})
    /\ Connect
    /\ UNCHANGED <<socket, attempts, aborted>>

SocketNext ==
    \/ \E k \in Wires :
        \/ Upgrade(k) \/ BadUpgrade(k) \/ Response(k) \/ RequestError(k) \/ ResponseEnds(k)
        \/ Piece(k) \/ Message(k) \/ CloseFrame(k) \/ SocketCloses(k)
    \/ Abort \/ Close \/ Reconnect

SocketSpec == SocketInit /\ [][SocketNext]_socketVars

-----------------------------------------------------------------------------

\* Types.
SocketTypeOK ==
    /\ readyState \in {"connecting", "open", "closing", "closed"}
    /\ {request, socket} \subseteq Wires \cup {0}
    /\ {closedByCaller, closeNotified, timer, aborted} \subseteq BOOLEAN
    /\ attempts \in 0..Attempts
    /\ {pieces, listening, stranded} \subseteq SUBSET Wires
    /\ wire \in [Wires -> {"unused", "dialing", "open", "leaving", "failing", "spent", "gone"}]

\* But for what it dropped through an event of an old connection, the object has
\* one connection at a time, and close() reaches it: what dials or is open is the
\* current #request or #socket, and a reported close leaves nothing behind.
OneConnection ==
    \A k \in OnTheLine \ stranded :
        /\ IF wire[k] = "dialing" THEN request = k ELSE socket = k
        /\ OnTheLine \ stranded = {k}
        /\ ~closeNotified

\* After close() nothing is dialled, whatever timer, handshake or late event was
\* under way, and nothing opens but a handshake that was dropped before.
CloseIsFinal ==
    [][closedByCaller =>
         \A k \in Wires :
            /\ wire'[k] = "dialing" => wire[k] = "dialing"
            /\ wire'[k] = "open" => wire[k] = "open" \/ k \in stranded]_socketVars

\* A message is not put together from bytes of two sockets, unless one of them
\* was dropped while it was still sending.
WholeMessages ==
    [][\A k \in Wires \ stranded : Message(k) => pieces \subseteq stranded \cup {k}]_socketVars

\* A connection neither outlives its close() nor leaks into the next one.
ConnectionsApart == CloseIsFinal /\ WholeMessages

\* A close that is under way is reported, on the connections after a reconnect
\* too, unless a dropped handshake opens meanwhile and takes the socket's place.
Closes == readyState = "closing" /\ ~closeNotified ~> closeNotified \/ socket \in stranded
=============================================================================
