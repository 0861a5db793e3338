----------------------------- MODULE HttpExchange -----------------------------
(***************************************************************************)
(* src/src/adapters/http.ts: the promise of nodeHttpAdapter from           *)
(* transport.request on, for exchanges that use one keep-alive connection  *)
(* of an agent after each other.  A stream response is resolved with its   *)
(* headers; headers, bodies and rates are data.                            *)
(*                                                                         *)
(* Of Node's http module the model has: requests queue for the connection; *)
(* a destroyed request takes its connection along, and reports an error    *)
(* (without a response) or cuts its response off, later; a request whose   *)
(* response and upload have ended cannot be destroyed any more, and gives  *)
(* the connection back with its close event; one that was destroyed before *)
(* it had a connection gets no socket event.                               *)
(*                                                                         *)
(* CleanedNever and EstablishedDeaf are mutated forms of the definitions   *)
(* they precede; no action uses them.                                      *)
(***************************************************************************)
EXTENDS Naturals, FiniteSets

CONSTANT Exchanges

ASSUME ExchangesAssumption == Exchanges \subseteq Nat \ {0}

VARIABLES
    settled,      \* "new" before the call, "no" while settled is FALSE, or how it settled
    connectTimer, \* the exchanges whose connect timer runs
    dials,        \* those whose onConnected listens to the socket
    hears,        \* those whose onTimeout listens to the socket
    holder,       \* the exchange that was assigned the socket, or none
    link,         \* the socket: "none", "connecting", "open", "free" (kept alive)
    req,          \* each request: "none", "open", "ended", "destroyed", "closed"
    errs,         \* the requests whose error event is to come
    response,     \* each response, up to what handleNodeHttpResponse makes of it
    upload,       \* those whose body is being written
    faulty        \* history: those whose connection failed on its own

exchangeVars == <<settled, connectTimer, dials, hears, holder, link, req, errs, response,
                  upload, faulty>>

Nobody == 0
Pending(e) == settled[e] = "no"

ExchangeInit ==
    /\ settled = [e \in Exchanges |-> "new"]
    /\ connectTimer = {} /\ dials = {} /\ hears = {}
    /\ holder = Nobody /\ link = "none"
    /\ req = [e \in Exchanges |-> "none"]
    /\ errs = {}
    /\ response = [e \in Exchanges |-> "none"]
    /\ upload = {} /\ faulty = {}

-----------------------------------------------------------------------------
\* What the handlers are made of, for the exchanges E.

\* req.destroy() of those of E that are open; the listeners of a socket that is
\* gone are never called.
StillOpen(E) == {e \in E : req[e] = "open"}
Destroyed(E) ==
    /\ req' = [e \in Exchanges |-> IF e \in StillOpen(E) THEN "destroyed" ELSE req[e]]
    /\ errs' = errs \cup {e \in StillOpen(E) : response[e] = "none"}
    /\ response' = [e \in Exchanges |-> IF e \in StillOpen(E) /\ response[e] = "body" THEN "cut" ELSE response[e]]
    /\ holder' = IF holder \in StillOpen(E) THEN Nobody ELSE holder
    /\ link' = IF holder \in StillOpen(E) THEN "none" ELSE link

\* cleanupSocketTiming of the exchanges E, while D are destroyed.
CleanedNever(E, D) ==
    dials' = (IF holder \in StillOpen(D) THEN {} ELSE dials) /\ hears' = (IF holder \in StillOpen(D) THEN {} ELSE hears)
Cleaned(E, D) ==
    /\ dials' = IF holder \in StillOpen(D) THEN {} ELSE dials \ E
    /\ hears' = IF holder \in StillOpen(D) THEN {} ELSE hears \ E

\* settled, cleanupTiming and reject or resolve: only the first time.
Settled(E, how) ==
    /\ settled' = [e \in Exchanges |-> IF e \in E /\ Pending(e) THEN how ELSE settled[e]]
    /\ connectTimer' = connectTimer \ {e \in E : Pending(e)}

\* fail and req.destroy, in either order, in one turn.
FailedAs(E, how) == Destroyed(E) /\ Settled(E, how) /\ Cleaned({e \in E : Pending(e)}, E)

-----------------------------------------------------------------------------
\* nodeHttpAdapter

\* Refused before there is a request: an aborted signal, or a socket path with https.
Refuse(e) ==
    /\ settled[e] = "new"
    /\ settled' = [settled EXCEPT ![e] = "refused"]
    /\ UNCHANGED <<connectTimer, dials, hears, holder, link, req, errs, response, upload, faulty>>

\* The request is made, its timer and its listeners; a body is being written
\* from now on, unless there is none.
Send(e) ==
    /\ settled[e] = "new"
    /\ settled' = [settled EXCEPT ![e] = "no"]
    /\ connectTimer' = connectTimer \cup {e}
    /\ req' = [req EXCEPT ![e] = "open"]
    /\ upload' \in {upload, upload \cup {e}}
    /\ UNCHANGED <<dials, hears, holder, link, errs, response, faulty>>

\* A body or a Content-Length over maxBodyLength: destroyed at once.
SendTooLarge(e) ==
    /\ settled[e] = "new"
    /\ settled' = [settled EXCEPT ![e] = "size"]
    /\ req' = [req EXCEPT ![e] = "destroyed"]
    /\ errs' = errs \cup {e}
    /\ UNCHANGED <<connectTimer, dials, hears, holder, link, response, upload, faulty>>

\* onConnected of the exchanges E.
EstablishedDeaf(E) == connectTimer' = connectTimer \ E /\ UNCHANGED hears
Established(E) == connectTimer' = connectTimer \ E /\ hears' = hears \cup E

\* The socket event: a kept-alive socket is connected already.
Assigned(e) ==
    /\ req[e] = "open" /\ holder = Nobody /\ response[e] = "none"
    /\ holder' = e
    /\ IF link = "free"
       THEN link' = "open" /\ Established({e}) /\ UNCHANGED dials
       ELSE link' = "connecting" /\ dials' = dials \cup {e} /\ UNCHANGED <<connectTimer, hears>>
    /\ UNCHANGED <<settled, req, errs, response, upload, faulty>>

\* connect or secureConnect, to which onConnected listens once.
Connects ==
    /\ link = "connecting"
    /\ link' = "open"
    /\ Established(dials) /\ dials' = {}
    /\ UNCHANGED <<settled, holder, req, errs, response, upload, faulty>>

ConnectTimesOut(e) ==
    /\ e \in connectTimer
    /\ FailedAs({e}, "connect timeout")
    /\ UNCHANGED <<upload, faulty>>

\* The socket's timeout event: onTimeout of all that listen.
Idles ==
    /\ link = "open" /\ hears # {}
    /\ FailedAs(hears, "timeout")
    /\ UNCHANGED <<upload, faulty>>

\* The signal, which is heard also after the promise has settled, if the request
\* is still there to be destroyed.
Aborts(e) ==
    /\ Pending(e) \/ req[e] = "open"
    /\ FailedAs({e}, "aborted")
    /\ UNCHANGED <<upload, faulty>>

\* The request's error event.
Errs(e) ==
    /\ e \in errs
    /\ errs' = errs \ {e}
    /\ Settled({e}, "network") /\ Cleaned({e}, {})
    /\ UNCHANGED <<holder, link, req, response, upload, faulty>>

-----------------------------------------------------------------------------
\* The connection

\* Refused, reset or closed by the other side.
Breaks ==
    /\ holder # Nobody
    /\ req[holder] = "open"
    /\ Destroyed({holder}) /\ Cleaned({}, {holder})
    /\ faulty' = faulty \cup {holder}
    /\ UNCHANGED <<settled, connectTimer, upload>>

FreeBreaks ==
    /\ link = "free"
    /\ link' = "none"
    /\ UNCHANGED <<settled, connectTimer, dials, hears, holder, req, errs, response, upload, faulty>>

\* The response event: handleNodeHttpResponse begins; a stream is the result.
Responds(e) ==
    /\ holder = e /\ link = "open" /\ req[e] = "open" /\ response[e] = "none"
    /\ \/ response' = [response EXCEPT ![e] = "body"]
       \/ response' = [response EXCEPT ![e] = "stream"]
    /\ UNCHANGED <<settled, connectTimer, dials, hears, holder, link, req, errs, upload, faulty>>

\* The last chunk, or one that exceeds maxContentLength (response.destroy()).
BodyEnds(e) ==
    /\ response[e] = "body" /\ req[e] = "open"
    /\ response' = [response EXCEPT ![e] = "whole"]
    /\ UNCHANGED <<settled, connectTimer, dials, hears, holder, link, req, errs, upload, faulty>>

BodyTooLarge(e) ==
    /\ response[e] = "body" /\ req[e] = "open"
    /\ response' = [response EXCEPT ![e] = "oversized"]
    /\ req' = [req EXCEPT ![e] = "destroyed"]
    /\ holder' = Nobody /\ link' = "none"
    /\ Cleaned({}, {e})
    /\ UNCHANGED <<settled, connectTimer, errs, upload, faulty>>

\* handleNodeHttpResponse returns or throws, a microtask or a throttle's delay later.
Handled(e) ==
    /\ response[e] \in {"stream", "whole", "oversized", "cut"}
    /\ response' = [response EXCEPT ![e] = IF response[e] = "stream" THEN "streaming" ELSE "done"]
    /\ Settled({e}, CASE response[e] = "oversized" -> "size"
                      [] response[e] = "cut" -> "network"
                      [] OTHER -> "resolved")
    /\ Cleaned({e}, {})
    /\ UNCHANGED <<holder, link, req, errs, upload, faulty>>

\* writeBufferBody and writeStreamBody end, or fail: the source breaks, grows
\* over maxBodyLength, or a write meets a destroyed request.
Uploaded(e) ==
    /\ e \in upload /\ req[e] = "open"
    /\ upload' = upload \ {e}
    /\ UNCHANGED <<settled, connectTimer, dials, hears, holder, link, req, errs, response, faulty>>

UploadFails(e) ==
    /\ e \in upload
    /\ upload' = upload \ {e}
    /\ FailedAs({e}, IF e \in faulty THEN "network" ELSE "upload")
    /\ UNCHANGED <<faulty>>

\* The response has ended and so has the upload: node is done with the request,
\* then reports its close and keeps the connection, or not.
Completes(e) ==
    /\ req[e] = "open" /\ e \notin upload
    /\ response[e] \in {"streaming", "whole", "done"}
    /\ req' = [req EXCEPT ![e] = "ended"]
    /\ UNCHANGED <<settled, connectTimer, dials, hears, holder, link, errs, response, upload, faulty>>

RequestCloses(e) ==
    /\ \/ req[e] = "ended" /\ holder' = Nobody /\ link' \in {"free", "none"}
       \/ req[e] = "destroyed" /\ e \notin errs /\ UNCHANGED <<holder, link>>
    /\ req' = [req EXCEPT ![e] = "closed"]
    /\ Cleaned({e}, {})
    /\ UNCHANGED <<settled, connectTimer, errs, response, upload, faulty>>

ExchangeNext ==
    \/ \E e \in Exchanges :
        \/ Refuse(e) \/ Send(e) \/ SendTooLarge(e) \/ Assigned(e) \/ ConnectTimesOut(e)
        \/ Aborts(e) \/ Errs(e) \/ Responds(e) \/ BodyEnds(e) \/ BodyTooLarge(e) \/ Handled(e)
        \/ Uploaded(e) \/ UploadFails(e) \/ Completes(e) \/ RequestCloses(e)
    \/ Connects \/ Idles \/ Breaks \/ FreeBreaks

ExchangeSpec == ExchangeInit /\ [][ExchangeNext]_exchangeVars

-----------------------------------------------------------------------------
Causes == {"connect timeout", "timeout", "aborted", "network", "size", "upload"}

\* Types.
ExchangeTypeOK ==
    /\ settled \in [Exchanges -> {"new", "no", "refused", "resolved"} \cup Causes]
    /\ connectTimer \subseteq Exchanges /\ dials \subseteq Exchanges /\ hears \subseteq Exchanges
    /\ holder \in Exchanges \cup {Nobody}
    /\ link \in {"none", "connecting", "open", "free"}
    /\ req \in [Exchanges -> {"none", "open", "ended", "destroyed", "closed"}]
    /\ errs \subseteq Exchanges /\ upload \subseteq Exchanges
    /\ faulty \subseteq Exchanges
    /\ response \in [Exchanges -> {"none", "body", "stream", "streaming", "whole", "oversized", "cut", "done"}]

\* However response, timeouts, abort, limits and errors race, an exchange that has
\* settled leaves no timer behind and no listener on the connection that the next
\* one uses; one that failed leaves no request open; and a network error is what
\* it says, never the echo of a timeout, an abort or a limit of neutrx's own.
NothingLeft ==
    /\ \A e \in Exchanges : settled[e] # "no" => e \notin connectTimer \cup dials \cup hears
    /\ dials \cup hears \subseteq {holder}
    /\ \A e \in Exchanges : settled[e] \in Causes => req[e] # "open"
    /\ \A e \in Exchanges : settled[e] = "network" => e \in faulty

\* Every exchange settles, also one that waits for the connection, one whose
\* connection is never established, and one that is answered half.
ExchangesSettle == \A e \in Exchanges : Pending(e) ~> ~Pending(e)
===============================================================================
