---------------------------- MODULE TransportProofs ----------------------------
(***************************************************************************)
(* Theorems about the transports: of HttpExchange, for any number of       *)
(* exchanges, types and that a settled exchange leaves nothing behind; of  *)
(* Http2Sessions, for any requests, keys and limits, that streams are      *)
(* counted and the table of sessions is bounded; of NodeWebSocket, for     *)
(* any number of connects and attempts, types always, and one connection   *)
(* at a time, and none after close(), when old requests and sockets end    *)
(* before the reconnect.                                                   *)
(***************************************************************************)
EXTENDS HttpExchange, Http2Sessions, NodeWebSocket, FiniteSetTheorems, SequenceTheorems, TLAPS

\* How the state of the request, its response and its promise go together.
\* Before the call there is nothing.
Untouched ==
    \A e \in Exchanges :
        settled[e] \in {"new", "refused"} => req[e] = "none" /\ response[e] = "none"

\* A pending exchange has a request; one that was resolved has been handled.
Answered ==
    \A e \in Exchanges :
        /\ settled[e] = "no" => req[e] # "none"
        /\ settled[e] = "resolved" => response[e] \in {"streaming", "done"}

\* The connection belongs to the one request that is answered on it, until it closes.
Linked ==
    /\ holder # Nobody => req[holder] \in {"open", "ended"}
    /\ \A e \in Exchanges :
        (req[e] = "open" /\ response[e] # "none") \/ req[e] = "ended" => holder = e

\* Only what was destroyed reports an error, and only a connection that failed
\* reports one to a promise that is still pending.
Blamed ==
    \A e \in Exchanges :
        /\ e \in errs => req[e] = "destroyed" /\ (Pending(e) => e \in faulty)
        /\ response[e] \in {"cut", "oversized"} => req[e] \notin {"none", "open"}
        /\ response[e] = "cut" /\ Pending(e) => e \in faulty

IInv == ExchangeTypeOK /\ Untouched /\ Answered /\ Linked /\ Blamed /\ NothingLeft


LEMMA Initial == ExchangeInit => IInv
BY DEF ExchangeInit, IInv, ExchangeTypeOK, Untouched, Answered, Linked, Blamed, NothingLeft,
       Causes, Nobody, Pending

-----------------------------------------------------------------------------
\* Every handler keeps the invariant.
LEMMA RefuseKeeps ==
  ASSUME IInv, NEW e \in Exchanges, Refuse(e) PROVE IInv'
<1>1. ExchangeTypeOK'
  BY DEF Refuse, IInv, ExchangeTypeOK, Causes, Nobody
<1>2. Untouched'
  BY DEF Refuse, IInv, ExchangeTypeOK, Untouched
<1>3. Answered'
  BY DEF Refuse, IInv, ExchangeTypeOK, Answered
<1>4. Linked'
  BY DEF Refuse, IInv, ExchangeTypeOK, Linked, Nobody
<1>5. Blamed'
  BY DEF Refuse, IInv, ExchangeTypeOK, Blamed, Pending
<1>6. NothingLeft'
  BY DEF Refuse, IInv, ExchangeTypeOK, NothingLeft, Causes, Nobody, Pending
<1>7. QED
  BY <1>1, <1>2, <1>3, <1>4, <1>5, <1>6 DEF IInv

LEMMA SendKeeps ==
  ASSUME IInv, NEW e \in Exchanges, Send(e) PROVE IInv'
<1>1. ExchangeTypeOK'
  BY DEF Send, IInv, ExchangeTypeOK, Causes, Nobody
<1>2. Untouched'
  BY DEF Send, IInv, ExchangeTypeOK, Untouched
<1>3. Answered'
  BY DEF Send, IInv, ExchangeTypeOK, Answered
<1>4. Linked'
  BY DEF Send, IInv, ExchangeTypeOK, Untouched, Linked, Nobody
<1>5. Blamed'
  BY DEF Send, IInv, ExchangeTypeOK, Untouched, Blamed, Pending
<1>6. NothingLeft'
  BY DEF Send, IInv, ExchangeTypeOK, NothingLeft, Causes, Nobody, Pending
<1>7. QED
  BY <1>1, <1>2, <1>3, <1>4, <1>5, <1>6 DEF IInv

LEMMA SendTooLargeKeeps ==
  ASSUME IInv, NEW e \in Exchanges, SendTooLarge(e) PROVE IInv'
<1>1. ExchangeTypeOK'
  BY DEF SendTooLarge, IInv, ExchangeTypeOK, Causes, Nobody
<1>2. Untouched'
  BY DEF SendTooLarge, IInv, ExchangeTypeOK, Untouched
<1>3. Answered'
  BY DEF SendTooLarge, IInv, ExchangeTypeOK, Answered
<1>4. Linked'
  BY DEF SendTooLarge, IInv, ExchangeTypeOK, Untouched, Linked, Nobody
<1>5. Blamed'
  BY DEF SendTooLarge, IInv, ExchangeTypeOK, Blamed, Pending
<1>6. NothingLeft'
  BY DEF SendTooLarge, IInv, ExchangeTypeOK, NothingLeft, Causes, Nobody, Pending
<1>7. QED
  BY <1>1, <1>2, <1>3, <1>4, <1>5, <1>6 DEF IInv

LEMMA AssignedKeeps ==
  ASSUME IInv, NEW e \in Exchanges, Assigned(e) PROVE IInv'
<1>1. ExchangeTypeOK'
  <2>1. CASE link = "free"
    BY <2>1 DEF Assigned, Established, IInv, ExchangeTypeOK
  <2>2. CASE link # "free"
    BY <2>2 DEF Assigned, IInv, ExchangeTypeOK
  <2>3. QED
    BY <2>1, <2>2
<1>2. Untouched'
  BY DEF Assigned, IInv, ExchangeTypeOK, Untouched
<1>3. Answered'
  BY DEF Assigned, IInv, ExchangeTypeOK, Answered
<1>4. Linked'
  BY ExchangesAssumption DEF Assigned, IInv, ExchangeTypeOK, Linked, Nobody
<1>5. Blamed'
  BY DEF Assigned, IInv, ExchangeTypeOK, Blamed, Pending
<1>6. NothingLeft'
  <2>1. Pending(e)
    BY DEF Assigned, IInv, ExchangeTypeOK, Untouched, Answered, NothingLeft, Causes, Pending
  <2>2. dials = {} /\ hears = {}
    BY ExchangesAssumption DEF Assigned, IInv, ExchangeTypeOK, NothingLeft, Nobody
  <2>3. QED
    BY <2>1, <2>2 DEF Assigned, Established, IInv, ExchangeTypeOK, NothingLeft, Pending
<1>7. QED
  BY <1>1, <1>2, <1>3, <1>4, <1>5, <1>6 DEF IInv

LEMMA ConnectTimesOutKeeps ==
  ASSUME IInv, NEW e \in Exchanges, ConnectTimesOut(e) PROVE IInv'
<1>1. ExchangeTypeOK'
  BY DEF ConnectTimesOut, FailedAs, Destroyed, Settled, Cleaned, StillOpen, IInv,
         ExchangeTypeOK, Causes, Nobody
<1>2. Untouched'
  BY DEF ConnectTimesOut, FailedAs, Destroyed, Settled, Cleaned, StillOpen, IInv,
         ExchangeTypeOK, Untouched
<1>3. Answered'
  BY DEF ConnectTimesOut, FailedAs, Destroyed, Settled, Cleaned, StillOpen, IInv,
         ExchangeTypeOK, Answered
<1>4. Linked'
  BY DEF ConnectTimesOut, FailedAs, Destroyed, Settled, Cleaned, StillOpen, IInv,
         ExchangeTypeOK, Linked, Nobody
<1>5. Blamed'
  BY DEF ConnectTimesOut, FailedAs, Destroyed, Settled, Cleaned, StillOpen, IInv,
         ExchangeTypeOK, Blamed, Pending
<1>6. NothingLeft'
  BY DEF ConnectTimesOut, FailedAs, Destroyed, Settled, Cleaned, StillOpen, IInv,
         ExchangeTypeOK, NothingLeft, Causes, Nobody, Pending
<1>7. QED
  BY <1>1, <1>2, <1>3, <1>4, <1>5, <1>6 DEF IInv

LEMMA AbortsKeeps ==
  ASSUME IInv, NEW e \in Exchanges, Aborts(e) PROVE IInv'
<1>1. ExchangeTypeOK'
  BY DEF Aborts, FailedAs, Destroyed, Settled, Cleaned, StillOpen, IInv,
         ExchangeTypeOK, Causes, Nobody
<1>2. Untouched'
  BY DEF Aborts, FailedAs, Destroyed, Settled, Cleaned, StillOpen, IInv,
         ExchangeTypeOK, Untouched
<1>3. Answered'
  BY DEF Aborts, FailedAs, Destroyed, Settled, Cleaned, StillOpen, IInv,
         ExchangeTypeOK, Answered
<1>4. Linked'
  BY DEF Aborts, FailedAs, Destroyed, Settled, Cleaned, StillOpen, IInv,
         ExchangeTypeOK, Linked, Nobody
<1>5. Blamed'
  BY DEF Aborts, FailedAs, Destroyed, Settled, Cleaned, StillOpen, IInv,
         ExchangeTypeOK, Blamed, Pending
<1>6. NothingLeft'
  BY DEF Aborts, FailedAs, Destroyed, Settled, Cleaned, StillOpen, IInv,
         ExchangeTypeOK, NothingLeft, Causes, Nobody, Pending
<1>7. QED
  BY <1>1, <1>2, <1>3, <1>4, <1>5, <1>6 DEF IInv

LEMMA ErrsKeeps ==
  ASSUME IInv, NEW e \in Exchanges, Errs(e) PROVE IInv'
<1>1. ExchangeTypeOK'
  BY DEF Errs, Settled, Cleaned, StillOpen, IInv, ExchangeTypeOK, Causes, Nobody
<1>2. Untouched'
  BY DEF Errs, Settled, Cleaned, StillOpen, IInv, ExchangeTypeOK, Untouched
<1>3. Answered'
  BY DEF Errs, Settled, Cleaned, StillOpen, IInv, ExchangeTypeOK, Answered
<1>4. Linked'
  BY DEF Errs, Settled, Cleaned, StillOpen, IInv, ExchangeTypeOK, Linked, Nobody
<1>5. Blamed'
  BY DEF Errs, Settled, Cleaned, StillOpen, IInv, ExchangeTypeOK, Blamed, Pending
<1>6. NothingLeft'
  BY DEF Errs, Settled, Cleaned, StillOpen, IInv, ExchangeTypeOK, Blamed,
         NothingLeft, Causes, Pending, Nobody
<1>7. QED
  BY <1>1, <1>2, <1>3, <1>4, <1>5, <1>6 DEF IInv

LEMMA RespondsKeeps ==
  ASSUME IInv, NEW e \in Exchanges, Responds(e) PROVE IInv'
<1>1. ExchangeTypeOK'
  BY DEF Responds, IInv, ExchangeTypeOK, Causes, Nobody
<1>2. Untouched'
  BY DEF Responds, IInv, ExchangeTypeOK, Untouched
<1>3. Answered'
  BY DEF Responds, IInv, ExchangeTypeOK, Answered
<1>4. Linked'
  BY DEF Responds, IInv, ExchangeTypeOK, Linked, Nobody
<1>5. Blamed'
  BY DEF Responds, IInv, ExchangeTypeOK, Blamed, Pending
<1>6. NothingLeft'
  BY DEF Responds, IInv, ExchangeTypeOK, NothingLeft, Causes, Nobody, Pending
<1>7. QED
  BY <1>1, <1>2, <1>3, <1>4, <1>5, <1>6 DEF IInv

LEMMA BodyEndsKeeps ==
  ASSUME IInv, NEW e \in Exchanges, BodyEnds(e) PROVE IInv'
<1>1. ExchangeTypeOK'
  BY DEF BodyEnds, IInv, ExchangeTypeOK, Causes, Nobody
<1>2. Untouched'
  BY DEF BodyEnds, IInv, ExchangeTypeOK, Untouched
<1>3. Answered'
  BY DEF BodyEnds, IInv, ExchangeTypeOK, Answered
<1>4. Linked'
  BY DEF BodyEnds, IInv, ExchangeTypeOK, Linked, Nobody
<1>5. Blamed'
  BY DEF BodyEnds, IInv, ExchangeTypeOK, Blamed, Pending
<1>6. NothingLeft'
  BY DEF BodyEnds, IInv, ExchangeTypeOK, NothingLeft, Causes, Nobody, Pending
<1>7. QED
  BY <1>1, <1>2, <1>3, <1>4, <1>5, <1>6 DEF IInv

LEMMA BodyTooLargeKeeps ==
  ASSUME IInv, NEW e \in Exchanges, BodyTooLarge(e) PROVE IInv'
<1>1. ExchangeTypeOK'
  BY DEF BodyTooLarge, Cleaned, StillOpen, IInv, ExchangeTypeOK, Causes, Nobody
<1>2. Untouched'
  BY DEF BodyTooLarge, Cleaned, StillOpen, IInv, ExchangeTypeOK, Untouched
<1>3. Answered'
  BY DEF BodyTooLarge, Cleaned, StillOpen, IInv, ExchangeTypeOK, Answered
<1>4. Linked'
  BY DEF BodyTooLarge, Cleaned, StillOpen, IInv, ExchangeTypeOK, Linked, Nobody
<1>5. Blamed'
  BY DEF BodyTooLarge, Cleaned, StillOpen, IInv, ExchangeTypeOK, Blamed, Pending
<1>6. NothingLeft'
  BY DEF BodyTooLarge, Cleaned, StillOpen, IInv, ExchangeTypeOK, Linked,
         NothingLeft, Causes, Pending, Nobody
<1>7. QED
  BY <1>1, <1>2, <1>3, <1>4, <1>5, <1>6 DEF IInv

LEMMA HandledKeeps ==
  ASSUME IInv, NEW e \in Exchanges, Handled(e) PROVE IInv'
<1>1. ExchangeTypeOK'
  BY DEF Handled, Settled, Cleaned, StillOpen, IInv, ExchangeTypeOK, Causes, Nobody
<1>2. Untouched'
  BY DEF Handled, Settled, Cleaned, StillOpen, IInv, ExchangeTypeOK, Untouched
<1>3. Answered'
  BY DEF Handled, Settled, Cleaned, StillOpen, IInv, ExchangeTypeOK, Answered
<1>4. Linked'
  BY DEF Handled, Settled, Cleaned, StillOpen, IInv, ExchangeTypeOK, Linked,
         Nobody
<1>5. Blamed'
  BY DEF Handled, Settled, Cleaned, StillOpen, IInv, ExchangeTypeOK, Blamed, Pending
<1>6. NothingLeft'
  BY DEF Handled, Settled, Cleaned, StillOpen, IInv, ExchangeTypeOK, Blamed,
         NothingLeft, Causes, Pending, Nobody
<1>7. QED
  BY <1>1, <1>2, <1>3, <1>4, <1>5, <1>6 DEF IInv

LEMMA UploadedKeeps ==
  ASSUME IInv, NEW e \in Exchanges, Uploaded(e) PROVE IInv'
<1>1. ExchangeTypeOK'
  BY DEF Uploaded, IInv, ExchangeTypeOK, Causes, Nobody
<1>2. Untouched'
  BY DEF Uploaded, IInv, ExchangeTypeOK, Untouched
<1>3. Answered'
  BY DEF Uploaded, IInv, ExchangeTypeOK, Answered
<1>4. Linked'
  BY DEF Uploaded, IInv, ExchangeTypeOK, Linked, Nobody
<1>5. Blamed'
  BY DEF Uploaded, IInv, ExchangeTypeOK, Blamed, Pending
<1>6. NothingLeft'
  BY DEF Uploaded, IInv, ExchangeTypeOK, NothingLeft, Causes, Nobody, Pending
<1>7. QED
  BY <1>1, <1>2, <1>3, <1>4, <1>5, <1>6 DEF IInv

LEMMA UploadFailsKeeps ==
  ASSUME IInv, NEW e \in Exchanges, UploadFails(e) PROVE IInv'
<1>1. ExchangeTypeOK'
  BY DEF UploadFails, FailedAs, Destroyed, Settled, Cleaned, StillOpen, IInv,
         ExchangeTypeOK, Causes, Nobody
<1>2. Untouched'
  BY DEF UploadFails, FailedAs, Destroyed, Settled, Cleaned, StillOpen, IInv,
         ExchangeTypeOK, Untouched
<1>3. Answered'
  BY DEF UploadFails, FailedAs, Destroyed, Settled, Cleaned, StillOpen, IInv,
         ExchangeTypeOK, Answered
<1>4. Linked'
  BY DEF UploadFails, FailedAs, Destroyed, Settled, Cleaned, StillOpen, IInv,
         ExchangeTypeOK, Linked, Nobody
<1>5. Blamed'
  BY DEF UploadFails, FailedAs, Destroyed, Settled, Cleaned, StillOpen, IInv,
         ExchangeTypeOK, Blamed, Pending
<1>6. NothingLeft'
  BY DEF UploadFails, FailedAs, Destroyed, Settled, Cleaned, StillOpen, IInv,
         ExchangeTypeOK, NothingLeft, Causes, Nobody, Pending
<1>7. QED
  BY <1>1, <1>2, <1>3, <1>4, <1>5, <1>6 DEF IInv

LEMMA CompletesKeeps ==
  ASSUME IInv, NEW e \in Exchanges, Completes(e) PROVE IInv'
<1>1. ExchangeTypeOK'
  BY DEF Completes, IInv, ExchangeTypeOK, Causes, Nobody
<1>2. Untouched'
  BY DEF Completes, IInv, ExchangeTypeOK, Untouched
<1>3. Answered'
  BY DEF Completes, IInv, ExchangeTypeOK, Answered
<1>4. Linked'
  BY DEF Completes, IInv, ExchangeTypeOK, Linked, Nobody
<1>5. Blamed'
  BY DEF Completes, IInv, ExchangeTypeOK, Blamed, Pending
<1>6. NothingLeft'
  BY DEF Completes, IInv, ExchangeTypeOK, NothingLeft, Causes, Nobody, Pending
<1>7. QED
  BY <1>1, <1>2, <1>3, <1>4, <1>5, <1>6 DEF IInv

LEMMA RequestClosesKeeps ==
  ASSUME IInv, NEW e \in Exchanges, RequestCloses(e) PROVE IInv'
<1>1. ExchangeTypeOK'
  BY DEF RequestCloses, Cleaned, StillOpen, IInv, ExchangeTypeOK, Causes, Nobody
<1>2. Untouched'
  BY DEF RequestCloses, Cleaned, StillOpen, IInv, ExchangeTypeOK, Untouched
<1>3. Answered'
  BY DEF RequestCloses, Cleaned, StillOpen, IInv, ExchangeTypeOK, Answered
<1>4. Linked'
  BY DEF RequestCloses, Cleaned, StillOpen, IInv, ExchangeTypeOK, Linked, Nobody
<1>5. Blamed'
  BY DEF RequestCloses, Cleaned, StillOpen, IInv, ExchangeTypeOK, Blamed, Pending
<1>6. NothingLeft'
  BY DEF RequestCloses, Cleaned, StillOpen, IInv, ExchangeTypeOK, Linked,
         NothingLeft, Causes, Pending, Nobody
<1>7. QED
  BY <1>1, <1>2, <1>3, <1>4, <1>5, <1>6 DEF IInv

LEMMA ConnectsKeeps ==
  ASSUME IInv, Connects PROVE IInv'
<1>1. ExchangeTypeOK'
  BY DEF Connects, Established, IInv, ExchangeTypeOK, Causes, Nobody
<1>2. Untouched'
  BY DEF Connects, Established, IInv, ExchangeTypeOK, Untouched
<1>3. Answered'
  BY DEF Connects, Established, IInv, ExchangeTypeOK, Answered
<1>4. Linked'
  BY DEF Connects, Established, IInv, ExchangeTypeOK, Linked, Nobody
<1>5. Blamed'
  BY DEF Connects, Established, IInv, ExchangeTypeOK, Blamed, Pending
<1>6. NothingLeft'
  BY DEF Connects, Established, IInv, ExchangeTypeOK, NothingLeft, Causes, Nobody,
         Pending
<1>7. QED
  BY <1>1, <1>2, <1>3, <1>4, <1>5, <1>6 DEF IInv

LEMMA IdlesKeeps ==
  ASSUME IInv, Idles PROVE IInv'
<1>1. ExchangeTypeOK'
  BY DEF Idles, FailedAs, Destroyed, Settled, Cleaned, StillOpen, IInv,
         ExchangeTypeOK, Causes, Nobody
<1>2. Untouched'
  BY DEF Idles, FailedAs, Destroyed, Settled, Cleaned, StillOpen, IInv,
         ExchangeTypeOK, Untouched
<1>3. Answered'
  BY DEF Idles, FailedAs, Destroyed, Settled, Cleaned, StillOpen, IInv,
         ExchangeTypeOK, Answered
<1>4. Linked'
  BY DEF Idles, FailedAs, Destroyed, Settled, Cleaned, StillOpen, IInv,
         ExchangeTypeOK, Linked, Nobody
<1>5. Blamed'
  BY DEF Idles, FailedAs, Destroyed, Settled, Cleaned, StillOpen, IInv,
         ExchangeTypeOK, Blamed, Pending
<1>6. NothingLeft'
  BY DEF Idles, FailedAs, Destroyed, Settled, Cleaned, StillOpen, IInv,
         ExchangeTypeOK, NothingLeft, Causes, Nobody, Pending
<1>7. QED
  BY <1>1, <1>2, <1>3, <1>4, <1>5, <1>6 DEF IInv

LEMMA BreaksKeeps ==
  ASSUME IInv, Breaks PROVE IInv'
<1>1. ExchangeTypeOK'
  BY DEF Breaks, Destroyed, StillOpen, Cleaned, IInv, ExchangeTypeOK, Causes, Nobody
<1>2. Untouched'
  BY DEF Breaks, Destroyed, StillOpen, Cleaned, IInv, ExchangeTypeOK, Untouched
<1>3. Answered'
  BY DEF Breaks, Destroyed, StillOpen, Cleaned, IInv, ExchangeTypeOK, Answered
<1>4. Linked'
  BY DEF Breaks, Destroyed, StillOpen, Cleaned, IInv, ExchangeTypeOK, Linked,
         Nobody
<1>5. Blamed'
  BY DEF Breaks, Destroyed, StillOpen, Cleaned, IInv, ExchangeTypeOK, Blamed,
         Pending
<1>6. NothingLeft'
  BY DEF Breaks, Destroyed, StillOpen, Cleaned, IInv, ExchangeTypeOK, NothingLeft,
         Causes, Nobody, Pending
<1>7. QED
  BY <1>1, <1>2, <1>3, <1>4, <1>5, <1>6 DEF IInv

LEMMA FreeBreaksKeeps ==
  ASSUME IInv, FreeBreaks PROVE IInv'
<1>1. ExchangeTypeOK'
  BY DEF FreeBreaks, IInv, ExchangeTypeOK, Causes, Nobody
<1>2. Untouched'
  BY DEF FreeBreaks, IInv, ExchangeTypeOK, Untouched
<1>3. Answered'
  BY DEF FreeBreaks, IInv, ExchangeTypeOK, Answered
<1>4. Linked'
  BY DEF FreeBreaks, IInv, ExchangeTypeOK, Linked, Nobody
<1>5. Blamed'
  BY DEF FreeBreaks, IInv, ExchangeTypeOK, Blamed, Pending
<1>6. NothingLeft'
  BY DEF FreeBreaks, IInv, ExchangeTypeOK, NothingLeft, Causes, Nobody, Pending
<1>7. QED
  BY <1>1, <1>2, <1>3, <1>4, <1>5, <1>6 DEF IInv

LEMMA Inductive == IInv /\ [ExchangeNext]_exchangeVars => IInv'
<1> SUFFICES ASSUME IInv, [ExchangeNext]_exchangeVars PROVE IInv'
  OBVIOUS
<1>1. ASSUME NEW e \in Exchanges, Refuse(e) PROVE IInv'
  BY <1>1, RefuseKeeps
<1>2. ASSUME NEW e \in Exchanges, Send(e) PROVE IInv'
  BY <1>2, SendKeeps
<1>3. ASSUME NEW e \in Exchanges, SendTooLarge(e) PROVE IInv'
  BY <1>3, SendTooLargeKeeps
<1>4. ASSUME NEW e \in Exchanges, Assigned(e) PROVE IInv'
  BY <1>4, AssignedKeeps
<1>5. ASSUME NEW e \in Exchanges, ConnectTimesOut(e) PROVE IInv'
  BY <1>5, ConnectTimesOutKeeps
<1>6. ASSUME NEW e \in Exchanges, Aborts(e) PROVE IInv'
  BY <1>6, AbortsKeeps
<1>7. ASSUME NEW e \in Exchanges, Errs(e) PROVE IInv'
  BY <1>7, ErrsKeeps
<1>8. ASSUME NEW e \in Exchanges, Responds(e) PROVE IInv'
  BY <1>8, RespondsKeeps
<1>9. ASSUME NEW e \in Exchanges, BodyEnds(e) PROVE IInv'
  BY <1>9, BodyEndsKeeps
<1>10. ASSUME NEW e \in Exchanges, BodyTooLarge(e) PROVE IInv'
  BY <1>10, BodyTooLargeKeeps
<1>11. ASSUME NEW e \in Exchanges, Handled(e) PROVE IInv'
  BY <1>11, HandledKeeps
<1>12. ASSUME NEW e \in Exchanges, Uploaded(e) PROVE IInv'
  BY <1>12, UploadedKeeps
<1>13. ASSUME NEW e \in Exchanges, UploadFails(e) PROVE IInv'
  BY <1>13, UploadFailsKeeps
<1>14. ASSUME NEW e \in Exchanges, Completes(e) PROVE IInv'
  BY <1>14, CompletesKeeps
<1>15. ASSUME NEW e \in Exchanges, RequestCloses(e) PROVE IInv'
  BY <1>15, RequestClosesKeeps
<1>16. CASE Connects
  BY <1>16, ConnectsKeeps
<1>17. CASE Idles
  BY <1>17, IdlesKeeps
<1>18. CASE Breaks
  BY <1>18, BreaksKeeps
<1>19. CASE FreeBreaks
  BY <1>19, FreeBreaksKeeps
<1>20. CASE UNCHANGED exchangeVars
  BY <1>20 DEF exchangeVars, IInv, ExchangeTypeOK, Untouched, Answered, Linked,
               Blamed, NothingLeft, Pending
<1>21. QED
  BY <1>1, <1>2, <1>3, <1>4, <1>5, <1>6, <1>7, <1>8, <1>9, <1>10,
     <1>11, <1>12, <1>13, <1>14, <1>15, <1>16, <1>17, <1>18, <1>19, <1>20 DEF ExchangeNext

THEOREM Invariance == ExchangeSpec => []IInv
BY Initial, Inductive, PTL DEF ExchangeSpec

-----------------------------------------------------------------------------
\* The closures of any number of exchanges, their requests and the connection
\* they share keep their types.
THEOREM TypesHold == ExchangeSpec => []ExchangeTypeOK
<1>1. IInv => ExchangeTypeOK
  BY DEF IInv
<1>2. QED
  BY <1>1, Invariance, PTL

\* Of the events that race to settle an exchange the losers change nothing, and
\* cleanupTiming and req.destroy leave no timer, no listener on the connection
\* that the next exchange gets, and no open request of a failed one; an exchange
\* whose connection did not fail never ends in a network error.
THEOREM NothingIsLeft == ExchangeSpec => []NothingLeft
<1>1. IInv => NothingLeft
  BY DEF IInv
<1>2. QED
  BY <1>1, Invariance, PTL

-----------------------------------------------------------------------------
\* Http2Sessions: the table.

Distinct(table, keys) == \A i, j \in DOMAIN table : keys[table[i]] = keys[table[j]] => i = j

\* A table of sessions that have been opened, no two with one key.
Orderly(table, keys, n) ==
    /\ table \in Seq(Nat) /\ \A i \in DOMAIN table : table[i] \in 1..n
    /\ Distinct(table, keys)
    /\ Len(table) <= MaxSessions

LEMMA Removed ==
  ASSUME NEW S, NEW s \in Seq(S), NEW i \in DOMAIN s
  PROVE  LET r == RemoveAt(s, i)
         IN  /\ r \in Seq(S) /\ Len(r) = Len(s) - 1 /\ DOMAIN r = 1..(Len(s) - 1)
             /\ \A j \in DOMAIN r : r[j] = IF j < i THEN s[j] ELSE s[j + 1]
<1> DEFINE front == SubSeq(s, 1, i - 1)
           rest == SubSeq(s, i + 1, Len(s))
           r == front \o rest
<1>1. Len(s) \in Nat /\ DOMAIN s = 1..Len(s) /\ i \in 1..Len(s) /\ \A j \in 1..Len(s) : s[j] \in S
  BY LenProperties, ElementOfSeq
<1>2. front \in Seq(S) /\ Len(front) = i - 1 /\ \A j \in 1..(i - 1) : front[j] = s[j]
  BY <1>1, SubSeqProperties
<1>3. rest \in Seq(S) /\ Len(rest) = Len(s) - i /\ \A j \in 1..(Len(s) - i) : rest[j] = s[i + j]
  BY <1>1, SubSeqProperties
<1> HIDE DEF front, rest
<1>a. /\ r \in Seq(S) /\ Len(r) = Len(front) + Len(rest)
      /\ \A j \in 1..(Len(front) + Len(rest)) :
            r[j] = IF j <= Len(front) THEN front[j] ELSE rest[j - Len(front)]
  BY <1>2, <1>3, ConcatProperties
<1>b. Len(front) + Len(rest) = Len(s) - 1
  BY <1>1, <1>2, <1>3
<1>4. /\ r \in Seq(S) /\ Len(r) = Len(s) - 1
      /\ \A j \in 1..(Len(s) - 1) : r[j] = IF j <= i - 1 THEN front[j] ELSE rest[j - (i - 1)]
  BY <1>2, <1>a, <1>b
<1> HIDE DEF r
<1>5. DOMAIN r = 1..(Len(s) - 1)
  BY <1>4, LenProperties
<1>6. \A j \in DOMAIN r : r[j] = IF j < i THEN s[j] ELSE s[j + 1]
  <2> SUFFICES ASSUME NEW j \in 1..(Len(s) - 1) PROVE r[j] = IF j < i THEN s[j] ELSE s[j + 1]
    BY <1>5
  <2>1. CASE j < i
    BY <1>1, <1>2, <1>4, <2>1
  <2>2. CASE j >= i
    <3>1. j - (i - 1) \in 1..(Len(s) - i) /\ i + (j - (i - 1)) = j + 1
      BY <1>1, <2>2
    <3>2. r[j] = rest[j - (i - 1)]
      BY <1>1, <1>4, <2>2
    <3>3. rest[j - (i - 1)] = s[i + (j - (i - 1))]
      BY <1>3, <3>1
    <3>4. QED
      BY <1>1, <2>2, <3>1, <3>2, <3>3
  <2>3. QED
    BY <1>1, <2>1, <2>2
<1>7. QED
  BY <1>4, <1>5, <1>6 DEF RemoveAt, r, front, rest

LEMMA WithoutOrderly ==
  ASSUME Orderly(sessions, key, opened), opened \in Nat, NEW k
  PROVE  Orderly(Without(k, sessions), key, opened)
<1>1. CASE Place(k, sessions) = {}
  BY <1>1 DEF Without
<1>2. CASE Place(k, sessions) # {}
  <2> DEFINE i == CHOOSE i \in Place(k, sessions) : TRUE
             r == RemoveAt(sessions, i)
  <2>1. i \in DOMAIN sessions /\ Without(k, sessions) = r
    BY <1>2 DEF Place, Without
  <2>2. Len(sessions) \in Nat /\ DOMAIN sessions = 1..Len(sessions)
    BY LenProperties DEF Orderly
  <2>3. /\ r \in Seq(Nat) /\ Len(r) = Len(sessions) - 1 /\ DOMAIN r = 1..(Len(sessions) - 1)
        /\ \A j \in DOMAIN r : r[j] = IF j < i THEN sessions[j] ELSE sessions[j + 1]
    BY <2>1, Removed DEF Orderly
  <2> HIDE DEF i, r
  <2>4. \A j \in DOMAIN r : \E c \in DOMAIN sessions : r[j] = sessions[c] /\ c = IF j < i THEN j ELSE j + 1
    BY <2>1, <2>2, <2>3
  <2>5. Distinct(r, key)
    <3> SUFFICES ASSUME NEW a \in DOMAIN r, NEW b \in DOMAIN r, key[r[a]] = key[r[b]] PROVE a = b
      BY DEF Distinct
    <3>1. PICK c \in DOMAIN sessions : r[a] = sessions[c] /\ c = IF a < i THEN a ELSE a + 1
      BY <2>4
    <3>2. PICK d \in DOMAIN sessions : r[b] = sessions[d] /\ d = IF b < i THEN b ELSE b + 1
      BY <2>4
    <3>3. c = d
      BY <3>1, <3>2 DEF Orderly, Distinct
    <3>4. a \in Int /\ b \in Int /\ i \in Int
      BY <2>1, <2>2, <2>3
    <3>5. QED
      BY <3>1, <3>2, <3>3, <3>4
  <2>6. Len(r) <= MaxSessions
    BY <2>2, <2>3, PoolAssumption DEF Orderly
  <2>7. \A j \in DOMAIN r : r[j] \in 1..opened
    BY <2>4 DEF Orderly
  <2>8. QED
    BY <2>1, <2>3, <2>5, <2>6, <2>7 DEF Orderly
<1>3. QED
  BY <1>1, <1>2

\* A new session for a key of which none is alive: it takes the place of a dead one, or
\* comes last.
LEMMA InsertedOrderly ==
  ASSUME NEW table \in Seq(Nat), \A i \in DOMAIN table : table[i] \in 1..opened,
         Distinct(table, key), Len(table) < MaxSessions,
         opened \in Nat, opened < SessionBound, key \in [Sessions -> Keys],
         NEW k \in Keys, key' = [key EXCEPT ![opened + 1] = k]
  PROVE  Orderly(Inserted(opened + 1, k, table), key', opened + 1)
<1> DEFINE s == opened + 1
           t == Inserted(s, k, table)
<1>1. \A i \in DOMAIN table : table[i] \in 1..s /\ key'[table[i]] = key[table[i]]
  BY PoolAssumption DEF Sessions
<1>2. key'[s] = k /\ s \in Nat /\ s \in 1..s
  BY PoolAssumption DEF Sessions
<1>3. Len(table) \in Nat /\ DOMAIN table = 1..Len(table)
  BY LenProperties
<1>4. CASE Place(k, table) = {}
  <2>1. t = Append(table, s)
    BY <1>4 DEF Inserted
  <2> HIDE DEF s, t
  <2>2. /\ t \in Seq(Nat) /\ Len(t) = Len(table) + 1
        /\ \A i \in 1..Len(table) : t[i] = table[i]
        /\ t[Len(table) + 1] = s
    BY <1>2, <2>1, AppendProperties
  <2>3. DOMAIN t = 1..(Len(table) + 1)
    BY <2>2, LenProperties
  <2>4. \A i \in DOMAIN t : (i \in DOMAIN table /\ t[i] = table[i]) \/ (i = Len(table) + 1 /\ t[i] = s)
    BY <1>3, <2>2, <2>3
  <2>5. \A i \in DOMAIN table : key[table[i]] # k
    BY <1>4 DEF Place
  <2>6. Distinct(t, key')
    <3> SUFFICES ASSUME NEW i \in DOMAIN t, NEW j \in DOMAIN t, key'[t[i]] = key'[t[j]] PROVE i = j
      BY DEF Distinct
    <3>1. CASE i \in DOMAIN table /\ t[i] = table[i] /\ j \in DOMAIN table /\ t[j] = table[j]
      BY <1>1, <3>1 DEF Distinct
    <3>2. (key'[t[i]] = k) <=> i = Len(table) + 1
      BY <1>1, <1>2, <1>3, <2>4, <2>5
    <3>3. (key'[t[j]] = k) <=> j = Len(table) + 1
      BY <1>1, <1>2, <1>3, <2>4, <2>5
    <3>4. QED
      BY <2>4, <3>1, <3>2, <3>3
  <2>7. Len(t) <= MaxSessions
    BY <1>3, <2>2, PoolAssumption
  <2>8. \A i \in DOMAIN t : t[i] \in 1..s
    BY <1>1, <1>2, <2>4
  <2>9. QED
    BY <2>2, <2>6, <2>7, <2>8 DEF Orderly, s, t
<1>5. CASE Place(k, table) # {}
  <2> DEFINE here == CHOOSE i \in Place(k, table) : TRUE
  <2>1. here \in 1..Len(table) /\ key[table[here]] = k /\ t = [table EXCEPT ![here] = s]
    BY <1>3, <1>5 DEF Inserted, Place
  <2> HIDE DEF here, s, t
  <2>2. /\ t \in Seq(Nat) /\ Len(t) = Len(table)
        /\ \A i \in 1..Len(table) : t[i] = IF i = here THEN s ELSE table[i]
    BY <1>2, <2>1, ExceptSeq
  <2>3. DOMAIN t = DOMAIN table
    BY <1>3, <2>2, LenProperties
  <2>4. \A i \in DOMAIN t : key'[t[i]] = key[table[i]] /\ t[i] \in 1..s
    BY <1>1, <1>2, <1>3, <2>1, <2>2, <2>3
  <2>5. Distinct(t, key')
    <3> SUFFICES ASSUME NEW i \in DOMAIN t, NEW j \in DOMAIN t, key'[t[i]] = key'[t[j]] PROVE i = j
      BY DEF Distinct
    <3>1. key[table[i]] = key[table[j]]
      BY <2>4
    <3>2. QED
      BY <2>3, <3>1 DEF Distinct
  <2>6. Len(t) <= MaxSessions
    BY <1>3, <2>2, PoolAssumption
  <2>7. QED
    BY <2>2, <2>4, <2>5, <2>6 DEF Orderly, s, t
<1>6. QED
  BY <1>4, <1>5

-----------------------------------------------------------------------------
\* Http2Sessions: the streams.

Nets == {"none", "connecting", "open", "closing", "destroyed", "failing", "closed"}

PoolInv ==
    /\ opened \in 0..SessionBound
    /\ key \in [Sessions -> Keys]
    /\ activeStreams \in [Sessions -> Nat]
    /\ pc \in [Requests -> {"idle", "waiting", "streaming", "settled", "done", "lost", "failed"}]
    /\ at \in [Requests -> Sessions \cup {0}]
    /\ \A r \in Requests : pc[r] # "idle" => at[r] \in Sessions
    /\ Orderly(sessions, key, opened)
    /\ StreamsCounted

LEMMA Bounded == PoolInv => TableExact
<1> SUFFICES ASSUME PoolInv PROVE PoolBounded
  BY DEF PoolInv, TableExact
<1>1. \A s, t \in ToSet(sessions) : key[s] = key[t] => s = t
  BY DEF PoolInv, Orderly, Distinct, ToSet
<1>2. QED
  BY <1>1 DEF PoolInv, Orderly, PoolBounded

\* What leaves the requests' streams alone, and takes at most a session out.
LEMMA QuietStep ==
  ASSUME PoolInv, UNCHANGED <<opened, key, activeStreams, at>>,
         pc' \in [Requests -> {"idle", "waiting", "streaming", "settled", "done", "lost", "failed"}],
         \A r \in Requests : /\ (pc'[r] \in {"streaming", "settled"}) = (pc[r] \in {"streaming", "settled"})
                             /\ pc[r] = "idle" => pc'[r] = "idle",
         \/ sessions' = sessions \/ sessions' = <<>>
         \/ \E k : sessions' = Without(k, sessions)
  PROVE  PoolInv'
<1>1. \A s \in Sessions : Streams(s)' = Streams(s)
  BY DEF Streams
<1>2. StreamsCounted'
  BY <1>1 DEF PoolInv, StreamsCounted
<1>3. Orderly(sessions, key, opened)'
  <2>1. CASE sessions' = <<>>
    BY <2>1, PoolAssumption DEF Orderly, Distinct
  <2>2. CASE sessions' = sessions
    BY <2>2 DEF PoolInv, Orderly, Distinct
  <2>3. ASSUME NEW k, sessions' = Without(k, sessions) PROVE Orderly(sessions, key, opened)'
    <3>1. Orderly(Without(k, sessions), key, opened)
      BY WithoutOrderly, PoolAssumption DEF PoolInv
    <3>2. QED
      BY <2>3, <3>1 DEF Orderly, Distinct
  <2>4. QED
    BY <2>1, <2>2, <2>3
<1>4. QED
  BY <1>2, <1>3 DEF PoolInv, Sessions

LEMMA OpenStep ==
  ASSUME PoolInv, NEW r \in Requests, Open(r)
  PROVE  PoolInv'
<1> DEFINE k == KeyOf[r]
           s == opened + 1
           kept == IF Crowded THEN Tail(sessions) ELSE sessions
<1>1. /\ pc[r] = "idle" /\ opened < SessionBound
      /\ opened' = s /\ key' = [key EXCEPT ![s] = k] /\ sessions' = Inserted(s, k, kept)
      /\ pc' = [pc EXCEPT ![r] = "waiting"] /\ at' = [at EXCEPT ![r] = s]
      /\ activeStreams' = activeStreams
  BY DEF Open
<1>2. opened \in Nat /\ s \in Sessions /\ s \in 0..SessionBound /\ k \in Keys
  <2>1. k \in Keys
    BY PoolAssumption
  <2>2. opened \in 0..SessionBound /\ SessionBound \in Nat
    BY PoolAssumption DEF PoolInv
  <2>3. QED
    BY <1>1, <2>1, <2>2 DEF Sessions
<1>3. Len(sessions) \in Nat /\ DOMAIN sessions = 1..Len(sessions) /\ sessions \in Seq(Nat)
  BY LenProperties DEF PoolInv, Orderly
<1>4. /\ kept \in Seq(Nat) /\ \A i \in DOMAIN kept : kept[i] \in 1..opened
      /\ Distinct(kept, key) /\ Len(kept) < MaxSessions
  <2>1. CASE ~Crowded
    BY <1>3, <2>1, PoolAssumption DEF PoolInv, Orderly, Crowded
  <2>2. CASE Crowded
    <3>1. sessions # <<>>
      BY <1>3, <2>2, PoolAssumption DEF Crowded
    <3>2. /\ kept \in Seq(Nat) /\ Len(kept) = Len(sessions) - 1
          /\ \A i \in 1..Len(kept) : kept[i] = sessions[i + 1]
      BY <1>3, <2>2, <3>1, HeadTailProperties
    <3> HIDE DEF kept
    <3>3. DOMAIN kept = 1..(Len(sessions) - 1)
      BY <3>2, LenProperties
    <3>4. \A i \in DOMAIN kept : i \in Int /\ i + 1 \in DOMAIN sessions /\ kept[i] = sessions[i + 1]
      BY <1>3, <3>2, <3>3
    <3>5. Distinct(kept, key)
      <4> SUFFICES ASSUME NEW i \in DOMAIN kept, NEW j \in DOMAIN kept, key[kept[i]] = key[kept[j]] PROVE i = j
        BY DEF Distinct
      <4>1. i + 1 = j + 1
        BY <3>4 DEF PoolInv, Orderly, Distinct
      <4>2. QED
        BY <3>4, <4>1
    <3>6. Len(kept) < MaxSessions
      BY <1>3, <3>2, PoolAssumption DEF PoolInv, Orderly
    <3>7. \A i \in DOMAIN kept : kept[i] \in 1..opened
      BY <3>4 DEF PoolInv, Orderly
    <3>8. QED
      BY <3>2, <3>5, <3>6, <3>7
  <2>3. QED
    BY <2>1, <2>2
<1> HIDE DEF kept
<1>5. Orderly(Inserted(opened + 1, k, kept), key', opened + 1)
  BY <1>1, <1>2, <1>4, InsertedOrderly DEF PoolInv
<1>6. \A t \in Sessions : Streams(t)' = Streams(t)
  BY <1>1 DEF PoolInv, Streams
<1>7. StreamsCounted'
  BY <1>1, <1>6 DEF PoolInv, StreamsCounted
<1>8. /\ key' \in [Sessions -> Keys] /\ at' \in [Requests -> Sessions \cup {0}]
      /\ pc' \in [Requests -> {"idle", "waiting", "streaming", "settled", "done", "lost", "failed"}]
      /\ \A q \in Requests : pc'[q] # "idle" => at'[q] \in Sessions
  BY <1>1, <1>2 DEF PoolInv
<1>9. QED
  BY <1>1, <1>2, <1>5, <1>7, <1>8 DEF PoolInv, Orderly, Distinct, Sessions

\* A stream is opened and counted in the same turn.
LEMMA StreamStep ==
  ASSUME PoolInv, NEW r \in Requests, Stream(r)
  PROVE  PoolInv'
<1> DEFINE s == at[r]
<1>1. /\ pc[r] = "waiting" /\ activeStreams[s] < StreamLimit
      /\ activeStreams' = [activeStreams EXCEPT ![s] = activeStreams[s] + 1]
      /\ pc' = [pc EXCEPT ![r] = "streaming"]
      /\ UNCHANGED <<sessions, opened, key, at>>
  BY DEF Stream, Woken
<1>2. s \in Sessions
  BY <1>1 DEF PoolInv
<1>3. Streams(s)' = Streams(s) \cup {r} /\ r \notin Streams(s)
  BY <1>1 DEF PoolInv, Streams
<1>4. \A t \in Sessions \ {s} : Streams(t)' = Streams(t)
  BY <1>1 DEF PoolInv, Streams
<1>5. IsFiniteSet(Streams(s))
  BY PoolAssumption, FS_Subset DEF Streams
<1>6. Cardinality(Streams(s)') = Cardinality(Streams(s)) + 1
  BY <1>3, <1>5, FS_AddElement
<1>7. StreamsCounted'
  BY <1>1, <1>2, <1>4, <1>6, PoolAssumption DEF PoolInv, StreamsCounted
<1>8. Orderly(sessions, key, opened)'
  BY <1>1 DEF PoolInv, Orderly, Distinct
<1>9. QED
  BY <1>1, <1>2, <1>7, <1>8 DEF PoolInv, Sessions

\* And given back once, when it closes, however its request has ended by then.
LEMMA ClosesStep ==
  ASSUME PoolInv, NEW r \in Requests, StreamCloses(r)
  PROVE  PoolInv'
<1> DEFINE s == at[r]
<1>1. /\ pc[r] \in {"streaming", "settled"}
      /\ activeStreams' = [activeStreams EXCEPT ![s] = SlotReturned(s)]
      /\ pc' = [pc EXCEPT ![r] = IF pc[r] = "settled" THEN "done" ELSE "lost"]
      /\ UNCHANGED <<sessions, opened, key, at>>
  BY DEF StreamCloses
<1>2. s \in Sessions
  BY <1>1 DEF PoolInv
<1>3. Streams(s)' = Streams(s) \ {r} /\ r \in Streams(s)
  BY <1>1 DEF PoolInv, Streams
<1>4. \A t \in Sessions \ {s} : Streams(t)' = Streams(t)
  BY <1>1 DEF PoolInv, Streams
<1>5. IsFiniteSet(Streams(s))
  BY PoolAssumption, FS_Subset DEF Streams
<1>6. Cardinality(Streams(s)') = Cardinality(Streams(s)) - 1 /\ Cardinality(Streams(s)) # 0
  BY <1>3, <1>5, FS_RemoveElement, FS_EmptySet
<1>7. SlotReturned(s) = Cardinality(Streams(s)')
  BY <1>2, <1>6 DEF SlotReturned, PoolInv, StreamsCounted
<1>8. StreamsCounted'
  BY <1>1, <1>2, <1>4, <1>6, <1>7, PoolAssumption DEF PoolInv, StreamsCounted
<1>9. Orderly(sessions, key, opened)'
  BY <1>1 DEF PoolInv, Orderly, Distinct
<1>10. activeStreams' \in [Sessions -> Nat]
  BY <1>1, <1>2 DEF PoolInv, SlotReturned
<1>11. QED
  BY <1>1, <1>2, <1>8, <1>9, <1>10 DEF PoolInv, Sessions

LEMMA PoolStart == PoolInit => PoolInv
<1> SUFFICES ASSUME PoolInit PROVE PoolInv
  OBVIOUS
<1>1. \A s \in Sessions : Streams(s) = {}
  BY DEF PoolInit, Streams
<1>2. StreamsCounted
  <2>1. \A s \in Sessions : activeStreams[s] = 0 /\ Cardinality(Streams(s)) = 0
    BY <1>1, FS_EmptySet DEF PoolInit
  <2>2. QED
    BY <2>1, PoolAssumption DEF StreamsCounted
<1>3. Orderly(sessions, key, opened)
  BY PoolAssumption DEF PoolInit, Orderly, Distinct
<1>4. key \in [Sessions -> Keys]
  <2>1. (CHOOSE k \in Keys : TRUE) \in Keys
    BY PoolAssumption
  <2>2. QED
    BY <2>1 DEF PoolInit
<1>5. /\ opened \in 0..SessionBound
      /\ activeStreams \in [Sessions -> Nat] /\ at \in [Requests -> Sessions \cup {0}]
      /\ pc = [r \in Requests |-> "idle"]
  BY PoolAssumption DEF PoolInit
<1>6. QED
  BY <1>2, <1>3, <1>4, <1>5 DEF PoolInv

LEMMA PoolStep == PoolInv /\ [PoolNext]_poolVars => PoolInv'
<1> SUFFICES ASSUME PoolInv, [PoolNext]_poolVars PROVE PoolInv'
  OBVIOUS
<1>1. ASSUME NEW r \in Requests, Share(r) PROVE PoolInv'
  <2>1. PICK s \in ToSet(sessions) : at' = [at EXCEPT ![r] = s]
    BY <1>1 DEF Share, Registered
  <2>2. s \in Sessions
    BY <2>1, PoolAssumption DEF PoolInv, Orderly, ToSet, Sessions
  <2>3. /\ pc[r] = "idle" /\ pc' = [pc EXCEPT ![r] = "waiting"]
        /\ UNCHANGED <<sessions, opened, key, activeStreams>>
    BY <1>1 DEF Share
  <2>4. \A t \in Sessions : Streams(t)' = Streams(t)
    BY <2>1, <2>3 DEF PoolInv, Streams
  <2>5. StreamsCounted'
    BY <2>3, <2>4 DEF PoolInv, StreamsCounted
  <2>6. Orderly(sessions, key, opened)'
    BY <2>3 DEF PoolInv, Orderly, Distinct
  <2>7. QED
    BY <2>1, <2>2, <2>3, <2>5, <2>6 DEF PoolInv, Sessions
<1>2. ASSUME NEW r \in Requests, Open(r) PROVE PoolInv'
  BY <1>2, OpenStep
<1>3. ASSUME NEW r \in Requests, Stream(r) PROVE PoolInv'
  BY <1>3, StreamStep
<1>4. ASSUME NEW r \in Requests, StreamCloses(r) PROVE PoolInv'
  BY <1>4, ClosesStep
<1>5. ASSUME NEW r \in Requests, Fail(r) \/ Settle(r) PROVE PoolInv'
  BY <1>5, QuietStep DEF PoolInv, Fail, Settle, Woken
<1>6. ASSUME NEW s \in Sessions,
             \/ Connected(s) \/ ConnectTimeout(s) \/ Break(s) \/ Ended(s) \/ GoAway(s) \/ IdleTimeout(s)
      PROVE  PoolInv'
  <2>1. UNCHANGED <<opened, key, activeStreams, at, pc>>
    BY <1>6 DEF Connected, ConnectTimeout, Break, Ended, GoAway, IdleTimeout
  <2>2. sessions' = sessions \/ sessions' = <<>> \/ \E k : sessions' = Without(k, sessions)
    BY <1>6 DEF Connected, ConnectTimeout, Break, Ended, GoAway, IdleTimeout
  <2>3. QED
    BY <2>1, <2>2, QuietStep DEF PoolInv
<1>7. CASE CloseSessions
  BY <1>7, QuietStep DEF PoolInv, CloseSessions
<1>8. CASE UNCHANGED poolVars
  BY <1>8, QuietStep DEF PoolInv, poolVars
<1>9. QED
  BY <1>1, <1>2, <1>3, <1>4, <1>5, <1>6, <1>7, <1>8 DEF PoolNext

\* For any requests, keys and limits, whatever order events and continuations come in: a
\* session's count is the number of its open streams and within the limit, and the table
\* has one session of a key and no more than maxSessions.
THEOREM TableIsExact == PoolSpec => []TableExact
BY PoolStart, PoolStep, Bounded, PTL DEF PoolSpec

-----------------------------------------------------------------------------
\* NodeWebSocket.

\* The types, as the provers like them.
Typed ==
    /\ readyState \in {"connecting", "open", "closing", "closed"}
    /\ request \in Wires \cup {0} /\ socket \in Wires \cup {0}
    /\ closedByCaller \in BOOLEAN /\ closeNotified \in BOOLEAN
    /\ timer \in BOOLEAN /\ aborted \in BOOLEAN
    /\ attempts \in 0..Attempts
    /\ pieces \in SUBSET Wires /\ listening \in SUBSET Wires /\ stranded \in SUBSET Wires
    /\ wire \in [Wires -> {"unused", "dialing", "open", "leaving", "failing", "spent", "gone"}]

LEMMA Types == Typed => SocketTypeOK
  BY DEF Typed, SocketTypeOK

USE SocketAssumption

LEMMA TypedInit == SocketInit => Typed
<1> SUFFICES ASSUME SocketInit PROVE Typed
  OBVIOUS
<1>1. 1 \in Wires /\ 0 \in 0..Attempts
  BY SMT DEF Wires
<1>2. wire \in [Wires -> {"unused", "dialing", "open", "leaving", "failing", "spent", "gone"}]
  BY DEF SocketInit
<1>3. QED
  BY <1>1, <1>2 DEF SocketInit, Typed

\* #notifyClose keeps the fields it changes in their types.
LEMMA NotifyTyped ==
  ASSUME Typed, NEW k, NEW caller \in BOOLEAN, NotifyClose(k, caller)
  PROVE  /\ readyState' \in {"connecting", "open", "closing", "closed"}
         /\ request' \in Wires \cup {0} /\ socket' \in Wires \cup {0}
         /\ closeNotified' \in BOOLEAN /\ timer' \in BOOLEAN
         /\ attempts' \in 0..Attempts /\ stranded' \in SUBSET Wires
<1>1. CASE Silenced
  BY <1>1 DEF Typed, NotifyClose
<1>2. CASE ~Silenced
  <2>1. attempts' \in 0..Attempts
    <3>1. CASE Rearmed(caller)
      BY <1>2, <3>1, SMT DEF Typed, NotifyClose, Rearmed
    <3>2. CASE ~Rearmed(caller)
      BY <1>2, <3>2 DEF Typed, NotifyClose
    <3>3. QED
      BY <3>1, <3>2
  <2>2. timer' \in BOOLEAN
    BY <1>2, Zenon DEF NotifyClose, Typed
  <2>3. stranded' \in SUBSET Wires
    BY <1>2 DEF NotifyClose, Others, Typed
  <2>4. QED
    BY <1>2, <2>1, <2>2, <2>3 DEF NotifyClose
<1>3. QED
  BY <1>1, <1>2

LEMMA TypedStep == Typed /\ [SocketNext]_socketVars => Typed'
<1> SUFFICES ASSUME Typed, [SocketNext]_socketVars PROVE Typed'
  OBVIOUS
<1> USE DEF Typed
<1>1. ASSUME NEW k \in Wires, Upgrade(k) PROVE Typed'
  BY <1>1, SMT DEF Upgrade, Others
<1>2. ASSUME NEW k \in Wires, BadUpgrade(k) PROVE Typed'
  <2>1. CASE Silenced
    BY <1>2, <2>1, SMT DEF BadUpgrade
  <2>2. CASE ~Silenced
    BY <1>2, <2>2, NotifyTyped, SMT DEF BadUpgrade
  <2>3. QED
    BY <2>1, <2>2
<1>3. ASSUME NEW k \in Wires, Response(k) PROVE Typed'
  BY <1>3, NotifyTyped, SMT DEF Response
<1>4. ASSUME NEW k \in Wires, RequestError(k) PROVE Typed'
  BY <1>4, NotifyTyped, SMT DEF RequestError
<1>5. ASSUME NEW k \in Wires, ResponseEnds(k) PROVE Typed'
  BY <1>5, SMT DEF ResponseEnds
<1>6. ASSUME NEW k \in Wires, Piece(k) \/ Message(k) PROVE Typed'
  BY <1>6, SMT DEF Piece, Message
<1>7. ASSUME NEW k \in Wires, CloseFrame(k) PROVE Typed'
  <2>1. CASE Silenced
    BY <1>7, <2>1, SMT DEF CloseFrame
  <2>2. CASE ~Silenced
    BY <1>7, <2>2, NotifyTyped, SMT DEF CloseFrame
  <2>3. QED
    BY <2>1, <2>2
<1>8. ASSUME NEW k \in Wires, SocketCloses(k) PROVE Typed'
  BY <1>8, NotifyTyped, SMT DEF SocketCloses
<1>9. ASSUME Abort PROVE Typed'
  BY <1>9, SMT DEF Abort
<1>10. ASSUME Close PROVE Typed'
  <2>1. [k \in Wires |-> IF k \in {request, socket} THEN HungUp(k) ELSE wire[k]]
          \in [Wires -> {"unused", "dialing", "open", "leaving", "failing", "spent", "gone"}]
    BY DEF HungUp
  <2>2. wire' \in [Wires -> {"unused", "dialing", "open", "leaving", "failing", "spent", "gone"}]
    BY <1>10, <2>1 DEF Close
  <2>3. QED
    BY <1>10, <2>2 DEF Close
<1>11. ASSUME Reconnect PROVE Typed'
  <2>1. PICK k \in Fresh :
          /\ request' = k /\ readyState' = "connecting" /\ closeNotified' = FALSE
          /\ \/ /\ closedByCaller' = TRUE
                /\ wire' = [wire EXCEPT ![k] = "gone"]
                /\ UNCHANGED listening
             \/ /\ wire' = [wire EXCEPT ![k] = "dialing"]
                /\ listening' = listening \cup {k}
                /\ UNCHANGED closedByCaller
    BY <1>11 DEF Reconnect, Connect, NotYetNotified
  <2>2. k \in Wires
    BY DEF Fresh
  <2>3. wire' \in [Wires -> {"unused", "dialing", "open", "leaving", "failing", "spent", "gone"}]
    BY <2>1, <2>2
  <2>4. QED
    BY <1>11, <2>1, <2>2, <2>3 DEF Reconnect, FreshPieces
<1>12. CASE UNCHANGED socketVars
  BY <1>12, SMT DEF socketVars
<1>13. QED
  BY <1>1, <1>2, <1>3, <1>4, <1>5, <1>6, <1>7, <1>8, <1>9, <1>10, <1>11, <1>12 DEF SocketNext

\* No order of events takes a field out of its type; in particular the count
\* of reconnects stays within reconnect.attempts.
THEOREM TypeCorrect == SocketSpec => []SocketTypeOK
<1>1. SocketSpec => []Typed
  BY TypedInit, TypedStep, PTL DEF SocketSpec
<1>2. QED
  BY <1>1, Types, PTL

-----------------------------------------------------------------------------

\* How the fields of the object go together.  A timer that outlives the abort
\* of the signal was armed for an answer whose body was still arriving.
Held ==
    /\ timer => closeNotified
    /\ closedByCaller /\ timer => aborted
    /\ readyState = "open" => request = 0
    /\ \A k \in Wires : wire[k] = "dialing" => k \in listening /\ (closedByCaller => k \in stranded)

\* The connections the object has not lost hold of.
Kept == OnTheLine \ stranded

WireInv == Typed /\ Held /\ OneConnection

LEMMA WireStart == SocketInit => Held /\ OneConnection
BY DEF SocketInit, Held, OneConnection, OnTheLine

\* A step that brings no connection and leaves those that are kept alone.
LEMMA KeptStays ==
  ASSUME WireInv, UNCHANGED <<request, socket, closeNotified>>, stranded \subseteq stranded',
         \A k \in Wires : wire'[k] \in {"dialing", "open"} => wire'[k] = wire[k]
  PROVE  OneConnection'
<1>1. Kept' \subseteq Kept
  BY DEF Kept, OnTheLine
<1>2. SUFFICES ASSUME NEW k \in Kept'
               PROVE  /\ IF wire'[k] = "dialing" THEN request' = k ELSE socket' = k
                      /\ Kept' = {k}
                      /\ ~closeNotified'
  BY DEF OneConnection, Kept
<1>3. /\ IF wire[k] = "dialing" THEN request = k ELSE socket = k
      /\ Kept = {k} /\ ~closeNotified
  BY <1>1, <1>2 DEF WireInv, OneConnection, Kept
<1>4. wire'[k] = wire[k]
  BY <1>2 DEF Kept, OnTheLine
<1>5. QED
  BY <1>1, <1>2, <1>3, <1>4

\* Once closeNotified is set nothing is kept.
LEMMA NoneKept == ASSUME WireInv, closeNotified PROVE Kept = {}
BY DEF WireInv, OneConnection, Kept

LEMMA NoneIsOne == ASSUME Kept' = {} PROVE OneConnection'
BY DEF OneConnection, Kept

\* #notifyClose in a handler of wire k that ends it: whatever else was kept is
\* stranded.
LEMMA Notified ==
  ASSUME WireInv, NEW k \in Wires, NotifyClose(k, closedByCaller),
         NEW to \in {"gone", "leaving", "spent"}, wire' = [wire EXCEPT ![k] = to]
  PROVE  OneConnection'
<1>1. \A j \in Wires : wire'[j] = IF j = k THEN to ELSE wire[j]
  BY DEF WireInv, Typed
<1>2. CASE closeNotified
  BY <1>1, <1>2, KeptStays DEF NotifyClose, Silenced
<1>3. CASE ~closeNotified
  <2>1. stranded' = stranded \cup ({request, socket} \ {0, k})
    BY <1>3 DEF NotifyClose, Silenced, Others
  <2>2. SUFFICES ASSUME NEW j \in Kept' PROVE FALSE
    BY NoneIsOne
  <2>3. j \in Wires /\ j # k /\ j \in Kept /\ j \notin stranded'
    BY <1>1, <2>1 DEF Kept, OnTheLine
  <2>4. j \in {request, socket}
    BY <2>3 DEF WireInv, OneConnection, Kept
  <2>5. j # 0
    BY <2>3, SMT DEF Wires
  <2>6. QED
    BY <2>1, <2>3, <2>4, <2>5
<1>4. QED
  BY <1>2, <1>3

\* What #notifyClose does to the rest of the invariant.
LEMMA NotifiedHeld ==
  ASSUME WireInv, NEW k \in Wires, NotifyClose(k, closedByCaller),
         UNCHANGED <<closedByCaller, aborted>>, listening \ {k} \subseteq listening',
         NEW to \in {"gone", "leaving", "spent"}, wire' = [wire EXCEPT ![k] = to]
  PROVE  Held'
<1>1. \A j \in Wires : wire'[j] = "dialing" => wire[j] = "dialing" /\ j # k
  BY DEF WireInv, Typed
<1>2. stranded \subseteq stranded'
  BY DEF NotifyClose, Others
<1>3. timer' => closeNotified'
  BY DEF NotifyClose, Silenced, WireInv, Held
<1>4. timer' => timer \/ ~closedByCaller
  BY DEF NotifyClose, Rearmed
<1>5. readyState' = "open" => request' = 0
  BY DEF NotifyClose, WireInv, Held
<1>6. QED
  BY <1>1, <1>2, <1>3, <1>4, <1>5 DEF WireInv, Held

LEMMA WireStep == ASSUME WireInv, [SocketNext]_socketVars PROVE Held' /\ OneConnection'
<1> USE DEF WireInv
<1>1. ASSUME NEW k \in Wires, Upgrade(k) PROVE Held' /\ OneConnection'
  <2>1. \A j \in Wires : wire'[j] = IF j = k THEN "open" ELSE wire[j]
    BY <1>1 DEF Upgrade, Typed
  <2>2. /\ stranded' = stranded \cup ({request, socket} \ {0, k})
        /\ request' = 0 /\ socket' = k
        /\ UNCHANGED <<closedByCaller, closeNotified, timer, aborted>> /\ listening' = listening \ {k}
    BY <1>1 DEF Upgrade, Others
  <2>3. Held'
    BY <2>1, <2>2 DEF Held
  <2>4. Kept' \subseteq {k}
    <3>1. SUFFICES ASSUME NEW j \in Kept', j # k PROVE FALSE
      OBVIOUS
    <3>2. j \in Wires /\ j \in Kept /\ j \notin stranded'
      BY <2>1, <2>2, <3>1 DEF Kept, OnTheLine
    <3>3. j \in {request, socket}
      BY <3>2 DEF OneConnection, Kept
    <3>4. j # 0
      BY <3>2, SMT DEF Wires
    <3>5. QED
      BY <2>2, <3>1, <3>2, <3>3, <3>4
  <2>5. k \in Kept' => ~closeNotified
    BY <1>1, <2>2 DEF Upgrade, Kept, OnTheLine, OneConnection
  <2>6. OneConnection'
    BY <2>1, <2>2, <2>4, <2>5 DEF OneConnection, Kept
  <2>7. QED
    BY <2>3, <2>6
<1>2. ASSUME NEW k \in Wires, BadUpgrade(k) PROVE Held' /\ OneConnection'
  <2>1. \A j \in Wires : wire'[j] = IF j = k THEN "gone" ELSE wire[j]
    BY <1>2 DEF BadUpgrade, Typed
  <2>2. CASE closeNotified
    <3>1. /\ request' = 0 /\ stranded \subseteq stranded' /\ listening' = listening \ {k}
          /\ UNCHANGED <<readyState, closedByCaller, closeNotified, timer, aborted>>
      BY <1>2, <2>2 DEF BadUpgrade, Silenced
    <3>2. Held'
      BY <2>1, <3>1 DEF Held
    <3>3. Kept' = {}
      BY <2>1, <2>2, <3>1, NoneKept DEF Kept, OnTheLine
    <3>4. QED
      BY <3>2, <3>3, NoneIsOne
  <2>3. CASE ~closeNotified
    BY <1>2, <2>3, Notified, NotifiedHeld DEF BadUpgrade, Silenced
  <2>4. QED
    BY <2>2, <2>3
<1>3. ASSUME NEW k \in Wires, Response(k) PROVE Held' /\ OneConnection'
  BY <1>3, Notified, NotifiedHeld DEF Response
<1>4. ASSUME NEW k \in Wires, RequestError(k) PROVE Held' /\ OneConnection'
  BY <1>4, Notified, NotifiedHeld DEF RequestError
<1>5. ASSUME NEW k \in Wires, ResponseEnds(k) PROVE Held' /\ OneConnection'
  <2>1. \A j \in Wires : wire'[j] = IF j = k THEN "gone" ELSE wire[j]
    BY <1>5 DEF ResponseEnds, Typed
  <2>2. OneConnection'
    BY <1>5, <2>1, KeptStays DEF ResponseEnds
  <2>3. Held'
    BY <1>5, <2>1 DEF ResponseEnds, Held
  <2>4. QED
    BY <2>2, <2>3
<1>6. ASSUME NEW k \in Wires, Piece(k) \/ Message(k) PROVE Held' /\ OneConnection'
  BY <1>6, KeptStays DEF Piece, Message, Held
<1>7. ASSUME NEW k \in Wires, CloseFrame(k) PROVE Held' /\ OneConnection'
  <2>1. CASE closeNotified
    <3>1. \A j \in Wires : wire'[j] = IF j = k THEN "leaving" ELSE wire[j]
      BY <1>7 DEF CloseFrame, Typed
    <3>2. /\ UNCHANGED <<request, socket, closedByCaller, closeNotified, timer, aborted, stranded, listening>>
          /\ readyState' = "open" => readyState = "open"
      BY <1>7, <2>1 DEF CloseFrame, Silenced
    <3>3. OneConnection'
      BY <3>1, <3>2, KeptStays
    <3>4. QED
      BY <3>1, <3>2, <3>3 DEF Held
  <2>2. CASE ~closeNotified
    BY <1>7, <2>2, Notified, NotifiedHeld DEF CloseFrame, Silenced
  <2>3. QED
    BY <2>1, <2>2
<1>8. ASSUME NEW k \in Wires, SocketCloses(k) PROVE Held' /\ OneConnection'
  BY <1>8, Notified, NotifiedHeld DEF SocketCloses
<1>9. ASSUME Abort PROVE Held' /\ OneConnection'
  <2>1. \A k \in Wires :
          wire'[k] = IF k \in listening /\ wire[k] \in {"dialing", "spent"} THEN "failing" ELSE wire[k]
    BY <1>9 DEF Abort
  <2>2. aborted' /\ UNCHANGED <<readyState, request, socket, closeNotified, timer, stranded>>
    BY <1>9 DEF Abort
  <2>3. \A k \in Wires : wire'[k] # "dialing"
    BY <2>1 DEF Held
  <2>4. OneConnection'
    BY <2>1, <2>2, KeptStays
  <2>5. QED
    BY <2>2, <2>3, <2>4 DEF Held
<1>10. ASSUME Close PROVE Held' /\ OneConnection'
  <2>1. CASE readyState = "open" /\ socket # 0
    <3>1. /\ closedByCaller' = TRUE /\ readyState' = "closing" /\ timer' = FALSE
          /\ UNCHANGED <<request, socket, closeNotified, wire, stranded, listening>>
      BY <1>10, <2>1 DEF Close
    <3>2. request = 0
      BY <2>1 DEF Held
    <3>3. \A k \in Wires : wire[k] = "dialing" => k \in stranded
      <4>1. SUFFICES ASSUME NEW k \in Wires, wire[k] = "dialing", k \notin stranded PROVE FALSE
        OBVIOUS
      <4>2. request = k
        BY <4>1 DEF OneConnection, OnTheLine
      <4>3. QED
        BY <3>2, <4>2, SMT DEF Wires
    <3>4. OneConnection'
      BY <3>1, KeptStays
    <3>5. QED
      BY <3>1, <3>3, <3>4 DEF Held
  <2>2. CASE ~(readyState = "open" /\ socket # 0)
    <3>1. \A k \in Wires : wire'[k] = IF k \in {request, socket} THEN HungUp(k) ELSE wire[k]
      BY <1>10, <2>2 DEF Close
    <3>2. /\ closedByCaller' = TRUE /\ timer' = FALSE
          /\ UNCHANGED <<aborted, stranded, listening>>
      BY <1>10, <2>2 DEF Close
    <3>3. \A k \in Wires : wire'[k] \in {"dialing", "open"} => wire'[k] = wire[k] /\ k \notin {request, socket}
      BY <3>1 DEF HungUp
    <3>4. Kept' = {}
      <4>1. SUFFICES ASSUME NEW k \in Kept' PROVE FALSE
        OBVIOUS
      <4>2. k \in Kept /\ k \notin {request, socket}
        BY <3>2, <3>3, <4>1 DEF Kept, OnTheLine
      <4>3. QED
        BY <4>2 DEF OneConnection, Kept
    <3>5. \A k \in Wires : wire'[k] = "dialing" => k \in listening' /\ k \in stranded'
      BY <3>2, <3>3, <3>4 DEF Kept, OnTheLine, Held
    <3>6. readyState' = "open" => request' = 0
      BY <1>10, <2>2 DEF Close, Held
    <3>7. QED
      BY <3>2, <3>4, <3>5, <3>6, NoneIsOne DEF Held
  <2>3. QED
    BY <2>1, <2>2
<1>11. ASSUME Reconnect PROVE Held' /\ OneConnection'
  <2>1. PICK k \in Fresh :
          /\ request' = k /\ readyState' = "connecting" /\ closeNotified' = FALSE
          /\ \/ /\ aborted
                /\ closedByCaller' = TRUE
                /\ wire' = [wire EXCEPT ![k] = "gone"]
                /\ UNCHANGED listening
             \/ /\ ~aborted
                /\ wire' = [wire EXCEPT ![k] = "dialing"]
                /\ listening' = listening \cup {k}
                /\ UNCHANGED closedByCaller
    BY <1>11 DEF Reconnect, Connect, NotYetNotified
  <2>2. timer /\ timer' = FALSE /\ stranded \subseteq stranded' /\ UNCHANGED aborted
    BY <1>11 DEF Reconnect
  <2>3. Kept = {}
    BY <2>2, NoneKept DEF Held
  <2>4. k \in Wires
    BY DEF Fresh
  <2>5. \A j \in Wires : j # k => wire'[j] = wire[j]
    BY <2>1, <2>4 DEF Typed
  <2>6. wire'[k] = "gone" \/ (wire'[k] = "dialing" /\ ~closedByCaller')
    BY <2>1, <2>2, <2>4 DEF Typed, Held
  <2>7. Kept' \subseteq {k}
    BY <2>2, <2>3, <2>5 DEF Kept, OnTheLine
  <2>8. k \in Kept' => wire'[k] = "dialing"
    BY <2>6 DEF Kept, OnTheLine
  <2>9. OneConnection'
    BY <2>1, <2>7, <2>8 DEF OneConnection, Kept
  <2>10. \A j \in Wires : wire'[j] = "dialing" => j \in listening' /\ (closedByCaller' => j \in stranded')
    <3>1. ASSUME NEW j \in Wires, wire'[j] = "dialing", j # k PROVE j \in listening' /\ j \in stranded'
      <4>1. wire[j] = "dialing"
        BY <2>5, <3>1
      <4>2. j \in listening /\ j \in stranded
        BY <2>3, <3>1, <4>1 DEF Held, Kept, OnTheLine
      <4>3. QED
        BY <2>1, <2>2, <4>2
    <3>2. wire'[k] = "dialing" => k \in listening' /\ ~closedByCaller'
      BY <2>1, <2>4, <2>6 DEF Typed
    <3>3. QED
      BY <3>1, <3>2
  <2>11. Held'
    BY <2>1, <2>2, <2>10 DEF Held
  <2>12. QED
    BY <2>9, <2>11
<1>12. CASE UNCHANGED socketVars
  BY <1>12, KeptStays DEF socketVars, Held
<1>13. QED
  BY <1>1, <1>2, <1>3, <1>4, <1>5, <1>6, <1>7, <1>8, <1>9, <1>10, <1>11, <1>12 DEF SocketNext

LEMMA WireInductive == SocketSpec => []WireInv
<1>1. SocketInit => WireInv
  BY TypedInit, WireStart DEF WireInv
<1>2. WireInv /\ [SocketNext]_socketVars => WireInv'
  BY WireStep, TypedStep DEF WireInv
<1>3. QED
  BY <1>1, <1>2, PTL DEF SocketSpec

\* However late the events of old requests and sockets come, and in whatever order
\* with handshakes, failures, frames, aborts and closes: but for what such an event
\* made it drop, the object has one connection at a time, close() reaches it, and a
\* reported close leaves none.
THEOREM OneAtATime == SocketSpec => []OneConnection
<1>1. WireInv => OneConnection
  BY DEF WireInv
<1>2. QED
  BY <1>1, WireInductive, PTL

\* close() is final: what was under way when it was called, be it a timer, a
\* handshake or a late event, dials nothing, and only a handshake that had been
\* dropped before can still open.
THEOREM Final == SocketSpec => CloseIsFinal
<1> DEFINE Dead == closedByCaller => \A k \in Wires :
              /\ wire'[k] = "dialing" => wire[k] = "dialing"
              /\ wire'[k] = "open" => wire[k] = "open" \/ k \in stranded
<1>1. ASSUME WireInv, [SocketNext]_socketVars PROVE [Dead]_socketVars
  <2> USE DEF WireInv
  <2> SUFFICES ASSUME SocketNext, closedByCaller, NEW k \in Wires
               PROVE  /\ wire'[k] = "dialing" => wire[k] = "dialing"
                      /\ wire'[k] = "open" => wire[k] = "open" \/ k \in stranded
    BY <1>1
  <2>1. CASE \E j \in Wires : Upgrade(j)
    <3>1. PICK j \in Wires : wire[j] = "dialing" /\ wire' = [wire EXCEPT ![j] = "open"]
      BY <2>1 DEF Upgrade
    <3>2. j \in stranded
      BY <1>1, <3>1 DEF Held
    <3>3. QED
      BY <1>1, <3>1, <3>2 DEF Typed
  <2>2. CASE Reconnect
    <3>1. aborted
      BY <1>1, <2>2 DEF Reconnect, Held
    <3>2. \E j \in Wires : wire' = [wire EXCEPT ![j] = "gone"]
      BY <2>2, <3>1 DEF Reconnect, Connect, Fresh
    <3>3. QED
      BY <1>1, <3>2 DEF Typed
  <2>3. CASE Close \/ Abort
    BY <2>3 DEF Close, Abort, HungUp
  <2>4. CASE \E j \in Wires : \/ BadUpgrade(j) \/ Response(j) \/ RequestError(j) \/ ResponseEnds(j)
                              \/ Piece(j) \/ Message(j) \/ CloseFrame(j) \/ SocketCloses(j)
    <3>1. wire' = wire \/ \E j \in Wires : \E to \in {"gone", "spent", "leaving"} : wire' = [wire EXCEPT ![j] = to]
      BY <2>4 DEF BadUpgrade, Response, RequestError, ResponseEnds, Piece, Message, CloseFrame,
           SocketCloses
    <3>2. QED
      BY <1>1, <3>1 DEF Typed
  <2>5. QED
    BY <2>1, <2>2, <2>3, <2>4 DEF SocketNext
<1>2. WireInv /\ [SocketNext]_socketVars => [Dead]_socketVars
  BY <1>1
<1>3. QED
  BY <1>2, WireInductive, PTL DEF SocketSpec, CloseIsFinal

-----------------------------------------------------------------------------
\* Of the bytes that are kept, those of no stranded socket are of the connection
\* the object has; none are left when the next one is dialled.
Own == \A k \in Kept : pieces \subseteq stranded \cup {k}

LEMMA OwnInit == SocketInit => Own
BY DEF SocketInit, Own

LEMMA OwnStep == ASSUME WireInv, WireInv', Own, [SocketNext]_socketVars PROVE Own'
<1> USE DEF WireInv, Typed
<1>1. ASSUME pieces' = pieces, stranded \subseteq stranded',
             \A k \in Wires : wire'[k] \in {"open", "dialing"} => wire[k] \in {"open", "dialing"}
      PROVE  Own'
  <2>1. Kept' \subseteq Kept
    BY <1>1 DEF Kept, OnTheLine
  <2>2. QED
    BY <1>1, <2>1 DEF Own
<1>2. ASSUME NEW k \in Wires,
             Upgrade(k) \/ BadUpgrade(k) \/ Response(k) \/ RequestError(k) \/ ResponseEnds(k)
      PROVE  Own'
  <2>1. pieces' = pieces /\ stranded \subseteq stranded'
    BY <1>2 DEF Upgrade, BadUpgrade, Response, RequestError, ResponseEnds, NotifyClose
  <2>2. \A j \in Wires : wire'[j] \in {"open", "dialing"} => wire[j] \in {"open", "dialing"}
    BY <1>2 DEF Upgrade, BadUpgrade, Response, RequestError, ResponseEnds
  <2>3. QED
    BY <1>1, <2>1, <2>2
<1>3. ASSUME NEW k \in Wires, Piece(k) PROVE Own'
  <2>1. pieces' = pieces \cup {k} /\ UNCHANGED <<wire, stranded>> /\ k \in OnTheLine
    BY <1>3 DEF Piece, OnTheLine
  <2>2. Kept' = Kept
    BY <2>1 DEF Kept, OnTheLine
  <2>3. \A j \in Kept : k \in stranded \cup {j}
    BY <2>1 DEF Kept, OneConnection
  <2>4. QED
    BY <2>1, <2>2, <2>3 DEF Own
<1>4. ASSUME NEW k \in Wires, Message(k) PROVE Own'
  BY <1>4 DEF Message, Own
<1>5. ASSUME NEW k \in Wires, CloseFrame(k) \/ SocketCloses(k) PROVE Own'
  <2>1. pieces' = pieces /\ stranded \subseteq stranded'
    BY <1>5 DEF CloseFrame, SocketCloses, NotifyClose
  <2>2. \A j \in Wires : wire'[j] \in {"open", "dialing"} => wire[j] \in {"open", "dialing"}
    BY <1>5 DEF CloseFrame, SocketCloses
  <2>3. QED
    BY <1>1, <2>1, <2>2
<1>6. ASSUME Abort \/ Close PROVE Own'
  <2>1. pieces' = pieces /\ stranded \subseteq stranded'
    BY <1>6 DEF Abort, Close
  <2>2. \A j \in Wires : wire'[j] \in {"open", "dialing"} => wire[j] \in {"open", "dialing"}
    BY <1>6 DEF Abort, Close, HungUp
  <2>3. QED
    BY <1>1, <2>1, <2>2
<1>7. ASSUME Reconnect PROVE Own'
  BY <1>7 DEF Reconnect, FreshPieces, Own
<1>8. CASE UNCHANGED socketVars
  BY <1>8 DEF socketVars, Own, Kept, OnTheLine
<1>9. QED
  BY <1>2, <1>3, <1>4, <1>5, <1>6, <1>7, <1>8 DEF SocketNext

\* However late the events come: no message is put together from the bytes of two
\* sockets, unless one of them was dropped while it was still sending; the first
\* one's leave #buffer and #fragments before the second is dialled.
THEOREM Whole == SocketSpec => WholeMessages
<1> DEFINE Unmixed == \A k \in Wires \ stranded : Message(k) => pieces \subseteq stranded \cup {k}
<1>1. ASSUME Own PROVE Unmixed
  BY <1>1 DEF Own, Message, Kept, OnTheLine
<1>2. Own => [Unmixed]_socketVars
  BY <1>1
<1>3. WireInv /\ WireInv' /\ Own /\ [SocketNext]_socketVars => Own'
  BY OwnStep
<1>4. QED
  BY <1>2, <1>3, OwnInit, WireInductive, PTL DEF SocketSpec, WholeMessages

\* Both of the above.
THEOREM Apart == SocketSpec => ConnectionsApart
BY Final, Whole DEF ConnectionsApart
=============================================================================
