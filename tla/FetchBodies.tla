----------------------------- MODULE FetchBodies -----------------------------
(***************************************************************************)
(* The two bodies of a request that goes through fetch, how they are       *)
(* counted and what the progress callbacks are told.  There are three      *)
(* copies of this code: src/src/adapters/fetch.ts ("fetch"),               *)
(* src/src/adapters/browser.ts ("plain") and src/src/core/BrowserClient.ts *)
(* ("browser"); progress.ts is the first one's.  Attempts of a retried     *)
(* request follow one another with the caller's one body.                  *)
(*                                                                         *)
(* fetch and the streams are external: fetch asks for the parts of a body, *)
(* answers when it has them all, and refuses one that was used before.     *)
(* Text stands for every body whose size is known, blob for FormData too.  *)
(* Redirects are not followed, and callbacks do not throw.                 *)
(*                                                                         *)
(* OverBefore is a mutated form of the definition it precedes; no action   *)
(* uses it.                                                                *)
(***************************************************************************)
EXTENDS Undefined, Numbers, Integers, Sequences

CONSTANTS
    Exchanges,       \* requests: see FetchBodiesTypes
    FetchAttempts    \* attempts at most

Directions == {"upload", "download"}

\* body, type: what is sent and what is asked for; parts, reply: the sizes of their
\* pieces; declared, told: their lengths by the headers, or None; watched: there are
\* callbacks; streams, blobs: the platform has streams, its responses have blob().
ASSUME FetchBodiesTypes ==
    /\ FetchAttempts \in Nat \ {0} /\ None \notin Nat
    /\ \A x \in Exchanges :
        /\ x.client \in {"fetch", "plain", "browser"} /\ x.limit \in Nat
        /\ x.body \in {"none", "text", "form", "stream", "readable"}
        /\ x.body = "readable" => x.client = "fetch"
        /\ x.type \in {"text", "blob", "stream"}
        /\ {x.watched, x.streams, x.blobs} \subseteq BOOLEAN
        /\ {x.parts, x.reply} \subseteq Seq(Nat) /\ {x.declared, x.told} \subseteq Nat \cup {None}

VARIABLES
    exchange,    \* the request
    leg,         \* where it is
    amounts,     \* attempts begun, parts taken of the caller's body, bytes sent and received
    progress     \* the two WeakMaps' entries for this config, and the events of this attempt

fetchBodyVars == <<exchange, leg, amounts, progress>>

Or0(n) == IF n = None THEN 0 ELSE n

FetchBodiesInit ==
    /\ exchange \in Exchanges
    /\ leg = "ready"
    /\ amounts = [attempts |-> 0, taken |-> 0, got |-> 0, sent |-> 0, received |-> 0]
    /\ progress = [marks |-> [d \in Directions |-> None], events |-> <<>>]

-----------------------------------------------------------------------------
\* reportProgress: bytes are counted from the event before, whichever attempt that was.
reportProgress(p, direction, loaded, total) ==
    LET before == Or0(p.marks[direction])
        event  == [direction |-> direction, loaded |-> loaded, total |-> total,
                   bytes |-> Larger(0, loaded - before)]
    IN IF ~exchange.watched THEN p
       ELSE [marks |-> [p.marks EXCEPT ![direction] = loaded], events |-> Append(p.events, event)]

\* What the streams' trackers and readers begin with.
Announced(p, direction, total) == reportProgress(p, direction, 0, total)

reportKnownUploadProgress(p, total) ==
    reportProgress(Announced(p, "upload", total), "upload", total, total)

\* How each of the three sends the body: its size is told beforehand, its parts are
\* counted as fetch asks for them, or nothing is.  `piped` is a body that cannot be
\* used twice, `iterated` one that gives what is left of it.
BrowserSends ==
    CASE exchange.body = "text"   -> "known"
      [] exchange.body = "stream" -> "piped"
      [] OTHER                    -> "opaque"
PlainSends ==
    CASE exchange.body = "text"   -> IF exchange.watched THEN "known" ELSE "opaque"
      [] exchange.body = "stream" -> "piped"
      [] OTHER                    -> "opaque"
FetchSends ==
    CASE exchange.body = "text"     -> IF exchange.watched THEN "known" ELSE "opaque"
      [] exchange.body = "stream"   -> "piped"
      [] exchange.body = "readable" -> IF exchange.watched /\ exchange.streams THEN "iterated" ELSE "piped"
      [] OTHER                      -> "opaque"
Sends ==
    CASE exchange.client = "browser" -> BrowserSends
      [] exchange.client = "plain"   -> PlainSends
      [] exchange.client = "fetch"   -> FetchSends

\* Streams can only be listened in on where there is TransformStream.
Tracked == Sends \in {"piped", "iterated"} /\ exchange.streams

\* How each of the three reads the answer: as the platform's stream, by the platform,
\* into a buffer at once, or chunk by chunk.
Buffers == IF exchange.streams /\ exchange.watched THEN "chunks" ELSE "whole"
BrowserReads ==
    CASE exchange.type = "blob" /\ exchange.blobs -> "platform"
      [] exchange.type = "stream"                 -> "stream"
      [] OTHER                                    -> Buffers
PlainReads ==
    CASE exchange.type = "stream"                 -> "stream"
      [] exchange.type = "blob" /\ exchange.blobs -> "platform"
      [] OTHER                                    -> Buffers
FetchReads ==
    CASE exchange.type = "stream" -> "stream"
      [] exchange.type = "blob"   -> "platform"
      [] OTHER                    -> Buffers
Reads ==
    CASE exchange.client = "browser" -> BrowserReads
      [] exchange.client = "plain"   -> PlainReads
      [] exchange.client = "fetch"   -> FetchReads

-----------------------------------------------------------------------------
\* An attempt begins.  BrowserClient's has a config of its own.
Used == amounts.attempts > 0
FreshProgress ==
    [marks |-> IF exchange.client = "browser" THEN [d \in Directions |-> None] ELSE progress.marks,
     events |-> <<>>]

BeginFetch ==
    /\ leg \in {"ready", "failed"} /\ amounts.attempts < FetchAttempts
    /\ amounts' = [amounts EXCEPT !.attempts = @ + 1, !.got = 0, !.sent = 0, !.received = 0]
    /\ progress' = CASE Sends = "known" -> reportKnownUploadProgress(FreshProgress, Total(exchange.parts))
                     [] Tracked -> Announced(FreshProgress, "upload", exchange.declared)
                     [] OTHER -> FreshProgress
    /\ leg' = IF Sends = "piped" /\ Used THEN "failed" ELSE "sending"
    /\ UNCHANGED exchange

\* fetch asks for the next part of a stream.
PullPart ==
    /\ leg = "sending" /\ Sends \in {"piped", "iterated"}
    /\ amounts.taken < Len(exchange.parts)
    /\ amounts.attempts = 1
    /\ LET sent == amounts.sent + exchange.parts[amounts.taken + 1]
       IN /\ amounts' = [amounts EXCEPT !.taken = @ + 1, !.sent = sent]
          /\ progress' = IF Tracked THEN reportProgress(progress, "upload", sent, exchange.declared)
                         ELSE progress
    /\ UNCHANGED <<exchange, leg>>

\* A Node stream that an earlier attempt broke off was destroyed, and errs.
PullFails ==
    /\ leg = "sending" /\ Sends = "iterated"
    /\ amounts.attempts > 1 /\ amounts.taken < Len(exchange.parts)
    /\ leg' = "failed"
    /\ UNCHANGED <<exchange, amounts, progress>>

\* The connection fails, or the answer is not what the client accepts.
FetchFails ==
    /\ leg \in {"sending", "reading"}
    /\ leg' = "failed"
    /\ UNCHANGED <<exchange, amounts, progress>>

\* The whole body was sent, and fetch resolves.
FetchResolves ==
    /\ leg = "sending"
    /\ Sends \in {"piped", "iterated"} => amounts.taken = Len(exchange.parts)
    /\ amounts' = IF Sends \in {"piped", "iterated"} \/ exchange.body = "none" THEN amounts
                  ELSE [amounts EXCEPT !.sent = Total(exchange.parts)]
    /\ leg' = IF Reads = "stream" THEN "streaming" ELSE "reading"
    /\ progress' = CASE Reads = "platform"                      -> progress
                     [] Reads = "stream" /\ ~exchange.streams -> progress
                     [] OTHER -> Announced(progress, "download", exchange.told)
    /\ UNCHANGED exchange

OverBefore(n) == FALSE
Over(n) == n > exchange.limit

\* A chunk arrives: at the reader, or at whom the response's stream was given to.
ChunkArrives ==
    /\ (leg = "reading" /\ Reads = "chunks") \/ leg = "streaming"
    /\ amounts.got < Len(exchange.reply)
    /\ LET loaded == amounts.received + exchange.reply[amounts.got + 1]
       IN /\ amounts' = [amounts EXCEPT !.got = @ + 1, !.received = loaded]
          /\ IF leg = "reading" /\ Over(loaded)
             THEN leg' = "failed" /\ UNCHANGED progress
             ELSE /\ progress' = IF exchange.streams THEN reportProgress(progress, "download", loaded, exchange.told)
                                 ELSE progress
                  /\ UNCHANGED leg
    /\ UNCHANGED exchange

\* The platform has the whole answer.
AllArrives ==
    /\ leg = "reading" /\ Reads \in {"whole", "platform"}
    /\ LET size == Total(exchange.reply)
       IN IF Reads = "whole" /\ Over(size)
          THEN leg' = "failed" /\ UNCHANGED <<amounts, progress>>
          ELSE /\ leg' = "done"
               /\ amounts' = [amounts EXCEPT !.received = size]
               /\ progress' = IF Reads = "platform" THEN progress
                              ELSE reportProgress(progress, "download", size,
                                                  IF exchange.told = None THEN size ELSE exchange.told)
    /\ UNCHANGED exchange

LastChunk ==
    /\ (leg = "reading" /\ Reads = "chunks") \/ leg = "streaming"
    /\ amounts.got = Len(exchange.reply)
    /\ leg' = "done"
    /\ UNCHANGED <<exchange, amounts, progress>>

FetchBodiesNext ==
    \/ BeginFetch \/ PullPart \/ PullFails \/ FetchFails \/ FetchResolves
    \/ ChunkArrives \/ AllArrives \/ LastChunk

FetchBodiesSpec == FetchBodiesInit /\ [][FetchBodiesNext]_fetchBodyVars

-----------------------------------------------------------------------------
\* Among events: the j-th is the next of its direction after the i-th, or the first,
\* and the i-th is the last of a direction.
Apart(e, direction, from, to) == \A k \in from..to : e[k].direction # direction
Follows(e, i, j) == i < j /\ e[i].direction = e[j].direction /\ Apart(e, e[j].direction, i + 1, j - 1)
First(e, j) == Apart(e, e[j].direction, 1, j - 1)
Latest(e, direction, i) == e[i].direction = direction /\ Apart(e, direction, i + 1, Len(e))

\* docs/api.md:221: bytes is the delta since the previous event of that direction.  So
\* it is in every attempt, although two of the three clients count all attempts of a
\* request in one place; loaded never goes back within an attempt nor past what there
\* is, and ends at what was moved.
AddsUp(e) ==
    /\ \A j \in DOMAIN e : First(e, j) => e[j].loaded = 0 /\ e[j].bytes = 0
    /\ \A i, j \in DOMAIN e : Follows(e, i, j) => e[j].loaded = e[i].loaded + e[j].bytes
ProgressAddsUp ==
    /\ AddsUp(progress.events)
    /\ leg = "done" => \A d \in Directions, i \in DOMAIN progress.events :
           Latest(progress.events, d, i) =>
               progress.events[i].loaded = IF d = "upload" THEN amounts.sent ELSE amounts.received

\* A request that succeeds has sent its whole body and been given its whole answer,
\* which is no larger than maxContentLength where the client collects it itself; an
\* attempt that finds the caller's stream used up does not succeed without it.  The
\* exception is the code's: a Node stream that is watched and was read to its end
\* is sent again as an empty body by the fetch adapter (trackAsyncIterableUploadProgress).
ReadAgain == Sends = "iterated" /\ amounts.attempts > 1
WholeOrFailed ==
    leg = "done" =>
        /\ amounts.received = Total(exchange.reply)
        /\ Reads \in {"whole", "chunks"} => amounts.received <= exchange.limit
        /\ exchange.body # "none" /\ ~ReadAgain => amounts.sent = Total(exchange.parts)

\* What a request that succeeds has moved is whole, and is what its progress told.
MovedAsTold == ProgressAddsUp /\ WholeOrFailed
=============================================================================
