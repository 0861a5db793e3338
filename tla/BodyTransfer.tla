----------------------------- MODULE BodyTransfer -----------------------------
(***************************************************************************)
(* The bytes of one request through src/src/adapters/http.ts: its body is  *)
(* written slice by slice, the response is read slice by slice, each paced *)
(* by maxRate and limited in size, the two at the same time; and attempts  *)
(* that follow each other with the same body.                              *)
(*                                                                         *)
(* Sizes are bytes, time is in milliseconds; Second and SliceInterval may   *)
(* be scaled down.  The server, the consumer of a response stream and what *)
(* cancels a request are external; what settles its promise otherwise is   *)
(* HttpExchange.                                                           *)
(*                                                                         *)
(* UnawaitedDelay is a mutated form of the definition it precedes; no      *)
(* action uses it.                                                         *)
(***************************************************************************)
EXTENDS Numbers, Integers, Sequences

CONSTANTS
    Plans,          \* what may be sent and answered
    Second,         \* milliseconds of a second
    SliceInterval,  \* RATE_SLICE_INTERVAL_MS
    MaxSends,       \* attempts (a bound)
    EndOfTime       \* bound on time

\* A plan is [body, chunks, declared, maxBody, maxContent, upload, download, asStream,
\* watched, replies]: "none", "buffer" or "stream", its chunks, its Content-Length or -1,
\* the two limits, the two rates or 0, responseType "stream", whether there is an
\* onDownloadProgress, and the chunks of the answer.
ASSUME TransferAssumption ==
    /\ {Second, SliceInterval, MaxSends, EndOfTime} \subseteq Nat \ {0}
    /\ \A p \in Plans :
        /\ p.body \in {"none", "buffer", "stream"} /\ {p.asStream, p.watched} \subseteq BOOLEAN
        /\ {p.upload, p.download, p.maxBody, p.maxContent} \subseteq Nat /\ p.declared \in Int
        /\ {p.chunks, p.replies} \subseteq Seq(Nat)

VARIABLES
    plan,
    readable,    \* the body's stream: what it still holds, and "fresh", "ended" or "destroyed"
    reader,      \* whether the loop of an attempt that is over still reads it
    up, down,    \* the two loops: stage, chunks to come, slices at hand, loaded, until, started
    result,      \* of the attempt: "pending", "response" or "failed"
    cut,         \* its request is destroyed
    sends,       \* attempts begun
    ms           \* Date.now()

transferVars == <<plan, readable, reader, up, down, result, cut, sends, ms>>

Lane(stage, chunks) ==
    [stage |-> stage, chunks |-> chunks, slices |-> <<>>, loaded |-> 0, until |-> 0, started |-> ms]

\* transferSlices
transferSlices(size, rate) ==
    LET chunkSize == Larger(1, (rate * SliceInterval) \div Second)
        offset(i) == (i - 1) * chunkSize
    IN IF rate = 0 \/ size = 0 THEN <<size>>
       ELSE [i \in 1..(size + chunkSize - 1) \div chunkSize |-> Smaller(size, offset(i) + chunkSize) - offset(i)]

\* throttleDelay, in whole milliseconds; a timer of less than one waits one.
UnawaitedDelay(loaded, rate, started) == 0
throttleDelay(loaded, rate, started) ==
    IF rate = 0 \/ loaded * Second <= rate * (ms - started) THEN 0
    ELSE Larger(1, (loaded * Second - rate * (ms - started)) \div rate)

-----------------------------------------------------------------------------
\* Attempts.

\* The body is serialised and the first loop begins, or the size is refused; a stream is
\* what the attempts before have left of it.
Source(p) == IF p.body = "buffer" THEN <<Total(p.chunks)>> ELSE <<>>
TooLarge(p) ==
    \/ p.body = "buffer" /\ Total(p.chunks) > p.maxBody
    \/ p.body = "stream" /\ p.declared > p.maxBody

Send ==
    /\ result # "pending" /\ sends < MaxSends
    /\ sends' = sends + 1
    /\ reader' = (reader \/ (plan.body = "stream" /\ up.stage \in {"loop", "waiting", "writing"}))
    /\ down' = Lane("none", <<>>)
    /\ IF TooLarge(plan)
       THEN up' = Lane("broken", <<>>) /\ result' = "failed" /\ cut' = TRUE
       ELSE /\ up' = Lane(IF plan.body = "none" THEN "ended" ELSE "loop", Source(plan))
            /\ result' = "pending" /\ cut' = FALSE
    /\ UNCHANGED <<plan, readable, ms>>

\* The loop fails: the request is destroyed, and so is the stream that it read.
Breaks ==
    /\ up' = [up EXCEPT !.stage = "broken"]
    /\ readable' = IF plan.body = "stream" THEN [readable EXCEPT !.state = "destroyed"] ELSE readable
    /\ cut' = TRUE /\ result' = IF result = "pending" THEN "failed" ELSE result

\* The next chunk, or the end of the body, or of a stream that somebody destroyed.
NextChunk ==
    /\ up.stage = "loop" /\ up.slices = <<>>
    /\ IF plan.body = "stream" /\ readable.state = "destroyed" THEN Breaks
       ELSE LET chunks == IF plan.body = "stream" THEN readable.left ELSE up.chunks
            IN /\ UNCHANGED <<result, cut>>
               /\ IF chunks = <<>>
                  THEN /\ up' = [up EXCEPT !.stage = "ended"]
                       /\ readable' = IF plan.body = "stream" THEN [readable EXCEPT !.state = "ended"] ELSE readable
                  ELSE /\ up' = [up EXCEPT !.slices = transferSlices(Head(chunks), plan.upload), !.chunks = Tail(chunks)]
                       /\ readable' = IF plan.body = "stream" THEN [readable EXCEPT !.left = Tail(@)] ELSE readable
    /\ UNCHANGED <<plan, reader, down, sends, ms>>

\* A slice is refused, or waits for its time, or is written at once.
Paused(lane, loaded, rate, go) ==
    LET pause == throttleDelay(loaded, rate, lane.started)
    IN [lane EXCEPT !.stage = IF pause = 0 THEN go ELSE "waiting", !.until = ms + pause]

NextSlice ==
    /\ up.stage = "loop" /\ up.slices # <<>>
    /\ LET next == up.loaded + Head(up.slices)
       IN IF plan.body = "stream" /\ next > plan.maxBody THEN Breaks
          ELSE up' = Paused(up, next, plan.upload, "writing") /\ UNCHANGED <<readable, result, cut>>
    /\ UNCHANGED <<plan, reader, down, sends, ms>>

SliceDue ==
    /\ up.stage = "waiting" /\ ms >= up.until
    /\ up' = [up EXCEPT !.stage = "writing"]
    /\ UNCHANGED <<plan, readable, reader, down, result, cut, sends, ms>>

\* The write's callback: an error when the request is destroyed, and perhaps otherwise.
Written ==
    /\ up.stage = "writing"
    /\ \/ Breaks
       \/ /\ ~cut
          /\ up' = [up EXCEPT !.stage = "loop", !.slices = Tail(@), !.loaded = @ + Head(up.slices)]
          /\ UNCHANGED <<readable, result, cut>>
    /\ UNCHANGED <<plan, reader, down, sends, ms>>

\* The loop of an earlier attempt comes to its next write, which fails; it may have
\* taken a chunk more.
OldReaderBreaks ==
    /\ reader /\ reader' = FALSE
    /\ readable' \in {[left |-> left, state |-> IF readable.state = "ended" THEN "ended" ELSE "destroyed"] :
                         left \in {readable.left, IF readable.left = <<>> THEN <<>> ELSE Tail(readable.left)}}
    /\ UNCHANGED <<plan, up, down, result, cut, sends, ms>>

-----------------------------------------------------------------------------
\* The answer, which may come before the body is through.

AnswerBegins ==
    /\ sends > 0 /\ down.stage = "none" /\ result = "pending" /\ ~cut
    /\ down' = Lane("loop", plan.replies)
    /\ result' = IF plan.asStream THEN "response" ELSE result
    /\ UNCHANGED <<plan, readable, reader, up, cut, sends, ms>>

\* The response, or the throttled stream made of it, breaks off.
DownBreaks ==
    /\ down' = [down EXCEPT !.stage = "broken"]
    /\ cut' = TRUE /\ result' = IF result = "pending" THEN "failed" ELSE result

BreaksOff ==
    /\ down.stage = "loop" /\ cut
    /\ DownBreaks
    /\ UNCHANGED <<plan, readable, reader, up, sends, ms>>

Arrives ==
    /\ down.stage = "loop" /\ down.slices = <<>> /\ ~cut
    /\ IF down.chunks = <<>>
       THEN /\ down' = [down EXCEPT !.stage = "ended"]
            /\ result' = IF result = "pending" THEN "response" ELSE result
       ELSE /\ down' = [down EXCEPT !.slices = transferSlices(Head(down.chunks), plan.download), !.chunks = Tail(@)]
            /\ UNCHANGED result
    /\ UNCHANGED <<plan, readable, reader, up, cut, sends, ms>>

\* attachStreamDownloadProgress listens to the data of a response that is handed on as it
\* is, which makes it flow: what comes before the consumer listens too is lost.
Discarded ==
    /\ plan.asStream /\ plan.watched /\ plan.download = 0
    /\ down.stage = "loop" /\ down.slices = <<>> /\ down.loaded = 0 /\ ~cut /\ down.chunks # <<>>
    /\ down' = [down EXCEPT !.chunks = Tail(@)]
    /\ UNCHANGED <<plan, readable, reader, up, result, cut, sends, ms>>

\* A response that is collected is limited in size; a stream is not.
NextPart ==
    /\ down.stage = "loop" /\ down.slices # <<>> /\ ~cut
    /\ LET next == down.loaded + Head(down.slices)
       IN IF ~plan.asStream /\ next > plan.maxContent THEN DownBreaks
          ELSE down' = Paused(down, next, plan.download, "due") /\ UNCHANGED <<result, cut>>
    /\ UNCHANGED <<plan, readable, reader, up, sends, ms>>

\* What was waited for is kept, or given to the consumer when it asks.
PartKept ==
    /\ down.stage = "due" \/ (down.stage = "waiting" /\ ms >= down.until)
    /\ down' = [down EXCEPT !.stage = "loop", !.slices = Tail(@), !.loaded = @ + Head(down.slices)]
    /\ UNCHANGED <<plan, readable, reader, up, result, cut, sends, ms>>

-----------------------------------------------------------------------------
\* The signal, a timeout, the connection.
Cut ==
    /\ sends > 0 /\ ~cut
    /\ cut' = TRUE /\ result' = IF result = "pending" THEN "failed" ELSE result
    /\ UNCHANGED <<plan, readable, reader, up, down, sends, ms>>

Passes ==
    /\ ms < EndOfTime
    /\ ms' = ms + 1
    /\ UNCHANGED <<plan, readable, reader, up, down, result, cut, sends>>

TransferInit ==
    /\ plan \in Plans
    /\ readable = [left |-> plan.chunks, state |-> "fresh"] /\ reader = FALSE
    /\ ms = 0 /\ up = Lane("none", <<>>) /\ down = Lane("none", <<>>)
    /\ result = "failed" /\ cut = TRUE /\ sends = 0

TransferNext ==
    \/ Send \/ NextChunk \/ NextSlice \/ SliceDue \/ Written \/ OldReaderBreaks
    \/ AnswerBegins \/ BreaksOff \/ Arrives \/ Discarded \/ NextPart \/ PartKept \/ Cut \/ Passes

TransferSpec == TransferInit /\ [][TransferNext]_transferVars

-----------------------------------------------------------------------------
\* Types.
TransferTypeOK ==
    /\ plan \in Plans /\ readable.state \in {"fresh", "ended", "destroyed"} /\ reader \in BOOLEAN
    /\ up.stage \in {"none", "loop", "waiting", "writing", "ended", "broken"}
    /\ down.stage \in {"none", "loop", "waiting", "due", "ended", "broken"}
    /\ {up.loaded, down.loaded, up.until, down.until} \subseteq Nat
    /\ result \in {"pending", "response", "failed"} /\ cut \in BOOLEAN
    /\ sends \in 0..MaxSends /\ ms \in 0..EndOfTime

\* Bytes flow as configured, both ways at once and over attempts.  Never faster than
\* maxRate, measured from the begin of the loop and but for the last millisecond
\* (docs/node-infrastructure.md:144); never more than the limits; and what was ended, or
\* answered in full, is the whole body, unless it is a stream that an earlier attempt had
\* read from, or one that progress was reported of before the caller read it.
FlowsAsConfigured ==
    /\ plan.upload > 0 => up.loaded * Second < plan.upload * (ms - up.started + 1)
    /\ plan.download > 0 => down.loaded * Second < plan.download * (ms - down.started + 1)
    /\ plan.body # "none" => up.loaded <= plan.maxBody
    /\ ~plan.asStream => down.loaded <= plan.maxContent
    /\ up.stage = "ended" /\ plan.body # "none" /\ (plan.body = "buffer" \/ sends = 1) =>
           up.loaded = Total(plan.chunks)
    /\ down.stage = "ended" /\ ~(plan.asStream /\ plan.watched /\ plan.download = 0) =>
           down.loaded = Total(plan.replies)
    /\ result = "response" /\ ~plan.asStream => down.stage = "ended"
===============================================================================
