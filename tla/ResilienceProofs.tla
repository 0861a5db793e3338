--------------------------- MODULE ResilienceProofs ---------------------------
(***************************************************************************)
(* Theorems about Bulkhead, for any calls, domains and configured limits;  *)
(* about RetryEngine, for any requests, delays, budget, timeout, number of *)
(* retries and shouldRetry; and about RateLimiter, for any calls,          *)
(* processes, limits and time.                                             *)
(***************************************************************************)
EXTENDS RetryEngine, Bulkhead, RateLimiter, Lists, FiniteSetTheorems, TLAPS

-----------------------------------------------------------------------------
\* Bulkhead: its operators.

\* #drain starts at most as many calls as wait and as slots are free, and all
\* of either.
LEMMA DrainedBounds ==
    ASSUME NEW d \in Domains, queue \in [Domains -> Seq(Tasks)],
           NEW act \in Nat, NEW lim \in Nat
    PROVE  /\ Drained(d, act, lim) \in 0..Len(queue[d])
           /\ Drained(d, act, lim) > 0 => act + Drained(d, act, lim) <= lim
           /\ Drained(d, act, lim) < Len(queue[d]) => act + Drained(d, act, lim) >= lim
BY DEF Drained, Smaller, Larger

\* #record yields a natural number, inside the configured interval when the
\* limit is adaptive.
LEMMA RecordBounds ==
    ASSUME NEW d \in Domains, limit \in [Domains -> Nat], NEW outcome
    PROVE  /\ Record(d, outcome) \in Nat
           /\ Adaptive /\ MinLimit <= MaxLimit /\ limit[d] \in MinLimit..MaxLimit
                => Record(d, outcome) \in MinLimit..MaxLimit
<1> DEFINE less == Lowered(d)
<1>1. less \in Nat /\ less <= limit[d]
  BY BulkheadAssumption DEF Lowered
<1>2. QED
  BY <1>1, BulkheadAssumption DEF Record, Smaller, Larger

-----------------------------------------------------------------------------
\* BulkheadTypeOK.

LEMMA TypeInit == BulkheadInit => BulkheadTypeOK
BY BulkheadAssumption DEF BulkheadInit, BulkheadTypeOK, FirstLimit, Smaller, Larger

LEMMA TypeFinish ==
    ASSUME BulkheadTypeOK, NEW t \in Tasks, NEW outcome, Finish(t, outcome)
    PROVE  BulkheadTypeOK'
<1> DEFINE d == dom[t]
           lim == Record(d, outcome)
           act == Released(d)
           n == Drained(d, act, lim)
<1>1. d \in Domains /\ lim \in Nat /\ act \in Nat
  <2>1. d \in Domains /\ active[d] \in Nat /\ limit \in [Domains -> Nat]
    BY DEF BulkheadTypeOK
  <2>2. act \in Nat
    BY <2>1 DEF Released, Larger
  <2>3. lim \in Nat
    BY <2>1, RecordBounds
  <2>4. QED BY <2>1, <2>2, <2>3
<1>2. n \in 0..Len(queue[d])
  BY <1>1, DrainedBounds DEF BulkheadTypeOK
<1>3. SubSeq(queue[d], n + 1, Len(queue[d])) \in Seq(Tasks)
  BY <1>1, <1>2 DEF BulkheadTypeOK
<1>4. QED
  BY <1>1, <1>2, <1>3 DEF Finish, Cleared, BulkheadTypeOK

LEMMA TypeTimeout ==
    ASSUME BulkheadTypeOK, NEW t \in Tasks, QueueTimeout(t)
    PROVE  BulkheadTypeOK'
<1> DEFINE d == dom[t]
           at == {i \in DOMAIN queue[d] : queue[d][i] = t}
<1>1. d \in Domains /\ queue[d] \in Seq(Tasks)
  BY DEF BulkheadTypeOK
<1>2. \A i \in DOMAIN queue[d] : RemoveAt(queue[d], i) \in Seq(Tasks)
  BY <1>1 DEF RemoveAt
<1>3. at # {} => (CHOOSE i \in at : TRUE) \in DOMAIN queue[d]
  OBVIOUS
<1>4. queue' \in [Domains -> Seq(Tasks)]
  <2>1. CASE at = {}
    BY <2>1 DEF QueueTimeout, BulkheadTypeOK
  <2>2. CASE at # {}
    BY <1>1, <1>2, <1>3, <2>2 DEF QueueTimeout, BulkheadTypeOK
  <2>3. QED BY <2>1, <2>2
<1>5. QED
  BY <1>4 DEF QueueTimeout, BulkheadTypeOK

LEMMA TypeStep == BulkheadTypeOK /\ [BulkheadNext]_bulkheadVars => BulkheadTypeOK'
<1> SUFFICES ASSUME BulkheadTypeOK, [BulkheadNext]_bulkheadVars PROVE BulkheadTypeOK'
  OBVIOUS
<1>1. ASSUME NEW t \in Tasks, NEW d \in Domains, Start(t, d) PROVE BulkheadTypeOK'
  BY <1>1 DEF Start, BulkheadTypeOK
<1>2. ASSUME NEW t \in Tasks, NEW d \in Domains, Enqueue(t, d) PROVE BulkheadTypeOK'
  BY <1>2 DEF Enqueue, Pushed, Armed, BulkheadTypeOK
<1>3. ASSUME NEW t \in Tasks, NEW d \in Domains, Refuse(t, d) PROVE BulkheadTypeOK'
  BY <1>3 DEF Refuse, BulkheadTypeOK
<1>4. CASE UNCHANGED bulkheadVars
  BY <1>4 DEF bulkheadVars, BulkheadTypeOK
<1>5. QED
  BY <1>1, <1>2, <1>3, <1>4, TypeFinish, TypeTimeout DEF BulkheadNext

\* Type correctness.
THEOREM TypeCorrect == BulkheadSpec => []BulkheadTypeOK
BY TypeInit, TypeStep, PTL DEF BulkheadSpec

-----------------------------------------------------------------------------
\* WorkConserving and Bounded: each is inductive next to BulkheadTypeOK.

RoomInv == WorkConserving /\ Bounded

LEMMA RemoveAtShortens ==
    ASSUME NEW S, NEW s \in Seq(S), NEW i \in DOMAIN s
    PROVE  RemoveAt(s, i) \in Seq(S) /\ Len(RemoveAt(s, i)) = Len(s) - 1
BY DEF RemoveAt

LEMMA RoomInit == BulkheadInit => RoomInv
BY BulkheadAssumption
   DEF BulkheadInit, RoomInv, WorkConserving, Bounded, FirstLimit, Smaller, Larger

LEMMA RoomStart ==
    ASSUME BulkheadTypeOK, RoomInv, NEW t \in Tasks, NEW d \in Domains, Start(t, d)
    PROVE  RoomInv'
BY DEF Start, BulkheadTypeOK, RoomInv, WorkConserving, Bounded

LEMMA RoomEnqueue ==
    ASSUME BulkheadTypeOK, RoomInv, NEW t \in Tasks, NEW d \in Domains, Enqueue(t, d)
    PROVE  RoomInv'
<1> USE BulkheadAssumption DEF Enqueue, Pushed, Armed, BulkheadTypeOK
<1>1. WorkConserving'
  BY DEF RoomInv, WorkConserving
<1>2. Bounded'
  <2>1. queue[d] \in Seq(Tasks) /\ queue' = [queue EXCEPT ![d] = Append(queue[d], t)]
    OBVIOUS
  <2>2. Len(queue'[d]) = Len(queue[d]) + 1 /\ Len(queue'[d]) <= MaxQueue
    BY <2>1
  <2>3. \A e \in Domains \ {d} : queue'[e] = queue[e]
    BY <2>1
  <2>4. QED
    BY <2>2, <2>3 DEF RoomInv, Bounded
<1>3. QED BY <1>1, <1>2 DEF RoomInv

\* The heart of the matter: #drain hands over every slot that the finishing
\* call and a raised limit leave free.
LEMMA RoomFinish ==
    ASSUME BulkheadTypeOK, RoomInv, NEW t \in Tasks, NEW outcome, Finish(t, outcome)
    PROVE  RoomInv'
<1> DEFINE d == dom[t]
           lim == Record(d, outcome)
           act == Released(d)
           n == Drained(d, act, lim)
<1>1. d \in Domains /\ queue[d] \in Seq(Tasks) /\ active[d] \in Nat /\ limit[d] \in Nat
  BY DEF BulkheadTypeOK
<1>2. lim \in Nat /\ act \in Nat
  <2>1. act \in Nat
    BY <1>1 DEF Released, Larger
  <2>2. lim \in Nat
    BY <1>1, RecordBounds DEF BulkheadTypeOK
  <2>3. QED BY <2>1, <2>2
<1>3. n \in 0..Len(queue[d]) /\ (n < Len(queue[d]) => act + n >= lim)
  BY <1>1, <1>2, DrainedBounds DEF BulkheadTypeOK
<1>4. /\ limit' = [limit EXCEPT ![d] = lim]
      /\ active' = [active EXCEPT ![d] = act + n]
      /\ queue' = [queue EXCEPT ![d] = SubSeq(queue[d], n + 1, Len(queue[d]))]
  BY DEF Finish, Cleared
<1>5. /\ limit'[d] = lim /\ active'[d] = act + n
      /\ queue'[d] = SubSeq(queue[d], n + 1, Len(queue[d]))
      /\ Len(queue'[d]) = Len(queue[d]) - n
  <2> HIDE DEF lim, act, n
  <2>1. queue'[d] = SubSeq(queue[d], n + 1, Len(queue[d]))
    BY <1>1, <1>4 DEF BulkheadTypeOK
  <2>2. Len(queue'[d]) = Len(queue[d]) - n
    BY <1>1, <1>3, <2>1
  <2>3. QED
    BY <1>1, <1>4, <2>1, <2>2 DEF BulkheadTypeOK
<1>6. \A e \in Domains \ {d} :
        limit'[e] = limit[e] /\ active'[e] = active[e] /\ queue'[e] = queue[e]
  BY <1>4 DEF BulkheadTypeOK
<1>7. WorkConserving'
  <2>1. queue'[d] # <<>> => active'[d] >= limit'[d]
    BY <1>1, <1>2, <1>3, <1>5
  <2>2. QED
    BY <1>6, <2>1 DEF RoomInv, WorkConserving
<1>8. Bounded'
  <2>1. Len(queue'[d]) <= MaxQueue
    BY <1>1, <1>3, <1>5, BulkheadAssumption DEF RoomInv, Bounded
  <2>2. Adaptive /\ MinLimit <= MaxLimit => limit'[d] \in MinLimit..MaxLimit
    BY <1>1, <1>5, RecordBounds DEF RoomInv, Bounded, BulkheadTypeOK
  <2>3. QED
    BY <1>6, <2>1, <2>2 DEF RoomInv, Bounded
<1>9. QED BY <1>7, <1>8 DEF RoomInv

LEMMA RoomTimeout ==
    ASSUME BulkheadTypeOK, RoomInv, NEW t \in Tasks, QueueTimeout(t)
    PROVE  RoomInv'
<1> DEFINE d == dom[t]
           at == {i \in DOMAIN queue[d] : queue[d][i] = t}
<1>1. d \in Domains /\ queue[d] \in Seq(Tasks) /\ UNCHANGED <<active, limit>>
  BY DEF BulkheadTypeOK, QueueTimeout
<1>2. CASE at = {}
  BY <1>1, <1>2 DEF QueueTimeout, RoomInv, WorkConserving, Bounded
<1>3. CASE at # {}
  <2>1. PICK i \in DOMAIN queue[d] : queue' = [queue EXCEPT ![d] = RemoveAt(queue[d], i)]
    BY <1>3 DEF QueueTimeout
  <2>2. /\ Len(queue'[d]) = Len(queue[d]) - 1
        /\ \A e \in Domains \ {d} : queue'[e] = queue[e]
    BY <1>1, <2>1, RemoveAtShortens DEF BulkheadTypeOK
  <2>3. WorkConserving'
    BY <1>1, <2>2 DEF RoomInv, WorkConserving
  <2>4. Bounded'
    BY <1>1, <2>2, BulkheadAssumption DEF RoomInv, Bounded
  <2>5. QED BY <2>3, <2>4 DEF RoomInv
<1>4. QED BY <1>2, <1>3

LEMMA RoomStep == BulkheadTypeOK /\ RoomInv /\ [BulkheadNext]_bulkheadVars => RoomInv'
<1> SUFFICES ASSUME BulkheadTypeOK, RoomInv, [BulkheadNext]_bulkheadVars PROVE RoomInv'
  OBVIOUS
<1>1. ASSUME NEW t \in Tasks, NEW d \in Domains, Refuse(t, d) PROVE RoomInv'
  BY <1>1 DEF Refuse, RoomInv, WorkConserving, Bounded
<1>2. CASE UNCHANGED bulkheadVars
  BY <1>2 DEF bulkheadVars, RoomInv, WorkConserving, Bounded
<1>3. QED
  BY <1>1, <1>2, RoomStart, RoomEnqueue, RoomFinish, RoomTimeout DEF BulkheadNext

\* Calls wait only while their pool is full.
THEOREM WorkConservation == BulkheadSpec => []WorkConserving
<1>1. RoomInv => WorkConserving
  BY DEF RoomInv
<1>2. QED
  BY <1>1, TypeCorrect, RoomInit, RoomStep, PTL DEF BulkheadSpec

\* Queues stay within maxQueue, adaptive limits within minLimit and maxLimit.
THEOREM Boundedness == BulkheadSpec => []Bounded
<1>1. RoomInv => Bounded
  BY DEF RoomInv
<1>2. QED
  BY <1>1, TypeCorrect, RoomInit, RoomStep, PTL DEF BulkheadSpec

\* An adaptive pool above its limit only drains.
LEMMA GrowthStep == BulkheadTypeOK /\ [BulkheadNext]_bulkheadVars => NoStep \/ UNCHANGED bulkheadVars
<1> SUFFICES ASSUME BulkheadTypeOK, [BulkheadNext]_bulkheadVars PROVE NoStep
  OBVIOUS
<1>1. ASSUME NEW t \in Tasks, NEW d \in Domains, Start(t, d) PROVE NoStep
  BY <1>1 DEF Start, NoStep, BulkheadTypeOK
<1>2. ASSUME NEW t \in Tasks, NEW d \in Domains, Enqueue(t, d) \/ Refuse(t, d) PROVE NoStep
  BY <1>2 DEF Enqueue, Pushed, Armed, Refuse, NoStep, BulkheadTypeOK
<1>3. ASSUME NEW t \in Tasks, QueueTimeout(t) PROVE NoStep
  BY <1>3 DEF QueueTimeout, NoStep, BulkheadTypeOK
<1>4. CASE UNCHANGED bulkheadVars
  BY <1>4 DEF bulkheadVars, NoStep, BulkheadTypeOK
<1>5. ASSUME NEW t \in Tasks, NEW outcome, Finish(t, outcome) PROVE NoStep
  <2> DEFINE d == dom[t]
             lim == Record(d, outcome)
             act == Released(d)
             n == Drained(d, act, lim)
  <2>1. d \in Domains /\ active[d] \in Nat /\ queue[d] \in Seq(Tasks)
    BY DEF BulkheadTypeOK
  <2>2. act \in Nat /\ act <= active[d]
    BY <2>1 DEF Released, Larger
  <2>3. lim \in Nat
    BY <2>1, RecordBounds DEF BulkheadTypeOK
  <2>4. n \in Nat /\ (n > 0 => act + n <= lim)
    <3>1. queue \in [Domains -> Seq(Tasks)] /\ Len(queue[d]) \in Nat
      BY <2>1 DEF BulkheadTypeOK
    <3> HIDE DEF lim, act
    <3>2. n \in 0..Len(queue[d]) /\ (n > 0 => act + n <= lim)
      BY <2>1, <2>2, <2>3, <3>1, DrainedBounds
    <3>3. QED
      BY <3>1, <3>2
  <2>5. limit' = [limit EXCEPT ![d] = lim] /\ active' = [active EXCEPT ![d] = act + n]
    BY <1>5 DEF Finish, Cleared
  <2>6. active'[d] > active[d] => active'[d] <= limit'[d]
    BY <2>1, <2>2, <2>3, <2>4, <2>5 DEF BulkheadTypeOK
  <2>7. \A e \in Domains \ {d} : active'[e] = active[e] /\ active[e] \in Nat
    BY <2>5 DEF BulkheadTypeOK
  <2>8. QED
    BY <2>6, <2>7 DEF NoStep
<1>6. QED
  BY <1>1, <1>2, <1>3, <1>4, <1>5 DEF BulkheadNext

\* No step takes a pool further above its limit.
THEOREM Growth == BulkheadSpec => NoGrowthOverLimit
BY TypeCorrect, GrowthStep, PTL DEF BulkheadSpec, NoGrowthOverLimit

-----------------------------------------------------------------------------
\* QueueExact: queues, timers and the calls' own state agree.

QueueInv ==
    /\ \A t \in Tasks : t \in armed <=> status[t] = "queued"
    /\ \A d \in Domains : Listed(queue[d]) = Queued(d) /\ Distinct(queue[d])

LEMMA QueueInvIsExact == QueueInv <=> QueueExact
BY DEF QueueInv, QueueExact, Listed, Distinct

LEMMA QueueInit == BulkheadInit => QueueInv
BY DEF BulkheadInit, QueueInv, Queued, Listed, Distinct

LEMMA QueueEnqueue ==
    ASSUME BulkheadTypeOK, QueueInv, NEW t \in Tasks, NEW d \in Domains, Enqueue(t, d)
    PROVE  QueueInv'
<1>1. queue[d] \in Seq(Tasks) /\ t \notin Listed(queue[d]) /\ Distinct(queue[d])
  BY DEF BulkheadTypeOK, Enqueue, Pushed, Armed, QueueInv, Queued
<1>2. /\ queue'[d] = Append(queue[d], t)
      /\ \A e \in Domains \ {d} : queue'[e] = queue[e]
  BY DEF Enqueue, Pushed, Armed, BulkheadTypeOK
<1>3. Listed(queue'[d]) = Listed(queue[d]) \cup {t} /\ Distinct(queue'[d])
  BY <1>1, <1>2, AppendListed
<1>4. Queued(d)' = Queued(d) \cup {t} /\ \A e \in Domains \ {d} : Queued(e)' = Queued(e)
  BY DEF Enqueue, Pushed, Armed, BulkheadTypeOK, Queued
<1>5. \A u \in Tasks : u \in armed' <=> status'[u] = "queued"
  BY DEF Enqueue, Pushed, Armed, BulkheadTypeOK, QueueInv
<1>6. QED
  BY <1>2, <1>3, <1>4, <1>5 DEF QueueInv

LEMMA QueueFinish ==
    ASSUME BulkheadTypeOK, QueueInv, NEW t \in Tasks, NEW outcome, Finish(t, outcome)
    PROVE  QueueInv'
<1> DEFINE d == dom[t]
           lim == Record(d, outcome)
           act == Released(d)
           n == Drained(d, act, lim)
           launched == {queue[d][i] : i \in 1..n}
<1>1. d \in Domains /\ queue[d] \in Seq(Tasks) /\ Distinct(queue[d]) /\ dom' = dom
  BY DEF BulkheadTypeOK, QueueInv, Finish
<1>2. n \in 0..Len(queue[d])
  <2>1. act \in Nat
    BY DEF BulkheadTypeOK, Released, Larger
  <2>2. lim \in Nat
    BY RecordBounds DEF BulkheadTypeOK
  <2>3. QED
    BY <1>1, <2>1, <2>2, DrainedBounds DEF BulkheadTypeOK
<1>3. /\ queue' = [queue EXCEPT ![d] = SubSeq(queue[d], n + 1, Len(queue[d]))]
      /\ armed' = armed \ launched
      /\ status' = [u \in Tasks |-> IF u = t THEN "idle"
                                    ELSE IF u \in launched THEN "running" ELSE status[u]]
      /\ status[t] = "running"
  BY DEF Finish, Cleared
<1> HIDE DEF n, act, lim
<1>4. Listed(queue'[d]) = Listed(queue[d]) \ launched /\ Distinct(queue'[d])
  BY <1>1, <1>2, <1>3, DropListed DEF BulkheadTypeOK
<1>5. \A e \in Domains \ {d} : queue'[e] = queue[e]
  BY <1>3 DEF BulkheadTypeOK
<1>6. launched \subseteq Queued(d)
  <2>1. 1..n \subseteq DOMAIN queue[d]
    BY <1>1, <1>2
  <2>2. QED
    BY <1>1, <2>1 DEF QueueInv, Listed
<1> HIDE DEF launched
<1>7. \A e \in Domains : Queued(e)' = Queued(e) \ (IF e = d THEN launched ELSE {})
  BY <1>1, <1>3, <1>6 DEF BulkheadTypeOK, Queued
<1>8. \A u \in Tasks : u \in armed' <=> status'[u] = "queued"
  BY <1>3 DEF BulkheadTypeOK, QueueInv
<1>9. QED
  <2>1. ASSUME NEW e \in Domains
        PROVE  Listed(queue'[e]) = Queued(e)' /\ Distinct(queue'[e])
    <3>1. Listed(queue[e]) = Queued(e) /\ Distinct(queue[e])
      BY DEF QueueInv
    <3>2. CASE e = d
      BY <3>1, <3>2, <1>4, <1>5, <1>7
    <3>3. CASE e # d
      BY <3>1, <3>3, <1>4, <1>5, <1>7
    <3>4. QED BY <3>2, <3>3
  <2>2. QED
    BY <2>1, <1>8 DEF QueueInv

LEMMA QueueTimeoutStep ==
    ASSUME BulkheadTypeOK, QueueInv, NEW t \in Tasks, QueueTimeout(t)
    PROVE  QueueInv'
<1> DEFINE d == dom[t]
           at == {i \in DOMAIN queue[d] : queue[d][i] = t}
<1>1. /\ d \in Domains /\ queue[d] \in Seq(Tasks) /\ Distinct(queue[d]) /\ dom' = dom
      /\ t \in Queued(d)
  BY DEF BulkheadTypeOK, QueueInv, QueueTimeout, Queued
<1>2. at # {}
  BY <1>1 DEF QueueInv, Listed
<1>3. PICK k \in at : queue' = [queue EXCEPT ![d] = RemoveAt(queue[d], k)]
  BY <1>2 DEF QueueTimeout
<1>4. Listed(queue'[d]) = Listed(queue[d]) \ {t} /\ Distinct(queue'[d])
  <2>1. queue'[d] = RemoveAt(queue[d], k) /\ k \in DOMAIN queue[d] /\ queue[d][k] = t
    BY <1>1, <1>3 DEF BulkheadTypeOK
  <2>2. QED BY <1>1, <2>1, RemoveAtListed
<1>5. \A e \in Domains \ {d} : queue'[e] = queue[e]
  BY <1>3 DEF BulkheadTypeOK
<1>6. \A e \in Domains : Queued(e)' = Queued(e) \ (IF e = d THEN {t} ELSE {})
  BY <1>1 DEF QueueTimeout, BulkheadTypeOK, Queued
<1>7. \A u \in Tasks : u \in armed' <=> status'[u] = "queued"
  BY <1>1 DEF QueueTimeout, BulkheadTypeOK, QueueInv, Queued
<1>8. QED
  <2>1. ASSUME NEW e \in Domains
        PROVE  Listed(queue'[e]) = Queued(e)' /\ Distinct(queue'[e])
    <3>1. Listed(queue[e]) = Queued(e) /\ Distinct(queue[e])
      BY DEF QueueInv
    <3>2. CASE e = d
      BY <3>1, <3>2, <1>4, <1>5, <1>6
    <3>3. CASE e # d
      BY <3>1, <3>3, <1>4, <1>5, <1>6
    <3>4. QED BY <3>2, <3>3
  <2>2. QED
    BY <2>1, <1>7 DEF QueueInv

LEMMA QueueStep == BulkheadTypeOK /\ QueueInv /\ [BulkheadNext]_bulkheadVars => QueueInv'
<1> SUFFICES ASSUME BulkheadTypeOK, QueueInv, [BulkheadNext]_bulkheadVars PROVE QueueInv'
  OBVIOUS
<1>1. ASSUME NEW t \in Tasks, NEW d \in Domains, Start(t, d) \/ Refuse(t, d) PROVE QueueInv'
  <2>1. queue' = queue /\ armed' = armed /\ \A e \in Domains : Queued(e)' = Queued(e)
    BY <1>1 DEF Start, Refuse, BulkheadTypeOK, Queued
  <2>2. \A u \in Tasks : status'[u] = "queued" <=> status[u] = "queued"
    BY <1>1 DEF Start, Refuse, BulkheadTypeOK
  <2>3. QED BY <2>1, <2>2 DEF QueueInv
<1>2. CASE UNCHANGED bulkheadVars
  BY <1>2 DEF bulkheadVars, QueueInv, Queued
<1>3. QED
  BY <1>1, <1>2, QueueEnqueue, QueueFinish, QueueTimeoutStep DEF BulkheadNext

\* A call waits once, in its own domain's queue, with its timer armed as long.
THEOREM QueueExactness == BulkheadSpec => []QueueExact
BY TypeCorrect, QueueInit, QueueStep, QueueInvIsExact, PTL DEF BulkheadSpec

-----------------------------------------------------------------------------
\* ActiveExact: pool.active counts the calls inside task().

CountInv ==
    \A d \in Domains : IsFiniteSet(Running(d)) /\ active[d] = Cardinality(Running(d))

LEMMA CountInit == BulkheadInit => CountInv
<1> SUFFICES ASSUME BulkheadInit PROVE CountInv
  OBVIOUS
<1>1. \A d \in Domains : Running(d) = {} /\ active[d] = 0
  BY DEF BulkheadInit, Running
<1>2. QED
  BY <1>1, FS_EmptySet DEF CountInv

LEMMA CountFinish ==
    ASSUME BulkheadTypeOK, QueueInv, CountInv, NEW t \in Tasks, NEW outcome, Finish(t, outcome)
    PROVE  CountInv'
<1> DEFINE d == dom[t]
           lim == Record(d, outcome)
           act == Released(d)
           n == Drained(d, act, lim)
           launched == {queue[d][i] : i \in 1..n}
           left == Running(d) \ {t}
<1>1. /\ d \in Domains /\ queue[d] \in Seq(Tasks) /\ Distinct(queue[d]) /\ dom' = dom
      /\ active[d] \in Nat /\ t \in Running(d)
  BY DEF BulkheadTypeOK, QueueInv, Finish, Running
<1>2. IsFiniteSet(Running(d)) /\ active[d] = Cardinality(Running(d))
  BY <1>1 DEF CountInv
<1>3. IsFiniteSet(left) /\ Cardinality(left) = active[d] - 1 /\ active[d] >= 1
  <2>1. IsFiniteSet(left) /\ Cardinality(left) = active[d] - 1
    BY <1>1, <1>2, FS_RemoveElement
  <2>2. Cardinality(left) \in Nat
    BY <2>1, FS_CardinalityType
  <2>3. QED BY <1>1, <2>1, <2>2
<1>4. act = active[d] - 1 /\ act \in Nat
  BY <1>1, <1>3 DEF Released, Larger
<1>5. n \in 0..Len(queue[d])
  <2>1. lim \in Nat
    BY RecordBounds DEF BulkheadTypeOK
  <2>2. QED
    BY <1>1, <1>4, <2>1, DrainedBounds DEF BulkheadTypeOK
<1>6. /\ active' = [active EXCEPT ![d] = act + n]
      /\ status' = [u \in Tasks |-> IF u = t THEN "idle"
                                    ELSE IF u \in launched THEN "running" ELSE status[u]]
  BY DEF Finish, Cleared
<1> HIDE DEF n, act, lim
<1>7. IsFiniteSet(launched) /\ Cardinality(launched) = n
  BY <1>1, <1>5, PrefixSize
<1>8. launched \subseteq Queued(d)
  <2>1. 1..n \subseteq DOMAIN queue[d]
    BY <1>1, <1>5
  <2>2. QED
    BY <1>1, <2>1 DEF QueueInv, Listed
<1> HIDE DEF launched
<1>9. \A e \in Domains : Running(e)' = IF e = d THEN left \cup launched ELSE Running(e)
  BY <1>1, <1>6, <1>8 DEF BulkheadTypeOK, Running, Queued
<1>10. left \cap launched = {}
  BY <1>8 DEF Running, Queued
<1> HIDE DEF left
<1>11. IsFiniteSet(left \cup launched) /\ Cardinality(left \cup launched) = act + n
  <2>1. Cardinality(left \cup launched) =
          Cardinality(left) + Cardinality(launched) - Cardinality(left \cap launched)
    BY <1>3, <1>7, FS_Union
  <2>2. Cardinality(left \cap launched) = 0
    BY <1>10, FS_EmptySet
  <2>3. n \in Nat
    BY <1>1, <1>5
  <2>4. QED
    <3>1. IsFiniteSet(left \cup launched)
      BY <1>3, <1>7, FS_Union
    <3>2. QED
      BY <1>1, <1>3, <1>4, <1>7, <2>1, <2>2, <2>3, <3>1
<1>12. ASSUME NEW e \in Domains
       PROVE  IsFiniteSet(Running(e)') /\ active'[e] = Cardinality(Running(e)')
  <2>1. CASE e = d
    <3>1. active'[e] = act + n
      BY <1>6, <2>1 DEF BulkheadTypeOK
    <3>2. QED BY <1>9, <1>11, <2>1, <3>1
  <2>2. CASE e # d
    <3>1. active'[e] = active[e]
      BY <1>6, <2>2 DEF BulkheadTypeOK
    <3>2. QED BY <1>9, <2>2, <3>1 DEF CountInv
  <2>3. QED BY <2>1, <2>2
<1>13. QED BY <1>12 DEF CountInv

LEMMA CountStep == BulkheadTypeOK /\ QueueInv /\ CountInv /\ [BulkheadNext]_bulkheadVars => CountInv'
<1> SUFFICES ASSUME BulkheadTypeOK, QueueInv, CountInv, [BulkheadNext]_bulkheadVars PROVE CountInv'
  OBVIOUS
<1>1. ASSUME NEW t \in Tasks, NEW d \in Domains, Start(t, d) PROVE CountInv'
  <2>1. /\ t \notin Running(d)
        /\ \A e \in Domains : Running(e)' = IF e = d THEN Running(e) \cup {t} ELSE Running(e)
        /\ \A e \in Domains : active'[e] = IF e = d THEN active[e] + 1 ELSE active[e]
    BY <1>1 DEF Start, BulkheadTypeOK, Running
  <2>2. IsFiniteSet(Running(d) \cup {t})
        /\ Cardinality(Running(d) \cup {t}) = Cardinality(Running(d)) + 1
    BY <2>1, FS_AddElement DEF CountInv
  <2>3. QED
    BY <2>1, <2>2 DEF CountInv
<1>2. ASSUME NEW t \in Tasks,
             QueueTimeout(t) \/ \E d \in Domains : Enqueue(t, d) \/ Refuse(t, d)
      PROVE  CountInv'
  <2>1. active' = active /\ \A e \in Domains : Running(e)' = Running(e)
    BY <1>2 DEF Enqueue, Pushed, Armed, Refuse, QueueTimeout, BulkheadTypeOK, Running
  <2>2. QED BY <2>1 DEF CountInv
<1>3. CASE UNCHANGED bulkheadVars
  BY <1>3 DEF bulkheadVars, CountInv, Running
<1>4. QED
  BY <1>1, <1>2, <1>3, CountFinish DEF BulkheadNext

\* No slot leaks and none is returned twice.
THEOREM ActiveExactness == BulkheadSpec => []ActiveExact
<1>1. CountInv => ActiveExact
  BY DEF CountInv, ActiveExact
<1>2. QED
  BY <1>1, TypeCorrect, QueueInit, QueueStep, CountInit, CountStep, PTL DEF BulkheadSpec

\* Every pool is exact: its counter, its queue with the timers, its limit.
THEOREM PoolExactness == BulkheadSpec => []PoolExact
BY ActiveExactness, QueueExactness, Boundedness, PTL DEF PoolExact

\* A pool's counters are those of its calls, and no call waits while there is room,
\* for any number of domains, calls and any limits.
THEOREM Soundness == BulkheadSpec => []PoolSound
BY PoolExactness, WorkConservation, PTL DEF PoolSound

-----------------------------------------------------------------------------
\* RetryEngine.

\* On the way to another attempt, which has been granted and not begun.
Pending == {"looping", "hooking", "sleeping", "resumed"}

\* The inductive invariant.  A sleeping loop is never an aborted one, because
\* Abort wakes it, and what is pending was granted: that the attempts begun are
\* fewer than those granted, and that the error was one to retry, is known only
\* at the catch clause and has to survive the hook and the sleep.
IInv ==
    /\ attempt \in [Requests -> 0..MaxRetries]
    /\ started \in [Requests -> Nat]
    /\ pc \in [Requests -> {"idle", "trying"} \cup Pending \cup Over]
    /\ aborted \in [Requests -> BOOLEAN]
    /\ lastError \in [Requests -> Failures \cup {"unknown", "aborted", "expired", "none"}]
    /\ AttemptsGranted
    /\ \A r \in Requests : pc[r] = "sleeping" => ~aborted[r]
    /\ \A r \in Requests : pc[r] \in Pending => ShouldRetry(r, lastError[r])
    /\ \A r \in Requests : pc[r] = "idle" => started[r] = 0

LEMMA LoopStarts == Init => IInv
BY RetryAssumption DEF Init, IInv, AttemptsGranted, Pending, Over

\* Both ways a handler ends.
LEMMA CaughtStep ==
    ASSUME IInv, NEW r \in Requests, pc[r] \notin Over,
           NEW e \in Failures \cup {"unknown", "aborted", "expired"}, Caught(r, e),
           aborted' \in [Requests -> BOOLEAN],
           \A q \in Requests : q # r => aborted'[q] = aborted[q]
    PROVE  IInv'
<1> DEFINE asks == Asks(r, e)
           again == asks /\ Affordable(Held)
<1>1. /\ attempt' = [attempt EXCEPT ![r] = IF again THEN attempt[r] + 1 ELSE attempt[r]]
      /\ pc' = [pc EXCEPT ![r] = IF again THEN "looping" ELSE "failed"]
      /\ lastError' = [lastError EXCEPT ![r] = e]
      /\ started' = started
  BY DEF Caught, Counted
<1>2. again => attempt[r] < MaxRetries /\ ShouldRetry(r, e)
  BY DEF Asks
<1> HIDE DEF again
<1>3. /\ attempt' \in [Requests -> 0..MaxRetries] /\ started' \in [Requests -> Nat]
      /\ pc' \in [Requests -> {"idle", "trying"} \cup Pending \cup Over]
      /\ lastError' \in [Requests -> Failures \cup {"unknown", "aborted", "expired", "none"}]
  BY <1>1, <1>2, RetryAssumption DEF IInv, Pending, Over
<1>4. AttemptsGranted'
  BY <1>1, <1>2, RetryAssumption DEF IInv, AttemptsGranted, Pending, Over
<1>5. \A q \in Requests : pc'[q] = "sleeping" => ~aborted'[q]
  BY <1>1 DEF IInv
<1>6. \A q \in Requests : pc'[q] \in Pending => ShouldRetry(q, lastError'[q])
  BY <1>1, <1>2 DEF IInv, Pending
<1>7. \A q \in Requests : pc'[q] = "idle" => started'[q] = 0
  BY <1>1 DEF IInv
<1>8. QED
  BY <1>3, <1>4, <1>5, <1>6, <1>7 DEF IInv, ShouldRetry

LEMMA BeginStep ==
    ASSUME IInv, NEW r \in Requests, pc[r] \in Pending \cup {"idle"}, Begin(r),
           aborted' = aborted
    PROVE  IInv'
BY DEF IInv, Begin, AttemptsGranted, Pending, Over, ShouldRetry

\* The steps of a loop between two attempts that neither end nor begin one.
LEMMA MoveStep ==
    ASSUME IInv, NEW r \in Requests, NEW to \in Pending \cup {"done"},
           pc' = [pc EXCEPT ![r] = to],
           to \in Pending => pc[r] \in Pending,
           to = "done" => pc[r] = "trying",
           to = "sleeping" => ~aborted[r],
           UNCHANGED <<attempt, started, aborted, lastError>>
    PROVE  IInv'
BY DEF IInv, AttemptsGranted, Pending, Over, ShouldRetry

LEMMA Inductive == IInv /\ [Next]_vars => IInv'
<1> SUFFICES ASSUME IInv, [Next]_vars PROVE IInv'
  OBVIOUS
<1>1. ASSUME NEW r \in Requests, Execute(r) PROVE IInv'
  BY <1>1, CaughtStep, BeginStep DEF Execute, Over, IInv
<1>2. ASSUME NEW r \in Requests, Abort(r) PROVE IInv'
  <2>1. /\ aborted' \in [Requests -> BOOLEAN]
        /\ \A q \in Requests : q # r => aborted'[q] = aborted[q]
    BY <1>2 DEF Abort, IInv
  <2>2. CASE pc[r] = "sleeping"
    BY <1>2, <2>1, <2>2, CaughtStep DEF Abort, Over
  <2>3. CASE pc[r] # "sleeping"
    BY <1>2, <2>1, <2>3 DEF Abort, IInv, AttemptsGranted, Pending, Over, ShouldRetry
  <2>4. QED
    BY <2>2, <2>3
<1>3. ASSUME NEW r \in Requests, Loop(r) PROVE IInv'
  <2>1. Reason(r) \in {"aborted", "expired", "none"}
    BY DEF Reason
  <2>2. QED
    BY <1>3, <2>1, CaughtStep, MoveStep DEF Loop, Over, Pending, IInv
<1>4. ASSUME NEW r \in Requests, HookDone(r) PROVE IInv'
  <2>1. Reason(r) \in {"aborted", "expired", "none"} /\ (Reason(r) = "none" => ~aborted[r])
    BY DEF Reason
  <2>2. CASE Reason(r) # "none"
    BY <1>4, <2>1, <2>2, CaughtStep DEF HookDone, Over, IInv
  <2>3. CASE Reason(r) = "none"
    <3>1. PICK to \in {"resumed", "sleeping"} : pc' = [pc EXCEPT ![r] = to]
      BY <1>4, <2>3 DEF HookDone
    <3>2. QED
      BY <1>4, <2>1, <2>3, <3>1, MoveStep DEF HookDone, Pending
  <2>4. QED
    BY <2>2, <2>3
<1>5. ASSUME NEW r \in Requests, HookThrows(r) PROVE IInv'
  BY <1>5, CaughtStep DEF HookThrows, Over, IInv
<1>6. ASSUME NEW r \in Requests, Wake(r) PROVE IInv'
  BY <1>6, CaughtStep, BeginStep DEF Wake, Over, Pending, IInv
<1>7. ASSUME NEW r \in Requests, Resume(r) PROVE IInv'
  BY <1>7, BeginStep DEF Resume, Pending
<1>8. ASSUME NEW r \in Requests, Succeed(r) PROVE IInv'
  BY <1>8, MoveStep DEF Succeed, Pending
<1>9. ASSUME NEW r \in Requests, Fail(r) PROVE IInv'
  BY <1>9, CaughtStep DEF Fail, Over, IInv
<1>10. CASE Tick
  BY <1>10 DEF Tick, IInv, AttemptsGranted, ShouldRetry
<1>11. CASE UNCHANGED vars
  BY <1>11 DEF vars, IInv, AttemptsGranted, ShouldRetry
<1>12. QED
  BY <1>1, <1>2, <1>3, <1>4, <1>5, <1>6, <1>7, <1>8, <1>9, <1>10, <1>11 DEF Next, Step

LEMMA Invariance == Spec => []IInv
BY LoopStarts, Inductive, PTL DEF Spec

\* Where an attempt begins.
LEMMA Beginning ==
    ASSUME IInv, [Next]_vars, NEW r \in Requests, started'[r] # started[r]
    PROVE  /\ pc[r] \in {"idle", "sleeping", "resumed"}
           /\ aborted[r] => pc[r] = "resumed"
<1>1. ASSUME NEW q \in Requests, Execute(q) \/ Wake(q) \/ Resume(q)
      PROVE  /\ pc[r] \in {"idle", "sleeping", "resumed"}
             /\ aborted[r] => pc[r] = "resumed"
  BY <1>1 DEF Execute, Wake, Resume, Begin, Caught, IInv
<1>2. ASSUME NEW q \in Requests,
             Abort(q) \/ Loop(q) \/ HookDone(q) \/ HookThrows(q) \/ Succeed(q) \/ Fail(q)
      PROVE  started' = started
  BY <1>2 DEF Abort, Loop, HookDone, HookThrows, Succeed, Fail, Caught
<1>3. Tick \/ UNCHANGED vars => started' = started
  BY DEF Tick, vars
<1>4. QED
  BY <1>1, <1>2, <1>3 DEF Next, Step

-----------------------------------------------------------------------------
\* The rate of the retries, of all requests that share the budget.

\* Of `grants` retries by the time t those that s does not list are older than a window;
\* and up to any of them there were no more than the budget of the windows begun by then.
WithinRate(s, grants, t) ==
    /\ s \in Seq(Nat) /\ Ascending(s) /\ \A i \in DOMAIN s : s[i] <= t
    /\ grants \in Nat /\ t \in Nat /\ Len(s) <= grants
    /\ grants - Len(s) <= Budget * (t \div WindowMs)
    /\ \A j \in DOMAIN s : grants - Len(s) + j <= Budget * (1 + s[j] \div WindowMs)

LEMMA WindowsBegun ==
    ASSUME NEW a \in Nat, NEW b \in Nat, NEW c \in Nat \ {0}
    PROVE  /\ a \div c \in Nat /\ b \div c \in Nat
           /\ a <= b => a \div c <= b \div c
           /\ a <= b - c => 1 + a \div c <= b \div c
OBVIOUS

LEMMA BudgetOfWindows ==
    ASSUME NEW n \in Nat, NEW m \in Nat
    PROVE  /\ Budget * n \in Nat /\ Budget * (1 + n) = Budget + Budget * n
           /\ n <= m => Budget * n <= Budget * m
<1>1. Budget \in Nat
  BY RetryAssumption
<1>2. n <= m => Budget * n <= Budget * m
  BY <1>1, Stretched
<1>3. Budget * (n + 1) = Budget * n + Budget /\ 1 + n = n + 1
  BY <1>1, Distributed
<1>4. Budget * n \in Nat
  BY <1>1
<1> QED BY <1>1, <1>2, <1>3, <1>4

LEMMA RateAtMost ==
    ASSUME NEW s, NEW grants, NEW t, WithinRate(s, grants, t)
    PROVE  grants <= Budget * (1 + t \div WindowMs)
<1>1. s \in Seq(Nat) /\ t \in Nat /\ grants \in Nat /\ Len(s) \in Nat /\ WindowMs \in Nat \ {0} /\ Budget \in Nat
  BY RetryAssumption DEF WithinRate
<1>2. t \div WindowMs \in Nat
  BY <1>1, WindowsBegun
<1>3. CASE Len(s) = 0
  <2>1. grants <= Budget * (t \div WindowMs)
    BY <1>1, <1>3 DEF WithinRate
  <2>2. PICK w : w = t \div WindowMs
    OBVIOUS
  <2>3. Budget * w \in Nat /\ Budget * (1 + w) = Budget + Budget * w
    BY <1>2, <2>2, BudgetOfWindows
  <2> QED BY <1>1, <2>1, <2>2, <2>3
<1>4. CASE Len(s) # 0
  <2>1. Len(s) \in DOMAIN s /\ s[Len(s)] \in Nat
    BY <1>1, <1>4
  <2>2. s[Len(s)] <= t /\ grants - Len(s) + Len(s) <= Budget * (1 + s[Len(s)] \div WindowMs)
    BY <2>1 DEF WithinRate
  <2>3. PICK v, w : v = s[Len(s)] \div WindowMs /\ w = t \div WindowMs
    OBVIOUS
  <2>4. v \in Nat /\ w \in Nat /\ v <= w
    BY <1>1, <2>1, <2>2, <2>3, WindowsBegun
  <2>5. Budget * (1 + v) <= Budget * (1 + w) /\ Budget * (1 + v) \in Nat /\ Budget * (1 + w) \in Nat
    BY <2>4, BudgetOfWindows
  <2>6. grants <= Budget * (1 + v)
    BY <1>1, <2>2, <2>3
  <2> QED BY <1>1, <2>3, <2>5, <2>6
<1> QED BY <1>3, <1>4

\* Time passes.
LEMMA RateLater ==
    ASSUME NEW s, NEW grants, NEW t, WithinRate(s, grants, t)
    PROVE  WithinRate(s, grants, t + 1)
<1>1. s \in Seq(Nat) /\ t \in Nat /\ grants \in Nat /\ WindowMs \in Nat \ {0} /\ Len(s) \in Nat
  BY RetryAssumption DEF WithinRate
<1>2. PICK v, w : v = t \div WindowMs /\ w = (t + 1) \div WindowMs
  OBVIOUS
<1>3. v \in Nat /\ w \in Nat /\ v <= w
  <2>1. t + 1 \in Nat /\ t <= t + 1
    BY <1>1
  <2> QED BY <1>1, <1>2, <2>1, WindowsBegun
<1>4. Budget * v <= Budget * w /\ Budget * v \in Nat /\ Budget * w \in Nat
  BY <1>3, BudgetOfWindows
<1>5. grants - Len(s) <= Budget * w
  <2>1. grants - Len(s) <= Budget * v
    BY <1>2 DEF WithinRate
  <2> QED BY <1>1, <1>4, <2>1
<1>6. \A i \in DOMAIN s : s[i] <= t + 1
  <2>1. \A i \in DOMAIN s : s[i] <= t /\ s[i] \in Nat
    BY <1>1 DEF WithinRate
  <2> QED BY <1>1, <2>1
<1> QED BY <1>1, <1>2, <1>5, <1>6 DEF WithinRate

\* What is older than the window is forgotten.
LEMMA RateForgets ==
    ASSUME NEW s, NEW grants, NEW t, WithinRate(s, grants, t)
    PROVE  WithinRate(Recent(s, t - WindowMs), grants, t)
<1>1. /\ s \in Seq(Nat) /\ Ascending(s) /\ t \in Nat /\ grants \in Nat /\ WindowMs \in Nat \ {0} /\ Len(s) \in Nat
      /\ t - WindowMs \in Int /\ DOMAIN s = 1..Len(s) /\ \A i \in 1..Len(s) : s[i] \in Nat /\ s[i] <= t
      /\ Len(s) <= grants
  BY RetryAssumption DEF WithinRate
<1>2. PICK k \in 0..Len(s) :
         /\ Recent(s, t - WindowMs) = SubSeq(s, k + 1, Len(s))
         /\ k > 0 => s[k] <= t - WindowMs
         /\ \A i \in k + 1..Len(s) : s[i] > t - WindowMs
  BY <1>1, RecentAreLast
<1>3. PICK held : held = SubSeq(s, k + 1, Len(s))
  OBVIOUS
<1>4. /\ held \in Seq(Nat) /\ Len(held) = Len(s) - k /\ DOMAIN held = 1..(Len(s) - k)
      /\ \A i \in 1..(Len(s) - k) : held[i] = s[i + k]
  <2>1. k \in Nat /\ k <= Len(s)
    BY <1>1
  <2>2. held \in Seq(Nat)
    BY <1>1, <1>3, <2>1
  <2>3. Len(held) = Len(s) - k
    <3>1. s \in Seq(Nat)
      BY <1>1
    <3>2. Len(SubSeq(s, k + 1, Len(s))) = Len(s) - k
      BY <3>1
    <3> QED BY <1>3, <3>2
  <2>4. \A i \in 1..(Len(s) - k) : held[i] = s[i + k]
    BY <1>1, <1>3, <2>1
  <2> QED BY <2>2, <2>3, <2>4
<1>5. \A i \in 1..(Len(s) - k) : i + k \in 1..Len(s)
  BY <1>1
<1>6. Ascending(held)
  <2> SUFFICES ASSUME NEW i \in 1..(Len(s) - k), NEW j \in 1..(Len(s) - k), i < j PROVE held[i] <= held[j]
    BY <1>4 DEF Ascending
  <2>1. i + k \in DOMAIN s /\ j + k \in DOMAIN s /\ i + k < j + k
    BY <1>1, <1>5
  <2> QED BY <1>1, <1>4, <2>1 DEF Ascending
<1>7. \A i \in DOMAIN held : held[i] <= t
  BY <1>1, <1>4, <1>5
<1>8. grants - Len(held) = grants - Len(s) + k /\ Len(held) <= grants
  BY <1>1, <1>4
<1>9. grants - Len(held) <= Budget * (t \div WindowMs)
  <2>1. CASE k = 0
    BY <1>1, <1>8, <2>1 DEF WithinRate
  <2>2. CASE k > 0
    <3>1. k \in DOMAIN s /\ s[k] \in Nat /\ s[k] <= t - WindowMs
      BY <1>1, <1>2, <2>2
    <3>2. grants - Len(s) + k <= Budget * (1 + s[k] \div WindowMs)
      BY <3>1 DEF WithinRate
    <3>3. PICK v, w : v = s[k] \div WindowMs /\ w = t \div WindowMs
      OBVIOUS
    <3>4. v \in Nat /\ w \in Nat /\ 1 + v <= w
      BY <1>1, <3>1, <3>3, WindowsBegun
    <3>5. Budget * (1 + v) <= Budget * w /\ Budget * (1 + v) \in Nat /\ Budget * w \in Nat
      <4>1. 1 + v \in Nat
        BY <3>4
      <4> QED BY <3>4, <4>1, BudgetOfWindows
    <3> QED BY <1>1, <1>8, <3>2, <3>3, <3>5
  <2> QED BY <2>1, <2>2
<1>10. \A j \in DOMAIN held : grants - Len(held) + j <= Budget * (1 + held[j] \div WindowMs)
  <2> SUFFICES ASSUME NEW j \in 1..(Len(s) - k)
               PROVE  grants - Len(held) + j <= Budget * (1 + held[j] \div WindowMs)
    BY <1>4
  <2>1. grants - Len(s) + (j + k) <= Budget * (1 + s[j + k] \div WindowMs)
    BY <1>1, <1>5 DEF WithinRate
  <2>2. grants - Len(held) + j = grants - Len(s) + (j + k)
    <3>1. j \in Nat /\ k \in Nat /\ Len(held) = Len(s) - k
      BY <1>1, <1>4
    <3> QED BY <1>1, <3>1
  <2> QED BY <1>4, <2>1, <2>2
<1> QED BY <1>1, <1>2, <1>3, <1>4, <1>6, <1>7, <1>8, <1>9, <1>10 DEF WithinRate

\* One more is granted.
LEMMA RateGrants ==
    ASSUME NEW s, NEW grants, NEW t, WithinRate(s, grants, t), Len(s) < Budget
    PROVE  WithinRate(Append(s, t), grants + 1, t)
<1>1. /\ s \in Seq(Nat) /\ Ascending(s) /\ t \in Nat /\ grants \in Nat /\ WindowMs \in Nat \ {0} /\ Len(s) \in Nat
      /\ DOMAIN s = 1..Len(s) /\ \A i \in 1..Len(s) : s[i] \in Nat /\ s[i] <= t
      /\ Len(s) <= grants /\ Budget \in Nat
  BY RetryAssumption DEF WithinRate
<1>2. PICK more : more = Append(s, t)
  OBVIOUS
<1>3. /\ more \in Seq(Nat) /\ Len(more) = Len(s) + 1 /\ DOMAIN more = 1..(Len(s) + 1)
      /\ more[Len(s) + 1] = t /\ \A i \in 1..Len(s) : more[i] = s[i]
  BY <1>1, <1>2
<1>4. \A i \in 1..(Len(s) + 1) : i = Len(s) + 1 \/ i \in 1..Len(s)
  BY <1>1
<1>5. Ascending(more)
  <2> SUFFICES ASSUME NEW i \in 1..(Len(s) + 1), NEW j \in 1..(Len(s) + 1), i < j PROVE more[i] <= more[j]
    BY <1>3 DEF Ascending
  <2>1. i \in 1..Len(s)
    BY <1>1, <1>4
  <2>2. j \in 1..Len(s) => s[i] <= s[j]
    BY <1>1, <2>1 DEF Ascending
  <2> QED BY <1>1, <1>3, <1>4, <2>1, <2>2
<1>6. \A i \in DOMAIN more : more[i] <= t
  BY <1>1, <1>3, <1>4
<1>7. grants + 1 - Len(more) = grants - Len(s)
  BY <1>1, <1>3
<1>8. PICK w : w = t \div WindowMs
  OBVIOUS
<1>9. w \in Nat /\ Budget * w \in Nat /\ Budget * (1 + w) = Budget + Budget * w
  BY <1>1, <1>8, WindowsBegun, BudgetOfWindows
<1>10. grants - Len(s) <= Budget * w
  BY <1>8 DEF WithinRate
<1>11. \A j \in DOMAIN more : grants + 1 - Len(more) + j <= Budget * (1 + more[j] \div WindowMs)
  <2> SUFFICES ASSUME NEW j \in 1..(Len(s) + 1)
               PROVE  grants - Len(s) + j <= Budget * (1 + more[j] \div WindowMs)
    BY <1>3, <1>7
  <2>1. CASE j = Len(s) + 1
    <3>1. grants - Len(s) + j <= Budget + Budget * w
      BY <1>1, <1>9, <1>10, <2>1
    <3> QED BY <1>3, <1>8, <1>9, <2>1, <3>1
  <2>2. CASE j \in 1..Len(s)
    BY <1>1, <1>3, <2>2 DEF WithinRate
  <2> QED BY <1>4, <2>1, <2>2
<1>12. Len(more) <= grants + 1 /\ grants + 1 \in Nat
  BY <1>1, <1>3
<1> QED BY <1>1, <1>2, <1>3, <1>5, <1>6, <1>7, <1>8, <1>10, <1>11, <1>12 DEF WithinRate

Grants == SumFunctionOnSet(attempt, Requests)
RateInv == WithinRate(spent, Grants, now)

LEMMA NoGrantsYet == Init => RateInv
<1> SUFFICES ASSUME Init PROVE RateInv
  OBVIOUS
<1>1. /\ spent = <<>> /\ now = 0 /\ attempt \in [Requests -> Nat] /\ \A r \in Requests : attempt[r] = attempt[r] + attempt[r]
      /\ IsFiniteSet(Requests) /\ WindowMs \in Nat \ {0} /\ Budget \in Nat
  BY RetryAssumption DEF Init
<1>2. Grants \in Nat /\ Grants = Grants + Grants
  BY <1>1, SumsAdd DEF Grants
<1>3. Grants = 0 /\ spent \in Seq(Nat) /\ Len(spent) = 0 /\ DOMAIN spent = {}
  BY <1>1, <1>2
<1>4. PICK w : w = now \div WindowMs
  OBVIOUS
<1>5. Budget * w \in Nat
  BY <1>1, <1>4, WindowsBegun, BudgetOfWindows
<1> QED BY <1>1, <1>3, <1>4, <1>5 DEF RateInv, WithinRate, Ascending

LEMMA OneGrantMore ==
    ASSUME attempt \in [Requests -> Nat], NEW r \in Requests,
           attempt' = [attempt EXCEPT ![r] = attempt[r] + 1]
    PROVE  Grants' = Grants + 1
<1> DEFINE one == [q \in Requests |-> IF q = r THEN 1 ELSE 0]
<1>1. /\ attempt' \in [Requests -> Nat] /\ one \in [Requests -> Nat] /\ IsFiniteSet(Requests)
      /\ \A q \in Requests : attempt'[q] = attempt[q] + one[q]
  BY RetryAssumption
<1>2. \A q \in Requests : one[q] = IF q = r THEN 1 ELSE 0
  OBVIOUS
<1> HIDE DEF one
<1>3. SumFunctionOnSet(one, Requests) = 1
  BY <1>1, <1>2, SumOfOne
<1>4. PICK after : after = attempt'
  OBVIOUS
<1>5. SumFunctionOnSet(after, Requests)
        = SumFunctionOnSet(attempt, Requests) + SumFunctionOnSet(one, Requests)
  <2>1. after \in [Requests -> Nat] /\ \A q \in Requests : after[q] = attempt[q] + one[q]
    BY <1>1, <1>4
  <2> QED BY <1>1, <2>1, SumsAdd
<1> QED BY <1>3, <1>4, <1>5 DEF Grants

\* A grant is listed and counted; where one is refused, what is too old is still
\* dropped from the list.
LEMMA CaughtWithinRate ==
    ASSUME IInv, RateInv, NEW r \in Requests, NEW e, Caught(r, e), now' = now
    PROVE  RateInv'
<1> DEFINE asks == Asks(r, e)
           again == asks /\ Affordable(Held)
<1>1. /\ spent' = IF again THEN Append(Held, now) ELSE IF asks THEN Held ELSE spent
      /\ attempt' = [attempt EXCEPT ![r] = IF again THEN attempt[r] + 1 ELSE attempt[r]]
  BY DEF Caught, Counted
<1>2. again => asks /\ Len(Held) < Budget
  BY DEF Affordable
<1>3. attempt \in [Requests -> Nat]
  BY DEF IInv
<1>4. WithinRate(spent, Grants, now) /\ WithinRate(Held, Grants, now)
  BY RateForgets DEF RateInv, Held
<1> HIDE DEF again, asks
<1>5. CASE again
  <2>1. Grants' = Grants + 1
    BY <1>1, <1>3, <1>5, OneGrantMore
  <2>2. WithinRate(Append(Held, now), Grants + 1, now)
    BY <1>2, <1>4, <1>5, RateGrants
  <2> QED BY <1>1, <1>5, <2>1, <2>2 DEF RateInv
<1>6. CASE ~again
  <2>1. attempt' = attempt
    BY <1>1, <1>3, <1>6
  <2>2. Grants' = Grants
    BY <2>1 DEF Grants
  <2>3. spent' = Held \/ spent' = spent
    BY <1>1, <1>6
  <2> QED BY <1>4, <2>2, <2>3 DEF RateInv
<1> QED BY <1>5, <1>6

LEMMA RateStep == IInv /\ RateInv /\ [Next]_vars => RateInv'
<1> SUFFICES ASSUME IInv, RateInv, [Next]_vars PROVE RateInv'
  OBVIOUS
<1>1. CASE Tick
  <2>1. spent' = spent /\ Grants' = Grants /\ now' = now + 1
    BY <1>1 DEF Tick, Grants
  <2> QED BY <2>1, RateLater DEF RateInv
<1>2. ASSUME now' = now, spent' = spent, attempt' = attempt PROVE RateInv'
  BY <1>2 DEF RateInv, Grants
<1>3. ASSUME NEW r \in Requests, Execute(r) \/ Abort(r) \/ Step(r) PROVE RateInv'
  <2>1. now' = now /\ ((\E e : Caught(r, e)) \/ (spent' = spent /\ attempt' = attempt))
    BY <1>3 DEF Execute, Abort, Step, Loop, HookDone, HookThrows, Wake, Resume, Succeed, Fail, Begin
  <2> QED BY <1>2, <2>1, CaughtWithinRate
<1>4. CASE UNCHANGED vars
  BY <1>2, <1>4 DEF vars
<1> QED BY <1>1, <1>3, <1>4 DEF Next

LEMMA RateInvariance == Spec => []RateInv
BY NoGrantsYet, LoopStarts, Inductive, RateStep, PTL DEF Spec

\* Every retry begun was granted.
LEMMA RetriesWithinGrants == IInv /\ RateInv => BudgetRate
<1> SUFFICES ASSUME IInv, RateInv PROVE BudgetRate
  OBVIOUS
<1> DEFINE made == [r \in Requests |-> Retries(r)]
           unused == [r \in Requests |-> attempt[r] - Retries(r)]
<1>1. \A r \in Requests : attempt[r] \in Nat /\ Retries(r) \in Nat /\ Retries(r) <= attempt[r]
  BY RetryAssumption DEF IInv, AttemptsGranted, Retries, Larger
<1>2. /\ made \in [Requests -> Nat] /\ unused \in [Requests -> Nat] /\ attempt \in [Requests -> Nat]
      /\ IsFiniteSet(Requests) /\ DOMAIN made = Requests
      /\ \A r \in Requests : attempt[r] = made[r] + unused[r]
  BY <1>1, RetryAssumption DEF IInv
<1> HIDE DEF made, unused
<1>3. /\ SumFunctionOnSet(made, Requests) \in Nat /\ SumFunctionOnSet(unused, Requests) \in Nat
      /\ Grants = SumFunctionOnSet(made, Requests) + SumFunctionOnSet(unused, Requests)
  BY <1>2, SumsAdd DEF Grants
<1>4. Grants <= Budget * (1 + now \div WindowMs)
  BY RateAtMost DEF RateInv
<1>5. PICK most : most = Budget * (1 + now \div WindowMs)
  OBVIOUS
<1>6. most \in Nat
  <2>1. now \in Nat /\ WindowMs \in Nat \ {0}
    BY RetryAssumption DEF RateInv, WithinRate
  <2>2. PICK w : w = now \div WindowMs
    OBVIOUS
  <2>3. w \in Nat /\ 1 + w \in Nat
    BY <2>1, <2>2, WindowsBegun
  <2> QED BY <1>5, <2>2, <2>3, BudgetOfWindows
<1>7. SumFunctionOnSet(made, Requests) <= Budget * (1 + now \div WindowMs)
  BY <1>3, <1>4, <1>5, <1>6
<1> QED BY <1>2, <1>7 DEF BudgetRate, SumFunction, made

-----------------------------------------------------------------------------
\* A loop never begins an attempt that #shouldRetry and the budget did not
\* grant, so no more than maxRetries + 1 of them.
THEOREM AttemptsAreGranted == Spec => []AttemptsGranted
<1>1. IInv => AttemptsGranted
  BY DEF IInv
<1>2. QED
  BY <1>1, Invariance, PTL

\* All requests together never run ahead of their budget, and none of them makes a
\* retry that was not granted, however the grants were slept on.
THEOREM WithinBudget == Spec => []RetriesGranted
<1>1. IInv /\ RateInv => RetriesGranted
  BY RetriesWithinGrants DEF IInv, RetriesGranted
<1>2. QED
  BY <1>1, Invariance, RateInvariance, PTL

\* An aborted request begins no attempt, unless its backoff was 0 and over.
THEOREM Stops == Spec => StopsWhenAborted
<1>1. IInv /\ [Next]_vars
        => [\A r \in Requests : aborted[r] /\ pc[r] # "resumed" => started'[r] = started[r]]_vars
  BY Beginning
<1>2. QED
  BY <1>1, Invariance, PTL DEF Spec, StopsWhenAborted

\* Unless a shouldRetry of the user's insists, a request that must not be sent
\* twice, or that one of the client's checks refused, is not tried again.
THEOREM Unrepeated == Spec => NothingUnsafeRetried
<1>1. IInv /\ [Next]_vars
        => [\A r \in Requests :
              r \notin Insistent /\ started'[r] > started[r] /\ started[r] > 0
                => r \in Replayable /\ lastError[r] \notin Blocked]_vars
  <2> SUFFICES ASSUME IInv, [Next]_vars, NEW r \in Requests, r \notin Insistent,
                      started'[r] > started[r], started[r] > 0
               PROVE  r \in Replayable /\ lastError[r] \notin Blocked
    OBVIOUS
  <2>1. pc[r] \in {"idle", "sleeping", "resumed"} /\ started[r] \in Nat
    <3>1. started'[r] # started[r]
      BY Inductive DEF IInv
    <3>2. QED
      BY <3>1, Beginning DEF IInv
  <2>2. ShouldRetry(r, lastError[r])
    BY <2>1 DEF IInv, Pending
  <2>3. QED
    BY <2>2 DEF ShouldRetry, ListedStatuses, ListedCodes, Blocked
<1>2. QED
  BY <1>1, Invariance, PTL DEF Spec, NothingUnsafeRetried

\* No attempt is begun that must not be, after the abort or against what may be
\* sent twice, however the requests interleave.
THEOREM Safe == Spec => SafeRetries
BY Stops, Unrepeated DEF SafeRetries

-----------------------------------------------------------------------------
\* RateLimiter: its algorithms at a time t, and what a state has used of its limit.

Algorithms == {"token_bucket", "sliding_window", "fixed_window"}

CurrentAt(a, t, s) ==
    CASE a = "token_bucket"   ->
            [tokens |-> IF s = None THEN Burst * Window
                        ELSE Smaller(Burst * Window, s.tokens + (t - s.lastRefill) * MaxRequests),
             lastRefill |-> t]
      [] a = "sliding_window" ->
            [requests |-> IF s = None THEN <<>> ELSE Recent(s.requests, t - Window)]
      [] a = "fixed_window"   ->
            [count |-> IF s = None THEN 0 ELSE IF s.windowId = t \div Window THEN s.count ELSE 0,
             windowId |-> t \div Window]
AllowedBy(a, c) ==
    CASE a = "token_bucket"   -> c.tokens >= Window
      [] a = "sliding_window" -> Len(c.requests) < MaxRequests
      [] a = "fixed_window"   -> c.count < MaxRequests
ChargedAt(a, t, c) ==
    CASE a = "token_bucket"   -> [c EXCEPT !.tokens = @ - Window]
      [] a = "sliding_window" -> [c EXCEPT !.requests = Append(@, t)]
      [] a = "fixed_window"   -> [c EXCEPT !.count = @ + 1]
EvaluatedAt(a, t, s) ==
    IF AllowedBy(a, CurrentAt(a, t, s)) THEN ChargedAt(a, t, CurrentAt(a, t, s)) ELSE CurrentAt(a, t, s)

\* A state that the algorithm can have come to by then, or none.
SoundAt(a, t, s) ==
    CASE a = "token_bucket"   -> s \in [tokens : 0..(Burst * Window), lastRefill : 0..t]
      [] a = "sliding_window" ->
            s \in [requests : Seq(0..t)] /\ Ascending(s.requests) /\ Len(s.requests) <= MaxRequests
      [] a = "fixed_window"   ->
            s \in [count : 0..MaxRequests, windowId : 0..t] /\ s.windowId * Window <= t
FineAt(a, t, s) == s = None \/ SoundAt(a, t, s)

\* The beginnings of the intervals that end then and that a state can tell of.
FromsAt(a, t) ==
    CASE a = "token_bucket"   -> 0..t
      [] a = "sliding_window" -> (t - Window + 1)..t
      [] a = "fixed_window"   -> {t - (t % Window)}
LimitBy(a, from, to) ==
    IF a = "token_bucket" THEN Burst * Window + (to - from) * MaxRequests ELSE MaxRequests * Window
UsedAt(a, t, s, from) ==
    CASE a = "token_bucket"   ->
            Burst * Window + (t - from) * MaxRequests - CurrentAt(a, t, s).tokens
      [] a = "sliding_window" -> Since(CurrentAt(a, t, s).requests, from) * Window
      [] a = "fixed_window"   -> CurrentAt(a, t, s).count * Window

\* The constants, as the provers need them.
LEMMA Numerals ==
    /\ MaxRequests \in Nat /\ MaxRequests >= 1 /\ Window \in Nat /\ Window >= 1 /\ Burst \in Nat /\ Burst >= 1
    /\ LimiterTime \in Nat /\ Burst * Window \in Nat /\ Burst * Window >= Window /\ MaxRequests * Window \in Nat
    /\ Window # 0
<1>1. /\ MaxRequests \in Nat /\ MaxRequests >= 1 /\ Window \in Nat /\ Window >= 1 /\ Burst \in Nat /\ Burst >= 1
      /\ LimiterTime \in Nat /\ Window # 0
  BY LimiterAssumption
<1>2. Burst * Window \in Nat /\ MaxRequests * Window \in Nat
  BY <1>1
<1>3. 1 * Window <= Burst * Window
  BY <1>1, Stretched
<1> QED BY <1>1, <1>2, <1>3

LEMMA SoundIsState ==
    ASSUME NEW a \in Algorithms, NEW t \in 0..LimiterTime, NEW s, SoundAt(a, t, s)
    PROVE  s \in State /\ s # None
<1>1. 0..t \subseteq 0..LimiterTime /\ LimiterTime \in Nat
  BY Numerals
<1>2. CASE a = "token_bucket"
  <2>1. s \in [tokens : 0..(Burst * Window), lastRefill : 0..t]
    BY <1>2 DEF SoundAt
  <2>2. s \in Bucket
    BY <1>1, <2>1 DEF Bucket
  <2> QED BY <2>2, LimiterAssumption DEF State
<1>3. CASE a = "sliding_window"
  <2>1. s \in [requests : Seq(0..t)]
    BY <1>3 DEF SoundAt
  <2>2. s \in [requests : Seq(0..LimiterTime)]
    BY <1>1, <2>1
  <2>3. s \in Log
    BY <2>2 DEF Log
  <2> QED BY <2>3, LimiterAssumption DEF State
<1>4. CASE a = "fixed_window"
  <2>1. s \in [count : 0..MaxRequests, windowId : 0..t]
    BY <1>4 DEF SoundAt
  <2>2. s \in Count
    BY <1>1, <2>1 DEF Count
  <2> QED BY <2>2, LimiterAssumption DEF State
<1> QED BY <1>2, <1>3, <1>4 DEF Algorithms

\* The bucket.
LEMMA BucketIs ==
    ASSUME NEW a, a = "token_bucket", NEW t, NEW s
    PROVE  /\ CurrentAt(a, t, s) =
                  [tokens |-> IF s = None THEN Burst * Window
                              ELSE Smaller(Burst * Window, s.tokens + (t - s.lastRefill) * MaxRequests),
                   lastRefill |-> t]
           /\ AllowedBy(a, s) <=> s.tokens >= Window
           /\ ChargedAt(a, t, s) = [s EXCEPT !.tokens = s.tokens - Window]
           /\ SoundAt(a, t, s) <=> s \in [tokens : 0..(Burst * Window), lastRefill : 0..t]
           /\ FromsAt(a, t) = 0..t
           /\ \A from : UsedAt(a, t, s, from) =
                            Burst * Window + (t - from) * MaxRequests - CurrentAt(a, t, s).tokens
           /\ \A from : LimitBy(a, from, t) = Burst * Window + (t - from) * MaxRequests
BY DEF CurrentAt, AllowedBy, ChargedAt, SoundAt, FromsAt, UsedAt, LimitBy

LEMMA BucketNow ==
    ASSUME NEW a, a = "token_bucket", NEW t \in 0..LimiterTime, NEW s, FineAt(a, t, s),
           NEW c, c = CurrentAt(a, t, s)
    PROVE  c \in [tokens : 0..(Burst * Window), lastRefill : {t}]
<1>1. PICK k : k = Burst * Window
  OBVIOUS
<1>2. k \in Nat /\ t \in Nat /\ MaxRequests \in Nat
  BY <1>1, Numerals
<1>3. c = [tokens |-> IF s = None THEN k ELSE Smaller(k, s.tokens + (t - s.lastRefill) * MaxRequests),
           lastRefill |-> t]
  BY <1>1, BucketIs
<1>4. CASE s = None
  BY <1>1, <1>2, <1>3, <1>4
<1>5. CASE s # None
  <2>1. s \in [tokens : 0..k, lastRefill : 0..t]
    BY <1>1, <1>5, BucketIs DEF FineAt
  <2>2. PICK x : x = (t - s.lastRefill) * MaxRequests
    OBVIOUS
  <2>3. x \in Nat
    <3>1. t - s.lastRefill \in Nat
      BY <1>2, <2>1
    <3> QED BY <1>2, <2>2, <3>1
  <2>4. Smaller(k, s.tokens + x) \in 0..k
    BY <1>2, <2>1, <2>3 DEF Smaller
  <2> QED BY <1>1, <1>3, <1>5, <2>2, <2>4
<1> QED BY <1>4, <1>5

LEMMA BucketStays ==
    ASSUME NEW a, a = "token_bucket", NEW t \in 0..LimiterTime,
           NEW c \in [tokens : 0..(Burst * Window), lastRefill : {t}]
    PROVE  SoundAt(a, t, c) /\ CurrentAt(a, t, c) = c
<1>1. PICK k : k = Burst * Window
  OBVIOUS
<1>2. k \in Nat /\ t \in Nat /\ MaxRequests \in Nat
  BY <1>1, Numerals
<1>3. SoundAt(a, t, c)
  <2>1. c \in [tokens : 0..(Burst * Window), lastRefill : 0..t]
    BY <1>2
  <2> QED BY <2>1, BucketIs
<1>4. c # None
  BY <1>3, SoundIsState DEF Algorithms
<1>5. CurrentAt(a, t, c) = [tokens |-> Smaller(k, c.tokens + (t - c.lastRefill) * MaxRequests), lastRefill |-> t]
  BY <1>1, <1>4, BucketIs
<1>6. c.lastRefill = t /\ c.tokens \in 0..k
  BY <1>1
<1>7. (t - c.lastRefill) * MaxRequests = 0
  BY <1>2, <1>6
<1>8. Smaller(k, c.tokens + 0) = c.tokens
  BY <1>2, <1>6 DEF Smaller
<1>9. CurrentAt(a, t, c) = [tokens |-> c.tokens, lastRefill |-> t]
  BY <1>5, <1>7, <1>8
<1>10. c = [tokens |-> c.tokens, lastRefill |-> t]
  BY <1>6
<1> QED BY <1>3, <1>9, <1>10

\* The log.
LEMMA LogIs ==
    ASSUME NEW a, a = "sliding_window", NEW t, NEW s
    PROVE  /\ CurrentAt(a, t, s) =
                  [requests |-> IF s = None THEN <<>> ELSE Recent(s.requests, t - Window)]
           /\ AllowedBy(a, s) <=> Len(s.requests) < MaxRequests
           /\ ChargedAt(a, t, s) = [s EXCEPT !.requests = Append(s.requests, t)]
           /\ SoundAt(a, t, s) <=>
                  s \in [requests : Seq(0..t)] /\ Ascending(s.requests) /\ Len(s.requests) <= MaxRequests
           /\ FromsAt(a, t) = (t - Window + 1)..t
           /\ \A from : UsedAt(a, t, s, from) = Since(CurrentAt(a, t, s).requests, from) * Window
           /\ \A from : LimitBy(a, from, t) = MaxRequests * Window
BY DEF CurrentAt, AllowedBy, ChargedAt, SoundAt, FromsAt, UsedAt, LimitBy

LogNow(t, c) ==
    /\ c \in [requests : Seq(0..t)] /\ Ascending(c.requests) /\ Len(c.requests) <= MaxRequests
    /\ \A i \in DOMAIN c.requests : c.requests[i] > t - Window

LEMMA LogNowIs ==
    ASSUME NEW a, a = "sliding_window", NEW t \in 0..LimiterTime, NEW s, FineAt(a, t, s),
           NEW c, c = CurrentAt(a, t, s)
    PROVE  /\ LogNow(t, c)
           /\ s # None => \A u \in Int : u > t - Window => Since(c.requests, u) = Since(s.requests, u)
<1>1. t \in Nat /\ MaxRequests \in Nat /\ Window \in Nat /\ t - Window \in Int
  BY Numerals
<1>2. CASE s = None
  <2>1. c = [requests |-> <<>>]
    BY <1>2, LogIs
  <2>2. <<>> \in Seq(0..t) /\ c.requests = <<>>
    BY <2>1
  <2>3. c \in [requests : Seq(0..t)]
    BY <2>1, <2>2
  <2> QED BY <1>1, <1>2, <2>2, <2>3 DEF LogNow, Ascending
<1>3. CASE s # None
  <2>1. s \in [requests : Seq(0..t)] /\ Ascending(s.requests) /\ Len(s.requests) <= MaxRequests
    BY <1>3, LogIs DEF FineAt
  <2>2. PICK old, r : old = s.requests /\ r = Recent(old, t - Window)
    OBVIOUS
  <2>3. c = [requests |-> r] /\ c.requests = r
    BY <1>3, <2>2, LogIs
  <2>4. old \in Seq(0..t) /\ old \in Seq(Nat) /\ Ascending(old) /\ Len(old) <= MaxRequests /\ Len(old) \in Nat
    BY <1>1, <2>1, <2>2
  <2>5. /\ r \in Seq(Nat) /\ Ascending(r) /\ Len(r) \in Nat /\ Len(r) <= Len(old)
        /\ \A i \in DOMAIN r : r[i] > t - Window /\ \E j \in DOMAIN old : r[i] = old[j]
        /\ \A u \in Int : u > t - Window => Since(r, u) = Since(old, u)
    BY <1>1, <2>2, <2>4, RecentTimes
  <2>6. \A i \in DOMAIN r : r[i] \in 0..t
    BY <2>4, <2>5
  <2>7. r \in Seq(0..t)
    BY <2>5, <2>6
  <2>8. Len(r) <= MaxRequests
    BY <1>1, <2>4, <2>5
  <2> QED BY <2>2, <2>3, <2>5, <2>7, <2>8 DEF LogNow
<1> QED BY <1>2, <1>3

LEMMA LogStays ==
    ASSUME NEW a, a = "sliding_window", NEW t \in 0..LimiterTime, NEW c, LogNow(t, c)
    PROVE  SoundAt(a, t, c) /\ CurrentAt(a, t, c) = c
<1>1. t \in Nat /\ MaxRequests \in Nat /\ Window \in Nat /\ t - Window \in Int
  BY Numerals
<1>2. SoundAt(a, t, c)
  BY LogIs DEF LogNow
<1>3. c # None
  BY <1>2, SoundIsState DEF Algorithms
<1>4. PICK r : r = c.requests
  OBVIOUS
<1>5. r \in Seq(Nat) /\ Ascending(r) /\ \A i \in DOMAIN r : r[i] > t - Window
  BY <1>1, <1>4 DEF LogNow
<1>6. Recent(r, t - Window) = r
  <2>1. PICK kept : kept = Recent(r, t - Window)
    OBVIOUS
  <2>2. kept = r
    BY <1>1, <1>5, <2>1, RecentTimes
  <2> QED BY <2>1, <2>2
<1>7. CurrentAt(a, t, c) = [requests |-> r]
  BY <1>3, <1>4, <1>6, LogIs
<1>8. c = [requests |-> r]
  BY <1>4 DEF LogNow
<1> QED BY <1>2, <1>7, <1>8

\* The counter.
LEMMA CountIs ==
    ASSUME NEW a, a = "fixed_window", NEW t, NEW s
    PROVE  /\ CurrentAt(a, t, s) =
                  [count |-> IF s = None THEN 0 ELSE IF s.windowId = t \div Window THEN s.count ELSE 0,
                   windowId |-> t \div Window]
           /\ AllowedBy(a, s) <=> s.count < MaxRequests
           /\ ChargedAt(a, t, s) = [s EXCEPT !.count = s.count + 1]
           /\ SoundAt(a, t, s) <=> s \in [count : 0..MaxRequests, windowId : 0..t] /\ s.windowId * Window <= t
           /\ FromsAt(a, t) = {t - (t % Window)}
           /\ \A from : UsedAt(a, t, s, from) = CurrentAt(a, t, s).count * Window
           /\ \A from : LimitBy(a, from, t) = MaxRequests * Window
BY DEF CurrentAt, AllowedBy, ChargedAt, SoundAt, FromsAt, UsedAt, LimitBy

LEMMA WindowOf ==
    ASSUME NEW t \in Nat
    PROVE  /\ t \div Window \in 0..t /\ (t \div Window) * Window <= t
           /\ t - (t % Window) = (t \div Window) * Window /\ t % Window \in 0..(Window - 1)
           /\ t % Window <= t
<1>1. Window \in Nat \ {0}
  BY Numerals
<1>2. PICK d, m : d = t \div Window /\ m = t % Window
  OBVIOUS
<1>3. d \in Nat /\ d * Window <= t
  BY <1>1, <1>2, Division
<1>4. t = Window * d + m /\ m \in 0..(Window - 1)
  BY <1>1, <1>2
<1>5. Window * d = d * Window /\ d * Window \in Nat
  BY <1>1, <1>3
<1>6. d * 1 <= d * Window
  BY <1>1, <1>3, Stretched
<1> QED BY <1>1, <1>2, <1>3, <1>4, <1>5, <1>6

LEMMA CountNow ==
    ASSUME NEW a, a = "fixed_window", NEW t \in 0..LimiterTime, NEW s, FineAt(a, t, s),
           NEW c, c = CurrentAt(a, t, s)
    PROVE  c \in [count : 0..MaxRequests, windowId : {t \div Window}]
<1>1. MaxRequests \in Nat
  BY Numerals
<1>2. s # None => s \in [count : 0..MaxRequests, windowId : 0..t]
  BY CountIs DEF FineAt
<1> QED BY <1>1, <1>2, CountIs

LEMMA CountStays ==
    ASSUME NEW a, a = "fixed_window", NEW t \in 0..LimiterTime,
           NEW c \in [count : 0..MaxRequests, windowId : {t \div Window}]
    PROVE  SoundAt(a, t, c) /\ CurrentAt(a, t, c) = c
<1>1. t \in Nat
  BY Numerals
<1>2. SoundAt(a, t, c)
  <2>1. t \div Window \in 0..t /\ (t \div Window) * Window <= t
    BY <1>1, WindowOf
  <2>2. c \in [count : 0..MaxRequests, windowId : 0..t] /\ c.windowId = t \div Window
    BY <2>1
  <2> QED BY <2>1, <2>2, CountIs
<1>3. c # None
  BY <1>2, SoundIsState DEF Algorithms
<1>4. CurrentAt(a, t, c) = [count |-> c.count, windowId |-> t \div Window]
  BY <1>3, CountIs
<1> QED BY <1>2, <1>4

\* Evaluating a state uses a token of it if there is one to use, and nothing otherwise.
EvaluatedWell(a, t, s, c, e) ==
    /\ SoundAt(a, t, c) /\ CurrentAt(a, t, c) = c /\ SoundAt(a, t, e)
    /\ \A from \in FromsAt(a, t) :
           UsedAt(a, t, e, from) =
               IF AllowedBy(a, c) THEN UsedAt(a, t, s, from) + Window ELSE UsedAt(a, t, s, from)

LEMMA BucketEvaluated ==
    ASSUME NEW a, a = "token_bucket", NEW t \in 0..LimiterTime, NEW s, FineAt(a, t, s),
           NEW c, c = CurrentAt(a, t, s), NEW e, e = EvaluatedAt(a, t, s)
    PROVE  EvaluatedWell(a, t, s, c, e)
<1>1. PICK k : k = Burst * Window
  OBVIOUS
<1>2. k \in Nat /\ t \in Nat /\ MaxRequests \in Nat /\ Window \in Nat
  BY <1>1, Numerals
<1>3. c \in [tokens : 0..(Burst * Window), lastRefill : {t}]
  BY BucketNow
<1>4. SoundAt(a, t, c) /\ CurrentAt(a, t, c) = c
  BY <1>3, BucketStays
<1>5. c.tokens \in 0..k
  BY <1>1, <1>3
<1>6. CASE AllowedBy(a, c)
  <2>1. e = [c EXCEPT !.tokens = c.tokens - Window]
    BY <1>6, BucketIs DEF EvaluatedAt
  <2>2. c.tokens >= Window
    BY <1>6, BucketIs
  <2>3. c.tokens - Window \in 0..k
    BY <1>2, <1>5, <2>2
  <2>4. e \in [tokens : 0..(Burst * Window), lastRefill : {t}] /\ e.tokens = c.tokens - Window
    BY <1>1, <1>3, <2>1, <2>3
  <2>5. SoundAt(a, t, e) /\ CurrentAt(a, t, e) = e
    BY <2>4, BucketStays
  <2>6. ASSUME NEW from \in FromsAt(a, t)
        PROVE  UsedAt(a, t, e, from) = UsedAt(a, t, s, from) + Window
    <3>1. from \in 0..t
      BY <2>6, BucketIs
    <3>2. PICK x : x = (t - from) * MaxRequests
      OBVIOUS
    <3>3. x \in Int
      BY <1>2, <3>1, <3>2
    <3>4. UsedAt(a, t, e, from) = k + x - e.tokens
      BY <1>1, <2>5, <3>2, BucketIs
    <3>5. UsedAt(a, t, s, from) = k + x - c.tokens
      BY <1>1, <3>2, BucketIs
    <3> QED BY <1>2, <1>5, <2>4, <3>3, <3>4, <3>5
  <2> QED BY <1>4, <1>6, <2>5, <2>6 DEF EvaluatedWell
<1>7. CASE ~AllowedBy(a, c)
  <2>1. e = c
    BY <1>7 DEF EvaluatedAt
  <2>2. \A from : UsedAt(a, t, e, from) = UsedAt(a, t, s, from)
    BY <1>4, <2>1, BucketIs
  <2> QED BY <1>4, <1>7, <2>1, <2>2 DEF EvaluatedWell
<1> QED BY <1>6, <1>7

LEMMA LogCharged ==
    ASSUME NEW a, a = "sliding_window", NEW t \in 0..LimiterTime, NEW c, LogNow(t, c), AllowedBy(a, c),
           NEW e, e = [c EXCEPT !.requests = Append(c.requests, t)]
    PROVE  /\ LogNow(t, e)
           /\ \A u \in Int : Since(e.requests, u) =
                                 IF t >= u THEN Since(c.requests, u) + 1 ELSE Since(c.requests, u)
<1>1. t \in Nat /\ MaxRequests \in Nat /\ Window \in Nat /\ Window >= 1
  BY Numerals
<1>2. PICK r, q : r = c.requests /\ q = Append(r, t)
  OBVIOUS
<1>3. /\ r \in Seq(0..t) /\ r \in Seq(Nat) /\ Ascending(r) /\ Len(r) < MaxRequests /\ Len(r) \in Nat
      /\ \A i \in DOMAIN r : r[i] <= t /\ r[i] > t - Window
  BY <1>1, <1>2, LogIs DEF LogNow
<1>4. /\ q \in Seq(Nat) /\ Ascending(q) /\ Len(q) = Len(r) + 1 /\ \A i \in DOMAIN q : q[i] <= t
      /\ \A i \in DOMAIN q : q[i] = t \/ \E j \in DOMAIN r : q[i] = r[j]
  <2>1. r \in Seq(Nat) /\ Ascending(r) /\ t \in Nat
    BY <1>1, <1>3
  <2>2. \A i \in DOMAIN r : r[i] <= t
    BY <1>3
  <2>3. q = Append(r, t)
    BY <1>2
  <2>4. q \in Seq(Nat) /\ Ascending(q) /\ Len(q) = Len(r) + 1
    BY <2>1, <2>2, <2>3, AscendingAppended
  <2>5. \A i \in DOMAIN q : q[i] <= t
    BY <2>1, <2>2, <2>3, AscendingAppended
  <2>6. \A i \in DOMAIN q : q[i] = t \/ \E j \in DOMAIN r : q[i] = r[j]
    BY <2>1, <2>2, <2>3, AscendingAppended
  <2> QED BY <2>4, <2>5, <2>6
<1>5. e = [requests |-> q] /\ e.requests = q
  BY <1>2 DEF LogNow
<1>6. q \in Seq(0..t)
  BY <1>1, <1>2, <1>3
<1>7. \A i \in DOMAIN q : q[i] > t - Window
  <2> SUFFICES ASSUME NEW i \in DOMAIN q PROVE q[i] > t - Window
    OBVIOUS
  <2>1. CASE q[i] = t
    BY <1>1, <2>1
  <2>2. CASE q[i] # t
    <3>1. PICK j \in DOMAIN r : q[i] = r[j]
      BY <1>4, <2>2
    <3> QED BY <1>3, <3>1
  <2> QED BY <2>1, <2>2
<1>8. LogNow(t, e)
  <2>1. Len(q) <= MaxRequests
    BY <1>1, <1>3, <1>4
  <2>2. e \in [requests : Seq(0..t)]
    BY <1>5, <1>6
  <2> QED BY <1>4, <1>5, <1>7, <2>1, <2>2 DEF LogNow
<1>9. \A u \in Int : Since(Append(r, t), u) = IF t >= u THEN Since(r, u) + 1 ELSE Since(r, u)
  BY <1>1, <1>3, SinceAppended
<1> QED BY <1>2, <1>5, <1>8, <1>9

LEMMA LogEvaluated ==
    ASSUME NEW a, a = "sliding_window", NEW t \in 0..LimiterTime, NEW s, FineAt(a, t, s),
           NEW c, c = CurrentAt(a, t, s), NEW e, e = EvaluatedAt(a, t, s)
    PROVE  EvaluatedWell(a, t, s, c, e)
<1>1. t \in Nat /\ MaxRequests \in Nat /\ Window \in Nat /\ Window >= 1
  BY Numerals
<1>2. LogNow(t, c)
  BY LogNowIs
<1>3. SoundAt(a, t, c) /\ CurrentAt(a, t, c) = c
  BY <1>2, LogStays
<1>4. CASE AllowedBy(a, c)
  <2>1. e = [c EXCEPT !.requests = Append(c.requests, t)]
    BY <1>4, LogIs DEF EvaluatedAt
  <2>2. /\ LogNow(t, e)
        /\ \A u \in Int : Since(e.requests, u) =
                              IF t >= u THEN Since(c.requests, u) + 1 ELSE Since(c.requests, u)
    BY <1>2, <1>4, <2>1, LogCharged
  <2>3. SoundAt(a, t, e) /\ CurrentAt(a, t, e) = e
    BY <2>2, LogStays
  <2>4. ASSUME NEW from \in FromsAt(a, t)
        PROVE  UsedAt(a, t, e, from) = UsedAt(a, t, s, from) + Window
    <3>1. from \in Int /\ t >= from
      BY <1>1, <2>4, LogIs
    <3>2. c.requests \in Seq(Nat)
      BY <1>1, <1>2 DEF LogNow
    <3>3. PICK n : n = Since(c.requests, from)
      OBVIOUS
    <3>4. n \in Nat /\ Since(e.requests, from) = n + 1
      BY <2>2, <3>1, <3>2, <3>3, SinceBounds
    <3>5. UsedAt(a, t, e, from) = (n + 1) * Window /\ UsedAt(a, t, s, from) = n * Window
      BY <2>3, <3>3, <3>4, LogIs
    <3>6. (n + 1) * Window = n * Window + Window
      BY <1>1, <3>4
    <3> QED BY <3>5, <3>6
  <2> QED BY <1>3, <1>4, <2>3, <2>4 DEF EvaluatedWell
<1>5. CASE ~AllowedBy(a, c)
  <2>1. e = c
    BY <1>5 DEF EvaluatedAt
  <2>2. \A from : UsedAt(a, t, e, from) = UsedAt(a, t, s, from)
    BY <1>3, <2>1, LogIs
  <2> QED BY <1>3, <1>5, <2>1, <2>2 DEF EvaluatedWell
<1> QED BY <1>4, <1>5

LEMMA CountEvaluated ==
    ASSUME NEW a, a = "fixed_window", NEW t \in 0..LimiterTime, NEW s, FineAt(a, t, s),
           NEW c, c = CurrentAt(a, t, s), NEW e, e = EvaluatedAt(a, t, s)
    PROVE  EvaluatedWell(a, t, s, c, e)
<1>1. t \in Nat /\ MaxRequests \in Nat /\ Window \in Nat /\ Window >= 1
  BY Numerals
<1>2. c \in [count : 0..MaxRequests, windowId : {t \div Window}]
  BY CountNow
<1>3. SoundAt(a, t, c) /\ CurrentAt(a, t, c) = c
  BY <1>2, CountStays
<1>4. PICK n : n = c.count
  OBVIOUS
<1>5. n \in Nat /\ n <= MaxRequests
  BY <1>1, <1>2, <1>4
<1>6. CASE AllowedBy(a, c)
  <2>1. e = [c EXCEPT !.count = c.count + 1]
    BY <1>6, CountIs DEF EvaluatedAt
  <2>2. n + 1 \in 0..MaxRequests
    BY <1>1, <1>4, <1>5, <1>6, CountIs
  <2>3. e \in [count : 0..MaxRequests, windowId : {t \div Window}] /\ e.count = n + 1
    BY <1>2, <1>4, <2>1, <2>2
  <2>4. SoundAt(a, t, e) /\ CurrentAt(a, t, e) = e
    BY <2>3, CountStays
  <2>5. \A from : UsedAt(a, t, e, from) = (n + 1) * Window /\ UsedAt(a, t, s, from) = n * Window
    BY <1>4, <2>3, <2>4, CountIs
  <2>6. (n + 1) * Window = n * Window + Window
    BY <1>1, <1>5
  <2> QED BY <1>3, <1>6, <2>4, <2>5, <2>6 DEF EvaluatedWell
<1>7. CASE ~AllowedBy(a, c)
  <2>1. e = c
    BY <1>7 DEF EvaluatedAt
  <2>2. \A from : UsedAt(a, t, e, from) = UsedAt(a, t, s, from)
    BY <1>3, <2>1, CountIs
  <2> QED BY <1>3, <1>7, <2>1, <2>2 DEF EvaluatedWell
<1> QED BY <1>6, <1>7

\* Evaluated well by each algorithm.
LEMMA Evaluation ==
    ASSUME NEW a \in Algorithms, NEW t \in 0..LimiterTime, NEW s, FineAt(a, t, s),
           NEW c, c = CurrentAt(a, t, s), NEW e, e = EvaluatedAt(a, t, s)
    PROVE  EvaluatedWell(a, t, s, c, e)
BY BucketEvaluated, LogEvaluated, CountEvaluated DEF Algorithms

\* What a state has used is within the limit; a state without a token has used all of
\* it over some interval.
LEMMA UsedBounds ==
    ASSUME NEW a \in Algorithms, NEW t \in 0..LimiterTime, NEW s, FineAt(a, t, s)
    PROVE  /\ \A from \in FromsAt(a, t) :
                  /\ from \in Int /\ from <= t /\ UsedAt(a, t, s, from) \in Nat /\ LimitBy(a, from, t) \in Nat
                  /\ UsedAt(a, t, s, from) <= LimitBy(a, from, t)
           /\ ~AllowedBy(a, CurrentAt(a, t, s)) =>
                  \E from \in FromsAt(a, t) : UsedAt(a, t, s, from) + Window > LimitBy(a, from, t)
<1>1. t \in Nat /\ MaxRequests \in Nat /\ Window \in Nat /\ Window >= 1 /\ MaxRequests * Window \in Nat
  BY Numerals
<1>2. PICK c : c = CurrentAt(a, t, s)
  OBVIOUS
<1>3. CASE a = "token_bucket"
  <2>1. PICK k : k = Burst * Window
    OBVIOUS
  <2>2. k \in Nat
    BY <2>1, Numerals
  <2>3. c.tokens \in 0..k
    BY <1>2, <1>3, <2>1, BucketNow
  <2>4. ASSUME NEW from \in FromsAt(a, t)
        PROVE  /\ from \in Int /\ from <= t /\ UsedAt(a, t, s, from) \in Nat /\ LimitBy(a, from, t) \in Nat
               /\ UsedAt(a, t, s, from) <= LimitBy(a, from, t)
               /\ c.tokens < Window => UsedAt(a, t, s, from) + Window > LimitBy(a, from, t)
    <3>1. from \in 0..t
      BY <1>3, <2>4, BucketIs
    <3>2. PICK x : x = (t - from) * MaxRequests
      OBVIOUS
    <3>3. x \in Nat
      <4>1. t - from \in Nat
        BY <1>1, <3>1
      <4> QED BY <1>1, <3>2, <4>1
    <3>4. UsedAt(a, t, s, from) = k + x - c.tokens /\ LimitBy(a, from, t) = k + x
      BY <1>2, <1>3, <2>1, <3>2, BucketIs
    <3>5. /\ k + x - c.tokens \in Nat /\ k + x \in Nat /\ k + x - c.tokens <= k + x
          /\ c.tokens < Window => k + x - c.tokens + Window > k + x
      BY <1>1, <2>2, <2>3, <3>3
    <3>6. from \in Int /\ from <= t
      BY <1>1, <3>1
    <3> QED BY <3>4, <3>5, <3>6
  <2>5. ~AllowedBy(a, c) => c.tokens < Window
    <3>1. AllowedBy(a, c) <=> c.tokens >= Window
      BY <1>3, BucketIs
    <3> QED BY <1>1, <2>2, <2>3, <3>1
  <2>6. t \in FromsAt(a, t)
    <3>1. FromsAt(a, t) = 0..t
      BY <1>3, BucketIs
    <3> QED BY <1>1, <3>1
  <2> QED BY <1>2, <2>4, <2>5, <2>6
<1>4. CASE a = "sliding_window"
  <2>1. LogNow(t, c)
    BY <1>2, <1>4, LogNowIs
  <2>2. PICK r : r = c.requests
    OBVIOUS
  <2>3. r \in Seq(Nat) /\ Len(r) \in Nat /\ Len(r) <= MaxRequests /\ \A i \in DOMAIN r : r[i] > t - Window /\ r[i] \in Nat
    BY <1>1, <2>1, <2>2 DEF LogNow
  <2>4. ASSUME NEW from \in FromsAt(a, t)
        PROVE  /\ from \in Int /\ from <= t /\ UsedAt(a, t, s, from) \in Nat /\ LimitBy(a, from, t) \in Nat
               /\ UsedAt(a, t, s, from) <= LimitBy(a, from, t)
    <3>1. from \in Int /\ from <= t
      <4>1. FromsAt(a, t) = (t - Window + 1)..t
        BY <1>4, LogIs
      <4> QED BY <1>1, <2>4, <4>1
    <3>2. PICK n : n = Since(r, from)
      OBVIOUS
    <3>3. n \in Nat /\ n <= MaxRequests
      <4>1. n \in Nat /\ n <= Len(r)
        BY <2>3, <3>1, <3>2, SinceBounds
      <4> QED BY <1>1, <2>3, <4>1
    <3>4. UsedAt(a, t, s, from) = n * Window /\ LimitBy(a, from, t) = MaxRequests * Window
      BY <1>2, <1>4, <2>2, <3>2, LogIs
    <3>5. n * Window <= MaxRequests * Window /\ n * Window \in Nat
      BY <1>1, <3>3, Stretched
    <3> QED BY <1>1, <3>1, <3>4, <3>5
  <2>5. ASSUME ~AllowedBy(a, c)
        PROVE  \E from \in FromsAt(a, t) : UsedAt(a, t, s, from) + Window > LimitBy(a, from, t)
    <3>1. PICK from : from = t - Window + 1
      OBVIOUS
    <3>2. from \in FromsAt(a, t) /\ from \in Int
      <4>1. FromsAt(a, t) = (t - Window + 1)..t
        BY <1>4, LogIs
      <4> QED BY <1>1, <3>1, <4>1
    <3>3. \A i \in DOMAIN r : r[i] >= from
      BY <1>1, <2>3, <3>1
    <3>4. Since(r, from) = Len(r)
      BY <2>3, <3>2, <3>3, SinceBounds
    <3>5. Len(r) = MaxRequests
      <4>1. AllowedBy(a, c) <=> Len(c.requests) < MaxRequests
        BY <1>4, LogIs
      <4> QED BY <1>1, <2>2, <2>3, <2>5, <4>1
    <3>6. UsedAt(a, t, s, from) = MaxRequests * Window /\ LimitBy(a, from, t) = MaxRequests * Window
      BY <1>2, <1>4, <2>2, <3>4, <3>5, LogIs
    <3> QED BY <1>1, <3>2, <3>6
  <2> QED BY <1>2, <2>4, <2>5
<1>5. CASE a = "fixed_window"
  <2>1. PICK n : n = c.count
    OBVIOUS
  <2>2. n \in Nat /\ n <= MaxRequests
    BY <1>1, <1>2, <1>5, <2>1, CountNow
  <2>3. \A from : UsedAt(a, t, s, from) = n * Window /\ LimitBy(a, from, t) = MaxRequests * Window
    BY <1>2, <1>5, <2>1, CountIs
  <2>4. n * Window <= MaxRequests * Window /\ n * Window \in Nat
    BY <1>1, <2>2, Stretched
  <2>5. FromsAt(a, t) = {t - (t % Window)} /\ t - (t % Window) \in Int /\ t - (t % Window) <= t
    <3>1. PICK m : m = t % Window
      OBVIOUS
    <3>2. m \in Nat /\ m <= t
      BY <1>1, <3>1, WindowOf
    <3>3. FromsAt(a, t) = {t - (t % Window)}
      BY <1>5, CountIs
    <3> QED BY <1>1, <3>1, <3>2, <3>3
  <2>6. ASSUME ~AllowedBy(a, c) PROVE n = MaxRequests
    <3>1. AllowedBy(a, c) <=> c.count < MaxRequests
      BY <1>5, CountIs
    <3> QED BY <1>1, <2>1, <2>2, <2>6, <3>1
  <2>7. n = MaxRequests => n * Window + Window > MaxRequests * Window
    BY <1>1
  <2> QED BY <1>1, <1>2, <2>3, <2>4, <2>5, <2>6, <2>7
<1> QED BY <1>3, <1>4, <1>5 DEF Algorithms

\* As time passes, a state has used as much or more over an interval that ends later.
LEMMA SameWindow ==
    ASSUME NEW t \in Nat, NEW v, v = t + 1, v % Window # 0
    PROVE  v \div Window = t \div Window
<1>1. Window \in Nat \ {0} /\ Window >= 1 /\ v \in Nat
  BY Numerals
<1>2. PICK d, m, b, k : d = v \div Window /\ m = v % Window /\ b = t \div Window /\ k = t % Window
  OBVIOUS
<1>3. PICK p, q : p = d * Window /\ q = b * Window
  OBVIOUS
<1>4. d \in Nat /\ b \in Nat /\ m \in 1..(Window - 1) /\ k \in 0..(Window - 1) /\ p \in Nat /\ q \in Nat
  <2>1. d \in 0..v /\ m \in 0..(Window - 1)
    BY <1>1, <1>2, WindowOf
  <2>2. b \in 0..t /\ k \in 0..(Window - 1)
    BY <1>1, <1>2, WindowOf
  <2>3. m # 0
    BY <1>2
  <2> QED BY <1>1, <1>3, <2>1, <2>2, <2>3
<1>5. v = p + m /\ t = q + k
  <2>1. v - m = p
    BY <1>1, <1>2, <1>3, WindowOf
  <2>2. t - k = q
    BY <1>1, <1>2, <1>3, WindowOf
  <2> QED BY <1>1, <1>4, <2>1, <2>2
<1>6. p < q + Window /\ q < p + Window
  BY <1>1, <1>4, <1>5
<1>7. ~(d < b)
  <2> SUFFICES ASSUME d < b PROVE FALSE
    OBVIOUS
  <2>1. (d + 1) * Window <= b * Window
    BY <1>1, <1>4, Stretched
  <2>2. (d + 1) * Window = p + Window
    BY <1>1, <1>3, <1>4
  <2> QED BY <1>1, <1>3, <1>4, <1>6, <2>1, <2>2
<1>8. ~(b < d)
  <2> SUFFICES ASSUME b < d PROVE FALSE
    OBVIOUS
  <2>1. (b + 1) * Window <= d * Window
    BY <1>1, <1>4, Stretched
  <2>2. (b + 1) * Window = q + Window
    BY <1>1, <1>3, <1>4
  <2> QED BY <1>1, <1>3, <1>4, <1>6, <2>1, <2>2
<1> QED BY <1>2, <1>4, <1>7, <1>8

LEMMA BucketLater ==
    ASSUME NEW a, a = "token_bucket", NEW t \in 0..LimiterTime, NEW v \in 0..LimiterTime, v = t + 1,
           NEW s, FineAt(a, t, s), NEW from \in 0..t
    PROVE  UsedAt(a, t, s, from) <= UsedAt(a, v, s, from)
<1>1. PICK k, n, x, y : k = Burst * Window /\ n = MaxRequests /\ x = (t - from) * n /\ y = (v - from) * n
  OBVIOUS
<1>2. k \in Nat /\ t \in Nat /\ v \in Nat /\ n \in Nat
  BY <1>1, Numerals
<1>3. x \in Nat /\ y = x + n
  <2>1. t - from \in Nat /\ v - from = (t - from) + 1
    BY <1>2
  <2>2. PICK d : d = t - from
    OBVIOUS
  <2>3. (d + 1) * n = d * n + n /\ d * n \in Nat
    BY <1>2, <2>1, <2>2
  <2> QED BY <1>1, <2>1, <2>2, <2>3
<1>4. PICK c, e : c = CurrentAt(a, t, s) /\ e = CurrentAt(a, v, s)
  OBVIOUS
<1>5. UsedAt(a, t, s, from) = k + x - c.tokens /\ UsedAt(a, v, s, from) = k + y - e.tokens
  BY <1>1, <1>4, BucketIs
<1>6. c.tokens \in 0..k /\ e.tokens \in Int /\ e.tokens <= c.tokens + n
  <2>1. c.tokens \in 0..k
    BY <1>1, <1>4, BucketNow
  <2>2. CASE s = None
    <3>1. c.tokens = k /\ e.tokens = k
      BY <1>1, <1>4, <2>2, BucketIs
    <3> QED BY <1>2, <2>1, <3>1
  <2>3. CASE s # None
    <3>1. s \in [tokens : 0..k, lastRefill : 0..t]
      BY <1>1, <2>3, BucketIs DEF FineAt
    <3>2. PICK o, l : o = s.tokens /\ l = s.lastRefill
      OBVIOUS
    <3>3. o \in 0..k /\ l \in 0..t
      BY <3>1, <3>2
    <3>4. PICK z, w : z = (t - l) * n /\ w = (v - l) * n
      OBVIOUS
    <3>5. z \in Nat /\ w = z + n
      <4>1. PICK d : d = t - l
        OBVIOUS
      <4>2. d \in Nat /\ v - l = d + 1
        BY <1>2, <3>3, <4>1
      <4>3. (d + 1) * n = d * n + n /\ d * n \in Nat
        BY <1>2, <4>2
      <4> QED BY <3>4, <4>1, <4>2, <4>3
    <3>6. c.tokens = Smaller(k, o + z) /\ e.tokens = Smaller(k, o + w)
      BY <1>1, <1>4, <2>3, <3>2, <3>4, BucketIs
    <3>7. Smaller(k, o + w) \in Int /\ Smaller(k, o + w) <= Smaller(k, o + z) + n
      BY <1>2, <3>3, <3>5 DEF Smaller
    <3> QED BY <2>1, <3>6, <3>7
  <2> QED BY <2>2, <2>3
<1> QED BY <1>2, <1>3, <1>5, <1>6

LEMMA LogLater ==
    ASSUME NEW a, a = "sliding_window", NEW t \in 0..LimiterTime, NEW v \in 0..LimiterTime, v = t + 1,
           NEW s, FineAt(a, t, s), FineAt(a, v, s), NEW from \in Int, from > v - Window
    PROVE  UsedAt(a, t, s, from) = UsedAt(a, v, s, from)
<1>1. t \in Nat /\ v \in Nat /\ Window \in Nat /\ from > t - Window
  BY Numerals
<1>2. PICK c, e : c = CurrentAt(a, t, s) /\ e = CurrentAt(a, v, s)
  OBVIOUS
<1>3. CASE s = None
  <2>1. c = e
    BY <1>2, <1>3, LogIs
  <2> QED BY <1>2, <2>1, LogIs
<1>4. CASE s # None
  <2>1. Since(c.requests, from) = Since(s.requests, from)
    BY <1>1, <1>2, <1>4, LogNowIs
  <2>2. Since(e.requests, from) = Since(s.requests, from)
    BY <1>1, <1>2, <1>4, LogNowIs
  <2> QED BY <1>2, <2>1, <2>2, LogIs
<1> QED BY <1>3, <1>4

LEMMA SoundLater ==
    ASSUME NEW a \in Algorithms, NEW t \in Nat, NEW v, v = t + 1, NEW s, FineAt(a, t, s)
    PROVE  FineAt(a, v, s)
<1> SUFFICES ASSUME s # None, SoundAt(a, t, s) PROVE SoundAt(a, v, s)
  BY DEF FineAt
<1>1. 0..t \subseteq 0..v /\ v \in Nat
  OBVIOUS
<1>2. CASE a = "token_bucket"
  <2>1. s \in [tokens : 0..(Burst * Window), lastRefill : 0..v]
    BY <1>1, <1>2, BucketIs
  <2> QED BY <1>2, <2>1, BucketIs
<1>3. CASE a = "sliding_window"
  <2>1. s \in [requests : Seq(0..t)] /\ Ascending(s.requests) /\ Len(s.requests) <= MaxRequests
    BY <1>3, LogIs
  <2>2. s \in [requests : Seq(0..v)]
    BY <1>1, <2>1
  <2> QED BY <1>3, <2>1, <2>2, LogIs
<1>4. CASE a = "fixed_window"
  <2>1. s \in [count : 0..MaxRequests, windowId : 0..t] /\ s.windowId * Window <= t
    BY <1>4, CountIs
  <2>2. s \in [count : 0..MaxRequests, windowId : 0..v]
    BY <1>1, <2>1
  <2>3. s.windowId * Window <= v
    BY <1>1, <2>1, Numerals
  <2> QED BY <1>4, <2>2, <2>3, CountIs
<1> QED BY <1>2, <1>3, <1>4 DEF Algorithms

\* What each algorithm makes of a state as time passes, together.
LEMMA TimePasses ==
    ASSUME NEW a \in Algorithms, NEW t \in 0..LimiterTime, NEW v \in 0..LimiterTime, v = t + 1,
           NEW s, FineAt(a, t, s)
    PROVE  /\ FineAt(a, v, s)
           /\ \A from \in FromsAt(a, v) :
                  from = v \/ (from \in FromsAt(a, t) /\ UsedAt(a, t, s, from) <= UsedAt(a, v, s, from))
<1>1. t \in Nat /\ v \in Nat /\ Window \in Nat /\ Window >= 1
  BY Numerals
<1>2. FineAt(a, v, s)
  BY <1>1, SoundLater
<1>3. SUFFICES ASSUME NEW from \in FromsAt(a, v), from # v
               PROVE  from \in FromsAt(a, t) /\ UsedAt(a, t, s, from) <= UsedAt(a, v, s, from)
  BY <1>2
<1>4. CASE a = "token_bucket"
  <2>1. from \in 0..t
    <3>1. FromsAt(a, v) = 0..v
      BY <1>4, BucketIs
    <3> QED BY <1>1, <1>3, <3>1
  <2> QED BY <1>4, <2>1, BucketIs, BucketLater
<1>5. CASE a = "sliding_window"
  <2>1. from \in (v - Window + 1)..v
    BY <1>3, <1>5, LogIs
  <2>2. from \in Int /\ from > v - Window /\ from \in (t - Window + 1)..t
    BY <1>1, <1>3, <2>1
  <2>3. UsedAt(a, t, s, from) = UsedAt(a, v, s, from)
    BY <1>2, <1>5, <2>2, LogLater
  <2>4. UsedAt(a, t, s, from) \in Nat
    BY <1>5, <2>2, LogIs, UsedBounds
  <2>5. from \in FromsAt(a, t)
    BY <1>5, <2>2, LogIs
  <2> QED BY <2>3, <2>4, <2>5
<1>6. CASE a = "fixed_window"
  <2>1. from = v - (v % Window)
    <3>1. FromsAt(a, v) = {v - (v % Window)}
      BY <1>6, CountIs
    <3> QED BY <1>3, <3>1
  <2>2. v % Window # 0
    BY <1>1, <1>3, <2>1
  <2>3. v \div Window = t \div Window
    BY <1>1, <2>2, SameWindow
  <2>4. from = t - (t % Window)
    <3>1. v - (v % Window) = (v \div Window) * Window
      BY <1>1, WindowOf
    <3>2. t - (t % Window) = (t \div Window) * Window
      BY <1>1, WindowOf
    <3> QED BY <2>1, <2>3, <3>1, <3>2
  <2>5. UsedAt(a, t, s, from) = UsedAt(a, v, s, from)
    <3>1. CurrentAt(a, t, s) = CurrentAt(a, v, s)
      <4>1. CurrentAt(a, t, s) = [count |-> IF s = None THEN 0 ELSE IF s.windowId = t \div Window THEN s.count ELSE 0,
                                  windowId |-> t \div Window]
        BY <1>6, CountIs
      <4>2. CurrentAt(a, v, s) = [count |-> IF s = None THEN 0 ELSE IF s.windowId = v \div Window THEN s.count ELSE 0,
                                  windowId |-> v \div Window]
        BY <1>6, CountIs
      <4> QED BY <2>3, <4>1, <4>2
    <3>2. UsedAt(a, t, s, from) = CurrentAt(a, t, s).count * Window
      BY <1>6, CountIs
    <3>3. UsedAt(a, v, s, from) = CurrentAt(a, v, s).count * Window
      BY <1>6, CountIs
    <3> QED BY <3>1, <3>2, <3>3
  <2>6. from \in FromsAt(a, t)
    BY <1>6, <2>4, CountIs
  <2>7. UsedAt(a, t, s, from) \in Nat
    BY <2>6, UsedBounds
  <2> QED BY <2>5, <2>6, <2>7
<1> QED BY <1>4, <1>5, <1>6 DEF Algorithms

\* A state that has counted nothing that was not granted, at the times g: what is missing
\* from it, or from the time at which it was last full, was.
HonestBy(a, g, s) ==
    CASE a = "token_bucket"   ->
            \E from \in 0..s.lastRefill :
                Burst * Window + (s.lastRefill - from) * MaxRequests <= s.tokens + Since(g, from) * Window
      [] a = "sliding_window" -> \A from \in Int : Since(s.requests, from) <= Since(g, from)
      [] a = "fixed_window"   -> s.count <= Since(g, s.windowId * Window)

LEMMA HonestIs ==
    ASSUME NEW a, NEW g, NEW s
    PROVE  /\ a = "token_bucket" => (HonestBy(a, g, s) <=>
                  \E from \in 0..s.lastRefill :
                      Burst * Window + (s.lastRefill - from) * MaxRequests <= s.tokens + Since(g, from) * Window)
           /\ a = "sliding_window" => (HonestBy(a, g, s) <=>
                  \A from \in Int : Since(s.requests, from) <= Since(g, from))
           /\ a = "fixed_window" => (HonestBy(a, g, s) <=> s.count <= Since(g, s.windowId * Window))
BY DEF HonestBy

\* It stays so when more is granted,
LEMMA HonestStays ==
    ASSUME NEW a \in Algorithms, NEW t \in 0..LimiterTime, NEW s, SoundAt(a, t, s),
           NEW g \in Seq(Nat), HonestBy(a, g, s), NEW x \in Nat, NEW h, h = Append(g, x)
    PROVE  HonestBy(a, h, s)
<1>1. t \in Nat /\ Window \in Nat /\ MaxRequests \in Nat /\ Burst * Window \in Nat
  BY Numerals
<1>2. ASSUME NEW u \in Int PROVE Since(g, u) \in Nat /\ Since(h, u) \in Nat /\ Since(g, u) <= Since(h, u)
  <2>1. Since(g, u) \in Nat
    BY SinceBounds
  <2>2. Since(h, u) = IF x >= u THEN Since(g, u) + 1 ELSE Since(g, u)
    BY SinceAppended
  <2> QED BY <2>1, <2>2
<1>3. CASE a = "token_bucket"
  <2>1. s.tokens \in Nat /\ s.lastRefill \in Nat
    BY <1>1, <1>3, BucketIs
  <2>2. PICK from \in 0..s.lastRefill :
          Burst * Window + (s.lastRefill - from) * MaxRequests <= s.tokens + Since(g, from) * Window
    BY <1>3, HonestIs
  <2>3. from \in Int /\ s.lastRefill - from \in Nat
    BY <2>1
  <2>4. Since(g, from) * Window <= Since(h, from) * Window
    <3>1. Since(g, from) \in Nat /\ Since(h, from) \in Nat /\ Since(g, from) <= Since(h, from)
      BY <1>2, <2>3
    <3>2. PICK one, two : one = Since(g, from) /\ two = Since(h, from)
      OBVIOUS
    <3>3. one \in Int /\ two \in Int /\ one <= two
      BY <3>1, <3>2
    <3>4. one * Window <= two * Window
      BY <1>1, <3>3, Stretched
    <3> QED BY <3>2, <3>4
  <2>5. PICK b, x1, y1 : /\ b = Burst * Window + (s.lastRefill - from) * MaxRequests
                         /\ x1 = Since(g, from) * Window /\ y1 = Since(h, from) * Window
    OBVIOUS
  <2>6. b \in Int /\ x1 \in Int /\ y1 \in Int
    <3>1. Since(g, from) \in Nat /\ Since(h, from) \in Nat
      BY <1>2, <2>3
    <3>2. x1 \in Int /\ y1 \in Int
      BY <1>1, <2>5, <3>1
    <3>3. b \in Int
      BY <1>1, <2>3, <2>5
    <3> QED BY <3>2, <3>3
  <2>7. b <= s.tokens + y1
    BY <2>1, <2>2, <2>4, <2>5, <2>6
  <2> QED BY <1>3, <2>5, <2>7, HonestIs
<1>4. CASE a = "sliding_window"
  <2>1. s.requests \in Seq(Nat)
    BY <1>1, <1>4, LogIs
  <2>2. ASSUME NEW from \in Int PROVE Since(s.requests, from) <= Since(h, from)
    <3>1. Since(s.requests, from) \in Nat
      BY <2>1, SinceBounds
    <3>2. Since(s.requests, from) <= Since(g, from)
      BY <1>4, HonestIs
    <3> QED BY <1>2, <3>1, <3>2
  <2> QED BY <1>4, <2>2, HonestIs
<1>5. CASE a = "fixed_window"
  <2>1. s.count \in Nat /\ s.windowId \in Nat
    BY <1>1, <1>5, CountIs
  <2>2. s.count <= Since(g, s.windowId * Window)
    BY <1>5, HonestIs
  <2>3. s.windowId * Window \in Int
    BY <1>1, <2>1
  <2>4. s.count <= Since(h, s.windowId * Window)
    <3>1. PICK u : u = s.windowId * Window
      OBVIOUS
    <3>2. Since(g, u) \in Nat /\ Since(h, u) \in Nat /\ Since(g, u) <= Since(h, u)
      BY <1>2, <2>3, <3>1
    <3> QED BY <2>1, <2>2, <3>1, <3>2
  <2> QED BY <1>5, <2>4, HonestIs
<1> QED BY <1>3, <1>4, <1>5 DEF Algorithms

\* as time passes,
LEMMA HonestNow ==
    ASSUME NEW a \in Algorithms, NEW t \in 0..LimiterTime, NEW s, FineAt(a, t, s),
           NEW g \in Seq(Nat), s # None => HonestBy(a, g, s), NEW c, c = CurrentAt(a, t, s)
    PROVE  HonestBy(a, g, c)
<1>1. t \in Nat /\ Window \in Nat /\ MaxRequests \in Nat /\ Burst * Window \in Nat
  BY Numerals
<1>2. \A u \in Int : Since(g, u) \in Nat
  BY SinceBounds
<1>3. CASE a = "token_bucket"
  <2>1. PICK k, n : k = Burst * Window /\ n = MaxRequests
    OBVIOUS
  <2>2. c \in [tokens : 0..k, lastRefill : {t}] /\ c.lastRefill = t
    BY <1>3, <2>1, BucketNow
  <2>3. CASE c.tokens = k
    <3>1. (c.lastRefill - t) * MaxRequests = 0 /\ t \in 0..c.lastRefill
      BY <1>1, <2>2
    <3>2. PICK y : y = Since(g, t) * Window
      OBVIOUS
    <3>3. y \in Nat
      <4>1. Since(g, t) \in Nat
        <5>1. t \in Int
          BY <1>1
        <5> QED BY <5>1, SinceBounds
      <4> QED BY <1>1, <3>2, <4>1
    <3>4. k + 0 <= c.tokens + y
      BY <1>1, <2>1, <2>3, <3>3
    <3> QED BY <1>3, <2>1, <3>1, <3>2, <3>4, HonestIs
  <2>4. CASE c.tokens # k
    <3>1. s # None /\ c.tokens = Smaller(k, s.tokens + (t - s.lastRefill) * n)
      BY <1>3, <2>1, <2>4, BucketIs
    <3>2. s \in [tokens : 0..k, lastRefill : 0..t]
      BY <1>3, <2>1, <3>1, BucketIs DEF FineAt
    <3>3. PICK o, l : o = s.tokens /\ l = s.lastRefill
      OBVIOUS
    <3>4. o \in 0..k /\ l \in 0..t /\ l \in Nat
      BY <1>1, <3>2, <3>3
    <3>5. PICK from \in 0..l : k + (l - from) * n <= o + Since(g, from) * Window
      BY <1>3, <2>1, <3>1, <3>3, HonestIs
    <3>6. PICK z, w, v, y : z = (t - l) * n /\ w = (l - from) * n /\ v = (t - from) * n /\ y = Since(g, from) * Window
      OBVIOUS
    <3>7. z \in Int /\ w \in Int /\ v \in Int /\ y \in Int /\ v = z + w
      <4>1. from \in Nat
        BY <3>4
      <4>2. y \in Int
        BY <1>1, <1>2, <3>6, <4>1
      <4>3. PICK d, b : d = t - l /\ b = l - from
        OBVIOUS
      <4>4. d \in Int /\ b \in Int /\ t - from = d + b
        BY <1>1, <3>4, <4>1, <4>3
      <4>5. (d + b) * n = d * n + b * n /\ d * n \in Int /\ b * n \in Int
        BY <1>1, <2>1, <4>4
      <4> QED BY <3>6, <4>2, <4>3, <4>4, <4>5
    <3>8. c.tokens = o + z
      BY <1>1, <2>1, <2>4, <3>1, <3>3, <3>4, <3>6, <3>7 DEF Smaller
    <3>9. k + v <= c.tokens + y
      BY <1>1, <2>1, <3>4, <3>5, <3>6, <3>7, <3>8
    <3>10. from \in 0..c.lastRefill
      BY <1>1, <2>2, <3>4
    <3> QED BY <1>3, <2>1, <2>2, <3>6, <3>9, <3>10, HonestIs
  <2> QED BY <2>3, <2>4
<1>4. CASE a = "sliding_window"
  <2>1. LogNow(t, c) /\ (s # None => \A u \in Int : u > t - Window => Since(c.requests, u) = Since(s.requests, u))
    BY <1>4, LogNowIs
  <2>2. PICK r : r = c.requests
    OBVIOUS
  <2>3. r \in Seq(Nat) /\ \A i \in DOMAIN r : r[i] > t - Window /\ r[i] \in Nat
    BY <1>1, <2>1, <2>2 DEF LogNow
  <2>4. ASSUME NEW from \in Int PROVE Since(r, from) <= Since(g, from)
    <3>1. CASE s = None
      <4>1. r = <<>>
        BY <1>4, <2>2, <3>1, LogIs
      <4>2. Since(r, from) = 0
        <5>1. \A i \in DOMAIN r : r[i] < from
          BY <4>1
        <5> QED BY <2>3, <5>1, SinceBounds
      <4> QED BY <1>2, <4>2
    <3>2. CASE s # None
      <4>1. \A u \in Int : u > t - Window => Since(r, u) <= Since(g, u)
        <5>1. \A u \in Int : Since(s.requests, u) <= Since(g, u)
          BY <1>4, <3>2, HonestIs
        <5> QED BY <2>1, <2>2, <3>2, <5>1
      <4>2. CASE from > t - Window
        BY <4>1, <4>2
      <4>3. CASE ~(from > t - Window)
        <5>1. PICK u : u = t - Window + 1
          OBVIOUS
        <5>2. u \in Int /\ u > t - Window /\ from <= u
          BY <1>1, <4>3, <5>1
        <5>3. \A i \in DOMAIN r : r[i] >= u /\ r[i] >= from
          BY <1>1, <2>3, <5>1, <5>2
        <5>4. Since(r, u) = Len(r) /\ Since(r, from) = Len(r) /\ Since(r, u) \in Nat
          BY <2>3, <5>2, <5>3, SinceBounds
        <5>5. Since(g, u) <= Since(g, from)
          BY <5>2, SinceEarlier
        <5>6. Since(r, u) <= Since(g, u)
          BY <4>1, <5>2
        <5> QED BY <1>2, <5>2, <5>4, <5>5, <5>6
      <4> QED BY <4>2, <4>3
    <3> QED BY <3>1, <3>2
  <2> QED BY <1>4, <2>2, <2>4, HonestIs
<1>5. CASE a = "fixed_window"
  <2>1. c = [count |-> IF s = None THEN 0 ELSE IF s.windowId = t \div Window THEN s.count ELSE 0,
             windowId |-> t \div Window]
    BY <1>5, CountIs
  <2>2. CASE s = None \/ s.windowId # t \div Window
    <3>1. c.count = 0 /\ c.windowId = t \div Window
      BY <2>1, <2>2
    <3>2. c.windowId * Window \in Int
      <4>1. t \div Window \in Nat
        BY <1>1, WindowOf
      <4> QED BY <1>1, <3>1, <4>1
    <3>3. 0 <= Since(g, c.windowId * Window)
      <4>1. PICK u : u = c.windowId * Window
        OBVIOUS
      <4>2. Since(g, u) \in Nat
        BY <3>2, <4>1, SinceBounds
      <4> QED BY <4>1, <4>2
    <3> QED BY <1>5, <3>1, <3>3, HonestIs
  <2>3. CASE s # None /\ s.windowId = t \div Window
    <3>1. c.count = s.count /\ c.windowId = s.windowId
      BY <2>1, <2>3
    <3>2. s.count <= Since(g, s.windowId * Window)
      BY <1>5, <2>3, HonestIs
    <3> QED BY <1>5, <3>1, <3>2, HonestIs
  <2> QED BY <2>2, <2>3
<1> QED BY <1>3, <1>4, <1>5 DEF Algorithms

\* and when it is charged.
LEMMA HonestEvaluated ==
    ASSUME NEW a \in Algorithms, NEW t \in 0..LimiterTime, NEW s, FineAt(a, t, s),
           NEW g \in Seq(Nat), s # None => HonestBy(a, g, s), NEW e, e = EvaluatedAt(a, t, s),
           NEW h, h = IF AllowedBy(a, CurrentAt(a, t, s)) THEN Append(g, t) ELSE g
    PROVE  HonestBy(a, h, e)
<1>1. t \in Nat /\ Window \in Nat /\ MaxRequests \in Nat /\ Burst * Window \in Nat
  BY Numerals
<1>2. PICK c : c = CurrentAt(a, t, s)
  OBVIOUS
<1>3. HonestBy(a, g, c)
  BY <1>2, HonestNow
<1>4. CASE ~AllowedBy(a, c)
  BY <1>2, <1>3, <1>4 DEF EvaluatedAt
<1>5. CASE AllowedBy(a, c)
  <2>1. h = Append(g, t) /\ e = ChargedAt(a, t, c)
    BY <1>2, <1>5 DEF EvaluatedAt
  <2>2. \A u \in Int : /\ Since(g, u) \in Nat
                       /\ Since(h, u) = IF t >= u THEN Since(g, u) + 1 ELSE Since(g, u)
    <3>1. ASSUME NEW u \in Int PROVE Since(h, u) = IF t >= u THEN Since(g, u) + 1 ELSE Since(g, u)
      <4>1. Since(Append(g, t), u) = IF t >= u THEN Since(g, u) + 1 ELSE Since(g, u)
        BY <1>1, SinceAppended
      <4> QED BY <2>1, <4>1
    <3>2. \A u \in Int : Since(g, u) \in Nat
      BY SinceBounds
    <3> QED BY <3>1, <3>2
  <2>3. CASE a = "token_bucket"
    <3>1. c \in [tokens : 0..(Burst * Window), lastRefill : {t}]
      BY <1>2, <2>3, BucketNow
    <3>2. e = [c EXCEPT !.tokens = c.tokens - Window]
      BY <2>1, <2>3, BucketIs
    <3>3. e.lastRefill = t /\ e.tokens = c.tokens - Window /\ c.lastRefill = t /\ c.tokens \in Nat
      BY <1>1, <3>1, <3>2
    <3>4. PICK from \in 0..t :
            Burst * Window + (t - from) * MaxRequests <= c.tokens + Since(g, from) * Window
      BY <1>3, <2>3, <3>3, HonestIs
    <3>5. from \in Int /\ t >= from
      BY <1>1
    <3>6. PICK n, b : n = Since(g, from) /\ b = Burst * Window + (t - from) * MaxRequests
      OBVIOUS
    <3>7. n \in Nat /\ Since(h, from) = n + 1
      BY <2>2, <3>5, <3>6
    <3>8. (n + 1) * Window = n * Window + Window /\ n * Window \in Int
      BY <1>1, <3>7
    <3>9. b \in Int
      BY <1>1, <3>5, <3>6
    <3>10. b <= e.tokens + Since(h, from) * Window
      <4>1. PICK y : y = n * Window
        OBVIOUS
      <4>2. b <= c.tokens + y /\ y \in Int
        BY <3>4, <3>6, <3>8, <4>1
      <4>3. b <= c.tokens - Window + (y + Window)
        BY <1>1, <3>3, <3>9, <4>2
      <4> QED BY <3>3, <3>7, <3>8, <4>1, <4>3
    <3> QED BY <2>3, <3>3, <3>6, <3>10, HonestIs
  <2>4. CASE a = "sliding_window"
    <3>1. LogNow(t, c)
      BY <1>2, <2>4, LogNowIs
    <3>2. e = [c EXCEPT !.requests = Append(c.requests, t)]
      BY <2>1, <2>4, LogIs
    <3>3. \A u \in Int : Since(e.requests, u) =
                             IF t >= u THEN Since(c.requests, u) + 1 ELSE Since(c.requests, u)
      BY <1>5, <2>4, <3>1, <3>2, LogCharged
    <3>4. c.requests \in Seq(Nat)
      BY <1>1, <3>1 DEF LogNow
    <3>5. ASSUME NEW u \in Int PROVE Since(e.requests, u) <= Since(h, u)
      <4>1. Since(c.requests, u) \in Nat
        BY <3>4, SinceBounds
      <4>2. Since(c.requests, u) <= Since(g, u)
        BY <1>3, <2>4, HonestIs
      <4>3. Since(g, u) \in Nat /\ Since(h, u) = IF t >= u THEN Since(g, u) + 1 ELSE Since(g, u)
        BY <2>2
      <4>4. Since(e.requests, u) = IF t >= u THEN Since(c.requests, u) + 1 ELSE Since(c.requests, u)
        BY <3>3
      <4> QED BY <1>1, <4>1, <4>2, <4>3, <4>4
    <3> QED BY <2>4, <3>5, HonestIs
  <2>5. CASE a = "fixed_window"
    <3>1. c \in [count : 0..MaxRequests, windowId : {t \div Window}]
      BY <1>2, <2>5, CountNow
    <3>2. e = [c EXCEPT !.count = c.count + 1]
      BY <2>1, <2>5, CountIs
    <3>3. e.count = c.count + 1 /\ e.windowId = c.windowId /\ c.windowId = t \div Window /\ c.count \in Nat
      BY <1>1, <3>1, <3>2
    <3>4. c.count <= Since(g, c.windowId * Window)
      BY <1>3, <2>5, HonestIs
    <3>5. PICK u : u = c.windowId * Window
      OBVIOUS
    <3>6. u \in Int /\ t >= u
      <4>1. t \div Window \in Nat /\ (t \div Window) * Window <= t
        BY <1>1, WindowOf
      <4> QED BY <1>1, <3>3, <3>5, <4>1
    <3>7. e.count <= Since(h, u)
      <4>1. Since(g, u) \in Nat /\ Since(h, u) = Since(g, u) + 1
        BY <2>2, <3>6
      <4> QED BY <3>3, <3>4, <3>5, <4>1
    <3> QED BY <2>5, <3>3, <3>5, <3>7, HonestIs
  <2> QED BY <2>3, <2>4, <2>5 DEF Algorithms
<1> QED BY <1>4, <1>5

\* The intervals that the algorithm speaks of and that end then, by their beginnings; a
\* state that refuses has some of them full.
StartsAt(a, t) ==
    CASE a = "token_bucket"   -> 0..t
      [] a = "sliding_window" -> {t - Window + 1}
      [] a = "fixed_window"   -> {t - (t % Window)}

LEMMA StartsAre ==
    ASSUME NEW a \in Algorithms, NEW t \in Nat
    PROVE  StartsAt(a, t) \subseteq FromsAt(a, t)
<1>1. Window \in Nat /\ Window >= 1
  BY Numerals
<1>2. CASE a = "token_bucket"
  BY <1>2, BucketIs DEF StartsAt
<1>3. CASE a = "sliding_window"
  <2>1. StartsAt(a, t) = {t - Window + 1}
    BY <1>3 DEF StartsAt
  <2>2. FromsAt(a, t) = (t - Window + 1)..t
    BY <1>3, LogIs
  <2>3. t - Window + 1 \in (t - Window + 1)..t
    BY <1>1
  <2> QED BY <2>1, <2>2, <2>3
<1>4. CASE a = "fixed_window"
  BY <1>4, CountIs DEF StartsAt
<1> QED BY <1>2, <1>3, <1>4 DEF Algorithms

\* One that is honest and refuses proves that the limit was reached over one of them.
LEMMA HonestRefusal ==
    ASSUME NEW a \in Algorithms, NEW t \in 0..LimiterTime, NEW s, FineAt(a, t, s),
           NEW g \in Seq(Nat), s # None => HonestBy(a, g, s), ~AllowedBy(a, CurrentAt(a, t, s))
    PROVE  \E from \in StartsAt(a, t) : (Since(g, from) + 1) * Window > LimitBy(a, from, t)
<1>1. /\ t \in Nat /\ Window \in Nat /\ Window >= 1 /\ MaxRequests \in Nat /\ Burst * Window \in Nat
      /\ MaxRequests * Window \in Nat
  BY Numerals
<1>2. PICK c : c = CurrentAt(a, t, s)
  OBVIOUS
<1>3. HonestBy(a, g, c)
  BY <1>2, HonestNow
<1>4. \A u \in Int : Since(g, u) \in Nat
  BY SinceBounds
<1>5. CASE a = "token_bucket"
  <2>1. c \in [tokens : 0..(Burst * Window), lastRefill : {t}]
    BY <1>2, <1>5, BucketNow
  <2>2. c.tokens \in Nat /\ c.lastRefill = t
    BY <1>1, <2>1
  <2>3. c.tokens < Window
    BY <1>1, <1>2, <1>5, <2>2, BucketIs
  <2>4. PICK from \in 0..t :
          Burst * Window + (t - from) * MaxRequests <= c.tokens + Since(g, from) * Window
    BY <1>3, <1>5, <2>2, HonestIs
  <2>5. PICK n, b, y : n = Since(g, from) /\ b = Burst * Window + (t - from) * MaxRequests /\ y = n * Window
    OBVIOUS
  <2>6. from \in Int /\ n \in Nat
    BY <1>1, <1>4, <2>5
  <2>7. (n + 1) * Window = y + Window /\ y \in Int
    BY <1>1, <2>5, <2>6
  <2>8. b \in Int /\ b <= c.tokens + y
    BY <1>1, <2>4, <2>5, <2>6
  <2>9. y + Window > b
    BY <1>1, <2>2, <2>3, <2>7, <2>8
  <2>10. from \in StartsAt(a, t) /\ LimitBy(a, from, t) = b
    BY <1>5, <2>5, BucketIs DEF StartsAt
  <2> QED BY <2>5, <2>7, <2>9, <2>10
<1>6. CASE a = "sliding_window"
  <2>1. LogNow(t, c)
    BY <1>2, <1>6, LogNowIs
  <2>2. PICK r, from : r = c.requests /\ from = t - Window + 1
    OBVIOUS
  <2>3. r \in Seq(Nat) /\ Len(r) \in Nat /\ Len(r) <= MaxRequests /\ \A i \in DOMAIN r : r[i] > t - Window /\ r[i] \in Nat
    BY <1>1, <2>1, <2>2 DEF LogNow
  <2>4. from \in Int /\ \A i \in DOMAIN r : r[i] >= from
    BY <1>1, <2>2, <2>3
  <2>5. Since(r, from) = Len(r)
    BY <2>3, <2>4, SinceBounds
  <2>6. Len(r) = MaxRequests
    <3>1. AllowedBy(a, c) <=> Len(c.requests) < MaxRequests
      BY <1>6, LogIs
    <3> QED BY <1>1, <1>2, <2>2, <2>3, <3>1
  <2>7. MaxRequests <= Since(g, from)
    BY <1>3, <1>6, <2>2, <2>4, <2>5, <2>6, HonestIs
  <2>8. PICK n : n = Since(g, from)
    OBVIOUS
  <2>9. n \in Nat /\ MaxRequests * Window <= n * Window /\ (n + 1) * Window = n * Window + Window
        /\ n * Window \in Int
    <3>1. n \in Nat
      BY <1>4, <2>4, <2>8
    <3>2. MaxRequests \in Int /\ n \in Int /\ MaxRequests <= n
      BY <1>1, <2>7, <2>8, <3>1
    <3>3. MaxRequests * Window <= n * Window
      BY <1>1, <3>2, Stretched
    <3> QED BY <1>1, <3>1, <3>3
  <2>10. from \in StartsAt(a, t) /\ LimitBy(a, from, t) = MaxRequests * Window
    BY <1>6, <2>2, LogIs DEF StartsAt
  <2>11. (n + 1) * Window > MaxRequests * Window
    BY <1>1, <2>9
  <2> QED BY <2>8, <2>10, <2>11
<1>7. CASE a = "fixed_window"
  <2>1. c \in [count : 0..MaxRequests, windowId : {t \div Window}]
    BY <1>2, <1>7, CountNow
  <2>2. c.count = MaxRequests /\ c.windowId = t \div Window
    <3>1. AllowedBy(a, c) <=> c.count < MaxRequests
      BY <1>7, CountIs
    <3> QED BY <1>1, <1>2, <2>1, <3>1
  <2>3. PICK from : from = t - (t % Window)
    OBVIOUS
  <2>4. from = (t \div Window) * Window /\ from \in Int
    <3>1. t \div Window \in Nat
      BY <1>1, WindowOf
    <3> QED BY <1>1, <2>3, <3>1, WindowOf
  <2>5. PICK n : n = Since(g, from)
    OBVIOUS
  <2>6. n \in Nat /\ MaxRequests <= n
    BY <1>3, <1>4, <1>7, <2>2, <2>4, <2>5, HonestIs
  <2>7. MaxRequests * Window <= n * Window /\ (n + 1) * Window = n * Window + Window /\ n * Window \in Int
    BY <1>1, <2>6, Stretched
  <2>8. from \in StartsAt(a, t) /\ LimitBy(a, from, t) = MaxRequests * Window
    BY <1>7, <2>3, CountIs DEF StartsAt
  <2>9. (n + 1) * Window > MaxRequests * Window
    BY <1>1, <2>7
  <2> QED BY <2>5, <2>8, <2>9
<1> QED BY <1>5, <1>6, <1>7 DEF Algorithms

-----------------------------------------------------------------------------
\* RateLimiter: one process.  What its state has used, times the most calls that were
\* under way at a time, accounts for what was granted; each call in the queue may grant
\* one more on what it saw before.
Places == {"idle", "reading", "missed", "got", "writing"}
Most(n) == Larger(1, n)
HeldAt(a, t, g, n, lim) ==
    /\ lim = None => g = <<>>
    /\ \A from \in FromsAt(a, t) : (Since(g, from) + 1) * Window <= Most(n) * (UsedAt(a, t, lim, from) + Window)
PlacedAt(a, t, g, n, at, s, p) ==
    IF at = "missed" THEN s = None /\ Len(g) + p <= Most(n)
    ELSE \A from \in FromsAt(a, t) :
             (Since(g, from) + p + 1) * Window <= Most(n) * (UsedAt(a, t, s, from) + 2 * Window)
ApartAt(a, t, x, y) ==
    \E j \in Int : \A from \in FromsAt(a, t) : UsedAt(a, t, y, from) = UsedAt(a, t, x, from) + j * Window
OverrunAt(a, t, g, n, line, at, saw, lim) ==
    /\ Distinct(line) /\ Listed(line) = {r \in Calls : at[r] # "idle"}
    /\ \A r \in Calls : at[r] \in {"idle", "missed", "got"}
    /\ Len(line) <= n
    /\ HeldAt(a, t, g, n, lim)
    /\ \A r \in Calls : at[r] # "idle" => ApartAt(a, t, lim, saw[r])
    /\ \A p \in DOMAIN line : PlacedAt(a, t, g, n, at[line[p]], saw[line[p]], p)

\* A sequence without repetition lists as many as it is long.
LEMMA ListedSize ==
    ASSUME NEW S, NEW s \in Seq(S), Distinct(s)
    PROVE  IsFiniteSet(Listed(s)) /\ Cardinality(Listed(s)) = Len(s)
<1>1. Len(s) \in 0..Len(s) /\ DOMAIN s = 1..Len(s)
  OBVIOUS
<1>2. Listed(s) = {s[i] : i \in 1..Len(s)}
  BY <1>1 DEF Listed
<1> QED BY <1>1, <1>2, PrefixSize

LEMMA Headed ==
    ASSUME NEW S, NEW s \in Seq(S), s # <<>>, Distinct(s), NEW rest, rest = Tail(s)
    PROVE  /\ rest \in Seq(S) /\ Len(rest) = Len(s) - 1 /\ Len(s) \in Nat /\ Len(s) >= 1
           /\ \A i \in 1..(Len(s) - 1) : rest[i] = s[i + 1]
           /\ Head(s) = s[1] /\ Head(s) \in S /\ Head(s) \in Listed(s)
           /\ Listed(rest) = Listed(s) \ {Head(s)} /\ Distinct(rest)
<1>1. /\ rest \in Seq(S) /\ Len(rest) = Len(s) - 1 /\ Len(s) \in Nat /\ Len(s) >= 1
      /\ \A i \in 1..(Len(s) - 1) : rest[i] = s[i + 1]
  OBVIOUS
<1>2. Head(s) = s[1] /\ 1 \in DOMAIN s /\ Head(s) \in S /\ DOMAIN s = 1..Len(s)
  OBVIOUS
<1>3. Head(s) \in Listed(s)
  BY <1>2 DEF Listed
<1>4. rest = SubSeq(s, 1 + 1, Len(s)) /\ 1 \in 0..Len(s)
  <2>1. 1 \in 0..Len(s)
    BY <1>1
  <2>2. SubSeq(s, 2, Len(s)) = Tail(s)
    OBVIOUS
  <2> QED BY <2>1, <2>2
<1>5. Listed(rest) = Listed(s) \ {s[i] : i \in 1..1} /\ Distinct(rest)
  BY <1>4, DropListed
<1>6. {s[i] : i \in 1..1} = {Head(s)}
  BY <1>2
<1> QED BY <1>1, <1>2, <1>3, <1>5, <1>6

\* A place is kept as more calls come, and nearer the front.
LEMMA PlacedStays ==
    ASSUME NEW a \in Algorithms, NEW t \in 0..LimiterTime, NEW g \in Seq(Nat), NEW n \in Nat, NEW m \in Nat, n <= m,
           NEW at, NEW s, FineAt(a, t, s), NEW p \in Nat, NEW q \in Nat, q <= p, PlacedAt(a, t, g, n, at, s, p)
    PROVE  PlacedAt(a, t, g, m, at, s, q)
<1>1. Window \in Nat /\ Most(n) \in Nat /\ Most(m) \in Nat /\ Most(n) <= Most(m)
  BY Numerals DEF Most, Larger
<1>2. CASE at = "missed"
  BY <1>1, <1>2 DEF PlacedAt
<1>3. CASE at # "missed"
  <2>1. ASSUME NEW from \in FromsAt(a, t)
        PROVE  (Since(g, from) + q + 1) * Window <= Most(m) * (UsedAt(a, t, s, from) + 2 * Window)
    <3>1. from \in Int /\ UsedAt(a, t, s, from) \in Nat
      BY UsedBounds
    <3>2. PICK i, u : i = Since(g, from) /\ u = UsedAt(a, t, s, from) + 2 * Window
      OBVIOUS
    <3>3. i \in Nat /\ u \in Nat
      <4>1. i \in Nat
        BY <3>1, <3>2, SinceBounds
      <4> QED BY <1>1, <3>1, <3>2, <4>1
    <3>4. (i + p + 1) * Window <= Most(n) * u
      BY <1>3, <3>2 DEF PlacedAt
    <3>5. Most(n) * u <= Most(m) * u
      <4>1. PICK x, y : x = Most(n) /\ y = Most(m)
        OBVIOUS
      <4>2. x \in Int /\ y \in Int /\ x <= y
        BY <1>1, <4>1
      <4> QED BY <3>3, <4>1, <4>2, Stretched
    <3>6. (i + q + 1) * Window <= (i + p + 1) * Window
      <4>1. i + q + 1 \in Int /\ i + p + 1 \in Int /\ i + q + 1 <= i + p + 1
        BY <3>3
      <4> QED BY <1>1, <4>1, Stretched
    <3>7. /\ (i + q + 1) * Window \in Int /\ (i + p + 1) * Window \in Int
          /\ Most(n) * u \in Int /\ Most(m) * u \in Int
      BY <1>1, <3>3
    <3> QED BY <3>2, <3>4, <3>5, <3>6, <3>7
  <2> QED BY <1>3, <2>1 DEF PlacedAt
<1> QED BY <1>2, <1>3

\* One more granted, and one place nearer.
LEMMA PlacedNearer ==
    ASSUME NEW a \in Algorithms, NEW t \in 0..LimiterTime, NEW g \in Seq(Nat), NEW n \in Nat,
           NEW at, NEW s, NEW q \in Nat, NEW p, p = q + 1, PlacedAt(a, t, g, n, at, s, p),
           NEW h, h = Append(g, t)
    PROVE  PlacedAt(a, t, h, n, at, s, q)
<1>1. t \in Nat
  BY Numerals
<1>2. CASE at = "missed"
  <2>1. Len(h) = Len(g) + 1 /\ Len(g) \in Nat
    OBVIOUS
  <2>2. s = None /\ Len(g) + p <= Most(n)
    BY <1>2 DEF PlacedAt
  <2>3. Len(h) + q = Len(g) + p
    BY <2>1
  <2> QED BY <1>2, <2>2, <2>3 DEF PlacedAt
<1>3. CASE at # "missed"
  <2>1. ASSUME NEW from \in FromsAt(a, t)
        PROVE  (Since(h, from) + q + 1) = (Since(g, from) + p + 1)
    <3>1. from \in Int /\ from <= t
      <4>1. FineAt(a, t, None)
        BY DEF FineAt
      <4> QED BY <4>1, UsedBounds
    <3>2. Since(h, from) = Since(g, from) + 1 /\ Since(g, from) \in Nat
      BY <1>1, <3>1, SinceAppended, SinceBounds
    <3>3. PICK i : i = Since(g, from)
      OBVIOUS
    <3>4. (i + 1) + q + 1 = i + p + 1
      BY <3>2, <3>3
    <3> QED BY <3>2, <3>3, <3>4
  <2> QED BY <1>3, <2>1 DEF PlacedAt
<1> QED BY <1>2, <1>3

\* A call that finds a state takes its place behind the others,
LEMMA Called ==
    ASSUME NEW a \in Algorithms, NEW t \in 0..LimiterTime, NEW g \in Seq(Nat), NEW n \in Nat,
           NEW line \in Seq(Calls), NEW at \in [Calls -> Places], NEW saw, DOMAIN saw = Calls,
           NEW lim, FineAt(a, t, lim), \A r \in Calls : FineAt(a, t, saw[r]),
           OverrunAt(a, t, g, n, line, at, saw, lim),
           NEW r \in Calls, at[r] = "idle",
           NEW at2, at2 = [at EXCEPT ![r] = IF lim # None THEN "got" ELSE "missed"],
           NEW saw2, saw2 = [saw EXCEPT ![r] = lim], NEW more, more = Append(line, r),
           NEW m, m = Larger(n, Cardinality({q \in Calls : at2[q] # "idle"}))
    PROVE  OverrunAt(a, t, g, m, more, at2, saw2, lim)
<1>1. r \notin Listed(line)
  BY DEF OverrunAt
<1>2. Listed(more) = Listed(line) \cup {r} /\ Distinct(more)
  BY <1>1, AppendListed DEF OverrunAt
<1>3. /\ more \in Seq(Calls) /\ Len(more) = Len(line) + 1 /\ Len(line) \in Nat
      /\ DOMAIN more = 1..(Len(line) + 1) /\ DOMAIN line = 1..Len(line)
      /\ more[Len(line) + 1] = r /\ \A p \in 1..Len(line) : more[p] = line[p] /\ line[p] \in Calls
  OBVIOUS
<1>4. \A q \in Calls : q # r => at2[q] = at[q] /\ saw2[q] = saw[q]
  OBVIOUS
<1>5. at2[r] \in {"got", "missed"} /\ saw2[r] = lim
  OBVIOUS
<1>6. Listed(more) = {q \in Calls : at2[q] # "idle"}
  BY <1>2, <1>4, <1>5 DEF OverrunAt
<1>7. Cardinality(Listed(more)) = Len(more)
  BY <1>2, <1>3, ListedSize
<1>8. m \in Nat /\ n <= m /\ Len(more) <= m
  BY <1>3, <1>6, <1>7 DEF Larger
<1>9. Window \in Nat /\ Most(n) \in Nat /\ Most(m) \in Nat /\ Most(n) <= Most(m) /\ Len(more) <= Most(m) /\ 1 <= Most(m)
  BY <1>3, <1>8, Numerals DEF Most, Larger
<1>10. HeldAt(a, t, g, m, lim)
  <2>1. ASSUME NEW from \in FromsAt(a, t)
        PROVE  (Since(g, from) + 1) * Window <= Most(m) * (UsedAt(a, t, lim, from) + Window)
    <3>1. from \in Int /\ UsedAt(a, t, lim, from) \in Nat
      BY UsedBounds
    <3>2. PICK i, u : i = Since(g, from) /\ u = UsedAt(a, t, lim, from) + Window
      OBVIOUS
    <3>3. i \in Nat /\ u \in Nat
      <4>1. i \in Nat
        BY <3>1, <3>2, SinceBounds
      <4> QED BY <1>9, <3>1, <3>2, <4>1
    <3>4. (i + 1) * Window <= Most(n) * u
      BY <3>2 DEF OverrunAt, HeldAt
    <3>5. Most(n) * u <= Most(m) * u
      BY <1>9, <3>3, Stretched
    <3>6. (i + 1) * Window \in Int /\ Most(n) * u \in Int /\ Most(m) * u \in Int
      BY <1>9, <3>3
    <3> QED BY <3>2, <3>4, <3>5, <3>6
  <2> QED BY <2>1 DEF OverrunAt, HeldAt
<1>11. ASSUME NEW q \in Calls, at2[q] # "idle" PROVE ApartAt(a, t, lim, saw2[q])
  <2>1. CASE q = r
    <3>1. ASSUME NEW from \in FromsAt(a, t) PROVE UsedAt(a, t, lim, from) = UsedAt(a, t, lim, from) + 0 * Window
      BY <1>9, UsedBounds
    <3> QED BY <1>5, <2>1, <3>1 DEF ApartAt
  <2>2. CASE q # r
    BY <1>4, <1>11, <2>2 DEF OverrunAt
  <2> QED BY <2>1, <2>2
<1>12. ASSUME NEW p \in DOMAIN more PROVE PlacedAt(a, t, g, m, at2[more[p]], saw2[more[p]], p)
  <2>1. CASE p \in 1..Len(line)
    <3>1. more[p] = line[p] /\ line[p] \in Calls /\ line[p] # r /\ p \in Nat
      BY <1>1, <1>3, <2>1 DEF Listed
    <3>2. PICK q : q = line[p]
      OBVIOUS
    <3>3. PlacedAt(a, t, g, n, at[q], saw[q], p)
      BY <1>3, <2>1, <3>2 DEF OverrunAt
    <3>4. PlacedAt(a, t, g, m, at[q], saw[q], p)
      BY <1>8, <3>1, <3>2, <3>3, PlacedStays
    <3> QED BY <1>4, <3>1, <3>2, <3>4
  <2>2. CASE p = Len(line) + 1
    <3>1. more[p] = r /\ saw2[r] = lim /\ p \in Nat /\ p <= Most(m)
      BY <1>3, <1>9, <2>2
    <3>2. CASE lim = None
      <4>1. at2[r] = "missed" /\ g = <<>> /\ Len(g) = 0
        BY <3>2 DEF OverrunAt, HeldAt
      <4> QED BY <3>1, <3>2, <4>1 DEF PlacedAt
    <3>3. CASE lim # None
      <4>1. at2[r] = "got"
        BY <3>3
      <4>2. ASSUME NEW from \in FromsAt(a, t)
            PROVE  (Since(g, from) + p + 1) * Window <= Most(m) * (UsedAt(a, t, lim, from) + 2 * Window)
        <5>1. from \in Int /\ UsedAt(a, t, lim, from) \in Nat
          BY UsedBounds
        <5>2. PICK i, u, b : i = Since(g, from) /\ u = UsedAt(a, t, lim, from) + Window /\ b = Most(m)
          OBVIOUS
        <5>3. i \in Nat /\ u \in Nat /\ b \in Nat
          <6>1. i \in Nat
            BY <5>1, <5>2, SinceBounds
          <6> QED BY <1>9, <5>1, <5>2, <6>1
        <5>4. (i + 1) * Window <= b * u
          BY <1>10, <5>2 DEF HeldAt
        <5>5. p * Window <= b * Window
          BY <1>9, <3>1, <5>2, <5>3, Stretched
        <5>6. (i + p + 1) * Window = (i + 1) * Window + p * Window /\ b * (u + Window) = b * u + b * Window
          BY <1>9, <3>1, <5>3
        <5>7. /\ (i + 1) * Window \in Int /\ p * Window \in Int /\ b * u \in Int /\ b * Window \in Int
          BY <1>9, <3>1, <5>3
        <5>8. (i + p + 1) * Window <= b * (u + Window)
          BY <5>4, <5>5, <5>6, <5>7
        <5>9. u + Window = UsedAt(a, t, lim, from) + 2 * Window
          BY <1>9, <5>1, <5>2
        <5> QED BY <5>2, <5>8, <5>9
      <4> QED BY <3>1, <4>1, <4>2 DEF PlacedAt
    <3> QED BY <3>2, <3>3
  <2> QED BY <1>3, <2>1, <2>2
<1>13. \A q \in Calls : at2[q] \in {"idle", "missed", "got"}
  BY <1>4, <1>5 DEF OverrunAt
<1> QED BY <1>2, <1>6, <1>8, <1>10, <1>11, <1>12, <1>13 DEF OverrunAt

\* and one that found none, behind those that came since.
LEMMA Hydrated ==
    ASSUME NEW a \in Algorithms, NEW t \in 0..LimiterTime, NEW g \in Seq(Nat), NEW n \in Nat,
           NEW line \in Seq(Calls), line # <<>>, NEW at \in [Calls -> Places], NEW saw, DOMAIN saw = Calls,
           NEW lim, \A r \in Calls : FineAt(a, t, saw[r]),
           OverrunAt(a, t, g, n, line, at, saw, lim),
           NEW r \in Calls, r = Head(line), at[r] = "missed",
           NEW at2, at2 = [at EXCEPT ![r] = "got"], NEW next, next = Append(Tail(line), r)
    PROVE  OverrunAt(a, t, g, n, next, at2, saw, lim)
<1>1. PICK rest : rest = Tail(line)
  OBVIOUS
<1>2. Distinct(line) /\ Listed(line) = {q \in Calls : at[q] # "idle"} /\ Len(line) <= n
  BY DEF OverrunAt
<1>3. /\ rest \in Seq(Calls) /\ Len(rest) = Len(line) - 1 /\ Len(line) \in Nat /\ Len(line) >= 1
      /\ \A i \in 1..(Len(line) - 1) : rest[i] = line[i + 1]
      /\ r = line[1] /\ r \in Listed(line)
      /\ Listed(rest) = Listed(line) \ {r} /\ Distinct(rest)
  <2>2. line \in Seq(Calls) /\ line # <<>> /\ Distinct(line) /\ rest = Tail(line)
    BY <1>1, <1>2
  <2>3. rest \in Seq(Calls) /\ Len(rest) = Len(line) - 1 /\ Len(line) \in Nat /\ Len(line) >= 1
    BY <2>2, Headed
  <2>4. \A i \in 1..(Len(line) - 1) : rest[i] = line[i + 1]
    BY <2>2, Headed
  <2>5. Head(line) = line[1] /\ Head(line) \in Listed(line)
    BY <2>2, Headed
  <2>6. Listed(rest) = Listed(line) \ {Head(line)} /\ Distinct(rest)
    BY <2>2, Headed
  <2> QED BY <2>3, <2>4, <2>5, <2>6
<1>4. Listed(next) = Listed(rest) \cup {r} /\ Distinct(next)
  <2>1. rest \in Seq(Calls) /\ Distinct(rest) /\ r \notin Listed(rest)
    BY <1>3
  <2>2. Listed(Append(rest, r)) = Listed(rest) \cup {r} /\ Distinct(Append(rest, r))
    BY <2>1, AppendListed
  <2> QED BY <1>1, <2>2
<1>5. /\ next \in Seq(Calls) /\ Len(next) = Len(line) /\ DOMAIN next = 1..Len(line) /\ DOMAIN line = 1..Len(line)
      /\ next[Len(line)] = r /\ \A i \in 1..(Len(line) - 1) : next[i] = line[i + 1]
  <2>1. /\ next \in Seq(Calls) /\ Len(next) = Len(rest) + 1 /\ next[Len(rest) + 1] = r
        /\ \A i \in 1..Len(rest) : next[i] = rest[i]
    BY <1>1, <1>3
  <2>2. Len(rest) + 1 = Len(line)
    BY <1>3
  <2> QED BY <1>3, <2>1, <2>2
<1>6. \A q \in Calls : q # r => at2[q] = at[q]
  OBVIOUS
<1>7. at2[r] = "got"
  OBVIOUS
<1>8. Listed(next) = {q \in Calls : at2[q] # "idle"}
  BY <1>2, <1>3, <1>4, <1>6, <1>7
<1>9. Window \in Nat /\ Most(n) \in Nat /\ Len(line) <= Most(n)
  BY <1>2, <1>3, Numerals DEF Most, Larger
<1>10. saw[r] = None /\ Len(g) + 1 <= Most(n)
  <2>1. 1 \in DOMAIN line /\ at[line[1]] = "missed"
    BY <1>3, <1>5
  <2>2. PlacedAt(a, t, g, n, at[line[1]], saw[line[1]], 1)
    BY <2>1 DEF OverrunAt
  <2> QED BY <1>3, <2>1, <2>2 DEF PlacedAt
<1>11. ASSUME NEW p \in DOMAIN next PROVE PlacedAt(a, t, g, n, at2[next[p]], saw[next[p]], p)
  <2>1. CASE p \in 1..(Len(line) - 1)
    <3>1. PICK q, i : i = p + 1 /\ q = line[i]
      OBVIOUS
    <3>2. next[p] = q /\ i \in DOMAIN line /\ i \in Nat /\ p \in Nat /\ p <= i /\ q \in Calls
      BY <1>3, <1>5, <2>1, <3>1
    <3>3. q # r
      <4>1. i # 1 /\ 1 \in DOMAIN line
        BY <1>3, <1>5, <3>1, <3>2
      <4> QED BY <1>2, <1>3, <3>1, <3>2, <4>1 DEF Distinct
    <3>4. PlacedAt(a, t, g, n, at[q], saw[q], i)
      BY <3>1, <3>2 DEF OverrunAt
    <3>5. PlacedAt(a, t, g, n, at[q], saw[q], p)
      BY <3>2, <3>4, PlacedStays
    <3> QED BY <1>6, <3>2, <3>3, <3>5
  <2>2. CASE p = Len(line)
    <3>1. next[p] = r /\ p \in Nat /\ p <= Most(n)
      BY <1>3, <1>5, <1>9, <2>2
    <3>2. ASSUME NEW from \in FromsAt(a, t)
          PROVE  (Since(g, from) + p + 1) * Window <= Most(n) * (UsedAt(a, t, saw[r], from) + 2 * Window)
      <4>1. from \in Int /\ UsedAt(a, t, saw[r], from) \in Nat
        BY UsedBounds
      <4>2. PICK i, u, b : i = Since(g, from) /\ u = UsedAt(a, t, saw[r], from) /\ b = Most(n)
        OBVIOUS
      <4>3. i \in Nat /\ u \in Nat /\ b \in Nat /\ i <= Len(g) /\ Len(g) \in Nat
        <5>1. i \in Nat /\ i <= Len(g)
          BY <4>1, <4>2, SinceBounds
        <5>2. Len(g) \in Nat
          OBVIOUS
        <5> QED BY <1>9, <4>1, <4>2, <5>1, <5>2
      <4>4. i + p + 1 <= 2 * b
        BY <1>10, <3>1, <4>2, <4>3
      <4>5. (i + p + 1) * Window <= (2 * b) * Window
        <5>1. i + p + 1 \in Int /\ 2 * b \in Int
          BY <3>1, <4>3
        <5> QED BY <1>9, <4>4, <5>1, Stretched
      <4>6. b * (2 * Window) <= b * (u + 2 * Window)
        <5>1. 2 * Window \in Int /\ u + 2 * Window \in Int /\ 2 * Window <= u + 2 * Window
          BY <1>9, <4>3
        <5> QED BY <4>3, <5>1, Stretched
      <4>7. (2 * b) * Window = b * (2 * Window)
        BY <1>9, <4>3
      <4>8. (i + p + 1) * Window \in Int /\ b * (2 * Window) \in Int /\ b * (u + 2 * Window) \in Int
        BY <1>9, <3>1, <4>3
      <4> QED BY <4>2, <4>5, <4>6, <4>7, <4>8
    <3> QED BY <1>7, <3>1, <3>2 DEF PlacedAt
  <2> QED BY <1>3, <1>5, <2>1, <2>2
<1>12. HeldAt(a, t, g, n, lim)
  BY DEF OverrunAt
<1>13. \A q \in Calls : at2[q] # "idle" => ApartAt(a, t, lim, saw[q])
  <2>1. \A q \in Calls : at2[q] # "idle" => at[q] # "idle"
    BY <1>6
  <2> QED BY <2>1 DEF OverrunAt
<1>14. \A q \in Calls : at2[q] \in {"idle", "missed", "got"}
  BY <1>6, <1>7 DEF OverrunAt
<1> QED BY <1>2, <1>4, <1>5, <1>8, <1>10, <1>11, <1>12, <1>13, <1>14 DEF OverrunAt

\* The next verdict.
LEMMA Judged ==
    ASSUME NEW a \in Algorithms, NEW t \in 0..LimiterTime, NEW g \in Seq(Nat), NEW n \in Nat,
           NEW lim, FineAt(a, t, lim), NEW s, FineAt(a, t, s), ApartAt(a, t, lim, s),
           HeldAt(a, t, g, n, lim), PlacedAt(a, t, g, n, "got", s, 1),
           NEW e, e = EvaluatedAt(a, t, s),
           NEW h, h = IF AllowedBy(a, CurrentAt(a, t, s)) THEN Append(g, t) ELSE g
    PROVE  HeldAt(a, t, h, n, e) /\ SoundAt(a, t, e) /\ e # None
<1>1. t \in Nat /\ Window \in Nat /\ Most(n) \in Nat
  BY Numerals DEF Most, Larger
<1>2. PICK c : c = CurrentAt(a, t, s)
  OBVIOUS
<1>3. EvaluatedWell(a, t, s, c, e)
  BY <1>2, Evaluation
<1>4. SoundAt(a, t, e) /\ e # None
  BY <1>3, SoundIsState DEF EvaluatedWell
<1>5. CASE AllowedBy(a, c)
  <2>1. ASSUME NEW from \in FromsAt(a, t)
        PROVE  (Since(h, from) + 1) * Window <= Most(n) * (UsedAt(a, t, e, from) + Window)
    <3>1. from \in Int /\ from <= t /\ UsedAt(a, t, s, from) \in Nat
      BY UsedBounds
    <3>2. Since(h, from) = Since(g, from) + 1 /\ Since(g, from) \in Nat
      BY <1>1, <1>2, <1>5, <3>1, SinceAppended, SinceBounds
    <3>3. UsedAt(a, t, e, from) = UsedAt(a, t, s, from) + Window
      BY <1>3, <1>5 DEF EvaluatedWell
    <3>4. (Since(g, from) + 1 + 1) * Window <= Most(n) * (UsedAt(a, t, s, from) + 2 * Window)
      BY DEF PlacedAt
    <3>5. UsedAt(a, t, s, from) + 2 * Window = UsedAt(a, t, e, from) + Window
      BY <1>1, <3>1, <3>3
    <3> QED BY <3>2, <3>4, <3>5
  <2> QED BY <1>4, <2>1 DEF HeldAt
<1>6. CASE ~AllowedBy(a, c)
  <2>1. h = g
    BY <1>2, <1>6
  <2>2. PICK j \in Int : \A from \in FromsAt(a, t) : UsedAt(a, t, s, from) = UsedAt(a, t, lim, from) + j * Window
    BY DEF ApartAt
  <2>3. PICK full \in FromsAt(a, t) : UsedAt(a, t, s, full) + Window > LimitBy(a, full, t)
    BY <1>2, <1>6, UsedBounds
  <2>4. j >= 0
    <3> SUFFICES ASSUME j < 0 PROVE FALSE
      BY <2>2
    <3>1. j * Window <= (0 - 1) * Window
      <4>1. 0 - 1 \in Int /\ j <= 0 - 1
        BY <2>2
      <4> QED BY <1>1, <4>1, Stretched
    <3>2. (0 - 1) * Window = 0 - Window /\ j * Window \in Int
      BY <1>1
    <3>3. UsedAt(a, t, lim, full) \in Nat /\ LimitBy(a, full, t) \in Nat /\ UsedAt(a, t, lim, full) <= LimitBy(a, full, t)
      BY <2>3, UsedBounds
    <3>4. PICK u, x, l : u = UsedAt(a, t, lim, full) /\ x = j * Window /\ l = LimitBy(a, full, t)
      OBVIOUS
    <3>5. UsedAt(a, t, s, full) = u + x
      BY <2>2, <2>3, <3>4
    <3>6. u + x + Window > l
      BY <2>3, <3>4, <3>5
    <3>7. x <= 0 - Window /\ x \in Int
      BY <3>1, <3>2, <3>4
    <3>8. u \in Nat /\ l \in Nat /\ u <= l
      BY <3>3, <3>4
    <3> QED BY <1>1, <3>6, <3>7, <3>8
  <2>5. ASSUME NEW from \in FromsAt(a, t)
        PROVE  (Since(h, from) + 1) * Window <= Most(n) * (UsedAt(a, t, e, from) + Window)
    <3>1. from \in Int /\ UsedAt(a, t, lim, from) \in Nat
      BY UsedBounds
    <3>2. UsedAt(a, t, e, from) = UsedAt(a, t, lim, from) + j * Window
      BY <1>3, <1>6, <2>2 DEF EvaluatedWell
    <3>3. PICK i, u, v, b : /\ i = Since(g, from) /\ u = UsedAt(a, t, lim, from) + Window
                            /\ v = UsedAt(a, t, e, from) + Window /\ b = Most(n)
      OBVIOUS
    <3>4. j * Window \in Nat
      BY <1>1, <2>4
    <3>5. i \in Nat /\ u \in Nat /\ v \in Nat /\ b \in Nat /\ u <= v
      <4>1. i \in Nat
        BY <3>1, <3>3, SinceBounds
      <4>2. PICK x : x = j * Window
        OBVIOUS
      <4> QED BY <1>1, <3>1, <3>2, <3>3, <3>4, <4>1, <4>2
    <3>6. b * u <= b * v
      BY <3>5, Stretched
    <3>7. (i + 1) * Window <= b * u
      BY <3>3 DEF HeldAt
    <3>8. (i + 1) * Window \in Int /\ b * u \in Int /\ b * v \in Int
      BY <1>1, <3>5
    <3> QED BY <2>1, <3>3, <3>6, <3>7, <3>8
  <2> QED BY <1>4, <2>5 DEF HeldAt
<1> QED BY <1>4, <1>5, <1>6

With(f, r, v) == [f EXCEPT ![r] = v]
Rest(line) == Tail(line)
GrantedAt(a, t, g, s) == IF AllowedBy(a, CurrentAt(a, t, s)) THEN Append(g, t) ELSE g

LEMMA Judgement ==
    ASSUME NEW a \in Algorithms, NEW t \in 0..LimiterTime, NEW g \in Seq(Nat), NEW n \in Nat,
           NEW line \in Seq(Calls), line # <<>>, NEW at \in [Calls -> Places], NEW saw, DOMAIN saw = Calls,
           NEW lim, FineAt(a, t, lim), \A r \in Calls : FineAt(a, t, saw[r]),
           OverrunAt(a, t, g, n, line, at, saw, lim),
           NEW r \in Calls, r = Head(line), at[r] = "got"
    PROVE  OverrunAt(a, t, GrantedAt(a, t, g, saw[r]), n, Rest(line), With(at, r, "idle"), With(saw, r, None),
                     EvaluatedAt(a, t, saw[r]))
<1>0. PICK s, at2, saw2, rest, e, h :
        /\ s = saw[r] /\ at2 = With(at, r, "idle") /\ saw2 = With(saw, r, None) /\ rest = Rest(line)
        /\ e = EvaluatedAt(a, t, saw[r]) /\ h = GrantedAt(a, t, g, saw[r])
  OBVIOUS
<1>1. /\ at2 = [at EXCEPT ![r] = "idle"] /\ saw2 = [saw EXCEPT ![r] = None] /\ rest = Tail(line)
       /\ h = IF AllowedBy(a, CurrentAt(a, t, s)) THEN Append(g, t) ELSE g
  BY <1>0 DEF With, Rest, GrantedAt
<1>2. Distinct(line) /\ Listed(line) = {q \in Calls : at[q] # "idle"} /\ Len(line) <= n
  BY DEF OverrunAt
<1>3. /\ rest \in Seq(Calls) /\ Len(rest) = Len(line) - 1 /\ Len(line) \in Nat /\ Len(line) >= 1
      /\ \A i \in 1..(Len(line) - 1) : rest[i] = line[i + 1]
      /\ r = line[1] /\ r \in Listed(line)
      /\ Listed(rest) = Listed(line) \ {r} /\ Distinct(rest)
  <2>2. line \in Seq(Calls) /\ line # <<>> /\ Distinct(line) /\ rest = Tail(line)
    BY <1>2, <1>1
  <2>3. rest \in Seq(Calls) /\ Len(rest) = Len(line) - 1 /\ Len(line) \in Nat /\ Len(line) >= 1
    BY <2>2, Headed
  <2>4. \A i \in 1..(Len(line) - 1) : rest[i] = line[i + 1]
    BY <2>2, Headed
  <2>5. Head(line) = line[1] /\ Head(line) \in Listed(line)
    BY <2>2, Headed
  <2>6. Listed(rest) = Listed(line) \ {Head(line)} /\ Distinct(rest)
    BY <2>2, Headed
  <2> QED BY <2>3, <2>4, <2>5, <2>6
<1>4. DOMAIN rest = 1..(Len(line) - 1) /\ DOMAIN line = 1..Len(line)
  BY <1>3
<1>5. /\ \A q \in Calls : q # r => at2[q] = at[q] /\ saw2[q] = saw[q]
      /\ at2[r] = "idle"
  BY <1>1
<1>6. Listed(rest) = {q \in Calls : at2[q] # "idle"}
  BY <1>2, <1>3, <1>5
<1>7. FineAt(a, t, s) /\ ApartAt(a, t, lim, s) /\ HeldAt(a, t, g, n, lim) /\ PlacedAt(a, t, g, n, "got", s, 1)
  <2>1. 1 \in DOMAIN line
    BY <1>3, <1>4
  <2>2. PlacedAt(a, t, g, n, at[line[1]], saw[line[1]], 1)
    BY <2>1 DEF OverrunAt
  <2>3. PlacedAt(a, t, g, n, "got", s, 1)
    BY <1>0, <1>3, <2>2
  <2> QED BY <1>0, <2>3 DEF OverrunAt
<1>8. HeldAt(a, t, h, n, e)
  <2>1. e = EvaluatedAt(a, t, s)
    BY <1>0
  <2> QED BY <1>7, <1>1, <2>1, Judged
<1>9. PICK c : c = CurrentAt(a, t, s)
  OBVIOUS
<1>10. EvaluatedWell(a, t, s, c, e)
  BY <1>0, <1>7, <1>9, Evaluation
<1>11. ASSUME NEW q \in Calls, at2[q] # "idle" PROVE ApartAt(a, t, e, saw2[q])
  <2>1. q # r /\ at[q] # "idle" /\ saw2[q] = saw[q]
    BY <1>5, <1>11
  <2>2. ApartAt(a, t, lim, saw[q])
    BY <2>1 DEF OverrunAt
  <2>3. PICK j \in Int : \A from \in FromsAt(a, t) : UsedAt(a, t, s, from) = UsedAt(a, t, lim, from) + j * Window
    BY <1>7 DEF ApartAt
  <2>4. PICK i \in Int : \A from \in FromsAt(a, t) : UsedAt(a, t, saw[q], from) = UsedAt(a, t, lim, from) + i * Window
    BY <2>2 DEF ApartAt
  <2>5. PICK d \in Int : \A from \in FromsAt(a, t) : UsedAt(a, t, e, from) = UsedAt(a, t, s, from) + d * Window
    <3>1. CASE AllowedBy(a, c)
      <4>1. \A from \in FromsAt(a, t) : UsedAt(a, t, e, from) = UsedAt(a, t, s, from) + 1 * Window
        BY <1>10, <3>1, Numerals DEF EvaluatedWell
      <4> QED BY <4>1
    <3>2. CASE ~AllowedBy(a, c)
      <4>1. \A from \in FromsAt(a, t) : UsedAt(a, t, e, from) = UsedAt(a, t, s, from) + 0 * Window
        <5>1. \A from \in FromsAt(a, t) : UsedAt(a, t, s, from) \in Nat
          BY <1>7, UsedBounds
        <5> QED BY <1>10, <3>2, <5>1, Numerals DEF EvaluatedWell
      <4> QED BY <4>1
    <3> QED BY <3>1, <3>2
  <2>6. PICK k : k = i - j - d
    OBVIOUS
  <2>7. ASSUME NEW from \in FromsAt(a, t)
        PROVE  UsedAt(a, t, saw[q], from) = UsedAt(a, t, e, from) + k * Window
    <3>1. PICK x, y, z, w : /\ x = UsedAt(a, t, saw[q], from) /\ y = UsedAt(a, t, e, from)
                            /\ z = UsedAt(a, t, s, from) /\ w = UsedAt(a, t, lim, from)
      OBVIOUS
    <3>2. w \in Int
      BY <3>1, UsedBounds
    <3>3. z = w + j * Window /\ x = w + i * Window /\ y = z + d * Window
      BY <2>3, <2>4, <2>5, <3>1
    <3>4. k * Window = i * Window - j * Window - d * Window
      <4>1. i \in Int /\ j \in Int /\ d \in Int /\ Window \in Int
        BY <2>3, <2>4, <2>5, Numerals
      <4>2. (i - j - d) * Window = i * Window - j * Window - d * Window
        BY <4>1, Differences
      <4> QED BY <2>6, <4>2
    <3>5. j * Window \in Int /\ i * Window \in Int /\ d * Window \in Int
      <4>1. Window \in Int
        BY Numerals
      <4>2. j \in Int /\ i \in Int /\ d \in Int
        BY <2>3, <2>4, <2>5
      <4> QED BY <4>1, <4>2
    <3>6. x = y + k * Window
      BY <3>2, <3>3, <3>4, <3>5
    <3> QED BY <3>1, <3>6
  <2> QED BY <2>1, <2>6, <2>7 DEF ApartAt
<1>12. ASSUME NEW p \in DOMAIN rest PROVE PlacedAt(a, t, h, n, at2[rest[p]], saw2[rest[p]], p)
  <2>1. PICK q, i : i = p + 1 /\ q = line[i]
    OBVIOUS
  <2>2. rest[p] = q /\ i \in DOMAIN line /\ i \in Nat /\ p \in Nat /\ p <= i /\ q \in Calls
    BY <1>3, <1>4, <2>1
  <2>3. q # r
    <3>1. i # 1 /\ 1 \in DOMAIN line
      BY <1>3, <1>4, <2>1, <2>2
    <3> QED BY <1>2, <1>3, <2>1, <2>2, <3>1 DEF Distinct
  <2>4. PlacedAt(a, t, g, n, at[q], saw[q], i)
    BY <2>1, <2>2 DEF OverrunAt
  <2>5. PlacedAt(a, t, h, n, at[q], saw[q], p)
    <3>1. CASE AllowedBy(a, c)
      <4>1. h = Append(g, t)
        BY <1>9, <1>1, <3>1
      <4> QED BY <2>1, <2>2, <2>4, <4>1, PlacedNearer
    <3>2. CASE ~AllowedBy(a, c)
      <4>1. h = g
        BY <1>9, <1>1, <3>2
      <4> QED BY <2>2, <2>4, <4>1, PlacedStays
    <3> QED BY <3>1, <3>2
  <2> QED BY <1>5, <2>2, <2>3, <2>5
<1>13. \A q \in Calls : at2[q] \in {"idle", "missed", "got"}
  BY <1>5 DEF OverrunAt
<1>14. Len(rest) <= n
  BY <1>2, <1>3
<1>16. OverrunAt(a, t, h, n, rest, at2, saw2, e)
  BY <1>3, <1>6, <1>8, <1>11, <1>12, <1>13, <1>14 DEF OverrunAt
<1> QED BY <1>0, <1>16

\* A tick, which comes when no call is in the queue.
LEMMA Ticked ==
    ASSUME NEW a \in Algorithms, NEW t \in 0..LimiterTime, NEW v \in 0..LimiterTime, v = t + 1,
           NEW g \in Seq(Nat), \A i \in DOMAIN g : g[i] <= t, NEW n \in Nat,
           NEW at, NEW saw, NEW lim, FineAt(a, t, lim), OverrunAt(a, t, g, n, <<>>, at, saw, lim)
    PROVE  OverrunAt(a, v, g, n, <<>>, at, saw, lim)
<1>1. t \in Nat /\ v \in Nat /\ Window \in Nat /\ Most(n) \in Nat /\ Most(n) >= 1
  BY Numerals DEF Most, Larger
<1>2. \A r \in Calls : at[r] = "idle"
  BY DEF OverrunAt, Listed
<1>3. FineAt(a, v, lim)
  BY TimePasses
<1>4. ASSUME NEW from \in FromsAt(a, v)
      PROVE  (Since(g, from) + 1) * Window <= Most(n) * (UsedAt(a, v, lim, from) + Window)
  <2>1. from \in Int /\ UsedAt(a, v, lim, from) \in Nat
    BY <1>3, UsedBounds
  <2>2. PICK b, y : b = Most(n) /\ y = UsedAt(a, v, lim, from) + Window
    OBVIOUS
  <2>3. b \in Nat /\ b >= 1 /\ y \in Nat /\ y >= Window
    BY <1>1, <2>1, <2>2
  <2>4. CASE from = v
    <3>1. \A i \in DOMAIN g : g[i] < from
      <4>1. \A i \in DOMAIN g : g[i] \in Nat
        OBVIOUS
      <4> QED BY <1>1, <2>4, <4>1
    <3>2. Since(g, from) = 0
      BY <2>1, <3>1, SinceBounds
    <3>3. (0 + 1) * Window = Window /\ 1 * y = y /\ b * y \in Int
      BY <1>1, <2>3
    <3>4. 1 * y <= b * y
      BY <2>3, Stretched
    <3> QED BY <1>1, <2>2, <2>3, <3>2, <3>3, <3>4
  <2>5. CASE from # v
    <3>1. from \in FromsAt(a, t) /\ UsedAt(a, t, lim, from) <= UsedAt(a, v, lim, from)
      BY <2>5, TimePasses
    <3>2. UsedAt(a, t, lim, from) \in Nat
      BY <3>1, UsedBounds
    <3>3. PICK i, x : i = Since(g, from) /\ x = UsedAt(a, t, lim, from) + Window
      OBVIOUS
    <3>4. i \in Nat /\ x \in Nat /\ x <= y
      <4>1. i \in Nat
        BY <2>1, <3>3, SinceBounds
      <4> QED BY <1>1, <2>1, <2>2, <3>1, <3>2, <3>3, <4>1
    <3>5. (i + 1) * Window <= b * x
      BY <2>2, <3>1, <3>3 DEF OverrunAt, HeldAt
    <3>6. b * x <= b * y
      BY <2>3, <3>4, Stretched
    <3>7. (i + 1) * Window \in Int /\ b * x \in Int /\ b * y \in Int
      BY <1>1, <2>3, <3>4
    <3> QED BY <2>2, <3>3, <3>5, <3>6, <3>7
  <2> QED BY <2>4, <2>5
<1>5. HeldAt(a, v, g, n, lim)
  BY <1>4 DEF OverrunAt, HeldAt
<1>6. \A p \in DOMAIN <<>> : FALSE
  OBVIOUS
<1> QED BY <1>2, <1>5, <1>6 DEF OverrunAt

\* What was granted over an interval, and what may be.
GrantedIn(g, from, to) == Cardinality({i \in DOMAIN g : g[i] \in from..to})
OverrunBy(n, lim) == IF n > 1 THEN (n - 1) * (lim + Window) ELSE 0
BoundAt(a, g, n, from, to) ==
    GrantedIn(g, from, to) * Window <= LimitBy(a, from, to) + OverrunBy(n, LimitBy(a, from, to))

\* Granted is what Since counts, between two times.
LEMMA GrantedSince ==
    ASSUME NEW g \in Seq(Nat), NEW t \in Nat, \A i \in DOMAIN g : g[i] <= t, NEW from \in Int
    PROVE  GrantedIn(g, from, t) = Since(g, from)
<1>1. \A i \in DOMAIN g : g[i] \in Nat
  OBVIOUS
<1>2. {i \in DOMAIN g : g[i] \in from..t} = {i \in DOMAIN g : g[i] >= from}
  BY <1>1
<1> QED BY <1>2 DEF GrantedIn, Since

LEMMA GrantedBefore ==
    ASSUME NEW g \in Seq(Nat), NEW t \in Nat, NEW from \in Int, NEW to \in Int, to < t, NEW h, h = Append(g, t)
    PROVE  GrantedIn(h, from, to) = GrantedIn(g, from, to)
<1>1. /\ DOMAIN g = 1..Len(g) /\ Len(g) \in Nat /\ DOMAIN h = 1..(Len(g) + 1)
      /\ h[Len(g) + 1] = t /\ \A i \in 1..Len(g) : h[i] = g[i]
  OBVIOUS
<1>2. t \notin from..to
  OBVIOUS
<1>3. {i \in DOMAIN h : h[i] \in from..to} = {i \in DOMAIN g : g[i] \in from..to}
  BY <1>1, <1>2
<1> QED BY <1>3 DEF GrantedIn

LEMMA LimitIsNat ==
    ASSUME NEW a \in Algorithms, NEW to \in 0..LimiterTime, NEW from \in StartsAt(a, to)
    PROVE  LimitBy(a, from, to) \in Nat /\ from \in Int /\ from \in FromsAt(a, to)
<1>1. to \in Nat
  BY Numerals
<1>2. FineAt(a, to, None)
  BY DEF FineAt
<1>3. from \in FromsAt(a, to)
  BY <1>1, StartsAre
<1> QED BY <1>2, <1>3, UsedBounds

\* It holds of what ends now,
LEMMA BoundNow ==
    ASSUME NEW a \in Algorithms, NEW t \in 0..LimiterTime, NEW g \in Seq(Nat), \A i \in DOMAIN g : g[i] <= t,
           NEW n \in Nat, NEW lim, FineAt(a, t, lim), HeldAt(a, t, g, n, lim), NEW from \in StartsAt(a, t)
    PROVE  BoundAt(a, g, n, from, t)
<1>1. t \in Nat /\ Window \in Nat /\ Most(n) \in Nat /\ Most(n) = (IF n > 1 THEN n ELSE 1)
  BY Numerals DEF Most, Larger
<1>2. from \in FromsAt(a, t) /\ from \in Int
  BY LimitIsNat
<1>3. PICK i, u, l, b : i = Since(g, from) /\ u = UsedAt(a, t, lim, from) /\ l = LimitBy(a, from, t) /\ b = Most(n)
  OBVIOUS
<1>4. i \in Nat
  BY <1>2, <1>3, SinceBounds
<1>5. u \in Nat /\ l \in Nat /\ u <= l
  BY <1>2, <1>3, UsedBounds
<1>6. (i + 1) * Window <= b * (u + Window)
  BY <1>2, <1>3 DEF HeldAt
<1>7. b * (u + Window) <= b * (l + Window) /\ b \in Nat /\ b >= 1
  <2>1. b \in Nat /\ u + Window \in Int /\ l + Window \in Int /\ u + Window <= l + Window /\ b >= 1
    BY <1>1, <1>3, <1>5
  <2> QED BY <2>1, Stretched
<1>8. (i + 1) * Window = i * Window + Window /\ i * Window \in Int
  BY <1>1, <1>4
<1>9. PICK y : y = l + Window
  OBVIOUS
<1>10. (b - 1) * y + y = b * y /\ (b - 1) * y \in Int /\ b * y \in Int /\ y \in Int
  BY <1>1, <1>5, <1>7, <1>9
<1>11. b * (u + Window) \in Int
  BY <1>1, <1>5, <1>7
<1>12. i * Window <= l + (b - 1) * y
  <2>1. PICK p, q, v, z : p = i * Window /\ q = (b - 1) * y /\ v = b * (u + Window) /\ z = b * y
    OBVIOUS
  <2>2. p \in Int /\ q \in Int /\ v \in Int /\ z \in Int
    BY <1>8, <1>10, <1>11, <2>1
  <2>3. p + Window <= v
    BY <1>6, <1>8, <2>1
  <2>4. v <= z
    BY <1>7, <1>9, <2>1
  <2>5. q + y = z
    BY <1>10, <2>1
  <2>6. p <= l + q
    BY <1>1, <1>5, <1>9, <2>2, <2>3, <2>4, <2>5
  <2> QED BY <2>1, <2>6
<1>13. OverrunBy(n, l) = (b - 1) * y
  <2>1. CASE n > 1
    BY <1>1, <1>3, <1>9, <2>1 DEF OverrunBy
  <2>2. CASE ~(n > 1)
    <3>1. b = 1 /\ (1 - 1) * y = 0
      BY <1>1, <1>3, <1>10, <2>2
    <3> QED BY <2>2, <3>1 DEF OverrunBy
  <2> QED BY <2>1, <2>2
<1>14. GrantedIn(g, from, t) = i
  BY <1>1, <1>2, <1>3, GrantedSince
<1> QED BY <1>3, <1>12, <1>13, <1>14 DEF BoundAt

\* and stays so of what ended before.
LEMMA BoundStays ==
    ASSUME NEW a \in Algorithms, NEW to \in 0..LimiterTime, NEW from \in StartsAt(a, to),
           NEW g \in Seq(Nat), NEW h, GrantedIn(h, from, to) = GrantedIn(g, from, to),
           NEW n \in Nat, NEW m \in Nat, n <= m, BoundAt(a, g, n, from, to)
    PROVE  BoundAt(a, h, m, from, to)
<1>1. Window \in Nat
  BY Numerals
<1>2. PICK l, i : l = LimitBy(a, from, to) /\ i = GrantedIn(g, from, to)
  OBVIOUS
<1>3. l \in Nat
  BY <1>2, LimitIsNat
<1>4. i \in Nat
  <2>1. {j \in DOMAIN g : g[j] \in from..to} \subseteq {j \in DOMAIN g : g[j] >= from}
    BY LimitIsNat
  <2>2. from \in Int
    BY LimitIsNat
  <2>3. IsFiniteSet({j \in DOMAIN g : g[j] >= from})
    BY <2>2, SinceBounds
  <2>4. IsFiniteSet({j \in DOMAIN g : g[j] \in from..to})
    BY <2>1, <2>3, FS_Subset
  <2> QED BY <1>2, <2>4, FS_CardinalityType DEF GrantedIn
<1>5. OverrunBy(n, l) \in Int /\ OverrunBy(m, l) \in Int /\ OverrunBy(n, l) <= OverrunBy(m, l)
  <2>1. PICK y : y = l + Window
    OBVIOUS
  <2>2. y \in Nat
    BY <1>1, <1>3, <2>1
  <2>3. (n - 1) * y <= (m - 1) * y
    <3>1. n - 1 \in Int /\ m - 1 \in Int /\ n - 1 <= m - 1
      OBVIOUS
    <3> QED BY <2>2, <3>1, Stretched
  <2>4. (n - 1) * y \in Int /\ (m - 1) * y \in Int
    BY <2>2
  <2>5. m > 1 => (m - 1) * y >= 0
    BY <2>2
  <2> QED BY <2>1, <2>3, <2>4, <2>5 DEF OverrunBy
<1>6. i * Window <= l + OverrunBy(n, l) /\ i * Window \in Int
  BY <1>1, <1>2, <1>4 DEF BoundAt
<1> QED BY <1>2, <1>3, <1>5, <1>6 DEF BoundAt

-----------------------------------------------------------------------------
\* RateLimiter: the invariants.

\* These are the operators of the module.
LEMMA AlgorithmsAre ==
    ASSUME config \in Configs
    PROVE  /\ config.algorithm \in Algorithms
           /\ Callers \subseteq Calls /\ config.owner \in [Callers -> Workers]
           /\ \A s : Current(s) = CurrentAt(config.algorithm, clock, s)
           /\ \A s : Evaluated(s) = EvaluatedAt(config.algorithm, clock, s)
           /\ \A s : Allowed(s) <=> AllowedBy(config.algorithm, s)
           /\ \A from, to : Limit(from, to) = LimitBy(config.algorithm, from, to)
           /\ \A from, to : Granted(from, to) = GrantedIn(granted, from, to)
           /\ clock \in Nat => \A i : i \in Intervals =>
                  \E to \in 0..clock : \E from \in StartsAt(config.algorithm, to) : i = <<from, to>>
           /\ clock \in Nat => \A from \in StartsAt(config.algorithm, clock) : <<from, clock>> \in Intervals
<1>1. /\ config.algorithm \in Algorithms /\ Callers \subseteq Calls /\ config.owner \in [Callers -> Workers]
  BY LimiterAssumption DEF Algorithms, Callers
<1>2. \A s : Current(s) = CurrentAt(config.algorithm, clock, s)
  BY DEF Current, CurrentAt, Refilled, Kept, CountedNow
<1>3. \A s : Allowed(s) <=> AllowedBy(config.algorithm, s)
  BY <1>1 DEF Allowed, AllowedBy, Algorithms
<1>4. \A s : Charged(s) = ChargedAt(config.algorithm, clock, s)
  BY DEF Charged, ChargedAt
<1>5. \A s : Evaluated(s) = EvaluatedAt(config.algorithm, clock, s)
  BY <1>2, <1>3, <1>4 DEF Evaluated, EvaluatedAt
<1>6. \A from, to : Limit(from, to) = LimitBy(config.algorithm, from, to)
  BY DEF Limit, LimitBy
<1>7. \A from, to : Granted(from, to) = GrantedIn(granted, from, to)
  BY DEF Granted, GrantedIn
<1>8. ASSUME clock \in Nat, NEW i, i \in Intervals
      PROVE  \E to \in 0..clock : \E from \in StartsAt(config.algorithm, to) : i = <<from, to>>
  <2>1. CASE config.algorithm = "token_bucket"
    <3>1. i \in (0..clock) \X (0..clock) /\ i[1] <= i[2]
      BY <1>8, <2>1 DEF Intervals
    <3>2. i = <<i[1], i[2]>> /\ i[2] \in 0..clock /\ i[1] \in 0..i[2]
      BY <1>8, <3>1
    <3>3. StartsAt(config.algorithm, i[2]) = 0..i[2]
      BY <2>1 DEF StartsAt
    <3> QED BY <3>2, <3>3
  <2>2. CASE config.algorithm = "sliding_window"
    BY <1>8, <2>2 DEF Intervals, StartsAt
  <2>3. CASE config.algorithm = "fixed_window"
    BY <1>8, <2>3 DEF Intervals, StartsAt
  <2> QED BY <1>1, <2>1, <2>2, <2>3 DEF Algorithms
<1>9. ASSUME clock \in Nat, NEW from \in StartsAt(config.algorithm, clock) PROVE <<from, clock>> \in Intervals
  <2>1. CASE config.algorithm = "token_bucket"
    <3>1. from \in 0..clock
      BY <1>9, <2>1 DEF StartsAt
    <3>2. PICK i : i = <<from, clock>>
      OBVIOUS
    <3>3. i \in (0..clock) \X (0..clock) /\ i[1] <= i[2]
      BY <1>9, <3>1, <3>2
    <3> QED BY <2>1, <3>2, <3>3 DEF Intervals
  <2>2. CASE config.algorithm = "sliding_window"
    BY <1>9, <2>2 DEF Intervals, StartsAt
  <2>3. CASE config.algorithm = "fixed_window"
    BY <1>9, <2>3 DEF Intervals, StartsAt
  <2> QED BY <1>1, <2>1, <2>2, <2>3 DEF Algorithms
<1> QED BY <1>1, <1>2, <1>3, <1>5, <1>6, <1>7, <1>8, <1>9

\* What is known of each state there is.
GoodAt(a, t, g, s) == s = None \/ (SoundAt(a, t, s) /\ HonestBy(a, g, s))
StatesInv ==
    /\ LimiterTypeOK
    /\ granted \in Seq(Nat) /\ \A i \in DOMAIN granted : granted[i] <= clock
    /\ \A w \in Workers : GoodAt(config.algorithm, clock, granted, limiters[w])
    /\ GoodAt(config.algorithm, clock, granted, store)
    /\ \A r \in Calls : GoodAt(config.algorithm, clock, granted, seen[r])

LEMMA GoodStays ==
    ASSUME NEW a \in Algorithms, NEW t \in 0..LimiterTime, NEW g \in Seq(Nat), NEW s, GoodAt(a, t, g, s),
           NEW h, h = g \/ h = Append(g, t)
    PROVE  GoodAt(a, t, h, s)
<1>1. t \in Nat
  BY Numerals
<1>2. CASE h = g
  BY <1>2
<1>3. CASE h = Append(g, t)
  BY <1>1, <1>3, HonestStays DEF GoodAt
<1> QED BY <1>2, <1>3

LEMMA GoodLater ==
    ASSUME NEW a \in Algorithms, NEW t \in Nat, NEW v, v = t + 1, NEW g, NEW s, GoodAt(a, t, g, s)
    PROVE  GoodAt(a, v, g, s)
<1>1. CASE s = None
  BY <1>1 DEF GoodAt
<1>2. CASE s # None
  <2>1. FineAt(a, t, s)
    BY <1>2 DEF GoodAt, FineAt
  <2>2. FineAt(a, v, s)
    BY <2>1, SoundLater
  <2> QED BY <1>2, <2>2 DEF GoodAt, FineAt
<1> QED BY <1>1, <1>2

LEMMA GoodEvaluated ==
    ASSUME NEW a \in Algorithms, NEW t \in 0..LimiterTime, NEW g \in Seq(Nat), NEW s, GoodAt(a, t, g, s),
           NEW e, e = EvaluatedAt(a, t, s),
           NEW h, h = IF AllowedBy(a, CurrentAt(a, t, s)) THEN Append(g, t) ELSE g
    PROVE  GoodAt(a, t, h, e) /\ e \in State
<1>1. FineAt(a, t, s) /\ (s # None => HonestBy(a, g, s))
  BY DEF GoodAt, FineAt
<1>2. PICK c : c = CurrentAt(a, t, s)
  OBVIOUS
<1>3. EvaluatedWell(a, t, s, c, e)
  BY <1>1, <1>2, Evaluation
<1>4. SoundAt(a, t, e)
  BY <1>3 DEF EvaluatedWell
<1>5. HonestBy(a, h, e)
  BY <1>1, HonestEvaluated
<1> QED BY <1>4, <1>5, SoundIsState DEF GoodAt

LEMMA StatesInitially ==
    ASSUME LimiterInit PROVE StatesInv
<1>1. LimiterTypeOK
  <2>1. Cardinality(Calls) \in Nat
    BY LimiterAssumption, FS_CardinalityType
  <2>2. 0 \in 0..Cardinality(Calls) /\ 0 \in 0..LimiterTime
    BY <2>1, Numerals
  <2> QED BY <2>2 DEF LimiterInit, LimiterTypeOK
<1>2. granted \in Seq(Nat) /\ \A i \in DOMAIN granted : granted[i] <= clock
  BY DEF LimiterInit
<1>3. /\ \A w \in Workers : limiters[w] = None
      /\ store = None /\ \A r \in Calls : seen[r] = None
  BY DEF LimiterInit
<1> QED BY <1>1, <1>2, <1>3 DEF StatesInv, GoodAt

\* The calls under way can be counted.
LEMMA CallInFlight ==
    ASSUME NEW at
    PROVE  /\ Cardinality({q \in Calls : at[q] # "idle"}) \in 0..Cardinality(Calls)
           /\ Cardinality(Calls) \in Nat
BY LimiterAssumption, FS_Subset, FS_CardinalityType

LEMMA StatesCheckLimit ==
    ASSUME StatesInv, NEW r \in Calls, CheckLimit(r) PROVE StatesInv'
<1>1. PICK a, t, g : a = config.algorithm /\ t = clock /\ g = granted
  OBVIOUS
<1>2. a \in Algorithms /\ config.owner[r] \in Workers
  BY <1>1, AlgorithmsAre DEF StatesInv, LimiterTypeOK, CheckLimit, Callers
<1>3. PICK w \in Workers : w = config.owner[r]
  BY <1>2
<1>4. seen' = [seen EXCEPT ![r] = limiters[w]]
  BY <1>3 DEF CheckLimit
<1>5. /\ config' = config /\ limiters' = limiters /\ store' = store /\ clock' = clock /\ granted' = granted
      /\ config \in Configs /\ limiters \in [Workers -> State \cup {None}] /\ store \in State \cup {None}
      /\ clock \in 0..LimiterTime /\ granted \in Seq(0..LimiterTime)
  BY DEF CheckLimit, StatesInv, LimiterTypeOK
<1>6. callAt' \in [Calls -> {"idle", "reading", "missed", "got", "writing"}]
  BY DEF CheckLimit, StatesInv, LimiterTypeOK
<1>7. seen' \in [Calls -> State \cup {None}]
  BY <1>4 DEF StatesInv, LimiterTypeOK
<1>8. ready' \in [Workers -> Seq(Calls)]
  <2>1. ready' = [ready EXCEPT ![w] = IF callAt'[r] = "reading" THEN ready[w] ELSE Append(ready[w], r)]
    BY <1>3 DEF CheckLimit
  <2>2. ready \in [Workers -> Seq(Calls)]
    BY DEF StatesInv, LimiterTypeOK
  <2>3. Append(ready[w], r) \in Seq(Calls)
    BY <2>2
  <2> QED BY <2>1, <2>2, <2>3
<1>9. crowd' \in 0..Cardinality(Calls)
  <2>1. crowd' = Larger(crowd, Cardinality({q \in Calls : callAt'[q] # "idle"}))
    BY DEF CheckLimit
  <2>2. crowd \in 0..Cardinality(Calls)
    BY DEF StatesInv, LimiterTypeOK
  <2>3. PICK n, at : at = callAt' /\ n = Cardinality({q \in Calls : at[q] # "idle"})
    OBVIOUS
  <2>4. n \in 0..Cardinality(Calls) /\ Cardinality(Calls) \in Nat
    BY <2>3, CallInFlight
  <2>5. crowd' = Larger(crowd, n)
    BY <2>1, <2>3
  <2> QED BY <2>2, <2>4, <2>5 DEF Larger
<1>10. LimiterTypeOK'
  BY <1>5, <1>6, <1>7, <1>8, <1>9 DEF LimiterTypeOK
<1>11. ASSUME NEW q \in Calls PROVE GoodAt(config.algorithm, clock, granted, seen'[q])
  BY <1>4 DEF StatesInv, LimiterTypeOK
<1> QED BY <1>5, <1>10, <1>11 DEF StatesInv

LEMMA StatesStore ==
    ASSUME StatesInv, NEW r \in Calls, StoreRead(r) \/ StoreWrite(r) \/ StoreFails(r) PROVE StatesInv'
<1>1. /\ config' = config /\ limiters' = limiters /\ clock' = clock /\ granted' = granted /\ crowd' = crowd
      /\ config \in Configs /\ limiters \in [Workers -> State \cup {None}] /\ crowd \in 0..Cardinality(Calls)
      /\ clock \in 0..LimiterTime /\ granted \in Seq(0..LimiterTime)
  BY DEF StoreRead, StoreWrite, StoreFails, StatesInv, LimiterTypeOK
<1>2. callAt' \in [Calls -> {"idle", "reading", "missed", "got", "writing"}]
  BY DEF StoreRead, StoreWrite, StoreFails, StatesInv, LimiterTypeOK
<1>3. seen \in [Calls -> State \cup {None}] /\ store \in State \cup {None}
  BY DEF StatesInv, LimiterTypeOK
<1>4. seen' = [seen EXCEPT ![r] = store] \/ seen' = [seen EXCEPT ![r] = None]
  BY DEF StoreRead, StoreWrite, StoreFails
<1>5. store' = store \/ store' = seen[r]
  BY DEF StoreRead, StoreWrite, StoreFails
<1>6. seen' \in [Calls -> State \cup {None}] /\ store' \in State \cup {None}
  BY <1>3, <1>4, <1>5
<1>7. ready' \in [Workers -> Seq(Calls)]
  <2>1. ready \in [Workers -> Seq(Calls)]
    BY DEF StatesInv, LimiterTypeOK
  <2>2. CASE StoreRead(r)
    <3>1. PICK w : w = config.owner[r]
      OBVIOUS
    <3>2. ready' = [ready EXCEPT ![w] = Append(ready[w], r)]
      BY <2>2, <3>1 DEF StoreRead
    <3>3. \A x \in Workers : Append(ready[x], r) \in Seq(Calls)
      BY <2>1
    <3> QED BY <2>1, <3>2, <3>3
  <2>3. CASE StoreWrite(r) \/ StoreFails(r)
    BY <2>1, <2>3 DEF StoreWrite, StoreFails
  <2> QED BY <2>2, <2>3
<1>8. LimiterTypeOK'
  BY <1>1, <1>2, <1>6, <1>7 DEF LimiterTypeOK
<1>9. GoodAt(config.algorithm, clock, granted, None)
  BY DEF GoodAt
<1>10. ASSUME NEW q \in Calls PROVE GoodAt(config.algorithm, clock, granted, seen'[q])
  <2>1. seen'[q] \in {seen[q], store, None}
    BY <1>3, <1>4
  <2> QED BY <1>9, <2>1 DEF StatesInv
<1>11. GoodAt(config.algorithm, clock, granted, store')
  BY <1>5 DEF StatesInv
<1> QED BY <1>1, <1>8, <1>10, <1>11 DEF StatesInv

LEMMA StatesHydrate ==
    ASSUME StatesInv, NEW r \in Calls, Hydrate(r) PROVE StatesInv'
<1>1. PICK w : w = config.owner[r]
  OBVIOUS
<1>2. /\ limiters' = [limiters EXCEPT ![w] = IF seen[r] # None THEN seen[r] ELSE limiters[w]]
      /\ ready' = [ready EXCEPT ![w] = Append(Tail(ready[w]), r)]
      /\ ready[w] # <<>> /\ r \in Callers
  BY <1>1 DEF Hydrate, Turn
<1>3. /\ config' = config /\ store' = store /\ seen' = seen /\ clock' = clock /\ granted' = granted
      /\ crowd' = crowd /\ config \in Configs /\ crowd \in 0..Cardinality(Calls)
      /\ clock \in 0..LimiterTime /\ granted \in Seq(0..LimiterTime)
      /\ seen \in [Calls -> State \cup {None}] /\ store \in State \cup {None}
  BY DEF Hydrate, StatesInv, LimiterTypeOK
<1>4. callAt' \in [Calls -> {"idle", "reading", "missed", "got", "writing"}]
  BY DEF Hydrate, StatesInv, LimiterTypeOK
<1>5. limiters \in [Workers -> State \cup {None}] /\ ready \in [Workers -> Seq(Calls)] /\ w \in Workers
  BY <1>1, <1>2, AlgorithmsAre DEF StatesInv, LimiterTypeOK
<1>6. limiters' \in [Workers -> State \cup {None}]
  BY <1>2, <1>3, <1>5
<1>7. ready' \in [Workers -> Seq(Calls)]
  <2>1. ready[w] \in Seq(Calls)
    BY <1>5
  <2>2. Append(Tail(ready[w]), r) \in Seq(Calls)
    BY <1>2, <2>1
  <2> QED BY <1>2, <1>5, <2>2
<1>8. LimiterTypeOK'
  BY <1>3, <1>4, <1>6, <1>7 DEF LimiterTypeOK
<1>9. ASSUME NEW x \in Workers PROVE GoodAt(config.algorithm, clock, granted, limiters'[x])
  <2>1. limiters'[x] \in {limiters[x], seen[r]}
    BY <1>2, <1>5
  <2> QED BY <2>1 DEF StatesInv
<1> QED BY <1>3, <1>8, <1>9 DEF StatesInv

LEMMA StatesEvaluate ==
    ASSUME StatesInv, NEW r \in Calls, Evaluate(r) PROVE StatesInv'
<1>1. PICK w, e : w = config.owner[r] /\ e = Evaluated(seen[r])
  OBVIOUS
<1>2. PICK a, t, g, h : a = config.algorithm /\ t = clock /\ g = granted /\ h = granted'
  OBVIOUS
<1>3. /\ limiters' = [limiters EXCEPT ![w] = e]
      /\ seen' = [seen EXCEPT ![r] = IF config.storage THEN e ELSE None]
      /\ ready' = [ready EXCEPT ![w] = Tail(ready[w])]
      /\ ready[w] # <<>> /\ r \in Callers
  BY <1>1 DEF Evaluate, Turn
<1>4. granted' = IF Allowed(Current(seen[r])) THEN Append(granted, clock) ELSE granted
  BY DEF Evaluate
<1>5. /\ config' = config /\ store' = store /\ clock' = clock /\ crowd' = crowd
      /\ config \in Configs /\ crowd \in 0..Cardinality(Calls)
      /\ clock \in 0..LimiterTime /\ granted \in Seq(0..LimiterTime) /\ store \in State \cup {None}
      /\ granted \in Seq(Nat)
  BY DEF Evaluate, StatesInv, LimiterTypeOK
<1>6. callAt' \in [Calls -> {"idle", "reading", "missed", "got", "writing"}]
  BY DEF Evaluate, StatesInv, LimiterTypeOK
<1>7. /\ limiters \in [Workers -> State \cup {None}] /\ ready \in [Workers -> Seq(Calls)] /\ w \in Workers
      /\ seen \in [Calls -> State \cup {None}]
  BY <1>1, <1>3, AlgorithmsAre DEF StatesInv, LimiterTypeOK
<1>8. a \in Algorithms /\ t \in 0..LimiterTime /\ t \in Nat /\ g \in Seq(Nat)
  BY <1>2, <1>5, AlgorithmsAre, Numerals
<1>9. e = EvaluatedAt(a, t, seen[r]) /\ h = IF AllowedBy(a, CurrentAt(a, t, seen[r])) THEN Append(g, t) ELSE g
  <2>1. Current(seen[r]) = CurrentAt(a, t, seen[r]) /\ Evaluated(seen[r]) = EvaluatedAt(a, t, seen[r])
    BY <1>2, <1>5, AlgorithmsAre
  <2>2. \A c : Allowed(c) <=> AllowedBy(a, c)
    BY <1>2, <1>5, AlgorithmsAre
  <2> QED BY <1>1, <1>2, <1>4, <2>1, <2>2
<1>10. GoodAt(a, t, g, seen[r])
  BY <1>2 DEF StatesInv
<1>11. GoodAt(a, t, h, e) /\ e \in State
  BY <1>8, <1>9, <1>10, GoodEvaluated
<1>12. h = g \/ h = Append(g, t)
  BY <1>9
<1>13. granted' \in Seq(0..LimiterTime) /\ granted' \in Seq(Nat) /\ \A i \in DOMAIN granted' : granted'[i] <= clock
  <2>1. CASE h = g
    BY <1>2, <1>5, <2>1 DEF StatesInv
  <2>2. CASE h = Append(g, t)
    <3>1. g \in Seq(0..LimiterTime) /\ \A i \in DOMAIN g : g[i] <= t
      BY <1>2, <1>5 DEF StatesInv
    <3>2. h \in Seq(0..LimiterTime) /\ h \in Seq(Nat)
      BY <1>8, <2>2, <3>1
    <3>3. \A i \in DOMAIN h : h[i] <= t
      <4>1. /\ DOMAIN g = 1..Len(g) /\ Len(g) \in Nat /\ DOMAIN h = 1..(Len(g) + 1)
            /\ h[Len(g) + 1] = t /\ \A i \in 1..Len(g) : h[i] = g[i]
        BY <1>8, <2>2
      <4>2. \A i \in 1..(Len(g) + 1) : i = Len(g) + 1 \/ i \in 1..Len(g)
        BY <4>1
      <4> QED BY <1>8, <3>1, <4>1, <4>2
    <3> QED BY <1>2, <3>2, <3>3
  <2> QED BY <1>12, <2>1, <2>2
<1>14. limiters' \in [Workers -> State \cup {None}] /\ seen' \in [Calls -> State \cup {None}]
  BY <1>3, <1>7, <1>11
<1>15. ready' \in [Workers -> Seq(Calls)]
  <2>1. ready[w] \in Seq(Calls)
    BY <1>7
  <2>2. Tail(ready[w]) \in Seq(Calls)
    BY <1>3, <2>1
  <2> QED BY <1>3, <1>7, <2>2
<1>16. LimiterTypeOK'
  BY <1>5, <1>6, <1>13, <1>14, <1>15 DEF LimiterTypeOK
<1>17. ASSUME NEW s, GoodAt(a, t, g, s) PROVE GoodAt(a, t, h, s)
  BY <1>8, <1>12, <1>17, GoodStays
<1>18. ASSUME NEW x \in Workers PROVE GoodAt(a, t, h, limiters'[x])
  <2>1. limiters'[x] \in {limiters[x], e}
    BY <1>3, <1>7
  <2>2. GoodAt(a, t, g, limiters[x])
    BY <1>2 DEF StatesInv
  <2> QED BY <1>11, <1>17, <2>1, <2>2
<1>19. ASSUME NEW q \in Calls PROVE GoodAt(a, t, h, seen'[q])
  <2>1. seen'[q] \in {seen[q], e, None}
    BY <1>3, <1>7
  <2>2. GoodAt(a, t, g, seen[q])
    BY <1>2 DEF StatesInv
  <2>3. GoodAt(a, t, h, None)
    BY DEF GoodAt
  <2> QED BY <1>11, <1>17, <2>1, <2>2, <2>3
<1>20. GoodAt(a, t, h, store)
  <2>1. GoodAt(a, t, g, store)
    BY <1>2 DEF StatesInv
  <2> QED BY <1>17, <2>1
<1> QED BY <1>2, <1>5, <1>13, <1>16, <1>18, <1>19, <1>20 DEF StatesInv

LEMMA StatesTick ==
    ASSUME StatesInv, LimiterTick PROVE StatesInv'
<1>1. /\ config' = config /\ limiters' = limiters /\ store' = store /\ callAt' = callAt /\ seen' = seen
      /\ ready' = ready /\ granted' = granted /\ crowd' = crowd /\ clock' = clock + 1 /\ clock < LimiterTime
  BY DEF LimiterTick
<1>2. LimiterTypeOK /\ clock \in Nat /\ LimiterTime \in Nat
  BY Numerals DEF StatesInv, LimiterTypeOK
<1>3. clock' \in 0..LimiterTime
  BY <1>1, <1>2
<1>4. LimiterTypeOK'
  BY <1>1, <1>2, <1>3 DEF LimiterTypeOK
<1>5. config.algorithm \in Algorithms
  BY <1>2, AlgorithmsAre DEF LimiterTypeOK
<1>6. PICK v : v = clock'
  OBVIOUS
<1>7. v = clock + 1
  BY <1>1, <1>6
<1>8. ASSUME NEW s, GoodAt(config.algorithm, clock, granted, s) PROVE GoodAt(config.algorithm, v, granted, s)
  BY <1>2, <1>5, <1>7, <1>8, GoodLater
<1>9. granted \in Seq(Nat) /\ \A i \in DOMAIN granted : granted[i] <= v
  <2>1. granted \in Seq(Nat) /\ \A i \in DOMAIN granted : granted[i] <= clock /\ granted[i] \in Nat
    BY DEF StatesInv
  <2> QED BY <1>2, <1>7, <2>1
<1>10. /\ \A w \in Workers : GoodAt(config.algorithm, v, granted, limiters[w])
       /\ GoodAt(config.algorithm, v, granted, store)
       /\ \A r \in Calls : GoodAt(config.algorithm, v, granted, seen[r])
  BY <1>8 DEF StatesInv
<1> QED BY <1>1, <1>4, <1>6, <1>9, <1>10 DEF StatesInv

\* Every step keeps them.
LEMMA StatesStep ==
    ASSUME StatesInv, [LimiterNext]_limiterVars PROVE StatesInv'
<1>1. ASSUME NEW r \in Calls,
             CheckLimit(r) \/ StoreRead(r) \/ Hydrate(r) \/ Evaluate(r) \/ StoreWrite(r) \/ StoreFails(r)
      PROVE  StatesInv'
  BY <1>1, StatesCheckLimit, StatesStore, StatesHydrate, StatesEvaluate
<1>2. CASE UNCHANGED limiterVars
  BY <1>2 DEF limiterVars, StatesInv, LimiterTypeOK
<1> QED BY <1>1, <1>2, StatesTick DEF LimiterNext

\* RateLimiter: #limiters, the store and what each call holds are states that the
\* limiter's algorithms make, and every call is at a step of checkLimit.
THEOREM LimiterTypes == LimiterSpec => []LimiterTypeOK
<1>1. StatesInv => LimiterTypeOK
  BY DEF StatesInv
<1> QED BY <1>1, StatesInitially, StatesStep, PTL DEF LimiterSpec

\* Nobody is refused within the limit.
LEMMA TooStrict ==
    ASSUME StatesInv PROVE NeverTooStrict
<1> SUFFICES ASSUME NEW r \in Calls, Refused(r)
             PROVE  \E i \in Intervals : i[2] = clock /\ (Granted(i[1], clock) + 1) * Window > Limit(i[1], clock)
  BY DEF NeverTooStrict
<1>1. PICK a, t, g, s : a = config.algorithm /\ t = clock /\ g = granted /\ s = seen[r]
  OBVIOUS
<1>2. config \in Configs /\ t \in 0..LimiterTime /\ t \in Nat /\ g \in Seq(Nat) /\ \A i \in DOMAIN g : g[i] <= t
  BY <1>1, Numerals DEF StatesInv, LimiterTypeOK
<1>3. a \in Algorithms
  BY <1>1, <1>2, AlgorithmsAre
<1>4. FineAt(a, t, s) /\ (s # None => HonestBy(a, g, s))
  BY <1>1 DEF StatesInv, GoodAt, FineAt
<1>5. ~AllowedBy(a, CurrentAt(a, t, s))
  <2>1. Current(seen[r]) = CurrentAt(a, t, s)
    BY <1>1, <1>2, AlgorithmsAre
  <2>2. \A c : Allowed(c) <=> AllowedBy(a, c)
    BY <1>1, <1>2, AlgorithmsAre
  <2> QED BY <2>1, <2>2 DEF Refused
<1>6. PICK from \in StartsAt(a, t) : (Since(g, from) + 1) * Window > LimitBy(a, from, t)
  BY <1>2, <1>3, <1>4, <1>5, HonestRefusal
<1>7. from \in Int
  BY <1>2, <1>3, LimitIsNat
<1>8. Granted(from, clock) = Since(g, from) /\ Limit(from, clock) = LimitBy(a, from, t)
  <2>1. GrantedIn(g, from, t) = Since(g, from)
    BY <1>2, <1>7, GrantedSince
  <2> QED BY <1>1, <1>2, <2>1, AlgorithmsAre
<1>9. <<from, clock>> \in Intervals
  BY <1>1, <1>2, AlgorithmsAre
<1>10. PICK i : i = <<from, clock>>
  OBVIOUS
<1>11. i \in Intervals /\ i[1] = from /\ i[2] = clock
  BY <1>9, <1>10
<1> QED BY <1>6, <1>8, <1>11

\* One process, and what it granted over each interval that has ended.
Alone(w) == ~config.storage /\ \A r \in Callers : config.owner[r] = w
EndedBound(a, t, g, n) == \A to \in 0..(t - 1) : \A from \in StartsAt(a, to) : BoundAt(a, g, n, from, to)
ProcessInv(w) ==
    /\ OverrunAt(config.algorithm, clock, granted, crowd, ready[w], callAt, seen, limiters[w])
    /\ EndedBound(config.algorithm, clock, granted, crowd)
AloneInv == StatesInv /\ \A w \in Workers : Alone(w) => ProcessInv(w)

LEMMA EndedStays ==
    ASSUME NEW a \in Algorithms, NEW t \in 0..LimiterTime, NEW g \in Seq(Nat), NEW n \in Nat, NEW m \in Nat, n <= m,
           NEW h, h = g \/ h = Append(g, t), EndedBound(a, t, g, n)
    PROVE  EndedBound(a, t, h, m)
<1> SUFFICES ASSUME NEW to \in 0..(t - 1), NEW from \in StartsAt(a, to) PROVE BoundAt(a, h, m, from, to)
  BY DEF EndedBound
<1>1. t \in Nat /\ LimiterTime \in Nat
  BY Numerals
<1>2. to \in 0..LimiterTime /\ to \in Int /\ to < t
  BY <1>1
<1>3. from \in Int
  BY <1>2, LimitIsNat
<1>4. GrantedIn(h, from, to) = GrantedIn(g, from, to)
  BY <1>1, <1>2, <1>3, GrantedBefore
<1>5. BoundAt(a, g, n, from, to)
  BY DEF EndedBound
<1> QED BY <1>2, <1>4, <1>5, BoundStays

\* What is known of the states and of time, for a process.
LEMMA Bearings ==
    ASSUME StatesInv, NEW w \in Workers
    PROVE  /\ config \in Configs /\ config.algorithm \in Algorithms /\ clock \in 0..LimiterTime /\ clock \in Nat
           /\ granted \in Seq(Nat) /\ (\A i \in DOMAIN granted : granted[i] <= clock) /\ crowd \in Nat
           /\ ready[w] \in Seq(Calls) /\ callAt \in [Calls -> Places] /\ DOMAIN seen = Calls
           /\ FineAt(config.algorithm, clock, limiters[w])
           /\ \A r \in Calls : FineAt(config.algorithm, clock, seen[r])
<1>1. /\ config \in Configs /\ clock \in 0..LimiterTime /\ clock \in Nat
      /\ granted \in Seq(Nat) /\ \A i \in DOMAIN granted : granted[i] <= clock
  BY Numerals DEF StatesInv, LimiterTypeOK
<1>2. crowd \in Nat
  BY DEF StatesInv, LimiterTypeOK
<1>3. ready[w] \in Seq(Calls) /\ callAt \in [Calls -> Places] /\ DOMAIN seen = Calls
  BY DEF StatesInv, LimiterTypeOK, Places
<1>4. FineAt(config.algorithm, clock, limiters[w]) /\ \A r \in Calls : FineAt(config.algorithm, clock, seen[r])
  BY DEF StatesInv, GoodAt, FineAt
<1> QED BY <1>1, <1>2, <1>3, <1>4, AlgorithmsAre

LEMMA AloneInitially ==
    ASSUME LimiterInit, NEW w \in Workers PROVE ProcessInv(w)
<1>1. StatesInv
  BY StatesInitially
<1>2. PICK a : a = config.algorithm
  OBVIOUS
<1>3. a \in Algorithms /\ FineAt(a, 0, None) /\ 0 \in 0..LimiterTime
  BY <1>1, <1>2, AlgorithmsAre, Numerals DEF StatesInv, LimiterTypeOK, FineAt
<1>4. /\ clock = 0 /\ granted = <<>> /\ crowd = 0 /\ ready[w] = <<>> /\ limiters[w] = None
      /\ \A r \in Calls : callAt[r] = "idle"
  BY DEF LimiterInit
<1>5. HeldAt(a, 0, <<>>, 0, None)
  <2>1. ASSUME NEW from \in FromsAt(a, 0)
        PROVE  (Since(<<>>, from) + 1) * Window <= Most(0) * (UsedAt(a, 0, None, from) + Window)
    <3>1. from \in Int /\ UsedAt(a, 0, None, from) \in Nat
      BY <1>3, UsedBounds
    <3>2. <<>> \in Seq(Nat) /\ \A i \in DOMAIN <<>> : <<>>[i] < from
      OBVIOUS
    <3>3. Since(<<>>, from) = 0
      BY <3>1, <3>2, SinceBounds
    <3>4. Most(0) = 1 /\ Window \in Nat
      BY Numerals DEF Most, Larger
    <3>5. PICK u : u = UsedAt(a, 0, None, from)
      OBVIOUS
    <3>6. (0 + 1) * Window <= 1 * (u + Window)
      BY <3>1, <3>4, <3>5
    <3> QED BY <3>3, <3>4, <3>5, <3>6
  <2> QED BY <2>1 DEF HeldAt
<1>6. Distinct(<<>>) /\ Listed(<<>>) = {} /\ Len(<<>>) <= 0 /\ \A p \in DOMAIN <<>> : FALSE
  BY DEF Distinct, Listed
<1>7. OverrunAt(a, 0, <<>>, 0, <<>>, callAt, seen, None)
  BY <1>4, <1>5, <1>6 DEF OverrunAt
<1>8. EndedBound(a, 0, <<>>, 0)
  BY DEF EndedBound
<1> QED BY <1>2, <1>4, <1>7, <1>8 DEF ProcessInv

LEMMA AloneCheckLimit ==
    ASSUME StatesInv, NEW w \in Workers, Alone(w), ProcessInv(w), NEW r \in Calls, CheckLimit(r)
    PROVE  ProcessInv(w)'
<1>1. PICK a, t, g, n, m, line, more, at, at2, saw, saw2, lim :
        /\ a = config.algorithm /\ t = clock /\ g = granted /\ n = crowd /\ m = crowd'
        /\ line = ready[w] /\ more = ready'[w] /\ at = callAt /\ at2 = callAt' /\ saw = seen /\ saw2 = seen'
        /\ lim = limiters[w]
  OBVIOUS
<1>2. w = config.owner[r] /\ ~config.storage /\ at[r] = "idle"
  BY <1>1 DEF Alone, CheckLimit
<1>3. at2 = [at EXCEPT ![r] = IF lim # None THEN "got" ELSE "missed"]
  BY <1>1, <1>2 DEF CheckLimit
<1>4. saw2 = [saw EXCEPT ![r] = lim]
  BY <1>1, <1>2 DEF CheckLimit
<1>5. /\ a \in Algorithms /\ t \in 0..LimiterTime /\ g \in Seq(Nat) /\ n \in Nat /\ line \in Seq(Calls)
      /\ at \in [Calls -> Places] /\ DOMAIN saw = Calls /\ FineAt(a, t, lim) /\ \A q \in Calls : FineAt(a, t, saw[q])
  BY <1>1, Bearings
<1>6. more = Append(line, r)
  <2>1. at2[r] # "reading"
    BY <1>3, <1>5
  <2>2. ready' = [ready EXCEPT ![w] = Append(ready[w], r)]
    BY <1>1, <1>2, <2>1 DEF CheckLimit
  <2>3. DOMAIN ready = Workers
    BY DEF StatesInv, LimiterTypeOK
  <2> QED BY <1>1, <2>2, <2>3
<1>7. m = Larger(n, Cardinality({q \in Calls : at2[q] # "idle"}))
  BY <1>1 DEF CheckLimit
<1>8. OverrunAt(a, t, g, n, line, at, saw, lim) /\ EndedBound(a, t, g, n)
  BY <1>1 DEF ProcessInv
<1>9. OverrunAt(a, t, g, m, more, at2, saw2, lim)
  BY <1>2, <1>3, <1>4, <1>5, <1>6, <1>7, <1>8, Called
<1>10. m \in Nat /\ n <= m
  <2>1. PICK k : k = Cardinality({q \in Calls : at2[q] # "idle"})
    OBVIOUS
  <2>2. k \in Nat
    BY <2>1, CallInFlight
  <2> QED BY <1>5, <1>7, <2>1, <2>2 DEF Larger
<1>11. EndedBound(a, t, g, m)
  BY <1>5, <1>8, <1>10, EndedStays
<1>12. config' = config /\ clock' = clock /\ granted' = granted /\ limiters' = limiters
  BY DEF CheckLimit
<1> QED BY <1>1, <1>9, <1>11, <1>12 DEF ProcessInv

LEMMA AloneHydrate ==
    ASSUME StatesInv, NEW w \in Workers, Alone(w), ProcessInv(w), NEW r \in Calls, Hydrate(r)
    PROVE  ProcessInv(w)'
<1>1. PICK a, t, g, n, line, next, at, at2, saw, lim :
        /\ a = config.algorithm /\ t = clock /\ g = granted /\ n = crowd
        /\ line = ready[w] /\ next = ready'[w] /\ at = callAt /\ at2 = callAt' /\ saw = seen
        /\ lim = limiters[w]
  OBVIOUS
<1>2. w = config.owner[r] /\ line # <<>> /\ r = Head(line) /\ at[r] = "missed" /\ at2 = [at EXCEPT ![r] = "got"]
  BY <1>1 DEF Alone, Hydrate, Turn
<1>3. /\ a \in Algorithms /\ t \in 0..LimiterTime /\ g \in Seq(Nat) /\ n \in Nat /\ line \in Seq(Calls)
      /\ at \in [Calls -> Places] /\ DOMAIN saw = Calls /\ \A q \in Calls : FineAt(a, t, saw[q])
  BY <1>1, Bearings
<1>4. next = Append(Tail(line), r)
  <2>1. ready' = [ready EXCEPT ![w] = Append(Tail(ready[w]), r)]
    BY <1>2 DEF Hydrate
  <2>2. DOMAIN ready = Workers
    BY DEF StatesInv, LimiterTypeOK
  <2> QED BY <1>1, <2>1, <2>2
<1>5. OverrunAt(a, t, g, n, line, at, saw, lim) /\ EndedBound(a, t, g, n)
  BY <1>1 DEF ProcessInv
<1>6. OverrunAt(a, t, g, n, next, at2, saw, lim) /\ saw[r] = None
  <2>1. OverrunAt(a, t, g, n, next, at2, saw, lim)
    BY <1>2, <1>3, <1>4, <1>5, Hydrated
  <2>2. 1 \in DOMAIN line /\ line[1] = r
    BY <1>2, <1>3
  <2>3. PlacedAt(a, t, g, n, at[line[1]], saw[line[1]], 1)
    BY <1>5, <2>2 DEF OverrunAt
  <2> QED BY <1>2, <2>1, <2>2, <2>3 DEF PlacedAt
<1>7. limiters'[w] = lim
  <2>1. limiters' = [limiters EXCEPT ![w] = limiters[w]]
    BY <1>1, <1>2, <1>6 DEF Hydrate
  <2>2. DOMAIN limiters = Workers
    BY DEF StatesInv, LimiterTypeOK
  <2> QED BY <1>1, <2>1, <2>2
<1>8. config' = config /\ clock' = clock /\ granted' = granted /\ crowd' = crowd /\ seen' = seen
  BY DEF Hydrate
<1> QED BY <1>1, <1>5, <1>6, <1>7, <1>8 DEF ProcessInv

LEMMA AloneEvaluate ==
    ASSUME StatesInv, NEW w \in Workers, Alone(w), ProcessInv(w), NEW r \in Calls, Evaluate(r)
    PROVE  ProcessInv(w)'
<1>1. PICK a, t, g, h, n, line, rest, at, at2, saw, saw2, lim, e :
        /\ a = config.algorithm /\ t = clock /\ g = granted /\ h = granted' /\ n = crowd
        /\ line = ready[w] /\ rest = ready'[w] /\ at = callAt /\ at2 = callAt' /\ saw = seen /\ saw2 = seen'
        /\ lim = limiters[w] /\ e = Evaluated(seen[r])
  OBVIOUS
<1>2. w = config.owner[r] /\ ~config.storage /\ line # <<>> /\ r = Head(line) /\ at[r] = "got"
  BY <1>1 DEF Alone, Evaluate, Turn
<1>3. at2 = [at EXCEPT ![r] = "idle"] /\ saw2 = [saw EXCEPT ![r] = None]
  BY <1>1, <1>2 DEF Evaluate
<1>4. /\ a \in Algorithms /\ t \in 0..LimiterTime /\ g \in Seq(Nat) /\ n \in Nat /\ line \in Seq(Calls)
      /\ at \in [Calls -> Places] /\ DOMAIN saw = Calls /\ FineAt(a, t, lim) /\ \A q \in Calls : FineAt(a, t, saw[q])
  BY <1>1, Bearings
<1>5. rest = Tail(line) /\ limiters'[w] = e
  <2>1. ready' = [ready EXCEPT ![w] = Tail(ready[w])] /\ limiters' = [limiters EXCEPT ![w] = e]
    BY <1>1, <1>2 DEF Evaluate
  <2>2. DOMAIN ready = Workers /\ DOMAIN limiters = Workers
    BY DEF StatesInv, LimiterTypeOK
  <2> QED BY <1>1, <2>1, <2>2
<1>6. e = EvaluatedAt(a, t, saw[r]) /\ h = IF AllowedBy(a, CurrentAt(a, t, saw[r])) THEN Append(g, t) ELSE g
  <2>1. config \in Configs
    BY Bearings
  <2>2. Current(seen[r]) = CurrentAt(a, t, saw[r]) /\ Evaluated(seen[r]) = EvaluatedAt(a, t, saw[r])
    BY <1>1, <2>1, AlgorithmsAre
  <2>3. \A c : Allowed(c) <=> AllowedBy(a, c)
    BY <1>1, <2>1, AlgorithmsAre
  <2>4. granted' = IF Allowed(Current(seen[r])) THEN Append(granted, clock) ELSE granted
    BY DEF Evaluate
  <2> QED BY <1>1, <2>2, <2>3, <2>4
<1>7. OverrunAt(a, t, g, n, line, at, saw, lim) /\ EndedBound(a, t, g, n)
  BY <1>1 DEF ProcessInv
<1>8. OverrunAt(a, t, h, n, rest, at2, saw2, e)
  <2>1. OverrunAt(a, t, GrantedAt(a, t, g, saw[r]), n, Rest(line), With(at, r, "idle"), With(saw, r, None),
                  EvaluatedAt(a, t, saw[r]))
    BY <1>2, <1>4, <1>7, Judgement
  <2> QED BY <1>3, <1>5, <1>6, <2>1 DEF With, Rest, GrantedAt
<1>9. EndedBound(a, t, h, n)
  <2>1. h = g \/ h = Append(g, t)
    BY <1>6
  <2>2. n <= n
    BY <1>4
  <2> QED BY <1>4, <1>7, <2>1, <2>2, EndedStays
<1>10. config' = config /\ clock' = clock /\ crowd' = crowd
  BY DEF Evaluate
<1> QED BY <1>1, <1>5, <1>8, <1>9, <1>10 DEF ProcessInv

LEMMA AloneTick ==
    ASSUME StatesInv, NEW w \in Workers, ProcessInv(w), LimiterTick
    PROVE  ProcessInv(w)'
<1>1. PICK a, t, v, g, n, at, saw, lim :
        /\ a = config.algorithm /\ t = clock /\ v = clock' /\ g = granted /\ n = crowd
        /\ at = callAt /\ saw = seen /\ lim = limiters[w]
  OBVIOUS
<1>2. /\ a \in Algorithms /\ t \in 0..LimiterTime /\ t \in Nat /\ g \in Seq(Nat) /\ (\A i \in DOMAIN g : g[i] <= t)
      /\ n \in Nat /\ FineAt(a, t, lim)
  BY <1>1, Bearings
<1>3. v = t + 1 /\ v \in 0..LimiterTime /\ ready[w] = <<>>
  BY <1>1, <1>2, Numerals DEF LimiterTick
<1>4. OverrunAt(a, t, g, n, <<>>, at, saw, lim) /\ EndedBound(a, t, g, n)
  BY <1>1, <1>3 DEF ProcessInv
<1>5. OverrunAt(a, v, g, n, <<>>, at, saw, lim)
  BY <1>2, <1>3, <1>4, Ticked
<1>6. EndedBound(a, v, g, n)
  <2> SUFFICES ASSUME NEW to \in 0..(v - 1), NEW from \in StartsAt(a, to) PROVE BoundAt(a, g, n, from, to)
    BY DEF EndedBound
  <2>1. CASE to = t
    BY <1>2, <1>4, <2>1, BoundNow DEF OverrunAt
  <2>2. CASE to # t
    <3>1. to \in 0..(t - 1)
      BY <1>2, <1>3, <2>2
    <3> QED BY <1>4, <3>1 DEF EndedBound
  <2> QED BY <2>1, <2>2
<1>7. /\ config' = config /\ ready' = ready /\ callAt' = callAt /\ seen' = seen /\ limiters' = limiters
      /\ granted' = granted /\ crowd' = crowd
  BY DEF LimiterTick
<1> QED BY <1>1, <1>3, <1>5, <1>6, <1>7 DEF ProcessInv

\* Every step of the limiter keeps them.
LEMMA AloneStep ==
    ASSUME AloneInv, [LimiterNext]_limiterVars PROVE AloneInv'
<1>1. StatesInv'
  BY StatesStep DEF AloneInv
<1> SUFFICES ASSUME NEW w \in Workers, Alone(w)' PROVE ProcessInv(w)'
  BY <1>1 DEF AloneInv
<1>2. config' = config
  BY DEF LimiterNext, limiterVars, CheckLimit, StoreRead, Hydrate, Evaluate, StoreWrite, StoreFails, LimiterTick
<1>3. Alone(w)
  BY <1>2 DEF Alone, Callers
<1>4. StatesInv /\ ProcessInv(w)
  BY <1>3 DEF AloneInv
<1>5. ASSUME NEW r \in Calls, StoreRead(r) \/ StoreWrite(r) \/ StoreFails(r) PROVE FALSE
  BY <1>4, <1>5 DEF ProcessInv, OverrunAt, StoreRead, StoreWrite, StoreFails
<1>6. ASSUME NEW r \in Calls, CheckLimit(r) PROVE ProcessInv(w)'
  BY <1>3, <1>4, <1>6, AloneCheckLimit
<1>7. ASSUME NEW r \in Calls, Hydrate(r) PROVE ProcessInv(w)'
  BY <1>3, <1>4, <1>7, AloneHydrate
<1>8. ASSUME NEW r \in Calls, Evaluate(r) PROVE ProcessInv(w)'
  BY <1>3, <1>4, <1>8, AloneEvaluate
<1>9. CASE UNCHANGED limiterVars
  BY <1>4, <1>9 DEF limiterVars, ProcessInv
<1> QED BY <1>4, <1>5, <1>6, <1>7, <1>8, <1>9, AloneTick DEF LimiterNext

\* So what was granted is within the limit and the overrun.
LEMMA WithinOverrun ==
    ASSUME AloneInv PROVE OverrunBounded
<1> SUFFICES ASSUME OneProcess, NEW i \in Intervals
             PROVE  Granted(i[1], i[2]) * Window <= Limit(i[1], i[2]) + Overrun(Limit(i[1], i[2]))
  BY DEF OverrunBounded
<1>1. PICK w \in Workers : Alone(w)
  BY DEF OneProcess, Alone
<1>2. StatesInv /\ ProcessInv(w)
  BY <1>1 DEF AloneInv
<1>3. PICK a, t, g, n, lim : a = config.algorithm /\ t = clock /\ g = granted /\ n = crowd /\ lim = limiters[w]
  OBVIOUS
<1>4. /\ config \in Configs /\ a \in Algorithms /\ t \in 0..LimiterTime /\ t \in Nat /\ g \in Seq(Nat)
      /\ (\A j \in DOMAIN g : g[j] <= t) /\ n \in Nat /\ FineAt(a, t, lim)
  BY <1>2, <1>3, Bearings
<1>5. PICK to \in 0..t : \E from \in StartsAt(a, to) : i = <<from, to>>
  BY <1>3, <1>4, AlgorithmsAre
<1>6. PICK from \in StartsAt(a, to) : i = <<from, to>>
  BY <1>5
<1>7. BoundAt(a, g, n, from, to)
  <2>1. CASE to = t
    BY <1>2, <1>3, <1>4, <2>1, BoundNow DEF ProcessInv, OverrunAt
  <2>2. CASE to # t
    <3>1. to \in 0..(t - 1)
      BY <1>4, <2>2
    <3> QED BY <1>2, <1>3, <3>1 DEF ProcessInv, EndedBound
  <2> QED BY <2>1, <2>2
<1>8. Granted(from, to) = GrantedIn(g, from, to) /\ Limit(from, to) = LimitBy(a, from, to)
  BY <1>3, <1>4, AlgorithmsAre
<1>9. \A l : Overrun(l) = OverrunBy(n, l)
  BY <1>3 DEF Overrun, OverrunBy
<1>10. i[1] = from /\ i[2] = to
  BY <1>6
<1> QED BY <1>7, <1>8, <1>9, <1>10 DEF BoundAt

\* RateLimiter: over every interval, the checkLimit of one process without a store grants
\* no more than its algorithm's limit when it is called one by one, and no more over it
\* than its callers can when they are concurrent; and it refuses nobody who is within the
\* limit, whichever processes share a store and whatever that lost.
THEOREM Allowance == LimiterSpec => []AllowanceKept
<1>1. LimiterInit => AloneInv
  BY StatesInitially, AloneInitially DEF AloneInv
<1>2. AloneInv => AllowanceKept
  BY TooStrict, WithinOverrun DEF AllowanceKept, AloneInv
<1> QED BY <1>1, <1>2, AloneStep, PTL DEF LimiterSpec
==============================================================================
