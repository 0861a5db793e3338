------------------------- MODULE CircuitBreakerProofs -------------------------
(***************************************************************************)
(* Theorems about CircuitBreaker, for any processes, requests, thresholds  *)
(* and timeout, with or without a store; that without one it implements    *)
(* BreakerProtocol, step by step, also among the deployments that          *)
(* MCCircuitBreaker puts side by side; and about the adapters that may be  *)
(* behind its store (StateAdapters).                                       *)
(***************************************************************************)
EXTENDS MCCircuitBreaker, FiniteSetTheorems, TLAPS

\* A record of the right type whose counters and state agree.
Sound(c) == c \in Record /\ Agree(c)

-----------------------------------------------------------------------------
\* The methods keep a record sound.

LEMMA CreatedSound == Sound(Created)
BY BreakerAssumption DEF Sound, Record, Created, Agree

LEMMA Fields ==
    ASSUME NEW c, Sound(c)
    PROVE  /\ c.state \in {"CLOSED", "OPEN", "HALF_OPEN"} /\ c.failures \in 0..FailureThreshold
           /\ c.successCount \in 0..SuccessThreshold /\ c.active \in Nat /\ c.age \in 0..Timeout
           /\ c.state = "CLOSED" <=> c.failures < FailureThreshold
           /\ c.state = "HALF_OPEN" => c.successCount < SuccessThreshold
BY DEF Sound, Record, Agree

LEMMA AdmittedSound == ASSUME NEW c, Sound(c) PROVE Sound(Admitted(c))
<1> DEFINE s == IF c.state = "OPEN" THEN "HALF_OPEN" ELSE c.state
           n == IF c.state = "OPEN" THEN 0 ELSE c.successCount
           a == c.active + 1
           d == [c EXCEPT !.state = s, !.successCount = n, !.active = a, !.age = 0]
<1>1. /\ s \in {"CLOSED", "OPEN", "HALF_OPEN"} /\ n \in 0..SuccessThreshold /\ a \in Nat
      /\ 0 \in 0..Timeout
      /\ s = "CLOSED" <=> c.failures < FailureThreshold
      /\ s = "HALF_OPEN" => n < SuccessThreshold
  BY Fields, BreakerAssumption
<1>2. Admitted(c) = d
  BY DEF Admitted
<1> HIDE DEF s, n, a
<1>3. d \in Record /\ d.state = s /\ d.failures = c.failures /\ d.successCount = n
  BY <1>1 DEF Sound, Record
<1>4. QED
  BY <1>1, <1>2, <1>3 DEF Sound, Agree

LEMMA SucceededSound == ASSUME NEW c, Sound(c) PROVE Sound(Succeeded(c))
<1> DEFINE a == Released(c)
           s == IF Closes(c) THEN "CLOSED" ELSE c.state
           f == IF Clears(c) THEN 0 ELSE c.failures
           n == IF Closes(c) THEN 0
                ELSE IF c.state = "HALF_OPEN" THEN c.successCount + 1 ELSE c.successCount
           d == [c EXCEPT !.active = a, !.state = s, !.failures = f, !.successCount = n]
<1>1. a \in Nat
  BY Fields DEF Released, Larger
<1>2. /\ s \in {"CLOSED", "OPEN", "HALF_OPEN"} /\ f \in 0..FailureThreshold
      /\ n \in 0..SuccessThreshold
      /\ s = "CLOSED" <=> f < FailureThreshold
      /\ s = "HALF_OPEN" => n < SuccessThreshold
  BY Fields, BreakerAssumption DEF Closes, Clears
<1>3. Succeeded(c) = d
  BY DEF Succeeded
<1> HIDE DEF a, s, f, n
<1>4. d \in Record /\ d.state = s /\ d.failures = f /\ d.successCount = n
  BY <1>1, <1>2 DEF Sound, Record
<1>5. QED
  BY <1>2, <1>3, <1>4 DEF Sound, Agree

LEMMA FailedSound == ASSUME NEW c, Sound(c) PROVE Sound(Failed(c))
<1> DEFINE a == Released(c)
           f == Smaller(FailureThreshold, c.failures + 1)
           s == IF Trips(c) THEN "OPEN" ELSE c.state
           g == IF Trips(c) THEN 0 ELSE c.age
           d == [c EXCEPT !.active = a, !.failures = f, !.state = s, !.age = g]
<1>1. a \in Nat
  BY Fields DEF Released, Larger
<1>2. /\ s \in {"CLOSED", "OPEN", "HALF_OPEN"} /\ f \in 0..FailureThreshold
      /\ g \in 0..Timeout
      /\ s = "CLOSED" <=> f < FailureThreshold
      /\ s # "HALF_OPEN"
  BY Fields, BreakerAssumption DEF Trips, Smaller
<1>3. Failed(c) = d
  BY DEF Failed
<1> HIDE DEF a, s, f, g
<1>4. d \in Record /\ d.state = s /\ d.failures = f
  BY <1>1, <1>2 DEF Sound, Record
<1>5. QED
  BY <1>2, <1>3, <1>4 DEF Sound, Agree

LEMMA AgedSound ==
    ASSUME NEW c, Sound(c) \/ c = None
    PROVE  (Sound(c) => Sound(Aged(c))) /\ (c = None => Aged(c) = None)
<1>1. ASSUME Sound(c) PROVE Sound(Aged(c))
  <2> DEFINE g == Smaller(Timeout, c.age + 1)
             d == [c EXCEPT !.age = g]
  <2>1. g \in 0..Timeout
    BY <1>1, Fields, BreakerAssumption DEF Smaller
  <2> HIDE DEF g
  <2>2. d \in Record /\ d.state = c.state /\ d.failures = c.failures
        /\ d.successCount = c.successCount
    BY <1>1, <2>1 DEF Sound, Record
  <2>3. Sound(d)
    BY <1>1, <2>2 DEF Sound, Agree
  <2>4. QED
    BY <1>1, <2>3 DEF Aged, g
<1>2. QED
  BY <1>1 DEF Aged

\* What Update does to a record it may change.
LEMMA ChangedSound ==
    ASSUME NEW c, Sound(c), NEW method \in {"canRequest", "recordSuccess", "recordFailure", "takeBack"}
    PROVE  Sound(Changed(method, c))
BY AdmittedSound, SucceededSound, FailedSound DEF Changed

-----------------------------------------------------------------------------
\* The inductive invariant: every record is sound wherever it is kept, which is
\* what makes the next change of it sound, and a continuation that runs was
\* handed an object.

SoundRecord == {c \in Record : Agree(c)}

Records ==
    /\ rec \in [Requests -> SoundRecord]
    /\ store \in SoundRecord \cup {None}
    /\ copy \in [Requests -> SoundRecord \cup {None}]

Control ==
    /\ circuits \in [Workers -> Requests \cup {None}]
    /\ pc \in [Requests -> {"idle", "reading", "missed", "got", "writing", "returning", "sent", "calling"}]
    /\ op \in [Requests -> {"canRequest", "recordSuccess", "recordFailure", "takeBack"}]
    /\ ref \in [Requests -> Requests \cup {None}]
    /\ ready \in [Workers -> Seq(Requests)]
    /\ restarts \in 0..MaxRestarts /\ unreported \in [Workers -> 0..MaxUnreported]
    /\ \A r \in Requests : pc[r] = "got" => ref[r] \in Requests

IInv == Records /\ Control

LEMMA Steps ==
    /\ Created \in SoundRecord
    /\ \A c \in SoundRecord : \A method \in {"canRequest", "recordSuccess", "recordFailure", "takeBack"} :
           Changed(method, c) \in SoundRecord
    /\ \A c \in SoundRecord : Aged(c) \in SoundRecord
    /\ Aged(None) = None
BY CreatedSound, ChangedSound, AgedSound DEF SoundRecord, Sound

\* The invariant implies what is to be shown.
LEMMA Strength == IInv => TypeOK /\ CountersAgree
<1> SUFFICES ASSUME IInv PROVE TypeOK /\ CountersAgree
  OBVIOUS
<1>1. TypeOK
  <2>1. SoundRecord \subseteq Record
    BY DEF SoundRecord
  <2>2. /\ rec \in [Requests -> Record] /\ store \in Record \cup {None}
        /\ copy \in [Requests -> Record \cup {None}]
    BY <2>1 DEF IInv, Records
  <2>3. QED
    BY <2>2 DEF IInv, Control, TypeOK
<1>2. CountersAgree
  BY DEF IInv, Records, SoundRecord, CountersAgree
<1>3. QED
  BY <1>1, <1>2

LEMMA Start == Init => IInv
BY Steps, BreakerAssumption DEF Init, IInv, Records, Control

-----------------------------------------------------------------------------
\* One lemma per action.

LEMMA CallStep ==
    ASSUME IInv, NEW r \in Requests,
           NEW method \in {"canRequest", "recordSuccess", "recordFailure", "takeBack"},
           NEW queue \in Seq(Requests), Call(r, method, queue)
    PROVE  IInv'
<1>1. Owner[r] \in Workers
  BY BreakerAssumption
<1>2. Records'
  BY DEF IInv, Records, Call
<1>3. Control'
  BY <1>1 DEF IInv, Control, Call
<1>4. QED
  BY <1>2, <1>3 DEF IInv

LEMMA StoreStep ==
    ASSUME IInv, NEW r \in Requests, StoreRead(r) \/ StoreWrite(r)
    PROVE  IInv'
<1>1. Owner[r] \in Workers
  BY BreakerAssumption
<1>2. CASE StoreRead(r)
  <2>1. Records'
    BY <1>2 DEF IInv, Records, StoreRead
  <2>2. Control'
    BY <1>1, <1>2 DEF IInv, Control, StoreRead
  <2>3. QED
    BY <2>1, <2>2 DEF IInv
<1>3. CASE StoreWrite(r)
  <2>1. Records'
    BY <1>3 DEF IInv, Records, StoreWrite
  <2>2. Control'
    BY <1>1, <1>3 DEF IInv, Control, StoreWrite
  <2>3. QED
    BY <2>1, <2>2 DEF IInv
<1>4. QED
  BY <1>2, <1>3

LEMMA HydrateStep == ASSUME IInv, NEW r \in Requests, Hydrate(r) PROVE IInv'
<1>1. Owner[r] \in Workers
  BY BreakerAssumption
<1>2. Records'
  BY Steps DEF IInv, Records, Hydrate
<1>3. Control'
  BY <1>1 DEF IInv, Control, Hydrate
<1>4. QED
  BY <1>2, <1>3 DEF IInv

LEMMA UpdateStep == ASSUME IInv, NEW r \in Requests, Update(r) PROVE IInv'
<1> DEFINE c == Changed(op[r], rec[ref[r]])
<1>1. Owner[r] \in Workers
  BY BreakerAssumption
<1>2. ref[r] \in Requests /\ op[r] \in {"canRequest", "recordSuccess", "recordFailure", "takeBack"}
  BY DEF Update, IInv, Control
<1>3. c \in SoundRecord
  BY <1>2, Steps DEF IInv, Records
<1>4. /\ rec' = [rec EXCEPT ![ref[r]] = c]
      /\ copy' = [copy EXCEPT ![r] = IF HasStore THEN c ELSE None]
      /\ store' = store
  BY DEF Update
<1>5. Records'
  <2> HIDE DEF c
  <2> QED
    BY <1>2, <1>3, <1>4 DEF IInv, Records
<1>6. Control'
  BY <1>1, <1>2 DEF IInv, Control, Update
<1>7. QED
  BY <1>5, <1>6 DEF IInv

LEMMA TurnStep ==
    ASSUME IInv, NEW r \in Requests, Refuse(r) \/ Return(r) \/ Wait(r) \/ FallBack(r)
    PROVE  IInv'
<1>1. Owner[r] \in Workers
  BY BreakerAssumption
<1>2. Records'
  BY DEF IInv, Records, Refuse, Return, Wait, FallBack
<1>3. CASE Refuse(r)
  BY <1>1, <1>2, <1>3 DEF IInv, Control, Refuse
<1>4. CASE Return(r)
  BY <1>1, <1>2, <1>4 DEF IInv, Control, Return
<1>5. CASE Wait(r)
  BY <1>2, <1>5 DEF IInv, Control, Wait
<1>6. CASE FallBack(r)
  BY <1>1, <1>2, <1>6, BreakerAssumption DEF IInv, Control, FallBack
<1>7. QED
  BY <1>3, <1>4, <1>5, <1>6

LEMMA TickStep == ASSUME IInv, Tick PROVE IInv'
<1>1. Records'
  BY Steps DEF IInv, Records, Tick
<1>2. Control'
  BY DEF IInv, Control, Tick
<1>3. QED
  BY <1>1, <1>2 DEF IInv

LEMMA RestartStep == ASSUME IInv, NEW w \in Workers, Restart(w) PROVE IInv'
<1>1. Records'
  BY Steps DEF IInv, Records, Restart
<1>2. Control'
  BY BreakerAssumption DEF IInv, Control, Restart
<1>3. QED
  BY <1>1, <1>2 DEF IInv

LEMMA Inductive == IInv /\ [Next]_vars => IInv'
<1> SUFFICES ASSUME IInv, [Next]_vars PROVE IInv'
  OBVIOUS
<1>1. ASSUME NEW r \in Requests, CanRequest(r) PROVE IInv'
  BY <1>1, CallStep, BreakerAssumption DEF CanRequest, IInv, Control
<1>2. ASSUME NEW r \in Requests, Step(r) PROVE IInv'
  <2>1. ASSUME NEW method \in {"recordSuccess", "recordFailure"}, Settle(r, method) PROVE IInv'
    BY <2>1, CallStep, BreakerAssumption DEF Settle, IInv, Control
  <2>2. ASSUME TakeBack(r) PROVE IInv'
    <3>1. Tail(ready[Owner[r]]) \in Seq(Requests)
      BY <2>2, BreakerAssumption DEF TakeBack, IInv, Control
    <3>2. QED
      BY <2>2, <3>1, CallStep DEF TakeBack
  <2>3. QED
    BY <1>2, <2>1, <2>2, StoreStep, HydrateStep, UpdateStep, TurnStep DEF Step
<1>3. ASSUME NEW w \in Workers, Restart(w) PROVE IInv'
  BY <1>3, RestartStep
<1>4. CASE Tick
  BY <1>4, TickStep
<1>5. CASE UNCHANGED vars
  BY <1>5 DEF vars, IInv, Records, Control
<1>6. QED
  BY <1>1, <1>2, <1>3, <1>4, <1>5 DEF Next

LEMMA Invariance == Spec => []IInv
<1>1. QED
  BY Start, Inductive, PTL DEF Spec

-----------------------------------------------------------------------------
\* No interleaving of the awaits, and no stale copy, brings a record out of
\* its type: `active` is never negative, whatever the order of the reports.
THEOREM TypeCorrect == Spec => []TypeOK
BY Invariance, Strength, PTL

\* Wherever a record is kept, in a process, in the store or on its way between
\* them, its counters fit its state: the circuit is closed exactly when fewer
\* than FailureThreshold failures have been counted since it was last cleared.
THEOREM Agreement == Spec => []CountersAgree
BY Invariance, Strength, PTL
-----------------------------------------------------------------------------
\* A process without a store.  Requests that race to be the first each create an
\* object; the objects are alike until the first report, and by then, a turn of the
\* event loop later, all but one of them are forgotten.

Own(w) == {r \in Requests : Owner[r] = w}
Flying(r) ==
    \/ pc[r] \in {"sent", "calling"}
    \/ op[r] = "canRequest" /\ pc[r] \in {"writing", "returning"}
    \/ op[r] \in {"recordSuccess", "recordFailure"} /\ pc[r] \in {"reading", "missed", "got"}
Told(r) ==
    \/ op[r] = "recordSuccess" /\ pc[r] \in {"writing", "returning"}
    \/ op[r] = "takeBack" /\ pc[r] \in {"reading", "missed", "got"}
InFlightAt(w) == {r \in Own(w) : Flying(r)}
ReportedAt(w) == {r \in Own(w) : Told(r)}

\* What a record of process w may count.
Counted(w) == Cardinality(InFlightAt(w)) + unreported[w]

StoreLess == \A r \in Requests : pc[r] \notin {"reading", "writing"} /\ copy[r] = None
Linked ==
    /\ \A w \in Workers : circuits[w] # None => circuits[w] \in Own(w)
    /\ \A r \in Requests : pc[r] = "got" => ref[r] \in Own(Owner[r])
Queued ==
    \A r \in Requests :
        pc[r] \in {"missed", "got", "returning"} => r \in Range(ready[Owner[r]])

\* Before the first report: every object counts admissions and nothing else.
Fresh(w) ==
    \A r \in Own(w) :
        /\ pc[r] # "idle" => op[r] = "canRequest" /\ pc[r] # "calling"
        /\ pc[r] \in {"returning", "sent"} => circuits[w] # None
        /\ rec[r].state = "CLOSED" /\ rec[r].failures = 0 /\ rec[r].successCount = 0 /\ rec[r].age = 0
        /\ rec[r].active <= Counted(w)

\* From then on: one object is left, in the map and in every continuation.
Settled(w) ==
    /\ circuits[w] # None
    /\ \A r \in Own(w) : pc[r] # "missed" /\ (pc[r] = "got" => ref[r] = circuits[w])
    /\ rec[circuits[w]].active <= Counted(w)
    /\ rec[circuits[w]].state # "OPEN" => rec[circuits[w]].age = 0

Solo ==
    /\ IInv /\ StoreLess /\ Linked /\ Queued
    /\ IsFiniteSet(InFlight)
    /\ \A w \in Workers : Fresh(w) \/ Settled(w)

LEMMA Queue ==
    ASSUME NEW S, NEW q \in Seq(S), NEW x \in S
    PROVE  /\ Range(Append(q, x)) = Range(q) \cup {x}
           /\ q # <<>> => Range(q) \subseteq Range(Tail(q)) \cup {Head(q)}
<1>1. Range(Append(q, x)) = Range(q) \cup {x}
  <2>1. /\ DOMAIN Append(q, x) = DOMAIN q \cup {Len(q) + 1} /\ Append(q, x)[Len(q) + 1] = x
        /\ \A i \in DOMAIN q : Append(q, x)[i] = q[i]
    OBVIOUS
  <2>2. QED
    BY <2>1 DEF Range
<1>2. ASSUME q # <<>> PROVE Range(q) \subseteq Range(Tail(q)) \cup {Head(q)}
  <2> SUFFICES ASSUME NEW i \in 1..Len(q), q[i] # Head(q) PROVE q[i] \in Range(Tail(q))
    BY DEF Range
  <2>1. i # 1 /\ i - 1 \in 1..Len(Tail(q)) /\ Tail(q)[i - 1] = q[i]
    BY <1>2
  <2>2. DOMAIN Tail(q) = 1..Len(Tail(q))
    BY <1>2
  <2>3. QED
    BY <2>1, <2>2 DEF Range
<1>3. QED
  BY <1>1, <1>2

LEMMA FlyingHere ==
    /\ InFlight = {r \in Requests : Flying(r)} /\ Reported = {r \in Requests : Told(r)}
    /\ \A w \in Workers : InFlightAt(w) = {r \in InFlight : Owner[r] = w}
    /\ IsFiniteSet(InFlight) =>
           \A w \in Workers : /\ IsFiniteSet(InFlightAt(w)) /\ Cardinality(InFlightAt(w)) \in Nat
                              /\ Cardinality(InFlightAt(w)) <= Cardinality(InFlight)
<1>1. InFlight = {r \in Requests : Flying(r)} /\ Reported = {r \in Requests : Told(r)}
  BY DEF InFlight, Flying, Reported, Told
<1>2. \A w \in Workers : InFlightAt(w) = {r \in InFlight : Owner[r] = w}
  BY <1>1 DEF InFlightAt, Own
<1>3. ASSUME IsFiniteSet(InFlight), NEW w \in Workers
      PROVE  /\ IsFiniteSet(InFlightAt(w)) /\ Cardinality(InFlightAt(w)) \in Nat
             /\ Cardinality(InFlightAt(w)) <= Cardinality(InFlight)
  <2>1. InFlightAt(w) \subseteq InFlight
    BY <1>2
  <2>2. QED
    BY <1>3, <2>1, FS_Subset, FS_CardinalityType
<1>4. QED
  BY <1>1, <1>2, <1>3

LEMMA Counts ==
    ASSUME Solo, NEW w \in Workers
    PROVE  /\ IsFiniteSet(InFlightAt(w)) /\ Cardinality(InFlightAt(w)) \in Nat
           /\ unreported[w] \in Nat /\ Counted(w) \in Nat
<1>1. IsFiniteSet(InFlightAt(w)) /\ Cardinality(InFlightAt(w)) \in Nat
  BY FlyingHere DEF Solo
<1>2. unreported[w] \in 0..MaxUnreported
  BY DEF Solo, IInv, Control
<1>3. QED
  BY <1>1, <1>2 DEF Counted

\* What happens in one process is nothing to another.
LEMMA Elsewhere ==
    ASSUME Solo, NEW w \in Workers, circuits'[w] = circuits[w],
           unreported'[w] = unreported[w],
           \A r \in Own(w) : rec'[r] = rec[r] /\ pc'[r] = pc[r] /\ op'[r] = op[r] /\ ref'[r] = ref[r]
    PROVE  /\ Here(w)' = Here(w)
           /\ InFlightAt(w)' = InFlightAt(w) /\ ReportedAt(w)' = ReportedAt(w)
           /\ (Fresh(w) \/ Settled(w))'
<1>1. /\ InFlightAt(w)' = InFlightAt(w) /\ ReportedAt(w)' = ReportedAt(w)
      /\ Counted(w)' = Counted(w)
  BY DEF InFlightAt, ReportedAt, Own, Flying, Told, Counted
<1>2. circuits[w] # None => circuits[w] \in Own(w)
  BY DEF Solo, Linked
<1>3. Here(w)' = Here(w)
  BY <1>2 DEF Here
<1>4. ASSUME Fresh(w) PROVE Fresh(w)'
  BY <1>1, <1>4 DEF Fresh, Own
<1>5. ASSUME Settled(w) PROVE Settled(w)'
  BY <1>1, <1>2, <1>5 DEF Settled, Own
<1>6. QED
  BY <1>1, <1>3, <1>4, <1>5 DEF Solo

\* The other processes, of a step of request r.
LEMMA OtherProcess ==
    ASSUME Solo, NEW r \in Requests, NEW w \in Workers, w # Owner[r],
           \A v \in Workers \ {Owner[r]} : circuits'[v] = circuits[v] /\ unreported'[v] = unreported[v],
           \A q \in Requests : Owner[q] # Owner[r] =>
               rec'[q] = rec[q] /\ pc'[q] = pc[q] /\ op'[q] = op[q] /\ ref'[q] = ref[q]
    PROVE  /\ Here(w)' = Here(w)
           /\ InFlightAt(w)' = InFlightAt(w) /\ ReportedAt(w)' = ReportedAt(w)
           /\ (Fresh(w) \/ Settled(w))'
<1>1. circuits'[w] = circuits[w] /\ unreported'[w] = unreported[w]
  OBVIOUS
<1>2. \A q \in Own(w) : rec'[q] = rec[q] /\ pc'[q] = pc[q] /\ op'[q] = op[q] /\ ref'[q] = ref[q]
  BY DEF Own
<1>3. QED
  BY <1>1, <1>2, Elsewhere

LEMMA SoloCall ==
    ASSUME ~HasStore, Solo, NEW r \in Requests,
           NEW method \in {"canRequest", "recordSuccess", "recordFailure", "takeBack"},
           NEW queue, Call(r, method, queue),
           \/ pc[r] = "idle" /\ method = "canRequest" /\ queue = ready[Owner[r]]
           \/ pc[r] = "calling" /\ method \in {"recordSuccess", "recordFailure"} /\ queue = ready[Owner[r]]
           \/ /\ pc[r] = "returning" /\ op[r] = "recordSuccess" /\ method = "takeBack"
              /\ ready[Owner[r]] # <<>> /\ r = Head(ready[Owner[r]]) /\ queue = Tail(ready[Owner[r]])
    PROVE  Solo' /\ InFlight' = InFlight /\ Reported' = Reported
<1> DEFINE w == Owner[r]
<1>1. w \in Workers /\ r \in Own(w)
  BY BreakerAssumption DEF Own
<1>a. /\ queue \in Seq(Requests)
      /\ \A q \in Requests \ {r} : q \in Range(ready[w]) => q \in Range(queue)
  <2>1. ready[w] \in Seq(Requests)
    BY <1>1 DEF Solo, IInv, Control
  <2>2. CASE queue = ready[w]
    BY <2>1, <2>2
  <2>3. CASE ready[w] # <<>> /\ r = Head(ready[w]) /\ queue = Tail(ready[w])
    <3>1. Range(ready[w]) \subseteq Range(Tail(ready[w])) \cup {Head(ready[w])}
      BY <2>1, <2>3, Queue
    <3>2. QED
      BY <2>1, <2>3, <3>1
  <2>4. QED
    BY <2>2, <2>3
<1>2. IInv'
  BY <1>a, CallStep DEF Solo
<1>3. /\ op' = [op EXCEPT ![r] = method] /\ ref' = [ref EXCEPT ![r] = circuits[w]]
      /\ pc' = [pc EXCEPT ![r] = IF circuits[w] # None THEN "got" ELSE "missed"]
      /\ ready' = [ready EXCEPT ![w] = Append(queue, r)]
      /\ UNCHANGED <<rec, circuits, store, copy, restarts, unreported>>
  BY DEF Call
<1>4. StoreLess'
  BY <1>3 DEF Solo, StoreLess, IInv, Control
<1>5. Linked'
  BY <1>1, <1>3 DEF Solo, Linked, IInv, Control
<1>6. Queued'
  <2>1. /\ ready'[w] = Append(queue, r) /\ Range(ready'[w]) = Range(queue) \cup {r}
        /\ \A v \in Workers \ {w} : ready'[v] = ready[v]
    BY <1>1, <1>a, <1>3, Queue DEF Solo, IInv, Control
  <2>2. QED
    BY <1>a, <1>3, <2>1, BreakerAssumption DEF Solo, Queued, IInv, Control
<1>7. \A q \in Requests : Flying(q)' = Flying(q) /\ Told(q)' = Told(q)
  BY <1>1, <1>3 DEF Flying, Told, Solo, IInv, Control
<1>8. /\ InFlight' = InFlight /\ InFlightAt(w)' = InFlightAt(w) /\ Counted(w)' = Counted(w)
      /\ Reported' = Reported
  BY <1>3, <1>7, FlyingHere DEF InFlight, Flying, Reported, Told, InFlightAt, Own, Counted
<1>9. (Fresh(w) \/ Settled(w))'
  <2>1. CASE Settled(w)
    BY <1>1, <1>3, <1>8, <2>1 DEF Settled, Own, Solo, IInv, Control
  <2>2. CASE Fresh(w)
    BY <1>1, <1>3, <1>8, <2>2 DEF Fresh, Own, Solo, IInv, Control
  <2>3. QED
    BY <1>1, <2>1, <2>2 DEF Solo
<1>10. \A v \in Workers : (Fresh(v) \/ Settled(v))'
  BY <1>3, <1>9, OtherProcess DEF Solo, IInv, Control
<1>11. QED
  BY <1>2, <1>4, <1>5, <1>6, <1>8, <1>10 DEF Solo

LEMMA SoloHydrate ==
    ASSUME ~HasStore, Solo, NEW r \in Requests, Hydrate(r)
    PROVE  /\ Solo' /\ InFlight' = InFlight /\ Reported' = Reported
           /\ Fresh(Owner[r]) /\ Fresh(Owner[r])'
<1> DEFINE w == Owner[r]
<1>1. w \in Workers /\ r \in Own(w)
  BY BreakerAssumption DEF Own
<1>2. IInv'
  BY HydrateStep DEF Solo
<1>3. /\ pc[r] = "missed" /\ ready[w] # <<>> /\ r = Head(ready[w])
      /\ rec' = [rec EXCEPT ![r] = Created]
      /\ circuits' = [circuits EXCEPT ![w] = r] /\ ref' = [ref EXCEPT ![r] = r]
      /\ pc' = [pc EXCEPT ![r] = "got"] /\ copy' = [copy EXCEPT ![r] = None]
      /\ ready' = [ready EXCEPT ![w] = Append(Tail(@), r)] /\ op' = op
      /\ unreported' = unreported
  BY DEF Hydrate, Solo, StoreLess
<1>4. StoreLess'
  BY <1>3 DEF Solo, StoreLess, IInv, Control
<1>5. Linked'
  BY <1>1, <1>3 DEF Solo, Linked, IInv, Control
<1>6. Queued'
  <2>1. /\ Range(ready[w]) \subseteq Range(Tail(ready[w])) \cup {r}
        /\ Range(Append(Tail(ready[w]), r)) = Range(Tail(ready[w])) \cup {r}
    <3>1. ready[w] \in Seq(Requests) /\ Tail(ready[w]) \in Seq(Requests)
      BY <1>1, <1>3 DEF Solo, IInv, Control
    <3>2. Range(Append(Tail(ready[w]), r)) = Range(Tail(ready[w])) \cup {r}
      BY <3>1, Queue, Zenon
    <3>3. ready[w] # <<>> => Range(ready[w]) \subseteq Range(Tail(ready[w])) \cup {Head(ready[w])}
      BY <3>1, Queue
    <3>4. QED
      BY <1>3, <3>2, <3>3
  <2>2. /\ Range(ready[w]) \subseteq Range(ready'[w]) /\ r \in Range(ready'[w])
        /\ \A v \in Workers \ {w} : ready'[v] = ready[v]
    BY <1>1, <1>3, <2>1 DEF Solo, IInv, Control
  <2>3. QED
    BY <1>3, <2>2, BreakerAssumption DEF Solo, Queued, IInv, Control
<1>7. \A q \in Requests : Flying(q)' = Flying(q) /\ Told(q)' = Told(q)
  BY <1>1, <1>3 DEF Flying, Told, Solo, IInv, Control
<1>8. /\ InFlight' = InFlight /\ InFlightAt(w)' = InFlightAt(w) /\ Counted(w)' = Counted(w)
      /\ Reported' = Reported
  BY <1>3, <1>7, FlyingHere DEF InFlight, Flying, Reported, Told, InFlightAt, Own, Counted
<1>9. Fresh(w) /\ Fresh(w)'
  <2>1. Fresh(w)
    BY <1>1, <1>3 DEF Solo, Settled
  <2>2. 0 <= Counted(w)
    BY <1>1, Counts
  <2>3. \A q \in Own(w) : rec'[q] = IF q = r THEN Created ELSE rec[q]
    BY <1>3 DEF Own, Solo, IInv, Records
  <2>4. ASSUME NEW q \in Own(w)
        PROVE  /\ pc'[q] # "idle" => op'[q] = "canRequest" /\ pc'[q] # "calling"
               /\ circuits'[w] # None
               /\ rec'[q].state = "CLOSED" /\ rec'[q].failures = 0 /\ rec'[q].successCount = 0
               /\ rec'[q].age = 0 /\ rec'[q].active <= Counted(w)
    <3>1. CASE q = r
      <4>1. rec'[q] = Created
        BY <2>3, <3>1
      <4>2. pc'[q] = "got" /\ op'[q] = op[q] /\ circuits'[w] = r
        BY <1>1, <1>3, <3>1 DEF Solo, IInv, Control
      <4>3. op[q] = "canRequest"
        BY <1>1, <1>3, <2>1, <3>1 DEF Fresh
      <4>4. circuits'[w] # None
        BY <4>2, BreakerAssumption
      <4>5. /\ rec'[q].state = "CLOSED" /\ rec'[q].failures = 0 /\ rec'[q].successCount = 0
            /\ rec'[q].age = 0 /\ rec'[q].active = 0
        BY <4>1 DEF Created
      <4>6. QED
        BY <2>2, <4>2, <4>3, <4>4, <4>5
    <3>2. CASE q # r
      BY <1>1, <1>3, <2>1, <2>3, <3>2, BreakerAssumption DEF Fresh, Own, Solo, IInv, Control
    <3>3. QED
      BY <3>1, <3>2
  <2>5. QED
    BY <1>8, <2>1, <2>4 DEF Fresh, Own
<1>10. \A v \in Workers : (Fresh(v) \/ Settled(v))'
  BY <1>3, <1>9, OtherProcess DEF Solo, IInv, Control, Records
<1>11. QED
  BY <1>2, <1>4, <1>5, <1>6, <1>8, <1>9, <1>10 DEF Solo

\* Whoever is at the end of the queue's turn finds nobody pending.
LEMMA SoloTurn ==
    ASSUME ~HasStore, Solo, NEW r \in Requests, Refuse(r) \/ Return(r) \/ Wait(r)
    PROVE  /\ Solo' /\ InFlight' = InFlight
           /\ Reported' = Reported \/ (r \in Reported /\ Reported' = Reported \ {r})
<1> DEFINE w == Owner[r]
<1>1. w \in Workers /\ r \in Own(w)
  BY BreakerAssumption DEF Own
<1>2. IInv'
  BY TurnStep DEF Solo
<1>3. /\ UNCHANGED <<rec, circuits, op, copy, unreported>>
      /\ \A q \in Requests \ {r} : pc'[q] = pc[q] /\ ref'[q] = ref[q]
      /\ \A v \in Workers \ {w} : ready'[v] = ready[v]
      /\ \/ /\ pc[r] = "got" /\ op[r] = "canRequest" /\ pc'[r] = "idle"
            /\ ready[w] # <<>> /\ r = Head(ready[w]) /\ ready'[w] = Tail(ready[w])
         \/ /\ pc[r] = "returning" /\ pc'[r] = IF op[r] = "canRequest" THEN "sent" ELSE "idle"
            /\ ref' = ref
            /\ ready[w] # <<>> /\ r = Head(ready[w]) /\ ready'[w] = Tail(ready[w])
         \/ /\ pc[r] = "sent" /\ pc'[r] = "calling" /\ ref' = ref
            /\ ready[w] = <<>> /\ ready' = ready
  BY <1>1 DEF Refuse, Return, Wait, Solo, IInv, Control
<1>4. StoreLess'
  BY <1>3 DEF Solo, StoreLess
<1>5. Linked'
  BY <1>1, <1>3 DEF Solo, Linked
<1>6. Queued'
  <2>1. ready[w] # <<>> => Range(ready[w]) \subseteq Range(Tail(ready[w])) \cup {Head(ready[w])}
    BY <1>1, Queue DEF Solo, IInv, Control
  <2>2. \A q \in Requests \ {r} : q \in Range(ready[Owner[q]]) => q \in Range(ready'[Owner[q]])
    BY <1>3, <2>1, BreakerAssumption
  <2>3. pc'[r] \notin {"missed", "got", "returning"}
    BY <1>3
  <2>4. QED
    BY <1>3, <2>2, <2>3 DEF Solo, Queued
<1>7. /\ \A q \in Requests : Flying(q)' = Flying(q)
      /\ \A q \in Requests \ {r} : Told(q)' = Told(q)
      /\ Told(r)' => Told(r)
  BY <1>1, <1>3 DEF Flying, Told
<1>8. /\ InFlight' = InFlight /\ InFlightAt(w)' = InFlightAt(w) /\ Counted(w)' = Counted(w)
      /\ Reported' = Reported \/ (r \in Reported /\ Reported' = Reported \ {r})
  <2>1. /\ InFlight' = InFlight /\ InFlightAt(w)' = InFlightAt(w) /\ Counted(w)' = Counted(w)
    BY <1>3, <1>7, FlyingHere DEF InFlight, Flying, InFlightAt, Own, Counted
  <2>2. Reported = {q \in Requests : Told(q)} /\ Reported' = {q \in Requests : Told(q)'}
    BY DEF Reported, Told
  <2>3. QED
    BY <1>7, <2>1, <2>2
<1>9. (Fresh(w) \/ Settled(w))'
  <2>1. ASSUME Settled(w) PROVE Settled(w)'
    BY <1>1, <1>3, <1>8, <2>1 DEF Settled, Own
  <2>2. ASSUME Fresh(w), pc[r] # "sent" PROVE Fresh(w)'
    BY <1>1, <1>3, <1>8, <2>2 DEF Fresh, Own
  <2>3. ASSUME Fresh(w), pc[r] = "sent" PROVE Settled(w)'
    <3>1. \A q \in Own(w) : pc[q] \notin {"missed", "got", "returning"}
      <4>1. Range(ready[w]) = {}
        BY <1>3, <2>3 DEF Range
      <4>2. QED
        BY <4>1 DEF Own, Solo, Queued
    <3>2. circuits[w] # None /\ circuits[w] \in Own(w)
      BY <1>1, <2>3 DEF Fresh, Solo, Linked
    <3>3. QED
      BY <1>1, <1>3, <1>8, <2>3, <3>1, <3>2 DEF Fresh, Settled, Own
  <2>4. QED
    BY <1>1, <2>1, <2>2, <2>3 DEF Solo
<1>10. \A v \in Workers : (Fresh(v) \/ Settled(v))'
  <2>1. \A q \in Requests : Owner[q] # w => pc'[q] = pc[q] /\ ref'[q] = ref[q]
    BY <1>3
  <2>2. QED
    BY <1>3, <1>9, <2>1, OtherProcess
<1>11. QED
  BY <1>2, <1>4, <1>5, <1>6, <1>8, <1>10 DEF Solo

\* A request that the cache answers is in flight no more, and still counted.
LEMMA SoloFallBack ==
    ASSUME ~HasStore, Solo, NEW r \in Requests, FallBack(r)
    PROVE  /\ Solo' /\ Reported' = Reported
           /\ r \in InFlight /\ InFlight' = InFlight \ {r}
<1> DEFINE w == Owner[r]
<1>1. w \in Workers /\ r \in Own(w)
  BY BreakerAssumption DEF Own
<1>2. IInv'
  BY TurnStep DEF Solo
<1>3. /\ pc[r] = "calling" /\ pc' = [pc EXCEPT ![r] = "idle"]
      /\ UNCHANGED <<rec, circuits, op, ref, copy, ready>>
      /\ unreported'[w] = unreported[w] + 1
      /\ \A v \in Workers \ {w} : unreported'[v] = unreported[v]
  BY <1>1 DEF FallBack, Solo, IInv, Control
<1>4. StoreLess' /\ Linked' /\ Queued'
  BY <1>3 DEF Solo, StoreLess, Linked, Queued, IInv, Control, Own
<1>5. /\ \A q \in Requests : Told(q)' = Told(q)
      /\ \A q \in Requests \ {r} : Flying(q)' = Flying(q)
      /\ Flying(r) /\ ~Flying(r)'
  BY <1>3 DEF Flying, Told, Solo, IInv, Control
<1>6. /\ InFlight = {q \in Requests : Flying(q)} /\ InFlight' = {q \in Requests : Flying(q)'}
      /\ InFlightAt(w) = {q \in Own(w) : Flying(q)} /\ InFlightAt(w)' = {q \in Own(w) : Flying(q)'}
      /\ Reported = {q \in Requests : Told(q)} /\ Reported' = {q \in Requests : Told(q)'}
  BY DEF InFlight, Flying, InFlightAt, Own, Reported, Told
<1>7. /\ r \in InFlight /\ InFlight' = InFlight \ {r} /\ Reported' = Reported
      /\ r \in InFlightAt(w) /\ InFlightAt(w)' = InFlightAt(w) \ {r}
  BY <1>1, <1>5, <1>6 DEF Own
<1>8. IsFiniteSet(InFlight)'
  BY <1>7, FS_RemoveElement DEF Solo
<1>9. Counted(w)' = Counted(w)
  <2>1. IsFiniteSet(InFlightAt(w)) /\ Cardinality(InFlightAt(w)) \in Nat /\ unreported[w] \in Nat
    BY <1>1, Counts
  <2>2. Cardinality(InFlightAt(w)') = Cardinality(InFlightAt(w)) - 1
    BY <1>7, <2>1, FS_RemoveElement
  <2>3. QED
    BY <1>3, <2>1, <2>2 DEF Counted
<1>10. Settled(w)'
  <2>1. Settled(w)
    BY <1>1, <1>3 DEF Solo, Fresh
  <2>2. QED
    BY <1>1, <1>3, <1>9, <2>1 DEF Settled, Own, Solo, IInv, Control
<1>11. \A v \in Workers : (Fresh(v) \/ Settled(v))'
  BY <1>3, <1>10, OtherProcess DEF Solo, IInv, Control
<1>12. QED
  BY <1>2, <1>4, <1>7, <1>8, <1>11 DEF Solo

\* An admission is counted once in flight and once in some object; a report takes
\* one off both, and a report after a success one off the object.
LEMMA SoloUpdate ==
    ASSUME ~HasStore, Solo, NEW r \in Requests, Update(r)
    PROVE  /\ Solo'
           /\ circuits'[Owner[r]] = ref[r] /\ ref[r] \in Own(Owner[r])
           /\ rec' = [rec EXCEPT ![ref[r]] = Changed(op[r], rec[ref[r]])]
           /\ \/ /\ op[r] = "canRequest" /\ Admits(rec[ref[r]]) /\ r \notin InFlight
                 /\ r \notin Reported /\ InFlight' = InFlight \cup {r} /\ Reported' = Reported
              \/ /\ op[r] = "recordSuccess" /\ r \in InFlight
                 /\ InFlight' = InFlight \ {r} /\ Reported' = Reported \cup {r}
              \/ /\ op[r] = "recordFailure" /\ r \in InFlight
                 /\ InFlight' = InFlight \ {r} /\ Reported' = Reported \ {r}
              \/ /\ op[r] = "takeBack" /\ r \in Reported
                 /\ InFlight' = InFlight \ {r} /\ Reported' = Reported \ {r}
<1> DEFINE w == Owner[r]
           o == ref[r]
           c == Changed(op[r], rec[o])
<1>1. w \in Workers /\ r \in Own(w)
  BY BreakerAssumption DEF Own
<1>2. IInv'
  BY UpdateStep DEF Solo
<1>3. /\ pc[r] = "got" /\ ready[w] # <<>> /\ r = Head(ready[w])
      /\ op[r] = "canRequest" => Admits(rec[o])
      /\ rec' = [rec EXCEPT ![o] = c]
      /\ circuits' = [circuits EXCEPT ![w] = o] /\ ref' = [ref EXCEPT ![r] = None]
      /\ pc' = [pc EXCEPT ![r] = "returning"] /\ copy' = [copy EXCEPT ![r] = None]
      /\ ready' = [ready EXCEPT ![w] = Append(Tail(@), r)] /\ op' = op
      /\ unreported' = unreported
  BY DEF Update
<1>4. o \in Own(w) /\ o \in Requests
  BY <1>3 DEF Solo, Linked, Own
<1>5. StoreLess'
  BY <1>3 DEF Solo, StoreLess, IInv, Control
<1>6. Linked'
  BY <1>1, <1>3, <1>4 DEF Solo, Linked, IInv, Control
<1>7. Queued'
  <2>1. ready[w] \in Seq(Requests) /\ Tail(ready[w]) \in Seq(Requests)
    BY <1>1, <1>3 DEF Solo, IInv, Control
  <2>2. Range(Append(Tail(ready[w]), r)) = Range(Tail(ready[w])) \cup {r}
    BY <2>1, Queue, Zenon
  <2>3. ready[w] # <<>> => Range(ready[w]) \subseteq Range(Tail(ready[w])) \cup {Head(ready[w])}
    BY <2>1, Queue
  <2>4. /\ Range(ready[w]) \subseteq Range(ready'[w]) /\ r \in Range(ready'[w])
        /\ \A v \in Workers \ {w} : ready'[v] = ready[v]
    BY <1>1, <1>3, <2>2, <2>3 DEF Solo, IInv, Control
  <2>5. QED
    BY <1>3, <2>4, BreakerAssumption DEF Solo, Queued, IInv, Control
<1>8. /\ \A q \in Requests \ {r} : Flying(q)' = Flying(q)
      /\ op[r] = "canRequest" => ~Flying(r) /\ Flying(r)'
      /\ op[r] # "canRequest" => ~Flying(r)' /\ (Flying(r) <=> op[r] # "takeBack")
      /\ \A q \in Requests \ {r} : Told(q)' = Told(q)
      /\ Told(r) <=> op[r] = "takeBack"
      /\ Told(r)' <=> op[r] = "recordSuccess"
  BY <1>3 DEF Flying, Told, Solo, IInv, Control
<1>9. /\ InFlight = {q \in Requests : Flying(q)} /\ InFlight' = {q \in Requests : Flying(q)'}
      /\ InFlightAt(w) = {q \in Own(w) : Flying(q)} /\ InFlightAt(w)' = {q \in Own(w) : Flying(q)'}
      /\ Reported = {q \in Requests : Told(q)} /\ Reported' = {q \in Requests : Told(q)'}
  BY DEF InFlight, Flying, InFlightAt, Own, Reported, Told
<1>10. /\ op[r] = "canRequest" => r \notin InFlight /\ InFlight' = InFlight \cup {r}
       /\ op[r] # "canRequest" =>
              InFlight' = InFlight \ {r} /\ (r \in InFlight <=> op[r] # "takeBack")
       /\ r \in Reported <=> op[r] = "takeBack"
       /\ op[r] # "recordSuccess" => Reported' = Reported \ {r}
       /\ op[r] = "recordSuccess" => Reported' = Reported \cup {r}
  BY <1>8, <1>9
<1>11. /\ op[r] = "canRequest" => r \notin InFlightAt(w) /\ InFlightAt(w)' = InFlightAt(w) \cup {r}
       /\ op[r] # "canRequest" =>
              InFlightAt(w)' = InFlightAt(w) \ {r} /\ (r \in InFlightAt(w) <=> op[r] # "takeBack")
  BY <1>1, <1>8, <1>9 DEF Own
<1>12. IsFiniteSet(InFlight)'
  BY <1>10, FS_AddElement, FS_RemoveElement DEF Solo
<1> DEFINE n == Counted(w)
           m == Counted(w)'
<1>13. /\ n \in Nat /\ m \in Nat
       /\ op[r] = "canRequest" => m = n + 1
       /\ op[r] # "canRequest" => m = n - 1 \/ m = n
  <2>1. /\ IsFiniteSet(InFlightAt(w)) /\ Cardinality(InFlightAt(w)) \in Nat
        /\ unreported[w] \in Nat /\ unreported'[w] = unreported[w]
    BY <1>1, <1>3, Counts
  <2>2. CASE op[r] = "canRequest"
    <3>1. Cardinality(InFlightAt(w)') = Cardinality(InFlightAt(w)) + 1
      BY <1>11, <2>1, <2>2, FS_AddElement
    <3>2. QED
      BY <2>1, <2>2, <3>1 DEF Counted
  <2>3. CASE op[r] \notin {"canRequest", "takeBack"}
    <3>1. IsFiniteSet(InFlightAt(w)') /\ Cardinality(InFlightAt(w)') = Cardinality(InFlightAt(w)) - 1
      BY <1>11, <2>1, <2>3, FS_RemoveElement
    <3>2. Cardinality(InFlightAt(w)') \in Nat
      BY <3>1, FS_CardinalityType
    <3>3. QED
      BY <2>1, <2>3, <3>1, <3>2 DEF Counted
  <2>4. CASE op[r] = "takeBack"
    BY <1>11, <2>1, <2>4 DEF Counted
  <2>5. QED
    BY <2>2, <2>3, <2>4
<1>14. rec[o] \in Record /\ c.active \in Nat /\ rec[o].active \in Nat
       /\ (op[r] = "canRequest" => c.active = rec[o].active + 1)
       /\ (op[r] # "canRequest" => c.active = Larger(0, rec[o].active - 1))
  <2>1. rec[o] \in Record
    BY <1>4 DEF Solo, IInv, Records, SoundRecord
  <2>2. op[r] \in {"canRequest", "recordSuccess", "recordFailure", "takeBack"}
    BY DEF Solo, IInv, Control
  <2>3. rec[o].active \in Nat
    BY <2>1 DEF Record
  <2>4. op[r] = "canRequest" => c.active = rec[o].active + 1
    BY <2>1 DEF Changed, Admitted, Record
  <2>5. op[r] # "canRequest" => c.active = Larger(0, rec[o].active - 1)
    BY <2>1, <2>2 DEF Changed, Succeeded, Failed, Released, Record
  <2> HIDE DEF c
  <2>6. QED
    BY <2>1, <2>3, <2>4, <2>5 DEF Larger
<1>15. \A q \in Requests : rec'[q] = IF q = o THEN c ELSE rec[q]
  BY <1>3, <1>4 DEF Solo, IInv, Records
<1>16. c.active <= m \/ rec[o].active > n
  BY <1>13, <1>14 DEF Larger
<1>17. ASSUME Settled(w) PROVE Settled(w)'
  <2>1. o = circuits[w] /\ rec[o].active <= n /\ (rec[o].state # "OPEN" => rec[o].age = 0)
    BY <1>1, <1>3, <1>17 DEF Settled
  <2>2. c.active <= m
    <3> HIDE DEF n, m, c, o
    <3> QED
      BY <1>13, <1>14, <1>16, <2>1
  <2>3. c.state # "OPEN" => c.age = 0
    <3>1. op[r] \in {"canRequest", "recordSuccess", "recordFailure", "takeBack"} /\ rec[o] \in Record
      BY <1>14 DEF Solo, IInv, Control
    <3>2. QED
      BY <2>1, <3>1 DEF Changed, Admitted, Succeeded, Failed, Record, Closes, Trips
  <2>4. circuits'[w] = o /\ rec'[o] = c /\ o # None
    BY <1>1, <1>3, <1>4, <1>15, BreakerAssumption DEF Solo, IInv, Control
  <2>5. \A q \in Own(w) : pc'[q] # "missed" /\ (pc'[q] = "got" => ref'[q] = o)
    BY <1>1, <1>3, <1>17, <2>1 DEF Settled, Own, Solo, IInv, Control
  <2> HIDE DEF c, o
  <2>6. QED
    BY <2>2, <2>3, <2>4, <2>5 DEF Settled, Own
<1>18. ASSUME Fresh(w) PROVE Fresh(w)' /\ op[r] = "canRequest"
  <2>1. op[r] = "canRequest"
    BY <1>1, <1>3, <1>18 DEF Fresh
  <2>2. c = Admitted(rec[o]) /\ rec[o].state = "CLOSED" /\ rec[o].failures = 0
        /\ rec[o].successCount = 0 /\ rec[o].active <= n
    BY <1>4, <1>18, <2>1 DEF Fresh, Changed
  <2>3. c.state = "CLOSED" /\ c.failures = 0 /\ c.successCount = 0 /\ c.age = 0
    BY <1>14, <2>2 DEF Admitted, Record
  <2>4. c.active <= m /\ n <= m
    <3> HIDE DEF n, m, c, o
    <3> QED
      BY <1>13, <1>14, <1>16, <2>1, <2>2
  <2>5. \A q \in Own(w) : rec[q].active <= n /\ rec[q].active \in Nat
    BY <1>18 DEF Fresh, Own, Solo, IInv, Records, SoundRecord, Record
  <2>6. circuits'[w] # None
    BY <1>1, <1>3, <1>4, BreakerAssumption DEF Solo, IInv, Control
  <2>7. ASSUME NEW q \in Own(w)
        PROVE  /\ pc'[q] # "idle" => op'[q] = "canRequest" /\ pc'[q] # "calling"
               /\ rec'[q].state = "CLOSED" /\ rec'[q].failures = 0 /\ rec'[q].successCount = 0
               /\ rec'[q].age = 0 /\ rec'[q].active <= m
    <3> HIDE DEF n, m, c, o
    <3>1. pc'[q] # "idle" => op'[q] = "canRequest" /\ pc'[q] # "calling"
      BY <1>3, <1>18, <2>1 DEF Fresh, Own, Solo, IInv, Control
    <3>2. CASE q = o
      BY <1>15, <2>3, <2>4, <3>1, <3>2 DEF Own
    <3>3. CASE q # o
      BY <1>13, <1>15, <1>18, <2>1, <2>4, <2>5, <3>1, <3>3 DEF Fresh, Own
    <3>4. QED
      BY <3>2, <3>3
  <2>8. QED
    BY <2>1, <2>6, <2>7 DEF Fresh, Own
<1>19. (Fresh(w) \/ Settled(w))' /\ (op[r] # "canRequest" => Settled(w))
  BY <1>1, <1>17, <1>18 DEF Solo
<1>20. \A v \in Workers : (Fresh(v) \/ Settled(v))'
  <2>1. \A v \in Workers \ {w} : circuits'[v] = circuits[v] /\ unreported'[v] = unreported[v]
    BY <1>3 DEF Solo, IInv, Control
  <2>2. \A q \in Requests : Owner[q] # w =>
            rec'[q] = rec[q] /\ pc'[q] = pc[q] /\ op'[q] = op[q] /\ ref'[q] = ref[q]
    BY <1>3, <1>4, <1>15 DEF Own, Solo, IInv, Control
  <2>3. QED
    BY <1>19, <2>1, <2>2, OtherProcess
<1>21. circuits'[w] = o
  BY <1>1, <1>3 DEF Solo, IInv, Control
<1>22. Solo'
  BY <1>2, <1>5, <1>6, <1>7, <1>12, <1>20 DEF Solo
<1>23. Admits(rec[o]) \/ op[r] # "canRequest"
  BY <1>3
<1>24. op[r] \in {"canRequest", "recordSuccess", "recordFailure", "takeBack"}
  BY DEF Solo, IInv, Control
<1>25. /\ circuits'[w] = o /\ o \in Own(w) /\ rec' = [rec EXCEPT ![o] = c]
  BY <1>3, <1>4, <1>21
<1>26. CASE op[r] = "canRequest"
  <2>1. Reported' = Reported /\ r \notin Reported
    BY <1>10, <1>26
  <2>2. QED
    BY <1>10, <1>22, <1>23, <1>25, <1>26, <2>1
<1>27. CASE op[r] = "recordSuccess"
  BY <1>10, <1>22, <1>25, <1>27
<1>28. CASE op[r] = "recordFailure"
  BY <1>10, <1>22, <1>25, <1>28
<1>29. CASE op[r] = "takeBack"
  BY <1>10, <1>22, <1>25, <1>29
<1>30. QED
  BY <1>24, <1>26, <1>27, <1>28, <1>29

LEMMA SoloTick == ASSUME ~HasStore, Solo, Tick
    PROVE  Solo' /\ InFlight' = InFlight /\ Reported' = Reported
<1>1. IInv'
  BY TickStep DEF Solo
<1>2. /\ \A r \in Requests : rec'[r] = Aged(rec[r]) /\ copy'[r] = Aged(copy[r])
      /\ UNCHANGED <<circuits, pc, op, ref, ready, unreported>>
  BY DEF Tick
<1>3. StoreLess' /\ Linked' /\ Queued'
  BY <1>2, Steps DEF Solo, StoreLess, Linked, Queued, Own
<1>4. /\ InFlight' = InFlight /\ Reported' = Reported
      /\ \A w \in Workers : Counted(w)' = Counted(w)
  BY <1>2 DEF InFlight, Reported, Counted, InFlightAt, Own, Flying
<1>5. \A r \in Requests : /\ rec'[r].state = rec[r].state /\ rec'[r].active = rec[r].active
                          /\ rec[r].state # "OPEN" => rec'[r] = rec[r]
  BY <1>2, BreakerAssumption DEF Aged, Solo, IInv, Records, SoundRecord, Record
<1>6. ASSUME NEW w \in Workers PROVE (Fresh(w) \/ Settled(w))'
  <2>1. ASSUME Fresh(w) PROVE Fresh(w)'
    BY <1>2, <1>4, <1>5, <2>1 DEF Fresh, Own
  <2>2. ASSUME Settled(w) PROVE Settled(w)'
    <3>1. circuits[w] \in Requests
      BY <2>2 DEF Settled, Solo, IInv, Control
    <3>2. QED
      BY <1>2, <1>4, <1>5, <2>2, <3>1 DEF Settled, Own
  <2>3. QED
    BY <2>1, <2>2 DEF Solo
<1>7. QED
  BY <1>1, <1>3, <1>4, <1>6 DEF Solo

\* A process that starts again knows nothing of what its requests had counted.
LEMMA SoloRestart == ASSUME ~HasStore, Solo, NEW v \in Workers, Restart(v) PROVE Solo'
<1>1. IInv'
  BY RestartStep DEF Solo
<1>2. /\ \A r \in Own(v) : rec'[r] = Created /\ pc'[r] = "idle" /\ copy'[r] = None
      /\ \A r \in Requests \ Own(v) :
             rec'[r] = rec[r] /\ pc'[r] = pc[r] /\ ref'[r] = ref[r] /\ copy'[r] = copy[r]
      /\ op' = op /\ circuits'[v] = None /\ unreported'[v] = 0
      /\ \A w \in Workers \ {v} : /\ circuits'[w] = circuits[w] /\ ready'[w] = ready[w]
                                 /\ unreported'[w] = unreported[w]
  BY DEF Restart, Own, Solo, IInv, Control
<1>3. StoreLess'
  BY <1>2 DEF Solo, StoreLess, Own
<1>4. Linked'
  <2>1. \A w \in Workers : circuits'[w] # None => circuits'[w] \in Own(w)
    BY <1>2 DEF Solo, Linked
  <2>2. \A r \in Requests : pc'[r] = "got" => ref'[r] \in Own(Owner[r])
    BY <1>2 DEF Solo, Linked
  <2>3. QED
    BY <2>1, <2>2 DEF Linked, Own
<1>5. Queued'
  BY <1>2, BreakerAssumption DEF Solo, Queued, Own
<1>6. /\ \A r \in Requests : Flying(r)' => Flying(r)
      /\ \A r \in Own(v) : ~Flying(r)'
  BY <1>2 DEF Flying
<1>7. InFlight' \subseteq InFlight /\ IsFiniteSet(InFlight)' /\ InFlightAt(v)' = {}
  <2>1. InFlight' \subseteq InFlight
    BY <1>6 DEF InFlight, Flying
  <2>2. InFlightAt(v)' = {}
    BY <1>6 DEF InFlightAt, Own
  <2>3. QED
    BY <2>1, <2>2, FS_Subset DEF Solo
<1>8. Fresh(v)'
  <2>1. Counted(v)' = 0
    BY <1>2, <1>7, FS_EmptySet DEF Counted
  <2>2. QED
    BY <1>2, <2>1 DEF Fresh, Created, Own
<1>9. \A w \in Workers \ {v} : (Fresh(w) \/ Settled(w))'
  <2>1. \A w \in Workers \ {v} : /\ circuits'[w] = circuits[w] /\ unreported'[w] = unreported[w]
                                  /\ \A r \in Own(w) : r \in Requests \ Own(v)
    BY <1>2 DEF Own
  <2>2. QED
    BY <1>2, <2>1, Elsewhere
<1>10. QED
  BY <1>1, <1>3, <1>4, <1>5, <1>7, <1>8, <1>9 DEF Solo

\* Every step of a process without a store, as the record it would hand out sees it.
Quiet == UNCHANGED <<rec, circuits>> /\ InFlight' = InFlight /\ Reported' = Reported
Leaves(r) ==
    /\ UNCHANGED <<rec, circuits>> /\ r \in InFlight \cup Reported
    /\ InFlight' = InFlight \ {r} /\ Reported' = Reported \ {r}

\* A request is in flight, or has reported, or neither.
LEMMA Apart == InFlight \cap Reported = {}
  BY DEF InFlight, Reported

LEMMA SoloSteps ==
    ASSUME ~HasStore, Solo, [Next]_vars
    PROVE  Solo' /\ \/ Quiet
                    \/ \E r \in Requests : Hydrate(r)
                    \/ \E r \in Requests : Leaves(r)
                    \/ \E r \in Requests : Update(r)
                    \/ Tick
                    \/ \E w \in Workers : Restart(w)
<1>1. ASSUME NEW r \in Requests, CanRequest(r) PROVE Solo' /\ Quiet
  BY <1>1, SoloCall DEF CanRequest, Call, Quiet
<1>2. ASSUME NEW r \in Requests, NEW method \in {"recordSuccess", "recordFailure"}, Settle(r, method)
      PROVE  Solo' /\ Quiet
  BY <1>2, SoloCall DEF Settle, Call, Quiet
<1>3. ASSUME NEW r \in Requests, TakeBack(r) PROVE Solo' /\ Quiet
  BY <1>3, SoloCall DEF TakeBack, Call, Quiet
<1>4. ASSUME NEW r \in Requests, Refuse(r) \/ Return(r) \/ Wait(r)
      PROVE  Solo' /\ (Quiet \/ Leaves(r))
  <2>1. UNCHANGED <<rec, circuits>>
    BY <1>4 DEF Refuse, Return, Wait
  <2>2. /\ Solo' /\ InFlight' = InFlight
        /\ Reported' = Reported \/ (r \in Reported /\ Reported' = Reported \ {r})
    BY <1>4, SoloTurn
  <2>3. r \in Reported => InFlight = InFlight \ {r}
    BY Apart
  <2>4. QED
    BY <2>1, <2>2, <2>3 DEF Quiet, Leaves
<1>5. ASSUME NEW r \in Requests, FallBack(r) PROVE Solo' /\ Leaves(r)
  <2>1. UNCHANGED <<rec, circuits>>
    BY <1>5 DEF FallBack
  <2>2. Solo' /\ Reported' = Reported /\ r \in InFlight /\ InFlight' = InFlight \ {r}
    BY <1>5, SoloFallBack
  <2>3. Reported = Reported \ {r}
    BY <2>2, Apart
  <2>4. QED
    BY <2>1, <2>2, <2>3 DEF Leaves
<1>6. ASSUME NEW r \in Requests PROVE ~StoreRead(r) /\ ~StoreWrite(r)
  BY DEF Solo, StoreLess, StoreRead, StoreWrite
<1>7. ASSUME NEW r \in Requests, Hydrate(r) PROVE Solo'
  BY <1>7, SoloHydrate
<1>8. ASSUME NEW r \in Requests, Update(r) PROVE Solo'
  BY <1>8, SoloUpdate
<1>9. ASSUME UNCHANGED vars PROVE Solo' /\ Quiet
  <2>1. InFlight' = InFlight /\ Reported' = Reported
    BY <1>9 DEF vars, InFlight, Reported
  <2>2. IInv' /\ StoreLess' /\ Linked' /\ Queued'
    BY <1>9, Inductive DEF vars, Solo, StoreLess, Linked, Queued, Own
  <2>3. \A w \in Workers : (Fresh(w) \/ Settled(w))'
    BY <1>9, Elsewhere DEF vars
  <2>4. QED
    BY <1>9, <2>1, <2>2, <2>3 DEF vars, Solo, Quiet
<1>10. ASSUME NEW r \in Requests, Step(r)
       PROVE  Solo' /\ (Quiet \/ Hydrate(r) \/ Leaves(r) \/ Update(r))
  BY <1>2, <1>3, <1>4, <1>5, <1>6, <1>7, <1>8, <1>10 DEF Step
<1>11. CASE Next
  BY <1>1, <1>10, <1>11, SoloTick, SoloRestart DEF Next
<1>12. QED
  BY <1>9, <1>11

LEMMA SoloStarts == Init => Solo
<1> SUFFICES ASSUME Init PROVE Solo
  OBVIOUS
<1>1. IInv
  BY Start
<1>2. StoreLess /\ Linked /\ Queued
  BY DEF Init, StoreLess, Linked, Queued
<1>3. InFlight = {} /\ \A w \in Workers : InFlightAt(w) = {}
  BY DEF Init, InFlight, InFlightAt, Own, Flying
<1>4. \A w \in Workers : Fresh(w)
  <2> SUFFICES ASSUME NEW w \in Workers, NEW r \in Own(w)
               PROVE  pc[r] = "idle" /\ rec[r] = Created /\ 0 <= Counted(w)
    BY DEF Fresh, Created
  <2>1. Counted(w) = 0
    <3>1. Cardinality(InFlightAt(w)) = 0 /\ unreported[w] = 0
      BY <1>3, FS_EmptySet DEF Init
    <3>2. QED
      BY <3>1 DEF Counted
  <2>2. QED
    BY <2>1 DEF Init, Own
<1>5. QED
  BY <1>1, <1>2, <1>3, <1>4, FS_EmptySet DEF Solo

LEMMA SoloHolds == ASSUME ~HasStore PROVE Spec => []Solo
<1>1. Init => Solo
  BY SoloStarts
<1>2. Solo /\ [Next]_vars => Solo'
  BY SoloSteps
<1>3. QED
  BY <1>1, <1>2, PTL DEF Spec

LEMMA SoloGivesBack == Solo => ActiveNotLeaked
<1> SUFFICES ASSUME Solo, NEW w \in Workers
             PROVE  Here(w).active <= Cardinality(InFlight) + unreported[w]
  BY DEF ActiveNotLeaked
<1> DEFINE n == Cardinality(InFlightAt(w))
           m == Cardinality(InFlight)
<1>1. n \in Nat /\ n <= m /\ m \in Nat /\ unreported[w] \in Nat
  BY FlyingHere, FS_CardinalityType DEF Solo, IInv, Control
<1>2. CASE circuits[w] = None
  BY <1>1, <1>2 DEF Here, Created
<1>3. CASE circuits[w] # None
  <2>1. circuits[w] \in Own(w) /\ Here(w) = rec[circuits[w]]
    BY <1>3 DEF Solo, Linked, Here
  <2>2. Here(w).active <= n + unreported[w] /\ Here(w).active \in Nat
    BY <2>1 DEF Counted, Solo, Fresh, Settled, IInv, Records, SoundRecord, Record, Own
  <2>3. QED
    BY <1>1, <2>2
<1>4. QED
  BY <1>2, <1>3

\* Without a store, for any number of processes that may die and start again, a
\* record counts, besides requests in flight, only those of its process that ended on
\* a response of the cache: the objects that racing requests overwrite take their
\* counts with them, and none is written again.
THEOREM NeverLeaked == ASSUME ~HasStore PROVE Spec => []ActiveNotLeaked
BY SoloGivesBack, SoloHolds, PTL

\* What BreakerProtocol says, of the record that process w would hand to a new call.
Promised(w) ==
    INSTANCE BreakerProtocol WITH
        state <- Here(w).state, failures <- Here(w).failures, successes <- Here(w).successCount,
        age <- Here(w).age, inFlight <- InFlightAt(w), reported <- ReportedAt(w)

LEMMA PromiseStarts == ASSUME NEW w \in Workers PROVE Init => Promised(w)!AInit
<1> SUFFICES ASSUME Init PROVE Promised(w)!AInit
  OBVIOUS
<1>1. Here(w) = Created
  BY DEF Init, Here
<1>2. InFlightAt(w) = {} /\ ReportedAt(w) = {}
  BY DEF Init, InFlightAt, ReportedAt, Own, Flying, Told
<1>3. QED
  BY <1>1, <1>2 DEF Promised!AInit, Created

\* The three methods, each as the protocol describes it.
LEMMA AdmitMeets ==
    ASSUME NEW c, Sound(c), c.state # "OPEN" => c.age = 0, Admits(c), NEW d, d = Admitted(c)
    PROVE  /\ d.failures = c.failures
           /\ \/ c.state # "OPEN" /\ d.state = c.state /\ d.successCount = c.successCount /\ d.age = c.age
              \/ c.state = "OPEN" /\ c.age = Timeout /\ d.state = "HALF_OPEN" /\ d.successCount = 0 /\ d.age = 0
  BY Fields, BreakerAssumption DEF Admits, Admitted, Sound, Record

LEMMA SuccessMeets ==
    ASSUME NEW c, Sound(c), NEW d, d = Succeeded(c)
    PROVE  /\ d.age = c.age
           /\ \/ /\ c.state = "CLOSED" /\ d.failures = 0 /\ d.state = c.state
                 /\ d.successCount = c.successCount
              \/ /\ c.state = "OPEN" /\ d.state = c.state /\ d.failures = c.failures
                 /\ d.successCount = c.successCount
              \/ /\ c.state = "HALF_OPEN" /\ c.successCount + 1 < SuccessThreshold
                 /\ d.successCount = c.successCount + 1 /\ d.state = c.state /\ d.failures = c.failures
              \/ /\ c.state = "HALF_OPEN" /\ c.successCount + 1 >= SuccessThreshold
                 /\ d.state = "CLOSED" /\ d.failures = 0 /\ d.successCount = 0
  BY Fields, BreakerAssumption DEF Succeeded, Closes, Clears, Sound, Record

LEMMA FailureMeets ==
    ASSUME NEW c, Sound(c), NEW d, d = Failed(c)
    PROVE  /\ d.successCount = c.successCount
           /\ \/ /\ c.state = "CLOSED" /\ c.failures + 1 < FailureThreshold
                 /\ d.failures = c.failures + 1 /\ d.state = c.state /\ d.age = c.age
              \/ /\ c.state # "CLOSED" \/ c.failures + 1 = FailureThreshold
                 /\ d.state = "OPEN" /\ d.failures = FailureThreshold /\ d.age = 0
  BY Fields, BreakerAssumption DEF Failed, Trips, Smaller, Sound, Record

\* What a new call and a continuation that was handed its object see is the same.
LEMMA SameRecord ==
    ASSUME Solo, NEW r \in Requests, pc[r] = "got", NEW w \in Workers, w = Owner[r]
    PROVE  /\ Here(w).state = rec[ref[r]].state /\ Here(w).failures = rec[ref[r]].failures
           /\ Here(w).successCount = rec[ref[r]].successCount /\ Here(w).age = rec[ref[r]].age
           /\ Sound(rec[ref[r]]) /\ (rec[ref[r]].state # "OPEN" => rec[ref[r]].age = 0)
<1>1. r \in Own(w) /\ ref[r] \in Own(w) /\ (circuits[w] # None => circuits[w] \in Own(w))
  BY DEF Own, Solo, Linked
<1>2. Sound(rec[ref[r]])
  BY <1>1 DEF Own, Solo, IInv, Records, SoundRecord, Sound
<1>3. CASE Settled(w)
  BY <1>1, <1>2, <1>3 DEF Settled, Here
<1>4. CASE Fresh(w)
  BY <1>1, <1>2, <1>4 DEF Fresh, Here, Created
<1>5. QED
  BY <1>3, <1>4 DEF Solo

LEMMA Airborne ==
    ASSUME NEW w \in Workers
    PROVE  /\ InFlightAt(w) = {r \in InFlight : Owner[r] = w}
           /\ InFlightAt(w)' = {r \in InFlight' : Owner[r] = w}
           /\ ReportedAt(w) = {r \in Reported : Owner[r] = w}
           /\ ReportedAt(w)' = {r \in Reported' : Owner[r] = w}
  BY DEF InFlightAt, ReportedAt, Own, InFlight, Reported, Flying, Told

LEMMA UpdateMeets ==
    ASSUME ~HasStore, Solo, NEW r \in Requests, Update(r), NEW w \in Workers
    PROVE  [Promised(w)!ANext]_(Promised(w)!avars)
<1> DEFINE o == ref[r]
           c == rec[o]
           d == Changed(op[r], c)
<1>1. /\ pc[r] = "got" /\ circuits'[Owner[r]] = o /\ o \in Own(Owner[r])
      /\ rec' = [rec EXCEPT ![o] = d] /\ op[r] \in {"canRequest", "recordSuccess", "recordFailure", "takeBack"}
      /\ circuits' = [circuits EXCEPT ![Owner[r]] = o]
  BY SoloUpdate DEF Update, Solo, IInv, Control
<1>2. \/ /\ op[r] = "canRequest" /\ Admits(c) /\ r \notin InFlight \cup Reported
         /\ InFlight' = InFlight \cup {r} /\ Reported' = Reported
      \/ /\ op[r] = "recordSuccess" /\ r \in InFlight
         /\ InFlight' = InFlight \ {r} /\ Reported' = Reported \cup {r}
      \/ /\ op[r] \in {"recordFailure", "takeBack"} /\ r \in InFlight \cup Reported
         /\ InFlight' = InFlight \ {r} /\ Reported' = Reported \ {r}
  BY SoloUpdate
<1>3. CASE w # Owner[r]
  <2>1. InFlightAt(w)' = InFlightAt(w) /\ ReportedAt(w)' = ReportedAt(w)
    <3>1. /\ \A q \in Requests \ {r} : q \in InFlight' <=> q \in InFlight
          /\ \A q \in Requests \ {r} : q \in Reported' <=> q \in Reported
      BY <1>2
    <3>2. /\ InFlight \subseteq Requests /\ Reported \subseteq Requests
          /\ InFlight' \subseteq Requests /\ Reported' \subseteq Requests
      BY DEF InFlight, Reported
    <3>3. InFlightAt(w)' = InFlightAt(w)
      BY <1>3, <3>1, <3>2, Airborne
    <3>4. ReportedAt(w)' = ReportedAt(w)
      BY <1>3, <3>1, <3>2, Airborne
    <3>5. QED
      BY <3>3, <3>4
  <2>2. Here(w)' = Here(w)
    <3>1. circuits'[w] = circuits[w] /\ (circuits[w] # None => circuits[w] \in Own(w))
      BY <1>1, <1>3 DEF Solo, Linked, IInv, Control
    <3>2. circuits[w] # None => circuits[w] # o /\ circuits[w] \in Requests
      BY <1>1, <1>3, <3>1 DEF Own
    <3>3. QED
      BY <1>1, <3>1, <3>2 DEF Here, Solo, IInv, Records
  <2>3. QED
    BY <2>1, <2>2 DEF Promised!avars
<1>4. CASE w = Owner[r]
  <2>1. /\ Here(w).state = c.state /\ Here(w).failures = c.failures
        /\ Here(w).successCount = c.successCount /\ Here(w).age = c.age
        /\ Sound(c) /\ (c.state # "OPEN" => c.age = 0)
    BY <1>1, <1>4, SameRecord
  <2>2. Here(w)' = d
    <3>1. o # None /\ rec'[o] = d /\ circuits'[w] = o
      BY <1>1, <1>4, BreakerAssumption DEF Own, Solo, IInv, Records
    <3> HIDE DEF o, d
    <3>2. QED
      BY <3>1 DEF Here
  <2>3. /\ op[r] = "canRequest" =>
               /\ r \notin InFlightAt(w) \cup ReportedAt(w)
               /\ InFlightAt(w)' = InFlightAt(w) \cup {r} /\ ReportedAt(w)' = ReportedAt(w)
        /\ op[r] = "recordSuccess" =>
               /\ r \in InFlightAt(w)
               /\ InFlightAt(w)' = InFlightAt(w) \ {r} /\ ReportedAt(w)' = ReportedAt(w) \cup {r}
        /\ op[r] \in {"recordFailure", "takeBack"} =>
               /\ r \in InFlightAt(w) \cup ReportedAt(w)
               /\ InFlightAt(w)' = InFlightAt(w) \ {r} /\ ReportedAt(w)' = ReportedAt(w) \ {r}
    BY <1>2, <1>4, Airborne
  <2>4. CASE op[r] = "canRequest"
    <3>1. d = Admitted(c) /\ Admits(c)
      BY <1>2, <2>4 DEF Changed
    <3>2. Promised(w)!Admit(r)
      <4> HIDE DEF c, d
      <4> QED
        BY <2>1, <2>2, <2>3, <2>4, <3>1, AdmitMeets DEF Promised!Admit
    <3>3. QED
      BY <3>2 DEF Promised!ANext
  <2>5. CASE op[r] = "recordSuccess"
    <3>1. d = Succeeded(c)
      BY <2>5 DEF Changed
    <3>2. Promised(w)!Success(r)
      <4> HIDE DEF c, d
      <4> QED
        BY <2>1, <2>2, <2>3, <2>5, <3>1, SuccessMeets DEF Promised!Success
    <3>3. QED
      BY <3>2 DEF Promised!ANext
  <2>6. CASE op[r] \in {"recordFailure", "takeBack"}
    <3>1. d = Failed(c)
      BY <2>6 DEF Changed
    <3>2. Promised(w)!Failure(r)
      <4> HIDE DEF c, d
      <4> QED
        BY <2>1, <2>2, <2>3, <2>6, <3>1, FailureMeets DEF Promised!Failure
    <3>3. QED
      BY <3>2 DEF Promised!ANext
  <2>7. QED
    BY <1>1, <2>4, <2>5, <2>6
<1>5. QED
  BY <1>3, <1>4

LEMMA HydrateMeets ==
    ASSUME ~HasStore, Solo, NEW r \in Requests, Hydrate(r), NEW w \in Workers
    PROVE  UNCHANGED Promised(w)!avars
<1>1. /\ Solo' /\ InFlight' = InFlight /\ Reported' = Reported /\ Fresh(Owner[r]) /\ Fresh(Owner[r])'
      /\ rec' = [rec EXCEPT ![r] = Created] /\ circuits' = [circuits EXCEPT ![Owner[r]] = r]
  BY SoloHydrate DEF Hydrate, Solo, StoreLess
<1>2. InFlightAt(w)' = InFlightAt(w) /\ ReportedAt(w)' = ReportedAt(w)
  BY <1>1, Airborne
<1>3. CASE w # Owner[r]
  <2>1. Here(w)' = Here(w)
    BY <1>1, <1>3 DEF Here, Solo, Linked, Own, IInv, Control, Records
  <2>2. QED
    BY <1>2, <2>1 DEF Promised!avars
<1>4. CASE w = Owner[r]
  <2>1. circuits[w] # None => circuits[w] \in Own(w)
    BY DEF Solo, Linked
  <2>2. /\ Here(w).state = "CLOSED" /\ Here(w).failures = 0 /\ Here(w).successCount = 0
        /\ Here(w).age = 0
    BY <1>1, <1>4, <2>1 DEF Fresh, Here, Created
  <2>3. Here(w)' = Created
    BY <1>1, <1>4, BreakerAssumption DEF Here, Solo, IInv, Control, Records
  <2>4. QED
    BY <1>2, <2>2, <2>3 DEF Promised!avars, Created
<1>5. QED
  BY <1>3, <1>4

LEMMA TickMeets ==
    ASSUME ~HasStore, Solo, Tick, NEW w \in Workers
    PROVE  [Promised(w)!ANext]_(Promised(w)!avars)
<1> DEFINE c == Here(w)
<1>1. Sound(c) /\ Here(w)' = Aged(c)
  <2>1. CASE circuits[w] = None
    BY <2>1, CreatedSound, BreakerAssumption DEF Here, Tick, Aged, Created
  <2>2. CASE circuits[w] # None
    BY <2>2 DEF Here, Tick, Solo, IInv, Records, Control, SoundRecord, Sound
  <2>3. QED
    BY <2>1, <2>2
<1>2. InFlightAt(w)' = InFlightAt(w) /\ ReportedAt(w)' = ReportedAt(w)
  BY SoloTick, Airborne
<1> HIDE DEF c
<1>3. CASE c.state = "OPEN" /\ c.age < Timeout /\ c # None
  <2>1. Aged(c) = [c EXCEPT !.age = c.age + 1]
    BY <1>1, <1>3, Fields, BreakerAssumption DEF Aged, Smaller
  <2>2. Promised(w)!Elapse
    BY <1>1, <1>2, <1>3, <2>1 DEF Promised!Elapse, c, Sound, Record
  <2>3. QED
    BY <2>2 DEF Promised!ANext
<1>4. CASE ~(c.state = "OPEN" /\ c.age < Timeout /\ c # None)
  <2>1. Aged(c).state = c.state /\ Aged(c).failures = c.failures
        /\ Aged(c).successCount = c.successCount /\ Aged(c).age = c.age
    BY <1>1, <1>4, Fields, BreakerAssumption DEF Aged, Smaller, Sound, Record
  <2>2. QED
    BY <1>1, <1>2, <2>1 DEF Promised!avars, c
<1>5. QED
  BY <1>3, <1>4

\* Every step of a process that stays up is one of the protocol, or none at all.
LEMMA SoloMeets ==
    ASSUME ~HasStore, MaxRestarts = 0, NEW w \in Workers, Solo, [Next]_vars
    PROVE  [Promised(w)!ANext]_(Promised(w)!avars)
<1>1. CASE Quiet
  <2>1. Here(w)' = Here(w) /\ InFlightAt(w)' = InFlightAt(w) /\ ReportedAt(w)' = ReportedAt(w)
    BY <1>1, Airborne DEF Here, Quiet
  <2>2. QED
    BY <2>1 DEF Promised!avars
<1>7. ASSUME NEW r \in Requests, Leaves(r) PROVE [Promised(w)!ANext]_(Promised(w)!avars)
  <2>1. Here(w)' = Here(w)
    BY <1>7 DEF Here, Leaves
  <2>2. CASE Owner[r] # w
    <3>1. InFlightAt(w)' = InFlightAt(w) /\ ReportedAt(w)' = ReportedAt(w)
      BY <1>7, <2>2, Airborne DEF Leaves
    <3>2. QED
      BY <2>1, <3>1 DEF Promised!avars
  <2>3. CASE Owner[r] = w
    <3>1. /\ r \in InFlightAt(w) \cup ReportedAt(w)
          /\ InFlightAt(w)' = InFlightAt(w) \ {r} /\ ReportedAt(w)' = ReportedAt(w) \ {r}
      BY <1>7, <2>3, Airborne DEF Leaves
    <3>2. Promised(w)!Leave(r)
      BY <2>1, <3>1 DEF Promised!Leave
    <3>3. QED
      BY <3>2 DEF Promised!ANext
  <2>4. QED
    BY <2>2, <2>3
<1>2. ASSUME NEW r \in Requests, Hydrate(r) PROVE UNCHANGED Promised(w)!avars
  BY <1>2, HydrateMeets
<1>3. ASSUME NEW r \in Requests, Update(r) PROVE [Promised(w)!ANext]_(Promised(w)!avars)
  BY <1>3, UpdateMeets
<1>4. CASE Tick
  BY <1>4, TickMeets
<1>5. \A v \in Workers : ~Restart(v)
  BY DEF Restart, Solo, IInv, Control
<1>6. QED
  BY <1>1, <1>2, <1>3, <1>4, <1>5, <1>7, SoloSteps

\* Without a store a process that stays up keeps the promise of BreakerProtocol to its
\* callers: whatever the order in which the three asynchronous methods of any number of
\* requests interleave, and however many objects the first of them create, it admits
\* and counts as if each method were one atomic step.
THEOREM KeepsProtocol ==
    ASSUME ~HasStore, MaxRestarts = 0, NEW w \in Workers
    PROVE  Spec => Promised(w)!ASpec
<1>1. Init => Promised(w)!AInit
  BY PromiseStarts
<1>2. Solo /\ [Next]_vars => [Promised(w)!ANext]_(Promised(w)!avars)
  BY SoloMeets
<1>3. QED
  BY <1>1, <1>2, SoloHolds, PTL DEF Spec, Promised!ASpec

-----------------------------------------------------------------------------
\* The same of the deployments that the run puts side by side.

AloneInv == Watched => Solo

LEMMA OneDeployment ==
    ASSUME [MCNext]_MCVars
    PROVE  /\ deployment' = deployment
           /\ Watched => [Next]_vars
  BY DEF MCNext, InAlone, InFleet, MCVars, Watched

LEMMA AloneHolds == ASSUME ~HasStore PROVE MCSpec => []AloneInv
<1>1. MCInit => AloneInv
  BY SoloStarts DEF MCInit, AloneInv
<1>2. AloneInv /\ [MCNext]_MCVars => AloneInv'
  BY OneDeployment, SoloSteps DEF AloneInv, Watched
<1>3. QED
  BY <1>1, <1>2, PTL DEF MCSpec

\* NothingLeaked: for any number of requests of one process without a store, whatever
\* the order in which they create, overwrite and report, and also when they report
\* twice, `active` is at most the number of those in flight and of those that ended on a
\* response of the cache, unreported: only they leak.
THEOREM NoneLeaked == ASSUME ~HasStore PROVE MCSpec => []NothingLeaked
<1>1. AloneInv => NothingLeaked
  BY SoloGivesBack DEF AloneInv, NothingLeaked
<1>2. QED
  BY <1>1, AloneHolds, PTL

LEMMA AllHere ==
    ASSUME \A r \in Requests : Owner[r] = w1
    PROVE  /\ InFlightAt(w1) = InFlight /\ InFlightAt(w1)' = InFlight'
           /\ ReportedAt(w1) = Reported /\ ReportedAt(w1)' = Reported'
  BY DEF InFlightAt, ReportedAt, Own, InFlight, Reported, Flying, Told

\* KeepsPromise: a process without a store that stays up implements BreakerProtocol,
\* however the asynchronous methods of its requests, of any number, interleave.
THEOREM PromiseKept ==
    ASSUME ~HasStore, MaxRestarts = 0, w1 \in Workers, \A r \in Requests : Owner[r] = w1
    PROVE  MCSpec => KeepsPromise
<1>1. MCInit => Promise!AInit
  BY PromiseStarts, AllHere DEF MCInit, Promise!AInit, Promised!AInit, Watched
<1>2. AloneInv /\ [MCNext]_MCVars => [Promise!ANext]_(Promise!avars)
  <2> SUFFICES ASSUME AloneInv, [MCNext]_MCVars PROVE [Promise!ANext]_(Promise!avars)
    OBVIOUS
  <2>1. CASE ~Watched
    BY <2>1, OneDeployment DEF Watched, Promise!avars
  <2>2. CASE Watched
    <3>1. Watched' /\ [Promised(w1)!ANext]_(Promised(w1)!avars)
      BY <2>2, OneDeployment, SoloMeets DEF Watched, AloneInv
    <3>2. CASE UNCHANGED Promised(w1)!avars
      BY <2>2, <3>1, <3>2, AllHere DEF Promised!avars, Promise!avars
    <3>3. CASE Promised(w1)!Elapse
      BY <2>2, <3>1, <3>3, AllHere DEF Promised!Elapse, Promise!Elapse, Promise!ANext
    <3>4. ASSUME NEW r \in Requests, Promised(w1)!Admit(r) PROVE Promise!ANext
      BY <2>2, <3>1, <3>4, AllHere DEF Promised!Admit, Promise!Admit, Promise!ANext
    <3>5. ASSUME NEW r \in Requests, Promised(w1)!Success(r) PROVE Promise!ANext
      BY <2>2, <3>1, <3>5, AllHere DEF Promised!Success, Promise!Success, Promise!ANext
    <3>6. ASSUME NEW r \in Requests, Promised(w1)!Failure(r) PROVE Promise!ANext
      BY <2>2, <3>1, <3>6, AllHere DEF Promised!Failure, Promise!Failure, Promise!ANext
    <3>7. ASSUME NEW r \in Requests, Promised(w1)!Leave(r) PROVE Promise!ANext
      BY <2>2, <3>1, <3>7, AllHere DEF Promised!Leave, Promise!Leave, Promise!ANext
    <3>8. QED
      BY <3>1, <3>2, <3>3, <3>4, <3>5, <3>6, <3>7 DEF Promised!ANext
  <2>3. QED
    BY <2>1, <2>2
<1>3. QED
  BY <1>1, <1>2, AloneHolds, PTL DEF MCSpec, KeepsPromise, Promise!ASpec

-----------------------------------------------------------------------------
\* StateAdapters.  What is promised of a place is kept by an expiry that is no earlier,
\* also by the one that a PEXPIRE on its way will set: time has moved on since.

Timed == {p \in Places : TtlOf(p) > 0}
Commands == {Nothing} \cup [send : {"PEXPIRE"}, place : Timed] \cup [send : {"DEL"}, places : SUBSET Places]
Expires(p) == [send |-> "PEXPIRE", place |-> p]

Kept ==
    \A p \in DOMAIN promised :
        promised[p] # None =>
            /\ p \in Timed => promised[p] <= timeNow + TtlOf(p)
            /\ timeNow <= promised[p] => p \in DOMAIN held
            /\ p \in DOMAIN held => held[p] = None \/ promised[p] <= held[p]

StoreInv ==
    /\ timeNow \in Nat
    /\ DOMAIN held \subseteq Places
    /\ \A p \in DOMAIN held : held[p] \in Nat \cup {None} /\ (p \notin Timed => held[p] = None)
    /\ promised \in [Places -> Nat \cup {None}]
    /\ command \in [Callers -> Commands]
    /\ Kept /\ Lapses

LEMMA TtlType == \A p \in Places : TtlOf(p) \in Nat
  BY StoreAssumption DEF TtlOf

LEMMA InvHonours == StoreInv => TTLHonoured
<1> SUFFICES ASSUME StoreInv, NEW p \in Places, promised[p] # None, timeNow <= promised[p]
             PROVE  Readable(p)
  BY DEF TTLHonoured, KeptForItsTime, StoreInv
<1>1. p \in DOMAIN held /\ (held[p] = None \/ promised[p] <= held[p])
  BY DEF StoreInv, Kept
<1>2. promised[p] \in Nat /\ timeNow \in Nat /\ held[p] \in Nat \cup {None}
  BY <1>1 DEF StoreInv
<1>3. QED
  BY <1>1, <1>2 DEF Readable, Gone

\* A value that is set anew.
LEMMA SetAnew ==
  ASSUME StoreInv, NEW p \in Places, NEW expiry \in Nat \cup {None},
         p \notin Timed => expiry = None,
         p \in Timed /\ expiry # None => expiry = timeNow + TtlOf(p),
         Writes(p, expiry), Promises(p), timeNow' = timeNow,
         command' \in [Callers -> Commands],
         \A c \in Callers, q \in Places : q # p /\ command[c] = Expires(q) => command'[c] = Expires(q),
         p \in Timed => expiry # None \/ \E c \in Callers : command'[c] = Expires(p)
  PROVE  StoreInv'
<1> USE TtlType, StoreAssumption
<1>1. DOMAIN held' = DOMAIN held \cup {p} /\ held'[p] = expiry /\ \A q \in DOMAIN held \ {p} : held'[q] = held[q]
  BY DEF Writes
<1>2. /\ promised' \in [Places -> Nat \cup {None}]
      /\ promised'[p] \in Nat /\ (p \in Timed => promised'[p] = timeNow + TtlOf(p))
      /\ \A q \in Places \ {p} : promised'[q] = promised[q]
  BY DEF Promises, StoreInv, Timed
<1>3. \A q \in DOMAIN held' : held'[q] \in Nat \cup {None} /\ (q \notin Timed => held'[q] = None)
  BY <1>1 DEF StoreInv
<1>4. Kept'
  BY <1>1, <1>2 DEF Kept, StoreInv, Timed, TtlOf
<1>5. Lapses'
  BY <1>1 DEF Lapses, StoreInv, Timed, TtlOf, Promises, Expires
<1>6. QED
  BY <1>1, <1>2, <1>3, <1>4, <1>5 DEF StoreInv, Timed, TtlOf, Commands

\* Values that have expired are dropped, by get or by the sweep.
LEMMA DropStale ==
  ASSUME StoreInv, NEW places \in SUBSET DOMAIN held, \A p \in places : Gone(held[p]),
         Drops(places), UNCHANGED <<timeNow, command, promised, cut>>
  PROVE  StoreInv'
<1> USE TtlType, StoreAssumption
<1>1. DOMAIN held' = DOMAIN held \ places /\ \A q \in DOMAIN held' : held'[q] = held[q]
  BY DEF Drops
<1>2. Kept'
  <2> SUFFICES ASSUME NEW p \in DOMAIN promised, promised[p] # None, p \in places
               PROVE  ~(timeNow <= promised[p])
    BY <1>1 DEF Kept, StoreInv
  <2>1. held[p] # None /\ timeNow > held[p] /\ promised[p] <= held[p]
    BY DEF Gone, StoreInv, Kept
  <2>2. promised[p] \in Nat /\ held[p] \in Nat /\ timeNow \in Nat
    BY <2>1 DEF StoreInv
  <2>3. QED
    BY <2>1, <2>2
<1>3. Lapses'
  BY <1>1 DEF Lapses, StoreInv
<1>4. QED
  BY <1>1, <1>2, <1>3 DEF StoreInv, Timed, TtlOf, Commands

\* Values are removed; nothing is promised of them any more.
LEMMA RemoveSome ==
  ASSUME StoreInv, NEW places \in SUBSET DOMAIN held, Removes(places), timeNow' = timeNow,
         command' \in [Callers -> Commands],
         \A c \in Callers, q \in Places : command[c] = Expires(q) => command'[c] = Expires(q)
  PROVE  StoreInv'
<1> USE TtlType, StoreAssumption
<1>1. DOMAIN held' = DOMAIN held \ places /\ \A q \in DOMAIN held' : held'[q] = held[q]
  BY DEF Removes, Drops
<1>2. /\ promised' \in [Places -> Nat \cup {None}]
      /\ \A q \in Places : promised'[q] = IF q \in places THEN None ELSE promised[q]
  BY DEF Removes, StoreInv
<1>3. Kept'
  BY <1>1, <1>2 DEF Kept, StoreInv
<1>4. Lapses'
  BY <1>1 DEF Lapses, StoreInv, Removes, Expires
<1>5. QED
  BY <1>1, <1>2, <1>3, <1>4 DEF StoreInv, Timed, TtlOf, Commands

\* The PEXPIRE of c arrives, perhaps at a value that another caller has set since.
LEMMA ExpireStep ==
  ASSUME StoreInv, NEW c \in Callers, Expire(c)
  PROVE  StoreInv'
<1> DEFINE p == command[c].place
<1> USE TtlType, StoreAssumption
<1>1. p \in Timed /\ command[c] = Expires(p)
  BY DEF StoreInv, Expire, Commands, Nothing, Expires
<1>2. /\ timeNow' = timeNow /\ promised' = promised /\ cut' = cut
      /\ command' = [command EXCEPT ![c] = Nothing]
  BY DEF Expire, Sends
<1>3. command' \in [Callers -> Commands]
  BY <1>2 DEF StoreInv, Commands
<1>4. \A q \in Places \ {p} : \A d \in Callers : command[d] = Expires(q) => command'[d] = Expires(q)
  BY <1>1, <1>2 DEF Expires, StoreInv
<1>5. CASE Readable(p)
  <2>1. /\ DOMAIN held' = DOMAIN held /\ p \in DOMAIN held /\ held'[p] = timeNow + TtlOf(p)
        /\ \A q \in DOMAIN held \ {p} : held'[q] = held[q]
    BY <1>5 DEF Expire, Writes, Readable
  <2>2. held'[p] \in Nat
    BY <2>1, <1>1 DEF StoreInv, Timed
  <2>3. \A q \in DOMAIN held' : held'[q] \in Nat \cup {None} /\ (q \notin Timed => held'[q] = None)
    BY <2>1, <2>2, <1>1 DEF StoreInv
  <2>4. Kept'
    BY <2>1, <1>1, <1>2 DEF Kept, StoreInv, Timed, TtlOf
  <2>5. Lapses'
    BY <2>1, <2>2, <1>2, <1>4 DEF Lapses, StoreInv, Timed, TtlOf, Expires
  <2>6. QED
    BY <1>2, <1>3, <2>1, <2>3, <2>4, <2>5 DEF StoreInv, Timed, TtlOf, Commands
<1>6. CASE ~Readable(p)
  <2>1. held' = held
    BY <1>6 DEF Expire
  <2>2. p \in DOMAIN held => held[p] # None
    BY <1>6 DEF Readable, Gone
  <2>3. Lapses'
    BY <2>1, <2>2, <1>2, <1>4 DEF Lapses, StoreInv, Timed, TtlOf, Expires
  <2>4. QED
    BY <1>2, <1>3, <2>1, <2>3 DEF StoreInv, Kept, Timed, TtlOf, Commands
<1>7. QED
  BY <1>5, <1>6

\* The rest of a set or a clear is never sent.
LEMMA InterruptedStep ==
  ASSUME StoreInv, NEW c \in Callers, Interrupted(c)
  PROVE  StoreInv'
<1>1. UNCHANGED <<timeNow, held, promised>> /\ command' = [command EXCEPT ![c] = Nothing]
  BY DEF Interrupted, Sends
<1>2. cut \subseteq cut' /\ (command[c].send = "PEXPIRE" => command[c].place \in cut')
  BY DEF Interrupted
<1>3. \A q \in Places \ cut' : \A d \in Callers : command[d] = Expires(q) => command'[d] = Expires(q)
  BY <1>1, <1>2 DEF StoreInv, Expires
<1>4. Lapses'
  BY <1>1, <1>2, <1>3 DEF Lapses, StoreInv, Expires, TtlOf
<1>5. QED
  BY <1>1, <1>4 DEF StoreInv, Kept, Timed, TtlOf, Commands

LEMMA StoreStarts == StoreInit => StoreInv
  BY TtlType, StoreAssumption DEF StoreInit, StoreInv, Commands, Kept, Lapses

LEMMA StoreSteps == StoreInv /\ [StoreNext]_storeVars => StoreInv'
<1> SUFFICES ASSUME StoreInv, [StoreNext]_storeVars PROVE StoreInv'
  OBVIOUS
<1> USE TtlType, StoreAssumption
<1>1. CASE StoreTick
  <2>1. timeNow' = timeNow + 1 /\ UNCHANGED <<held, command, promised, cut>>
    BY <1>1 DEF StoreTick
  <2>2. Kept'
    BY <2>1 DEF Kept, StoreInv, Timed, TtlOf
  <2>3. QED
    BY <2>1, <2>2 DEF StoreInv, Lapses, Timed, TtlOf, Commands
<1>2. CASE Sweep
  BY <1>2, DropStale DEF Sweep
<1>3. ASSUME NEW a \in Adapters, ClearMemory(a) PROVE StoreInv'
  <2> DEFINE own == {p \in DOMAIN held : p.adapter = a}
  <2>1. own \in SUBSET DOMAIN held /\ Removes(own) /\ UNCHANGED <<timeNow, command>>
    BY <1>3 DEF ClearMemory
  <2> HIDE DEF own
  <2>2. QED
    BY <2>1, RemoveSome DEF StoreInv
<1>4. ASSUME NEW p \in Places, SetInMemory(p) PROVE StoreInv'
  <2> DEFINE expiry == IF TtlOf(p) > 0 THEN timeNow + TtlOf(p) ELSE None
  <2>1. Writes(p, expiry) /\ Promises(p) /\ UNCHANGED <<timeNow, command>>
    BY <1>4 DEF SetInMemory
  <2>2. /\ expiry \in Nat \cup {None}
        /\ p \notin Timed => expiry = None
        /\ p \in Timed => expiry = timeNow + TtlOf(p) /\ expiry # None
    BY DEF StoreInv, Timed
  <2> HIDE DEF expiry
  <2>3. QED
    BY <2>1, <2>2, SetAnew DEF StoreInv
<1>5. ASSUME NEW p \in Places, GetFromMemory(p) PROVE StoreInv'
  <2>1. {p} \in SUBSET DOMAIN held
    BY <1>5 DEF GetFromMemory
  <2>2. QED
    BY <1>5, <2>1, DropStale DEF GetFromMemory
<1>6. ASSUME NEW p \in Places, DeleteInMemory(p) PROVE StoreInv'
  <2>1. {p} \in SUBSET DOMAIN held
    BY <1>6 DEF DeleteInMemory
  <2>2. QED
    BY <1>6, <2>1, RemoveSome DEF DeleteInMemory, StoreInv
<1>7. ASSUME NEW c \in Callers, Expire(c) \/ Interrupted(c) PROVE StoreInv'
  BY <1>7, ExpireStep, InterruptedStep
<1>8. ASSUME NEW c \in Callers, Clear(c) PROVE StoreInv'
  <2> DEFINE own == command[c].places \cap DOMAIN held
  <2>1. Removes(own) /\ timeNow' = timeNow /\ command' = [command EXCEPT ![c] = Nothing]
        /\ command[c].send = "DEL"
    BY <1>8 DEF Clear, Sends
  <2>2. own \in SUBSET DOMAIN held /\ command' \in [Callers -> Commands]
    BY <2>1 DEF StoreInv, Commands
  <2>3. \A d \in Callers, q \in Places : command[d] = Expires(q) => command'[d] = Expires(q)
    BY <2>1 DEF StoreInv, Expires
  <2> HIDE DEF own
  <2>4. QED
    BY <2>1, <2>2, <2>3, RemoveSome
<1>9. ASSUME NEW c \in Callers, NEW p \in Places, Set(c, p) PROVE StoreInv'
  <2> DEFINE next == IF TtlOf(p) > 0 THEN Expires(p) ELSE Nothing
  <2>1. /\ Writes(p, None) /\ Promises(p) /\ timeNow' = timeNow
        /\ command[c] = Nothing /\ command' = [command EXCEPT ![c] = next]
    BY <1>9 DEF Set, Sends, Expires
  <2>2. next \in Commands /\ (p \in Timed => next = Expires(p))
    BY DEF Commands, Expires, Timed
  <2>3. \A d \in Callers, q \in Places : command[d] = Expires(q) => command'[d] = Expires(q)
    BY <2>1 DEF StoreInv, Expires, Nothing
  <2>4. command' \in [Callers -> Commands] /\ command'[c] = next
    BY <2>1, <2>2 DEF StoreInv
  <2> HIDE DEF next
  <2>5. QED
    BY <2>1, <2>2, <2>3, <2>4, SetAnew
<1>10. ASSUME NEW c \in Callers, NEW p \in Places, Delete(c, p) PROVE StoreInv'
  <2>1. {p} \in SUBSET DOMAIN held /\ Removes({p}) /\ timeNow' = timeNow /\ command' = command
    BY <1>10 DEF Delete, Readable, Sends, StoreInv
  <2>2. QED
    BY <2>1, RemoveSome DEF StoreInv
<1>11. ASSUME NEW c \in Callers, NEW a \in Adapters, Keys(c, a) PROVE StoreInv'
  <2> DEFINE found == {p \in DOMAIN held : p.adapter = a /\ Readable(p)}
  <2>1. /\ UNCHANGED <<timeNow, held, promised, cut>> /\ command[c] = Nothing
        /\ command' = [command EXCEPT ![c] = [send |-> "DEL", places |-> found]]
    BY <1>11 DEF Keys, Sends
  <2>2. [send |-> "DEL", places |-> found] \in Commands
    BY DEF Commands, StoreInv
  <2>3. command' \in [Callers -> Commands]
    BY <2>1, <2>2 DEF StoreInv
  <2>4. \A d \in Callers, q \in Places : command[d] = Expires(q) => command'[d] = Expires(q)
    BY <2>1 DEF StoreInv, Expires, Nothing
  <2> HIDE DEF found
  <2>5. QED
    BY <2>1, <2>3, <2>4 DEF StoreInv, Kept, Lapses, Expires, Timed, TtlOf, Commands
<1>12. CASE UNCHANGED storeVars
  BY <1>12 DEF storeVars, StoreInv, Kept, Lapses, Timed, TtlOf, Commands
<1>13. QED
  BY <1>1, <1>2, <1>3, <1>4, <1>5, <1>6, <1>7, <1>8, <1>9, <1>10, <1>11, <1>12 DEF StoreNext

\* For any places, TTLs and callers whose commands interleave and may be cut off: a value
\* is there for its time, in memory and in Redis, and not for ever if it has a TTL.
THEOREM Honoured == StoreSpec => []TTLHonoured
BY StoreStarts, StoreSteps, InvHonours, PTL DEF StoreSpec
===============================================================================
