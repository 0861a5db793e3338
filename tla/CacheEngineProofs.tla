--------------------------- MODULE CacheEngineProofs ---------------------------
(***************************************************************************)
(* Theorems about CacheEngine, for any keys, requests, windows, size and   *)
(* strategy; about Failures: which of them are tried again; and about      *)
(* FetchBodies: that what succeeds has moved what its progress told, for   *)
(* bodies in any number of parts of any sizes and any number of attempts.  *)
(***************************************************************************)
EXTENDS CacheEngine, Failures, FetchBodies, Lists, FiniteSetTheorems, TLAPS

Versions == 0..MaxVersion

-----------------------------------------------------------------------------
\* Operators.

LEMMA Windows == FreshTTL \in Nat /\ StaleTTL \in Nat /\ ErrorTTL \in Nat /\ Aeon \in Nat
<1>1. FreshTTL \in Nat
  BY CacheAssumption DEF FreshTTL, Smaller
<1>2. StaleTTL \in Nat
  BY <1>1, CacheAssumption DEF StaleTTL, Larger
<1>3. ErrorTTL \in Nat
  BY CacheAssumption DEF ErrorTTL
<1>4. QED
  BY <1>1, <1>2, <1>3 DEF Aeon, Larger

\* Every way an entry is written leaves one, and only markRevalidating marks it.
LEMMA Written ==
    /\ \A v \in Versions : New(v) \in Entry /\ ~New(v).revalidating
    /\ \A e \in Entry : /\ Touched(e) \in Entry /\ Touched(e).revalidating = e.revalidating
                        /\ Touched(e).etag = e.etag
    /\ \A e \in Entry : Aged(e) \in Entry /\ Aged(e).revalidating = e.revalidating
    /\ \A e \in Entry : Finished(e) \in Entry /\ ~Finished(e).revalidating
    /\ \A e \in Entry : [Touched(e) EXCEPT !.revalidating = TRUE] \in Entry
    /\ \A e \in Entry, t \in Revalidations :
           tag[t] \in Versions => Refreshed(e, t) \in Entry /\ ~Refreshed(e, t).revalidating
<1> DEFINE A == 0..Aeon
<1>1. 0 \in A
  BY Windows
<1>2. \A a \in A : Smaller(Aeon, a + 1) \in A
  BY Windows DEF Smaller
<1> HIDE DEF A
<1>3. Entry = [body : Versions, etag : Versions, age : A, idle : A, revalidating : BOOLEAN]
  BY DEF Entry, Versions, A
<1> HIDE DEF Versions
<1>4. \A v \in Versions : New(v) \in Entry /\ ~New(v).revalidating
  BY <1>1, <1>3 DEF New
<1>5. \A e \in Entry : /\ Touched(e) \in Entry /\ Touched(e).revalidating = e.revalidating
                       /\ Touched(e).etag = e.etag
  BY <1>1, <1>3 DEF Touched
<1>6. \A e \in Entry : Aged(e) \in Entry /\ Aged(e).revalidating = e.revalidating
  BY <1>2, <1>3 DEF Aged
<1>7. \A e \in Entry : Finished(e) \in Entry /\ ~Finished(e).revalidating
  BY <1>3 DEF Finished
<1>8. \A e \in Entry : [Touched(e) EXCEPT !.revalidating = TRUE] \in Entry
  BY <1>3, <1>5
<1>9. \A e \in Entry, t \in Revalidations :
           tag[t] \in Versions => Refreshed(e, t) \in Entry /\ ~Refreshed(e, t).revalidating
  BY <1>1, <1>3 DEF Refreshed
<1>10. QED
  BY <1>4, <1>5, <1>6, <1>7, <1>8, <1>9

-----------------------------------------------------------------------------
\* The inductive invariant: besides the types, a revalidation under way has a key
\* and a tag, and a request under way a key.
IInv ==
    /\ CacheTypeOK
    /\ LockAlive
    /\ WithinSize
    /\ \A r \in Readers : stage[r] # "idle" => key[r] \in Keys
    /\ \A t \in Revalidations : tpc[t] # "idle" => tkey[t] \in Keys /\ tag[t] \in Versions

LEMMA Start == CacheInit => IInv
<1> SUFFICES ASSUME CacheInit PROVE IInv
  OBVIOUS
<1>1. CacheTypeOK
  BY CacheAssumption DEF CacheInit, CacheTypeOK
<1>2. LockAlive
  BY DEF CacheInit, LockAlive, Marked, Stored
<1>3. WithinSize
  <2>1. Stored = {}
    BY DEF CacheInit, Stored
  <2>2. QED
    BY <2>1, FS_EmptySet, CacheAssumption DEF WithinSize
<1>4. QED
  BY <1>1, <1>2, <1>3 DEF IInv, CacheInit

-----------------------------------------------------------------------------
\* What any of the store's operations but markRevalidating may do: drop or
\* unmark entries, and unlock keys that are not marked any more.
Relaxes ==
    /\ entries' \in [Keys -> Entry \cup {None}]
    /\ locks' \subseteq locks
    /\ WithinSize'
    /\ \A j \in Keys : Marked(j)' => Marked(j) /\ (j \in locks => j \in locks')

LEMMA Shrinks == ASSUME IInv, Stored' \subseteq Stored PROVE WithinSize'
<1>1. IsFiniteSet(Stored)
  BY FS_Subset, CacheAssumption DEF Stored
<1>2. Cardinality(Stored') <= Cardinality(Stored) /\ Cardinality(Stored') \in Nat /\ Cardinality(Stored) \in Nat
  BY <1>1, FS_Subset, FS_CardinalityType
<1>3. QED
  BY <1>2, CacheAssumption DEF IInv, WithinSize

LEMMA SetRelaxes ==
    ASSUME IInv, NEW k \in Keys, NEW v \in Versions, NEW U, U \subseteq {k}, Set(k, v, U)
    PROVE  Relaxes /\ ~Marked(k)' /\ (k \in U => k \notin locks')
<1>1. PICK out \in IF Evicts THEN {{j} : j \in Oldest} ELSE {{}} :
        /\ entries' = [j \in Keys |-> IF j = k THEN New(v) ELSE IF j \in out THEN None ELSE entries[j]]
        /\ locks' = locks \ (out \cup U)
  BY DEF Set
<1>2. entries' \in [Keys -> Entry \cup {None}]
  BY <1>1, Written DEF IInv, CacheTypeOK
<1>3. /\ ~Marked(k)'
      /\ \A j \in Keys : Marked(j)' => Marked(j) /\ (j \in locks => j \in locks')
  BY <1>1, Written DEF Marked, Stored
<1>4. WithinSize'
  <2>1. IsFiniteSet(Stored) /\ Cardinality(Stored) \in Nat
    BY FS_Subset, FS_CardinalityType, CacheAssumption DEF Stored
  <2>2. Stored' \subseteq (Stored \ out) \cup {k}
    BY <1>1 DEF Stored
  <2>3. Cardinality(Stored') <= Cardinality(Stored \ out) + 1
        /\ Cardinality(Stored') \in Nat /\ Cardinality(Stored \ out) \in Nat
    <3>1. IsFiniteSet(Stored \ out) /\ Cardinality(Stored \ out) \in Nat
      BY <2>1, FS_Difference, FS_CardinalityType
    <3>2. IsFiniteSet((Stored \ out) \cup {k})
          /\ Cardinality((Stored \ out) \cup {k}) <= Cardinality(Stored \ out) + 1
      <4> DEFINE rest == Stored \ out
      <4> HIDE DEF rest
      <4>1. ASSUME IsFiniteSet(rest), Cardinality(rest) \in Nat
            PROVE  IsFiniteSet(rest \cup {k}) /\ Cardinality(rest \cup {k}) <= Cardinality(rest) + 1
        <5>1. Cardinality(rest \cup {k}) \in {Cardinality(rest), Cardinality(rest) + 1}
              /\ IsFiniteSet(rest \cup {k})
          BY <4>1, FS_AddElement, Zenon
        <5>2. QED
          BY <4>1, <5>1
      <4>2. QED
        BY <3>1, <4>1 DEF rest
    <3>3. Cardinality((Stored \ out) \cup {k}) \in Nat /\ Cardinality(Stored \ out) \in Nat
      BY <3>1, <3>2, FS_CardinalityType
    <3>4. Cardinality(Stored') <= Cardinality((Stored \ out) \cup {k}) /\ Cardinality(Stored') \in Nat
      BY <2>2, <3>2, FS_Subset, FS_CardinalityType
    <3>5. QED
      BY <3>2, <3>3, <3>4
  <2>4. CASE Evicts
    <3>1. PICK j \in Oldest : out = {j}
      BY <1>1, <2>4
    <3>2. j \in Stored
      BY DEF Oldest
    <3>3. Cardinality(Stored \ out) = Cardinality(Stored) - 1
      BY <2>1, <3>1, <3>2, FS_RemoveElement
    <3>4. QED
      BY <2>1, <2>3, <3>3, CacheAssumption DEF IInv, WithinSize
  <2>5. CASE ~Evicts
    <3>1. Stored \ out = Stored
      BY <1>1, <2>5
    <3>2. QED
      BY <2>1, <2>3, <2>5, <3>1, CacheAssumption DEF Evicts, WithinSize
  <2>6. QED
    BY <2>4, <2>5
<1>5. QED
  BY <1>1, <1>2, <1>3, <1>4 DEF Relaxes

LEMMA DeleteRelaxes == ASSUME IInv, NEW K, Delete(K) PROVE Relaxes
<1>1. entries' \in [Keys -> Entry \cup {None}] /\ locks' \subseteq locks
  BY DEF Delete, IInv, CacheTypeOK
<1>2. Stored' \subseteq Stored
  BY DEF Delete, Stored
<1>3. \A j \in Keys : Marked(j)' => Marked(j) /\ (j \in locks => j \in locks')
  BY DEF Delete, Marked, Stored
<1>4. QED
  BY <1>1, <1>2, <1>3, Shrinks DEF Relaxes

\* An entry is rewritten without being marked.
LEMMA RewriteRelaxes ==
    ASSUME IInv, NEW k \in Stored, NEW e \in Entry, e.revalidating => entries[k].revalidating,
           entries' = [entries EXCEPT ![k] = e], locks' \subseteq locks,
           \A j \in locks : j \in locks' \/ (j = k /\ ~e.revalidating)
    PROVE  Relaxes
<1>1. entries' \in [Keys -> Entry \cup {None}]
  BY DEF IInv, CacheTypeOK, Stored
<1>2. Stored' \subseteq Stored
  BY DEF Stored, IInv, CacheTypeOK
<1>3. \A j \in Keys : Marked(j)' => Marked(j) /\ (j \in locks => j \in locks')
  BY DEF Marked, Stored, IInv, CacheTypeOK
<1>4. QED
  BY <1>1, <1>2, <1>3, Shrinks DEF Relaxes

LEMMA NothingRelaxes == ASSUME IInv, UNCHANGED <<entries, locks>> PROVE Relaxes
BY DEF IInv, CacheTypeOK, Relaxes, Marked, Stored, WithinSize

\* With the same revalidations under way, LockAlive is kept.
LEMMA LocksKept == ASSUME IInv, Relaxes, UNCHANGED <<tpc, tkey>> PROVE LockAlive'
BY DEF IInv, Relaxes, LockAlive, UnderWay

\* ... and so it is when one ends that leaves its key neither marked nor locked.
LEMMA LocksReleased ==
    ASSUME IInv, Relaxes, NEW t \in Revalidations, NEW k \in Keys, tkey[t] = k,
           ~Marked(k)', k \notin locks',
           tpc' = [tpc EXCEPT ![t] = "idle"], tkey' = [tkey EXCEPT ![t] = None]
    PROVE  LockAlive'
<1>1. \A j \in Keys : j # k /\ UnderWay(j) => UnderWay(j)'
  BY DEF UnderWay, IInv, CacheTypeOK
<1>2. QED
  BY <1>1 DEF IInv, Relaxes, LockAlive

-----------------------------------------------------------------------------
\* One lemma per group of actions.

LEMMA MissStep == ASSUME IInv, NEW r \in Readers, NEW k \in Keys, Miss(r, k) PROVE IInv'
<1>1. Relaxes
  BY DeleteRelaxes, NothingRelaxes DEF Miss
<1>2. UNCHANGED <<tpc, tkey, tag, reply, got, version>>
  BY DEF Miss, tasks
<1>3. LockAlive'
  BY <1>1, <1>2, LocksKept
<1>4. QED
  BY <1>1, <1>2, <1>3 DEF Miss, Relaxes, IInv, CacheTypeOK

LEMMA FreshHitStep == ASSUME IInv, NEW r \in Readers, NEW k \in Keys, FreshHit(r, k) PROVE IInv'
<1>1. k \in Stored /\ entries[k] \in Entry
  BY DEF FreshHit, IInv, CacheTypeOK, Stored
<1>2. Relaxes
  <2>1. entries' = [entries EXCEPT ![k] = Touched(entries[k])] /\ locks' = locks
    BY DEF FreshHit
  <2>2. QED
    BY <1>1, <2>1, Written, RewriteRelaxes
<1>3. UNCHANGED <<stage, key, tpc, tkey, tag, reply, got, version>>
  BY DEF FreshHit, tasks
<1>4. LockAlive'
  BY <1>2, <1>3, LocksKept
<1>5. QED
  BY <1>2, <1>3, <1>4 DEF Relaxes, IInv, CacheTypeOK

LEMMA StaleHitStep == ASSUME IInv, NEW r \in Readers, NEW k \in Keys, StaleHit(r, k) PROVE IInv'
<1> DEFINE e == Touched(entries[k])
<1>1. /\ k \in Stored /\ entries[k] \in Entry
      /\ e \in Entry /\ e.revalidating = entries[k].revalidating /\ e.etag \in Versions
  <2>1. k \in Stored /\ entries[k] \in Entry
    BY DEF StaleHit, IInv, CacheTypeOK, Stored
  <2>2. entries[k].etag \in Versions
    BY <2>1 DEF Entry, Versions
  <2>3. QED
    BY <2>1, <2>2, Written
<1>2. UNCHANGED <<stage, key, reply, got, version>>
  BY DEF StaleHit
<1>3. CASE ~Marks(k)
  <2>1. /\ entries' = [entries EXCEPT ![k] = e] /\ locks' = locks
        /\ UNCHANGED <<tpc, tkey, tag>>
    BY <1>3 DEF StaleHit
  <2>2. Relaxes
    BY <1>1, <2>1, RewriteRelaxes
  <2>3. LockAlive'
    BY <2>1, <2>2, LocksKept
  <2>4. QED
    BY <1>2, <2>1, <2>2, <2>3 DEF Relaxes, IInv, CacheTypeOK
<1>4. CASE Marks(k)
  <2> DEFINE m == [e EXCEPT !.revalidating = TRUE]
  <2>1. /\ entries' = [entries EXCEPT ![k] = m]
        /\ locks' = IF HasLock THEN locks \cup {k} ELSE locks
    BY <1>4 DEF StaleHit
  <2>2. PICK t \in Revalidations : /\ tpc[t] = "idle"
                           /\ tpc' = [tpc EXCEPT ![t] = "asking"]
                           /\ tkey' = [tkey EXCEPT ![t] = k]
                           /\ tag' = [tag EXCEPT ![t] = e.etag]
    BY <1>4 DEF StaleHit
  <2>3. m \in Entry
    BY <1>1, Written
  <2> HIDE DEF m, e
  <2>4. CacheTypeOK'
    BY <1>1, <1>2, <2>1, <2>2, <2>3 DEF IInv, CacheTypeOK, Versions
  <2>5. WithinSize'
    <3>1. Stored' \subseteq Stored
      BY <1>1, <2>1 DEF Stored, IInv, CacheTypeOK
    <3>2. QED
      BY <3>1, Shrinks
  <2>6. LockAlive'
    <3>1. UnderWay(k)' /\ \A j \in Keys : UnderWay(j) => UnderWay(j)'
      BY <2>2 DEF UnderWay, IInv, CacheTypeOK
    <3>2. \A j \in Keys : j # k => (Marked(j)' <=> Marked(j)) /\ (j \in locks' <=> j \in locks)
      BY <2>1 DEF Marked, Stored, IInv, CacheTypeOK
    <3>3. HasLock => k \in locks'
      BY <2>1
    <3>4. QED
      BY <3>1, <3>2, <3>3 DEF LockAlive, IInv
  <2>7. QED
    BY <1>1, <1>2, <2>2, <2>4, <2>5, <2>6 DEF IInv, CacheTypeOK
<1>5. QED
  BY <1>3, <1>4

LEMMA SettleStep == ASSUME IInv, NEW r \in Readers, Settle(r) PROVE IInv'
<1> DEFINE k == key[r]
<1>1. k \in Keys
  BY DEF Settle, IInv
<1>2. /\ stage' = [stage EXCEPT ![r] = "idle"] /\ key' = [key EXCEPT ![r] = None]
      /\ got' = [got EXCEPT ![r] = None] /\ UNCHANGED <<tpc, tkey, tag, reply, version>>
  BY DEF Settle, tasks
<1>3. Relaxes
  <2>1. ASSUME got[r] # None, Set(k, got[r], {}) PROVE Relaxes
    <3>1. got[r] \in Versions
      BY <2>1 DEF IInv, CacheTypeOK, Versions
    <3>2. QED
      BY <1>1, <2>1, <3>1, SetRelaxes
  <2>2. ASSUME entries[k] # None, entries' = [entries EXCEPT ![k] = Touched(entries[k])], locks' = locks
        PROVE  Relaxes
    <3>1. k \in Stored /\ entries[k] \in Entry
      BY <1>1, <2>2 DEF Stored, IInv, CacheTypeOK
    <3>2. QED
      BY <2>2, <3>1, Written, RewriteRelaxes
  <2>3. QED
    BY <2>1, <2>2, NothingRelaxes DEF Settle
<1>4. LockAlive'
  BY <1>2, <1>3, LocksKept
<1>5. QED
  BY <1>2, <1>3, <1>4 DEF Relaxes, IInv, CacheTypeOK

LEMMA SettleTaskStep == ASSUME IInv, NEW t \in Revalidations, SettleTask(t) PROVE IInv'
<1>1. PICK k \in Keys : tkey[t] = k
  BY DEF SettleTask, IInv
<1>2. /\ tpc' = [tpc EXCEPT ![t] = "idle"] /\ tkey' = [tkey EXCEPT ![t] = None]
      /\ tag' = [tag EXCEPT ![t] = None] /\ reply' = [reply EXCEPT ![t] = None]
      /\ UNCHANGED <<stage, key, got, version>>
  BY DEF SettleTask
<1>3. Relaxes /\ ~Marked(k)' /\ k \notin locks'
  <2>1. ASSUME NEW e \in Entry, ~e.revalidating, k \in Stored,
               entries' = [entries EXCEPT ![k] = e], locks' = locks \ {k}
        PROVE  Relaxes /\ ~Marked(k)' /\ k \notin locks'
    <3>1. Relaxes
      BY <2>1, RewriteRelaxes
    <3>2. ~Marked(k)'
      BY <2>1 DEF Marked, Stored, IInv, CacheTypeOK
    <3>3. QED
      BY <2>1, <3>1, <3>2
  <2>2. ASSUME k \notin Stored, entries' = entries, locks' = locks \ {k}
        PROVE  Relaxes /\ ~Marked(k)' /\ k \notin locks'
    <3>1. Stored' = Stored
      BY <2>2 DEF Stored
    <3>2. QED
      BY <2>2, <3>1, Shrinks DEF Relaxes, Marked, IInv, CacheTypeOK
  <2>3. ASSUME NEW e, k \in Stored => e \in Entry /\ ~e.revalidating,
               entries' = Kept(k, e), locks' = locks \ Unlocked(k)
        PROVE  Relaxes /\ ~Marked(k)' /\ k \notin locks'
    BY <2>1, <2>2, <2>3 DEF Kept, Unlocked, Stored
  <2>4. k \in Stored => entries[k] \in Entry
    BY DEF Stored, IInv, CacheTypeOK
  <2>5. CASE /\ reply[t] = NotModified
             /\ entries' = Kept(k, Refreshed(entries[k], t)) /\ locks' = locks \ Unlocked(k)
    <3>1. tag[t] \in Versions
      BY DEF SettleTask, IInv
    <3>2. k \in Stored => Refreshed(entries[k], t) \in Entry /\ ~Refreshed(entries[k], t).revalidating
      BY <2>4, <3>1, Written
    <3>3. QED
      BY <2>3, <2>5, <3>2
  <2>6. CASE reply[t] \in Nat /\ Set(k, reply[t], Unlocked(k))
    <3>1. reply[t] \in Versions
      BY <2>6, CacheAssumption DEF IInv, CacheTypeOK, Versions
    <3>2. QED
      BY <2>6, <3>1, SetRelaxes DEF Unlocked
  <2>7. CASE entries' = Kept(k, Finished(entries[k])) /\ locks' = locks \ Unlocked(k)
    <3>1. k \in Stored => Finished(entries[k]) \in Entry /\ ~Finished(entries[k]).revalidating
      BY <2>4, Written
    <3>2. QED
      BY <2>3, <2>7, <3>1
  <2>8. QED
    BY <1>1, <2>5, <2>6, <2>7 DEF SettleTask
<1>4. LockAlive'
  BY <1>1, <1>2, <1>3, LocksReleased
<1>5. QED
  BY <1>2, <1>3, <1>4 DEF Relaxes, IInv, CacheTypeOK

LEMMA DropStep ==
    ASSUME IInv, Sweep \/ \E K \in SUBSET Keys : Invalidate(K)
    PROVE  IInv'
<1>1. Relaxes
  BY DeleteRelaxes DEF Sweep, Invalidate
<1>2. UNCHANGED <<stage, key, got, tpc, tkey, tag, reply, version>>
  BY DEF Sweep, Invalidate, tasks
<1>3. LockAlive'
  BY <1>1, <1>2, LocksKept
<1>4. QED
  BY <1>1, <1>2, <1>3 DEF Relaxes, IInv, CacheTypeOK

LEMMA TickStep == ASSUME IInv, CacheTick PROVE IInv'
<1>1. entries' \in [Keys -> Entry \cup {None}]
  BY Written DEF CacheTick, IInv, CacheTypeOK
<1>2. Stored' \subseteq Stored
  BY DEF CacheTick, Stored
<1>3. \A j \in Keys : Marked(j)' => Marked(j)
  BY Written DEF CacheTick, Marked, Stored, IInv, CacheTypeOK
<1>4. Relaxes
  BY <1>1, <1>2, <1>3, Shrinks DEF CacheTick, Relaxes
<1>5. UNCHANGED <<stage, key, got, tpc, tkey, tag, reply, version>>
  BY DEF CacheTick, tasks
<1>6. LockAlive'
  BY <1>4, <1>5, LocksKept
<1>7. QED
  BY <1>4, <1>5, <1>6 DEF Relaxes, IInv, CacheTypeOK

\* The origin answers or publishes: the cache is not touched.
LEMMA OriginStep ==
    ASSUME IInv,
           \/ \E r \in Readers : Reply(r)
           \/ \E t \in Revalidations : ReplyTask(t)
           \/ \E k \in Keys : Publish(k)
    PROVE  IInv'
<1>1. LockAlive' /\ WithinSize'
  <2>1. UNCHANGED <<entries, locks, tkey>> /\ \A t \in Revalidations : tpc[t] # "idle" => tpc'[t] # "idle"
    BY DEF Reply, ReplyTask, Publish, tasks, IInv, CacheTypeOK
  <2>2. QED
    BY <2>1 DEF IInv, LockAlive, UnderWay, Marked, Stored, WithinSize
<1>2. ASSUME NEW r \in Readers, Reply(r) PROVE IInv'
  BY <1>1, <1>2 DEF Reply, tasks, IInv, CacheTypeOK
<1>3. ASSUME NEW t \in Revalidations, ReplyTask(t) PROVE IInv'
  BY <1>1, <1>3 DEF ReplyTask, IInv, CacheTypeOK
<1>4. ASSUME NEW k \in Keys, Publish(k) PROVE IInv'
  BY <1>1, <1>4, CacheAssumption DEF Publish, tasks, IInv, CacheTypeOK
<1>5. QED
  BY <1>2, <1>3, <1>4

LEMMA Inductive == IInv /\ [CacheNext]_cacheVars => IInv'
<1> SUFFICES ASSUME IInv, [CacheNext]_cacheVars PROVE IInv'
  OBVIOUS
<1>1. CASE UNCHANGED cacheVars
  BY <1>1 DEF cacheVars, tasks, IInv, CacheTypeOK, LockAlive, WithinSize, UnderWay, Marked, Stored
<1>2. ASSUME NEW r \in Readers, NEW k \in Keys, Lookup(r, k) PROVE IInv'
  BY <1>2, MissStep, FreshHitStep, StaleHitStep DEF Lookup
<1>3. QED
  BY <1>1, <1>2, SettleStep, SettleTaskStep, DropStep, TickStep, OriginStep DEF CacheNext

LEMMA Invariance == CacheSpec => []IInv
BY Start, Inductive, PTL DEF CacheSpec

-----------------------------------------------------------------------------
\* The types.
THEOREM TypeCorrect == CacheSpec => []CacheTypeOK
<1>1. IInv => CacheTypeOK
  BY DEF IInv
<1>2. QED
  BY <1>1, Invariance, PTL

\* The cache keeps to cacheMaxSize, whoever stores into it.
THEOREM Boundedness == CacheSpec => []WithinSize
<1>1. IInv => WithinSize
  BY DEF IInv
<1>2. QED
  BY <1>1, Invariance, PTL

\* No key stays marked or locked without a revalidation that will release it.
THEOREM LocksAreHeld == CacheSpec => []LockAlive
<1>1. IInv => LockAlive
  BY DEF IInv
<1>2. QED
  BY <1>1, Invariance, PTL

\* Whatever its writers and revalidations do, the cache keeps no response it has no
\* room for and no lock that nobody will release.
THEOREM Soundness == CacheSpec => []CacheSound
BY Boundedness, LocksAreHeld, PTL DEF CacheSound

-----------------------------------------------------------------------------
\* Failures.  The classes' account of what may be tried again and the engine's meet
\* in every error an attempt ends with, whatever codes and statuses there are.

LEMMA WithoutClass ==
    \A c : Retries(PlainError(c)) /\ (c = None \/ c \notin ListedCode) => PlainError(c).retryable = TRUE
  BY DEF PlainError, Error, Retries

LEMMA FromNode == \A c : Retries(fromNodeError(c)) => fromNodeError(c).retryable = TRUE
<1> SUFFICES ASSUME NEW c, Retries(fromNodeError(c)) PROVE fromNodeError(c).retryable = TRUE
  OBVIOUS
<1>1. fromNodeError(c).name \notin NoRetryNames
  BY DEF Retries
<1>2. fromNodeError(c) \in {Refused, DNSError, TimeoutError, SecurityError("CERT_EXPIRED"),
                          SecurityError("SELF_SIGNED"), NetworkError("NETWORK_ERROR"), NetworkError(c)}
  BY DEF fromNodeError
<1>3. QED
  BY <1>1, <1>2
     DEF Refused, DNSError, TimeoutError, SecurityError, NetworkError, Error, NoRetryNames

LEMMA ListedOfStatus == \A s \in ListedStatus : fromHTTPStatus(s).retryable = TRUE
<1> SUFFICES ASSUME NEW s \in ListedStatus
             PROVE  \E n : fromHTTPStatus(s) = HTTPError(n, s, TRUE)
  BY DEF HTTPError
<1>1. CASE s \in {408, 429}
  <2>1. fromHTTPStatus(s) = ClientError(s)
    <3>1. s \in 400..499
      BY <1>1
    <3>2. QED
      BY <3>1, Zenon DEF fromHTTPStatus
  <2>2. (s \in {408, 429}) = TRUE
    BY <1>1
  <2>3. ClientError(s) = HTTPError("NeutrxClientError", s, TRUE)
    BY <2>2, Zenon DEF ClientError
  <2>4. QED
    BY <2>1, <2>3
<1>2. CASE s \in {500, 502, 503, 504}
  <2>1. fromHTTPStatus(s) = ServerError(s)
    <3>1. s \notin 400..499 /\ s >= 500
      BY <1>2
    <3>2. QED
      BY <3>1, Zenon DEF fromHTTPStatus
  <2>2. (s \in {500, 502, 503, 504}) = TRUE
    BY <1>2
  <2>3. ServerError(s) = HTTPError("NeutrxServerError", s, TRUE)
    BY <2>2, Zenon DEF ServerError
  <2>4. QED
    BY <2>1, <2>3
<1>3. s \in {408, 429} \/ s \in {500, 502, 503, 504}
  BY DEF ListedStatus
<1>4. QED
  BY <1>1, <1>2, <1>3, Zenon

LEMMA FromStatus ==
    \A s \in Int : Retries(fromHTTPStatus(s)) => fromHTTPStatus(s).retryable = TRUE
<1>1. \A s \in Int : fromHTTPStatus(s) \in {ClientError(s), ServerError(s), HTTPError("NeutrxHTTPError", s, FALSE)}
  BY DEF fromHTTPStatus
<1>2. \A s \in Int : fromHTTPStatus(s).status = s /\ fromHTTPStatus(s).code = "HTTP"
  BY <1>1 DEF ClientError, ServerError, HTTPError
<1>3. ASSUME NEW e, Retries(e), e.code = "HTTP" PROVE e.status \in ListedStatus \/ e.retryable = TRUE
  BY <1>3 DEF Retries, ListedCode
<1>4. QED
  BY <1>2, <1>3, ListedOfStatus, Zenon

\* The errors an attempt ends with, and the one for a deadline that has passed.
LEMMA ClassesAgree ==
    \A e \in AttemptErrors \cup {DeadlineError} : Retries(e) => e.retryable = TRUE
<1> SUFFICES ASSUME NEW e \in AttemptErrors \cup {DeadlineError}, Retries(e) PROVE e.retryable = TRUE
  OBVIOUS
<1>1. CASE e = DeadlineError
  BY <1>1, WithoutClass DEF DeadlineError, ListedCode
<1>2. CASE e \in NodeErrors
  BY <1>2, WithoutClass, FromNode DEF NodeErrors
<1>3. CASE e \in Checked
  <2>1. CASE e = TooLarge
    <3>1. CASE made.client = "browser"
      BY <2>1, <3>1, FromNode DEF TooLarge
    <3>2. CASE made.client # "browser"
      BY <2>1, <3>2 DEF TooLarge, ResponseSizeError, Error, Retries, ListedCode
    <3>3. QED
      BY <3>1, <3>2
  <2>2. CASE e \in {ResponseTimeoutError, ConnectTimeoutError, BulkheadError}
    BY <2>2 DEF ResponseTimeoutError, ConnectTimeoutError, BulkheadError, Error
  <2>3. CASE e \in {ValidationError("RESPONSE_VALIDATION_FAILED"), SSRFError, InjectionError,
                     SecurityError("REDIRECT_PROTOCOL_DOWNGRADE")}
    BY <2>3 DEF ValidationError, SSRFError, InjectionError, SecurityError, Error, Retries, NoRetryNames
  <2>4. CASE e \in {RequestSizeError, CertPinError}
    BY <2>4 DEF RequestSizeError, CertPinError, Error, Retries, ListedCode
  <2>5. QED
    BY <1>3, <2>1, <2>2, <2>3, <2>4 DEF Checked
<1>4. CASE \E s \in Statuses : e = fromHTTPStatus(s)
  BY <1>4, FromStatus, FailuresAssumption
<1>5. QED
  BY <1>1, <1>2, <1>3, <1>4 DEF AttemptErrors

\* What the last attempt threw, once it is to be repeated.
ThrownRetryable ==
    course = "looping" => thrown.retryable = TRUE /\ MethodAllows

LEMMA ThrownRetryableHolds == FailureSpec => []ThrownRetryable
<1>1. FailureInit => ThrownRetryable
  BY DEF FailureInit, ThrownRetryable
<1>2. ThrownRetryable /\ [FailureNext]_failureVars => ThrownRetryable'
  <2> SUFFICES ASSUME ThrownRetryable, [FailureNext]_failureVars PROVE ThrownRetryable'
    OBVIOUS
  <2>1. ASSUME NEW e \in AttemptErrors \cup {DeadlineError}, CatchError(e) PROVE ThrownRetryable'
    <3>1. CASE Again(e)
      <4>1. e.retryable = TRUE /\ MethodAllows
        BY <3>1, ClassesAgree DEF Again, Retries
      <4>2. thrown' = e /\ made' = made
        BY <2>1 DEF CatchError
      <4>3. QED
        BY <4>1, <4>2 DEF ThrownRetryable, MethodAllows
    <3>2. CASE ~Again(e)
      BY <2>1, <3>2 DEF CatchError, ThrownRetryable
    <3>3. QED
      BY <3>1, <3>2
  <2>2. CASE RejectBefore
    BY <2>2 DEF RejectBefore, ThrownRetryable
  <2>3. CASE AttemptFails
    BY <2>3, <2>1 DEF AttemptFails
  <2>4. CASE NextRound
    BY <2>4, <2>1 DEF NextRound, ThrownRetryable
  <2>5. CASE AttemptSucceeds
    BY <2>5 DEF AttemptSucceeds, ThrownRetryable
  <2>6. CASE UNCHANGED failureVars
    BY <2>6 DEF failureVars, ThrownRetryable, MethodAllows
  <2>7. QED
    BY <2>2, <2>3, <2>4, <2>5, <2>6 DEF FailureNext
<1>3. QED
  BY <1>1, <1>2, PTL DEF FailureSpec

\* An attempt is only repeated after an error whose class says that it may be, and
\* with a POST only when an idempotency key goes along: the catch clause of execute
\* never contradicts NeutrxError.ts.
THEOREM RepeatedWereRetryable == FailureSpec => RetriedWereRetryable
<1>1. ThrownRetryable /\ [FailureNext]_failureVars
        => [course = "looping" /\ course' = "trying"
              => thrown.retryable = TRUE /\ (made.method = "POST" => made.keyed)]_failureVars
  BY DEF ThrownRetryable, MethodAllows
<1>2. QED
  BY <1>1, ThrownRetryableHolds, PTL DEF FailureSpec, RetriedWereRetryable

-----------------------------------------------------------------------------
\* FetchBodies: progress.

Event == [direction : Directions, loaded : Nat, total : Nat \cup {None}, bytes : Nat]
Progress == [marks : [Directions -> Nat \cup {None}], events : Seq(Event)]
Opened(e, direction) == \E i \in DOMAIN e : e[i].direction = direction

\* What the events say adds up, and the marks are what was said last.
Noted(p) ==
    \A d \in Directions, i \in DOMAIN p.events : Latest(p.events, d, i) => p.marks[d] = p.events[i].loaded
Tallied(p) == p \in Progress /\ AddsUp(p.events) /\ Noted(p)

\* One event more.
LEMMA OneMore ==
    ASSUME NEW e \in Seq(Event), NEW v \in Event, AddsUp(e),
           ~Opened(e, v.direction) => v.loaded = 0 /\ v.bytes = 0,
           \A i \in DOMAIN e : Latest(e, v.direction, i) => v.loaded = e[i].loaded + v.bytes
    PROVE  /\ AddsUp(Append(e, v))
           /\ \A d \in Directions : Opened(Append(e, v), d) <=> Opened(e, d) \/ d = v.direction
           /\ \A d \in Directions, i \in DOMAIN Append(e, v) :
                  Latest(Append(e, v), d, i) =>
                      IF d = v.direction THEN i = Len(e) + 1 ELSE i \in DOMAIN e /\ Latest(e, d, i)
<1> DEFINE f == Append(e, v)
           n == Len(e)
<1>1. /\ n \in Nat /\ f \in Seq(Event) /\ Len(f) = n + 1 /\ DOMAIN f = 1..n + 1 /\ DOMAIN e = 1..n
      /\ f[n + 1] = v /\ \A i \in 1..n : f[i] = e[i]
  OBVIOUS
<1> HIDE DEF f
<1>2. ASSUME NEW j \in 1..n
      PROVE  /\ First(f, j) <=> First(e, j)
             /\ \A i \in 1..n : Follows(f, i, j) <=> Follows(e, i, j)
             /\ \A i \in 1..n + 1 : Follows(f, i, j) => i \in 1..n
  BY <1>1 DEF First, Follows, Apart
<1>3. First(f, n + 1) => ~Opened(e, v.direction)
  BY <1>1 DEF First, Apart, Opened
<1>4. ASSUME NEW i \in 1..n + 1, Follows(f, i, n + 1)
      PROVE  i \in 1..n /\ Latest(e, v.direction, i)
  BY <1>1, <1>4 DEF Follows, Apart, Latest
<1>5. \A j \in 1..n + 1 : First(f, j) => f[j].loaded = 0 /\ f[j].bytes = 0
  <2> TAKE j \in 1..n + 1
  <2>1. CASE j = n + 1
    BY <1>1, <1>3, <2>1
  <2>2. CASE j \in 1..n
    BY <1>1, <1>2, <2>2 DEF AddsUp
  <2> QED BY <1>1, <2>1, <2>2
<1>6. \A i, j \in 1..n + 1 : Follows(f, i, j) => f[j].loaded = f[i].loaded + f[j].bytes
  <2> TAKE i, j \in 1..n + 1
  <2> HAVE Follows(f, i, j)
  <2>1. CASE j = n + 1
    BY <1>1, <1>4, <2>1
  <2>2. CASE j \in 1..n
    <3>1. i \in 1..n /\ Follows(e, i, j)
      BY <1>2, <2>2
    <3> QED BY <1>1, <2>2, <3>1 DEF AddsUp
  <2> QED BY <1>1, <2>1, <2>2
<1>7. AddsUp(f)
  BY <1>1, <1>5, <1>6 DEF AddsUp
<1>8. \A d \in Directions : Opened(f, d) <=> Opened(e, d) \/ d = v.direction
  <2> TAKE d \in Directions
  <2>1. Opened(f, d) <=> \E i \in 1..n + 1 : f[i].direction = d
    BY <1>1 DEF Opened
  <2>2. Opened(e, d) <=> \E i \in 1..n : e[i].direction = d
    BY <1>1 DEF Opened
  <2> QED BY <1>1, <2>1, <2>2
<1>9. ASSUME NEW d \in Directions, NEW i \in 1..n + 1, Latest(f, d, i)
      PROVE  IF d = v.direction THEN i = n + 1 ELSE i \in 1..n /\ Latest(e, d, i)
  <2>1. f[i].direction = d /\ \A k \in i + 1..n + 1 : f[k].direction # d
    BY <1>1, <1>9 DEF Latest, Apart
  <2>2. CASE d = v.direction
    BY <1>1, <2>1, <2>2
  <2>3. CASE d # v.direction
    <3>1. i \in 1..n
      BY <1>1, <2>1, <2>3
    <3>2. e[i].direction = d /\ \A k \in i + 1..n : e[k].direction # d
      BY <1>1, <2>1, <3>1
    <3> QED BY <1>1, <2>3, <3>1, <3>2 DEF Latest, Apart
  <2> QED BY <2>2, <2>3
<1> QED BY <1>1, <1>7, <1>8, <1>9 DEF f

\* p and what it is after an event that says so many bytes.
Says(p, q, direction, loaded) ==
    /\ Tallied(q)
    /\ \A d \in Directions : Opened(q.events, d) <=> Opened(p.events, d) \/ (exchange.watched /\ d = direction)
    /\ exchange.watched => q.marks[direction] = loaded
    /\ \A d \in Directions : d # direction \/ ~exchange.watched => q.marks[d] = p.marks[d]

\* reportProgress keeps that, if it is not told less than before.
LEMMA Reported ==
    ASSUME NEW p, Tallied(p), exchange.watched \in BOOLEAN,
           NEW d \in Directions, NEW loaded \in Nat, NEW total \in Nat \cup {None},
           exchange.watched =>
               IF Opened(p.events, d) THEN p.marks[d] \in Nat /\ p.marks[d] <= loaded ELSE loaded = 0
    PROVE  Says(p, reportProgress(p, d, loaded, total), d, loaded)
<1> DEFINE before == Or0(p.marks[d])
           v == [direction |-> d, loaded |-> loaded, total |-> total, bytes |-> Larger(0, loaded - before)]
           q == reportProgress(p, d, loaded, total)
<1>1. /\ p.marks \in [Directions -> Nat \cup {None}] /\ p.events \in Seq(Event)
      /\ p = [marks |-> p.marks, events |-> p.events]
      /\ AddsUp(p.events) /\ Noted(p)
  BY DEF Tallied, Progress
<1>2. before \in Nat /\ (p.marks[d] \in Nat => before = p.marks[d])
  BY <1>1, FetchBodiesTypes DEF Or0
<1>3. CASE ~exchange.watched
  <2>1. q = p
    BY <1>3 DEF reportProgress
  <2> QED BY <1>3, <2>1 DEF Says
<1>4. CASE exchange.watched
  <2>1. q = [marks |-> [p.marks EXCEPT ![d] = loaded], events |-> Append(p.events, v)]
    BY <1>4 DEF reportProgress
  <2>2. v.bytes = (IF 0 > loaded - before THEN 0 ELSE loaded - before)
    BY DEF Larger
  <2>3. v.bytes \in Nat /\ (before <= loaded => loaded = before + v.bytes) /\ (loaded = 0 => v.bytes = 0)
    BY <1>2, <2>2
  <2>4. v \in Event /\ v.direction = d /\ v.loaded = loaded
    BY <2>3 DEF Event
  <2> HIDE DEF before, v, q
  <2>5. ASSUME NEW i \in DOMAIN p.events, Latest(p.events, d, i)
        PROVE  loaded = p.events[i].loaded + v.bytes
    <3>1. Opened(p.events, d) /\ p.marks[d] = p.events[i].loaded
      BY <1>1, <2>5 DEF Opened, Latest, Noted
    <3> QED BY <1>2, <1>4, <2>3, <3>1
  <2>6. /\ AddsUp(Append(p.events, v))
        /\ \A c \in Directions : Opened(Append(p.events, v), c) <=> Opened(p.events, c) \/ c = d
        /\ \A c \in Directions, i \in DOMAIN Append(p.events, v) :
               Latest(Append(p.events, v), c, i) =>
                   IF c = d THEN i = Len(p.events) + 1 ELSE i \in DOMAIN p.events /\ Latest(p.events, c, i)
    BY <1>1, <1>4, <2>3, <2>4, <2>5, OneMore
  <2>7. /\ Append(p.events, v) \in Seq(Event)
        /\ Append(p.events, v)[Len(p.events) + 1] = v
        /\ \A i \in DOMAIN p.events : Append(p.events, v)[i] = p.events[i]
    BY <1>1, <2>4
  <2>8. q.events = Append(p.events, v) /\ q.marks = [p.marks EXCEPT ![d] = loaded] /\ q \in Progress
    BY <1>1, <2>1, <2>7 DEF Progress
  <2>9. q.marks[d] = loaded /\ \A c \in Directions : c # d => q.marks[c] = p.marks[c]
    BY <1>1, <2>8
  <2>10. Noted(q)
    <3> SUFFICES ASSUME NEW c \in Directions, NEW i \in DOMAIN q.events, Latest(q.events, c, i)
                 PROVE  q.marks[c] = q.events[i].loaded
      BY DEF Noted
    <3>1. CASE c = d
      BY <2>4, <2>6, <2>7, <2>8, <2>9, <3>1
    <3>2. CASE c # d
      <4>1. i \in DOMAIN p.events /\ Latest(p.events, c, i) /\ q.events[i] = p.events[i]
        BY <2>6, <2>7, <2>8, <3>2
      <4> QED BY <1>1, <2>9, <3>2, <4>1 DEF Noted
    <3> QED BY <3>1, <3>2
  <2>11. Tallied(q)
    BY <2>6, <2>8, <2>10 DEF Tallied
  <2> QED BY <1>4, <2>6, <2>8, <2>9, <2>11 DEF q, Says
<1> QED BY <1>3, <1>4

-----------------------------------------------------------------------------
\* FetchBodies: what is moved.

Legs == {"ready", "sending", "reading", "streaming", "done", "failed"}
Streamed == Sends \in {"piped", "iterated"}
Chunky == (leg = "reading" /\ Reads = "chunks") \/ leg = "streaming"
Answering == leg \in {"reading", "streaming", "done"}
Listened == Reads # "platform" /\ ~(Reads = "stream" /\ ~exchange.streams)

BodyTypeOK ==
    /\ exchange \in Exchanges /\ leg \in Legs
    /\ amounts \in [attempts : Nat, taken : 0..Len(exchange.parts), got : 0..Len(exchange.reply),
                    sent : Nat, received : Nat]
    /\ progress \in Progress

Sent ==
    /\ amounts.attempts = 0 <=> leg = "ready"
    /\ amounts.attempts = 0 => amounts.taken = 0
    /\ Streamed /\ amounts.attempts = 1 => amounts.sent = Sums(exchange.parts)[amounts.taken]
    /\ Sends = "piped" /\ amounts.attempts > 1 => leg = "failed"
    /\ leg = "sending" /\ amounts.attempts > 1 => amounts.sent = 0
    /\ Answering /\ exchange.body # "none" /\ ~ReadAgain => amounts.sent = Total(exchange.parts)

Received ==
    /\ leg = "sending" => amounts.got = 0 /\ amounts.received = 0
    /\ leg = "reading" => Reads # "stream"
    /\ leg = "streaming" => Reads = "stream"
    /\ Chunky => amounts.received = Sums(exchange.reply)[amounts.got]
    /\ leg = "reading" /\ Reads # "chunks" => amounts.received = 0
    /\ leg = "reading" /\ Reads = "chunks" => amounts.received <= exchange.limit
    /\ leg = "done" => amounts.received = Total(exchange.reply)
    /\ leg = "done" /\ Reads \in {"whole", "chunks"} => amounts.received <= exchange.limit

\* The marks say the same as the amounts, of whatever direction anything was told of.
Told ==
    /\ Tallied(progress)
    /\ exchange.watched \/ \A d \in Directions : ~Opened(progress.events, d)
    /\ (leg = "sending" \/ Answering) /\ Opened(progress.events, "upload") =>
           /\ progress.marks["upload"] = IF Sends = "known" THEN Total(exchange.parts) ELSE amounts.sent
           /\ Sends = "known" \/ Tracked
    /\ leg = "sending" => ~Opened(progress.events, "download")
    /\ Answering /\ Opened(progress.events, "download") =>
           progress.marks["download"] = amounts.received /\ Listened
    /\ leg = "sending" /\ Tracked /\ exchange.watched => Opened(progress.events, "upload")
    /\ leg \in {"reading", "streaming"} /\ Listened /\ exchange.watched => Opened(progress.events, "download")

MovedInv == BodyTypeOK /\ Sent /\ Received /\ Told

\* What the constants are.
LEMMA Exchanged ==
    ASSUME exchange \in Exchanges
    PROVE  /\ exchange.parts \in Seq(Nat) /\ exchange.reply \in Seq(Nat) /\ exchange.limit \in Nat
           /\ exchange.declared \in Nat \cup {None} /\ exchange.told \in Nat \cup {None}
           /\ exchange.watched \in BOOLEAN /\ exchange.streams \in BOOLEAN
           /\ Summed(exchange.parts, Len(exchange.parts), Sums(exchange.parts))
           /\ Summed(exchange.reply, Len(exchange.reply), Sums(exchange.reply))
           /\ Total(exchange.parts) \in Nat /\ Total(exchange.reply) \in Nat
<1>1. /\ exchange.parts \in Seq(Nat) /\ exchange.reply \in Seq(Nat) /\ exchange.limit \in Nat
      /\ exchange.declared \in Nat \cup {None} /\ exchange.told \in Nat \cup {None}
      /\ exchange.watched \in BOOLEAN /\ exchange.streams \in BOOLEAN
  BY FetchBodiesTypes
<1>2. /\ Summed(exchange.parts, Len(exchange.parts), Sums(exchange.parts))
      /\ Summed(exchange.reply, Len(exchange.reply), Sums(exchange.reply))
  BY <1>1, SumsAre
<1>3. \A s \in Seq(Nat) : Summed(s, Len(s), Sums(s)) => Total(s) \in Nat
  BY DEF Summed, Total
<1> QED BY <1>1, <1>2, <1>3

\* How bodies are sent and answers read, case by case.
LEMMA Ways ==
    ASSUME exchange \in Exchanges
    PROVE  /\ Sends \in {"known", "piped", "iterated", "opaque"}
           /\ Sends = "known" => exchange.body = "text"
           /\ Streamed => exchange.body # "none"
           /\ Reads \in {"platform", "stream", "whole", "chunks"}
           /\ Reads = "chunks" => exchange.streams /\ exchange.watched
           /\ Tracked => Streamed
<1>1. /\ exchange.client \in {"fetch", "plain", "browser"}
      /\ exchange.body \in {"none", "text", "form", "stream", "readable"}
  BY FetchBodiesTypes
<1>2. /\ Sends \in {"known", "piped", "iterated", "opaque"}
      /\ Sends = "known" => exchange.body = "text"
      /\ Streamed => exchange.body # "none"
  BY <1>1 DEF Streamed, Sends, BrowserSends, PlainSends, FetchSends
<1>3. /\ Reads \in {"platform", "stream", "whole", "chunks"}
      /\ Reads = "chunks" => exchange.streams /\ exchange.watched
  BY <1>1 DEF Reads, BrowserReads, PlainReads, FetchReads, Buffers
<1> QED BY <1>2, <1>3 DEF Tracked, Streamed

LEMMA MovedStart == FetchBodiesInit => MovedInv
<1> SUFFICES ASSUME FetchBodiesInit PROVE MovedInv
  OBVIOUS
<1>1. /\ exchange \in Exchanges /\ leg = "ready"
      /\ amounts = [attempts |-> 0, taken |-> 0, got |-> 0, sent |-> 0, received |-> 0]
      /\ progress = [marks |-> [d \in Directions |-> None], events |-> <<>>]
  BY DEF FetchBodiesInit
<1>2. /\ exchange.parts \in Seq(Nat) /\ exchange.reply \in Seq(Nat)
  BY <1>1, Exchanged
<1>3. progress \in Progress /\ AddsUp(<<>>) /\ Noted(progress)
  BY <1>1 DEF Progress, AddsUp, Noted
<1>4. BodyTypeOK
  BY <1>1, <1>2, <1>3 DEF BodyTypeOK, Legs
<1>5. Sent /\ Received
  BY <1>1 DEF Sent, Received, Answering, Chunky
<1>6. Told
  BY <1>1, <1>3 DEF Told, Tallied, Answering, Opened
<1> QED BY <1>4, <1>5, <1>6 DEF MovedInv

\* MovedAsTold follows.
LEMMA MovedGives == MovedInv => MovedAsTold
<1> SUFFICES ASSUME MovedInv PROVE MovedAsTold
  OBVIOUS
<1>1. AddsUp(progress.events) /\ Noted(progress)
  BY DEF MovedInv, Told, Tallied
<1>2. ASSUME leg = "done", NEW d \in Directions, NEW i \in DOMAIN progress.events,
             Latest(progress.events, d, i)
      PROVE  progress.events[i].loaded = IF d = "upload" THEN amounts.sent ELSE amounts.received
  <2>1. Opened(progress.events, d) /\ progress.marks[d] = progress.events[i].loaded
    BY <1>1, <1>2 DEF Opened, Latest, Noted
  <2>2. CASE d = "download"
    BY <1>2, <2>1, <2>2 DEF MovedInv, Told, Answering
  <2>3. CASE d = "upload"
    <3>1. /\ progress.marks["upload"] = IF Sends = "known" THEN Total(exchange.parts) ELSE amounts.sent
          /\ Sends = "known" => exchange.body = "text"
      BY <1>2, <2>1, <2>3, Ways DEF MovedInv, Told, Answering, BodyTypeOK
    <3>2. Sends = "known" => amounts.sent = Total(exchange.parts)
      BY <1>2, <3>1 DEF MovedInv, Sent, Answering, ReadAgain
    <3> QED BY <2>1, <2>3, <3>1, <3>2
  <2> QED BY <2>2, <2>3 DEF Directions
<1>3. ProgressAddsUp
  BY <1>1, <1>2 DEF ProgressAddsUp
<1>4. WholeOrFailed
  BY DEF MovedInv, WholeOrFailed, Received, Sent, Answering
<1> QED BY <1>3, <1>4 DEF MovedAsTold

\* The exchange stays, and with it how it is sent and read.
LEMMA SameWays ==
    ASSUME UNCHANGED exchange
    PROVE  /\ Sends' = Sends /\ Reads' = Reads /\ Tracked' = Tracked /\ Streamed' = Streamed
           /\ Listened' = Listened
<1>1. Sends' = Sends
  BY DEF Sends, BrowserSends, PlainSends, FetchSends
<1>2. Reads' = Reads
  BY DEF Reads, BrowserReads, PlainReads, FetchReads, Buffers
<1> QED BY <1>1, <1>2 DEF Tracked, Streamed, Listened

LEMMA Amounts ==
    ASSUME MovedInv
    PROVE  /\ exchange \in Exchanges /\ leg \in Legs /\ progress \in Progress /\ Tallied(progress)
           /\ amounts = [attempts |-> amounts.attempts, taken |-> amounts.taken, got |-> amounts.got,
                         sent |-> amounts.sent, received |-> amounts.received]
           /\ amounts.attempts \in Nat /\ amounts.taken \in 0..Len(exchange.parts)
           /\ amounts.got \in 0..Len(exchange.reply) /\ amounts.sent \in Nat /\ amounts.received \in Nat
  BY DEF MovedInv, BodyTypeOK, Told

LEMMA MovedFails ==
    ASSUME MovedInv, PullFails \/ FetchFails
    PROVE  MovedInv'
<1>1. /\ leg \in {"sending", "reading"} /\ leg' = "failed"
      /\ exchange' = exchange /\ amounts' = amounts /\ progress' = progress
  BY DEF PullFails, FetchFails
<1>2. Sends' = Sends /\ Reads' = Reads /\ Streamed' = Streamed
  BY <1>1, SameWays
<1>3. BodyTypeOK'
  BY <1>1 DEF MovedInv, BodyTypeOK, Legs
<1>4. Sent'
  BY <1>1, <1>2 DEF MovedInv, Sent, Answering
<1>5. Received'
  BY <1>1, <1>2 DEF MovedInv, Received, Chunky
<1>6. Told'
  BY <1>1 DEF MovedInv, Told, Answering
<1> QED BY <1>3, <1>4, <1>5, <1>6 DEF MovedInv

LEMMA MovedEnds ==
    ASSUME MovedInv, LastChunk
    PROVE  MovedInv'
<1>1. /\ Chunky /\ amounts.got = Len(exchange.reply) /\ leg' = "done"
      /\ exchange' = exchange /\ amounts' = amounts /\ progress' = progress
  BY DEF LastChunk, Chunky
<1>2. Sends' = Sends /\ Reads' = Reads /\ Streamed' = Streamed /\ Listened' = Listened /\ Tracked' = Tracked
  BY <1>1, SameWays
<1>3. BodyTypeOK'
  BY <1>1 DEF MovedInv, BodyTypeOK, Legs
<1>4. Sent'
  BY <1>1, <1>2 DEF MovedInv, Sent, Answering, Chunky, ReadAgain
<1>5. Received'
  BY <1>1, <1>2 DEF MovedInv, Received, Chunky, Total
<1>6. Told'
  BY <1>1, <1>2 DEF MovedInv, Told, Answering, Chunky
<1> QED BY <1>3, <1>4, <1>5, <1>6 DEF MovedInv

LEMMA MovedPulls ==
    ASSUME MovedInv, PullPart
    PROVE  MovedInv'
<1> DEFINE sent == amounts.sent + exchange.parts[amounts.taken + 1]
<1>1. /\ leg = "sending" /\ leg' = "sending" /\ Streamed /\ amounts.attempts = 1
      /\ amounts.taken < Len(exchange.parts) /\ exchange' = exchange
      /\ amounts' = [amounts EXCEPT !.taken = @ + 1, !.sent = sent]
      /\ progress' = IF Tracked THEN reportProgress(progress, "upload", sent, exchange.declared) ELSE progress
  BY DEF PullPart, Streamed
<1>2. /\ Sends' = Sends /\ Reads' = Reads /\ Streamed' = Streamed /\ Listened' = Listened /\ Tracked' = Tracked
  BY <1>1, SameWays
<1>3. /\ exchange.parts \in Seq(Nat) /\ exchange.declared \in Nat \cup {None} /\ exchange.watched \in BOOLEAN
  BY Amounts, Exchanged
<1>4. amounts.sent = Sums(exchange.parts)[amounts.taken]
  BY <1>1 DEF MovedInv, Sent
<1>5. /\ amounts.taken + 1 \in 0..Len(exchange.parts) /\ sent \in Nat /\ amounts.sent <= sent
      /\ sent = Sums(exchange.parts)[amounts.taken + 1]
  <2>1. /\ amounts.taken \in 0..Len(exchange.parts) /\ amounts.taken < Len(exchange.parts)
        /\ exchange.parts \in Seq(Nat) /\ amounts.taken \in Nat
    BY <1>1, <1>3, Amounts
  <2>2. /\ amounts.taken + 1 \in 0..Len(exchange.parts) /\ exchange.parts[amounts.taken + 1] \in Nat
        /\ Sums(exchange.parts)[amounts.taken] \in Nat
        /\ Sums(exchange.parts)[amounts.taken + 1] =
               Sums(exchange.parts)[amounts.taken] + exchange.parts[amounts.taken + 1]
    BY <2>1, OneSumMore
  <2> QED BY <1>4, <2>2
<1> HIDE DEF sent
<1>6. /\ amounts'.attempts = 1 /\ amounts'.taken = amounts.taken + 1 /\ amounts'.got = amounts.got
      /\ amounts'.sent = sent /\ amounts'.received = amounts.received
      /\ amounts' \in [attempts : Nat, taken : 0..Len(exchange.parts), got : 0..Len(exchange.reply),
                       sent : Nat, received : Nat]
  BY <1>1, <1>5, Amounts
<1>7. /\ Tallied(progress')
      /\ Opened(progress'.events, "download") <=> Opened(progress.events, "download")
      /\ Opened(progress'.events, "upload") =>
             Tracked /\ progress'.marks["upload"] = sent
      /\ Opened(progress.events, "upload") => Opened(progress'.events, "upload")
      /\ exchange.watched \/ \A d \in Directions : ~Opened(progress'.events, d)
  <2>1. CASE Tracked
    <3>1. exchange.watched =>
              /\ Opened(progress.events, "upload")
              /\ progress.marks["upload"] \in Nat /\ progress.marks["upload"] <= sent
      BY <1>1, <1>5, <2>1, Amounts DEF MovedInv, Told, Streamed
    <3>2. Says(progress, progress', "upload", sent)
      BY <1>1, <1>3, <1>5, <2>1, <3>1, Amounts, Reported DEF Directions
    <3>3. ~exchange.watched => ~Opened(progress.events, "upload")
      BY DEF MovedInv, Told, Directions
    <3> QED BY <2>1, <3>2, <3>3 DEF Directions, MovedInv, Told, Says
  <2>2. CASE ~Tracked
    BY <1>1, <2>2, Amounts DEF MovedInv, Told, Streamed
  <2> QED BY <2>1, <2>2
<1>8. BodyTypeOK'
  BY <1>1, <1>6, <1>7, Amounts DEF BodyTypeOK, Tallied
<1>9. Sent'
  BY <1>1, <1>2, <1>5, <1>6 DEF MovedInv, Sent, Answering
<1>10. Received'
  BY <1>1, <1>2, <1>6 DEF MovedInv, Received, Chunky
<1>11. Told'
  BY <1>1, <1>2, <1>6, <1>7 DEF MovedInv, Told, Answering, Streamed
<1> QED BY <1>8, <1>9, <1>10, <1>11 DEF MovedInv

\* Begin with nothing told.
LEMMA NothingTold ==
    ASSUME MovedInv
    PROVE  Tallied(FreshProgress) /\ \A d \in Directions : ~Opened(FreshProgress.events, d)
<1>1. progress.marks \in [Directions -> Nat \cup {None}]
  BY Amounts DEF Progress
<1>2. /\ FreshProgress.events = <<>> /\ FreshProgress \in Progress
  BY <1>1 DEF FreshProgress, Progress
<1> QED BY <1>2 DEF Tallied, AddsUp, Noted, Opened

LEMMA MovedBegins ==
    ASSUME MovedInv, BeginFetch
    PROVE  MovedInv'
<1> DEFINE total == Total(exchange.parts)
<1>1. /\ leg \in {"ready", "failed"} /\ exchange' = exchange
      /\ amounts' = [amounts EXCEPT !.attempts = @ + 1, !.got = 0, !.sent = 0, !.received = 0]
      /\ leg' = IF Sends = "piped" /\ amounts.attempts > 0 THEN "failed" ELSE "sending"
      /\ Sends = "known" => progress' = reportKnownUploadProgress(FreshProgress, total)
      /\ Sends # "known" /\ Tracked => progress' = Announced(FreshProgress, "upload", exchange.declared)
      /\ Sends # "known" /\ ~Tracked => progress' = FreshProgress
  <2>1. Tracked => Sends # "known"
    BY DEF Tracked
  <2>2. /\ leg \in {"ready", "failed"} /\ exchange' = exchange
        /\ amounts' = [amounts EXCEPT !.attempts = @ + 1, !.got = 0, !.sent = 0, !.received = 0]
        /\ leg' = IF Sends = "piped" /\ amounts.attempts > 0 THEN "failed" ELSE "sending"
    BY DEF BeginFetch, Used
  <2>3. progress' = CASE Sends = "known" -> reportKnownUploadProgress(FreshProgress, total)
                      [] Tracked -> Announced(FreshProgress, "upload", exchange.declared)
                      [] OTHER -> FreshProgress
    BY DEF BeginFetch
  <2> QED BY <2>1, <2>2, <2>3
<1>2. /\ Sends' = Sends /\ Reads' = Reads /\ Streamed' = Streamed /\ Listened' = Listened /\ Tracked' = Tracked
  BY <1>1, SameWays
<1>3. /\ exchange.declared \in Nat \cup {None} /\ exchange.watched \in BOOLEAN /\ total \in Nat
      /\ Sums(exchange.parts)[0] = 0 /\ exchange.limit \in Nat
  BY Amounts, Exchanged DEF Summed
<1>4. /\ amounts'.attempts = amounts.attempts + 1 /\ amounts'.taken = amounts.taken /\ amounts'.got = 0
      /\ amounts'.sent = 0 /\ amounts'.received = 0
      /\ amounts' \in [attempts : Nat, taken : 0..Len(exchange.parts), got : 0..Len(exchange.reply),
                       sent : Nat, received : Nat]
  <2>1. 0 \in 0..Len(exchange.reply)
    BY Amounts
  <2>2. amounts' = [attempts |-> amounts.attempts + 1, taken |-> amounts.taken, got |-> 0,
                    sent |-> 0, received |-> 0]
    BY <1>1, Amounts
  <2> QED BY <2>1, <2>2, Amounts
<1>5. /\ Tallied(FreshProgress) /\ \A d \in Directions : ~Opened(FreshProgress.events, d)
  BY NothingTold
<1>6. /\ Tallied(progress')
      /\ exchange.watched \/ \A d \in Directions : ~Opened(progress'.events, d)
      /\ ~Opened(progress'.events, "download")
      /\ Opened(progress'.events, "upload") =>
             /\ progress'.marks["upload"] = IF Sends = "known" THEN total ELSE 0
             /\ Sends = "known" \/ Tracked
      /\ leg' = "sending" /\ Sends # "known" /\ Tracked /\ exchange.watched => Opened(progress'.events, "upload")
  <2> DEFINE begun(t) == Announced(FreshProgress, "upload", t)
  <2>1. ASSUME NEW t \in Nat \cup {None}
        PROVE  Says(FreshProgress, begun(t), "upload", 0)
    BY <1>3, <1>5, Reported DEF Announced, Directions
  <2>2. CASE Sends = "known"
    <3>1. progress' = reportProgress(begun(total), "upload", total, total)
      BY <1>1, <2>2 DEF reportKnownUploadProgress
    <3>2. PICK p : p = begun(total)
      OBVIOUS
    <3>3. Says(FreshProgress, p, "upload", 0) /\ progress' = reportProgress(p, "upload", total, total)
      BY <1>3, <2>1, <3>1, <3>2
    <3> HIDE DEF begun, total
    <3>4. Tallied(p) /\ (exchange.watched => Opened(p.events, "upload") /\ p.marks["upload"] = 0)
      BY <3>3 DEF Says, Directions
    <3>5. Says(p, progress', "upload", total)
      BY <1>3, <3>3, <3>4, Reported DEF Directions
    <3> QED BY <1>5, <2>2, <3>3, <3>5 DEF Says, Directions
  <2>3. CASE Sends # "known" /\ Tracked
    <3>1. Says(FreshProgress, progress', "upload", 0)
      BY <1>1, <1>3, <2>1, <2>3
    <3> QED BY <1>5, <2>3, <3>1 DEF Says, Directions
  <2>4. CASE Sends # "known" /\ ~Tracked
    BY <1>1, <1>5, <2>4 DEF Directions
  <2> QED BY <2>2, <2>3, <2>4
<1> HIDE DEF total
<1>7. Tracked => Sends # "known"
  BY DEF Tracked
<1>8. BodyTypeOK'
  BY <1>1, <1>4, <1>6, Amounts DEF BodyTypeOK, Tallied, Legs
<1>9. Sent'
  BY <1>1, <1>2, <1>3, <1>4, Amounts DEF MovedInv, Sent, Answering
<1>10. Received'
  BY <1>1, <1>2, <1>4 DEF Received, Chunky
<1>11. Told'
  BY <1>1, <1>2, <1>4, <1>6, <1>7 DEF Told, Answering, total
<1> QED BY <1>8, <1>9, <1>10, <1>11 DEF MovedInv

LEMMA MovedResolves ==
    ASSUME MovedInv, FetchResolves
    PROVE  MovedInv'
<1>1. /\ leg = "sending" /\ exchange' = exchange
      /\ Streamed => amounts.taken = Len(exchange.parts)
      /\ amounts' = IF Streamed \/ exchange.body = "none" THEN amounts
                    ELSE [amounts EXCEPT !.sent = Total(exchange.parts)]
      /\ leg' = IF Reads = "stream" THEN "streaming" ELSE "reading"
      /\ progress' = IF Listened THEN Announced(progress, "download", exchange.told) ELSE progress
  BY DEF FetchResolves, Streamed, Listened
<1>2. /\ Sends' = Sends /\ Reads' = Reads /\ Streamed' = Streamed /\ Listened' = Listened /\ Tracked' = Tracked
  BY <1>1, SameWays
<1>3. /\ exchange.told \in Nat \cup {None} /\ exchange.watched \in BOOLEAN /\ exchange.limit \in Nat
      /\ Sums(exchange.reply)[0] = 0 /\ Total(exchange.parts) \in Nat
      /\ Tracked => Streamed
      /\ Sends = "known" => exchange.body = "text" /\ ~Streamed
  BY Amounts, Exchanged, Ways DEF Summed, Streamed
<1>4. /\ amounts'.attempts = amounts.attempts /\ amounts'.taken = amounts.taken
      /\ amounts'.got = 0 /\ amounts'.received = 0
      /\ amounts'.sent = IF Streamed \/ exchange.body = "none" THEN amounts.sent ELSE Total(exchange.parts)
      /\ amounts' \in [attempts : Nat, taken : 0..Len(exchange.parts), got : 0..Len(exchange.reply),
                       sent : Nat, received : Nat]
  <2>1. amounts.got = 0 /\ amounts.received = 0
    BY <1>1 DEF MovedInv, Received
  <2> QED BY <1>1, <1>3, <2>1, Amounts
<1>5. /\ Tallied(progress')
      /\ exchange.watched \/ \A d \in Directions : ~Opened(progress'.events, d)
      /\ Opened(progress'.events, "upload") <=> Opened(progress.events, "upload")
      /\ progress'.marks["upload"] = progress.marks["upload"]
      /\ Opened(progress'.events, "download") => progress'.marks["download"] = 0 /\ Listened
      /\ Listened /\ exchange.watched => Opened(progress'.events, "download")
  <2>1. /\ ~Opened(progress.events, "download")
        /\ exchange.watched \/ \A d \in Directions : ~Opened(progress.events, d)
    BY <1>1 DEF MovedInv, Told
  <2>2. CASE Listened
    <3>1. Says(progress, progress', "download", 0)
      BY <1>1, <1>3, <2>1, <2>2, Amounts, Reported DEF Announced, Directions
    <3> QED BY <2>1, <2>2, <3>1 DEF Says, Directions
  <2>3. CASE ~Listened
    BY <1>1, <2>1, <2>3, Amounts
  <2> QED BY <2>2, <2>3
<1>6. BodyTypeOK'
  BY <1>1, <1>4, <1>5, Amounts DEF BodyTypeOK, Tallied, Legs
<1>7. Sent'
  <2>1. Streamed /\ ~(Sends = "iterated" /\ amounts.attempts > 1) => amounts.sent = Total(exchange.parts)
    <3>1. amounts.attempts # 0 /\ ~(Sends = "piped" /\ amounts.attempts > 1)
      BY <1>1 DEF MovedInv, Sent
    <3>2. Streamed /\ amounts.attempts = 1 => amounts.sent = Total(exchange.parts)
      BY <1>1 DEF MovedInv, Sent, Total
    <3> QED BY <3>1, <3>2, Amounts DEF Streamed
  <2> QED BY <1>1, <1>2, <1>4, <2>1 DEF MovedInv, Sent, Answering, ReadAgain
<1>8. Received'
  BY <1>1, <1>2, <1>3, <1>4 DEF Received, Chunky
<1>9. Told'
  BY <1>1, <1>2, <1>3, <1>4, <1>5 DEF MovedInv, Told, Answering
<1> QED BY <1>6, <1>7, <1>8, <1>9 DEF MovedInv

LEMMA MovedArrives ==
    ASSUME MovedInv, ChunkArrives
    PROVE  MovedInv'
<1> DEFINE loaded == amounts.received + exchange.reply[amounts.got + 1]
<1>1. /\ Chunky /\ amounts.got < Len(exchange.reply) /\ exchange' = exchange
      /\ amounts' = [amounts EXCEPT !.got = @ + 1, !.received = loaded]
      /\ IF leg = "reading" /\ loaded > exchange.limit
         THEN leg' = "failed" /\ progress' = progress
         ELSE /\ progress' = IF exchange.streams THEN reportProgress(progress, "download", loaded, exchange.told)
                             ELSE progress
              /\ leg' = leg
  BY DEF ChunkArrives, Chunky, Over
<1>2. /\ Sends' = Sends /\ Reads' = Reads /\ Streamed' = Streamed /\ Listened' = Listened /\ Tracked' = Tracked
  BY <1>1, SameWays
<1>3. /\ exchange.told \in Nat \cup {None} /\ exchange.watched \in BOOLEAN /\ exchange.limit \in Nat
      /\ exchange.reply \in Seq(Nat) /\ exchange.streams \in BOOLEAN
      /\ Reads = "chunks" => exchange.streams
  BY Amounts, Exchanged, Ways
<1>4. amounts.received = Sums(exchange.reply)[amounts.got]
  BY <1>1 DEF MovedInv, Received
<1>5. /\ amounts.got + 1 \in 0..Len(exchange.reply) /\ loaded \in Nat /\ amounts.received <= loaded
      /\ loaded = Sums(exchange.reply)[amounts.got + 1]
  <2>1. /\ amounts.got \in 0..Len(exchange.reply) /\ amounts.got < Len(exchange.reply)
        /\ exchange.reply \in Seq(Nat) /\ amounts.got \in Nat
    BY <1>1, <1>3, Amounts
  <2>2. /\ amounts.got + 1 \in 0..Len(exchange.reply) /\ exchange.reply[amounts.got + 1] \in Nat
        /\ Sums(exchange.reply)[amounts.got] \in Nat
        /\ Sums(exchange.reply)[amounts.got + 1] = Sums(exchange.reply)[amounts.got] + exchange.reply[amounts.got + 1]
    BY <2>1, OneSumMore
  <2> QED BY <1>4, <2>2
<1> HIDE DEF loaded
<1>6. /\ amounts'.attempts = amounts.attempts /\ amounts'.taken = amounts.taken
      /\ amounts'.got = amounts.got + 1 /\ amounts'.sent = amounts.sent /\ amounts'.received = loaded
      /\ amounts' \in [attempts : Nat, taken : 0..Len(exchange.parts), got : 0..Len(exchange.reply),
                       sent : Nat, received : Nat]
  BY <1>1, <1>5, Amounts
<1>7. /\ Tallied(progress')
      /\ exchange.watched \/ \A d \in Directions : ~Opened(progress'.events, d)
      /\ Opened(progress'.events, "upload") <=> Opened(progress.events, "upload")
      /\ progress'.marks["upload"] = progress.marks["upload"]
      /\ leg' # "failed" /\ Opened(progress'.events, "download") =>
             progress'.marks["download"] = loaded /\ Listened
      /\ Opened(progress.events, "download") => Opened(progress'.events, "download")
  <2>1. /\ Opened(progress.events, "download") => progress.marks["download"] = amounts.received /\ Listened
        /\ Listened /\ exchange.watched => Opened(progress.events, "download")
        /\ exchange.watched \/ \A d \in Directions : ~Opened(progress.events, d)
    BY <1>1 DEF MovedInv, Told, Answering, Chunky
  <2>2. /\ exchange.streams <=> Listened
    BY <1>1, <1>3 DEF MovedInv, Received, Chunky, Listened
  <2>3. CASE leg' = "failed"
    BY <1>1, <2>1, <2>3, Amounts DEF MovedInv, BodyTypeOK, Chunky
  <2>4. CASE leg' # "failed" /\ exchange.streams
    <3>1. progress' = reportProgress(progress, "download", loaded, exchange.told)
      BY <1>1, <2>4
    <3>2. Says(progress, progress', "download", loaded)
      BY <1>3, <1>5, <2>1, <2>2, <2>4, <3>1, Amounts, Reported DEF Directions
    <3> QED BY <2>1, <2>2, <2>4, <3>2 DEF Says, Directions
  <2>5. CASE leg' # "failed" /\ ~exchange.streams
    BY <1>1, <2>1, <2>2, <2>5, Amounts
  <2> QED BY <2>3, <2>4, <2>5
<1>8. BodyTypeOK'
  BY <1>1, <1>6, <1>7, Amounts DEF BodyTypeOK, Tallied, Legs
<1>9. Sent'
  BY <1>1, <1>2, <1>6 DEF MovedInv, Sent, Answering, ReadAgain, Chunky
<1>10. Received'
  BY <1>1, <1>2, <1>3, <1>5, <1>6 DEF MovedInv, Received, Chunky
<1>11. Told'
  BY <1>1, <1>2, <1>6, <1>7 DEF MovedInv, Told, Answering, Chunky
<1> QED BY <1>8, <1>9, <1>10, <1>11 DEF MovedInv

LEMMA MovedAllArrives ==
    ASSUME MovedInv, AllArrives
    PROVE  MovedInv'
<1> DEFINE size == Total(exchange.reply)
           total == IF exchange.told = None THEN size ELSE exchange.told
<1>1. /\ leg = "reading" /\ Reads \in {"whole", "platform"} /\ exchange' = exchange
      /\ IF Reads = "whole" /\ size > exchange.limit
         THEN leg' = "failed" /\ amounts' = amounts /\ progress' = progress
         ELSE /\ leg' = "done" /\ amounts' = [amounts EXCEPT !.received = size]
              /\ progress' = IF Reads = "platform" THEN progress
                             ELSE reportProgress(progress, "download", size, total)
  BY DEF AllArrives, Over
<1>2. /\ Sends' = Sends /\ Reads' = Reads /\ Streamed' = Streamed /\ Listened' = Listened /\ Tracked' = Tracked
  BY <1>1, SameWays
<1>3. /\ total \in Nat \cup {None} /\ exchange.watched \in BOOLEAN /\ exchange.limit \in Nat /\ size \in Nat
  BY Amounts, Exchanged
<1> HIDE DEF total
<1>4. CASE leg' = "failed"
  <2>1. amounts' = amounts /\ progress' = progress
    BY <1>1, <1>4
  <2>2. BodyTypeOK'
    BY <1>1, <1>4, <2>1 DEF MovedInv, BodyTypeOK, Legs
  <2>3. Sent'
    BY <1>1, <1>2, <1>4, <2>1 DEF MovedInv, Sent, Answering
  <2>4. Received'
    BY <1>1, <1>2, <1>4, <2>1 DEF MovedInv, Received, Chunky
  <2>5. Told'
    BY <1>1, <1>2, <1>4, <2>1 DEF MovedInv, Told, Answering
  <2> QED BY <2>2, <2>3, <2>4, <2>5 DEF MovedInv
<1>5. CASE leg' # "failed"
  <2>1. /\ leg' = "done" /\ amounts' = [amounts EXCEPT !.received = size]
        /\ Reads = "whole" => ~(size > exchange.limit)
        /\ Reads = "platform" => progress' = progress
        /\ Reads = "whole" => progress' = reportProgress(progress, "download", size, total)
    BY <1>1, <1>5
  <2>2. /\ amounts'.attempts = amounts.attempts /\ amounts'.taken = amounts.taken
        /\ amounts'.got = amounts.got /\ amounts'.sent = amounts.sent /\ amounts'.received = size
        /\ amounts' \in [attempts : Nat, taken : 0..Len(exchange.parts), got : 0..Len(exchange.reply),
                         sent : Nat, received : Nat]
    BY <1>3, <2>1, Amounts
  <2>3. /\ Tallied(progress')
        /\ exchange.watched \/ \A d \in Directions : ~Opened(progress'.events, d)
        /\ Opened(progress'.events, "upload") <=> Opened(progress.events, "upload")
        /\ progress'.marks["upload"] = progress.marks["upload"]
        /\ Opened(progress'.events, "download") => progress'.marks["download"] = size /\ Listened
    <3>1. /\ Opened(progress.events, "download") => progress.marks["download"] = 0 /\ Listened
          /\ Listened /\ exchange.watched => Opened(progress.events, "download")
          /\ exchange.watched \/ \A d \in Directions : ~Opened(progress.events, d)
      BY <1>1 DEF MovedInv, Told, Received, Answering
    <3>2. Listened <=> Reads = "whole"
      BY <1>1 DEF Listened
    <3>3. CASE Reads = "whole"
      <4>1. Says(progress, progress', "download", size)
        BY <1>3, <2>1, <3>1, <3>2, <3>3, Amounts, Reported DEF Directions
      <4> QED BY <3>1, <3>2, <3>3, <4>1 DEF Says, Directions
    <3>4. CASE Reads = "platform"
      BY <2>1, <3>1, <3>2, <3>4, Amounts
    <3> QED BY <1>1, <3>3, <3>4
  <2>4. BodyTypeOK'
    BY <1>1, <2>1, <2>2, <2>3, Amounts DEF BodyTypeOK, Tallied, Legs
  <2>5. Sent'
    BY <1>1, <1>2, <2>1, <2>2 DEF MovedInv, Sent, Answering, ReadAgain
  <2>6. Received'
    BY <1>1, <1>2, <1>3, <2>1, <2>2 DEF MovedInv, Received, Chunky
  <2>7. Told'
    BY <1>1, <1>2, <2>1, <2>2, <2>3 DEF MovedInv, Told, Answering
  <2> QED BY <2>4, <2>5, <2>6, <2>7 DEF MovedInv
<1> QED BY <1>4, <1>5

LEMMA MovedStep == MovedInv /\ [FetchBodiesNext]_fetchBodyVars => MovedInv'
<1> SUFFICES ASSUME MovedInv, [FetchBodiesNext]_fetchBodyVars PROVE MovedInv'
  OBVIOUS
<1>1. CASE FetchBodiesNext
  BY <1>1, MovedFails, MovedEnds, MovedPulls, MovedBegins, MovedResolves, MovedArrives, MovedAllArrives
     DEF FetchBodiesNext
<1>2. CASE UNCHANGED fetchBodyVars
  <2>1. exchange' = exchange /\ leg' = leg /\ amounts' = amounts /\ progress' = progress
    BY <1>2 DEF fetchBodyVars
  <2>2. Sends' = Sends /\ Reads' = Reads /\ Streamed' = Streamed /\ Listened' = Listened /\ Tracked' = Tracked
    BY <2>1, SameWays
  <2>3. BodyTypeOK'
    BY <2>1 DEF MovedInv, BodyTypeOK
  <2>4. Sent'
    BY <2>1, <2>2 DEF MovedInv, Sent, Answering, ReadAgain
  <2>5. Received'
    BY <2>1, <2>2 DEF MovedInv, Received, Chunky
  <2>6. Told'
    BY <2>1, <2>2 DEF MovedInv, Told, Answering
  <2> QED BY <2>3, <2>4, <2>5, <2>6 DEF MovedInv
<1> QED BY <1>1, <1>2

\* A request through fetch that succeeds has moved all of both bodies, within its limit,
\* and its callbacks were told of what was moved and no more, whatever the sizes of the
\* parts and however many attempts it took.
THEOREM AllMovedAndTold == FetchBodiesSpec => []MovedAsTold
BY MovedStart, MovedStep, MovedGives, PTL DEF FetchBodiesSpec
================================================================================
