----------------------------- MODULE CacheEngine -----------------------------
(***************************************************************************)
(* src/src/performance/CacheEngine.ts and its use by NeutrxClient: the     *)
(* responses of one client's cache, the requests that look them up, fetch  *)
(* them and store them, and the background revalidations.                  *)
(*                                                                         *)
(* The origin is external: it publishes versions of each resource, names   *)
(* each by its entity tag, and answers a request with the version it has   *)
(* at that time, or 304 when the request named that version's tag.         *)
(* Responses carry the same Cache-Control, or none that allows caching.    *)
(*                                                                         *)
(* EvictsLate and UnlockedNever are mutated forms of the definitions they  *)
(* precede; no action uses them.                                           *)
(***************************************************************************)
EXTENDS Undefined, Numbers, Integers, FiniteSets

CONSTANTS
    Keys,
    Readers,           \* the requests that look something up
    Revalidations,             \* bound on the revalidations that are under way at once
    CacheStrategy,
    Ttl,               \* the response's max-age, or cacheTTL
    RevalidateAfter,   \* revalidateAfter, or None
    StaleMax,          \* cacheStaleMax
    StaleIfError,      \* the response's stale-if-error
    MaxSize,
    HasLock,           \* the store implements lock and unlock
    MayInvalidate,     \* callers invalidate the cache
    MayFail,           \* the origin may fail to answer
    MayForbid,         \* a response may be one that must not be stored
    MaxVersion,        \* bound on the versions of a resource
    NotModified

ASSUME CacheAssumption ==
    /\ CacheStrategy \in {"max-age", "swr", "network-first"}
    /\ Ttl \in Nat /\ StaleMax \in Nat /\ StaleIfError \in Nat
    /\ RevalidateAfter \in Nat \cup {None}
    /\ MaxSize \in Nat \ {0} /\ MaxVersion \in Nat
    /\ IsFiniteSet(Keys) /\ None \notin Keys /\ None \notin Nat
    /\ HasLock \in BOOLEAN /\ MayInvalidate \in BOOLEAN /\ MayFail \in BOOLEAN
    /\ MayForbid \in BOOLEAN /\ NotModified \notin Nat \cup {None}

VARIABLES
    entries,           \* the CacheRecord of each key, or None
    locks,             \* the keys locked in the store
    stage, key, got,      \* where each request is, for which key, the version it got
    tpc, tkey, tag, reply,
                       \* the same of each revalidation, with its If-None-Match
    version            \* the origin's version of each resource

tasks == <<tpc, tkey, tag, reply>>
cacheVars == <<entries, locks, stage, key, got, tasks, version>>

\* #freshTTL and #staleTTL
FreshTTL ==
    IF CacheStrategy = "max-age" \/ RevalidateAfter = None THEN Ttl ELSE Smaller(Ttl, RevalidateAfter)
StaleTTL ==
    CASE CacheStrategy = "swr"           -> Larger(Larger(Ttl, FreshTTL), StaleMax)
      [] CacheStrategy = "network-first" -> Larger(Ttl, FreshTTL)
      [] CacheStrategy = "max-age"       -> FreshTTL
ErrorTTL == Ttl + StaleIfError

\* Ages are counted until no window tells them apart.
Aeon == Larger(StaleTTL, ErrorTTL) + 1

\* CacheRecord: `age` is Date.now() - createdAt, which the three limits are
\* compared with; `idle` is the time since lastAccessed.
Entry == [body : 0..MaxVersion, etag : 0..MaxVersion, age : 0..Aeon, idle : 0..Aeon,
          revalidating : BOOLEAN]

Stored == {k \in Keys : entries[k] # None}
Fresh(e) == e.age <= FreshTTL
Usable(e) == Fresh(e) \/ (CacheStrategy = "swr" /\ e.age <= StaleTTL)
-----------------------------------------------------------------------------
\* What the engine's operations leave in the store.

Touched(e) == [e EXCEPT !.idle = 0]

\* set makes room first, whether or not the key is already stored.
EvictsLate == Cardinality(Stored) > MaxSize
Evicts == Cardinality(Stored) >= MaxSize
Oldest == {k \in Stored : \A j \in Stored : entries[j].idle <= entries[k].idle}

New(v) == [body |-> v, etag |-> v, age |-> 0, idle |-> 0, revalidating |-> FALSE]

\* set, then the locks that the eviction dropped and `unlocked` with them.
Set(k, v, unlocked) ==
    \E out \in IF Evicts THEN {{j} : j \in Oldest} ELSE {{}} :
        /\ entries' = [j \in Keys |-> IF j = k THEN New(v) ELSE IF j \in out THEN None ELSE entries[j]]
        /\ locks' = locks \ (out \cup unlocked)

Delete(K) ==
    /\ entries' = [k \in Keys |-> IF k \in K THEN None ELSE entries[k]]
    /\ locks' = locks \ K

\* refresh after a 304, whose headers carry the tag that was asked for, and then
\* finishRevalidating.
Refreshed(e, t) == [e EXCEPT !.etag = tag[t], !.age = 0, !.idle = 0, !.revalidating = FALSE]
Finished(e) == [e EXCEPT !.revalidating = FALSE]
Kept(k, e) == IF entries[k] = None THEN entries ELSE [entries EXCEPT ![k] = e]

UnlockedNever(k) == {}
Unlocked(k) == {k}

\* markRevalidating
Marks(k) == ~entries[k].revalidating /\ (HasLock => k \notin locks)

-----------------------------------------------------------------------------
CacheInit ==
    /\ entries = [k \in Keys |-> None]
    /\ locks = {}
    /\ stage = [r \in Readers |-> "idle"]
    /\ key = [r \in Readers |-> None]
    /\ got = [r \in Readers |-> None]
    /\ tpc = [t \in Revalidations |-> "idle"]
    /\ tkey = [t \in Revalidations |-> None]
    /\ tag = [t \in Revalidations |-> None]
    /\ reply = [t \in Revalidations |-> None]
    /\ version = [k \in Keys |-> 0]

\* NeutrxClient.request: getWithState has nothing to hand out, or is not asked.
Miss(r, k) ==
    LET e == entries[k] IN
    /\ stage[r] = "idle"
    /\ CacheStrategy # "network-first" /\ e # None => ~Usable(e)
    /\ stage' = [stage EXCEPT ![r] = "fetching"]
    /\ key' = [key EXCEPT ![r] = k]
    /\ IF CacheStrategy # "network-first" /\ e # None /\ e.age > ErrorTTL
       THEN Delete({k}) ELSE UNCHANGED <<entries, locks>>
    /\ UNCHANGED <<got, tasks, version>>

FreshHit(r, k) ==
    /\ stage[r] = "idle" /\ CacheStrategy # "network-first"
    /\ k \in Stored /\ Fresh(entries[k])
    /\ entries' = [entries EXCEPT ![k] = Touched(@)]
    /\ UNCHANGED <<locks, stage, key, got, tasks, version>>

\* A stale response is handed out and #revalidateCache starts, unless it finds
\* the entry marked or locked.  It asks for the tag of the entry it found.
StaleHit(r, k) ==
    LET e == Touched(entries[k]) IN
    /\ stage[r] = "idle" /\ CacheStrategy # "network-first"
    /\ k \in Stored /\ Usable(entries[k]) /\ ~Fresh(entries[k])
    /\ IF Marks(k)
       THEN /\ entries' = [entries EXCEPT ![k] = [e EXCEPT !.revalidating = TRUE]]
            /\ locks' = IF HasLock THEN locks \cup {k} ELSE locks
            /\ \E t \in Revalidations :
                /\ tpc[t] = "idle"
                /\ tpc' = [tpc EXCEPT ![t] = "asking"]
                /\ tkey' = [tkey EXCEPT ![t] = k]
                /\ tag' = [tag EXCEPT ![t] = e.etag]
       ELSE /\ entries' = [entries EXCEPT ![k] = e]
            /\ UNCHANGED <<locks, tpc, tkey, tag>>
    /\ UNCHANGED <<stage, key, got, reply, version>>

\* The origin answers a request, or the network fails.
Reply(r) ==
    /\ stage[r] = "fetching"
    /\ stage' = [stage EXCEPT ![r] = "answered"]
    /\ \E v \in {version[key[r]]} \cup (IF MayFail THEN {None} ELSE {}) : got' = [got EXCEPT ![r] = v]
    /\ UNCHANGED <<entries, locks, key, tasks, version>>

\* The response is stored, unless it must not be; after a failure a stale entry
\* may be handed out instead.
Settle(r) ==
    LET k == key[r]
        e == entries[k]
        fallback == /\ e # None
                    /\ \/ CacheStrategy = "network-first" /\ e.age <= StaleTTL
                       \/ CacheStrategy # "network-first" /\ ~Fresh(e) /\ e.age <= ErrorTTL
    IN /\ stage[r] = "answered"
       /\ stage' = [stage EXCEPT ![r] = "idle"]
       /\ key' = [key EXCEPT ![r] = None]
       /\ got' = [got EXCEPT ![r] = None]
       /\ \/ got[r] # None /\ Set(k, got[r], {})
          \/ got[r] # None /\ MayForbid /\ UNCHANGED <<entries, locks>>
          \/ got[r] = None /\ fallback /\ entries' = [entries EXCEPT ![k] = Touched(e)] /\ UNCHANGED locks
          \/ got[r] = None /\ ~fallback /\ UNCHANGED <<entries, locks>>
       /\ UNCHANGED <<tasks, version>>

ReplyTask(t) ==
    LET v == version[tkey[t]] IN
    /\ tpc[t] = "asking"
    /\ tpc' = [tpc EXCEPT ![t] = "answered"]
    /\ \E a \in {IF tag[t] = v THEN NotModified ELSE v} \cup (IF MayFail THEN {None} ELSE {}) :
           reply' = [reply EXCEPT ![t] = a]
    /\ UNCHANGED <<entries, locks, stage, key, got, tkey, tag, version>>

\* The rest of #revalidateCache: refresh, set or neither, then finishRevalidating.
SettleTask(t) ==
    LET k == tkey[t]
        e == entries[k]
    IN /\ tpc[t] = "answered"
       /\ tpc' = [tpc EXCEPT ![t] = "idle"]
       /\ tkey' = [tkey EXCEPT ![t] = None]
       /\ tag' = [tag EXCEPT ![t] = None]
       /\ reply' = [reply EXCEPT ![t] = None]
       /\ \/ /\ reply[t] = NotModified
             /\ entries' = Kept(k, Refreshed(e, t))
             /\ locks' = locks \ Unlocked(k)
          \/ reply[t] \in Nat /\ Set(k, reply[t], Unlocked(k))
          \/ /\ reply[t] = None \/ (reply[t] \in Nat /\ MayForbid)
             /\ entries' = Kept(k, Finished(e))
             /\ locks' = locks \ Unlocked(k)
       /\ UNCHANGED <<stage, key, got, version>>

\* invalidate, clear and deleteByUrl
Invalidate(K) ==
    /\ MayInvalidate
    /\ K # {} /\ K \subseteq Stored
    /\ Delete(K)
    /\ UNCHANGED <<stage, key, got, tasks, version>>

\* #sweep
Sweep ==
    LET kept == IF CacheStrategy = "max-age" THEN FreshTTL ELSE StaleTTL
        old == {k \in Stored : entries[k].age > Larger(kept, ErrorTTL)}
    IN /\ old # {}
       /\ Delete(old)
       /\ UNCHANGED <<stage, key, got, tasks, version>>

Publish(k) ==
    /\ version[k] < MaxVersion
    /\ version' = [version EXCEPT ![k] = @ + 1]
    /\ UNCHANGED <<entries, locks, stage, key, got, tasks>>

Aged(e) == [e EXCEPT !.age = Smaller(Aeon, @ + 1), !.idle = Smaller(Aeon, @ + 1)]
CacheTick ==
    /\ entries' = [k \in Keys |-> IF entries[k] = None THEN None ELSE Aged(entries[k])]
    /\ UNCHANGED <<locks, stage, key, got, tasks, version>>

Lookup(r, k) == Miss(r, k) \/ FreshHit(r, k) \/ StaleHit(r, k)

CacheNext ==
    \/ \E r \in Readers, k \in Keys : Lookup(r, k)
    \/ \E r \in Readers : Reply(r) \/ Settle(r)
    \/ \E t \in Revalidations : ReplyTask(t) \/ SettleTask(t)
    \/ \E K \in SUBSET Keys : Invalidate(K)
    \/ \E k \in Keys : Publish(k)
    \/ Sweep \/ CacheTick

CacheSpec == CacheInit /\ [][CacheNext]_cacheVars

\* The event loop runs, every resource is asked for, and the origin answers: of
\* the revalidations of a resource not all fail, nor do all bring a response that
\* must not be stored.
Answers(t) == ReplyTask(t) /\ reply'[t] # None
Refreshes(t) == SettleTask(t) /\ (entries'[tkey[t]] # None => Fresh(entries'[tkey[t]]))
CacheFairness ==
    /\ \A r \in Readers : WF_cacheVars(Reply(r)) /\ WF_cacheVars(Settle(r))
    /\ \A t \in Revalidations : WF_cacheVars(ReplyTask(t)) /\ WF_cacheVars(SettleTask(t))
    /\ \A k \in Keys :
        /\ SF_cacheVars(\E r \in Readers : Lookup(r, k))
        /\ SF_cacheVars(\E t \in Revalidations : tkey[t] = k /\ Answers(t))
        /\ SF_cacheVars(\E t \in Revalidations : tkey[t] = k /\ Refreshes(t))
-----------------------------------------------------------------------------
\* Types.
CacheTypeOK ==
    /\ entries \in [Keys -> Entry \cup {None}]
    /\ locks \subseteq Keys
    /\ stage \in [Readers -> {"idle", "fetching", "answered"}]
    /\ tpc \in [Revalidations -> {"idle", "asking", "answered"}]
    /\ key \in [Readers -> Keys \cup {None}]
    /\ tkey \in [Revalidations -> Keys \cup {None}]
    /\ got \in [Readers -> (0..MaxVersion) \cup {None}]
    /\ tag \in [Revalidations -> (0..MaxVersion) \cup {None}]
    /\ reply \in [Revalidations -> (0..MaxVersion) \cup {NotModified, None}]
    /\ version \in [Keys -> 0..MaxVersion]

\* The cache never holds more than cacheMaxSize responses, whichever of its
\* writers, foreground or background, stores next.
WithinSize == Cardinality(Stored) <= MaxSize

\* A key is marked or locked only while a revalidation of it is under way, and
\* in a store with locks a mark is never without its lock.  Otherwise a key whose
\* entry was invalidated, evicted or replaced in the meantime would be skipped by
\* markRevalidating ever after and its stale response served to the last.
UnderWay(k) == \E t \in Revalidations : tpc[t] # "idle" /\ tkey[t] = k
Marked(k) == k \in Stored /\ entries[k].revalidating
LockAlive ==
    \A k \in Keys :
        /\ k \in locks \/ Marked(k) => UnderWay(k)
        /\ HasLock /\ Marked(k) => k \in locks

\* What the cache keeps, it keeps for a reason: the responses there is room for, and
\* the marks and locks of revalidations that are under way.
CacheSound == WithinSize /\ LockAlive

\* While the origin answers and the resource is asked for, a stale response does
\* not stay: it is refreshed, replaced or dropped.
Freshens ==
    \A k \in Keys :
        k \in Stored /\ ~Fresh(entries[k]) ~> k \notin Stored \/ Fresh(entries[k])

-----------------------------------------------------------------------------
\* What the documentation says and the code does not do.

\* docs/cache.md:77, "Conditional `If-None-Match` / `If-Modified-Since` are sent
\* automatically": the tag that is sent is the one of the response it stands for.
TagOfBody == \A k \in Stored : entries[k].etag = entries[k].body

=============================================================================
