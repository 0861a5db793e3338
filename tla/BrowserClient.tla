---------------------------- MODULE BrowserClient ----------------------------
(***************************************************************************)
(* src/src/core/BrowserClient.ts: request(), the background revalidations, *)
(* the cache (class BrowserCache) and the metrics (class BrowserMetrics)   *)
(* of one client.                                                          *)
(*                                                                         *)
(* Hooks, interceptors, listeners, the adapter and the store of the        *)
(* circuit breaker are external: each may succeed or throw when it is      *)
(* called.  The retry loop, the bulkhead and the deduplicator between      *)
(* canRequest and the answer are modules of their own; here a network call *)
(* ends well or not.  Time is in the age of an entry: fresh until          *)
(* expiresAt, stale until staleUntil, and dead.                            *)
(*                                                                         *)
(* FinishedForgetsMark is a mutated form of the definition it precedes; no *)
(* action uses it.                                                         *)
(***************************************************************************)
EXTENDS Integers, FiniteSets

CONSTANTS
    Users,           \* concurrent requests
    Tasks,           \* room for revalidations (a bound)
    Keys,            \* cache keys
    Strategies,      \* of "max-age", "swr" and "network-first"
    MaxSize,         \* cacheMaxSize
    Gone             \* no entry, no key

ASSUME BrowserAssumption ==
    /\ Strategies \subseteq {"max-age", "swr", "network-first"}
    /\ MaxSize \in Nat \ {0} /\ IsFiniteSet(Users) /\ Gone \notin Keys

VARIABLES
    strategy,    \* #strategy
    entries,     \* #store: of each key Gone, or [age, marked] (expiresAt, revalidatingAt)
    locks,       \* #locks
    works,       \* the key each task revalidates, or Gone
    at,          \* where in request() each request is
    wants,       \* its key, or Gone if it is no cacheable GET
    checked,     \* circuitChecked
    tally,       \* what the metrics counted it as
    told,        \* what the circuit was told of it
    slipped,     \* whether one of the user's listeners or the store threw after a count
    gauge,       \* #requests.active
    skewed       \* the metrics were reset while requests were under way

cacheVars == <<entries, locks>>
requestVars == <<at, wants, checked, tally, told, slipped>>
gaugeVars == <<gauge, skewed>>
browserVars == <<strategy, cacheVars, works, requestVars, gaugeVars>>

Stored == {k \in Keys : entries[k] # Gone}
Busy == {r \in Users : at[r] # "idle"}

-----------------------------------------------------------------------------
\* BrowserCache

\* #staleTTL: what is past expiresAt is still kept, but not under "max-age".
Aged(age) == IF age = "fresh" /\ strategy # "max-age" THEN "stale" ELSE "dead"

\* getWithState, in its three outcomes; what is past staleUntil is deleted.
Hits(k) == k \in Stored /\ entries[k].age \in {"fresh"} \cup (IF strategy = "swr" THEN {"stale"} ELSE {})
Missed(k) == [entries EXCEPT ![k] = IF @ # Gone /\ @.age = "dead" THEN Gone ELSE @]

\* getNetworkFallback.
FallsBack(k) == strategy = "network-first" /\ k \in Stored /\ entries[k].age # "dead"

\* set, in a full cache after #evict, which drops the entry used least recently (any,
\* here), be it the one of the same key, and leaves its lock.
Full == Cardinality(Stored) >= MaxSize
Put(k, evicted) ==
    [q \in Keys |-> IF q = k THEN [age |-> "fresh", marked |-> FALSE]
                    ELSE IF q \in evicted THEN Gone ELSE entries[q]]
Victims == IF Full THEN {{q} : q \in Stored} ELSE {{}}

\* set stores only what may be stored: caching headers, size and status may forbid it.
SetOrNot(k) == entries' = entries \/ \E evicted \in Victims : entries' = Put(k, evicted)

\* markRevalidating.
Markable(k) == k \in Stored /\ ~entries[k].marked /\ k \notin locks

\* finishRevalidating.
FinishedForgetsMark(k, stored) == stored
Finished(k, stored) ==
    [stored EXCEPT ![k] = IF @ = Gone THEN Gone ELSE [@ EXCEPT !.marked = FALSE]]

\* invalidate without a pattern, and with one that the keys match; deleteByUrl.
InvalidateAll ==
    /\ entries' = [k \in Keys |-> Gone] /\ locks' = {}
    /\ UNCHANGED <<strategy, works, requestVars, gaugeVars>>

Delete(k) ==
    /\ k \in Stored
    /\ entries' = [entries EXCEPT ![k] = Gone] /\ locks' = locks \ {k}
    /\ UNCHANGED <<strategy, works, requestVars, gaugeVars>>

\* #sweep, every minute.
Sweep ==
    LET old == {k \in Stored : entries[k].age = "dead"}
    IN /\ old # {}
       /\ entries' = [k \in Keys |-> IF k \in old THEN Gone ELSE entries[k]]
       /\ locks' = locks \ old
       /\ UNCHANGED <<strategy, works, requestVars, gaugeVars>>

Age(k) ==
    /\ k \in Stored /\ entries[k].age # "dead"
    /\ entries' = [entries EXCEPT ![k].age = Aged(@)]
    /\ UNCHANGED <<strategy, locks, works, requestVars, gaugeVars>>

-----------------------------------------------------------------------------
\* BrowserMetrics

Counted(r, kind) == tally' = [tally EXCEPT ![r] = @ \cup {kind}]

recordEnd == gauge' = IF gauge = 0 THEN 0 ELSE gauge - 1

\* resetMetrics, and destroy.
Reset ==
    /\ gauge' = 0 /\ skewed' = (Busy # {})
    /\ UNCHANGED <<strategy, cacheVars, works, requestVars>>

-----------------------------------------------------------------------------
BrowserInit ==
    /\ strategy \in Strategies
    /\ entries = [k \in Keys |-> Gone] /\ locks = {}
    /\ works = [t \in Tasks |-> Gone]
    /\ at = [r \in Users |-> "idle"]
    /\ wants = [r \in Users |-> Gone]
    /\ checked = [r \in Users |-> FALSE]
    /\ tally = [r \in Users |-> {}]
    /\ told = [r \in Users |-> {}]
    /\ slipped = [r \in Users |-> FALSE]
    /\ gauge = 0 /\ skewed = FALSE

Goes(r, place) == at' = [at EXCEPT ![r] = place]

\* request() up to its first await.
Begin(r) ==
    /\ at[r] = "idle"
    /\ Goes(r, "preparing")
    /\ gauge' = gauge + 1 /\ skewed' = (skewed /\ Busy # {})
    /\ UNCHANGED <<strategy, cacheVars, works, wants, checked, tally, told, slipped>>

\* #buildRC, the beforeRequest hooks, #validateRequest and the interceptors: a hook
\* may answer in the server's place (mockResponse), and each may throw.
Mocked(r) ==
    /\ at[r] = "preparing"
    /\ Goes(r, "ending")
    /\ UNCHANGED <<strategy, cacheVars, works, wants, checked, tally, told, slipped, gaugeVars>>

Rejected(r) ==
    /\ at[r] = "preparing"
    /\ Goes(r, "failing")
    /\ UNCHANGED <<strategy, cacheVars, works, wants, checked, tally, told, slipped, gaugeVars>>

\* A request that the cache cannot serve.
Miss(r) ==
    /\ at[r] = "preparing"
    /\ Goes(r, "asking")
    /\ \/ UNCHANGED <<wants, entries>>
       \/ \E k \in Keys :
              /\ wants' = [wants EXCEPT ![r] = k]
              /\ IF strategy = "network-first" THEN UNCHANGED entries
                 ELSE ~Hits(k) /\ entries' = Missed(k)
    /\ UNCHANGED <<strategy, locks, works, checked, tally, told, slipped, gaugeVars>>

\* A hit is counted and announced, and a stale one starts a revalidation unless the
\* key has one: onRevalidate hears that it was skipped.
Announced(r) == Goes(r, "ending") /\ UNCHANGED slipped
Slips(r) == Goes(r, "failing") /\ slipped' = [slipped EXCEPT ![r] = TRUE]

Hit(r, k) ==
    /\ at[r] = "preparing" /\ strategy # "network-first" /\ Hits(k)
    /\ wants' = [wants EXCEPT ![r] = k]
    /\ Counted(r, "cached")
    /\ \/ Slips(r) /\ UNCHANGED <<cacheVars, works>>
       \/ /\ entries[k].age = "fresh" \/ ~Markable(k)
          /\ Announced(r) /\ UNCHANGED <<cacheVars, works>>
       \/ /\ entries[k].age = "stale" /\ Markable(k)
          /\ Announced(r)
          /\ locks' = locks \cup {k}
          /\ entries' = [entries EXCEPT ![k].marked = TRUE]
          /\ \E t \in Tasks : works[t] = Gone /\ works' = [works EXCEPT ![t] = k]
    /\ UNCHANGED <<strategy, checked, told, gaugeVars>>

\* canRequest: the circuit admits, or it refuses or its store throws.
Ask(r) ==
    /\ at[r] = "asking"
    /\ \/ Goes(r, "fetching") /\ checked' = [checked EXCEPT ![r] = TRUE]
       \/ Goes(r, "failing") /\ UNCHANGED checked
    /\ UNCHANGED <<strategy, cacheVars, works, wants, tally, told, slipped, gaugeVars>>

\* The retry loop ends.
BrowserAnswers(r) ==
    /\ at[r] = "fetching"
    /\ Goes(r, "settling") \/ Goes(r, "failing")
    /\ UNCHANGED <<strategy, cacheVars, works, wants, checked, tally, told, slipped, gaugeVars>>

\* The response interceptors and the afterRequest hooks, which may throw; then the
\* response is stored and counted, and recordSuccess called.
Settle(r) ==
    /\ at[r] = "settling"
    /\ \/ Goes(r, "failing") /\ UNCHANGED <<entries, tally, told>>
       \/ /\ Goes(r, "reporting")
          /\ IF wants[r] = Gone THEN UNCHANGED entries ELSE SetOrNot(wants[r])
          /\ Counted(r, "success")
          /\ told' = [told EXCEPT ![r] = @ \cup {"success"}]
    /\ UNCHANGED <<strategy, locks, works, wants, checked, slipped, gaugeVars>>

\* recordSuccess returns and request:success is emitted.
Report(r) ==
    /\ at[r] = "reporting"
    /\ Announced(r) \/ Slips(r)
    /\ UNCHANGED <<strategy, cacheVars, works, wants, checked, tally, told, gaugeVars>>

\* The catch clause: the cache answers, or the error is counted and reported.
Fail(r) ==
    /\ at[r] = "failing"
    /\ Goes(r, "ending")
    /\ IF wants[r] # Gone /\ FallsBack(wants[r])
       THEN Counted(r, "cached") /\ UNCHANGED told
       ELSE /\ Counted(r, "error")
            /\ told' = IF checked[r] THEN [told EXCEPT ![r] = @ \cup {"failure"}] ELSE told
    /\ UNCHANGED <<strategy, cacheVars, works, wants, checked, slipped, gaugeVars>>

\* What is left to await, and the finally; what the request knew is gone.
End(r) ==
    /\ at[r] = "ending"
    /\ Goes(r, "idle")
    /\ wants' = [wants EXCEPT ![r] = Gone]
    /\ checked' = [checked EXCEPT ![r] = FALSE]
    /\ tally' = [tally EXCEPT ![r] = {}]
    /\ told' = [told EXCEPT ![r] = {}]
    /\ slipped' = [slipped EXCEPT ![r] = FALSE]
    /\ recordEnd /\ skewed' = (skewed /\ Busy # {r})
    /\ UNCHANGED <<strategy, cacheVars, works>>

\* A revalidation ends: its answer is stored, or it failed.
Revalidated(t) ==
    LET k == works[t]
    IN /\ k # Gone
       /\ works' = [works EXCEPT ![t] = Gone]
       /\ locks' = locks \ {k}
       /\ \/ entries' = Finished(k, entries)
          \/ \E evicted \in Victims : entries' = Finished(k, Put(k, evicted))
       /\ UNCHANGED <<strategy, requestVars, gaugeVars>>

BrowserNext ==
    \/ \E r \in Users :
        \/ Begin(r) \/ Mocked(r) \/ Rejected(r) \/ Miss(r) \/ Ask(r) \/ BrowserAnswers(r) \/ Settle(r)
        \/ Report(r) \/ Fail(r) \/ End(r)
        \/ \E k \in Keys : Hit(r, k)
    \/ \E t \in Tasks : Revalidated(t)
    \/ \E k \in Keys : Age(k) \/ Delete(k)
    \/ InvalidateAll \/ Sweep \/ Reset

BrowserSpec == BrowserInit /\ [][BrowserNext]_browserVars

-----------------------------------------------------------------------------
\* Types.
BrowserTypeOK ==
    /\ strategy \in Strategies
    /\ entries \in [Keys -> [age : {"fresh", "stale", "dead"}, marked : BOOLEAN] \cup {Gone}]
    /\ locks \subseteq Keys
    /\ works \in [Tasks -> Keys \cup {Gone}]
    /\ at \in [Users -> {"idle", "preparing", "asking", "fetching", "settling", "reporting",
                         "failing", "ending"}]
    /\ wants \in [Users -> Keys \cup {Gone}]
    /\ checked \in [Users -> BOOLEAN]
    /\ tally \in [Users -> SUBSET {"success", "error", "cached"}]
    /\ told \in [Users -> SUBSET {"success", "failure"}]
    /\ slipped \in [Users -> BOOLEAN]
    /\ gauge \in Nat /\ skewed \in BOOLEAN

\* A key is marked or locked only while a revalidation of it is under way, whatever
\* was invalidated, evicted, stored or swept in the meantime and although a second
\* revalidation may then overtake the first.  A mark left behind would keep the key
\* from ever being refreshed.
MarksAlive ==
    \A k \in Keys :
        k \in locks \/ (k \in Stored /\ entries[k].marked) => \E t \in Tasks : works[t] = k

\* The numbers agree with what happened.  A request is counted once, and the circuit
\* that admitted it is told once, of the outcome that was counted, unless the cache
\* answered for the network; one that was not admitted tells it nothing.  (A listener
\* or a store that throws after the count makes a second one.)  The gauge of active
\* requests is exact, unless it was reset under them, and then never too high.
Reported ==
    /\ \A r \in Users : at[r] = "ending" =>
        /\ checked[r] => tally[r] # {}
        /\ ~checked[r] => told[r] = {}
        /\ ~slipped[r] => /\ Cardinality(tally[r]) <= 1
                          /\ "success" \in told[r] <=> tally[r] = {"success"}
                          /\ "failure" \in told[r] <=> checked[r] /\ tally[r] = {"error"}
    /\ gauge <= Cardinality(Busy)
    /\ ~skewed => gauge = Cardinality(Busy)

=============================================================================
