----------------------------- MODULE AroundProofs -----------------------------
(***************************************************************************)
(* Theorems about RequestPipeline (the slots of its bulkhead and the keys  *)
(* of its deduplicator, for any requests, keys and limits), about          *)
(* Interceptors, and about what callers and plugins wrap around            *)
(* request(): TokenRefresh, Batching, Concurrent, Hedging and Pagination.  *)
(***************************************************************************)
EXTENDS RequestPipeline, TokenRefresh, Batching, Concurrent, Hedging, Interceptors, Pagination,
        Lists, FiniteSetTheorems, TLAPS

-----------------------------------------------------------------------------
\* TokenRefresh: how far the lifetime that the plugin counts may be off, and how much
\* of it a request has left when its hook is over.

Attached(c) == hook[c] \in {"attached", "sent"}

TokenInv ==
    /\ TokenTypeOK
    /\ token # -1 => expiry <= token + MaxDelay + Lifetime
    /\ \A c \in Clients : hook[c] = "fetching" => clock <= asked[c] + MaxDelay
    /\ \A c \in Clients : Attached(c) => since[c] + Grace < carried[c] + Lifetime

LEMMA GraceBounds ==
    /\ Grace \in Int /\ Lifetime \in Int /\ Margin \in Int /\ MaxDelay \in Int
    /\ Grace <= Margin - MaxDelay /\ Grace < Lifetime - MaxDelay
BY TokenAssumption DEF Grace

\* A token that arrived at `now` is off by at most the delay of its answer.
LEMMA Delayed ==
    ASSUME NEW now \in Int, NEW issued \in Int, NEW from \in Int,
           from <= issued, now <= from + MaxDelay
    PROVE  now + Lifetime <= issued + MaxDelay + Lifetime /\ now + Grace < issued + Lifetime
BY GraceBounds

\* One that has more than the margin left by the plugin's count has Grace left.
LEMMA Lasting ==
    ASSUME NEW now \in Int, NEW issued \in Int, NEW until \in Int,
           until <= issued + MaxDelay + Lifetime, ~(now >= until - Margin)
    PROVE  now + Grace < issued + Lifetime
BY GraceBounds

LEMMA TokenStart == TokenInit => TokenInv
BY TokenAssumption DEF TokenInit, TokenInv, TokenTypeOK, Attached

\* The end of a hook, whichever way it got the token it attaches.
LEMMA AttachesStep ==
    ASSUME TokenInv, NEW c \in Clients, Attaches(c), UNCHANGED <<clock, asked>>,
           token' \in -1..Horizon, expiry' \in 0..(Horizon + Lifetime),
           token' # -1 => expiry' <= token' + MaxDelay + Lifetime,
           clock + Grace < token' + Lifetime
    PROVE  TokenInv'
<1>1. /\ hook' = [hook EXCEPT ![c] = "attached"] /\ carried' = [carried EXCEPT ![c] = token']
      /\ since' = [since EXCEPT ![c] = clock]
  BY DEF Attaches
<1>2. TokenTypeOK'
  BY <1>1 DEF TokenInv, TokenTypeOK
<1>3. \A d \in Clients \ {c} : /\ hook'[d] = hook[d] /\ carried'[d] = carried[d]
                               /\ since'[d] = since[d]
  BY <1>1 DEF TokenInv, TokenTypeOK
<1>4. hook'[c] = "attached" /\ carried'[c] = token' /\ since'[c] = clock
  BY <1>1 DEF TokenInv, TokenTypeOK
<1>5. \A d \in Clients : hook'[d] = "fetching" => clock' <= asked'[d] + MaxDelay
  BY <1>3, <1>4 DEF TokenInv
<1>6. \A d \in Clients : Attached(d)' => since'[d] + Grace < carried'[d] + Lifetime
  BY <1>3, <1>4 DEF TokenInv, Attached
<1>7. QED
  BY <1>2, <1>5, <1>6 DEF TokenInv, Attached, Grace

LEMMA TokenStep == TokenInv /\ [TokenNext]_tokenVars => TokenInv'
<1> SUFFICES ASSUME TokenInv, [TokenNext]_tokenVars PROVE TokenInv'
  OBVIOUS
<1> USE TokenAssumption
<1>1. ASSUME NEW c \in Clients, Attach(c) PROVE TokenInv'
  <2>1. /\ token' = token /\ expiry' = expiry /\ token # -1 /\ ~(clock >= expiry - Margin)
        /\ Attaches(c) /\ UNCHANGED <<clock, asked>>
    BY <1>1 DEF Attach, Expired
  <2>2. clock \in Int /\ token \in Int /\ expiry \in Int /\ expiry <= token + MaxDelay + Lifetime
    BY <2>1 DEF TokenInv, TokenTypeOK
  <2>3. clock + Grace < token' + Lifetime
    BY <2>1, <2>2, Lasting
  <2>4. QED
    BY <2>1, <2>2, <2>3, AttachesStep DEF TokenInv, TokenTypeOK
<1>2. ASSUME NEW c \in Clients, Fetched(c) PROVE TokenInv'
  <2>1. /\ token' \in asked[c]..clock /\ expiry' = clock + Lifetime
        /\ Attaches(c) /\ UNCHANGED <<clock, asked>>
        /\ clock \in 0..Horizon /\ asked[c] \in 0..Horizon /\ clock <= asked[c] + MaxDelay
    BY <1>2 DEF Fetched, TokenInv, TokenTypeOK
  <2>2. token' \in Int /\ asked[c] <= token' /\ token' \in -1..Horizon /\ clock \in Int /\ asked[c] \in Int
    BY <2>1
  <2>3. clock + Lifetime <= token' + MaxDelay + Lifetime /\ clock + Grace < token' + Lifetime
    BY <2>1, <2>2, Delayed
  <2>4. expiry' \in 0..(Horizon + Lifetime)
    BY <2>1
  <2>5. QED
    BY <2>1, <2>2, <2>3, <2>4, AttachesStep
<1>3. ASSUME NEW c \in Clients, Fetch(c) \/ FetchFails(c) \/ Send(c) \/ Retry(c)
      PROVE  TokenInv'
  <2>1. /\ UNCHANGED <<clock, token, expiry, carried, since>>
        /\ \E at \in {"before", "fetching", "attached", "sent"} :
              /\ hook' = [hook EXCEPT ![c] = at]
              /\ at \in {"attached", "sent"} => Attached(c)
              /\ \/ at = "fetching" /\ asked' = [asked EXCEPT ![c] = clock]
                 \/ at # "fetching" /\ asked' = asked
    BY <1>3 DEF Fetch, FetchFails, Send, Retry, Attached
  <2>2. TokenTypeOK'
    BY <2>1 DEF TokenInv, TokenTypeOK
  <2>3. \A d \in Clients : hook'[d] = "fetching" => clock' <= asked'[d] + MaxDelay
    BY <2>1 DEF TokenInv, TokenTypeOK
  <2>4. \A d \in Clients : Attached(d)' => Attached(d)
    BY <2>1 DEF TokenInv, TokenTypeOK, Attached
  <2>5. QED
    BY <2>1, <2>2, <2>3, <2>4 DEF TokenInv, Attached, Grace
<1>4. ASSUME NEW c \in Clients, Another(c) PROVE TokenInv'
  <2>1. /\ UNCHANGED <<clock, token, expiry, asked>> /\ hook' = [hook EXCEPT ![c] = "before"]
        /\ carried' = [carried EXCEPT ![c] = -1] /\ since' = [since EXCEPT ![c] = 0]
    BY <1>4 DEF Another
  <2>2. TokenTypeOK'
    BY <2>1 DEF TokenInv, TokenTypeOK
  <2>3. \A d \in Clients : hook'[d] = "fetching" => hook[d] = "fetching"
    BY <2>1 DEF TokenInv, TokenTypeOK
  <2>4. \A d \in Clients : Attached(d)' =>
            Attached(d) /\ carried'[d] = carried[d] /\ since'[d] = since[d]
    BY <2>1 DEF TokenInv, TokenTypeOK, Attached
  <2>5. QED
    BY <2>1, <2>2, <2>3, <2>4 DEF TokenInv, Attached, Grace
<1>5. CASE TokenTick
  <2>1. /\ clock \in Int /\ clock >= 0 /\ clock < Horizon /\ clock' = clock + 1
        /\ UNCHANGED <<token, expiry, hook, asked, carried, since>>
    BY <1>5 DEF TokenTick, TokenInv, TokenTypeOK
  <2>2. clock' \in 0..Horizon
    BY <2>1
  <2>3. TokenTypeOK'
    BY <2>1, <2>2 DEF TokenInv, TokenTypeOK
  <2>4. ASSUME NEW c \in Clients, hook'[c] = "fetching" PROVE clock' <= asked'[c] + MaxDelay
    BY <1>5, <2>1, <2>4 DEF TokenTick, TokenInv, TokenTypeOK
  <2>5. QED
    BY <2>1, <2>3, <2>4 DEF TokenInv, Attached, Grace
<1>6. CASE UNCHANGED tokenVars
  BY <1>6 DEF tokenVars, TokenInv, TokenTypeOK, Attached, Grace
<1>7. QED
  BY <1>1, <1>2, <1>3, <1>4, <1>5, <1>6 DEF TokenNext

LEMMA SentInTime ==
    TokenInv /\ [TokenNext]_tokenVars =>
        \A c \in Clients :
            hook[c] = "attached" /\ hook'[c] = "sent" /\ clock <= since[c] + Grace
                => clock < carried[c] + Lifetime
<1> SUFFICES ASSUME TokenInv, NEW c \in Clients, hook[c] = "attached", clock <= since[c] + Grace
             PROVE  clock < carried[c] + Lifetime
  OBVIOUS
<1>1. since[c] + Grace < carried[c] + Lifetime
  BY DEF TokenInv, Attached
<1>2. clock \in Int /\ since[c] \in Int /\ carried[c] \in Int
  BY DEF TokenInv, TokenTypeOK
<1>3. QED
  BY <1>1, <1>2, GraceBounds

\* Whatever the clients, the lifetime, the margin and the delay of the endpoint: what a
\* request sends within Grace of its hook, at first or again, carries a valid token.
THEOREM TokenNeverExpired == TokenSpec => TokenValid
BY TokenStart, TokenStep, SentInTime, PTL DEF TokenSpec, TokenValid

-----------------------------------------------------------------------------
\* Batching: a remembered load is of its key, and was made and not forgotten.

Fates == {"unmade", "queued", "asked", "kept", "rejected", "forgotten"}

MemoInv ==
    /\ memo \in [LoadKeys -> 0..Primed]
    /\ loadKey \in [Loads -> LoadKeys]
    /\ promise \in [Loads -> Fates]
    /\ \A k \in LoadKeys : memo[k] \in Loads =>
          loadKey[memo[k]] = k /\ promise[memo[k]] \notin {"unmade", "forgotten"}

\* What a step may do to the entry of key k.
Honest(k) ==
    /\ memo'[k] \in Loads /\ memo'[k] # memo[k] => promise'[memo'[k]] = "queued"
    /\ memo[k] \in Loads /\ memo'[k] # memo[k] =>
          memo'[k] = 0 /\ (Clear(k) \/ ClearAll \/ promise[memo[k]] = "rejected")
    /\ memo'[k] \in Loads => promise'[memo'[k]] # "forgotten"

LEMMA MemoStart == LoaderInit => MemoInv
<1> SUFFICES ASSUME LoaderInit PROVE MemoInv
  OBVIOUS
<1> USE LoaderAssumption
<1>1. memo \in [LoadKeys -> 0..Primed] /\ \A k \in LoadKeys : memo[k] \notin Loads
  BY DEF LoaderInit, Primed, Loads
<1>2. (CHOOSE k \in LoadKeys : TRUE) \in LoadKeys
  OBVIOUS
<1>3. QED
  BY <1>1, <1>2 DEF LoaderInit, MemoInv, Fates

\* A step that makes no load and remembers none: fates move on, but not to
\* "unmade", and a remembered load is not forgotten.
LEMMA MemoShrinks ==
    ASSUME MemoInv, loadKey' = loadKey, memo' \in [LoadKeys -> 0..Primed], promise' \in [Loads -> Fates],
           \A k \in LoadKeys : memo'[k] \in Loads =>
              memo'[k] = memo[k] /\ promise'[memo[k]] \notin {"unmade", "forgotten"}
    PROVE  MemoInv'
BY DEF MemoInv

LEMMA MemoStep ==
    ASSUME MemoInv, [LoaderNext]_loaderVars
    PROVE  MemoInv' /\ (loaderVars' # loaderVars => \A k \in LoadKeys : Honest(k))
<1> USE LoaderAssumption
<1>0. /\ memo \in [LoadKeys -> 0..Primed] /\ loadKey \in [Loads -> LoadKeys]
      /\ promise \in [Loads -> Fates] /\ 0 \notin Loads /\ Primed \notin Loads
      /\ 0 \in 0..Primed /\ Primed \in 0..Primed /\ Loads \subseteq 0..Primed
  BY DEF MemoInv, Loads, Primed
<1>1. ASSUME NEW k \in LoadKeys, Load(k) PROVE MemoInv' /\ \A h \in LoadKeys : Honest(h)
  <2>1. PICK l \in Unmade : /\ promise' = [promise EXCEPT ![l] = "queued"]
                            /\ loadKey' = [loadKey EXCEPT ![l] = k]
                            /\ memo' = [memo EXCEPT ![k] = l]
    BY <1>1 DEF Load
  <2>2. l \in Loads /\ promise[l] = "unmade" /\ memo[k] = 0
    BY <1>1 DEF Unmade, Load
  <2>3. ASSUME NEW h \in LoadKeys, h # k, memo[h] \in Loads
        PROVE  memo[h] # l /\ memo'[h] = memo[h] /\ promise'[memo[h]] = promise[memo[h]]
    BY <1>0, <2>1, <2>2, <2>3 DEF MemoInv
  <2>4. memo'[k] = l /\ promise'[l] = "queued" /\ loadKey'[l] = k
    BY <1>0, <2>1, <2>2
  <2>5. MemoInv'
    BY <1>0, <2>1, <2>2, <2>3, <2>4 DEF MemoInv, Fates
  <2>6. ASSUME NEW h \in LoadKeys PROVE Honest(h)
    BY <1>0, <2>1, <2>2, <2>3, <2>4 DEF MemoInv, Honest
  <2>7. QED
    BY <2>5, <2>6
<1>2. ASSUME NEW k \in LoadKeys, Clear(k) PROVE MemoInv' /\ \A h \in LoadKeys : Honest(h)
  <2>1. memo' = [memo EXCEPT ![k] = 0] /\ loadKey' = loadKey /\ promise' = promise
    BY <1>2 DEF Clear
  <2>2. MemoInv'
    BY <1>0, <2>1, MemoShrinks DEF MemoInv
  <2>3. ASSUME NEW h \in LoadKeys PROVE Honest(h)
    BY <1>0, <1>2, <2>1 DEF MemoInv, Honest
  <2>4. QED
    BY <2>2, <2>3
<1>3. ASSUME NEW k \in LoadKeys, Prime(k) PROVE MemoInv' /\ \A h \in LoadKeys : Honest(h)
  <2>1. memo[k] = 0 /\ memo' = [memo EXCEPT ![k] = Primed] /\ loadKey' = loadKey /\ promise' = promise
    BY <1>3 DEF Prime
  <2>2. MemoInv'
    BY <1>0, <2>1, MemoShrinks DEF MemoInv
  <2>3. ASSUME NEW h \in LoadKeys PROVE Honest(h)
    BY <1>0, <2>1 DEF MemoInv, Honest
  <2>4. QED
    BY <2>2, <2>3
<1>4. CASE ClearAll
  <2>1. memo' = [k \in LoadKeys |-> 0] /\ loadKey' = loadKey /\ promise' = promise
    BY <1>4 DEF ClearAll
  <2>2. MemoInv'
    BY <1>0, <2>1, MemoShrinks
  <2>3. ASSUME NEW h \in LoadKeys PROVE Honest(h)
    BY <1>0, <1>4, <2>1 DEF Honest
  <2>4. QED
    BY <2>2, <2>3, <1>4
<1>5. CASE Dispatch
  <2>1. memo' = memo /\ loadKey' = loadKey
    BY <1>5 DEF Dispatch
  <2>2. promise' = [l \in Loads |-> IF l \in ToSet(jobs) THEN "asked" ELSE promise[l]]
    BY <1>5 DEF Dispatch
  <2>3. promise' \in [Loads -> Fates] /\ \A l \in Loads : promise'[l] \in {"asked", promise[l]}
    BY <1>0, <2>2 DEF Fates
  <2>4. MemoInv'
    BY <1>0, <2>1, <2>3, MemoShrinks DEF MemoInv
  <2>5. ASSUME NEW h \in LoadKeys PROVE Honest(h)
    BY <1>0, <2>1, <2>3 DEF MemoInv, Honest
  <2>6. QED
    BY <2>4, <2>5
<1>6. ASSUME NEW b \in Loads, BatchReturns(b) PROVE MemoInv' /\ \A h \in LoadKeys : Honest(h)
  <2>1. memo' = memo /\ loadKey' = loadKey
    BY <1>6 DEF BatchReturns
  <2>2. PICK good \in SUBSET Asked(b) :
          promise' = [l \in Loads |->
                        IF l \notin Asked(b) THEN promise[l] ELSE IF l \in good THEN "kept" ELSE "rejected"]
    BY <1>6 DEF BatchReturns
  <2>3. /\ promise' \in [Loads -> Fates]
        /\ \A l \in Loads : promise'[l] \in {"kept", "rejected", promise[l]}
    BY <1>0, <2>2 DEF Fates
  <2>4. MemoInv'
    BY <1>0, <2>1, <2>3, MemoShrinks DEF MemoInv
  <2>5. ASSUME NEW h \in LoadKeys PROVE Honest(h)
    BY <1>0, <2>1, <2>3 DEF MemoInv, Honest
  <2>6. QED
    BY <2>4, <2>5
<1>7. ASSUME NEW l \in Loads, Forget(l) PROVE MemoInv' /\ \A h \in LoadKeys : Honest(h)
  <2>1. /\ promise[l] = "rejected" /\ promise' = [promise EXCEPT ![l] = "forgotten"] /\ loadKey' = loadKey
        /\ memo' = IF memo[loadKey[l]] = l THEN [memo EXCEPT ![loadKey[l]] = 0] ELSE memo
    BY <1>7 DEF Forget, Forgets
  <2>2. ASSUME NEW h \in LoadKeys
        PROVE  /\ memo[h] # l => memo'[h] = memo[h]
               /\ memo[h] = l => memo'[h] = 0
    BY <1>0, <2>1 DEF MemoInv
  <2>3. memo' \in [LoadKeys -> 0..Primed] /\ promise' \in [Loads -> Fates]
    BY <1>0, <2>1 DEF Fates
  <2>4. ASSUME NEW h \in LoadKeys, memo'[h] \in Loads
        PROVE  memo'[h] = memo[h] /\ promise'[memo[h]] = promise[memo[h]]
    BY <1>0, <2>1, <2>2, <2>4
  <2>5. MemoInv'
    BY <2>1, <2>3, <2>4, MemoShrinks DEF MemoInv
  <2>6. ASSUME NEW h \in LoadKeys PROVE Honest(h)
    BY <1>0, <2>1, <2>2, <2>4 DEF MemoInv, Honest
  <2>7. QED
    BY <2>5, <2>6
<1>8. CASE UNCHANGED loaderVars
  BY <1>8 DEF loaderVars, MemoInv
<1>9. QED
  BY <1>1, <1>2, <1>3, <1>4, <1>5, <1>6, <1>7, <1>8 DEF LoaderNext

\* For any keys and batch sizes: however batches, failures and clears overlap, the
\* failure of an old load never makes the memo lose a newer one.
THEOREM MemoIsHonest == LoaderSpec => MemoHonest
<1>1. MemoInv /\ [LoaderNext]_loaderVars =>
        [\A k \in LoadKeys : Honest(k)]_loaderVars
  BY MemoStep
<1>2. QED
  BY MemoStart, MemoStep, <1>1, PTL DEF LoaderSpec, MemoHonest, Honest

-----------------------------------------------------------------------------
\* Concurrent: every request is in the queue, in the hands of one worker, or done;
\* one that is lost has broken its worker.

ItemsDone == {i \in 1..Items : outcome[i] # "none"}
Queued == {todo[j] : j \in DOMAIN todo}

Shape ==
    /\ failFast \in BOOLEAN
    /\ todo \in Seq(1..Items)
    /\ worker \in [Crew -> 0..Broken]
    /\ outcome \in [1..Items -> {"none", "result", "error"}]
    /\ verdict \in {"none", "pending", "resolved", "rejected"}

Shared ==
    /\ \A i, j \in DOMAIN todo : todo[i] = todo[j] => i = j
    /\ \A v, w \in Working : worker[v] = worker[w] => v = w
    /\ \A w \in Working : worker[w] \notin Queued /\ outcome[worker[w]] = "none"
    /\ \A i \in Queued : outcome[i] = "none"

Covered ==
    verdict # "none" /\ (\A w \in Crew : worker[w] # Broken) =>
        \A i \in 1..Items : i \in Queued \/ Sent(i) \/ i \in ItemsDone

CrewInv ==
    /\ Shape /\ Shared /\ Covered
    /\ completed = Cardinality(ItemsDone)
    /\ \A w \in Crew : worker[w] = 0 => todo = <<>>
    /\ failFast /\ todo # <<>> => \A i \in 1..Items : outcome[i] # "error"
    /\ verdict = "resolved" => ItemsDone = 1..Items

LEMMA CrewSizeOK == CrewSize \in 1..Items /\ Broken \in Nat /\ Broken > Items
BY ConcurrentAssumption DEF CrewSize, Broken

LEMMA CrewStart == ConcurrentInit => CrewInv
<1> SUFFICES ASSUME ConcurrentInit PROVE CrewInv
  OBVIOUS
<1> USE ConcurrentAssumption, CrewSizeOK
<1>1. Shape
  <2>1. 0 \in 0..Broken /\ <<>> \in Seq(1..Items)
    OBVIOUS
  <2>2. QED
    BY <2>1 DEF ConcurrentInit, Shape
<1>2. ItemsDone = {} /\ Queued = {} /\ Working = {}
  BY DEF ConcurrentInit, ItemsDone, Queued, Working, Crew
<1>3. Cardinality(ItemsDone) = 0
  BY <1>2, FS_EmptySet
<1>4. 1..Items # {}
  OBVIOUS
<1>5. QED
  BY <1>1, <1>2, <1>3, <1>4 DEF ConcurrentInit, CrewInv, Shared, Covered

\* A queue that loses its head.
LEMMA Shorter ==
    ASSUME NEW S, NEW q \in Seq(S), q # <<>>, \A i, j \in DOMAIN q : q[i] = q[j] => i = j
    PROVE  /\ Head(q) \in {q[j] : j \in DOMAIN q} /\ Tail(q) \in Seq(S)
           /\ {Tail(q)[j] : j \in DOMAIN Tail(q)} = {q[j] : j \in DOMAIN q} \ {Head(q)}
           /\ \A i, j \in DOMAIN Tail(q) : Tail(q)[i] = Tail(q)[j] => i = j
<1>1. /\ Len(q) \in Nat /\ Len(q) > 0 /\ DOMAIN q = 1..Len(q) /\ Head(q) = q[1]
      /\ Tail(q) \in Seq(S) /\ Len(Tail(q)) = Len(q) - 1 /\ DOMAIN Tail(q) = 1..(Len(q) - 1)
  OBVIOUS
<1>2. \A j \in DOMAIN Tail(q) : Tail(q)[j] = q[j + 1] /\ j + 1 \in DOMAIN q
  BY <1>1
<1>3. {Tail(q)[j] : j \in DOMAIN Tail(q)} \subseteq {q[j] : j \in DOMAIN q} \ {Head(q)}
  <2> SUFFICES ASSUME NEW j \in DOMAIN Tail(q)
               PROVE  Tail(q)[j] \in {q[i] : i \in DOMAIN q} \ {Head(q)}
    OBVIOUS
  <2>1. 1 \in DOMAIN q /\ j + 1 # 1
    BY <1>1
  <2>2. QED
    BY <1>1, <1>2, <2>1
<1>4. ASSUME NEW i \in DOMAIN q, q[i] # Head(q) PROVE q[i] \in {Tail(q)[j] : j \in DOMAIN Tail(q)}
  <2>1. i - 1 \in DOMAIN Tail(q) /\ (i - 1) + 1 = i
    BY <1>1, <1>4
  <2>2. QED
    BY <1>2, <2>1
<1>5. ASSUME NEW i \in DOMAIN Tail(q), NEW j \in DOMAIN Tail(q), Tail(q)[i] = Tail(q)[j] PROVE i = j
  BY <1>1, <1>2, <1>5
<1>6. QED
  BY <1>1, <1>3, <1>4, <1>5

\* The call hands out the first CrewSize requests and queues the others.
LEMMA CallStep == CrewInv /\ Call => CrewInv'
<1> SUFFICES ASSUME CrewInv, Call PROVE CrewInv'
  OBVIOUS
<1> USE ConcurrentAssumption, CrewSizeOK
<1>1. /\ worker' \in [Crew -> 1..Broken]
      /\ \A w \in Crew : worker'[w] = w \/ worker'[w] = Broken
      /\ failFast' \in BOOLEAN
      /\ todo' = [i \in 1..(Items - CrewSize) |-> CrewSize + i]
      /\ outcome' = [i \in 1..Items |-> "none"] /\ completed' = 0
      /\ verdict' = Raced(worker)'
  BY DEF Call, Raced
<1>2. verdict' \in {"pending", "rejected"}
  <2>1. 1 \in Crew /\ worker'[1] # 0
    BY <1>1 DEF Crew
  <2>2. QED
    BY <1>1, <2>1 DEF Raced
<1>3. todo' \in Seq(1..Items) /\ DOMAIN todo' = 1..(Items - CrewSize)
  <2>1. Items - CrewSize \in Nat /\ \A i \in 1..(Items - CrewSize) : CrewSize + i \in 1..Items
    OBVIOUS
  <2>2. QED
    BY <1>1, <2>1
<1>4. Shape'
  <2>1. worker' \in [Crew -> 0..Broken]
    BY <1>1
  <2>2. QED
    BY <1>1, <1>2, <1>3, <2>1 DEF Shape
<1>5. Queued' = (CrewSize + 1)..Items
  <2>1. ASSUME NEW i \in (CrewSize + 1)..Items PROVE i \in Queued'
    <3>1. i - CrewSize \in 1..(Items - CrewSize) /\ CrewSize + (i - CrewSize) = i
      OBVIOUS
    <3>2. QED
      BY <1>1, <3>1 DEF Queued
  <2>2. Queued' \subseteq (CrewSize + 1)..Items
    BY <1>1, <1>3 DEF Queued
  <2>3. QED
    BY <2>1, <2>2
<1>6. \A w \in Working' : worker'[w] = w /\ w \in 1..CrewSize
  BY <1>1 DEF Working, Crew
<1>7. Shared'
  <2>1. \A i, j \in DOMAIN todo' : todo'[i] = todo'[j] => i = j
    BY <1>1, <1>3
  <2>2. \A i \in 1..Items : outcome'[i] = "none"
    BY <1>1
  <2>3. 1..CrewSize \subseteq 1..Items /\ \A w \in 1..CrewSize : w \notin Queued'
    BY <1>5
  <2>4. Queued' \subseteq 1..Items
    BY <1>5
  <2>5. QED
    BY <1>6, <2>1, <2>2, <2>3, <2>4 DEF Shared
<1>8. Covered'
  <2> SUFFICES ASSUME \A w \in Crew : worker'[w] # Broken, NEW i \in 1..Items, i \notin Queued'
               PROVE  Sent(i)'
    BY DEF Covered
  <2>1. i \in Crew
    BY <1>5 DEF Crew
  <2>2. QED
    BY <1>1, <2>1 DEF Sent
<1>9. ItemsDone' = {} /\ completed' = Cardinality(ItemsDone')
  BY <1>1, FS_EmptySet DEF ItemsDone
<1>10. QED
  BY <1>1, <1>2, <1>4, <1>7, <1>8, <1>9 DEF CrewInv

\* What a worker does with the outcome of its request, whichever it is.
LEMMA Recorded ==
    ASSUME CrewInv, NEW w \in Working, NEW result \in {"result", "error"},
           outcome' = [outcome EXCEPT ![worker[w]] = result], completed' = completed + 1
    PROVE  /\ worker[w] \in 1..Items /\ outcome' \in [1..Items -> {"none", "result", "error"}]
           /\ ItemsDone' = ItemsDone \cup {worker[w]} /\ completed' = Cardinality(ItemsDone')
           /\ \A i \in 1..Items : i # worker[w] => outcome'[i] = outcome[i]
<1>1. worker[w] \in 1..Items /\ outcome[worker[w]] = "none"
  BY DEF Working, CrewInv, Shared
<1>2. /\ outcome' \in [1..Items -> {"none", "result", "error"}]
      /\ outcome'[worker[w]] = result /\ \A i \in 1..Items : i # worker[w] => outcome'[i] = outcome[i]
  BY <1>1 DEF CrewInv, Shape
<1>3. ItemsDone' = ItemsDone \cup {worker[w]} /\ worker[w] \notin ItemsDone
  BY <1>1, <1>2 DEF ItemsDone
<1>4. IsFiniteSet(ItemsDone)
  <2>1. IsFiniteSet(1..Items)
    BY ConcurrentAssumption, FS_Interval
  <2>2. QED
    BY <2>1, FS_Subset DEF ItemsDone
<1>5. Cardinality(ItemsDone') = Cardinality(ItemsDone) + 1
  BY <1>3, <1>4, FS_AddElement
<1>6. QED
  BY <1>1, <1>2, <1>3, <1>5 DEF CrewInv

\* What the next state of the workers and the queue must look like after Done.
Handed(w) ==
    /\ todo' \in Seq(1..Items) /\ Queued' \subseteq Queued
    /\ \A i, j \in DOMAIN todo' : todo'[i] = todo'[j] => i = j
    /\ worker' \in [Crew -> 0..Broken]
    /\ \A v \in Crew : v # w => worker'[v] = worker[v]
    /\ worker'[w] = 0 => todo = <<>> /\ todo' = <<>>
    /\ worker'[w] \in 1..Items => worker'[w] \in Queued /\ worker'[w] \notin Queued'
    /\ worker'[w] # Broken => Queued = Queued' \cup ({worker'[w]} \ {0})
    /\ todo = <<>> => todo' = <<>>

LEMMA NextTaken == ASSUME CrewInv, NEW w \in Working, TakesNext(w, todo) PROVE Handed(w)
<1> USE ConcurrentAssumption, CrewSizeOK
<1>0. /\ todo \in Seq(1..Items) /\ worker \in [Crew -> 0..Broken] /\ w \in Crew
      /\ \A i, j \in DOMAIN todo : todo[i] = todo[j] => i = j
  BY DEF CrewInv, Shape, Shared, Working
<1>1. CASE todo = <<>>
  <2>1. todo' = <<>> /\ worker' = [worker EXCEPT ![w] = 0]
    BY <1>1 DEF TakesNext
  <2>2. worker' \in [Crew -> 0..Broken] /\ worker'[w] = 0
    BY <1>0, <2>1
  <2>3. Queued = {} /\ Queued' = {}
    BY <1>1, <2>1 DEF Queued
  <2>4. QED
    BY <1>0, <1>1, <2>1, <2>2, <2>3 DEF Handed
<1>2. CASE todo # <<>>
  <2>1. todo' = Tail(todo)
    BY <1>2 DEF TakesNext
  <2>2. PICK next \in {Head(todo), Broken} : worker' = [worker EXCEPT ![w] = next]
    BY <1>2 DEF TakesNext
  <2>3. /\ Head(todo) \in Queued /\ todo' \in Seq(1..Items) /\ Queued' = Queued \ {Head(todo)}
        /\ \A i, j \in DOMAIN todo' : todo'[i] = todo'[j] => i = j
    <3>1. /\ Head(todo) \in {todo[j] : j \in DOMAIN todo} /\ Tail(todo) \in Seq(1..Items)
          /\ {Tail(todo)[j] : j \in DOMAIN Tail(todo)} = {todo[j] : j \in DOMAIN todo} \ {Head(todo)}
          /\ \A i, j \in DOMAIN Tail(todo) : Tail(todo)[i] = Tail(todo)[j] => i = j
      BY <1>0, <1>2, Shorter
    <3>2. Queued' = {Tail(todo)[j] : j \in DOMAIN Tail(todo)}
      BY <2>1, Zenon DEF Queued
    <3>3. QED
      BY <2>1, <3>1, <3>2 DEF Queued
  <2>4. Queued \subseteq 1..Items
    BY <1>0 DEF Queued
  <2>0. next \in 0..Broken
    <3>1. 1..Items \subseteq 0..Broken /\ Broken \in 0..Broken
      OBVIOUS
    <3>2. QED
      BY <2>3, <2>4, <3>1
  <2>5. /\ worker' \in [Crew -> 0..Broken] /\ worker'[w] = next
        /\ \A v \in Crew : v # w => worker'[v] = worker[v]
    BY <1>0, <2>0, <2>2
  <2>6. next # 0 /\ (next # Broken => next = Head(todo)) /\ (next \in 1..Items => next = Head(todo))
    BY <2>2, <2>3, <2>4
  <2>7. QED
    BY <1>2, <2>3, <2>5, <2>6 DEF Handed
<1>3. QED
  BY <1>1, <1>2

LEMMA FastFailed == ASSUME CrewInv, NEW w \in Working, FailedFast(w) PROVE Handed(w) /\ todo' = <<>>
<1> USE CrewSizeOK
<1>1. todo' = <<>> /\ worker' = [worker EXCEPT ![w] = Broken] /\ w \in Crew
  BY DEF FailedFast, QueueCleared, Working
<1>2. worker' \in [Crew -> 0..Broken] /\ worker'[w] = Broken
  <2>1. Broken \in 0..Broken /\ worker \in [Crew -> 0..Broken]
    BY DEF CrewInv, Shape
  <2>2. QED
    BY <1>1, <2>1
<1>3. Queued' = {} /\ DOMAIN todo' = {} /\ todo' \in Seq(1..Items)
  BY <1>1 DEF Queued
<1>4. Broken # 0 /\ Broken \notin 1..Items
  BY ConcurrentAssumption DEF Broken
<1>5. \A v \in Crew : v # w => worker'[v] = worker[v]
  BY <1>1 DEF CrewInv, Shape
<1>6. QED
  BY <1>1, <1>2, <1>3, <1>4, <1>5 DEF Handed

LEMMA DoneStep ==
    ASSUME CrewInv, NEW w \in Crew, NEW result \in {"result", "error"}, Done(w, result)
    PROVE  CrewInv'
<1> USE ConcurrentAssumption, CrewSizeOK
<1>0. w \in Working /\ failFast' = failFast
  BY DEF Done
<1>1. /\ worker[w] \in 1..Items /\ outcome' \in [1..Items -> {"none", "result", "error"}]
      /\ ItemsDone' = ItemsDone \cup {worker[w]} /\ completed' = Cardinality(ItemsDone')
      /\ \A i \in 1..Items : i # worker[w] => outcome'[i] = outcome[i]
  BY <1>0, Recorded DEF Done
<1>2. Handed(w)
  BY <1>0, NextTaken, FastFailed DEF Done
<1>3. /\ verdict \in {"none", "pending", "resolved", "rejected"}
      /\ verdict' = IF verdict = "pending" THEN Raced(worker)' ELSE verdict
  BY DEF Done, CrewInv, Shape, Raced
<1>4. Raced(worker)' \in {"pending", "resolved", "rejected"}
  BY DEF Raced
<1>5. Shape'
  BY <1>0, <1>1, <1>2, <1>3, <1>4 DEF CrewInv, Shape, Handed
<1>6. Queued \subseteq 1..Items
  BY DEF CrewInv, Shape, Queued
<1>7. Shared'
  <2>1. ASSUME NEW v \in Working' PROVE worker'[v] \notin Queued' /\ outcome'[worker'[v]] = "none"
    <3>1. CASE v = w
      <4>1. worker'[w] \in Queued /\ worker'[w] \notin Queued'
        BY <1>2, <2>1, <3>1 DEF Handed, Working
      <4>2. outcome[worker'[w]] = "none" /\ worker'[w] # worker[w]
        BY <1>0, <4>1 DEF CrewInv, Shared
      <4>3. QED
        BY <1>1, <1>6, <3>1, <4>1, <4>2
    <3>2. CASE v # w
      <4>1. v \in Working /\ worker'[v] = worker[v]
        BY <1>2, <2>1, <3>2 DEF Handed, Working
      <4>2. worker[v] \notin Queued /\ outcome[worker[v]] = "none" /\ worker[v] # worker[w]
        BY <1>0, <3>2, <4>1 DEF CrewInv, Shared
      <4>3. worker[v] \in 1..Items /\ Queued' \subseteq Queued
        BY <1>2, <4>1 DEF Handed, Working
      <4>4. QED
        BY <1>1, <4>1, <4>2, <4>3
    <3>3. QED
      BY <3>1, <3>2
  <2>2. ASSUME NEW u \in Working', NEW v \in Working', worker'[u] = worker'[v] PROVE u = v
    <3>1. ASSUME NEW a \in Working', a # w PROVE a \in Working /\ worker'[a] = worker[a]
      BY <1>2, <3>1 DEF Handed, Working
    <3>2. ASSUME w \in Working', NEW a \in Working', a # w PROVE worker'[a] # worker'[w]
      <4>1. worker'[w] \in Queued
        BY <1>2, <3>2 DEF Handed, Working
      <4>2. QED
        BY <3>1, <3>2, <4>1 DEF CrewInv, Shared
    <3>3. CASE u # w /\ v # w
      BY <2>2, <3>1, <3>3 DEF CrewInv, Shared
    <3>4. QED
      BY <2>2, <3>2, <3>3
  <2>3. ASSUME NEW i \in Queued' PROVE outcome'[i] = "none"
    <3>1. i \in Queued /\ i \in 1..Items
      BY <1>2, <1>6, <2>3 DEF Handed
    <3>2. outcome[i] = "none" /\ i # worker[w]
      BY <1>0, <3>1 DEF CrewInv, Shared
    <3>3. QED
      BY <1>1, <3>1, <3>2
  <2>4. \A i, j \in DOMAIN todo' : todo'[i] = todo'[j] => i = j
    BY <1>2 DEF Handed
  <2>5. QED
    BY <2>1, <2>2, <2>3, <2>4 DEF Shared
<1>8. Covered'
  <2> SUFFICES ASSUME verdict' # "none", \A v \in Crew : worker'[v] # Broken,
                      NEW i \in 1..Items, i \notin Queued', ~Sent(i)'
               PROVE  i \in ItemsDone'
    BY DEF Covered
  <2>1. verdict # "none" /\ \A v \in Crew : worker[v] # Broken
    BY <1>0, <1>1, <1>2, <1>3 DEF Handed, Working
  <2>2. i \in Queued \/ Sent(i) \/ i \in ItemsDone
    BY <2>1 DEF CrewInv, Covered
  <2>3. i \notin Queued
    BY <1>0, <1>2 DEF Handed, Sent, Working
  <2>4. CASE Sent(i)
    BY <1>1, <1>2, <2>4 DEF Handed, Sent
  <2>5. QED
    BY <1>1, <2>2, <2>3, <2>4
<1>9. ASSUME NEW v \in Crew, worker'[v] = 0 PROVE todo' = <<>>
  BY <1>0, <1>2, <1>9 DEF Handed, CrewInv
<1>10. ASSUME failFast', todo' # <<>>, NEW i \in 1..Items PROVE outcome'[i] # "error"
  <2>1. todo # <<>>
    BY <1>2, <1>10 DEF Handed
  <2>2. outcome[i] # "error"
    BY <1>0, <1>10, <2>1 DEF CrewInv
  <2>3. result # "error"
    BY <1>0, <1>10, FastFailed DEF Done
  <2>4. outcome'[i] \in {outcome[i], result}
    BY <1>1 DEF Done, CrewInv, Shape
  <2>5. QED
    BY <2>2, <2>3, <2>4
<1>11. ASSUME verdict' = "resolved" PROVE ItemsDone' = 1..Items
  <2>1. CASE verdict = "resolved"
    BY <1>1, <2>1 DEF CrewInv, ItemsDone
  <2>2. CASE verdict = "pending"
    <3>1. \A v \in Crew : worker'[v] = 0
      BY <1>3, <1>11, <2>2 DEF Raced
    <3>2. Queued' = {}
      BY <1>0, <1>9, <3>1 DEF Queued, Working
    <3>3. \A i \in 1..Items : ~Sent(i)'
      BY <3>1 DEF Sent
    <3>4. 1..Items \subseteq ItemsDone'
      BY <1>8, <1>11, <3>1, <3>2, <3>3 DEF Covered
    <3>5. QED
      BY <3>4 DEF ItemsDone
  <2>3. QED
    BY <1>3, <1>11, <2>1, <2>2
<1>12. QED
  BY <1>1, <1>5, <1>7, <1>8, <1>9, <1>10, <1>11 DEF CrewInv

LEMMA CrewStep == CrewInv /\ [ConcurrentNext]_concurrentVars => CrewInv'
<1> SUFFICES ASSUME CrewInv, [ConcurrentNext]_concurrentVars PROVE CrewInv'
  OBVIOUS
<1>1. CASE TimedOut
  BY <1>1 DEF TimedOut, CrewInv, Shape, Shared, Covered, ItemsDone, Queued, Working, Sent
<1>2. CASE UNCHANGED concurrentVars
  BY <1>2 DEF concurrentVars, CrewInv, Shape, Shared, Covered, ItemsDone, Queued, Working, Sent
<1>3. QED
  BY <1>1, <1>2, CallStep, DoneStep DEF ConcurrentNext

\* What Accounted says of a step.
AccountStep ==
    /\ verdict' = "resolved" => completed' = Items /\ \A i \in 1..Items : outcome'[i] # "none"
    /\ \A i \in 1..Items : Sent(i)' /\ ~Sent(i) /\ ~Call =>
          /\ outcome[i] = "none"
          /\ failFast => \A j \in 1..Items : outcome'[j] # "error"

LEMMA Accounting == CrewInv /\ CrewInv' /\ [ConcurrentNext]_concurrentVars => AccountStep
<1> SUFFICES ASSUME CrewInv, CrewInv', [ConcurrentNext]_concurrentVars PROVE AccountStep
  OBVIOUS
<1> USE ConcurrentAssumption, CrewSizeOK
<1>1. ASSUME verdict' = "resolved" PROVE completed' = Items /\ \A i \in 1..Items : outcome'[i] # "none"
  <2>1. ItemsDone' = 1..Items /\ completed' = Cardinality(ItemsDone')
    BY <1>1 DEF CrewInv
  <2>2. Cardinality(1..Items) = Items
    BY FS_Interval
  <2>3. QED
    BY <2>1, <2>2 DEF ItemsDone
<1>2. ASSUME NEW i \in 1..Items, Sent(i)', ~Sent(i), ~Call
      PROVE  outcome[i] = "none" /\ (failFast => \A j \in 1..Items : outcome'[j] # "error")
  <2>1. PICK w \in Crew, result \in {"result", "error"} : Done(w, result)
    <3>1. ~TimedOut /\ ~UNCHANGED concurrentVars
      BY <1>2 DEF TimedOut, concurrentVars, Sent
    <3>2. QED
      BY <1>2, <3>1 DEF ConcurrentNext
  <2>2. w \in Working
    BY <2>1 DEF Done
  <2>3. Handed(w)
    BY <2>1, <2>2, NextTaken, FastFailed DEF Done
  <2>4. worker'[w] = i
    BY <1>2, <2>3 DEF Handed, Sent
  <2>5. i \in Queued
    BY <2>3, <2>4 DEF Handed
  <2>6. outcome[i] = "none" /\ todo # <<>>
    BY <2>5 DEF CrewInv, Shared, Queued
  <2>7. ASSUME failFast, NEW j \in 1..Items PROVE outcome'[j] # "error"
    <3>1. result # "error"
      <4>1. ASSUME FailedFast(w) PROVE FALSE
        BY <2>2, <2>4, <4>1 DEF FailedFast, CrewInv, Shape, Working
      <4>2. QED
        BY <2>1, <2>7, <4>1 DEF Done
    <3>2. outcome[j] # "error"
      BY <2>6, <2>7 DEF CrewInv
    <3>3. outcome'[j] \in {outcome[j], result}
      BY <2>1, <2>2 DEF Done, CrewInv, Shape, Working
    <3>4. QED
      BY <3>1, <3>2, <3>3
  <2>8. QED
    BY <2>6, <2>7
<1>3. QED
  BY <1>1, <1>2 DEF AccountStep

\* For any number of requests, any limit and any functions that throw: a call
\* that resolves has an answer for each, none is sent twice, and nothing is sent
\* after the error that a fail-fast call fails with.
THEOREM AllAccounted == ConcurrentSpec => Accounted
BY CrewStart, CrewStep, Accounting, PTL DEF ConcurrentSpec, Accounted, AccountStep
-----------------------------------------------------------------------------
\* Hedging: a call is won by an index whose request has answered, and then the signal
\* of every other one has fired.

HedgeInv ==
    /\ leg \in [Legs -> {"sleeping", "sent", "answered", "failed"}]
    /\ first \in Legs \cup {0}
    /\ hedge = "racing" => belated = {}
    /\ hedge = "won" => /\ belated = {}
                        /\ first \in Legs /\ leg[first] = "answered"
                        /\ Losers(first) \subseteq signals

LEMMA Won == HedgeInv => LosersStopped
  BY DEF HedgeInv, LosersStopped, UnderWay, Losers

LEMMA HedgeStep == HedgeInv /\ [HedgeNext]_hedgeVars => HedgeInv'
<1> SUFFICES ASSUME HedgeInv, [HedgeNext]_hedgeVars PROVE HedgeInv'
  OBVIOUS
<1>1. CASE Conclude
  <2>1. first \in Legs
    BY <1>1 DEF Conclude, HedgeInv
  <2>2. QED
    BY <1>1, <2>1 DEF Conclude, HedgeInv
<1>2. ASSUME NEW i \in Legs, Wake(i) PROVE HedgeInv'
  \* The winner is not asleep, and the signals of the others have fired.
  <2>1. hedge = "won" => i # first /\ i \in signals
    BY <1>2 DEF Wake, HedgeInv, Losers
  <2>2. leg' \in [Legs -> {"sleeping", "sent", "answered", "failed"}] /\ first' \in Legs \cup {0}
    BY <1>2 DEF Wake, Settles, HedgeInv
  <2>3. ASSUME hedge = "won" PROVE first' = first /\ leg'[first] = leg[first] /\ belated' = belated
    <3>1. Settles(i, "failed") /\ UNCHANGED belated
      BY <1>2, <2>1, <2>3 DEF Wake
    <3>2. first \in Legs /\ first # 0
      BY <2>3 DEF HedgeInv, Legs
    <3>3. QED
      BY <2>1, <2>3, <3>1, <3>2 DEF Settles, HedgeInv
  <2>4. hedge = "racing" => belated' = belated
    BY <1>2 DEF Wake
  <2>5. hedge' = hedge /\ signals' = signals
    BY <1>2 DEF Wake
  <2>6. QED
    BY <2>2, <2>3, <2>4, <2>5 DEF HedgeInv, Losers, Legs
<1>3. ASSUME NEW i \in Legs, LegSettles(i) PROVE HedgeInv'
  <2>1. hedge = "won" => i # first
    BY <1>3 DEF LegSettles, HedgeInv
  <2>2. QED
    BY <1>3, <2>1 DEF LegSettles, Settles, HedgeInv, Legs
<1>4. CASE UNCHANGED hedgeVars
  BY <1>4 DEF hedgeVars, HedgeInv, Legs, Losers
<1>5. QED
  BY <1>1, <1>2, <1>3, <1>4 DEF HedgeNext

\* For any number of requests: once a hedged call has its answer nothing more is sent,
\* and what is under way has been told to stop, whichever of them answered.
THEOREM OthersStopped == HedgeSpec => []LosersStopped
<1>1. HedgeInit => HedgeInv
  BY DEF HedgeInit, HedgeInv
<1>2. QED
  BY <1>1, HedgeStep, Won, PTL DEF HedgeSpec
-----------------------------------------------------------------------------
\* RequestPipeline: the slots of the pool and the key in flight are held by
\* requests that are under way.

Holders == {r \in Requests : status[r] = "running"}
Waiting == {r \in Requests : status[r] = "queued"}

\* The pool of the one origin.  Its limit is fixed, so a call that ends makes room
\* for one other at most: without that, two requests with the same key could start
\* in one step and both lead.
SlotInv ==
    /\ active \in [{Origin} -> Nat] /\ queue \in [{Origin} -> Seq(Requests)]
    /\ limit = [d \in {Origin} |-> MaxConcurrent]
    /\ armed = Waiting
    /\ status \in [Requests -> {"idle", "queued", "running"}]
    /\ dom = [r \in Requests |-> Origin]
    /\ Listed(queue[Origin]) = Waiting /\ Distinct(queue[Origin])
    /\ IsFiniteSet(Holders) /\ active[Origin] = Cardinality(Holders)
    /\ active[Origin] <= MaxConcurrent
    /\ queue[Origin] # <<>> => active[Origin] = MaxConcurrent

\* The calls that the requests wait for.
CallInv ==
    /\ pc \in [Requests -> {"idle", "trying", "waiting", "processing", "told", "failing"}]
    /\ call \in [Requests -> {"none", "leads", "follows", "ok", "failed"}]
    /\ flight \in Keyed \cup {None}
    /\ \A r \in Requests : call[r] # "none" <=> status[r] = "running"
    /\ \A r \in Requests : pc[r] = "waiting" <=> status[r] # "idle"
    /\ Coalesced

LEMMA SlotStart ==
    ASSUME SlotInv, NEW r \in Requests, Pool!Start(r, Origin)
    PROVE  /\ SlotInv' /\ status[r] = "idle" /\ Started = {r}
           /\ status' = [status EXCEPT ![r] = "running"]
<1> USE DEF SlotInv
<1>1. /\ status[r] = "idle" /\ active[Origin] < MaxConcurrent
      /\ status' = [status EXCEPT ![r] = "running"]
      /\ active' = [active EXCEPT ![Origin] = @ + 1]
      /\ dom' = [dom EXCEPT ![r] = Origin]
      /\ queue' = queue /\ limit' = limit /\ armed' = armed
  BY DEF Pool!Start
<1>2. Holders' = Holders \cup {r} /\ r \notin Holders /\ Waiting' = Waiting
  BY <1>1 DEF Holders, Waiting
<1>3. IsFiniteSet(Holders') /\ Cardinality(Holders') = Cardinality(Holders) + 1
  BY <1>2, FS_AddElement
<1>4. active'[Origin] = active[Origin] + 1 /\ active' \in [{Origin} -> Nat]
  BY <1>1
<1>5. queue[Origin] = <<>>
  BY <1>1
<1>6. SlotInv'
  BY <1>1, <1>2, <1>3, <1>4, <1>5, PipelineAssumption
<1>7. Started = {r}
  BY <1>1 DEF Started
<1>8. QED
  BY <1>1, <1>6, <1>7

LEMMA SlotEnqueue ==
    ASSUME SlotInv, NEW r \in Requests, Pool!Enqueue(r, Origin)
    PROVE  /\ SlotInv' /\ status[r] = "idle" /\ Started = {}
           /\ status' = [status EXCEPT ![r] = "queued"]
<1> USE DEF SlotInv
<1>1. /\ status[r] = "idle" /\ active[Origin] >= MaxConcurrent
      /\ status' = [status EXCEPT ![r] = "queued"]
      /\ queue' = [queue EXCEPT ![Origin] = Append(@, r)]
      /\ dom' = [dom EXCEPT ![r] = Origin]
      /\ active' = active /\ limit' = limit /\ armed' = armed \cup {r}
  BY DEF Pool!Enqueue, Pool!Pushed, Pool!Armed
<1>2. Holders' = Holders /\ Waiting' = Waiting \cup {r} /\ r \notin Waiting
  BY <1>1 DEF Holders, Waiting
<1>3. queue'[Origin] = Append(queue[Origin], r) /\ queue' \in [{Origin} -> Seq(Requests)]
  BY <1>1
<1>4. Listed(queue'[Origin]) = Waiting' /\ Distinct(queue'[Origin])
  BY <1>2, <1>3, AppendListed, queue[Origin] \in Seq(Requests)
<1>5. active[Origin] = MaxConcurrent
  BY <1>1, PipelineAssumption
<1>6. SlotInv'
  BY <1>1, <1>2, <1>3, <1>4, <1>5
<1>7. Started = {}
  BY <1>1 DEF Started
<1>8. QED
  BY <1>1, <1>6, <1>7

LEMMA SlotRefuse ==
    ASSUME SlotInv, NEW r \in Requests, Pool!Refuse(r, Origin)
    PROVE  SlotInv' /\ status' = status /\ status[r] = "idle" /\ Started = {}
BY DEF SlotInv, Pool!Refuse, Holders, Waiting, Started

LEMMA SlotTimeout ==
    ASSUME SlotInv, NEW r \in Requests, Pool!QueueTimeout(r)
    PROVE  /\ SlotInv' /\ status[r] = "queued"
           /\ status' = [status EXCEPT ![r] = "idle"]
<1> USE DEF SlotInv
<1> DEFINE at == {i \in DOMAIN queue[Origin] : queue[Origin][i] = r}
<1>1. /\ r \in armed /\ dom[r] = Origin
      /\ armed' = armed \ {r}
      /\ status' = [status EXCEPT ![r] = IF @ = "queued" THEN "idle" ELSE @]
      /\ active' = active /\ limit' = limit /\ dom' = dom
      /\ at # {} => queue' = [queue EXCEPT ![Origin] = RemoveAt(@, CHOOSE i \in at : TRUE)]
  BY DEF Pool!QueueTimeout, Pool!RemoveAt, RemoveAt
<1>2. status[r] = "queued" /\ status' = [status EXCEPT ![r] = "idle"]
  BY <1>1 DEF Waiting
<1>3. at # {}
  BY <1>1 DEF Listed
<1>4. PICK k \in at : queue' = [queue EXCEPT ![Origin] = RemoveAt(queue[Origin], k)]
  BY <1>1, <1>3
<1>5. Holders' = Holders /\ Waiting' = Waiting \ {r}
  BY <1>2 DEF Holders, Waiting
<1>6. queue[Origin] \in Seq(Requests) /\ Distinct(queue[Origin])
  OBVIOUS
<1>7. Listed(RemoveAt(queue[Origin], k)) = Waiting' /\ Distinct(RemoveAt(queue[Origin], k))
  BY <1>5, <1>6, RemoveAtListed
<1>8. RemoveAt(queue[Origin], k) \in Seq(Requests)
  BY <1>6 DEF RemoveAt
<1>9. queue[Origin] # <<>>
  BY <1>4
<1>10. SlotInv'
  BY <1>1, <1>2, <1>4, <1>5, <1>7, <1>8, <1>9
<1>11. QED
  BY <1>2, <1>10

\* A call that ends hands its slot to the first that waits, if any.
LEMMA SlotFinish ==
    ASSUME SlotInv, NEW r \in Requests, Pool!Finish(r, "fast")
    PROVE  /\ SlotInv' /\ status[r] = "running"
           /\ Started \subseteq Waiting /\ \A p, q \in Started : p = q
           /\ status' = [u \in Requests |-> IF u = r THEN "idle"
                                            ELSE IF u \in Started THEN "running" ELSE status[u]]
<1> DEFINE q == queue[Origin]
           act == active[Origin] - 1
           n == IF q = <<>> THEN 0 ELSE 1
           given == {q[i] : i \in 1..n}
<1>1. /\ q \in Seq(Requests) /\ Distinct(q) /\ Listed(q) = Waiting /\ dom[r] = Origin
      /\ active[Origin] \in Nat /\ active[Origin] <= MaxConcurrent
      /\ active[Origin] = Cardinality(Holders) /\ IsFiniteSet(Holders)
      /\ limit[Origin] = MaxConcurrent /\ MaxConcurrent \in Nat \ {0}
      /\ q # <<>> => active[Origin] = MaxConcurrent
  BY PipelineAssumption DEF SlotInv
<1>2. status[r] = "running" /\ r \in Holders
  BY DEF Pool!Finish, Holders
<1>3. active[Origin] > 0
  <2>1. Holders # {}
    BY <1>2
  <2>2. QED
    BY <1>1, <2>1, FS_EmptySet
<1>4. /\ Pool!Record(Origin, "fast") = MaxConcurrent
      /\ Pool!Released(Origin) = act /\ act \in Nat
  BY <1>1, <1>3 DEF Pool!Record, Pool!Released, Pool!Larger
<1>5. Pool!Drained(Origin, act, MaxConcurrent) = n
  BY <1>1, <1>3 DEF Pool!Drained, Pool!Smaller, Pool!Larger
<1>6. /\ limit' = [limit EXCEPT ![Origin] = MaxConcurrent]
      /\ active' = [active EXCEPT ![Origin] = act + n]
      /\ queue' = [queue EXCEPT ![Origin] = SubSeq(q, n + 1, Len(q))]
      /\ armed' = armed \ given
      /\ status' = [u \in Requests |-> IF u = r THEN "idle"
                                       ELSE IF u \in given THEN "running" ELSE status[u]]
      /\ dom' = dom
  BY <1>1, <1>4, <1>5 DEF Pool!Finish, Pool!Cleared
<1>7. n \in 0..Len(q) /\ n \in {0, 1} /\ (q # <<>> => n = 1)
  BY <1>1
<1> HIDE DEF n, act, q
<1>8. given \subseteq Waiting /\ (\A x, y \in given : x = y)
  BY <1>1, <1>7 DEF Listed
<1>9. IsFiniteSet(given) /\ Cardinality(given) = n
  <2>1. q \in Seq(Requests)
    BY <1>1
  <2>2. Distinct(q)
    BY <1>1
  <2>3. n \in 0..Len(q)
    BY <1>7
  <2>4. QED
    BY <2>1, <2>2, <2>3, PrefixSize
<1>10. Listed(SubSeq(q, n + 1, Len(q))) = Waiting \ given /\ Distinct(SubSeq(q, n + 1, Len(q)))
  BY <1>1, <1>7, DropListed
<1>11. SubSeq(q, n + 1, Len(q)) \in Seq(Requests)
  BY <1>1, <1>7
<1>12. SubSeq(q, n + 1, Len(q)) # <<>> => q # <<>> /\ n = 1
  <2>1. Len(SubSeq(q, n + 1, Len(q))) = Len(q) - n
    BY <1>1, <1>7
  <2>2. q = <<>> => Len(q) = 0
    OBVIOUS
  <2>3. QED
    BY <1>1, <1>7, <1>11, <2>1, <2>2
<1> HIDE DEF given
<1>13. /\ Holders' = (Holders \ {r}) \cup given /\ (Holders \ {r}) \cap given = {}
       /\ Waiting' = Waiting \ given /\ Started = given
  BY <1>2, <1>6, <1>8 DEF Holders, Waiting, Started, SlotInv
<1>14. IsFiniteSet(Holders') /\ Cardinality(Holders') = act + n
  <2>1. IsFiniteSet(Holders \ {r}) /\ Cardinality(Holders \ {r}) = act
    BY <1>1, <1>2, FS_RemoveElement DEF act
  <2> DEFINE rest == Holders \ {r}
  <2>2. /\ IsFiniteSet(rest \cup given)
        /\ Cardinality(rest \cup given) =
             Cardinality(rest) + Cardinality(given) - Cardinality(rest \cap given)
    <3> HIDE DEF rest
    <3>1. QED
      BY <2>1, <1>9, FS_Union DEF rest
  <2>3. Cardinality({}) = 0
    BY FS_EmptySet
  <2>4. Cardinality(rest) + Cardinality(given) - Cardinality(rest \cap given) = act + n
    <3>1. Cardinality(rest \cap given) = 0
      BY <2>3, <1>13
    <3>2. Cardinality(rest) = act /\ Cardinality(given) = n /\ act \in Int /\ n \in Int
      BY <2>1, <1>4, <1>7, <1>9
    <3> HIDE DEF rest
    <3>3. QED
      BY <3>1, <3>2
  <2>5. QED
    BY <2>2, <2>4, <1>13
<1>15. SlotInv'
  <2>1. act + n \in Nat /\ act + n <= MaxConcurrent /\ (q # <<>> /\ n = 1 => act + n = MaxConcurrent)
    BY <1>1, <1>3, <1>4, <1>7 DEF act
  <2>2. /\ active' \in [{Origin} -> Nat] /\ active'[Origin] = act + n
        /\ queue' \in [{Origin} -> Seq(Requests)] /\ queue'[Origin] = SubSeq(q, n + 1, Len(q))
        /\ limit' = [d \in {Origin} |-> MaxConcurrent]
    BY <1>6, <1>11, <2>1 DEF SlotInv
  <2>3. status' \in [Requests -> {"idle", "queued", "running"}] /\ armed' = Waiting'
    BY <1>6, <1>13 DEF SlotInv
  <2>4. QED
    BY <1>6, <1>10, <1>12, <1>13, <1>14, <2>1, <2>2, <2>3 DEF SlotInv
<1>16. QED
  BY <1>2, <1>6, <1>8, <1>13, <1>15

\* What #dispatch makes of at most one request that starts.
LEMMA DispatchKeeps ==
    ASSUME CallInv, NEW after \in [Requests -> {"none", "leads", "follows", "ok", "failed"}],
           Started \subseteq Requests, \A p, q \in Started : p = q,
           \A r \in Started : after[r] = "none",
           \A r \in Requests : after[r] # call[r] => call[r] \in {"ok", "failed"} /\ after[r] = "none",
           Dispatched(after)
    PROVE  /\ call' \in [Requests -> {"none", "leads", "follows", "ok", "failed"}]
           /\ flight' \in Keyed \cup {None}
           /\ \A r \in Requests : call'[r] # "none" <=> r \in Started \/ after[r] # "none"
           /\ Coalesced'
<1>1. /\ call' = [r \in Requests |-> IF r \notin Started THEN after[r]
                                     ELSE IF Joins(r, flight) THEN "follows" ELSE "leads"]
      /\ None \notin Keyed /\ Keyed \subseteq Requests /\ flight \in Keyed \cup {None}
  BY PipelineAssumption DEF Dispatched, CallInv
<1>2. \A r \in Requests : /\ after[r] = "leads" <=> call[r] = "leads"
                          /\ after[r] = "follows" <=> call[r] = "follows"
  BY DEF CallInv
<1>3. CASE flight = None /\ Started \cap Keyed # {}
  <2>1. PICK k \in Started \cap Keyed : flight' = k
    BY <1>3 DEF Dispatched
  <2>2. Started = {k} /\ k \in Requests /\ k # None
    BY <1>1, <2>1
  <2>3. call' = [r \in Requests |-> IF r = k THEN "leads" ELSE after[r]]
    BY <1>1, <1>3, <2>2 DEF Joins
  <2>4. QED
    BY <1>1, <1>2, <1>3, <2>1, <2>2, <2>3 DEF CallInv, Coalesced
<1>4. CASE ~(flight = None /\ Started \cap Keyed # {})
  <2>1. flight' = flight
    BY <1>4 DEF Dispatched
  <2>2. \A r \in Started : r # flight
    <3>1. ASSUME NEW r \in Started, r = flight PROVE FALSE
      <4>1. r \in Keyed
        BY <1>1, <3>1, PipelineAssumption
      <4>2. call[r] = "leads" /\ after[r] = "none"
        BY <3>1, <4>1 DEF CallInv, Coalesced
      <4>3. QED BY <1>1, <1>2, <4>1, <4>2
    <3>2. QED BY <3>1
  <2>3. \A r \in Started : call'[r] = IF r \in Keyed THEN "follows" ELSE "leads"
    BY <1>1, <1>4 DEF Joins
  <2>4. \A r \in Requests \ Started : call'[r] = after[r]
    BY <1>1
  <2>5. \A r \in Started : r \in Keyed => flight # None
    BY <1>4
  <2>6. Coalesced'
    BY <1>1, <1>2, <2>1, <2>2, <2>3, <2>4, <2>5 DEF CallInv, Coalesced
  <2>7. QED
    BY <1>1, <2>1, <2>3, <2>4, <2>6
<1>5. QED
  BY <1>3, <1>4

LEMMA PipelineStart == Init => SlotInv /\ CallInv
<1> SUFFICES ASSUME Init PROVE SlotInv /\ CallInv
  OBVIOUS
<1>1. /\ active = [d \in {Origin} |-> 0] /\ queue = [d \in {Origin} |-> <<>>]
      /\ limit = [d \in {Origin} |-> MaxConcurrent] /\ armed = {}
      /\ status = [r \in Requests |-> "idle"] /\ dom \in [Requests -> {Origin}]
      /\ call = [r \in Requests |-> "none"] /\ pc = [r \in Requests |-> "idle"] /\ flight = None
  BY DEF Init, Pool!BulkheadInit, Pool!FirstLimit
<1>2. Holders = {} /\ Waiting = {}
  BY <1>1 DEF Holders, Waiting
<1>3. Listed(queue[Origin]) = {} /\ Distinct(queue[Origin])
  BY <1>1 DEF Listed, Distinct
<1>4. dom = [r \in Requests |-> Origin]
  BY <1>1
<1>5. SlotInv
  BY <1>1, <1>2, <1>3, <1>4, FS_EmptySet, PipelineAssumption DEF SlotInv
<1>6. CallInv
  BY <1>1, PipelineAssumption DEF CallInv, Coalesced
<1>7. QED BY <1>5, <1>6

LEMMA PipelineStep == SlotInv /\ CallInv /\ [Next]_vars => SlotInv' /\ CallInv'
<1> SUFFICES ASSUME SlotInv, CallInv, [Next]_vars PROVE SlotInv' /\ CallInv'
  OBVIOUS
<1>1. ASSUME UNCHANGED pool PROVE SlotInv'
  BY <1>1 DEF pool, SlotInv, Holders, Waiting
<1>2. ASSUME UNCHANGED <<pool, call, flight>>, NEW r \in Requests, pc[r] # "waiting",
             NEW at \in {"idle", "trying", "processing", "told", "failing"}, pc' = [pc EXCEPT ![r] = at]
      PROVE  CallInv'
  BY <1>2 DEF pool, CallInv, Coalesced
<1>3. CASE UNCHANGED vars \/ Elapse
  <2>1. UNCHANGED <<pool, pc, call, flight>>
    BY <1>3 DEF vars, Elapse
  <2>2. QED
    BY <1>1, <2>1 DEF CallInv, Coalesced, pool
<1>4. ASSUME NEW r \in Requests,
             \/ Admit(r) \/ GiveUp(r) \/ Succeed(r) \/ Resolve(r)
             \/ Stumble(r) \/ Fail(r) \/ FallBack(r)
      PROVE  SlotInv' /\ CallInv'
  <2>1. /\ UNCHANGED <<pool, call, flight>> /\ pc[r] # "waiting"
        /\ \E at \in {"idle", "trying", "processing", "told", "failing"} : pc' = [pc EXCEPT ![r] = at]
    BY <1>4 DEF Admit, GiveUp, Succeed, Resolve, Stumble, Fail, FallBack, Over
  <2>2. QED
    BY <1>1, <1>2, <2>1
<1>5. ASSUME NEW r \in Requests, Attempt(r) PROVE SlotInv' /\ CallInv'
  <2>1. CASE (Pool!Start(r, Origin) \/ Pool!Enqueue(r, Origin)) /\ pc' = [pc EXCEPT ![r] = "waiting"]
    <3>1. /\ SlotInv' /\ status[r] = "idle" /\ Started \in {{}, {r}}
          /\ status' = [status EXCEPT ![r] = IF r \in Started THEN "running" ELSE "queued"]
      BY <2>1, SlotStart, SlotEnqueue
    <3>2. call[r] = "none" /\ call \in [Requests -> {"none", "leads", "follows", "ok", "failed"}]
      BY <3>1 DEF CallInv
    <3>3. /\ call' \in [Requests -> {"none", "leads", "follows", "ok", "failed"}]
          /\ flight' \in Keyed \cup {None}
          /\ \A u \in Requests : call'[u] # "none" <=> u \in Started \/ call[u] # "none"
          /\ Coalesced'
      BY <1>5, <3>1, <3>2, DispatchKeeps DEF Attempt
    <3>4. QED
      BY <2>1, <3>1, <3>3 DEF CallInv, SlotInv
  <2>2. CASE Pool!Refuse(r, Origin) /\ pc' = [pc EXCEPT ![r] = "failing"]
    <3>1. SlotInv' /\ status' = status /\ status[r] = "idle" /\ Started = {}
      BY <2>2, SlotRefuse
    <3>2. /\ call' \in [Requests -> {"none", "leads", "follows", "ok", "failed"}]
          /\ flight' \in Keyed \cup {None}
          /\ \A u \in Requests : call'[u] # "none" <=> u \in Started \/ call[u] # "none"
          /\ Coalesced'
      BY <1>5, <3>1, DispatchKeeps DEF Attempt, CallInv
    <3>3. QED
      BY <2>2, <3>1, <3>2 DEF CallInv
  <2>3. QED BY <1>5, <2>1, <2>2 DEF Attempt
<1>6. ASSUME NEW r \in Requests, QueueTimeout(r) PROVE SlotInv' /\ CallInv'
  <2>1. SlotInv' /\ status[r] = "queued" /\ status' = [status EXCEPT ![r] = "idle"]
    BY <1>6, SlotTimeout DEF QueueTimeout
  <2>2. pc' = [pc EXCEPT ![r] = "failing"] /\ UNCHANGED <<call, flight>>
    BY <1>6 DEF QueueTimeout
  <2>3. QED
    BY <2>1, <2>2 DEF CallInv, Coalesced, SlotInv
<1>7. ASSUME NEW r \in Requests, Answered(r) PROVE SlotInv' /\ CallInv'
  <2>1. PICK how \in {"ok", "failed"} : Answer(r, how)
    BY <1>7 DEF Answered
  <2>2. /\ UNCHANGED <<pool, pc>> /\ call[r] = "leads"
        /\ call' = [q \in Requests |->
                       IF q = r \/ (flight = r /\ call[q] = "follows") THEN how ELSE call[q]]
        /\ flight' = IF flight = r THEN None ELSE flight
    BY <2>1 DEF Answer, EntryAfter
  <2>3. CallInv'
    BY <2>2, PipelineAssumption DEF CallInv, Coalesced, pool
  <2>4. QED BY <1>1, <2>2, <2>3
<1>8. ASSUME NEW r \in Requests, Leave(r) PROVE SlotInv' /\ CallInv'
  <2> DEFINE after == [call EXCEPT ![r] = "none"]
  <2>1. /\ SlotInv' /\ status[r] = "running"
        /\ Started \subseteq Waiting /\ \A p, q \in Started : p = q
        /\ status' = [u \in Requests |-> IF u = r THEN "idle"
                                         ELSE IF u \in Started THEN "running" ELSE status[u]]
    BY <1>8, SlotFinish DEF Leave
  <2>2. call[r] \in {"ok", "failed"} /\ Dispatched(after)
    BY <1>8 DEF Leave
  <2>3. /\ after \in [Requests -> {"none", "leads", "follows", "ok", "failed"}]
        /\ Started \subseteq Requests /\ \A u \in Started : after[u] = "none"
    BY <2>1 DEF CallInv, Waiting
  <2>4. \A u \in Requests : after[u] # call[u] => call[u] \in {"ok", "failed"} /\ after[u] = "none"
    BY <2>2 DEF CallInv
  <2>5. /\ call' \in [Requests -> {"none", "leads", "follows", "ok", "failed"}]
        /\ flight' \in Keyed \cup {None}
        /\ \A u \in Requests : call'[u] # "none" <=> u \in Started \/ after[u] # "none"
        /\ Coalesced'
    <3> HIDE DEF after
    <3>1. QED
      BY <2>1, <2>2, <2>3, <2>4, DispatchKeeps
  <2>6. PICK at \in {"trying", "processing", "failing"} : pc' = [pc EXCEPT ![r] = at]
    BY <1>8 DEF Leave
  <2>7. \A u \in Requests : pc'[u] = "waiting" <=> status'[u] # "idle"
    BY <2>1, <2>6 DEF CallInv, Waiting
  <2>8. \A u \in Requests : call'[u] # "none" <=> status'[u] = "running"
    <3>1. after = [u \in Requests |-> IF u = r THEN "none" ELSE call[u]]
      BY DEF CallInv
    <3>2. \A u \in Started : status[u] = "queued"
      BY <2>1 DEF Waiting
    <3> HIDE DEF after
    <3>3. QED
      BY <2>1, <2>5, <3>1, <3>2 DEF CallInv
  <2>9. QED
    BY <2>1, <2>5, <2>6, <2>7, <2>8 DEF CallInv
<1>9. QED
  BY <1>3, <1>4, <1>5, <1>6, <1>7, <1>8 DEF Next

LEMMA SlotsAndKey == SlotInv /\ CallInv => HeldByTheLiving
<1> SUFFICES ASSUME SlotInv, CallInv PROVE HeldByTheLiving
  OBVIOUS
<1>1. OnNetwork \subseteq Holders /\ {r \in Requests : call[r] # "none"} = Holders
  BY DEF CallInv, Holders, OnNetwork
<1>2. IsFiniteSet(Holders) /\ Cardinality(Holders) <= MaxConcurrent
  BY DEF SlotInv
<1>3. Cardinality(OnNetwork) <= Cardinality(Holders) /\ IsFiniteSet(OnNetwork)
  BY <1>1, <1>2, FS_Subset
<1>4. Cardinality(OnNetwork) <= MaxConcurrent
  BY <1>2, <1>3, FS_CardinalityType, PipelineAssumption
<1>5. QED
  BY <1>1, <1>4 DEF HeldByTheLiving, SlotsHeld, SlotInv, CallInv

\* However requests of an origin retry, wait, time out and join each other's calls:
\* no more than maxConcurrent of its calls are on the network, a slot is held exactly
\* while its request waits for a call, and there is one call for a key at most.
THEOREM SlotsAndKeyHeld == Spec => []HeldByTheLiving
BY PipelineStart, PipelineStep, SlotsAndKey, PTL DEF Spec

-----------------------------------------------------------------------------
\* Interceptors: the handlers that have yet to have their turn are ahead of those that
\* had it, by number, in the map or in the chain.

HandlerRecords == [id : Nat, synchronous : BOOLEAN, rejects : BOOLEAN]
Rising(s) == \A i, j \in DOMAIN s : i < j => s[i].id < s[j].id

\* Taking the first of them.
LEMMA RisingTail ==
    ASSUME NEW s \in Seq(HandlerRecords), Rising(s), s # <<>>
    PROVE  /\ Head(s) \in HandlerRecords /\ Tail(s) \in Seq(HandlerRecords) /\ Rising(Tail(s))
           /\ Head(s).id \in Numbered(s)
           /\ Numbered(Tail(s)) = {n \in Numbered(s) : n > Head(s).id}
<1>1. /\ Len(s) \in Nat \ {0} /\ DOMAIN s = 1..Len(s) /\ Head(s) = s[1]
      /\ DOMAIN Tail(s) = 1..(Len(s) - 1) /\ Tail(s) \in Seq(HandlerRecords)
      /\ \A i \in 1..(Len(s) - 1) : Tail(s)[i] = s[i + 1]
      /\ \A i \in 1..Len(s) : s[i] \in HandlerRecords
  OBVIOUS
<1>2. \A i \in 1..Len(s) : s[i].id \in Nat
  BY <1>1 DEF HandlerRecords
<1>3. 1 \in 1..Len(s) /\ \A i \in 1..(Len(s) - 1) : i + 1 \in 1..Len(s) /\ 1 < i + 1
  BY <1>1
<1>4. Rising(Tail(s))
  <2> SUFFICES ASSUME NEW i \in 1..(Len(s) - 1), NEW j \in 1..(Len(s) - 1), i < j
               PROVE  Tail(s)[i].id < Tail(s)[j].id
    BY <1>1 DEF Rising
  <2>1. i + 1 < j + 1
    BY <1>1
  <2>2. QED
    BY <1>1, <1>3, <2>1 DEF Rising
<1>5. ASSUME NEW n \in Numbered(Tail(s)) PROVE n \in Numbered(s) /\ n > Head(s).id
  <2>1. PICK i \in 1..(Len(s) - 1) : n = s[i + 1].id
    BY <1>1 DEF Numbered, ToSet
  <2>2. s[1].id < s[i + 1].id
    BY <1>1, <1>3 DEF Rising
  <2>3. QED
    BY <1>1, <1>2, <1>3, <2>1, <2>2 DEF Numbered, ToSet
<1>6. ASSUME NEW n \in Numbered(s), n > Head(s).id PROVE n \in Numbered(Tail(s))
  <2>1. PICK i \in 1..Len(s) : n = s[i].id
    BY <1>1 DEF Numbered, ToSet
  <2>2. i # 1
    BY <1>1, <1>2, <1>6, <2>1
  <2>3. i - 1 \in 1..(Len(s) - 1) /\ (i - 1) + 1 = i
    BY <1>1, <2>2
  <2>4. Tail(s)[i - 1] = s[i]
    BY <1>1, <2>3
  <2>5. QED
    BY <1>1, <2>1, <2>3, <2>4 DEF Numbered, ToSet
<1>7. QED
  BY <1>1, <1>3, <1>4, <1>5, <1>6 DEF Numbered, ToSet

\* Ejecting one.
LEMMA RisingWithout ==
    ASSUME NEW s \in Seq(HandlerRecords), Rising(s), NEW k \in DOMAIN s
    PROVE  LET r == RemoveAt(s, k)
           IN  r \in Seq(HandlerRecords) /\ Rising(r) /\ Numbered(r) = Numbered(s) \ {s[k].id}
<1> DEFINE r == RemoveAt(s, k)
<1>1. /\ r \in Seq(HandlerRecords) /\ DOMAIN r = 1..(Len(s) - 1) /\ DOMAIN s = 1..Len(s)
      /\ \A i \in 1..(Len(s) - 1) : r[i] = IF i < k THEN s[i] ELSE s[i + 1]
  BY RemoveAtPlaces
<1> HIDE DEF r
<1>2. \A i \in 1..Len(s) : s[i].id \in Nat
  <2>1. \A i \in 1..Len(s) : s[i] \in HandlerRecords
    OBVIOUS
  <2>2. QED
    BY <2>1 DEF HandlerRecords
<1>3. \A i \in 1..(Len(s) - 1) :
        \E m \in 1..Len(s) : m # k /\ r[i] = s[m] /\ m = IF i < k THEN i ELSE i + 1
  BY <1>1
<1>4. Rising(r)
  <2> SUFFICES ASSUME NEW i \in 1..(Len(s) - 1), NEW j \in 1..(Len(s) - 1), i < j
               PROVE  r[i].id < r[j].id
    BY <1>1 DEF Rising
  <2>1. PICK m \in 1..Len(s) : r[i] = s[m] /\ m = IF i < k THEN i ELSE i + 1
    BY <1>3
  <2>2. PICK n \in 1..Len(s) : r[j] = s[n] /\ n = IF j < k THEN j ELSE j + 1
    BY <1>3
  <2>3. m < n
    BY <1>1, <2>1, <2>2
  <2>4. QED
    BY <1>1, <2>1, <2>2, <2>3 DEF Rising
<1>5. ASSUME NEW n \in Numbered(r) PROVE n \in Numbered(s) /\ n # s[k].id
  <2>1. PICK i \in 1..(Len(s) - 1) : n = r[i].id
    BY <1>1 DEF Numbered, ToSet
  <2>2. PICK m \in 1..Len(s) : m # k /\ r[i] = s[m]
    BY <1>3
  <2>3. n = s[m].id /\ n \in Numbered(s)
    BY <1>1, <2>1, <2>2 DEF Numbered, ToSet
  <2>4. s[m].id < s[k].id \/ s[k].id < s[m].id
    BY <1>1, <2>2 DEF Rising
  <2>5. QED
    BY <1>1, <1>2, <2>3, <2>4
<1>6. ASSUME NEW n \in Numbered(s), n # s[k].id PROVE n \in Numbered(r)
  <2>1. PICK m \in 1..Len(s) : n = s[m].id
    BY <1>1 DEF Numbered, ToSet
  <2>2. CASE m < k
    <3>1. m \in 1..(Len(s) - 1) /\ r[m] = s[m]
      BY <1>1, <2>2
    <3>2. QED
      BY <1>1, <2>1, <3>1 DEF Numbered, ToSet
  <2>3. CASE m > k
    <3>1. m - 1 \in 1..(Len(s) - 1) /\ r[m - 1] = s[m]
      BY <1>1, <2>3
    <3>2. QED
      BY <1>1, <2>1, <3>1 DEF Numbered, ToSet
  <2>4. QED
    BY <1>1, <1>6, <2>1, <2>2, <2>3
<1>7. QED
  BY <1>1, <1>4, <1>5, <1>6 DEF r

\* Adding one with a number that none has reached.
LEMMA RisingWith ==
    ASSUME NEW s \in Seq(HandlerRecords), Rising(s), NEW h \in HandlerRecords,
           \A n \in Numbered(s) : n < h.id
    PROVE  LET r == Append(s, h)
           IN  r \in Seq(HandlerRecords) /\ Rising(r) /\ Numbered(r) = Numbered(s) \cup {h.id}
<1> DEFINE r == Append(s, h)
<1>1. /\ r \in Seq(HandlerRecords) /\ DOMAIN r = 1..(Len(s) + 1) /\ DOMAIN s = 1..Len(s)
      /\ \A i \in 1..Len(s) : r[i] = s[i]
      /\ r[Len(s) + 1] = h /\ Len(s) \in Nat
  OBVIOUS
<1>2. \A i \in 1..Len(s) : s[i].id \in Numbered(s)
  BY <1>1 DEF Numbered, ToSet
<1> HIDE DEF r
<1>3. Rising(r)
  <2> SUFFICES ASSUME NEW i \in 1..(Len(s) + 1), NEW j \in 1..(Len(s) + 1), i < j
               PROVE  r[i].id < r[j].id
    BY <1>1 DEF Rising
  <2>1. i \in 1..Len(s)
    BY <1>1
  <2>2. CASE j \in 1..Len(s)
    BY <1>1, <2>1, <2>2 DEF Rising
  <2>3. CASE j = Len(s) + 1
    BY <1>1, <1>2, <2>1, <2>3
  <2>4. QED
    BY <1>1, <2>2, <2>3
<1>4. Numbered(r) = Numbered(s) \cup {h.id}
  <2>1. ToSet(r) = ToSet(s) \cup {h}
    <3>1. 1..(Len(s) + 1) = 1..Len(s) \cup {Len(s) + 1}
      BY <1>1
    <3>2. QED
      BY <1>1, <3>1 DEF ToSet
  <2>2. QED
    BY <2>1 DEF Numbered
<1>5. QED
  BY <1>1, <1>3, <1>4 DEF r

\* Those ahead are the rest of the map.
LEMMA AheadIs ==
    ASSUME registered \in [Sides -> Seq(HandlerRecords)], pass.kind \in PassKinds, pass.from \in Nat,
           Rising(registered[SideOf(pass.kind)])
    PROVE  /\ Ahead \in Seq(HandlerRecords) /\ Rising(Ahead)
           /\ Numbered(Ahead) = {n \in Numbered(registered[SideOf(pass.kind)]) : n >= pass.from}
<1> DEFINE s == registered[SideOf(pass.kind)]
           left == {i \in DOMAIN s : s[i].id >= pass.from}
           begin == CHOOSE i \in left : \A j \in left : i <= j
<1>1. s \in Seq(HandlerRecords) /\ Rising(s)
  BY DEF SideOf, Sides, PassKinds
<1>2. Ahead = IF left = {} THEN <<>> ELSE SubSeq(s, begin, Len(s))
  BY DEF Ahead
<1> HIDE DEF s
<1>3. DOMAIN s = 1..Len(s) /\ Len(s) \in Nat /\ \A i \in 1..Len(s) : s[i] \in HandlerRecords
  BY <1>1
<1>4. \A i \in 1..Len(s) : s[i].id \in Nat
  BY <1>3 DEF HandlerRecords
<1>5. CASE left = {}
  <2>1. Ahead = <<>>
    BY <1>2, <1>5
  <2>2. Numbered(Ahead) = {} /\ Rising(Ahead) /\ Ahead \in Seq(HandlerRecords)
    BY <2>1 DEF Numbered, ToSet, Rising
  <2>3. \A n \in Numbered(s) : ~(n >= pass.from)
    BY <1>3, <1>5 DEF Numbered, ToSet
  <2>4. QED
    BY <2>2, <2>3 DEF s
<1>6. CASE left # {}
  <2>1. left \subseteq Nat
    BY <1>3
  <2> HIDE DEF left
  <2>2. \E i \in left : \A j \in left : i <= j
    BY <1>6, <2>1, Least
  <2>3. begin \in left /\ \A j \in left : begin <= j
    BY <2>2
  <2> HIDE DEF begin
  <2>4. begin \in 1..Len(s) /\ s[begin].id >= pass.from
    BY <1>3, <2>3 DEF left
  <2>5. Ahead = SubSeq(s, begin, Len(s))
    BY <1>2, <1>6
  <2> DEFINE n == Len(s) - begin + 1
  <2>6. n \in Nat /\ DOMAIN Ahead = 1..n /\ \A i \in 1..n : Ahead[i] = s[begin + i - 1]
    <3>1. begin \in Nat \ {0} /\ Len(s) \in Nat /\ begin <= Len(s) /\ n \in Nat
      BY <1>3, <2>4
    <3>2. Len(Ahead) = Len(s) - begin + 1
      BY <1>1, <2>5, <3>1
    <3>3. \A i \in 1..(Len(s) - begin + 1) : Ahead[i] = s[begin + i - 1]
      BY <1>1, <2>5, <3>1
    <3>4. DOMAIN Ahead = 1..Len(Ahead)
      BY <1>1, <2>5, <3>1
    <3>5. QED
      BY <3>1, <3>2, <3>3, <3>4
  <2>7. Ahead \in Seq(HandlerRecords)
    BY <1>1, <1>3, <2>4, <2>5
  <2>8. \A i \in 1..n : begin + i - 1 \in 1..Len(s)
    BY <1>3, <2>4
  <2>9. Rising(Ahead)
    <3> SUFFICES ASSUME NEW i \in 1..n, NEW j \in 1..n, i < j
                 PROVE  Ahead[i].id < Ahead[j].id
      BY <2>6 DEF Rising
    <3>1. begin + i - 1 < begin + j - 1
      BY <1>3, <2>4
    <3>2. QED
      BY <1>1, <1>3, <2>6, <2>8, <3>1 DEF Rising
  <2>10. ASSUME NEW m \in Numbered(Ahead) PROVE m \in Numbered(s) /\ m >= pass.from
    <3>1. PICK i \in 1..n : m = s[begin + i - 1].id
      BY <2>6 DEF Numbered, ToSet
    <3>2. PICK k \in 1..Len(s) : m = s[k].id /\ k >= begin
      BY <1>3, <2>4, <2>8, <3>1
    <3> DEFINE low == s[begin].id
    <3>3. m \in Nat /\ low \in Nat
      BY <1>4, <2>4, <3>2
    <3>4. k = begin => m = low
      BY <3>2
    <3>5. begin < k => low < m
      BY <1>1, <1>3, <2>4, <3>2 DEF Rising
    <3>6. begin \in Nat /\ k \in Nat /\ low >= pass.from
      BY <1>3, <2>4
    <3> HIDE DEF low
    <3>7. m >= pass.from
      BY <3>2, <3>3, <3>4, <3>5, <3>6
    <3>8. m \in Numbered(s)
      BY <1>3, <3>2 DEF Numbered, ToSet
    <3>9. QED
      BY <3>7, <3>8
  <2>11. ASSUME NEW m \in Numbered(s), m >= pass.from PROVE m \in Numbered(Ahead)
    <3>1. PICK k \in 1..Len(s) : m = s[k].id
      BY <1>3 DEF Numbered, ToSet
    <3>2. k \in left
      BY <1>3, <2>11, <3>1 DEF left
    <3>3. k - begin + 1 \in 1..n /\ begin + (k - begin + 1) - 1 = k
      BY <1>3, <2>3, <2>4, <3>2
    <3>4. Ahead[k - begin + 1] = s[k]
      BY <2>6, <3>3
    <3>5. QED
      BY <2>6, <3>1, <3>3, <3>4 DEF Numbered, ToSet
  <2>12. QED
    BY <2>7, <2>9, <2>10, <2>11 DEF s
<1>7. QED
  BY <1>5, <1>6

\* A turn that is given to a higher number than all before keeps the order.
Ordered(s) == \A i, j \in DOMAIN s : i < j => s[i] < s[j]

LEMMA TurnGiven ==
    ASSUME NEW s \in Seq(Nat), Ordered(s), NEW n \in Nat, \A m \in ToSet(s) : m < n
    PROVE  LET r == Append(s, n)
           IN  r \in Seq(Nat) /\ Ordered(r) /\ ToSet(r) = ToSet(s) \cup {n}
<1> DEFINE r == Append(s, n)
<1>1. /\ r \in Seq(Nat) /\ DOMAIN r = 1..(Len(s) + 1) /\ DOMAIN s = 1..Len(s)
      /\ \A i \in 1..Len(s) : r[i] = s[i]
      /\ r[Len(s) + 1] = n /\ Len(s) \in Nat
  OBVIOUS
<1>2. \A i \in 1..Len(s) : s[i] < n
  BY <1>1 DEF ToSet
<1> HIDE DEF r
<1>3. Ordered(r)
  <2> SUFFICES ASSUME NEW i \in 1..(Len(s) + 1), NEW j \in 1..(Len(s) + 1), i < j
               PROVE  r[i] < r[j]
    BY <1>1 DEF Ordered
  <2>1. i \in 1..Len(s)
    BY <1>1
  <2>2. CASE j \in 1..Len(s)
    BY <1>1, <2>1, <2>2 DEF Ordered
  <2>3. CASE j = Len(s) + 1
    BY <1>1, <1>2, <2>1, <2>3
  <2>4. j \in 1..Len(s) \/ j = Len(s) + 1
    <3>1. \A k \in Nat : 1..(k + 1) = 1..k \cup {k + 1}
      OBVIOUS
    <3>2. 1..(Len(s) + 1) = 1..Len(s) \cup {Len(s) + 1}
      BY <1>1, <3>1
    <3>3. QED
      BY <3>2
  <2>5. QED
    BY <2>2, <2>3, <2>4
<1>4. ToSet(r) = ToSet(s) \cup {n}
  <2>1. 1..(Len(s) + 1) = 1..Len(s) \cup {Len(s) + 1}
    BY <1>1
  <2>2. QED
    BY <1>1, <2>1 DEF ToSet
<1>5. QED
  BY <1>1, <1>3, <1>4 DEF r

Stages == {"looping", "promised", "chained", "ended", "failed"}
Passes == [kind : PassKinds, stage : Stages, from : Nat, chain : Seq(HandlerRecords)]

\* The managers and the pass, by type; numbers are below the next one.
KeptInOrder ==
    /\ registered \in [Sides -> Seq(HandlerRecords)] /\ counter \in Nat
    /\ pass \in Passes /\ turns \in Seq(Nat)
    /\ \A side \in Sides :
           Rising(registered[side]) /\ \A n \in Numbered(registered[side]) : n < counter

\* Whose turn is still to come.
Coming ==
    CASE pass.stage = "looping" -> {n \in Numbered(registered[SideOf(pass.kind)]) : n >= pass.from}
      [] pass.stage \in {"promised", "chained"} -> Numbered(pass.chain)
      [] pass.stage = (IF pass.kind = "error" THEN "failed" ELSE "ended") -> {}
      [] OTHER -> owed

TurnInv ==
    /\ KeptInOrder /\ Ordered(turns)
    /\ pass.stage \in {"promised", "chained"} => pass.kind = "request" /\ Rising(pass.chain)
    /\ pass.stage = "looping" => \A n \in ToSet(turns) : n < pass.from
    /\ pass.stage \in {"promised", "chained"} =>
           \A n \in ToSet(turns), m \in Numbered(pass.chain) : n < m
    /\ owed \subseteq ToSet(turns) \cup Coming

LEMMA TurnInit == InterceptorInit => TurnInv
<1> SUFFICES ASSUME InterceptorInit PROVE TurnInv
  OBVIOUS
<1>1. /\ \A side \in Sides : registered[side] = <<>>
      /\ <<>> \in Seq(HandlerRecords) /\ <<>> \in Seq(Nat) /\ Numbered(<<>>) = {}
      /\ Rising(<<>>) /\ Ordered(<<>>)
  BY DEF InterceptorInit, Numbered, ToSet, Rising, Ordered
<1>2. KeptInOrder
  BY <1>1 DEF InterceptorInit, KeptInOrder, Passes, PassKinds, Stages
<1>3. QED
  BY <1>1, <1>2 DEF InterceptorInit, TurnInv

\* The managers: what is ahead changes with what is owed.
LEMMA TurnsManaged ==
    ASSUME TurnInv, NEW side \in Sides, NEW rest \in Seq(HandlerRecords), NEW gone,
           registered' = [registered EXCEPT ![side] = rest], UNCHANGED <<pass, turns>>,
           counter' \in Nat, counter <= counter', Rising(rest), \A n \in Numbered(rest) : n < counter',
           Numbered(registered[side]) \subseteq Numbered(rest) \cup gone, owed' = owed \ gone
    PROVE  TurnInv'
<1>1. KeptInOrder'
  <2>1. /\ registered' \in [Sides -> Seq(HandlerRecords)] /\ counter' \in Nat
        /\ pass' \in Passes /\ turns' \in Seq(Nat)
    BY DEF TurnInv, KeptInOrder
  <2>2. ASSUME NEW s \in Sides
        PROVE  Rising(registered'[s]) /\ \A n \in Numbered(registered'[s]) : n < counter'
    <3>1. CASE s = side
      BY <3>1 DEF TurnInv, KeptInOrder
    <3>2. CASE s # side
      <4>1. registered'[s] = registered[s] /\ Rising(registered[s]) /\ registered[s] \in Seq(HandlerRecords)
        BY <3>2 DEF TurnInv, KeptInOrder
      <4>2. \A n \in Numbered(registered[s]) : n \in Nat /\ n < counter
        <5>1. \A h \in ToSet(registered[s]) : h \in HandlerRecords
          BY <4>1 DEF ToSet
        <5>2. QED
          BY <5>1 DEF TurnInv, KeptInOrder, Numbered, HandlerRecords
      <4>3. \A n \in Nat : n < counter => n < counter'
        BY DEF TurnInv, KeptInOrder
      <4>4. QED
        BY <4>1, <4>2, <4>3
    <3>3. QED
      BY <3>1, <3>2
  <2>3. QED
    BY <2>1, <2>2 DEF KeptInOrder
<1>2. owed' \subseteq ToSet(turns') \cup Coming'
  <2> DEFINE mine == registered[SideOf(pass.kind)]
  <2>1. owed \subseteq ToSet(turns) \cup Coming /\ turns' = turns /\ pass' = pass
    BY DEF TurnInv
  <2>2. Numbered(mine) \subseteq Numbered(registered'[SideOf(pass.kind)]) \cup gone
    <3>1. CASE SideOf(pass.kind) = side
      BY <3>1 DEF TurnInv, KeptInOrder
    <3>2. CASE SideOf(pass.kind) # side
      BY <3>2 DEF TurnInv, KeptInOrder, SideOf, Sides
    <3>3. QED
      BY <3>1, <3>2
  <2>3. Coming \subseteq Coming' \cup gone \cup (IF Coming = owed THEN owed ELSE {})
    BY <2>1, <2>2 DEF Coming
  <2>4. CASE pass.stage \in {"looping", "promised", "chained", IF pass.kind = "error" THEN "failed" ELSE "ended"}
    <3>1. Coming \subseteq Coming' \cup gone
      BY <2>1, <2>2, <2>4 DEF Coming
    <3>2. QED
      BY <2>1, <3>1
  <2>5. CASE ~(pass.stage \in {"looping", "promised", "chained", IF pass.kind = "error" THEN "failed" ELSE "ended"})
    <3>1. Coming' = owed'
      BY <2>1, <2>5 DEF Coming
    <3>2. QED
      BY <3>1
  <2>6. QED
    BY <2>4, <2>5
<1>3. QED
  BY <1>1, <1>2 DEF TurnInv

LEMMA TurnUse ==
    ASSUME TurnInv, NEW side \in Sides, NEW synchronous \in BOOLEAN, NEW rejects \in BOOLEAN,
           Use(side, synchronous, rejects)
    PROVE  TurnInv'
<1> DEFINE h == [id |-> counter, synchronous |-> synchronous /\ side = "request", rejects |-> rejects]
           rest == Append(registered[side], h)
<1>1. /\ counter \in Nat /\ registered[side] \in Seq(HandlerRecords) /\ Rising(registered[side])
      /\ \A n \in Numbered(registered[side]) : n < h.id
  BY DEF TurnInv, KeptInOrder
<1>2. h \in HandlerRecords
  <2>1. (synchronous /\ side = "request") \in BOOLEAN
    OBVIOUS
  <2>2. QED
    BY <1>1, <2>1 DEF HandlerRecords
<1>3. /\ registered' = [registered EXCEPT ![side] = rest] /\ counter' = counter + 1
      /\ UNCHANGED <<pass, turns, owed>> /\ h.id = counter
  BY DEF Use
<1> HIDE DEF h
<1>4. rest \in Seq(HandlerRecords) /\ Rising(rest) /\ Numbered(rest) = Numbered(registered[side]) \cup {counter}
  BY <1>1, <1>2, <1>3, RisingWith
<1> HIDE DEF rest
<1>5. \A n \in Numbered(rest) : n < counter'
  <2>1. \A r \in ToSet(rest) : r \in HandlerRecords
    BY <1>4 DEF ToSet
  <2>2. \A n \in Numbered(rest) : n \in Nat
    BY <2>1 DEF Numbered, HandlerRecords
  <2>3. QED
    BY <1>1, <1>3, <1>4, <2>2
<1>6. counter' \in Nat /\ counter <= counter' /\ owed' = owed \ {}
  BY <1>1, <1>3
<1>7. Numbered(registered[side]) \subseteq Numbered(rest) \cup {}
  BY <1>4
<1>8. QED
  BY <1>3, <1>4, <1>5, <1>6, <1>7, TurnsManaged

LEMMA TurnEject ==
    ASSUME TurnInv, NEW id, Eject(id)
    PROVE  TurnInv'
<1>1. PICK side \in Sides : \E i \in DOMAIN registered[side] :
          /\ registered[side][i].id = id
          /\ registered' = [registered EXCEPT ![side] = RemoveAt(@, i)]
          /\ owed' = owed \ {id}
          /\ UNCHANGED <<counter, pass, turns>>
  BY DEF Eject
<1>2. PICK i \in DOMAIN registered[side] :
          /\ registered[side][i].id = id
          /\ registered' = [registered EXCEPT ![side] = RemoveAt(registered[side], i)]
          /\ owed' = owed \ {id}
          /\ UNCHANGED <<counter, pass, turns>>
  BY <1>1 DEF TurnInv, KeptInOrder
<1> DEFINE rest == RemoveAt(registered[side], i)
<1>3. /\ registered[side] \in Seq(HandlerRecords) /\ Rising(registered[side]) /\ counter \in Nat
      /\ \A n \in Numbered(registered[side]) : n < counter
  BY DEF TurnInv, KeptInOrder
<1>4. rest \in Seq(HandlerRecords) /\ Rising(rest) /\ Numbered(rest) = Numbered(registered[side]) \ {id}
  BY <1>2, <1>3, RisingWithout
<1>5. registered' = [registered EXCEPT ![side] = rest]
  BY <1>2
<1> HIDE DEF rest
<1>6. counter' \in Nat /\ counter <= counter' /\ \A n \in Numbered(rest) : n < counter'
  BY <1>2, <1>3, <1>4
<1>7. Numbered(registered[side]) \subseteq Numbered(rest) \cup {id}
  BY <1>4
<1>8. QED
  BY <1>2, <1>4, <1>5, <1>6, <1>7, TurnsManaged

LEMMA TurnClear ==
    ASSUME TurnInv, NEW side \in Sides, ClearHandlers(side)
    PROVE  TurnInv'
<1>1. /\ registered' = [registered EXCEPT ![side] = <<>>]
      /\ owed' = owed \ Numbered(registered[side])
      /\ UNCHANGED <<counter, pass, turns>>
  BY DEF ClearHandlers
<1>2. <<>> \in Seq(HandlerRecords) /\ Rising(<<>>) /\ Numbered(<<>>) = {}
  BY DEF Rising, Numbered, ToSet
<1>3. counter' \in Nat /\ counter <= counter'
  BY <1>1 DEF TurnInv, KeptInOrder
<1>4. /\ \A n \in Numbered(<<>>) : n < counter'
      /\ Numbered(registered[side]) \subseteq Numbered(<<>>) \cup Numbered(registered[side])
  BY <1>2
<1>5. QED
  BY <1>1, <1>2, <1>3, <1>4, TurnsManaged

\* A pass over the handlers ahead: the first of them has its turn.
LEMMA TurnFirst ==
    ASSUME TurnInv, pass.stage = "looping", Ahead # <<>>, Takes(Head(Ahead)), Unmoved
    PROVE  LET h == Head(Ahead)
           IN  /\ h \in HandlerRecords /\ Tail(Ahead) \in Seq(HandlerRecords) /\ Rising(Tail(Ahead))
               /\ turns' \in Seq(Nat) /\ Ordered(turns') /\ ToSet(turns') = ToSet(turns) \cup {h.id}
               /\ \A n \in ToSet(turns') : n < h.id + 1
               /\ \A n \in Numbered(Tail(Ahead)) : n > h.id
               /\ owed \subseteq ToSet(turns') \cup Numbered(Tail(Ahead))
               /\ Numbered(Tail(Ahead)) =
                      {n \in Numbered(registered[SideOf(pass.kind)]) : n >= h.id + 1}
<1> DEFINE h == Head(Ahead)
           mine == Numbered(registered[SideOf(pass.kind)])
<1>1. /\ registered \in [Sides -> Seq(HandlerRecords)] /\ pass.kind \in PassKinds
      /\ pass.from \in Nat /\ turns \in Seq(Nat) /\ Ordered(turns)
      /\ \A n \in ToSet(turns) : n < pass.from
  BY DEF TurnInv, KeptInOrder, Passes
<1>2. SideOf(pass.kind) \in Sides
  BY <1>1 DEF SideOf, Sides, PassKinds
<1>3. Ahead \in Seq(HandlerRecords) /\ Rising(Ahead) /\ Numbered(Ahead) = {n \in mine : n >= pass.from}
  BY <1>1, <1>2, AheadIs DEF TurnInv, KeptInOrder
<1>4. /\ h \in HandlerRecords /\ Tail(Ahead) \in Seq(HandlerRecords) /\ Rising(Tail(Ahead))
      /\ h.id \in Numbered(Ahead)
      /\ Numbered(Tail(Ahead)) = {n \in Numbered(Ahead) : n > h.id}
  BY <1>3, RisingTail
<1>5. \A n \in mine : n \in Nat
  <2>1. \A r \in ToSet(registered[SideOf(pass.kind)]) : r \in HandlerRecords
    BY <1>1, <1>2 DEF ToSet
  <2>2. QED
    BY <2>1 DEF Numbered, HandlerRecords
<1>6. \A n \in ToSet(turns) : n \in Nat
  BY <1>1 DEF ToSet
<1>7. h.id \in Nat /\ h.id >= pass.from /\ h.id \in mine
  BY <1>3, <1>4, <1>5
<1>8. turns' = Append(turns, h.id)
  BY DEF Takes
<1> HIDE DEF h, mine
<1>9. \A n \in ToSet(turns) : n < h.id
  BY <1>1, <1>6, <1>7
<1>10. turns' \in Seq(Nat) /\ Ordered(turns') /\ ToSet(turns') = ToSet(turns) \cup {h.id}
  BY <1>1, <1>7, <1>8, <1>9, TurnGiven
<1>11. \A n \in ToSet(turns') : n < h.id + 1
  BY <1>6, <1>7, <1>9, <1>10
<1>12. \A n \in mine : n >= pass.from => n = h.id \/ n > h.id
  <2> SUFFICES ASSUME NEW n \in mine, n >= pass.from PROVE n = h.id \/ n > h.id
    OBVIOUS
  <2>1. PICK i \in DOMAIN Ahead : n = Ahead[i].id
    BY <1>3 DEF Numbered, ToSet
  <2>2. h = Ahead[1] /\ 1 \in DOMAIN Ahead /\ DOMAIN Ahead = 1..Len(Ahead) /\ Len(Ahead) \in Nat
    BY <1>3 DEF h
  <2>3. CASE i = 1
    BY <2>1, <2>2, <2>3
  <2>4. CASE 1 < i
    BY <1>3, <1>5, <1>7, <2>1, <2>2, <2>4 DEF Rising
  <2>5. QED
    BY <2>2, <2>3, <2>4
<1>13. Numbered(Tail(Ahead)) = {n \in mine : n >= h.id + 1}
  <2>1. \A n \in mine : n > h.id <=> n >= h.id + 1
    BY <1>5, <1>7
  <2>2. \A n \in mine : n > h.id => n >= pass.from
    BY <1>1, <1>5, <1>7
  <2>3. QED
    BY <1>3, <1>4, <2>1, <2>2
<1>14. owed \subseteq ToSet(turns') \cup Numbered(Tail(Ahead))
  <2>1. owed \subseteq ToSet(turns) \cup {n \in mine : n >= pass.from}
    BY DEF TurnInv, Coming, mine
  <2>2. {n \in mine : n >= pass.from} \subseteq {h.id} \cup Numbered(Tail(Ahead))
    BY <1>3, <1>4, <1>12
  <2>3. QED
    BY <1>10, <2>1, <2>2
<1>15. \A n \in Numbered(Tail(Ahead)) : n > h.id
  BY <1>4
<1>16. QED
  BY <1>4, <1>10, <1>11, <1>13, <1>14, <1>15 DEF h, mine

\* What is kept when only the pass and the turns change.
LEMMA OrderKept ==
    ASSUME KeptInOrder, Unmoved, pass' \in Passes, turns' \in Seq(Nat)
    PROVE  KeptInOrder'
<1>1. registered' = registered /\ counter' = counter
  BY DEF Unmoved
<1>2. QED
  BY <1>1 DEF KeptInOrder

\* The pass ends early, as no pass that comes through would.
LEMMA TurnCutOff ==
    ASSUME TurnInv, Unmoved, turns' \in Seq(Nat), Ordered(turns'), NEW stage \in {"ended", "failed"},
           Ended(stage), stage # (IF pass.kind = "error" THEN "failed" ELSE "ended")
    PROVE  TurnInv'
<1>1. /\ pass' = [pass EXCEPT !.stage = stage, !.chain = <<>>] /\ pass \in Passes /\ KeptInOrder
      /\ owed' = owed
  BY DEF Ended, TurnInv, KeptInOrder, Unmoved
<1>2. pass' \in Passes /\ pass'.stage = stage /\ pass'.kind = pass.kind
  <2>1. <<>> \in Seq(HandlerRecords) /\ stage \in Stages
    BY DEF Stages
  <2>2. QED
    BY <1>1, <2>1 DEF Passes
<1>3. Coming' = owed'
  BY <1>2 DEF Coming
<1>4. QED
  BY <1>1, <1>2, <1>3, OrderKept DEF TurnInv

\* It goes on with the handlers behind the one that had its turn.
LEMMA TurnGoesOn ==
    ASSUME TurnInv, pass.stage = "looping", Ahead # <<>>, Takes(Head(Ahead)), Unmoved,
           pass' = Past(Head(Ahead))
    PROVE  TurnInv'
<1> DEFINE h == Head(Ahead)
<1>1. /\ h \in HandlerRecords
      /\ turns' \in Seq(Nat) /\ Ordered(turns')
      /\ \A n \in ToSet(turns') : n < h.id + 1
      /\ owed \subseteq ToSet(turns') \cup Numbered(Tail(Ahead))
      /\ Numbered(Tail(Ahead)) = {n \in Numbered(registered[SideOf(pass.kind)]) : n >= h.id + 1}
  BY TurnFirst
<1>2. /\ pass' = [pass EXCEPT !.from = h.id + 1] /\ pass \in Passes /\ KeptInOrder
      /\ owed' = owed /\ registered' = registered
  BY DEF Past, TurnInv, KeptInOrder, Unmoved
<1> HIDE DEF h
<1>3. /\ pass' \in Passes /\ pass'.stage = "looping" /\ pass'.kind = pass.kind
      /\ pass'.from = h.id + 1
  <2>1. h.id + 1 \in Nat
    BY <1>1 DEF HandlerRecords
  <2>2. QED
    BY <1>2, <2>1 DEF Passes
<1>4. Coming' = Numbered(Tail(Ahead))
  BY <1>1, <1>2, <1>3 DEF Coming
<1>5. KeptInOrder'
  BY <1>1, <1>2, <1>3, OrderKept
<1>6. QED
  BY <1>1, <1>2, <1>3, <1>4, <1>5 DEF TurnInv

LEMMA TurnBegins ==
    ASSUME TurnInv, NEW kind \in PassKinds, BeginPass(kind)
    PROVE  TurnInv'
<1>1. /\ pass' = [kind |-> kind, stage |-> "looping", from |-> 0, chain |-> <<>>]
      /\ turns' = <<>> /\ owed' = Numbered(registered[SideOf(kind)])
      /\ registered' = registered /\ counter' = counter
  BY DEF BeginPass
<1>2. /\ <<>> \in Seq(HandlerRecords) /\ <<>> \in Seq(Nat) /\ Ordered(<<>>) /\ ToSet(<<>>) = {}
      /\ "looping" \in Stages /\ 0 \in Nat
  BY DEF Ordered, ToSet, Stages
<1>3. pass' \in Passes
  BY <1>1, <1>2 DEF Passes
<1>4. KeptInOrder'
  BY <1>1, <1>2, <1>3 DEF TurnInv, KeptInOrder
<1>5. \A n \in Numbered(registered[SideOf(kind)]) : n \in Nat
  <2>1. \A r \in ToSet(registered[SideOf(kind)]) : r \in HandlerRecords
    BY DEF TurnInv, KeptInOrder, SideOf, Sides, ToSet
  <2>2. QED
    BY <2>1 DEF Numbered, HandlerRecords
<1>6. Coming' = owed'
  <2>1. Coming' = {n \in Numbered(registered[SideOf(kind)]) : n >= 0}
    BY <1>1 DEF Coming
  <2>2. QED
    BY <1>1, <1>5, <2>1
<1>7. QED
  BY <1>1, <1>2, <1>4, <1>6 DEF TurnInv

\* The loops: skipped or called, and what comes of it.
LEMMA TurnLoops ==
    ASSUME TurnInv, Synchronous \/ Response \/ Error
    PROVE  TurnInv'
<1>1. pass.stage = "looping" /\ Ahead # <<>> /\ Takes(Head(Ahead)) /\ Unmoved
  BY DEF Synchronous, Response, Error
<1>2. \/ pass' = Past(Head(Ahead))
      \/ Ended("failed") /\ pass.kind # "error"
      \/ Ended("ended") /\ pass.kind = "error"
  BY DEF Synchronous, Response, Error, Settled
<1>3. turns' \in Seq(Nat) /\ Ordered(turns')
  BY <1>1, TurnFirst
<1>4. CASE pass' = Past(Head(Ahead))
  BY <1>1, <1>4, TurnGoesOn
<1>5. CASE Ended("failed") /\ pass.kind # "error"
  BY <1>1, <1>3, <1>5, TurnCutOff
<1>6. CASE Ended("ended") /\ pass.kind = "error"
  BY <1>1, <1>3, <1>6, TurnCutOff
<1>7. QED
  BY <1>2, <1>4, <1>5, <1>6

LEMMA TurnPromised ==
    ASSUME TurnInv, ReturnsPromise
    PROVE  TurnInv'
<1> DEFINE h == Head(Ahead)
<1>1. /\ pass.kind = "request" /\ pass.stage = "looping" /\ Ahead # <<>> /\ Takes(Head(Ahead)) /\ Unmoved
      /\ pass' = [pass EXCEPT !.stage = "promised", !.chain = Tail(Ahead)]
  BY DEF ReturnsPromise, Captured
<1>2. /\ h \in HandlerRecords /\ Tail(Ahead) \in Seq(HandlerRecords) /\ Rising(Tail(Ahead))
      /\ turns' \in Seq(Nat) /\ Ordered(turns')
      /\ \A n \in ToSet(turns') : n < h.id + 1
      /\ \A n \in Numbered(Tail(Ahead)) : n > h.id
      /\ owed \subseteq ToSet(turns') \cup Numbered(Tail(Ahead))
  BY <1>1, TurnFirst
<1>3. pass \in Passes /\ KeptInOrder /\ owed' = owed
  BY <1>1 DEF TurnInv, KeptInOrder, Unmoved
<1> HIDE DEF h
<1>4. /\ pass' \in Passes /\ pass'.stage = "promised" /\ pass'.kind = "request"
      /\ pass'.chain = Tail(Ahead)
  BY <1>1, <1>2, <1>3 DEF Passes, Stages
<1>5. KeptInOrder'
  BY <1>1, <1>2, <1>3, <1>4, OrderKept
<1>6. \A n \in ToSet(turns'), m \in Numbered(Tail(Ahead)) : n < m
  <2> SUFFICES ASSUME NEW n \in ToSet(turns'), NEW m \in Numbered(Tail(Ahead)) PROVE n < m
    OBVIOUS
  <2>1. n \in Nat /\ h.id \in Nat
    BY <1>2 DEF ToSet, HandlerRecords
  <2>2. m \in Nat
    <3>1. \A r \in ToSet(Tail(Ahead)) : r \in HandlerRecords
      BY <1>2 DEF ToSet
    <3>2. QED
      BY <3>1 DEF Numbered, HandlerRecords
  <2>3. n < h.id + 1 /\ m > h.id
    BY <1>2
  <2>4. QED
    BY <2>1, <2>2, <2>3
<1>7. Coming' = Numbered(Tail(Ahead))
  BY <1>4 DEF Coming
<1>8. QED
  BY <1>2, <1>3, <1>4, <1>5, <1>6, <1>7 DEF TurnInv

\* The first asynchronous handler: those ahead become the chain.
LEMMA TurnCaptured ==
    ASSUME TurnInv, Capture
    PROVE  TurnInv'
<1>1. /\ pass.kind = "request" /\ pass.stage = "looping" /\ Unmoved /\ turns' = turns
      /\ pass' = [pass EXCEPT !.stage = "chained", !.chain = Ahead]
  BY DEF Capture, Captured
<1>2. pass \in Passes /\ KeptInOrder /\ owed' = owed /\ turns \in Seq(Nat)
  BY <1>1 DEF TurnInv, KeptInOrder, Unmoved
<1>3. /\ Ahead \in Seq(HandlerRecords) /\ Rising(Ahead)
      /\ Numbered(Ahead) = {n \in Numbered(registered[SideOf(pass.kind)]) : n >= pass.from}
  <2>1. SideOf(pass.kind) \in Sides
    BY <1>1 DEF SideOf, Sides
  <2>2. QED
    BY <1>2, <2>1, AheadIs DEF TurnInv, KeptInOrder, Passes
<1>4. /\ pass' \in Passes /\ pass'.stage = "chained" /\ pass'.kind = "request" /\ pass'.chain = Ahead
  BY <1>1, <1>2, <1>3 DEF Passes, Stages
<1>5. KeptInOrder'
  BY <1>1, <1>2, <1>4, OrderKept
<1>6. \A n \in ToSet(turns), m \in Numbered(Ahead) : n < m
  <2> SUFFICES ASSUME NEW n \in ToSet(turns), NEW m \in Numbered(Ahead) PROVE n < m
    OBVIOUS
  <2>1. n \in Nat /\ pass.from \in Nat /\ n < pass.from
    BY <1>1, <1>2 DEF ToSet, Passes, TurnInv
  <2>2. m \in Nat
    <3>1. \A r \in ToSet(Ahead) : r \in HandlerRecords
      BY <1>3 DEF ToSet
    <3>2. QED
      BY <3>1 DEF Numbered, HandlerRecords
  <2>3. m >= pass.from
    BY <1>3
  <2>4. QED
    BY <2>1, <2>2, <2>3
<1>7. Coming' = Numbered(Ahead) /\ Coming = Numbered(Ahead)
  BY <1>1, <1>3, <1>4 DEF Coming
<1>8. QED
  BY <1>1, <1>2, <1>3, <1>4, <1>5, <1>6, <1>7 DEF TurnInv

LEMMA TurnSettles ==
    ASSUME TurnInv, PromiseSettles
    PROVE  TurnInv'
<1>1. pass.stage = "promised" /\ Unmoved /\ turns' = turns /\ pass.kind = "request"
      /\ (Ended("failed") \/ pass' = [pass EXCEPT !.stage = "chained"])
  BY DEF PromiseSettles, TurnInv
<1>2. pass \in Passes /\ KeptInOrder /\ owed' = owed /\ turns \in Seq(Nat) /\ Ordered(turns)
  BY <1>1 DEF TurnInv, KeptInOrder, Unmoved
<1>3. CASE Ended("failed")
  BY <1>1, <1>2, <1>3, TurnCutOff
<1>4. CASE pass' = [pass EXCEPT !.stage = "chained"]
  <2>1. pass' \in Passes /\ pass'.stage = "chained" /\ pass'.kind = "request" /\ pass'.chain = pass.chain
    BY <1>1, <1>2, <1>4 DEF Passes, Stages
  <2>2. KeptInOrder' /\ Coming' = Coming
    BY <1>1, <1>2, <2>1, OrderKept DEF Coming
  <2>3. QED
    BY <1>1, <1>2, <2>1, <2>2 DEF TurnInv
<1>5. QED
  BY <1>1, <1>3, <1>4

LEMMA TurnChained ==
    ASSUME TurnInv, Chained
    PROVE  TurnInv'
<1> DEFINE s == pass.chain
           h == Head(pass.chain)
<1>1. /\ pass.stage = "chained" /\ s # <<>> /\ turns' = Append(turns, h.id) /\ Unmoved
      /\ pass.kind = "request"
      /\ (Ended("failed") \/ pass' = [pass EXCEPT !.chain = Tail(s)])
  <2>1. pass.chain # <<>> /\ Takes(Head(pass.chain)) /\ Settled([pass EXCEPT !.chain = Tail(@)])
    BY DEF Chained
  <2>2. [pass EXCEPT !.chain = Tail(@)] = [pass EXCEPT !.chain = Tail(pass.chain)]
    BY DEF TurnInv, KeptInOrder, Passes
  <2>3. QED
    BY <2>1, <2>2 DEF Chained, Takes, Settled, TurnInv
<1>2. /\ pass \in Passes /\ KeptInOrder /\ owed' = owed /\ turns \in Seq(Nat) /\ Ordered(turns)
      /\ s \in Seq(HandlerRecords) /\ Rising(s)
      /\ \A n \in ToSet(turns), m \in Numbered(s) : n < m
  BY <1>1 DEF TurnInv, KeptInOrder, Unmoved, Passes
<1>3. /\ h \in HandlerRecords /\ Tail(s) \in Seq(HandlerRecords) /\ Rising(Tail(s))
      /\ h.id \in Numbered(s) /\ Numbered(Tail(s)) = {n \in Numbered(s) : n > h.id}
  BY <1>1, <1>2, RisingTail
<1> HIDE DEF h
<1>4. h.id \in Nat
  BY <1>3 DEF HandlerRecords
<1>5. turns' \in Seq(Nat) /\ Ordered(turns') /\ ToSet(turns') = ToSet(turns) \cup {h.id}
  BY <1>1, <1>2, <1>3, <1>4, TurnGiven
<1>6. CASE Ended("failed")
  BY <1>1, <1>5, <1>6, TurnCutOff
<1>7. CASE pass' = [pass EXCEPT !.chain = Tail(s)]
  <2>1. pass' \in Passes /\ pass'.stage = "chained" /\ pass'.kind = "request" /\ pass'.chain = Tail(s)
    BY <1>1, <1>2, <1>3, <1>7 DEF Passes
  <2>2. KeptInOrder'
    BY <1>1, <1>2, <1>5, <2>1, OrderKept
  <2>3. Coming = Numbered(s) /\ Coming' = Numbered(Tail(s))
    BY <1>1, <2>1 DEF Coming
  <2>4. \A n \in ToSet(turns'), m \in Numbered(Tail(s)) : n < m
    BY <1>2, <1>3, <1>5
  <2>5. owed' \subseteq ToSet(turns') \cup Coming'
    <3>1. \A n \in Numbered(s) : n = h.id \/ n > h.id
      <4> SUFFICES ASSUME NEW n \in Numbered(s) PROVE n = h.id \/ n > h.id
        OBVIOUS
      <4> HIDE DEF s
      <4>1. PICK i \in DOMAIN s : n = s[i].id
        BY DEF Numbered, ToSet
      <4>2. h = s[1] /\ 1 \in DOMAIN s /\ DOMAIN s = 1..Len(s) /\ Len(s) \in Nat
        BY <1>1, <1>2 DEF h, s
      <4>3. s[i].id \in Nat
        <5>1. s[i] \in HandlerRecords
          BY <1>2, <4>1
        <5>2. QED
          BY <5>1 DEF HandlerRecords
      <4>4. i = 1 \/ 1 < i
        BY <4>2
      <4>5. 1 < i => s[1].id < s[i].id
        BY <1>2, <4>2 DEF Rising
      <4>6. QED
        BY <1>4, <4>1, <4>2, <4>3, <4>4, <4>5
    <3>2. owed \subseteq ToSet(turns) \cup Numbered(s)
      BY <2>3 DEF TurnInv
    <3>3. QED
      BY <1>2, <1>3, <1>5, <2>3, <3>1, <3>2
  <2>6. QED
    BY <1>5, <2>1, <2>2, <2>4, <2>5, <1>3 DEF TurnInv
<1>8. QED
  BY <1>1, <1>6, <1>7

LEMMA TurnEnds ==
    ASSUME TurnInv, EndPass
    PROVE  TurnInv'
<1> DEFINE final == IF pass.kind = "error" THEN "failed" ELSE "ended"
<1>1. /\ pass' = [pass EXCEPT !.stage = final, !.chain = <<>>] /\ turns' = turns /\ Unmoved
      /\ pass \in Passes /\ KeptInOrder /\ owed' = owed /\ turns \in Seq(Nat)
  BY DEF EndPass, Ended, TurnInv, KeptInOrder, Unmoved
<1>2. Coming = {}
  <2>1. CASE pass.stage = "looping" /\ Ahead = <<>>
    <3>1. SideOf(pass.kind) \in Sides
      BY <1>1 DEF Passes, PassKinds, SideOf, Sides
    <3>2. Numbered(Ahead) = {n \in Numbered(registered[SideOf(pass.kind)]) : n >= pass.from}
      BY <1>1, <3>1, AheadIs DEF TurnInv, KeptInOrder, Passes
    <3>3. Numbered(Ahead) = {}
      BY <2>1 DEF Numbered, ToSet
    <3>4. QED
      BY <2>1, <3>2, <3>3 DEF Coming
  <2>2. CASE pass.stage = "chained" /\ pass.chain = <<>>
    <3>1. Numbered(pass.chain) = {}
      BY <2>2 DEF Numbered, ToSet
    <3>2. QED
      BY <2>2, <3>1 DEF Coming
  <2>3. QED
    BY <2>1, <2>2 DEF EndPass
<1>3. pass' \in Passes /\ pass'.stage = final /\ pass'.kind = pass.kind
  <2>1. <<>> \in Seq(HandlerRecords) /\ final \in Stages
    BY DEF Stages
  <2>2. QED
    BY <1>1, <2>1 DEF Passes
<1>4. Coming' = {}
  BY <1>3 DEF Coming
<1>5. KeptInOrder'
  BY <1>1, <1>3, OrderKept
<1>6. QED
  BY <1>1, <1>2, <1>3, <1>4, <1>5 DEF TurnInv

\* For any number of handlers, however they are added, ejected and cleared during a pass:
\* they have their turn in the order they were added, each at most once, and nobody who
\* was there all along is passed over.
THEOREM TurnsInOrder == InterceptorSpec => []HandlersInTurn
<1>1. InterceptorInit => TurnInv
  BY TurnInit
<1>2. TurnInv /\ [InterceptorNext]_interceptorVars => TurnInv'
  <2> SUFFICES ASSUME TurnInv, [InterceptorNext]_interceptorVars PROVE TurnInv'
    OBVIOUS
  <2>1. CASE \E side \in Sides, synchronous, rejects \in BOOLEAN : Use(side, synchronous, rejects)
    BY <2>1, TurnUse
  <2>2. CASE \E id \in 0..MaxUses - 1 : Eject(id)
    BY <2>2, TurnEject
  <2>3. CASE \E side \in Sides : ClearHandlers(side)
    BY <2>3, TurnClear
  <2>4. CASE \E kind \in PassKinds : BeginPass(kind)
    BY <2>4, TurnBegins
  <2>5. CASE Synchronous \/ Response \/ Error
    BY <2>5, TurnLoops
  <2>6. CASE ReturnsPromise
    BY <2>6, TurnPromised
  <2>7. CASE PromiseSettles
    BY <2>7, TurnSettles
  <2>8. CASE Capture
    BY <2>8, TurnCaptured
  <2>9. CASE Chained
    BY <2>9, TurnChained
  <2>10. CASE EndPass
    BY <2>10, TurnEnds
  <2>11. CASE UNCHANGED interceptorVars
    BY <2>11 DEF interceptorVars, TurnInv, KeptInOrder, Coming
  <2>12. QED
    BY <2>1, <2>2, <2>3, <2>4, <2>5, <2>6, <2>7, <2>8, <2>9, <2>10, <2>11 DEF InterceptorNext
<1>3. TurnInv => HandlersInTurn
  <2> SUFFICES ASSUME TurnInv PROVE HandlersInTurn
    OBVIOUS
  <2>1. turns \in Seq(Nat) /\ Ordered(turns)
    BY DEF TurnInv, KeptInOrder
  <2>2. ASSUME NEW i \in 1..Len(turns) - 1 PROVE turns[i] < turns[i + 1]
    <3>1. i \in DOMAIN turns /\ i + 1 \in DOMAIN turns /\ i < i + 1
      BY <2>1
    <3>2. QED
      BY <2>1, <3>1 DEF Ordered
  <2>3. pass.stage = (IF pass.kind = "error" THEN "failed" ELSE "ended") => owed \subseteq ToSet(turns)
    BY DEF TurnInv, Coming
  <2>4. QED
    BY <2>2, <2>3 DEF HandlersInTurn
<1>4. QED
  BY <1>1, <1>2, <1>3, PTL DEF InterceptorSpec

-----------------------------------------------------------------------------
\* Pagination: what stands where among numbers in their order.
Reached(S, n) == {j \in S : j <= n}

LEMMA ReachedCounted ==
    ASSUME NEW S, S \subseteq Nat, IsFiniteSet(S), NEW n \in Nat
    PROVE  /\ IsFiniteSet(Reached(S, n)) /\ Cardinality(Reached(S, n)) \in Nat
           /\ Cardinality(S) \in Nat /\ Cardinality(Reached(S, n)) <= Cardinality(S)
<1>1. Reached(S, n) \subseteq S
  BY DEF Reached
<1>2. IsFiniteSet(Reached(S, n)) /\ Cardinality(Reached(S, n)) <= Cardinality(S)
  BY <1>1, FS_Subset
<1> QED BY <1>2, FS_CardinalityType

\* A finite set of numbers is bounded: one without a bound would have a smallest size.
LEMMA Bounded ==
    ASSUME NEW S, S \subseteq Nat, IsFiniteSet(S)
    PROVE  \E top \in Nat : \A i \in S : i <= top
<1> DEFINE Bound(T) == \E top \in Nat : \A i \in T : i <= top
           Sizes == {c \in Nat : \E T \in SUBSET Nat : IsFiniteSet(T) /\ Cardinality(T) = c /\ ~Bound(T)}
<1> SUFFICES ASSUME ~Bound(S) PROVE FALSE
  OBVIOUS
<1>1. Cardinality(S) \in Sizes
  BY FS_CardinalityType
<1>2. PICK c \in Sizes : \A d \in Sizes : c <= d
  <2>1. Sizes \subseteq Nat /\ Sizes # {}
    BY <1>1
  <2> HIDE DEF Sizes
  <2> QED BY <2>1, Least
<1>3. PICK T \in SUBSET Nat : IsFiniteSet(T) /\ Cardinality(T) = c /\ ~Bound(T)
  BY <1>2
<1>4. PICK x \in T : TRUE
  <2>1. 0 \in Nat
    OBVIOUS
  <2> QED BY <1>3, <2>1
<1>5. x \in Nat /\ T \ {x} \in SUBSET Nat /\ IsFiniteSet(T \ {x}) /\ Cardinality(T \ {x}) = c - 1
  BY <1>3, <1>4, FS_RemoveElement
<1>6. c - 1 \in Nat /\ ~(c <= c - 1)
  <2>1. Cardinality(T \ {x}) \in Nat /\ c \in Nat
    BY <1>2, <1>5, FS_CardinalityType
  <2> QED BY <1>5, <2>1
<1>7. Bound(T \ {x})
  BY <1>2, <1>5, <1>6
<1>8. PICK top \in Nat : \A i \in T \ {x} : i <= top
  BY <1>7
<1>9. Larger(top, x) \in Nat /\ top <= Larger(top, x) /\ x <= Larger(top, x)
  BY <1>5, <1>8 DEF Larger
<1>10. \A i \in T : i \in Nat /\ i <= Larger(top, x)
  <2> SUFFICES ASSUME NEW i \in T PROVE i \in Nat /\ i <= Larger(top, x)
    OBVIOUS
  <2>1. i \in Nat
    BY <1>3
  <2>2. i = x \/ i <= top
    BY <1>8
  <2> QED BY <1>9, <2>1, <2>2
<1> QED BY <1>3, <1>9, <1>10

\* A number of the set has more of them up to it than what is less.
LEMMA ReachedGrows ==
    ASSUME NEW S, S \subseteq Nat, IsFiniteSet(S), NEW i \in Nat, NEW j \in S, i < j
    PROVE  Cardinality(Reached(S, i)) < Cardinality(Reached(S, j))
<1>1. j \in Nat
  OBVIOUS
<1>2. /\ IsFiniteSet(Reached(S, j)) /\ Cardinality(Reached(S, i)) \in Nat /\ Cardinality(Reached(S, j)) \in Nat
  BY <1>1, ReachedCounted
<1>3. j \in Reached(S, j) /\ Reached(S, i) \subseteq Reached(S, j) \ {j}
  <2>1. \A x \in S : x <= i => x <= j /\ x # j
    BY <1>1
  <2>2. j <= j
    BY <1>1
  <2> QED BY <2>1, <2>2 DEF Reached
<1>4. /\ IsFiniteSet(Reached(S, j) \ {j})
      /\ Cardinality(Reached(S, j) \ {j}) = Cardinality(Reached(S, j)) - 1
  BY <1>2, <1>3, FS_RemoveElement
<1>5. Cardinality(Reached(S, i)) <= Cardinality(Reached(S, j) \ {j})
  BY <1>3, <1>4, FS_Subset
<1> QED BY <1>2, <1>4, <1>5

\* Something stands at each place: the least number with as many up to it.
LEMMA ArrangedAt ==
    ASSUME NEW S, S \subseteq Nat, IsFiniteSet(S), NEW k \in 1..Cardinality(S)
    PROVE  Arranged(S)[k] \in S /\ Cardinality(Reached(S, Arranged(S)[k])) = k
<1> DEFINE More == {n \in Nat : Cardinality(Reached(S, n)) >= k}
<1>1. Cardinality(S) \in Nat /\ k \in Nat /\ k >= 1 /\ k <= Cardinality(S)
  BY FS_CardinalityType
<1>2. PICK top \in Nat : \A i \in S : i <= top
  BY Bounded
<1>3. top \in More
  <2>1. Reached(S, top) = S
    BY <1>2 DEF Reached
  <2> QED BY <1>1, <2>1
<1>4. PICK n \in More : \A m \in More : n <= m
  <2>1. More \subseteq Nat /\ More # {}
    BY <1>3
  <2> HIDE DEF More
  <2> QED BY <2>1, Least
<1>5. n \in Nat /\ Cardinality(Reached(S, n)) >= k /\ Cardinality(Reached(S, n)) \in Nat
  BY <1>4, ReachedCounted
<1>6. \A x \in Reached(S, n) : Cardinality(Reached(S, n) \ {x}) < k
  <2>1. CASE n = 0
    <3>1. Reached(S, n) \subseteq {0}
      <4>1. \A x \in S : x <= 0 => x = 0
        OBVIOUS
      <4> QED BY <2>1, <4>1 DEF Reached
    <3>2. \A x \in Reached(S, n) : Reached(S, n) \ {x} = {}
      BY <3>1
    <3> QED BY <1>1, <3>2, FS_EmptySet
  <2>2. CASE n # 0
    <3>1. n - 1 \in Nat /\ ~(n <= n - 1)
      BY <1>5, <2>2
    <3>2. ~(Cardinality(Reached(S, n - 1)) >= k) /\ Cardinality(Reached(S, n - 1)) \in Nat
      BY <1>4, <3>1, ReachedCounted
    <3> SUFFICES ASSUME NEW x \in Reached(S, n) PROVE Cardinality(Reached(S, n) \ {x}) < k
      OBVIOUS
    <3>3. CASE x = n
      <4>1. Reached(S, n) \ {x} = Reached(S, n - 1)
        <5>1. \A y \in S : y <= n /\ y # n <=> y <= n - 1
          BY <1>5
        <5> QED BY <3>3, <5>1 DEF Reached
      <4>2. PICK c : c = Cardinality(Reached(S, n - 1))
        OBVIOUS
      <4>3. c \in Nat /\ ~(c >= k) /\ Cardinality(Reached(S, n) \ {x}) = c
        BY <3>2, <4>1, <4>2
      <4> QED BY <1>1, <4>3
    <3>4. CASE x # n
      <4>1. x \in Reached(S, n - 1)
        <5>1. \A y \in S : y <= n /\ y # n => y <= n - 1
          BY <1>5
        <5> QED BY <3>4, <5>1 DEF Reached
      <4>2. CASE n \in S
        <5>1. Reached(S, n) = Reached(S, n - 1) \cup {n} /\ n \notin Reached(S, n - 1)
          <6>1. \A y \in S : (y <= n <=> y <= n - 1 \/ y = n) /\ ~(n <= n - 1)
            BY <1>5
          <6> QED BY <4>2, <6>1 DEF Reached
        <5>2. Cardinality(Reached(S, n)) = Cardinality(Reached(S, n - 1)) + 1
          BY <3>1, <5>1, ReachedCounted, FS_AddElement
        <5>3. Cardinality(Reached(S, n) \ {x}) = Cardinality(Reached(S, n)) - 1
          BY <1>5, ReachedCounted, FS_RemoveElement
        <5> QED BY <1>1, <3>2, <5>2, <5>3
      <4>3. CASE n \notin S
        <5>1. Reached(S, n) = Reached(S, n - 1)
          <6>1. \A y \in S : y <= n <=> y <= n - 1 \/ y = n
            BY <1>5
          <6> QED BY <4>3, <6>1 DEF Reached
        <5> QED BY <1>1, <1>5, <3>2, <5>1
      <4> QED BY <4>2, <4>3
    <3> QED BY <3>3, <3>4
  <2> QED BY <2>1, <2>2
<1>7. n \in S /\ Cardinality(Reached(S, n)) = k
  <2>1. PICK x : x \in Reached(S, n)
    <3>1. Reached(S, n) # {}
      BY <1>1, <1>5, FS_EmptySet
    <3> QED BY <3>1
  <2>2. Cardinality(Reached(S, n) \ {x}) = Cardinality(Reached(S, n)) - 1
    BY <1>5, <2>1, ReachedCounted, FS_RemoveElement
  <2>3. Cardinality(Reached(S, n)) = k
    BY <1>1, <1>5, <1>6, <2>1, <2>2
  <2>4. CASE n \notin S
    <3>1. n # 0
      <4>1. \A y \in S : y <= 0 => y = 0
        OBVIOUS
      <4> QED BY <2>1, <2>4, <4>1 DEF Reached
    <3>2. n - 1 \in Nat /\ ~(n <= n - 1) /\ Reached(S, n) = Reached(S, n - 1)
      <4>1. n - 1 \in Nat /\ ~(n <= n - 1) /\ \A y \in S : y <= n <=> y <= n - 1 \/ y = n
        BY <1>5, <3>1
      <4> QED BY <2>4, <4>1 DEF Reached
    <3>3. n - 1 \in More
      BY <1>5, <3>2
    <3> QED BY <1>4, <3>2, <3>3
  <2> QED BY <2>3, <2>4
<1>8. Arranged(S)[k] = CHOOSE i \in S : Cardinality(Reached(S, i)) = k
  BY DEF Arranged, Reached
<1> QED BY <1>7, <1>8

LEMMA ArrangedTypes ==
    ASSUME NEW S, S \subseteq Nat, IsFiniteSet(S)
    PROVE  /\ Arranged(S) \in Seq(Nat) /\ Cardinality(S) \in Nat /\ Len(Arranged(S)) = Cardinality(S)
           /\ DOMAIN Arranged(S) = 1..Cardinality(S)
<1>1. Cardinality(S) \in Nat
  BY FS_CardinalityType
<1>2. \A k \in 1..Cardinality(S) : Arranged(S)[k] \in Nat
  BY ArrangedAt
<1>3. DOMAIN Arranged(S) = 1..Cardinality(S)
  BY DEF Arranged
<1>4. PICK c \in Nat : c = Cardinality(S)
  BY <1>1
<1>5. Arranged(S) \in [1..c -> Nat]
  <2> DEFINE itemAt(k) == CHOOSE i \in S : Cardinality({j \in S : j <= i}) = k
  <2>1. Arranged(S) = [k \in 1..Cardinality(S) |-> itemAt(k)]
    BY DEF Arranged
  <2> HIDE DEF itemAt
  <2>2. \A k \in 1..c : itemAt(k) \in Nat
    <3> SUFFICES ASSUME NEW k \in 1..c PROVE itemAt(k) \in Nat
      OBVIOUS
    <3>1. Arranged(S)[k] = itemAt(k)
      BY <1>4, <2>1
    <3> QED BY <1>2, <1>4, <3>1
  <2> QED BY <1>4, <2>1, <2>2
<1>6. Arranged(S) \in Seq(Nat) /\ Len(Arranged(S)) = c
  BY <1>4, <1>5
<1> QED BY <1>3, <1>4, <1>6

LEMMA ArrangedRises ==
    ASSUME NEW S, S \subseteq Nat, IsFiniteSet(S), NEW k \in 1..Cardinality(S),
           NEW l \in 1..Cardinality(S), k < l
    PROVE  Arranged(S)[k] < Arranged(S)[l]
<1>1. PICK x, y : x = Arranged(S)[k] /\ y = Arranged(S)[l]
  OBVIOUS
<1>2. x \in S /\ Cardinality(Reached(S, x)) = k /\ y \in S /\ Cardinality(Reached(S, y)) = l
  BY <1>1, ArrangedAt
<1>3. x \in Nat /\ y \in Nat /\ k \in Int /\ l \in Int
  BY <1>2
<1>4. CASE y < x
  <2>1. l < k
    BY <1>2, <1>3, <1>4, ReachedGrows
  <2> QED BY <1>3, <2>1
<1> QED BY <1>1, <1>2, <1>3, <1>4

\* Each number stands where as many are up to it.
LEMMA ArrangedOnto ==
    ASSUME NEW S, S \subseteq Nat, IsFiniteSet(S), NEW i \in S
    PROVE  /\ Cardinality(Reached(S, i)) \in 1..Cardinality(S)
           /\ Arranged(S)[Cardinality(Reached(S, i))] = i
<1>1. i \in Nat
  OBVIOUS
<1>2. PICK c : c = Cardinality(Reached(S, i))
  OBVIOUS
<1>3. c \in Nat /\ c <= Cardinality(S) /\ Cardinality(S) \in Nat
  BY <1>1, <1>2, ReachedCounted
<1>4. c # 0
  <2>1. i \in Reached(S, i)
    <3>1. i <= i
      BY <1>1
    <3> QED BY <3>1 DEF Reached
  <2>2. IsFiniteSet(Reached(S, i))
    BY <1>1, ReachedCounted
  <2> QED BY <1>2, <2>1, <2>2, FS_EmptySet
<1>5. c \in 1..Cardinality(S)
  BY <1>3, <1>4
<1>6. PICK x : x = Arranged(S)[c]
  OBVIOUS
<1>7. x \in S /\ Cardinality(Reached(S, x)) = c
  BY <1>5, <1>6, ArrangedAt
<1>8. x \in Nat
  BY <1>7
<1>9. ~(x < i) /\ ~(i < x)
  <2>1. ASSUME x < i PROVE FALSE
    <3>1. c < c
      BY <1>2, <1>7, <1>8, <2>1, ReachedGrows
    <3> QED BY <1>3, <3>1
  <2>2. ASSUME i < x PROVE FALSE
    <3>1. c < c
      BY <1>1, <1>2, <1>7, <2>2, ReachedGrows
    <3> QED BY <1>3, <3>1
  <2> QED BY <2>1, <2>2
<1>10. x = i
  BY <1>1, <1>8, <1>9
<1> QED BY <1>2, <1>5, <1>6, <1>10

\* What is behind a number stands in the same order.
Behind(S, n) == {i \in S : i > n}
StandBehind(R, S, m) == \A k \in 1..Cardinality(R) : Arranged(R)[k] = Arranged(S)[m + k]

LEMMA ArrangedBehind ==
    ASSUME NEW S, S \subseteq Nat, IsFiniteSet(S), NEW m \in 1..Cardinality(S),
           NEW R, R = Behind(S, Arranged(S)[m])
    PROVE  IsFiniteSet(R) /\ Cardinality(R) = Cardinality(S) - m /\ StandBehind(R, S, m)
<1>1. PICK at : at = Arranged(S)[m] /\ R = {i \in S : i > at}
  BY DEF Behind
<1>2. at \in S /\ Cardinality(Reached(S, at)) = m
  BY <1>1, ArrangedAt
<1>3. at \in Nat /\ m \in Nat /\ m >= 1
  BY <1>2
<1>4. R \subseteq S /\ R \subseteq Nat /\ IsFiniteSet(R) /\ Cardinality(R) \in Nat /\ Cardinality(S) \in Nat
  BY <1>1, FS_Subset, FS_CardinalityType
<1>5. ASSUME NEW T, T \subseteq R
      PROVE  IsFiniteSet(T) /\ Cardinality(Reached(S, at) \cup T) = m + Cardinality(T)
  <2>1. Reached(S, at) \cap T = {}
    <3>1. \A x \in S : x > at => ~(x <= at)
      BY <1>3
    <3> QED BY <1>1, <1>5, <3>1 DEF Reached
  <2>2. IsFiniteSet(T) /\ IsFiniteSet(Reached(S, at))
    BY <1>3, <1>4, <1>5, FS_Subset, ReachedCounted
  <2>3. Cardinality(T) \in Nat /\ Cardinality({}) = 0
    BY <2>2, FS_CardinalityType, FS_EmptySet
  <2>4. Cardinality(Reached(S, at) \cup T) = Cardinality(Reached(S, at)) + Cardinality(T) - Cardinality({})
    BY <2>1, <2>2, FS_Union
  <2> QED BY <1>2, <1>3, <2>2, <2>3, <2>4
<1>6. Cardinality(R) = Cardinality(S) - m
  <2>1. S = Reached(S, at) \cup R
    <3>1. \A x \in S : x > at \/ x <= at
      BY <1>3
    <3> QED BY <1>1, <3>1 DEF Reached
  <2>2. Cardinality(S) = m + Cardinality(R)
    BY <1>5, <2>1
  <2> QED BY <1>3, <1>4, <2>2
<1>7. ASSUME NEW k \in 1..Cardinality(R) PROVE Arranged(R)[k] = Arranged(S)[m + k]
  <2>1. PICK x : x = Arranged(R)[k]
    OBVIOUS
  <2>2. x \in R /\ Cardinality(Reached(R, x)) = k
    BY <1>4, <2>1, ArrangedAt
  <2>3. x \in S /\ x \in Nat /\ x > at
    BY <1>1, <1>4, <2>2
  <2>4. Reached(S, x) = Reached(S, at) \cup Reached(R, x) /\ Reached(R, x) \subseteq R
    <3>1. \A y \in S : y <= x <=> y <= at \/ (y > at /\ y <= x)
      BY <1>3, <2>3
    <3> QED BY <1>1, <3>1 DEF Reached
  <2>5. Cardinality(Reached(S, x)) = m + k
    BY <1>5, <2>2, <2>4
  <2>6. Arranged(S)[m + k] = x
    BY <2>3, <2>5, ArrangedOnto
  <2> QED BY <2>1, <2>6
<1> QED BY <1>4, <1>6, <1>7 DEF StandBehind

-----------------------------------------------------------------------------
\* Pagination: what an answer tells.
Links == [by : {"link"}, at : Nat, limit : Nat]
Queries == [by : {"page", "cursor", "link"}, at : Nat, limit : Nat]
Told(a, page, more, total, next, link) ==
    /\ dig(a.data, <<"result">>) = Array(page)
    /\ dig(a.data, <<"page", "hasMore">>) = Boolean(more)
    /\ dig(a.data, <<"page", "total">>) = Number(total)
    /\ dig(a.data, <<"page", "next">>) = next
    /\ parseNextLink(a.links) = link

LEMMA DigOne ==
    ASSUME NEW v, NEW a
    PROVE  dig(v, <<a>>) = Member(v, a)
<1> DEFINE path == <<a>>
           body(g) == [n \in 0..Len(path) |-> IF n = 0 THEN v ELSE Member(g[n - 1], path[n])]
           found == CHOOSE g : g = body(g)
           h == [n \in 0..1 |-> IF n = 0 THEN v ELSE Member(v, a)]
<1>1. dig(v, path) = found[Len(path)]
  BY DEF dig
<1>2. Len(path) = 1 /\ path[1] = a
  OBVIOUS
<1> HIDE DEF path
<1>3. h = body(h)
  BY <1>2
<1>4. found = body(found)
  BY <1>3
<1> HIDE DEF found
<1>5. found[0] = v /\ found[1] = Member(found[0], a)
  BY <1>2, <1>4
<1> QED BY <1>1, <1>2, <1>5 DEF path

LEMMA DigTwo ==
    ASSUME NEW v, NEW a, NEW b
    PROVE  dig(v, <<a, b>>) = Member(Member(v, a), b)
<1> DEFINE path == <<a, b>>
           body(g) == [n \in 0..Len(path) |-> IF n = 0 THEN v ELSE Member(g[n - 1], path[n])]
           found == CHOOSE g : g = body(g)
           h == [n \in 0..2 |-> IF n = 0 THEN v ELSE IF n = 1 THEN Member(v, a) ELSE Member(Member(v, a), b)]
<1>1. dig(v, path) = found[Len(path)]
  BY DEF dig
<1>2. Len(path) = 2 /\ path[1] = a /\ path[2] = b
  OBVIOUS
<1> HIDE DEF path
<1>3. h = body(h)
  BY <1>2
<1>4. found = body(found)
  BY <1>3
<1> HIDE DEF found
<1>5. found[0] = v /\ found[1] = Member(found[0], a) /\ found[2] = Member(found[1], b)
  BY <1>2, <1>4
<1> QED BY <1>1, <1>2, <1>5 DEF path

\* The first link that comes through is the second of two, if any.
LEMMA NextOfTwo ==
    ASSUME NEW l, NEW m, l.rel # "next", m.rel = "next", m.comma \in BOOLEAN
    PROVE  parseNextLink(<<l, m>>) = IF m.comma THEN None ELSE m.query
<1> DEFINE links == <<l, m>>
           next == {n \in DOMAIN links : links[n].rel = "next" /\ ~links[n].comma}
<1>1. links[1] = l /\ links[2] = m /\ DOMAIN links = {1, 2}
  OBVIOUS
<1>2. next = IF m.comma THEN {} ELSE {2}
  <2> HIDE DEF links
  <2> QED BY <1>1
<1>3. parseNextLink(links) =
        IF next = {} THEN None ELSE links[CHOOSE n \in next : \A k \in next : n <= k].query
  BY DEF parseNextLink
<1>4. CASE m.comma
  BY <1>2, <1>3, <1>4
<1>5. CASE ~m.comma
  <2>1. next = {2}
    BY <1>2, <1>5
  <2> HIDE DEF next, links
  <2>2. (CHOOSE n \in next : \A k \in next : n <= k) = 2
    BY <2>1
  <2>3. parseNextLink(links) = links[2].query
    BY <1>3, <2>1, <2>2
  <2> QED BY <1>1, <1>5, <2>3 DEF links
<1> QED BY <1>4, <1>5

LEMMA NextOfNone == parseNextLink(<<>>) = None
<1>1. {n \in DOMAIN <<>> : <<>>[n].rel = "next" /\ ~<<>>[n].comma} = {}
  OBVIOUS
<1> QED BY <1>1 DEF parseNextLink

LEMMA ServedTells ==
    ASSUME NEW q \in Queries, NEW commas \in BOOLEAN
    PROVE  Told(Served(q, commas), PageOf(q), MoreAfter(q), Cardinality(collection),
                 IF MoreAfter(q) /\ q.by # "link" THEN Number(Last(PageOf(q))) ELSE Null,
                 IF MoreAfter(q) /\ ~commas THEN [by |-> "link", at |-> q.at + 1, limit |-> q.limit]
                                            ELSE None)
<1> DEFINE page == PageOf(q)
           more == MoreAfter(q)
           size == Cardinality(collection)
           last == Number(Last(page))
           total == Number(size)
           told == IF more /\ q.by # "link"
                   THEN [hasMore |-> Boolean(more), total |-> total, next |-> last]
                   ELSE [hasMore |-> Boolean(more), total |-> total]
           next == [rel |-> "next", comma |-> commas, query |-> [by |-> "link", at |-> q.at + 1, limit |-> q.limit]]
           links == IF more THEN <<[next EXCEPT !.rel = "last"], next>> ELSE <<>>
           a == Served(q, commas)
<1>1. a.data = Object([result |-> Array(page), page |-> Object(told)]) /\ a.links = links
  BY DEF Served
<1>2. parseNextLink(links) =
        IF more /\ ~commas THEN [by |-> "link", at |-> q.at + 1, limit |-> q.limit] ELSE None
  <2>1. CASE more
    <3>2. next.rel = "next" /\ next.comma = commas
          /\ next.query = [by |-> "link", at |-> q.at + 1, limit |-> q.limit]
      OBVIOUS
    <3>3. [next EXCEPT !.rel = "last"].rel # "next"
      OBVIOUS
    <3> HIDE DEF next
    <3>4. parseNextLink(links) = IF next.comma THEN None ELSE next.query
      BY <2>1, <3>2, <3>3, NextOfTwo
    <3> QED BY <2>1, <3>2, <3>4
  <2>2. CASE ~more
    BY <2>2, NextOfNone
  <2> QED BY <2>1, <2>2
<1>3. MoreAfter(q) \in BOOLEAN
  BY DEF MoreAfter
<1> HIDE DEF page, more, size, last, total, links, a
<1>4. Member(a.data, "result") = Array(page) /\ Member(a.data, "page") = Object(told)
  BY <1>1 DEF Member, Object
<1>5. Member(Object(told), "hasMore") = Boolean(more) /\ Member(Object(told), "total") = total
  BY DEF Member, Object
<1>6. Member(Object(told), "next") = IF more /\ q.by # "link" THEN last ELSE Null
  BY DEF Member, Object
<1> HIDE DEF told
<1>7. /\ dig(a.data, <<"result">>) = Array(page)
      /\ dig(a.data, <<"page", "hasMore">>) = Boolean(more)
      /\ dig(a.data, <<"page", "total">>) = total
      /\ dig(a.data, <<"page", "next">>) = IF more /\ q.by # "link" THEN last ELSE Null
  BY <1>4, <1>5, <1>6, DigOne, DigTwo
<1> QED BY <1>1, <1>2, <1>7 DEF Told, page, more, size, last, total, a

LEMMA Slice ==
    ASSUME NEW s \in Seq(Nat), NEW skip \in Nat, NEW end \in Nat, end <= Len(s), skip < end
    PROVE  /\ SubSeq(s, skip + 1, end) \in Seq(Nat)
           /\ Len(SubSeq(s, skip + 1, end)) = end - skip
           /\ \A k \in 1..(end - skip) : SubSeq(s, skip + 1, end)[k] = s[skip + k]
<1>1. SubSeq(s, skip + 1, end) \in Seq(Nat)
  OBVIOUS
<1>2. Len(SubSeq(s, skip + 1, end)) = end - skip
  OBVIOUS
<1>3. \A k \in 1..(end - skip) : SubSeq(s, skip + 1, end)[k] = s[skip + k]
  OBVIOUS
<1> QED BY <1>1, <1>2, <1>3

\* Where the items of a page stand in what is left.
LEMMA PageIs ==
    ASSUME NEW q \in Queries, NEW R, R = RestOf(q), R \subseteq Nat, IsFiniteSet(R),
           NEW skip \in Nat, skip = SkippedBy(q), NEW left \in Nat, left = Cardinality(R)
    PROVE  /\ PageOf(q) \in Seq(Nat)
           /\ Len(PageOf(q)) = IF left <= skip THEN 0 ELSE Smaller(left, skip + q.limit) - skip
           /\ \A k \in 1..Len(PageOf(q)) : skip + k \in 1..left /\ PageOf(q)[k] = Arranged(R)[skip + k]
           /\ MoreAfter(q) <=> left > skip + q.limit
<1>1. PICK size \in Nat : size = q.limit
  BY DEF Queries
<1>2. PICK s : s = Arranged(R)
  OBVIOUS
<1>3. s \in Seq(Nat) /\ Len(s) = left
  BY <1>2, ArrangedTypes
<1>4. PICK end \in Nat : end = Smaller(left, skip + size)
  BY DEF Smaller
<1>5. end <= left /\ PageOf(q) = SubSeq(s, skip + 1, end)
  BY <1>1, <1>2, <1>4 DEF PageOf, Smaller
<1>6. PICK page : page = SubSeq(s, skip + 1, end)
  OBVIOUS
<1>7. /\ page \in Seq(Nat) /\ Len(page) = IF end <= skip THEN 0 ELSE end - skip
      /\ \A k \in 1..Len(page) : page[k] = s[skip + k]
  <2>1. CASE end <= skip
    BY <1>3, <1>5, <1>6, <2>1
  <2>2. CASE skip < end
    <3>1. end <= Len(s)
      BY <1>3, <1>5
    <3>2. /\ SubSeq(s, skip + 1, end) \in Seq(Nat) /\ Len(SubSeq(s, skip + 1, end)) = end - skip
          /\ \A k \in 1..(end - skip) : SubSeq(s, skip + 1, end)[k] = s[skip + k]
      BY ONLY <1>3, <2>2, <3>1, Slice, skip \in Nat, end \in Nat
    <3>3. page \in Seq(Nat) /\ Len(page) = end - skip /\ \A k \in 1..(end - skip) : page[k] = s[skip + k]
      BY <1>6, <3>2
    <3>4. ~(end <= skip)
      BY <2>2
    <3> QED BY <3>3, <3>4
  <2> QED BY <2>1, <2>2
<1>8. (IF end <= skip THEN 0 ELSE end - skip) = IF left <= skip THEN 0 ELSE end - skip
  BY <1>4 DEF Smaller
<1>9. \A k \in 1..Len(page) : skip + k \in 1..left
  BY <1>5, <1>7
<1>10. MoreAfter(q) <=> left > skip + size
  BY <1>1 DEF MoreAfter
<1> QED BY <1>1, <1>2, <1>4, <1>5, <1>6, <1>7, <1>8, <1>9, <1>10


-----------------------------------------------------------------------------
\* Pagination: what was yielded, and what the generator goes on from.
WalkStages == {"looping", "asking", "yielded", "ended", "spent", "left"}
Walking ==
    [stage : WalkStages, strategy : PageStrategies, size : Nat \ {0}, limit : Nat \cup {None},
     commas : BOOLEAN, page : Nat \ {0}, cursor : Nat \cup {None}, link : Links \cup {None}, seen : Nat]
PageTypes ==
    /\ walk \in Walking /\ (walk.commas => walk.strategy = "link-header")
    /\ collection \subseteq Entries /\ lasting \subseteq collection
    /\ changes \in Nat /\ yielded \in Seq(Nat)
Linked == [by |-> "link", at |-> walk.page, limit |-> walk.size]
Rises(s) == \A k, l \in 1..Len(s) : k < l => s[k] < s[l]
Climbing == Rises(yielded)
Beginning ==
    /\ Len(yielded) <= Cardinality(collection)
    /\ \A k \in 1..Len(yielded) : yielded[k] = Arranged(collection)[k]
Covers(s, upto) == \A i \in lasting : i <= upto => i \in ToSet(s)
HadUpTo(upto) == Covers(yielded, upto)

\* Before a page is asked for: it begins behind what was yielded.
OnTheWay ==
    /\ walk.seen = Len(yielded) /\ (walk.page = 1 => yielded = <<>>)
    /\ walk.link # None => walk.strategy = "link-header" /\ walk.link = Linked
    /\ walk.cursor # None =>
          walk.strategy = "cursor" /\ yielded # <<>> /\ walk.cursor = Last(yielded) /\ HadUpTo(walk.cursor)
    /\ walk.strategy = "cursor" /\ walk.cursor = None => walk.page = 1
    /\ Steady =>
          /\ walk.page > 1 => Len(yielded) < Cardinality(collection)
          /\ walk.strategy # "cursor" => Len(yielded) = (walk.page - 1) * walk.size
\* When one was yielded: what the answer tells of the rest is so.
PageTold(page, more, total, next, link) ==
    /\ Told(answer, page, more, total, next, link)
    /\ walk.seen + Len(page) = Len(yielded)
    /\ walk.link # None => walk.strategy = "link-header"
    /\ walk.strategy = "link-header" /\ link # None =>
          link = [by |-> "link", at |-> walk.page + 1, limit |-> walk.size]
    /\ more /\ ~walk.commas => link # None
    /\ ~more => link = None
    /\ walk.cursor # None => walk.strategy = "cursor"
    /\ walk.strategy = "cursor" =>
          IF more THEN yielded # <<>> /\ next = Number(Last(yielded)) /\ HadUpTo(Last(yielded))
                  ELSE next = Null /\ lasting \subseteq ToSet(yielded)
    /\ Steady =>
          /\ total = Cardinality(collection) /\ (more <=> Len(yielded) < Cardinality(collection))
          /\ walk.page > 1 => page # <<>>
          /\ walk.strategy # "cursor" /\ more => Len(yielded) = walk.page * walk.size
OnePageOn ==
    \E page \in Seq(Nat), more \in BOOLEAN, total \in Nat, link \in Links \cup {None} :
        \E next : PageTold(page, more, total, next, link)
AllHad ==
    /\ Steady => Len(yielded) = Cardinality(collection)
    /\ walk.strategy = "cursor" => lasting \subseteq ToSet(yielded)
PageInv ==
    /\ PageTypes
    /\ Steady => Beginning
    /\ walk.strategy = "cursor" => Climbing
    /\ walk.stage \in {"looping", "asking"} => OnTheWay
    /\ walk.stage = "yielded" => OnePageOn
    /\ walk.stage = "ended" => AllHad

LEMMA CollectionCounted ==
    ASSUME PageTypes
    PROVE  /\ collection \subseteq Nat /\ IsFiniteSet(collection) /\ Cardinality(collection) \in Nat
<1>1. collection \subseteq Nat /\ IsFiniteSet(collection)
  BY PageAssumption, FS_Subset DEF PageTypes
<1> QED BY <1>1, FS_CardinalityType

LEMMA PageInitially == PageInit => PageInv
<1> SUFFICES ASSUME PageInit PROVE PageInv
  OBVIOUS
<1>1. PageTypes
  <2>1. walk \in [stage : {"looping"}, strategy : PageStrategies, size : PageSizes, limit : PageLimits,
                  commas : BOOLEAN, page : {1}, cursor : {None}, link : {None}, seen : {0}]
        /\ (walk.commas => walk.strategy = "link-header")
    BY DEF PageInit, Walks
  <2>2. walk \in Walking
    <3>1. PageSizes \subseteq Nat \ {0} /\ PageLimits \subseteq Nat \cup {None}
      BY PageAssumption
    <3>2. "looping" \in WalkStages
      BY DEF WalkStages
    <3>3. walk = [stage |-> walk.stage, strategy |-> walk.strategy, size |-> walk.size,
                  limit |-> walk.limit, commas |-> walk.commas, page |-> walk.page,
                  cursor |-> walk.cursor, link |-> walk.link, seen |-> walk.seen]
      BY <2>1
    <3>4. /\ walk.stage \in WalkStages /\ walk.strategy \in PageStrategies /\ walk.size \in Nat \ {0}
          /\ walk.limit \in Nat \cup {None} /\ walk.commas \in BOOLEAN /\ walk.page \in Nat \ {0}
          /\ walk.cursor \in Nat \cup {None} /\ walk.link \in Links \cup {None} /\ walk.seen \in Nat
      <4>1. /\ walk.stage = "looping" /\ walk.strategy \in PageStrategies /\ walk.size \in PageSizes
            /\ walk.limit \in PageLimits /\ walk.commas \in BOOLEAN /\ walk.page = 1
            /\ walk.cursor = None /\ walk.link = None /\ walk.seen = 0
        BY <2>1
      <4>2. 1 \in Nat \ {0} /\ 0 \in Nat
        OBVIOUS
      <4> QED BY <3>1, <3>2, <4>1, <4>2
    <3> QED BY <3>3, <3>4 DEF Walking
  <2>3. collection \subseteq Entries /\ lasting \subseteq collection /\ changes \in Nat /\ yielded \in Seq(Nat)
    BY DEF PageInit
  <2> QED BY <2>1, <2>2, <2>3 DEF PageTypes
<1>2. yielded = <<>> /\ Len(yielded) = 0 /\ walk.stage = "looping" /\ walk.page = 1
      /\ walk.seen = 0 /\ walk.link = None /\ walk.cursor = None
  BY DEF PageInit, Walks
<1>3. Cardinality(collection) \in Nat /\ walk.size \in Nat
  BY <1>1, CollectionCounted DEF PageTypes, Walking
<1>4. Beginning /\ Climbing
  BY <1>2, <1>3 DEF Beginning, Climbing, Rises
<1>5. OnTheWay
  <2>1. (walk.page - 1) * walk.size = 0
    BY <1>2, <1>3
  <2> QED BY <1>2, <2>1 DEF OnTheWay
<1> QED BY <1>1, <1>2, <1>4, <1>5 DEF PageInv

\* What a query asks for.
LEMMA QueryIs ==
    ASSUME PageTypes, OnTheWay
    PROVE  /\ Query \in Queries /\ Query.limit = walk.size /\ SkippedBy(Query) \in Nat
           /\ walk.strategy # "cursor" =>
                 /\ RestOf(Query) = collection /\ SkippedBy(Query) = (walk.page - 1) * walk.size
                 /\ Query.at = walk.page
           /\ walk.strategy = "cursor" =>
                 /\ SkippedBy(Query) = 0 /\ Query.by # "link"
                 /\ RestOf(Query) = IF walk.cursor = None THEN collection
                                    ELSE {i \in collection : i > walk.cursor}
           /\ Query.at = walk.page \/ walk.strategy = "cursor"
<1>1. walk.page \in Nat \ {0} /\ walk.size \in Nat \ {0} /\ walk.cursor \in Nat \cup {None}
      /\ walk.link \in Links \cup {None}
  BY DEF PageTypes, Walking
<1>2. (walk.page - 1) * walk.size \in Nat
  <2>1. PICK p \in Nat : p = walk.page - 1
    BY <1>1
  <2>2. PICK n \in Nat : n = walk.size
    BY <1>1
  <2>3. p * n \in Nat
    OBVIOUS
  <2> QED BY <2>1, <2>2, <2>3
<1>3. CASE walk.link # None
  <2>1. Query = Linked /\ walk.strategy = "link-header"
    BY <1>3 DEF Query, OnTheWay
  <2> QED BY <1>1, <1>2, <2>1 DEF Linked, Queries, RestOf, SkippedBy
<1>4. CASE walk.link = None /\ walk.strategy = "cursor" /\ walk.cursor # None
  <2>1. Query = [by |-> "cursor", at |-> walk.cursor, limit |-> walk.size] /\ walk.cursor \in Nat
    BY <1>1, <1>4 DEF Query
  <2> QED BY <1>1, <1>4, <2>1 DEF Queries, RestOf, SkippedBy
<1>5. CASE walk.link = None /\ ~(walk.strategy = "cursor" /\ walk.cursor # None)
  <2>1. Query = [by |-> "page", at |-> walk.page, limit |-> walk.size]
    BY <1>5 DEF Query
  <2>2. Query \in Queries /\ RestOf(Query) = collection /\ SkippedBy(Query) = (walk.page - 1) * walk.size
    BY <1>1, <2>1 DEF Queries, RestOf, SkippedBy
  <2>3. walk.strategy = "cursor" => walk.page = 1 /\ walk.cursor = None
    BY <1>5 DEF OnTheWay
  <2>4. walk.page = 1 => (walk.page - 1) * walk.size = 0
    BY <1>1
  <2> QED BY <1>2, <1>5, <2>1, <2>2, <2>3, <2>4
<1> QED BY <1>3, <1>4, <1>5


LEMMA Joined ==
    ASSUME NEW s \in Seq(Nat), NEW t \in Seq(Nat), NEW m \in Nat, m = Len(s), NEW n \in Nat, n = Len(t),
           NEW y, y = s \o t
    PROVE  /\ y \in Seq(Nat) /\ Len(y) = m + n
           /\ \A k \in 1..m : y[k] = s[k]
           /\ \A k \in 1..n : m + k \in 1..Len(y) /\ y[m + k] = t[k]
           /\ \A j \in 1..Len(y) : j \in 1..m \/ \E k \in 1..n : j = m + k
<1>1. y \in Seq(Nat) /\ Len(y) = m + n
  OBVIOUS
<1>2. \A k \in 1..m : y[k] = s[k]
  OBVIOUS
<1>3. \A k \in 1..n : m + k \in 1..Len(y) /\ y[m + k] = t[k]
  OBVIOUS
<1>4. ASSUME NEW j \in 1..Len(y), j \notin 1..m PROVE \E k \in 1..n : j = m + k
  <2>1. j - m \in 1..n /\ j = m + (j - m)
    BY <1>1, <1>4
  <2> QED BY <2>1
<1> QED BY <1>1, <1>2, <1>3, <1>4

GoesOn(R, skip, C, m) ==
    \A k \in Nat : skip + k \in 1..Cardinality(R) =>
        m + k \in 1..Cardinality(C) /\ Arranged(R)[skip + k] = Arranged(C)[m + k]

\* While nothing changes the next page begins where the last one ended, by whatever it is asked for.
LEMMA PageGoesOn ==
    ASSUME PageTypes, Steady, Beginning, OnTheWay, NEW R, R = RestOf(Query),
           NEW skip \in Nat, skip = SkippedBy(Query), NEW left \in Nat, left = Cardinality(R),
           NEW m \in Nat, m = Len(yielded), NEW n \in Nat, n = Cardinality(collection)
    PROVE  left - skip = n - m /\ GoesOn(R, skip, collection, m)
<1>1. CASE walk.strategy # "cursor"
  <2>1. R = collection /\ skip = (walk.page - 1) * walk.size
    BY <1>1, QueryIs
  <2>2. m = skip /\ left = n
    BY <1>1, <2>1 DEF OnTheWay
  <2> QED BY <2>1, <2>2 DEF GoesOn
<1>2. CASE walk.strategy = "cursor" /\ walk.cursor = None
  <2>1. R = collection /\ skip = 0
    BY <1>2, QueryIs
  <2>2. m = 0 /\ left = n
    BY <1>2, <2>1 DEF OnTheWay
  <2> QED BY <2>1, <2>2 DEF GoesOn
<1>3. CASE walk.strategy = "cursor" /\ walk.cursor # None
  <2>1. R = {i \in collection : i > walk.cursor} /\ skip = 0
    BY <1>3, QueryIs
  <2>2. yielded # <<>> /\ walk.cursor = Last(yielded) /\ yielded \in Seq(Nat)
    BY <1>3 DEF OnTheWay, PageTypes
  <2>3. m \in 1..n
    BY <2>2 DEF Beginning
  <2>4. walk.cursor = Arranged(collection)[m]
    <3>1. walk.cursor = yielded[m]
      BY <2>2 DEF Last
    <3>2. m \in 1..Len(yielded)
      BY <2>3
    <3> QED BY <3>1, <3>2 DEF Beginning
  <2>5. left = n - m /\ \A k \in 1..left : Arranged(R)[k] = Arranged(collection)[m + k]
    <3>1. collection \subseteq Nat /\ IsFiniteSet(collection)
      BY CollectionCounted
    <3>2. R = {i \in collection : i > Arranged(collection)[m]}
      BY <2>1, <2>4
    <3>3. m \in 1..Cardinality(collection)
      BY <2>3
    <3>4. Cardinality(R) = Cardinality(collection) - m
          /\ \A k \in 1..Cardinality(R) : Arranged(R)[k] = Arranged(collection)[m + k]
      <4>1. PICK C : C = collection
        OBVIOUS
      <4>2. C \subseteq Nat /\ IsFiniteSet(C) /\ m \in 1..Cardinality(C) /\ R = Behind(C, Arranged(C)[m])
        BY <3>1, <3>2, <3>3, <4>1 DEF Behind
      <4>3. Cardinality(R) = Cardinality(C) - m /\ StandBehind(R, C, m)
        BY <4>2, ArrangedBehind
      <4> QED BY <4>1, <4>3 DEF StandBehind
    <3> QED BY <3>4
  <2>6. \A k \in Nat : 0 + k = k
    OBVIOUS
  <2>7. \A k \in 1..left : m + k \in 1..n
    BY <2>5
  <2> QED BY <2>1, <2>5, <2>6, <2>7 DEF GoesOn
<1> QED BY <1>1, <1>2, <1>3

StandFirst(page, R) == \A k \in 1..Len(page) : k \in 1..Cardinality(R) /\ page[k] = Arranged(R)[k]

\* By cursor, whatever changes: what is behind the cursor comes in its order, and all of it.
LEMMA CursorGoesOn ==
    ASSUME PageTypes, walk.strategy = "cursor", Climbing, OnTheWay, NEW R, R = RestOf(Query),
           NEW left \in Nat, left = Cardinality(R), NEW page \in Seq(Nat),
           NEW size \in Nat \ {0}, Len(page) = Smaller(left, size), StandFirst(page, R),
           NEW y, y = yielded \o page
    PROVE  /\ Rises(y)
           /\ left > size => y # <<>> /\ Last(y) = Last(page) /\ Covers(y, Last(y))
           /\ left <= size => lasting \subseteq ToSet(y)
<1>1. R = IF walk.cursor = None THEN collection ELSE {i \in collection : i > walk.cursor}
  BY QueryIs
<1>2. collection \subseteq Nat /\ IsFiniteSet(collection)
  BY CollectionCounted
<1>3. R \subseteq collection /\ R \subseteq Nat /\ IsFiniteSet(R)
  BY <1>1, <1>2, FS_Subset
<1>4. PICK m \in Nat : m = Len(yielded) /\ yielded \in Seq(Nat)
  BY DEF PageTypes
<1>5. PICK n \in Nat : n = Len(page)
  OBVIOUS
<1>6. /\ y \in Seq(Nat) /\ Len(y) = m + n
      /\ \A k \in 1..m : y[k] = yielded[k]
      /\ \A k \in 1..n : m + k \in 1..Len(y) /\ y[m + k] = page[k]
      /\ \A j \in 1..Len(y) : j \in 1..m \/ \E k \in 1..n : j = m + k
  <2>1. yielded \in Seq(Nat) /\ page \in Seq(Nat) /\ m = Len(yielded) /\ n = Len(page) /\ y = yielded \o page
    BY <1>4, <1>5
  <2>2. y \in Seq(Nat) /\ Len(y) = m + n
    BY ONLY <2>1, m \in Nat, n \in Nat
  <2>3. \A k \in 1..m : y[k] = yielded[k]
    BY <2>1, Joined
  <2>4. \A k \in 1..n : m + k \in 1..Len(y) /\ y[m + k] = page[k]
    BY <2>1, Joined
  <2>5. \A j \in 1..Len(y) : j \in 1..m \/ \E k \in 1..n : j = m + k
    <3> SUFFICES ASSUME NEW j \in 1..Len(y), j \notin 1..m PROVE \E k \in 1..n : j = m + k
      OBVIOUS
    <3>1. j - m \in 1..n /\ j = m + (j - m)
      BY <2>2
    <3> QED BY <3>1
  <2> QED BY <2>2, <2>3, <2>4, <2>5
<1>7. \A k \in 1..n : k \in 1..left /\ page[k] \in R /\ page[k] \in Nat
  <2>1. \A k \in 1..n : k \in 1..Cardinality(R) /\ page[k] = Arranged(R)[k]
    BY <1>5 DEF StandFirst
  <2>2. \A k \in 1..n : page[k] \in R
    BY <1>3, <2>1, ArrangedAt
  <2> QED BY <1>3, <2>1, <2>2
<1>8. \A k, l \in 1..n : k < l => page[k] < page[l]
  BY <1>3, <1>5, <1>7, ArrangedRises DEF StandFirst
<1>9. \A k \in 1..m : yielded[k] \in Nat
  BY <1>4
<1>10. \A k \in 1..m, l \in 1..n : yielded[k] < page[l]
  <2> SUFFICES ASSUME NEW k \in 1..m, NEW l \in 1..n PROVE yielded[k] < page[l]
    OBVIOUS
  <2>1. m > 0
    OBVIOUS
  <2>2. walk.cursor # None
    <3>1. yielded # <<>>
      BY <1>4, <2>1
    <3> QED BY <3>1 DEF OnTheWay
  <2>3. walk.cursor = yielded[m] /\ m \in 1..m
    BY <1>4, <2>1, <2>2 DEF OnTheWay, Last
  <2>4. page[l] > yielded[m]
    BY <1>1, <1>7, <2>2, <2>3
  <2>5. yielded[k] <= yielded[m]
    <3>1. CASE k = m
      BY <1>9, <2>3, <3>1
    <3>2. CASE k # m
      <4>1. k < m /\ k \in 1..Len(yielded) /\ m \in 1..Len(yielded)
        BY <1>4, <2>3, <3>2
      <4>2. yielded[k] < yielded[m]
        BY <4>1 DEF Climbing, Rises
      <4> QED BY <1>9, <2>3, <4>2
    <3> QED BY <3>1, <3>2
  <2> QED BY <1>7, <1>9, <2>3, <2>4, <2>5
<1>11. \A k, l \in 1..Len(y) : k < l => y[k] < y[l]
  <2> SUFFICES ASSUME NEW k \in 1..Len(y), NEW l \in 1..Len(y), k < l PROVE y[k] < y[l]
    OBVIOUS
  <2>1. CASE k \in 1..m /\ l \in 1..m
    BY <1>4, <1>6, <2>1 DEF Climbing, Rises
  <2>2. CASE k \in 1..m /\ l \notin 1..m
    BY <1>6, <1>10, <2>2
  <2>3. CASE k \notin 1..m /\ l \in 1..m
    BY <1>6, <2>3
  <2>4. CASE k \notin 1..m /\ l \notin 1..m
    <3>1. PICK a \in 1..n, b \in 1..n : k = m + a /\ l = m + b
      BY <1>6, <2>4
    <3>2. a < b
      BY <3>1
    <3> QED BY <1>6, <1>8, <3>1, <3>2
  <2> QED BY <2>1, <2>2, <2>3, <2>4
<1>12. ASSUME NEW i \in lasting, walk.cursor # None, i <= walk.cursor PROVE i \in ToSet(y)
  <2>1. i \in ToSet(yielded)
    BY <1>12 DEF OnTheWay, HadUpTo, Covers
  <2>2. PICK k \in 1..m : yielded[k] = i
    BY <1>4, <2>1 DEF ToSet
  <2>3. k \in 1..Len(y) /\ y[k] = i
    BY <1>6, <2>2
  <2>4. DOMAIN y = 1..Len(y)
    BY <1>6
  <2> QED BY <2>3, <2>4 DEF ToSet
<1>13. ASSUME NEW i \in R, Cardinality(Reached(R, i)) <= n PROVE i \in ToSet(y)
  <2>1. PICK k : k = Cardinality(Reached(R, i))
    OBVIOUS
  <2>2. k \in 1..left /\ Arranged(R)[k] = i
    BY <1>3, <2>1, ArrangedOnto
  <2>3. k \in 1..n /\ page[k] = i
    BY <1>5, <1>13, <2>1, <2>2 DEF StandFirst
  <2>4. m + k \in 1..Len(y) /\ y[m + k] = i
    BY <1>6, <2>3
  <2> QED BY <1>6, <2>4 DEF ToSet
<1>14. ASSUME NEW i \in lasting PROVE i \in Nat /\ (i \in R \/ (walk.cursor # None /\ i <= walk.cursor))
  <2>1. i \in collection /\ i \in Nat
    BY <1>2 DEF PageTypes
  <2>2. walk.cursor # None => walk.cursor \in Nat
    BY DEF PageTypes, Walking
  <2> QED BY <1>1, <2>1, <2>2
<1>15. ASSUME left <= size PROVE lasting \subseteq ToSet(y)
  <2> SUFFICES ASSUME NEW i \in lasting PROVE i \in ToSet(y)
    OBVIOUS
  <2>1. n = left
    BY <1>5, <1>15 DEF Smaller
  <2>2. i \in R => Cardinality(Reached(R, i)) <= n
    <3> SUFFICES ASSUME i \in R PROVE Cardinality(Reached(R, i)) <= n
      OBVIOUS
    <3>1. Cardinality(Reached(R, i)) \in 1..left
      BY <1>3, ArrangedOnto
    <3> QED BY <2>1, <3>1
  <2> QED BY <1>12, <1>13, <1>14, <2>2
<1>16. ASSUME left > size
       PROVE  y # <<>> /\ Last(y) = Last(page) /\ \A i \in lasting : i <= Last(y) => i \in ToSet(y)
  <2>1. n = size /\ n \in 1..n
    BY <1>5, <1>16 DEF Smaller
  <2>2. Last(y) = page[n] /\ Last(page) = page[n] /\ y # <<>>
    <3>1. Len(y) = m + n /\ m + n > 0
      BY <1>6, <2>1
    <3> QED BY <1>5, <1>6, <2>1, <3>1 DEF Last
  <2>3. ASSUME NEW i \in lasting, i <= page[n], i \in R PROVE Cardinality(Reached(R, i)) <= n
    <3>1. PICK k : k = Cardinality(Reached(R, i))
      OBVIOUS
    <3>2. k \in 1..left /\ Arranged(R)[k] = i
      BY <1>3, <2>3, <3>1, ArrangedOnto
    <3>3. n \in 1..left /\ page[n] = Arranged(R)[n] /\ page[n] \in Nat /\ i \in Nat
      BY <1>5, <1>7, <1>14, <2>1, <2>3 DEF StandFirst
    <3>4. n < k => page[n] < i
      BY <1>3, <3>2, <3>3, ArrangedRises
    <3> QED BY <2>3, <3>1, <3>2, <3>3, <3>4
  <2> QED BY <1>12, <1>13, <1>14, <2>2, <2>3
<1> QED BY <1>11, <1>15, <1>16 DEF Rises, Covers


LEMMA Staged ==
    ASSUME PageTypes, NEW stage \in WalkStages, walk' = At(stage)
    PROVE  /\ walk' \in Walking /\ walk'.stage = stage
           /\ walk'.strategy = walk.strategy /\ walk'.size = walk.size /\ walk'.limit = walk.limit
           /\ walk'.commas = walk.commas /\ walk'.page = walk.page /\ walk'.cursor = walk.cursor
           /\ walk'.link = walk.link /\ walk'.seen = walk.seen
BY DEF PageTypes, Walking, At

LEMMA AskStep == PageInv /\ (AskPage \/ Break) => PageInv'
<1> SUFFICES ASSUME PageInv, AskPage \/ Break PROVE PageInv'
  OBVIOUS
<1>1. PageTypes /\ (Steady => Beginning) /\ (walk.strategy = "cursor" => Climbing)
  BY DEF PageInv
<1>2. PICK stage \in WalkStages :
        /\ walk' = At(stage) /\ stage \in {"asking", "spent", "left"}
        /\ stage = "asking" => walk.stage = "looping"
  BY DEF AskPage, Break, WalkStages
<1>3. UNCHANGED <<collection, answer, yielded, lasting, changes>>
  BY DEF AskPage, Break
<1>4. /\ walk' \in Walking /\ walk'.stage = stage
      /\ walk'.strategy = walk.strategy /\ walk'.size = walk.size /\ walk'.limit = walk.limit
      /\ walk'.commas = walk.commas /\ walk'.page = walk.page /\ walk'.cursor = walk.cursor
      /\ walk'.link = walk.link /\ walk'.seen = walk.seen
  BY <1>1, <1>2, Staged
<1>5. PageTypes' /\ (Steady => Beginning)' /\ (walk.strategy = "cursor" => Climbing)'
  BY <1>1, <1>3, <1>4 DEF PageTypes, Steady, Beginning, Climbing, Rises
<1>6. ASSUME stage = "asking" PROVE OnTheWay'
  <2>1. OnTheWay
    BY <1>2, <1>6 DEF PageInv
  <2> QED BY <1>3, <1>4, <2>1 DEF OnTheWay, Linked, Steady, HadUpTo, Covers
<1> QED BY <1>2, <1>4, <1>5, <1>6 DEF PageInv

LEMMA ChangeStep == PageInv /\ (\E i \in Entries : Change(i)) => PageInv'
<1> SUFFICES ASSUME PageInv, NEW i \in Entries, Change(i) PROVE PageInv'
  OBVIOUS
<1>1. PageTypes /\ (walk.strategy = "cursor" => Climbing)
  BY DEF PageInv
<1>2. /\ walk' = walk /\ answer' = answer /\ yielded' = yielded /\ walk.stage # "ended"
      /\ lasting' = lasting \ {i} /\ changes' = changes + 1
      /\ collection' = IF i \in collection THEN collection \ {i} ELSE collection \cup {i}
  BY DEF Change
<1>3. ~Steady' /\ changes' \in Nat /\ lasting' \subseteq lasting
  BY <1>1, <1>2 DEF Steady, PageTypes
<1>4. collection' \subseteq Entries /\ lasting' \subseteq collection'
  BY <1>1, <1>2 DEF PageTypes
<1>5. PageTypes' /\ (Steady => Beginning)' /\ (walk.strategy = "cursor" => Climbing)'
  BY <1>1, <1>2, <1>3, <1>4 DEF PageTypes, Climbing, Rises
<1>6. ASSUME NEW upto, HadUpTo(upto) PROVE HadUpTo(upto)'
  BY <1>2, <1>3, <1>6 DEF HadUpTo, Covers
<1>7. ASSUME walk.stage \in {"looping", "asking"} PROVE OnTheWay'
  <2>1. OnTheWay
    BY <1>7 DEF PageInv
  <2>2. walk.cursor # None => HadUpTo(walk.cursor)'
    <3>1. walk.cursor # None => HadUpTo(walk.cursor)
      BY <2>1 DEF OnTheWay
    <3> QED BY <1>2, <1>3, <3>1 DEF HadUpTo, Covers
  <2> QED BY <1>2, <1>3, <2>1, <2>2 DEF OnTheWay, Linked
<1>8. ASSUME walk.stage = "yielded" PROVE OnePageOn'
  <2>1. PICK page \in Seq(Nat), more \in BOOLEAN, total \in Nat, link \in Links \cup {None} :
          \E next : PageTold(page, more, total, next, link)
    BY <1>8 DEF PageInv, OnePageOn
  <2>2. PICK next : PageTold(page, more, total, next, link)
    BY <2>1
  <2>3. HadUpTo(Last(yielded)) => HadUpTo(Last(yielded))'
    BY <1>2, <1>3 DEF HadUpTo, Covers
  <2>4. PageTold(page, more, total, next, link)'
    BY <1>2, <1>3, <2>2, <2>3 DEF PageTold
  <2> QED BY <2>4 DEF OnePageOn
<1> QED BY <1>2, <1>5, <1>7, <1>8 DEF PageInv

LEMMA YieldStep == PageInv /\ Yield => PageInv'
<1> SUFFICES ASSUME PageInv, Yield PROVE PageInv'
  OBVIOUS
<1>1. PageTypes /\ (Steady => Beginning) /\ (walk.strategy = "cursor" => Climbing) /\ OnTheWay
  BY DEF PageInv, Yield
<1>2. /\ Query \in Queries /\ SkippedBy(Query) \in Nat
      /\ RestOf(Query) \subseteq Nat /\ IsFiniteSet(RestOf(Query)) /\ Cardinality(RestOf(Query)) \in Nat
  <2>1. RestOf(Query) \subseteq collection
    BY DEF RestOf
  <2>2. collection \subseteq Nat /\ IsFiniteSet(collection)
    BY <1>1, CollectionCounted
  <2>3. IsFiniteSet(RestOf(Query)) /\ RestOf(Query) \subseteq Nat
    BY <2>1, <2>2, FS_Subset
  <2> QED BY <1>1, <2>3, QueryIs, FS_CardinalityType
<1>3. PICK R : R = RestOf(Query) /\ R \subseteq Nat /\ IsFiniteSet(R)
  BY <1>2
<1> PICK skip \in Nat : skip = SkippedBy(Query)
  BY <1>2
<1> PICK left \in Nat : left = Cardinality(R)
  BY <1>2, <1>3
<1>4. PICK size \in Nat \ {0} : size = walk.size /\ size = Query.limit
  BY <1>1, QueryIs DEF PageTypes, Walking
<1>5. PICK page \in Seq(Nat) :
        /\ page = PageOf(Query)
        /\ Len(page) = IF left <= skip THEN 0 ELSE Smaller(left, skip + size) - skip
        /\ \A k \in 1..Len(page) : skip + k \in 1..left /\ page[k] = Arranged(R)[skip + k]
  <2>1. PageOf(Query) \in Seq(Nat)
    BY <1>2, <1>3, PageIs
  <2>2. Len(PageOf(Query)) = IF left <= skip THEN 0 ELSE Smaller(left, skip + size) - skip
    BY <1>2, <1>3, <1>4, PageIs
  <2>3. \A k \in 1..Len(PageOf(Query)) : skip + k \in 1..left /\ PageOf(Query)[k] = Arranged(R)[skip + k]
    BY <1>2, <1>3, PageIs
  <2> QED BY <2>1, <2>2, <2>3
<1>30. MoreAfter(Query) \in BOOLEAN /\ (MoreAfter(Query) <=> left > skip + size)
  BY <1>3, <1>4 DEF MoreAfter
<1>6. PICK more \in BOOLEAN : more = MoreAfter(Query) /\ (more <=> left > skip + size)
  BY <1>30
<1>7. PICK total \in Nat : total = Cardinality(collection)
  BY <1>1, CollectionCounted
<1>8. walk' = At("yielded") /\ UNCHANGED <<collection, lasting, changes>>
      /\ answer' = Served(Query, walk.commas) /\ yielded' = yielded \o dig(answer'.data, <<"result">>).of
  BY DEF Yield
<1>9. /\ walk' \in Walking /\ walk'.stage = "yielded"
      /\ walk'.strategy = walk.strategy /\ walk'.size = walk.size /\ walk'.limit = walk.limit
      /\ walk'.commas = walk.commas /\ walk'.page = walk.page /\ walk'.cursor = walk.cursor
      /\ walk'.link = walk.link /\ walk'.seen = walk.seen
  BY <1>1, <1>8, Staged DEF WalkStages
<1>10. PICK next, link :
         /\ Told(answer', page, more, total, next, link)
         /\ next = IF more /\ Query.by # "link" THEN Number(Last(page)) ELSE Null
         /\ link = IF more /\ ~walk.commas THEN [by |-> "link", at |-> Query.at + 1, limit |-> size] ELSE None
  <2>1. walk.commas \in BOOLEAN
    BY <1>1 DEF PageTypes, Walking
  <2> QED BY <1>2, <1>4, <1>5, <1>6, <1>7, <1>8, <2>1, ServedTells
<1>11. yielded' = yielded \o page
  <2>1. dig(answer'.data, <<"result">>) = Array(page)
    BY <1>10 DEF Told
  <2>2. Array(page).of = page
    BY DEF Array
  <2> QED BY <1>8, <2>1, <2>2
<1>12. PICK m \in Nat : m = Len(yielded) /\ yielded \in Seq(Nat)
  BY <1>1 DEF PageTypes
<1>13. PICK got \in Nat : got = Len(page)
  OBVIOUS
<1>14. PICK y : y = yielded \o page
  OBVIOUS
<1>15. /\ y \in Seq(Nat) /\ Len(y) = m + got
       /\ \A k \in 1..m : y[k] = yielded[k]
       /\ \A k \in 1..got : m + k \in 1..Len(y) /\ y[m + k] = page[k]
       /\ \A j \in 1..Len(y) : j \in 1..m \/ \E k \in 1..got : j = m + k
  <2>1. page \in Seq(Nat)
    OBVIOUS
  <2>2. y \in Seq(Nat) /\ Len(y) = m + got
    BY ONLY <1>12, <1>13, <1>14, <2>1, m \in Nat, got \in Nat
  <2>3. \A k \in 1..m : y[k] = yielded[k]
    BY <1>12, <1>13, <1>14, <2>1, Joined
  <2>4. \A k \in 1..got : m + k \in 1..Len(y) /\ y[m + k] = page[k]
    BY <1>12, <1>13, <1>14, <2>1, Joined
  <2>5. \A j \in 1..Len(y) : j \in 1..m \/ \E k \in 1..got : j = m + k
    <3> SUFFICES ASSUME NEW j \in 1..Len(y), j \notin 1..m PROVE \E k \in 1..got : j = m + k
      OBVIOUS
    <3>1. j - m \in 1..got /\ j = m + (j - m)
      BY <2>2
    <3> QED BY <3>1
  <2> QED BY <2>2, <2>3, <2>4, <2>5
<1>16. ASSUME Steady
       PROVE  /\ Len(y) <= total /\ \A k \in 1..Len(y) : y[k] = Arranged(collection)[k]
              /\ more <=> Len(y) < total
              /\ walk.page > 1 => page # <<>>
              /\ walk.strategy # "cursor" /\ more => Len(y) = walk.page * walk.size
  <2>1. left - skip = total - m
    BY <1>1, <1>3, <1>7, <1>12, <1>16, PageGoesOn
  <2>9. GoesOn(R, skip, collection, m)
    BY <1>1, <1>3, <1>7, <1>12, <1>16, PageGoesOn
  <2>2. \A k \in 1..got : m + k \in 1..total /\ page[k] = Arranged(collection)[m + k]
    <3>1. \A k \in Nat : skip + k \in 1..left =>
            m + k \in 1..total /\ Arranged(R)[skip + k] = Arranged(collection)[m + k]
      BY <1>3, <1>7, <2>9 DEF GoesOn
    <3>2. \A k \in 1..got : k \in Nat /\ skip + k \in 1..left /\ page[k] = Arranged(R)[skip + k]
      BY <1>5, <1>13
    <3> QED BY <3>1, <3>2
  <2>3. m <= total /\ \A k \in 1..m : yielded[k] = Arranged(collection)[k]
    BY <1>1, <1>7, <1>12, <1>16 DEF Beginning
  <2>4. got = IF total <= m THEN 0 ELSE Smaller(total - m, size)
    BY <1>5, <1>13, <2>1 DEF Smaller
  <2>5. Len(y) <= total /\ (more <=> Len(y) < total)
    BY <1>6, <1>15, <2>1, <2>3, <2>4 DEF Smaller
  <2>6. \A k \in 1..Len(y) : y[k] = Arranged(collection)[k]
    <3> SUFFICES ASSUME NEW j \in 1..Len(y) PROVE y[j] = Arranged(collection)[j]
      OBVIOUS
    <3>1. CASE j \in 1..m
      BY <1>15, <2>3, <3>1
    <3>2. CASE j \notin 1..m
      <4>1. PICK k \in 1..got : j = m + k
        BY <1>15, <3>2
      <4> QED BY <1>15, <2>2, <4>1
    <3> QED BY <3>1, <3>2
  <2>7. walk.page > 1 => page # <<>>
    <3> SUFFICES ASSUME walk.page > 1 PROVE page # <<>>
      OBVIOUS
    <3>1. m < total
      BY <1>1, <1>7, <1>12, <1>16 DEF OnTheWay
    <3>2. got > 0
      BY <2>4, <3>1 DEF Smaller
    <3> QED BY <1>13, <3>2
  <2>8. ASSUME walk.strategy # "cursor", more PROVE Len(y) = walk.page * walk.size
    <3>1. m = (walk.page - 1) * walk.size
      BY <1>1, <1>12, <1>16, <2>8 DEF OnTheWay
    <3>2. got = size
      BY <1>6, <2>1, <2>4, <2>8 DEF Smaller
    <3>3. walk.page \in Int /\ walk.size \in Int
      BY <1>1 DEF PageTypes, Walking
    <3>4. (walk.page - 1) * walk.size + walk.size = walk.page * walk.size
      BY <3>3, Distributed
    <3> QED BY <1>4, <1>15, <3>1, <3>2, <3>4
  <2> QED BY <2>5, <2>6, <2>7, <2>8
<1>17. ASSUME walk.strategy = "cursor"
       PROVE  /\ Rises(y)
              /\ IF more THEN y # <<>> /\ next = Number(Last(y)) /\ Covers(y, Last(y))
                         ELSE next = Null /\ lasting \subseteq ToSet(y)
  <2>1. skip = 0 /\ Query.by # "link"
    BY <1>1, <1>3, <1>17, QueryIs
  <2>2. Len(page) = Smaller(left, size)
    BY <1>5, <2>1 DEF Smaller
  <2>3. StandFirst(page, R)
    <3>1. \A k \in Nat : 0 + k = k
      OBVIOUS
    <3> QED BY <1>3, <1>5, <2>1, <3>1 DEF StandFirst
  <2>4. Climbing
    BY <1>1, <1>17
  <2>5. R = RestOf(Query) /\ left = Cardinality(R)
    BY <1>3
  <2>6. Rises(y)
    BY <1>1, <1>14, <1>17, <2>2, <2>3, <2>4, <2>5, CursorGoesOn
  <2>7. left > size => y # <<>> /\ Last(y) = Last(page) /\ Covers(y, Last(y))
    BY <1>1, <1>14, <1>17, <2>2, <2>3, <2>4, <2>5, CursorGoesOn
  <2>8. left <= size => lasting \subseteq ToSet(y)
    BY <1>1, <1>14, <1>17, <2>2, <2>3, <2>4, <2>5, CursorGoesOn
  <2>9. (more => left > size) /\ (~more => left <= size)
    BY <1>6, <2>1
  <2> QED BY <1>10, <2>1, <2>6, <2>7, <2>8, <2>9
<1>18. yielded' = y
  BY <1>11, <1>14
<1>19. PageTypes'
  BY <1>1, <1>8, <1>9, <1>15, <1>18 DEF PageTypes
<1>20. (Steady => Beginning)'
  BY <1>7, <1>8, <1>9, <1>16, <1>18 DEF Steady, Beginning
<1>21. (walk.strategy = "cursor" => Climbing)'
  BY <1>9, <1>17, <1>18 DEF Climbing, Rises
<1>22. link \in Links \cup {None}
  <2>1. Query.at \in Nat
    BY <1>2 DEF Queries
  <2> QED BY <1>10, <2>1 DEF Links
<1>23. walk.strategy = "link-header" /\ link # None =>
         link = [by |-> "link", at |-> walk.page + 1, limit |-> walk.size]
  <2>1. walk.strategy = "link-header" => Query.at = walk.page
    BY <1>1, QueryIs
  <2> QED BY <1>4, <1>10, <2>1
<1>24. (~more => link = None) /\ (more /\ ~walk.commas => link # None)
  <2>1. [by |-> "link", at |-> Query.at + 1, limit |-> size] # None
    <3>1. Query.at + 1 \in Nat /\ size \in Nat
      BY <1>2 DEF Queries
    <3>2. [by |-> "link", at |-> Query.at + 1, limit |-> size] \in [by : {"link"}, at : Nat, limit : Nat]
      BY <3>1
    <3> QED BY <3>2, PageAssumption
  <2> QED BY <1>10, <2>1
<1>25. walk.seen + Len(page) = Len(y)
  BY <1>1, <1>12, <1>13, <1>15 DEF OnTheWay
<1>26. Told(answer, page, more, total, next, link)'
  BY <1>10 DEF Told
<1>27. (walk.link # None => walk.strategy = "link-header") /\ (walk.cursor # None => walk.strategy = "cursor")
  BY <1>1 DEF OnTheWay
<1>28. PageTold(page, more, total, next, link)'
  <2>1. Steady => /\ total = Cardinality(collection) /\ (more <=> Len(y) < Cardinality(collection))
                  /\ walk.page > 1 => page # <<>>
                  /\ walk.strategy # "cursor" /\ more => Len(y) = walk.page * walk.size
    BY <1>7, <1>16
  <2>2. Steady' <=> Steady
    BY <1>8, <1>9 DEF Steady
  <2>3. HadUpTo(Last(yielded))' <=> Covers(y, Last(y))
    BY <1>8, <1>18 DEF HadUpTo, Covers
  <2> QED BY <1>8, <1>9, <1>17, <1>18, <1>23, <1>24, <1>25, <1>26, <1>27, <2>1, <2>2, <2>3 DEF PageTold
<1>29. OnePageOn'
  BY <1>22, <1>28 DEF OnePageOn
<1> QED BY <1>9, <1>19, <1>20, <1>21, <1>29 DEF PageInv


LEMMA ResumeStep == PageInv /\ Resume => PageInv'
<1> SUFFICES ASSUME PageInv, Resume PROVE PageInv'
  OBVIOUS
<1>1. PageTypes /\ (Steady => Beginning) /\ (walk.strategy = "cursor" => Climbing) /\ OnePageOn
  BY DEF PageInv, Resume
<1>2. PICK page \in Seq(Nat), more \in BOOLEAN, total \in Nat, link \in Links \cup {None} :
        \E next : PageTold(page, more, total, next, link)
  BY <1>1 DEF OnePageOn
<1>3. PICK next : PageTold(page, more, total, next, link)
  BY <1>2
<1>4. /\ dig(answer.data, <<"result">>) = Array(page)
      /\ dig(answer.data, <<"page", "hasMore">>) = Boolean(more)
      /\ dig(answer.data, <<"page", "total">>) = Number(total)
      /\ dig(answer.data, <<"page", "next">>) = next /\ parseNextLink(answer.links) = link
  BY <1>3 DEF PageTold, Told
<1>5. Array(page).of = page /\ TotalOf(Number(total)) = total
      /\ (Boolean(more) \in {Null, Boolean(FALSE)} <=> ~more)
  <2>1. Array(page).of = page
    BY DEF Array
  <2>2. TotalOf(Number(total)) = total
    BY DEF TotalOf, Number
  <2>3. Boolean(more).json = "boolean" /\ Boolean(more).of = more /\ Boolean(FALSE).of = FALSE
        /\ Null.json = "null"
    BY DEF Boolean, Null
  <2>4. Boolean(more) # Null
    BY <2>3
  <2>5. Boolean(more) = Boolean(FALSE) <=> ~more
    BY <2>3
  <2> QED BY <2>1, <2>2, <2>4, <2>5
<1>6. walk.seen + Len(page) = Len(yielded)
  BY <1>3 DEF PageTold
<1>7. PICK seen \in Nat : seen = Len(yielded)
  BY <1>1 DEF PageTypes
<1>8. PICK stop \in BOOLEAN : stop <=> NoMore(seen, next, link)
  OBVIOUS
<1>9. PICK cursor : cursor = IF walk.strategy = "cursor" /\ next # Null THEN next.of ELSE walk.cursor
  OBVIOUS
<1>10. PICK along : along = IF walk.strategy = "link-header" THEN link ELSE walk.link
  OBVIOUS
<1>11. PICK stage : stage = IF stop THEN "ended" ELSE "looping"
  OBVIOUS
<1>12. /\ walk' = [walk EXCEPT !.stage = stage, !.seen = seen, !.page = @ + 1, !.cursor = cursor, !.link = along]
       /\ UNCHANGED <<collection, answer, yielded, lasting, changes>>
  <2>1. walk.seen + Len(dig(answer.data, <<"result">>).of) = seen
    BY <1>4, <1>5, <1>6, <1>7
  <2> QED BY <1>4, <1>8, <1>9, <1>10, <1>11, <2>1 DEF Resume
<1>13. walk.strategy = "cursor" =>
         IF more THEN yielded # <<>> /\ next = Number(Last(yielded)) /\ HadUpTo(Last(yielded))
                 ELSE next = Null /\ lasting \subseteq ToSet(yielded)
  BY <1>3 DEF PageTold
<1>14. yielded # <<>> => Last(yielded) \in Nat
  BY <1>1 DEF PageTypes, Last
<1>15. walk.strategy = "cursor" =>
         /\ stop <=> ~more
         /\ cursor = IF more THEN Last(yielded) ELSE walk.cursor
  <2> SUFFICES ASSUME walk.strategy = "cursor"
               PROVE  (stop <=> ~more) /\ cursor = IF more THEN Last(yielded) ELSE walk.cursor
    OBVIOUS
  <2>1. stop <=> next.json # "number"
    BY <1>8 DEF NoMore
  <2>2. Null.json = "null" /\ Number(Last(yielded)).json = "number" /\ Number(Last(yielded)).of = Last(yielded)
    BY DEF Null, Number
  <2> QED BY <1>9, <1>13, <2>1, <2>2
<1>16. Steady => (stop <=> ~more)
  <2> SUFFICES ASSUME Steady PROVE stop <=> ~more
    OBVIOUS
  <2>1. /\ total = Cardinality(collection) /\ (more <=> seen < total)
        /\ more /\ ~walk.commas => link # None
        /\ ~more => link = None
    BY <1>3, <1>7 DEF PageTold
  <2>2. CASE walk.strategy = "has-more"
    BY <1>4, <1>5, <1>8, <2>2 DEF NoMore
  <2>3. CASE walk.strategy = "total-count"
    <3>1. stop <=> seen >= total
      BY <1>4, <1>5, <1>8, <2>3 DEF NoMore
    <3> QED BY <2>1, <3>1
  <2>4. CASE walk.strategy = "cursor"
    BY <1>15, <2>4
  <2>5. CASE walk.strategy = "link-header"
    <3>1. stop <=> link = None
      BY <1>8, <2>5 DEF NoMore
    <3> QED BY <2>1, <3>1 DEF Steady
  <2>6. walk.strategy \in {"has-more", "total-count", "cursor", "link-header"}
    BY <1>1 DEF PageTypes, Walking, PageStrategies
  <2> QED BY <2>2, <2>3, <2>4, <2>5, <2>6
<1>17. cursor \in Nat \cup {None} /\ along \in Links \cup {None} /\ walk.page + 1 \in Nat \ {0} /\ stage \in WalkStages
  <2>1. walk.cursor \in Nat \cup {None} /\ walk.link \in Links \cup {None} /\ walk.page \in Nat
    BY <1>1 DEF PageTypes, Walking
  <2>2. cursor \in Nat \cup {None}
    BY <1>9, <1>13, <1>14, <1>15, <2>1
  <2> QED BY <1>10, <1>11, <2>1, <2>2 DEF WalkStages
<1>18. PICK after \in Nat \ {0} : after = walk.page + 1
  BY <1>17
<1>19. /\ walk' \in Walking /\ walk'.stage = stage /\ walk'.seen = seen /\ walk'.page = after
       /\ walk'.cursor = cursor /\ walk'.link = along
       /\ walk'.strategy = walk.strategy /\ walk'.size = walk.size /\ walk'.commas = walk.commas
  <2>1. walk' = [walk EXCEPT !.stage = stage, !.seen = seen, !.page = after, !.cursor = cursor, !.link = along]
    BY <1>12, <1>18
  <2>2. walk \in Walking
    BY <1>1 DEF PageTypes
  <2> QED BY <1>17, <2>1, <2>2 DEF Walking
<1>20. PageTypes' /\ (Steady => Beginning)' /\ (walk.strategy = "cursor" => Climbing)' /\ (Steady' <=> Steady)
  BY <1>1, <1>12, <1>19 DEF PageTypes, Steady, Beginning, Climbing, Rises
<1>21. ASSUME stop PROVE AllHad'
  <2>1. Steady => Len(yielded) = Cardinality(collection)
    <3> SUFFICES ASSUME Steady PROVE Len(yielded) = Cardinality(collection)
      OBVIOUS
    <3>1. ~(Len(yielded) < Cardinality(collection))
      BY <1>3, <1>16, <1>21 DEF PageTold
    <3>2. Len(yielded) <= Cardinality(collection)
      BY <1>1 DEF Beginning
    <3>3. Cardinality(collection) \in Nat /\ Len(yielded) \in Nat
      BY <1>1, <1>7, CollectionCounted
    <3> QED BY <3>1, <3>2, <3>3
  <2>2. walk.strategy = "cursor" => lasting \subseteq ToSet(yielded)
    BY <1>13, <1>15, <1>21
  <2> QED BY <1>12, <1>19, <1>20, <2>1, <2>2 DEF AllHad
<1>22. ASSUME ~stop PROVE OnTheWay'
  <2>1. along # None => walk.strategy = "link-header" /\ along = [by |-> "link", at |-> after, limit |-> walk.size]
    BY <1>3, <1>10, <1>18 DEF PageTold
  <2>2. walk.strategy = "cursor" =>
          yielded # <<>> /\ cursor = Last(yielded) /\ cursor # None /\ HadUpTo(Last(yielded))
    BY <1>13, <1>14, <1>15, <1>22, PageAssumption
  <2>3. cursor # None => walk.strategy = "cursor"
    BY <1>3, <1>9 DEF PageTold
  <2>4. Steady =>
          /\ Len(yielded) < Cardinality(collection)
          /\ walk.strategy # "cursor" => Len(yielded) = (after - 1) * walk.size
    <3> SUFFICES ASSUME Steady
                 PROVE  /\ Len(yielded) < Cardinality(collection)
                        /\ walk.strategy # "cursor" => Len(yielded) = (after - 1) * walk.size
      OBVIOUS
    <3>1. more
      BY <1>16, <1>22
    <3>2. after - 1 = walk.page
      <4>1. walk.page \in Nat
        BY <1>1 DEF PageTypes, Walking
      <4> QED BY <1>18, <4>1
    <3> QED BY <1>3, <3>1, <3>2 DEF PageTold
  <2>5. after # 1
    <3>1. walk.page \in Nat \ {0}
      BY <1>1 DEF PageTypes, Walking
    <3> QED BY <1>18, <3>1
  <2>6. HadUpTo(Last(yielded)) => HadUpTo(cursor)' \/ cursor # Last(yielded)
    BY <1>12 DEF HadUpTo, Covers
  <2> QED BY <1>7, <1>12, <1>19, <1>20, <2>1, <2>2, <2>3, <2>4, <2>5, <2>6 DEF OnTheWay, Linked, HadUpTo, Covers
<1> QED BY <1>11, <1>19, <1>20, <1>21, <1>22 DEF PageInv

LEMMA PageStep == PageInv /\ [PageNext]_pageVars => PageInv'
<1> SUFFICES ASSUME PageInv, [PageNext]_pageVars PROVE PageInv'
  OBVIOUS
<1>1. CASE AskPage \/ Break
  BY <1>1, AskStep
<1>2. CASE Yield
  BY <1>2, YieldStep
<1>3. CASE Resume
  BY <1>3, ResumeStep
<1>4. CASE \E i \in Entries : Change(i)
  BY <1>4, ChangeStep
<1>5. CASE UNCHANGED pageVars
  <2>1. walk' = walk /\ collection' = collection /\ answer' = answer /\ yielded' = yielded
        /\ lasting' = lasting /\ changes' = changes
    BY <1>5 DEF pageVars
  <2>2. PageTypes' <=> PageTypes
    BY <2>1 DEF PageTypes
  <2>3. (Steady' <=> Steady) /\ (Beginning' <=> Beginning) /\ (Climbing' <=> Climbing) /\ (AllHad' <=> AllHad)
    BY <2>1 DEF Steady, Beginning, Climbing, Rises, AllHad
  <2>4. OnTheWay' <=> OnTheWay
    BY <2>1 DEF OnTheWay, Linked, Steady, HadUpTo, Covers
  <2>5. OnePageOn' <=> OnePageOn
    BY <2>1 DEF OnePageOn, PageTold, Steady, Told, HadUpTo, Covers
  <2> QED BY <2>1, <2>2, <2>3, <2>4, <2>5 DEF PageInv
<1> QED BY <1>1, <1>2, <1>3, <1>4, <1>5 DEF PageNext

LEMMA ItemsOnce == PageInv => EveryItemOnce
<1> SUFFICES ASSUME PageInv PROVE EveryItemOnce
  OBVIOUS
<1>1. PageTypes /\ (Steady => Beginning) /\ (walk.strategy = "cursor" => Climbing)
  BY DEF PageInv
<1>2. PICK C : C = collection /\ C \subseteq Nat /\ IsFiniteSet(C)
  BY <1>1, CollectionCounted
<1>3. PICK n \in Nat : n = Cardinality(C)
  BY <1>2, FS_CardinalityType
<1>4. PICK y \in Seq(Nat) : y = yielded
  BY <1>1 DEF PageTypes
<1>5. PICK m \in Nat : m = Len(y)
  OBVIOUS
<1>6. PICK o : o = Arranged(C)
  OBVIOUS
<1>7. o \in Seq(Nat) /\ Len(o) = n /\ DOMAIN o = 1..n
  BY <1>2, <1>3, <1>6, ArrangedTypes
<1>8. DOMAIN y = 1..m
  BY <1>5
<1>9. Steady => m <= n /\ \A k \in 1..m : y[k] = o[k]
  BY <1>1, <1>2, <1>3, <1>4, <1>5, <1>6 DEF Beginning
<1>10. Steady => IsPrefix(y, o)
  <2> SUFFICES ASSUME Steady PROVE IsPrefix(y, o)
    OBVIOUS
  <2>1. SubSeq(y, 1, m) = SubSeq(o, 1, m)
    BY <1>5, <1>7, <1>9
  <2> QED BY <1>5, <1>7, <1>9, <2>1 DEF IsPrefix
<1>11. Steady => (walk.stage = "yielded" /\ walk.page > 1 => dig(answer.data, <<"result">>).of # <<>>)
  <2> SUFFICES ASSUME Steady, walk.stage = "yielded", walk.page > 1
               PROVE  dig(answer.data, <<"result">>).of # <<>>
    OBVIOUS
  <2>1. PICK page, more, total, next, link : PageTold(page, more, total, next, link)
    BY DEF PageInv, OnePageOn
  <2>2. page # <<>> /\ dig(answer.data, <<"result">>) = Array(page)
    BY <2>1 DEF PageTold, Told
  <2>3. Array(page).of = page
    BY DEF Array
  <2> QED BY <2>2, <2>3
<1>12. InOrder
  BY <1>2, <1>4, <1>6, <1>10, <1>11 DEF InOrder
<1>13. Whole
  <2> SUFFICES ASSUME walk.stage = "ended"
               PROVE  /\ Steady => ToSet(yielded) = collection
                      /\ walk.strategy = "cursor" => lasting \subseteq ToSet(yielded)
    BY DEF Whole
  <2>1. AllHad
    BY DEF PageInv
  <2>2. ASSUME Steady PROVE ToSet(y) = C
    <3>1. m = n
      BY <1>2, <1>3, <1>4, <1>5, <2>1, <2>2 DEF AllHad
    <3>2. \A k \in 1..m : y[k] \in C
      BY <1>2, <1>3, <1>6, <1>9, <2>2, <3>1, ArrangedAt
    <3>3. ASSUME NEW i \in C PROVE \E k \in 1..m : y[k] = i
      <4>1. PICK k : k = Cardinality(Reached(C, i))
        OBVIOUS
      <4>2. k \in 1..n /\ o[k] = i
        BY <1>2, <1>3, <1>6, <4>1, ArrangedOnto
      <4> QED BY <1>9, <2>2, <3>1, <4>2
    <3> QED BY <1>8, <3>2, <3>3 DEF ToSet
  <2> QED BY <1>2, <1>4, <2>1, <2>2 DEF AllHad
<1>14. Steady \/ walk.strategy = "cursor" => Rises(y)
  <2>1. ASSUME Steady PROVE Rises(y)
    <3> SUFFICES ASSUME NEW k \in 1..m, NEW l \in 1..m, k < l PROVE y[k] < y[l]
      BY <1>5 DEF Rises
    <3>1. k \in 1..n /\ l \in 1..n
      BY <1>9, <2>1
    <3>2. o[k] < o[l]
      BY <1>2, <1>3, <1>6, <3>1, ArrangedRises
    <3> QED BY <1>9, <2>1, <3>2
  <2>2. ASSUME walk.strategy = "cursor" PROVE Rises(y)
    BY <1>1, <1>4, <2>2 DEF Climbing
  <2> QED BY <2>1, <2>2
<1>15. Rises(y) => m = Cardinality(ToSet(y))
  <2> SUFFICES ASSUME Rises(y) PROVE m = Cardinality(ToSet(y))
    OBVIOUS
  <2>1. \A k \in 1..m : y[k] \in Nat
    BY <1>5
  <2>2. Distinct(y)
    <3> SUFFICES ASSUME NEW k \in 1..m, NEW l \in 1..m, y[k] = y[l] PROVE k = l
      BY <1>8 DEF Distinct
    <3>1. ~(k < l) /\ ~(l < k)
      <4>1. k < l => y[k] < y[l]
        BY <1>5 DEF Rises
      <4>2. l < k => y[l] < y[k]
        BY <1>5 DEF Rises
      <4>3. y[k] \in Nat /\ ~(y[k] < y[l]) /\ ~(y[l] < y[k])
        BY <2>1
      <4> QED BY <4>1, <4>2, <4>3
    <3> QED BY <3>1
  <2>3. Cardinality({y[k] : k \in 1..m}) = m
    <3>1. m \in 0..Len(y)
      BY <1>5
    <3> QED BY <2>2, <3>1, PrefixSize
  <2>4. ToSet(y) = {y[k] : k \in 1..m}
    BY <1>8 DEF ToSet
  <2> QED BY <2>3, <2>4
<1>16. NotTwice
  BY <1>4, <1>5, <1>14, <1>15 DEF NotTwice
<1> QED BY <1>12, <1>13, <1>16 DEF EveryItemOnce

\* Pagination: paginate yields every item once, for any collection, size of its pages and
\* number of changes: in order and all of them while nothing changes, by whatever the
\* generator is told to go on, and by cursor all that were there throughout, none twice.
THEOREM EveryItemYieldedOnce == PageSpec => []EveryItemOnce
BY PageInitially, PageStep, ItemsOnce, PTL DEF PageSpec
===============================================================================
