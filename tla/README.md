# neutrx in TLA+

TLA+ models of neutrx, checked with TLC, with theorems proved by TLAPS. Source
paths are relative to the repository's package: `src/…` is the TypeScript
implementation and `docs/…` its documentation. `PROJECT.json` maps every
definition to the lines it stands for.

## 1. The system

neutrx is an HTTP client for Node and browsers. `NeutrxClient.request` sends a
request through a fixed sequence of parts, most of which keep state that all
requests of the client share:

    configuration: library, client, live defaults, request
      request interceptors, plugins, security checks
      -> cache (serve fresh, serve stale and revalidate, or go on)
      -> rate limiter
      -> circuit breaker: canRequest
      -> retry loop
           -> bulkhead (a slot per host, or a place in its queue)
                -> deduplicator (join an identical call)
                     -> redirects, each hop checked, resolved and sent
                          by an adapter (HTTP/1.1, HTTP/2, fetch, browser)
      -> response parsing, validateStatus, interceptors, plugins
      -> cache.set, circuit breaker: recordSuccess, telemetry
      or, on an error: stale response from the cache, or recordFailure

Everything runs on one JavaScript thread: what a function does between two
awaits is one step. The difficulty is in what happens between: many requests
are inside these parts at the same time, timers and events of sockets fire
between their steps, callers' hooks run and throw there, and with a shared store
(`StateAdapter`) other processes change the same records.

| Component | State it keeps | Operations | What makes it correct |
|---|---|---|---|
| Bulkhead (`resilience/Bulkhead.ts`) | a pool per host: active, queue, adaptive limit, timers of the queued | execute, drain, record, queue timeout | slots neither lost nor given twice; no waiting beside a free slot; first come first served; hosts do not hold up each other |
| Circuit breaker (`resilience/CircuitBreaker.ts`) | a record per host in the process, perhaps a copy in a store | canRequest, recordSuccess, recordFailure | an open circuit fails fast; it opens at the threshold and closes again; counts do not leak |
| Retry engine (`resilience/RetryEngine.ts`) | the loop of each request; the shared budget | execute, consume, sleep | only what may be repeated is; every retry is paid for; abort and deadline stop the loop |
| Cache (`performance/CacheEngine.ts`) | entries, marks of running revalidations | lookup, set, refresh, lock, unlock, invalidate, prune | bounded; locks are given back; a stale response does not stay; a tag belongs to its body |
| Deduplicator (`performance/Deduplicator.ts`) | calls under way by key | dispatch | identical requests share one call, and one that is under way |
| Rate limiter (`security/RateLimiter.ts`) | token bucket, log or counter, in the process or a store | checkLimit | counts are capped; nobody within the limit is refused |
| Request flow (`core/NeutrxClient.ts`) | none of its own beyond the above | request, hedged, concurrent, paginate, extend, destroy | the parts respect each other's limits; every request ends; every item of a collection comes once |
| Configuration (`core/config.ts`, `core/defaults.ts`, `core/Neutrx.ts`) | live defaults of each client, profiles | create, extend, setters, merging | what was said last holds; a profile keeps its rules |
| Headers (`core/headers.ts`) | headers of a request over its attempts | set, merge, finalize | what is blocked is not sent; what describes a body or a route is sent with it only |
| Redirects, DNS, proxies, cancel tokens (`core/redirect.ts`, `dns.ts`, `proxy.ts`, `cancel.ts`) | the chain of hops, pinned addresses | follow, resolve, cancel | credentials stay with their origin; only what is allowed is contacted |
| Security (`security/SecurityManager.ts`) | policies | checks of URLs, redirects, addresses | the same |
| HTTP/1.1 transport (`adapters/http.ts`) | one promise, its timers, listeners of a socket that the agent shares; the pace of two bodies | adapter call | settled once, nothing left behind for the next exchange; bytes whole, within limits and rates |
| HTTP/2 transport (`adapters/http2.ts`) | table of sessions, streams in use | getSession, request, retire, closeHttp2Sessions | streams are counted; sessions are reused and bounded; each request is answered |
| Fetch and browser transports (`adapters/fetch.ts`, `browser.ts`) | a controller, a timer, counted bytes | adapter call | the first cause wins; progress adds up |
| WebSockets (`core/nodeWebSocket.ts`, `core/websocket.ts`) | one connection with its reconnect timer and half-received message | connect, close, abort, frames, reconnect | one connection at a time that close() reaches; close() is final; messages are whole; given up only for a reason |
| Browser client (`core/BrowserClient.ts`) | its own cache, marks and metrics | request, revalidation | as the Node parts |
| Batching (`performance/DataLoader.ts`) | queued keys, memoized promises | load, clear, prime, dispatch | every load settles; the failure of an old load does not touch a newer one |
| Interceptors, plugins (`interceptors/`, `plugins/`) | ordered handlers; hooks; mocks, recordings, the OAuth2 token | use, eject, run; hooks | order; no request sends an expired token in the time its margin leaves; what is mocked stays home |
| State adapters (`state/`) | a key-value store | get, set, delete, clear | a TTL means the same everywhere |
| Monitoring (`monitoring/`) | counters, samples, spans | record | every request is told of once |
| Service discovery (`core/config.ts`) | a counter per base URL | resolveServiceEndpoint | each endpoint has its share |
| Errors (`core/NeutrxError.ts`) | none | classes, conversions | what is retried is what may be |

`PROJECT.json` lists every component with its status, and under `hazards` the
places where this code is hard to test, each with the properties that watch it.

How they interact: calls nest as in the sequence above, so a slot of the
bulkhead is held while a request follows a call that another leads; the breaker
is asked once, before the loop; the cache answers before the limiter and again
after a failure; background revalidations pass the breaker, the loop and the
bulkhead by. Breaker and limiter of several processes meet only in the store.
Adapters talk to the rest through one promise each, but the HTTP/2 sessions are
shared by all clients that use the adapter. Interceptors, hooks and listeners run
in the middle of a request and may change the client they run in.

## 2. The modules

Each component has one module with its variables, `Init`, one action per step
between awaits, `Next` and its properties. Six modules `MC…` put components that
share no state side by side, with a variable (`part`, `deployment`) that says
which one moves in a behaviour and never changes: they share a state space and
no behaviour. There is a `.cfg` per run and, where there are theorems, a module
`…Proofs`. Names follow the source. The operators that no action uses and that a
module's header lists as mutated forms (`SpanOfOwn`, `CaughtTwice`, …) are what
a plausible bug would make of the definition they precede; with them in place
the property they belong to fails, which shows that it depends on that code.

| Model-checked module | Hosts |
|---|---|
| `MCResilience` | `RetryEngine`; `Bulkhead` |
| `MCCircuitBreaker` | `CircuitBreaker` three times (alone, as the constants say; a race of three requests; a fleet with a store) over `BreakerProtocol`; `Settings`; `StateAdapters` |
| `MCCacheEngine` | `CacheEngine`; `Failures`; `FetchBodies` |
| `MCRequestPipeline` | `RequestPipeline` (composed of `Bulkhead`, `BreakerProtocol` and the deduplicator); `Batching`; `Concurrent`; `TokenRefresh`; `Interceptors`; `FetchExchange` |
| `MCTransports` | `HttpExchange`; `Http2Sessions`; `NodeWebSocket`; `NativeSocket` |
| `MCClient` | `Redirects` over `SecurityPolicy`; `RateLimiter`; `RequestHeaders`; `BodyTransfer`; `Endpoints`; `Telemetry`; `BrowserClient`; `Pagination`; `Hedging`; `PluginHooks` |

Common abstractions: a clock is an age that stops growing where no comparison
can tell further values apart, or a counter with a bound that is named in the
`.cfg`; bodies, URLs and keys are model values or small records; logging,
wording and events without listeners inside the package are left out.
`Numbers` and `Undefined` hold minimum, maximum and the value of what is
undefined.

### Resilience

**Bulkhead.** `active`, `queue` and `limit` are the fields of `DomainPool`, per
host; `armed` the calls whose queue timer runs; `status` and `dom` say where each
call is. `Start`, `Enqueue` and `Refuse` are the branches of `execute`, `Finish`
is the `finally` of `#run` with its `#drain` and the adaptive `#record`,
`QueueTimeout` the timer. The adaptive limit is computed with the code's integers
and percentages.

**CircuitBreaker, BreakerProtocol.** `CircuitBreaker` keeps the *objects* of the
code: `circuits[w]` is the object a process has in its map, `rec` the heap they
live in, so that two requests that create the record at the same time hold
different objects, as they do. `pc`, `op`, `ref` and `copy` say where each call
stands and what it has read; `ready[w]` is the queue of microtasks, which run in
their order before anything else of that process. Reads and writes of `store`
take any time and come back in any order; a process may restart with an empty
map. `FallBack` is a request that fails and is answered from the cache, which reports
nothing and stays counted in `active` (`unreported` is the history of these);
`TakeBack` one that has reported its success when a listener or the span throws, and
reports a failure as well. Assumed: an attempt on the network outlasts the microtasks
of its own admission; a call of the store does not reject. `BreakerProtocol` is the
abstract specification: each of the three methods in one step, one record; a request
reports once, not at all, or a success and then a failure. In one process without a
store `CircuitBreaker` refines it (`KeepsPromise`, with `Here(w)` as refinement
mapping).

**RetryEngine.** The loop of `execute` with a step for each await: the attempt,
the `onRetry` hook, the sleep and the check afterwards; the deadline may have passed
before the first. `spent` is the shared list
of charged times; `deadline`, `aborted` and `wake` are the ends a sleep can have.
Delays are those of the strategies, in whole ticks. `Caught` is the catch clause
with its whole decision: shouldRetry, Retry-After, the budget and the charge.

**Failures.** What goes wrong in an attempt, the error class that Node's, the
fetch and the browser client make of it, and what the retry engine makes of that
error. The classes and the lists of the engine are two accounts of what may be
tried again, written in two files; an error keeps only what either looks at.

**RateLimiter.** The three algorithms over one state per process or one in a
shared store that may fail. `callAt` and `seen` are the read and the write with
the awaits between; `ready` the queue of microtasks. A token is `Window` units, so
that the refill per tick is whole. `granted` and `crowd` are history: the times at
which calls were let pass, and the most calls that were inside at the same time.
Assumed: the microtasks of a turn fit in one tick.

**StateAdapters.** The memory and the Redis adapter, with namespaces, `clear` and
the two bridges, behind which the stores above may be. A place is a key as the
backend has it. A Redis write is its commands one by one, between which a caller
may die or be refused. Left out: callers who disagree about the TTL of one place.

### The flow of a request

**RequestPipeline.** `request` from `canRequest` to its end for several requests
to one host, with the deduplicator. The bulkhead is an instance of `Bulkhead`,
its actions taken step for step; the breaker is an instance of `BreakerProtocol`,
that is, what `CircuitBreaker` was checked to keep; between `recordSuccess` and its
end a request is `told`, and may still fail; the loop is reduced to its
count, the cache to whether it has something to fall back to. Assumed: errors of
the bulkhead are not retried, as their codes are not among the default
`retryableCodes`.

**CacheEngine.** `entries` and `locks` are the maps of the class, with ages in
place of the times of creation and last access; `pc`, `key` and `got` say where
each request of the client is, `tpc`, `tkey`, `tag` and `answer` the same of the
background revalidations that `NeutrxClient` starts. A revalidation is a request
with `cache: false` and therefore never deduplicated. The origin, which has a
`version` per resource and answers with it or with a 304, is external.

**Settings.** What a request is configured with: the library's defaults, the
configuration and live defaults of each client, a profile, and what the request
says. A value is the number of the moment at which it was said, so that "said
last" is a comparison; one option stands for all that are merged alike, one
header for all names; `auth`, the proxy, the security rules and `maxBodyLength`, whose
default is the profile's, for themselves. (In the browser that default is the same for
all profiles; its runs are about the proxy only.) `heard` is history: what a client was
told of each option, and the profile of the first client of its line.

**RequestHeaders.** The headers of one request from the caller to the wire over
attempts and a redirect. A value is who set it; `Blocked` is the value `false`.

**Interceptors.** One pass through the chain at a time, synchronous until the
first handler that has to be awaited, while handlers are added, ejected and
cleared, by handlers too. **PluginHooks** has `use`, `unuse` and the live passes
over hooks with the four plugins that keep state; a plugin that is taken out
leaves its hooks behind and, used again, adds them once more. **TokenRefresh** is
the `beforeRequest` hook of the OAuth2 plugin and what becomes of the token it
attaches: fetches overlap, an older token may replace a newer one, and its lifetime is
counted from the arrival of the answer (assumed: an answer takes no longer than the 30
seconds of the margin). The hook runs once; the queues and hooks behind it, and each
backoff, take any time before `Send` sends what `carried` holds. So `TokenValid` speaks
of what is sent within `Grace` of the hook, which is what the delay of the answer leaves
of the margin; a request that waits for longer may send an expired token.

**Redirects, SecurityPolicy.** One request and the hops it follows, with the
lookups by which the adapters find the address, a hook that may put back what was
stripped, and a resolver that answers differently each time. `SecurityPolicy` are
the checks of a URL, a redirect and a resolved address as operators over parsed
hosts and addresses; the spellings of an address are taken as parsed.

**Telemetry.** Counters, samples and spans of overlapping requests, in which the store,
listeners and plugins may throw; a percentile is what stands at a place of the sorted
durations, and `ToldOnce` speaks of the metrics of both clients. **Endpoints** is the
weighted choice among discovered endpoints, with the code's counter.

### What callers wrap around requests

**Batching** is the DataLoader: `memo` is the cache map with loads in place of
their promises, `promise` what has become of each, `jobs` the queue, `due` the
scheduled callback that `scheduled` promises. `Forget` is the catch clause in
which a rejected promise takes itself out of the map, a microtask after its batch
rejected it. **Concurrent** is `concurrent()`: `worker` says which request each
worker waits for, and that it is `Broken` when its promise was rejected, be it by
fail-fast or by a request function that throws (assumed: `onProgress` does not
throw). **Pagination** is the generator over a collection that changes between two
requests, by page number, total count, cursor or link. **Hedging** is the same
request several times, each a delay later, until the first one settles.

### Transports

**HttpExchange.** What `nodeHttpAdapter` does from `transport.request` until its
promise settles and everything it registered is gone, for several exchanges after
each other on one connection of a keep-alive agent. `settled`, `connectTimer` and
the listeners of the socket (`dials`, `hears`) are those of the closure of each
exchange; the connection (`link`, `holder`), the requests, their responses and
their error events are Node's, and stated at the head of the module. The parts
that all ways to settle have in common are operators: `Destroyed` is
`req.destroy()`, `Settled` is the guard and the assignments of `fail` and of the
resolution, `Cleaned` is `cleanupSocketTiming`. `faulty` is a history variable.

**BodyTransfer.** The bytes of the same adapter: request and response slice by
slice at the same time, each paced by `maxRate` and limited in size, over attempts
that share the body. **FetchBodies** has the three copies of this in the fetch,
the plain browser and the browser client's transports, with what progress is
told. **FetchExchange** is the race of the answer with a signal, a cancel token
and the timer.

**Http2Sessions.** The session table in insertion order, the sessions that were
ever opened, and for each request the stretch between `getSession`, the
continuation after the await, `session.request` and the end of its stream.
Node's events arrive in any order between turns, never inside one. One owner of
sessions; origin and TLS settings together are the key.

**NodeWebSocket.** One object; `wire[k]` is what has become of the request and the
socket of the k-th `#connect`, and the fields of the object are those of the
class. The handlers are the actions, and those of an old request or socket may run at
any time after the reconnect. They change the fields whichever connection these name
by then: the late close event of an old socket (`core/nodeWebSocket.ts:135`) reports the
new connection closed, forgets it and arms another timer. `stranded` is history: the
connections that were forgotten through an event of another one. They go on with
nobody to close them, and their bytes still reach the object. The properties hold but
for them. Assumed of peers: nothing comes on a socket after its close frame. The callback
of the close frame's write, which ends the socket, brings no change of its own.
**NativeSocket** is the wrapper around the
platform's WebSocket, with callbacks and constructors that throw.

**BrowserClient.** `request()` of the browser's client with its own cache, marks,
background revalidations and metrics; the adapter and everything of the user's
may fail wherever it is called.

## 3. The runs

Six runs pass:

| Run | Instance | Shows |
|---|---|---|
| `resilience` | Retries: 3 requests (replayable, not replayable, forced by the user's shouldRetry), begun before or after the deadline, budget 1 per window of 2, clock to 4. Bulkhead: 4 calls, 2 hosts, limits moving in 1..3, queue of 2, calls of one host may hang for ever | retries are granted, rate-bounded and safe, and stop on abort; slots and queues are exact and bounded, starts in order, nobody waits beside a free slot; a host that hangs holds up no other; every loop ends |
| `breaker` | One process without store, and either two requests that may end on a cached response (2 in all) or report twice, or three racing ones; two processes with a shared store and a restart, thresholds 2; two clients with every setter; 2 callers of both adapters, clock to 3 | records are consistent in every copy; without a store nothing leaks but what ended without a report, and the abstract promise is kept; with one both processes recover once failures end; what is sent is what was said last, and a profile keeps its rules, but for the limit of bodies that is handed on; a TTL means the same in memory and in Redis |
| `cache` | 2 resources, cache of 1, a request and 2 revalidations, eviction, invalidation, failures, forbidden storage, one change at the origin; every failure of three clients with 2 retries; 2 attempts of every kind of body | locks given back, size kept, a stale response is replaced; only what says of itself that it may be retried is; a request that succeeds has moved its bodies whole, and progress adds up |
| `pipeline` | 4 requests (2 identical and retryable), 2 slots, queue of 1, threshold 1, stale fallback; 3 loads of 2 keys in batches of 2; a concurrent call of 3 requests with 2 workers; 2 requests that share a token of 4 quarters of a minute (margin 2, delay 1, clock to 7); a chain of handlers; a fetch with its three cancellers | slots and keys are held by the living; every request and load ends; the memo is honest; every request of a call accounted for, nothing sent after a fail-fast error; no expired token sent within its grace; handlers in turn; the first cause is told |
| `transports` | HTTP/1.1: 2 exchanges, 1 connection that may be kept, refused or broken; HTTP/2: 3 requests, 2 keys, 1 session, 1 stream, 3 sessions opened; WebSocket: 4 connects, 1 reconnect attempt in a row; native WebSocket: 2 reconnects, every backoff | an exchange that has settled leaves nothing behind, and names its cause; streams counted, table bounded; connections, but for stranded ones, single, apart and final; given up only for a reason; each exchange, request and close comes to an end |
| `client` | Redirects of up to three hops among four URLs under several policies; the limiter's three algorithms, 3 calls of one process or 2 of two with a store; 2 attempts of headers and of bodies; endpoint lists that change; 2 requests with telemetry; 2 of the browser's client over 2 keys with room for one; pages of a collection of 3 that changes twice; 3 hedged requests; 2 requests through plugins that come and go | credentials stay home, only what is allowed is contacted; the allowance is kept; what is sent is as meant, in its rate and limits; shares are fair; each request is told of once; marks are alive; every item comes once; losers are stopped; hooks do as they are said to |

Six end in a counterexample; each is about a sentence of the documentation
that the code does not keep, quoted under `findings`:

- `breaker_slow_store`: a store answer that arrives after the circuit tripped
  replaces the open record; `docs/circuit-breaker.md:52` says it fails fast.
- `cache_tag`: a 304 refreshes an entry other than the one it answers for, which
  takes over a tag that is not its own; `docs/cache.md:77`.
- `pipeline_retry`: a retry goes out while the circuit is open;
  `docs/retries.md:25` says that retries respect it.
- `limiter_cap`: concurrent requests all pass on the same state;
  `docs/security-features.md:152` says that counts are capped. (What the run
  shows concerns one process without a store; `docs/config-reference.md:321`
  calls bridged stores best-effort.)
- `http2_reuse`: the late end of a retired session removes its successor from
  the table; `docs/config-reference.md:258` says that sessions are reused.
- `config_layers`: a default `auth` replaces the Authorization header that a request
  names itself; `docs/config-reference.md:16` says that per-request config always wins,
  "including request headers over matching default headers". The property has two more
  parts, which the code does not keep either, though the shortest counterexample is of
  the first: `neutrx.defaults` do not reach the requests of `neutrx.concurrent()` and its
  like (`core/Neutrx.ts:190`; `:53` of the same document), and a client of profile
  `standard` that is made from one of `legacy` inherits the infinite limit of bodies
  (`core/config.ts:42`; `:43` of the document).

### Properties that join others

A property of a run may be the conjunction of two that answer one question:
`RetriesGranted` (granted one by one, and at most at the budget's rate),
`PoolSound` (`ActiveExact`, `QueueExact`, `Bounded`, `WorkConserving`),
`CacheSound`, `HeldByTheLiving` (`SlotsHeld`, `Coalesced`), `TableExact`,
`AllowanceKept` (`OverrunBounded`, `NeverTooStrict`), `EachGetsItsTurn` (order,
and that nobody is stranded), `AllSettle` and `EachComesToAnEnd` (the liveness
of several parts), `ToldOnce` (`Telemetry` and the browser's metrics), `AsTold`,
`EveryItemOnce`, `HooksAsTold`. Each is taken apart where it is defined.

### Bounds

The bounds are the smallest at which each case the code distinguishes occurs. Two
requests suffice for a race between a read and a write of the same record, three for an
overwritten overwrite (the breaker) or for a follower that outlives its leader (the
deduplicator), four for two slots, a queue and a refusal at the same time. Two exchanges
are one and the next on its connection; two attempts one and the one that finds what the
first has left. Thresholds of 2 separate the first failure from the tripping one. A
cache of one evicts with two resources. One retry per window of two ticks and a clock to
4 contain two complete windows; the clock of the limiter contains a full window, its
boundary and the next. Three loads are a load, its successor after a clear, and one more
that shares or splits its batch; three requests for two workers leave one that is queued
when a worker ends, breaks or fails fast. Three sessions are one that lives, one that is
retired and the one that replaces it. Four connects are the first, its reconnect, and
one more after each of a successful and a failed handshake; they leave room for a late
event that strands a connection, and for one that comes upon a stranded one. Two
redirects followed and a third refused go away, elsewhere and back. Two clients are one
and the one made from it. Three items in pages of one or two end within a page and at
its edge; two changes are one before and one behind the walk. Three hedged requests
leave one to be stopped and one not yet sent. Two requests through plugins meet at one
hook while a third party takes its plugin out. `EndOfStore`, `LimiterTime`, `EndOfTime`,
`MaxTime` and `Horizon` are the ends of clocks, `CounterLimit` is above where the
endpoint counter has gone round for every list.

A clock that stops at its bound, requests that are answered once, and walks that
end, end the behaviours of `resilience`, `cache`, `transports` and `client` (and
of the violation runs of the same modules): these runs do not look for deadlock.
`breaker` and `pipeline` do, and so do their violation runs.

`client` states its symmetry: the users, tasks and keys of the browser client may
be exchanged; the run checks safety only, so this is sound.

### Fairness

Only what the event loop and the timers of the code guarantee:

- `resilience`: the retry loop runs, attempts end (adapters time out), hooks
  return, timers fire. Calls of the live host finish; calls of the other may hang,
  and there the queue timers fire.
- `breaker`: microtasks run, the store answers, time passes, and a process
  keeps sending requests. That failures end is a premise of `FleetRecovers`.
- `cache`: requests and revalidations that are under way are answered or fail and
  then settle. Strong fairness, per resource, for being looked up, for an origin
  that answers, and for a revalidation whose answer is applied: `Freshens` is
  about a client that goes on asking and an origin that does not fail for ever,
  while invalidation, eviction and failures may intervene again and again.
- `pipeline`: the event loop runs and network calls end; nothing is assumed of
  queue timers, of new requests or of the cooldown. `EachKindTerminates` (in
  `AllSettle`) is `Terminates` for one request of each kind, as those of a kind may
  be exchanged. The loader's callback runs and its batch function returns.
- `transports`: continuations run, the connect and response timeouts fire, ended
  streams and sessions are reported. Of an HTTP/1.1 connection only that it does
  not stay active for ever without coming to an end, so that its idle timeout
  fires at last (section 5). Of the WebSocket only that a socket in
  CLOSING ends: `close()` sets no timer for the peer's answer, so this is an
  assumption about peers.

## 4. The theorems

TLAPS proves them for every value of the constants that the named assumption of
the module allows; TLC checked the inductive invariants first. The assumptions
are the types of the constants, and where a theorem needs more it is named below.
The proofs are in eight modules:

- `Lists` has what the others need of queues (what taking from the front, removing
  from the middle and joining the end leave in a sequence), `Least` (a set of
  natural numbers that is not empty has a least one), what the sums of sequences and
  of finite sets come to (`TotalOfTail`, `SumsAdd`), and what is left of a list of times
  when the old ones are dropped (`RecentAreLast`). Those are recursive functions, and
  such a function is only what its equation says if some function satisfies it:
  `Recursion` shows that there is one by taking the least length at which there is
  none, and the other lemmas find the least place at which they would fail.

- `ResilienceProofs`. Of the bulkhead: `TypeCorrect`; then, each on top of it:
  `WorkConservation` and `Boundedness` (together `RoomInv`, which says that
  nobody waits beside a free slot and that queues and limits are in bounds;
  it is inductive because every branch that frees a slot or raises the limit
  drains), `Growth` (an action property from the same
  invariant), `QueueExactness` (`QueueInv`: a call is at one place of the queue
  of its own host exactly while its timer is armed; the property alone is not
  inductive, since removing a call from a sequence says nothing about the others
  unless none occurs twice) and `ActiveExactness` (`CountInv`: `active` is the
  number of running calls; lemmas about what `#drain` starts carry it).
  `PoolExactness` and `Soundness` join them to the property of the run. Of the
  retry loop: `AttemptsAreGranted` (every retry was charged), `Stops` (nothing is
  sent after an abort) and `Unrepeated` (what may not be repeated is not), the
  last two joined in `Safe`. That an error was one to retry is decided in the
  catch clause and has to survive the hook and the sleep, so the invariant carries
  it along (`Pending`). `WithinBudget`, for any number of requests that share a
  budget: what the list of grants no longer holds is older than a window, and up to
  each grant that it holds there were no more than the budget of the windows begun by
  then (`WithinRate`); both survive the dropping of the old, since one whole window lies
  between a grant and its being dropped. No request has made more retries than it
  was granted, so the sum of the retries is within the sum of the grants.
  Of the limiter: `LimiterTypes`, and `Allowance`, for any limits, windows, bucket
  sizes, calls and time. Three invariants carry it. `StatesInv` says of every state
  there is, in `#limiters`, in the store and in the hands of a call, that its
  algorithm makes such states (`SoundAt`) and that it has counted nothing that was
  not granted (`HonestBy`), however stale it is: so a state that refuses has an
  interval that was full. `OverrunAt` is about one process without a store, where
  concurrent calls overwrite each other: what was granted since the beginning of an
  interval is at most what the state has used, times the most calls that were under
  way at a time; and the state in the hands of the call at place p of the queue has
  used enough to account for p more grants as well (`PlacedAt`).
  `AllowanceKept` alone would not survive a step, for it does not say how much of the
  overrun is still to come. As time passes the state forgets what left the interval
  (`Ticked`), and what was found of the intervals that ended then is kept as
  `EndedBound`. The three algorithms differ only in what a state has used of an
  interval and in the lemmas that say so.

- `CircuitBreakerProofs`. `TypeCorrect` and `Agreement`: a record is closed exactly when
  it counts fewer failures than the threshold. As records are copied, overwritten and
  read late, the invariant says it of the heap, the store and everything on the way
  between them (`Records`), and that a continuation that runs was handed an object
  (`Control`). `NeverLeaked` and `KeepsProtocol`, without a store: a record counts no
  more than the requests in flight and those that ended without a report, and each
  process implements `BreakerProtocol`. The invariant (`Solo`) says which calls hold the
  object that the process has in its map. Two calls that create the record at the same
  time hold different ones, and the first is lost; what saves the count is that a call
  that is still on its way to `active + 1` stands in the queue of microtasks before
  anything can be on the network, so what is lost was fresh (`Fresh`), and from then on
  there is one object for all (`Settled`). Each step is then one of the three atomic
  methods, a tick, or a stutter. `NoneLeaked` and `PromiseKept` say so of
  `NothingLeaked` and `KeepsPromise`, as the run states them with other deployments
  beside this one (`AloneInv`). `Honoured`, of the stores the records are kept in: a
  value whose time has not passed is held, and until no less than that time (`Kept`); a
  place with a TTL and no expiry has a caller between the two commands (`Lapses`).

- `CacheEngineProofs`. `TypeCorrect`, `Boundedness` and `LocksAreHeld`: each
  mark and each lock belongs to a revalidation that is under way, and with locks
  a marked entry is locked. They are inductive together, as a step that evicts
  must drop the lock of what it evicts. `Soundness` joins them.
  `RepeatedWereRetryable` compares the two files that decide what is tried again:
  whatever the engine lets pass has a class that calls itself retryable, case by case
  for what can be thrown (`ThrownRetryable`). `AllMovedAndTold`, of the
  bodies that go through fetch: what was sent is the sum of the parts that were pulled,
  what was received that of the parts that were got, for as long as
  a leg counts them (`Sent`, `Received`), and in every stage in which a
  direction has been told of, its mark, which the next delta is counted from, says the
  same (`Told`).

- `AroundProofs`. `SlotsAndKeyHeld`, of the whole pipeline: the bulkhead's count is that
  of the requests whose pipeline holds a slot, a request that waits stands in the queue
  once, and the call that the deduplicator remembers is one that has not settled
  (`SlotInv`, `CallInv`). The limit is fixed there, so a call that ends starts one other
  at most, and it takes over the slot. `TurnsInOrder`: what the pass has still to visit
  are later handlers, in order, and those that are left of what it began with are among
  them (`TurnInv`); a handler that is removed meanwhile keeps its place, which is why
  indices stay right. `TokenNeverExpired`: the lifetime that the plugin counts is off by
  at most the delay of the answer, so what is left of the margin is left of the token
  when it is attached, and the invariant keeps that for as long as it is carried.
  `MemoIsHonest`: a remembered load is of its key and not forgotten (`MemoInv`).
  `AllAccounted`: every request of a concurrent call is queued, in the hands of one
  worker, or done, unless a worker is broken (`CrewInv`). `OthersStopped`: the answer
  that wins stops the others in the same turn, and no leg can be sent after it
  (`HedgeInv`). `EveryItemYieldedOnce`, for any collection, sizes and limits of pages
  and any number of changes (`PageInv`). Something stands at each place of a finite set
  of numbers (`Bounded`, `ArrangedAt`). While nothing changes, what was yielded is the
  beginning of the collection, and the next page begins behind it, whether it is asked
  for by number, count, link or cursor (`PageGoesOn`). By cursor, what comes next is
  behind the cursor in its order whatever changes (`CursorGoesOn`), and what was there
  throughout has been yielded up to it (`HadUpTo`).

- `TransportProofs`, of HTTP/1.1. `TypesHold` and `NothingIsLeft`, for any number of
  exchanges on the connection. That the losers of the races leave nothing behind
  depends on whose connection it is (`Linked`: it belongs to the request that is
  answered on it, until that has closed) and that a network error names its cause on
  what is still on its way to the promise (`Blamed`: the error events and the
  responses cut off). `TableIsExact`, for the sessions of HTTP/2: no two places of
  the table hold one key (`Distinct`), which removing by key and replacing in place
  keep (`WithoutOrderly`, `InsertedOrderly`); a step that moves a request changes one
  session's count. Of the WebSocket: `TypeCorrect`, for any order of events, with the
  count of reconnects within its bound. `OneAtATime` and `Final`, whatever late events
  come, from one invariant (`WireInv`): how the fields go together (`Held`: a timer only
  when closed, a timer after close() only under an aborted signal, no request
  beside an open socket) and what is on the line without being stranded (`Kept`), which
  is one connection at most, none once the close was reported; an event that ends
  another connection strands it (`Notified`). `Whole`: what is left of a message that is
  not from a stranded socket is from the one that is open. `Apart` joins the last two.

- `ClientProofs`. `CredentialsKept`: what the run sees where a request is sent
  (`CredentialsStayHome`), `Homely` says of every stage between two hops: each header
  is meant for the current URL, which the hook and the stripping each have to restore.
  `ContactsAllowed`: at every hop the address of the connection was a literal that was
  checked or came from a lookup that was, or there is a proxy (`ContactInv`); the names
  of categories in the policy are the documented ranges. `ProfilesHold` and
  `EverySentAsTold`, for any chain of clients each made from another: which rules a
  client took over was fixed when it was made, and what is merged at that moment, at the
  call and at the dispatch is, option by option, what was said last before it; a limit
  of bodies that nobody set came down the line from its first client.
  `FirstCauseWins` (`Kept`: which causes may stand before a fetch begins).
  `NeverGivenUpEarly` (`Attempting`: how many drops the timer has yet to answer).
  `MarksNeverLeft`: marks of the browser's client belong to revalidations under way,
  although a second one may overtake the first. `EachToldOnce`, for any number of
  overlapping requests and any resets: how often a request was counted follows from its
  phase and from what went wrong in it (`BookOf`, `NumbersOf`); a gauge is the number
  of requests under way unless it was reset; a percentile exists because some duration
  is the least that has enough of them up to it (`SortedIs`), and a higher percentile
  is never less (`SortedAscends`).

- `HookProofs`. `HooksDoAsTold`, for any order of plugins that are used, taken out and
  used again, so that a hook may run many times on one request. Headers that carry a
  whole context are read as that context, and to add the headers of a context to ones
  that carry it changes nothing that is read (`Tells`); a header of the caller's that
  says nothing readable is replaced. Every controller that a mock hands its answers to
  has a hook, so a request that is to be mocked is stopped by one that is still to come
  (`Answered`), and the recorder's list is cut each time it grows. `SentAsIntended`, for
  any requests: an attempt works on its own copy, so what goes out is a function of the
  headers that the stages before it left. Of those the invariant says that a header set
  to false is still there and false, unless a hook changed it or a redirect dropped it
  (`BlocksKept`); that before the first redirect the type of the body is one that
  serialising it takes as its own (`Described`); and that nothing an attempt adds is in
  them (`NothingLeftOver`). `BytesFlow`, for any bodies, rates and limits. At the end of
  a pause what is about to be moved is within the rate (`ThrottledInPace`, `Paced`: the
  invariant says it of the slice that waits, for the time until which it waits), and
  from then on more time only makes room. Whatever the length of a slice, the slices of
  a chunk are all of it (`SlicesWhole`), so what was moved, what is at hand and what is
  to come are the whole body in every stage (`NothingLost`); of a stream only in the
  first attempt, as nobody else reads it then (`UpCounted`). A limit holds because what
  comes next was measured before it was allowed to wait. `SharesAreFair`, for any lists
  a resolver may answer, any weights and limits: the choices noted of a round are
  consecutive places of the pool, up to where the counter says, or ended when the
  counter began again (`RoundInv`); the places of as many choices as the pool is long
  are different ones, so they are all of it (`SharesOfRound`).

Only model-checked:

- liveness (`EachGetsItsTurn`, `FleetRecovers`, `AllSettle`, `Freshens`,
  `EachComesToAnEnd`), which is out of the prover's reach. Every other property of
  a passing run is stated by a theorem.

## 5. What is not modelled

Of the components, only the declarations of types and the entry points are left
out altogether. Left out of the others:

- `CircuitBreaker`: stores that reject while a call is inside (what becomes of the
  request then is in `Telemetry`, whose store may throw). `RetryEngine`:
  `enableRetry: false` and an external budget store.
- Client: `sequential`, `race`, `poll`, `sse`, `destroy` and the verbs. Browser
  client: its verbs and combined calls, which are copies of the Node client's.
- Redirects: the handshake of the CONNECT tunnel and the environment's proxy
  variables. Security: injection patterns, certificate pins, body encryption.
- Transports: streamed request bodies and proxies in `Http2Sessions`; encodings of
  frames and handshakes; registries of adapters.
- Plugins: signing, logging, GraphQL, the wording of recordings. Bodies: JSON, forms
  and charsets, which are conversions without state.
- `NodeWebSocket`: what a peer may send after its close frame.

Things seen while modelling that have no run of their own.

Resilience and errors:

- `docs/circuit-breaker.md:12` and `:53` speak of a limited number of probes in
  half-open; nothing counts them, and all requests pass. `:14` and `:93` speak of
  tripping a whole pool of workers; that reaches only workers that have no record
  yet.
- `docs/retries.md:96` calls the timeout a total deadline; it limits the start of
  attempts. `:100` describes the budget by when retries happen; it is charged
  when the failure is handled. `docs/retries.md:120` and `docs/errors.md:61` say that
  the last failure throws `NeutrxMaxRetriesError`: it is rethrown as it is
  (`resilience/RetryEngine.ts:79`), and the throw behind the loop is not reached.
  `docs/errors.md:61` also names a `retryable` flag that is not consulted when a status
  or code is present. A Node `ETIMEDOUT` becomes the code `TIMEOUT`, which is never retried.
- `BULKHEAD_QUEUE_TIMEOUT` is documented, but `core/NeutrxError.ts:450` always says
  `BULKHEAD_FULL`. A deadline that passes and a raw `TypeError` reach the caller as
  plain errors; the browser's own size error becomes a network error.
- The `active` count of the breaker stays one too high for each response served from
  the cache after a failure (`core/NeutrxClient.ts:620`), which is what `NothingLeaked`
  allows for; nothing decides on it. Retries are not counted by the metrics.
- Joined requests share one error object (`core/NeutrxClient.ts:610`).

Configuration and headers:

- Header defaults given at creation are sent after
  they were deleted or cleared (`core/config.ts:162`; `docs/config-reference.md:61`),
  and win over `setHeader` and `setAuth`. Common headers override those of a method
  (`core/defaults.ts:282`), and a call of the root without a method ignores those of
  `get`. Defaults are read once more at dispatch
  (`core/NeutrxClient.ts:845`).
- State adapters: `clear` of a namespace clears the whole adapter
  (`state/StateAdapter.ts:115`); prefixes that contain ':' can collide; callers who
  disagree about a TTL race in Redis, and an interrupted `set` leaves a key without
  expiry until the next (`state/RedisStateAdapter.ts:76`); `keys()` of the memory
  adapter lists what has expired.

Calls around requests, plugins:

- `hedged` (`core/NeutrxClient.ts:350`) takes whichever request settles first, as
  `docs/node-usage.md:89` says, also when that is a failure; then the others are
  neither aborted nor kept from starting. It replaces the caller's own signal.
  Aborted losers count as failures of the circuit, as `recordFailure` is told of
  every error.
- `concurrent`: an `onProgress` that throws makes a finished request count twice;
  after the timeout the workers go on and their outcomes are lost; a limit of 0
  resolves at once with nothing sent.
- `paginate`: `parseNextLink` splits at commas, so a next link whose URL has one ends
  the walk; a total count under a wrong `dataPath` ends only at `maxPages`.
- `sse`: an event split over two chunks is lost or cut, and `onMessage` is called a
  second time if it throws (`docs/api.md:92`).
- DataLoader: the rejected promise of `prime(key, error)` stays until it is cleared.
- Plugins: `unuse` leaves the hooks, `use` again adds them twice, and the controller
  of a mock that was installed before goes on mocking out of reach
  (`docs/api.md:440`). Mocked responses skip `afterRequest`. The results of `onError`
  hooks are ignored (`core/NeutrxClient.ts:646`). The recorder misses failures whose
  error has no configuration (`plugins/HarRecorder.ts:298`; `docs/plugins.md:155`).
  With trace headers of the caller's that are malformed or incomplete, the trace
  context of the response differs from what was sent
  (`plugins/TraceContextPlugin.ts:36`; `docs/observability.md:82`). The validation
  plugin takes `[]` and objects with a `message` for failures.

Transports:

- WebSocket: a connection that is stranded (section 2) goes on receiving after
  `close()`, and a message may be put together from its bytes and those of the
  current one. A signal that fires while the socket is open
  (`core/nodeWebSocket.ts:110`) is not heard, and the next reconnect then leaves the
  object in CONNECTING. No document speaks of either.
- HTTP/1.1: `docs/api.md:158` calls `timeout` the total deadline of a request; the
  adapter has an idle timeout of the socket, so a response that trickles is never
  cut off, and a transfer that a low `maxRate` holds back can be. `connectTimeout`
  includes the wait for a connection of the agent, and a stream response has no idle
  timeout once its headers have come. A stream body whose Content-Length exceeds the
  limit is not destroyed, and an upload that fails after an early response loses it.
  A CONNECT tunnel never settles if the proxy closes without an answer
  (`core/proxy.ts:93`).
- Fetch: a watched Node stream is sent again, empty, by a retry
  (`adapters/fetch.ts:239`); blob and FormData answers are not limited by
  `maxContentLength` (`docs/api.md:173`); `adapters/browser.ts:57` may say timeout of
  what the caller's signal ended.
- HTTP/2: a session evicted between `getSession` and its use makes
  `session.request` throw; a stream reset without an error code
  (`adapters/http2.ts:191`) leaves its request pending (`lost` in the model; it rests
  on Node's behaviour); a request that shares an open session resumes after a
  microtask, before which others may take its stream (`:252`); `docs/api.md:377` says
  that `maxSessions` bounds the sessions, where it bounds the table;
  `docs/node-infrastructure.md:181` says that `destroy()` closes them, which does not
  reach those that have left the table.

## 6. The plan

Done: Bulkhead, CircuitBreaker with BreakerProtocol, RetryEngine, CacheEngine,
RequestPipeline, RateLimiter, Http2Sessions, NodeWebSocket, Batching, Concurrent,
TokenRefresh, HttpExchange; then Redirects with SecurityPolicy, RequestHeaders,
BodyTransfer, Endpoints, Telemetry, BrowserClient, Failures, FetchBodies,
FetchExchange, Interceptors, NativeSocket, Settings, StateAdapters, Pagination,
Hedging, PluginHooks.

Next, in the order of what matters to callers:

1. `CircuitBreaker` with a store that rejects, and the joint run of `CacheEngine`
   and `RequestPipeline` (a response fetched before an invalidation is stored when
   it arrives, `core/NeutrxClient.ts:586`).
2. Server-sent events and `poll`, whose buffers and timers are the client's.
3. The CONNECT tunnel, as a part before `HttpExchange`.

Abstract specifications worth stating: for the pipeline, that hiding everything but
`circuit` it implements `BreakerProtocol`; for the limiter, the exact limit that serial
use implements; one cache that both `CacheEngine` and `BrowserClient` implement.

Theorems next: those of the modules to come, as each safety property that a passing
run checks has its theorem.
