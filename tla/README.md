# A verification development for 0xCDN

TLA+ models of the core of 0xCDN (a content delivery network in Python/asyncio:
edge caches, a region-aware router, a management API and an origin), checked
with TLC on small instances, with the safety properties that hold proved by TLAPS
for every value of the constants. Paths below are relative to the repository.

## 1. The system

| Component | State | Operations | Hard behaviour |
|---|---|---|---|
| Circuit breaker (`src/infrastructure/circuit_breaker.py`) | state, failure and success counters, probe slots, time of last failure | enter, leave with or without error, reset | calls admitted in one state report in another; probe slots; recovery |
| Cache store port (`src/domain/ports.py`) | entries by key | get, put, delete, delete_by_prefix, keys | what callers may rely on when stores forget |
| LRU store (`src/infrastructure/cache/lru_store.py`) | ordered entries, byte count | the port's | size accounting, eviction at the limit, expired entries that stay |
| Tiered store (`src/infrastructure/cache/tiered_store.py`) | hot LRU, cold directory, pending demotions | the port's, demotion, promotion | key encoding, half-written cold entries, restarts |
| Cache service (`src/application/cache_service.py`) | registry of events per key, revalidation tasks | get_or_fetch, range requests, shutdown | coalescing, stale-while-revalidate, state read before an await |
| Origin and shield clients (`src/infrastructure/http/`) | connection pool | fetch with retries | retries, timeouts |
| Edge application (`src/presentation/edge/`) | active requests, drain event | serve, purge, drain | shutdown racing requests |
| Routing service (`src/application/routing_service.py`) | health status of each edge | nearest edge, ordered edges, mark | two writers of the status |
| Health service (`src/application/health_service.py`) | failure counter of each edge | loop, check with timeout | overlapping checks, late outcomes |
| Router proxy (`src/presentation/router/`) | list of edges of each request | proxy with failover | list computed before the awaits |
| Management (`src/application/purge_service.py`, `warm_service.py`, `src/presentation/management/`) | none | purge and warm every edge | partial failure of a fan-out |
| Pure parts (`value_objects.py`, `cache_control.py`, `compression.py`, `auth.py`) | none | parsing, choosing | boundaries |
| Metrics, logging, configuration | counters | record, print | none that a decision depends on |

**Interaction.** A client's request reaches the router, which walks the edges
nearest first and proxies to one. The edge asks its cache service, which looks
in the store and otherwise fetches from the origin through the circuit breaker,
one request per key leading and the others waiting on an `asyncio.Event`.
Operators purge through the management API, which calls every edge's
`/internal/purge`; that route changes the store behind the cache service's
back. An edge may fetch through a shield, which is an edge to it. The
health service pings the edges and shares their status with the
router's requests.

**Concurrency.** Each process is one asyncio event loop. A task is atomic
between awaits that really suspend; the locks of the store and of the breaker
are never held across such an await, so each of their methods is one step. The
processes talk over HTTP, with delay, loss and timeouts.

**What makes each part correct.** Breaker: counters agree with the state, no
slot leaks, it recovers. Store: exact byte count, capacity, least recently used
out first, never an entry that was not put or was deleted. Service: nobody
waits for ever, the registry is exact, every fetch reports to the breaker once,
old content does not survive a purge. Edge process: the drain ends, cuts nobody
off and leaves nothing running. Request path: the client gets the status and the
bytes the origin would send, for as long as the origin allows, and fields that
describe them. Management: what an
edge acknowledged as purged stays away. Router: nearest healthy edge, dead edges
out, live edges back in, requests end.

## 2. The modules

| Module | Models | Uses |
|---|---|---|
| `CircuitBreaker` | the breaker, with its callers | |
| `CircuitBreakerProofs` | theorems about it | `CircuitBreaker` |
| `CacheStore` | abstract: what the port promises | |
| `KeyOrder` | deleting from an ordered collection | |
| `KeyOrderProofs` | lemmas: orders, sums over sets, least elements | `KeyOrder` |
| `LRUStore`, `MCLRUStore` | the LRU store; its instance (prefix sets) | `KeyOrder`, refines `CacheStore` |
| `LRUStoreProofs` | theorems about it | `LRUStore`, `KeyOrderProofs` |
| `TieredStore`, `MCTieredStore` | memory over disk, with crashes; its instance (keys of characters) | instantiates `LRUStore`, refines `CacheStore` |
| `TieredStoreProofs` | theorems about it | `TieredStore`, instantiates `LRUStoreProofs` |
| `CacheService` | the cache service with store, breaker, origin and purges | instantiates `CircuitBreaker` |
| `CacheServiceProofs` | theorems about it | `CacheService` |
| `EdgeApp` | the edge process: active requests, retries, revalidations, shutdown | |
| `EdgeRequest`, `MCEdgeRequest` | one request through an edge: Cache-Control, lifetimes, ranges, compression, beside the origin's own answer; the cases | |
| `EdgeProofs` | theorems about both | `EdgeApp`, `EdgeRequest`, `KeyOrderProofs` |
| `Cdn`, `MCCdn` | several nodes with a shield: purging, warming, requests; the instance | |
| `CdnProofs` | theorems about it | `Cdn` |
| `RoutingService` | pure: the two lookups and a proximity reference | `KeyOrder` |
| `Router`, `MCRouter` | health checks, status, proxy; their instance | `RoutingService` |
| `RouterProofs` | theorems about both | `Router`, `KeyOrderProofs` |

Definitions keep the source's names without the leading underscore. A
definition that stands just before one it resembles, and is used nowhere, is a
plausible bug in that one (a dropped reset, an off-by-one): the property named
with it in `PROJECT.json` fails when it takes its place.

**CircuitBreaker.** `Admit` is `__aenter__`, `ExitOk`/`ExitErr` are `__aexit__`
with and without exception, `Reset` is `reset`. `call[c]` remembers how a caller
was admitted; the code does not, and the properties are about that difference.
The age of the last failure stops at the recovery timeout and the failure
counter at the threshold, since the code only compares them with those.

**LRUStore.** The `OrderedDict` is the sequence of its keys and the entry of
each. `Put` contains overwrite, eviction loop and append in one step; `ListKeys`
the pruning. The history variable `asked` is what the port's callers last put
and did not delete; the refinement maps `contents` to the stored values. The
clock is `time.time()`, assumed not to run backwards.

**CacheService.** A task's `pc` is its suspension point: waiting for the
leader's event, ready to run after it, a background task not yet started, at
the origin, or with an answer on its way. `get_or_fetch` up to its first
suspension is one of `AnswerNow`, `ServeStale`, `Coalesce`, `Lead`; after the
event one of `WakeToEntry`, `WakeToFetch`, `WakeRefused`; after the answer
`Deliver` or `FetchFails`, each with the breaker's action as a conjunct and the
`finally` block (`Settle`). Content is a version number; an entry's age is its
phase (fresh, stale, expired). Cache-Control and Vary enter as the choice
between storing under the key, storing under a key no lookup uses and not
storing. The store is the abstract one: a put may drop any other key.
`barrier` is a history variable.

**TieredStore.** The hot tier is `LRUStore` by `INSTANCE`, with the variables of
the same names; the cold tier is one record of two files per directory. A
method is one step (neither lock is held over a suspension and the file
operations are synchronous), but it can be interrupted: `Interrupted` and
`PartlyErased` enumerate what each point between two file operations leaves
behind. A demotion that raises `OSError` leaves that on disk with the hot tier
already changed; `Crash` leaves it with the hot tier lost. That is a crash of the
process: the writes it made are there when it restarts. What a crash of the host
does to writes nobody synced is not modelled. Keys are sequences of characters
and `UrlSafeKey` does to them what the regular expressions do, so different keys
can share a directory and one of them then overwrites, answers for or deletes
the other on disk. `Alone` is the set of keys that share theirs with nobody:
what is said of a key's own entry is said of them, whatever the others do, and
the refinement of `CacheStore` is of the store as it appears for them. The failing
`OwnEntry` says it of every key.
What a demotion does not write (the stale window) is not part of the value the
refinement compares, and a torn `data.bin` counts as the content it is the
beginning of, because the code cannot tell: `UpToTearing` says so, and `WholeEntry`,
without that allowance, fails.

**EdgeApp.** A task's `pc` is its suspension point, as in `CacheService`; what a
request does inside the cache is reduced to answering at once, answering and
scheduling a revalidation, or fetching, the fetch with the attempts and the
back-off of the client. The handler's `phase` goes from running through
draining (`wait_for`), cancelling (`gather`) and closing (`aclose`) to closed.
A revalidation cancelled before its first step never reaches its `finally`
block and stays in the registry until it is cleared, as asyncio does it.

**EdgeRequest.** A behaviour picks a case (the Cache-Control of the upstream's
200 and of its 304 as sequences of tokens, whether it sends an ETag and a coded
body, the file, the client's Range and Accept-Encoding) and then repeats the
request while time passes: a miss fetches, the parser reads one token per step,
and the answer is handed on (`PassOn`), stored (`StoreNew`) or, a 304, refreshes
the entry with its own directives (`Refresh`); later requests hit, hit stale, or
meet an open circuit. `Serve` is `serve_file` with whatever came back, an answer
of the upstream or the stored entry. Of the header fields the model has the
lengths, codings and positions that describe the body: `fields` are the
upstream's, which the edge sends on in lower case, `own` those it adds in title
case; `PackedLength` is the length a library's coding gives. `OriginServe` is the
origin's own route for the same request, the reference for the edge's answer. A
name in Accept-Encoding with `q=0` is in `accept`, as the code reads it, and in
`refused`, as the client meant it.

**Cdn.** Nodes hold versions of files under cache keys; a key is the sequence of
the pieces `CacheKey` puts together, with the Accept-Encoding of the request. An
edge behind a shield fetches with httpx's own headers, hence under one key at
the shield (`ShieldKey`). A purge walks the configured list; each call is
acknowledged, loses its answer, or never arrives. `Meant` is what the operator
names (a key, or a URL, as the management API documents it), `Selected` what the
edge's route deletes. `since` and `clean` are history: the origin when the purge
began, and the keys that were settled at each node, that is acknowledged with
no fetch of the key under way and the shield settled before.

**Router.** A check is sent, answered, applied, and then closes its HTTP
client, during which the timeout can still strike and count a failure for a
check that already reported. A request keeps the list of edges it computed.
`up[e]` says whether edge e answers in time. `OrderedEdges` is the source's loop
over the proximity list with its set of edges seen, written as a recursive
function so that it can be proved about; it is compared with `Rank`, the
position of an edge's region in that list. The table of the instance names a
region twice, so that the set of edges seen matters.

## 3. The runs

| Run | Instance | Result |
|---|---|---|
| `circuit_breaker` | 3 callers, thresholds 2 and 3, 2 probe slots | passes: consistent counters, no slot leak, assertions hold, recovery |
| `half_open_limit` | 3 callers, 1 slot, 2 successes | violated: see findings |
| `lru_store` | 3 keys with prefixes, capacity 3, clock to 2 | passes, including refinement of `CacheStore` |
| `tiered_store` | 3 keys, two of which share a directory, hot capacity 2, bodies of size 1 and 2, clock to 1 | passes: the tiers are disjoint; for keys alone in their directory no mixed entries and refinement of `CacheStore`, across crashes of the process |
| `cache_service` | 1 key, 2 requests, 1 revalidation, 2 versions, breaker with all thresholds 1 | passes, including liveness |
| `one_fetch_per_key`, `circuit_open_is_answered` | 1 key, 2 or 3 requests | violated: see findings |
| `edge_shutdown` | 2 content requests, 2 health requests, 2 revalidations, 2 attempts | passes: no lost drain event, a drained edge is quiet, everything ends |
| `edge_request` | all headers of up to 3 tokens out of 16; 49 pairs of a 200's and a 304's header; all ranges over 5 bounds, 4 file sizes, 5 Accept-Encodings, with and without a coded upstream | passes: the header is read and its lifetime obeyed, and the client gets the status and bytes the origin would send |
| `cdn` | a shield and an edge, 1 file in 2 variants, 3 versions, 3 fetches in flight | passes: an acknowledged purge by key is final, the fan-out ends |
| `purge_url` | the same, purging by URL | violated: see findings |
| `router` | 2 edges, one outside the table, 2 overlapping checks each, 1 request | passes, including liveness |

**Bounds.** Three callers are the smallest number in which a call of an earlier
episode, a probe and a refused call meet. One key is enough for the cache
service because tasks of different keys share only the breaker, whose
interference the second request and the revalidation already produce through the
origin's failures, and evictions, which a purge subsumes; the theorems hold for
any number. Two versions tell old content from new. Two edges with two checks
each give late and doubled outcomes and failover; the attempts limit is then the
length of the list. Three keys, a capacity of three and sizes up to more than
the capacity make the LRU store evict several entries at once and meet an entry
it cannot hold; in the tiered store a body of size two demotes two entries in
one flush, which is then interrupted in the first or in the second. A clock that
stops at its last tick is a bound of the stores. Two keys of `MCTieredStore`
encode to one directory, the third to the name kept for an empty encoding: a
pair that collides and a key alone are what the properties tell apart, and a
capacity of two lets each push any other out. Two requests of each kind let one
leave while the other enters during the drain; two attempts are a first, a last
and a back-off between them. Three tokens are a duplicate and a conflicting
directive. The headers of a 200 and its 304 are kept to seven, one of each kind
of consequence (none, a lifetime, a window, no-cache with and without one,
no-store, private), and a clock to three lets an entry expire, be refreshed and
be hit again. Three versions tell content from before, during and after a purge;
three fetches are one at the shield and both variants at the edge. `EdgeApp` may
stop (a closed edge), so its run does not check deadlock.

**Fairness.** `Spec` is the safety part, about which the theorems are; the runs
with liveness check `FairSpec`. Breaker: time passes, admitted calls end
(fetches time out and retries are bounded), callers keep coming; nobody is
assumed to call `reset`. Cache service and edge process: the event loop runs
ready tasks, attempts end by the client's timeout, `wait_for` by its own;
clients, operators, content and the signal to stop are free. Cdn: each call of
the fan-out ends by its answer or the client's timeout, and nothing else is
assumed. Router: the loop turns, checks end by `wait_for`, attempts by the
client's timeout; edges and clients are free.

**Findings.** Each is a run that TLC refutes with a trace.

- *Half-open limit* (`circuit_breaker.py:119`): a success of a call admitted
  before the trip gives back a probe slot it never took; more probes run than
  the class documentation allows.
- *One fetch per key* (`cache_service.py:100`): when the leader fails or may not
  store, all waiters fetch at once.
- *Circuit open is answered* (`cache_service.py:100`): a woken waiter that the
  breaker refuses raises `CircuitOpenError` out of `get_or_fetch`.
- *Purge by URL* (`edge/routes.py:146`): the route deletes the store key equal to
  the text it is given. Entries are stored under `GET:<path>|vary=<digest>`, so
  a purge by the documented URL, or by a prefix of it, removes nothing and is
  reported as a success for every edge. Purging by cache key, as the
  integration test does, works: that is what `cdn` checks.

**Properties that do not hold.** The modules also state what documents and comments
say and the code does not do, beside the weaker property that the run checks. TLC
refutes each when it stands among the INVARIANTS of the configuration named.

| Property (configuration) | Code | What it does instead |
|---|---|---|
| `PurgeLeavesFresh` (`Cdn.cfg`): "Next request returns fresh content", `README.md:91` | `cache_service.py:268` | a fetch under way during a purge stores what it was answered before, after every node acknowledged; and a shield that stands after its edges in the list refills them with the old content |
| `OwnEntry` (`TieredStore.cfg`): the port's get, `ports.py:33` | `tiered_store.py:22` | keys such as `a/b` and `a_b` share a directory, and a get of one returns the other's entry |
| `WholeEntry` (`TieredStore.cfg`): "Deserialize a CacheEntry from disk, or return None", `tiered_store.py:213` | `tiered_store.py:210` | an interrupted write of `data.bin` leaves a truncated file beside complete metadata, and that is the entry |
| `FieldsDescribeBody` (`EdgeRequest.cfg`): ranges and transparent compression, `README.md:208` and `:223` | `edge/routes.py:98`, `cache_service.py:144` | httpx's fields are in lower case, so a part and a compressed body have the upstream's `content-length` beside the edge's; a body coded upstream (behind a shield) has its `content-encoding` beside the edge's, or alone although httpx has decoded it; the end in Content-Range is not clipped |
| `NotRefused` (`EdgeRequest.cfg`): "the set of accepted encoding names", `compression.py:79` | `compression.py:87` | `gzip;q=0` counts as accepted |
| `NoCacheNotStale` (`EdgeRequest.cfg`): "no-cache (must always revalidate)", `cache_control.py:48` | `cache_control.py:58` | `no-cache` with `stale-while-revalidate` is served as a stale hit; `ServedAsDirected` names this exception (`StaleDespiteNoCache`) |
| `NoCacheOutlasts304` (`EdgeRequest.cfg`): the same | `cache_service.py:226` | a refreshed entry has the lifetime of the 304's own directives, the default one if there are none, as in the origin's 304; what came with `no-cache` becomes a fresh hit |
| `NoBareNotModified` (`EdgeRequest.cfg`): "refresh TTL on existing entry", `cache_service.py:230` | `cache_service.py:222` | a 304 with `no-store` or `private` is handed on, without a body, to a client that made no conditional request |

**Observations** met while modelling, without a run of their own.

- Stores: an entry larger than the whole LRU store is kept alone beyond the
  capacity (`WithinCapacity` states the exception). A demotion loses
  `stale_while_revalidate` and `vary_headers`. Nothing is synced to disk.
- Warming fetches with httpx's Accept-Encoding and so warms that variant only.
- Serving: a range is answered 206 whatever came back, also a 404 or 503; an
  unsatisfiable one gives an empty 206 and one that does not parse a 500 where
  the origin answers 416. `stale-if-error` is read and never used.
- Shutdown: a fetch may take three attempts of ten seconds and the back-off,
  longer than the thirty seconds of the drain; overlapping `/health` requests
  can keep the drain until its timeout.
- Router: failover walks a list computed before its first await
  (`router/routes.py:144`). One failed proxied request marks an edge unhealthy
  although `config.py:118` speaks of consecutive failures.

## 4. The proofs

Every safety property that a run checks (invariants, action properties and the
two refinements) is also a theorem, for every value of the constants that meets
the named assumptions in the modules (positive thresholds, finite sets of tasks,
distinct model values). One theorem has a hypothesis more, `PurgeIsFinal`, which
stands in its statement and is named below.

- **CircuitBreakerProofs.** `FieldInv` joins the types of the fields with
  `TrippedByThreshold`, `CleanEpisodes` and the fact that outside CLOSED a time
  of failure is recorded, from which `AssertionsHold` follows: a breaker refuses
  only outside CLOSED. On top, `SlotsNeverLeak` needs the cardinality of the
  probes in flight: a step that changes the counter of slots changes it too.
- **CacheServiceProofs.** `TypeCorrect` first, with the shape of a task at each
  suspension point. `RegistryIsExact` and `NoWakeupIsLost` are proved together,
  because a settling leader keeps the second only if the first names it.
  `BreakerIsBalanced` follows each action with the breaker's own step beside it.
  `PurgeHolds` needs `BarrierInv`: the barrier never passes the origin's
  version, and no answer on its way is older than the barrier. A 304 is covered
  because it is applied only when the version the task had seen is the answer's.
- **LRUStoreProofs.** The store by itself is `StoreOK`: entries accessed in the
  past (`EntriesOK`), an order that holds the stored keys once each by last
  access (`OrderOK`), the exact byte count, the capacity. The parts need each
  other: the victims of a put are a beginning of the order, so what it frees is
  a sum over stored keys, and the capacity follows only if the count was exact.
  `AskedOK` (what is stored is what was last put) gives `KeepsThePromise`, the
  step simulation of `CacheStore`: an eviction or a prune forgets, nothing
  else changes what a caller sees.
- **TieredStoreProofs.** The lemmas about `StoreOK` are used again for the hot
  tier, through `INSTANCE LRUStoreProofs`; entries that come back from disk
  may be torn, which is one body more. `TieredInv` adds that the tiers are
  disjoint, that the metadata in a directory names a key of that directory
  (`MetaAtHome`), and, of the keys alone in theirs, that what is in memory is the
  last put (`HotSame`) and that the directory names its key and both its files
  are of the last put (`ColdSame`). The last is why an interrupted write or
  deletion mixes nothing: a key is written to disk only after its directory was
  empty of it. No hypothesis is made about the encoding: keys that share a
  directory do to it what they do, and the steps that write, erase or
  interrupt it are shown not to reach the directory of a key alone
  in its own. For the others the claims are false, as `OwnEntry` shows.
- **EdgeProofs, the process.** `DrainInv`: the counter is the cardinality of the
  requests inside; once the event is set, or after a drain that did not time
  out, no content request is inside (`FilesGone`); and the revalidations under
  way are those in the registry until they are cancelled (`RevalsKnown`). A new
  content request is refused from the start of the drain on, so `FilesGone`
  survives later health requests, which clear nothing.
- **EdgeProofs, one request.** `RequestInv`: the parser has read the first n
  tokens of the answer's header and holds exactly what they say (`ParserOK`); the
  entry is the file as it was first sent, with the lifetime and the window of the
  last header, 200 or 304, that made or refreshed it, and no header it depends on
  forbids storing (`EntryOK`); an answer is `serve_file`'s with the whole file
  (`Served`), within what its header allows (`Obeyed`). The number n makes the
  parser's loop an induction over steps instead of over the header. A 304 comes
  only with an entry, which is why a refresh has content to keep. `InputsOK` is all
  that is assumed of a case: headers are finite lists of tokens, numbers are
  natural. Nothing is assumed of `PackedLength`.
- **CdnProofs.** `PurgeIsFinal` is for any nodes behind any shields, shields
  behind shields included. The settled keys are not an inductive set: a second
  call to a shield that is fetching by then unsettles its key while the edge
  behind it stays settled. `PurgeInv` therefore says that they are part of some
  set of fresh entries that is closed under fetching. It rests on `KeyPieces`,
  which reads path and variant back from a cache key. Hypothesis
  `TargetsNameKeys`: targets name cache keys, not URLs; `purge_url` shows that
  it is needed.
- **RouterProofs.** `ThresholdMeansUnhealthy` is inductive with the types of
  status and counter; each way to write one of them keeps it.
  `RoutingIsByProximity` follows the walk of `get_ordered_edges` region by
  region: after i regions the list holds the healthy edges of rank at most i,
  once each, nearest first; and `get_nearest_edge` picks its head. The types
  need that a request under way stands within the list it computed.
- **KeyOrderProofs.** The provers cannot instantiate an induction theorem with
  a predicate, so facts about the recursive functions (deleting from an order,
  the sum of a function over a set) are proved by least counterexamples: the
  set of indices (or of finite subsets) at which the claim fails, were it not
  empty, would have a least member, and the one before it gives a contradiction.

**Only model-checked.** Liveness, which needs fairness and `ENABLED`: `Recovers`,
`TasksEnd` of the service and of the edge process, `ShutdownEnds`, `PurgeEnds`,
`RequestsEnd`, `DownIsNoticed`, `UpIsNoticed`. And the violated properties, of
which the runs show that they do not hold.

## 5. Plan

Done: breaker, port, both stores, cache service, edge process, request path,
purging and warming, router, and a theorem for each of their safety properties.
Next, in this order.

1. What the retry loops promise, as action properties with their theorems: no
   edge is tried twice by one request of the router and each attempt goes to an
   edge of the list it computed; a failover leaves the edge it left unhealthy.
2. A bound on the age of content when a follower and a revalidation are answered
   out of order (`cache_service.py:268`), which `PurgeIsBarrier` leaves open.
3. The other direction: under which condition each property that fails
   holds (for one fetch per key, that the leader stores; for fresh
   content after a purge, that no fetch is under way and shields come first in the
   list), as a theorem.

**Not modelled.** Logging, configuration, entry point, the dashboard's page, the
metrics route, timing middleware and metrics (nothing decides on them); signed
URLs (one comparison with a keyed digest, stateless); response headers other
than those named; a crash of the host; the origin's check for paths outside its
assets (file-system resolution); start and stop of the health loop.
