# SorobanGate in TLA+

SorobanGate is a reverse proxy for Soroban/Stellar JSON-RPC nodes, written in
Rust on tokio, axum and hyper. This directory holds TLA+ models of its core,
TLC runs that check them on small instances, and TLAPS proofs of the main
properties for every value of the constants. Paths below are relative to the
repository; `PROJECT.json` maps every definition to the lines it models.

## 1. The system

A request passes through a stack of middlewares and then the proxy handler:

    client -> auth_middleware -> rate_limit_middleware -> cache_middleware (empty)
           -> proxy_handler: route, cache lookup, select upstream, forward, cache store

Beside it run one background task (the health checker) and an admin server.
Each connection is served by tasks on a multi-threaded runtime, so everything
below is shared between threads, and a handler's future may be dropped at an
`await` when its client disconnects.

| Component | State | Operations | What makes it correct |
|---|---|---|---|
| Circuit breaker `pool/circuit_breaker.rs` | state, failure_count, last_state_change | is_available, try_half_open, record_success, record_failure; replaced by the admin API | trips exactly at the threshold; readmits only after a quiet cooldown; does readmit when quiet |
| Upstream pools `pool/mod.rs` | per upstream a mutex (health, breaker, probe counters) and an atomic connection_count; per pool an atomic wrr_counter | create_pools, healthy_upstreams, select_upstream, increment/decrement | the selection promise of `UpstreamSelection`; counts match requests in flight |
| Load balancing `pool/balancer.rs` | none of its own | weighted_round_robin, least_connections, random | one pick, proportional to weights, whatever the counter and the list |
| Health checker `pool/health.rs` | probes of the current cycle | initial marking, cycle, check_upstream | hysteresis; recovered upstreams come back |
| Proxy handler `server/proxy.rs` | locals across awaits | select, forward, settle, cache | every request is answered; every failure is reported once |
| Admin API `server/admin.rs` | none of its own | enable/disable, flush, keys, status | acts on the intended upstream; flush is final |
| Rate limiter `rate_limit/token_bucket.rs`, `server/mod.rs` | one mutex over a map of buckets | check_rate | at most burst + rps * t in any window t; no spurious 429 |
| Response cache `cache/*.rs` | a bounded concurrent map (moka) | get, set, delete, flush | hits are fresh, successful and answer the query |
| Authentication and key store `auth/*` | SQLite table of keys | create, revoke, look up, list | a revoked key is refused, across restarts |
| Middleware stack `server/mod.rs` | what a request carries from layer to layer | auth, limit, proxy, in that order | the right bucket pays; a revoked key gets nothing; upstreams see only what was paid for |
| Routing, configuration `routing/`, `config/` | read-only after start | route, validate | every route ends at a pool with upstreams |
| Server lifecycle `server/mod.rs`, `main.rs` | listeners, tasks, shutdown Notify | load, validate, bind, serve, signal, notify, join | stops when told; success is reported only if it is one |
| Metrics, telemetry, Redis stubs | write-only, or none | | |

What is hard to test here: a selection that takes one lock after the other while
probes, failures and the operator change what it has already seen; failures
reported to a breaker long after the request started; a count that is restored
only if the code after an `await` runs; counters that wrap after long uniform
histories; a cache lookup that reads, compares with the clock and removes in
three steps; a request that meets four kinds of shared state on its way, each
changed by others in between; a signal at any point of start-up or shutdown; and
everything that must eventually happen (readmission, answers, the exit).
`PROJECT.json` lists these hazards line by line with the properties for each.

## 2. The modules

| Module | Models | Notes |
|---|---|---|
| `CircuitBreaker` | the breaker as a record and one operator per method | used by the next and by `UpstreamPool` |
| `CircuitBreakerSpec` | one breaker driven by all its methods in any order | the component on its own |
| `Balancer` | the virtual list of weighted round-robin, and who owns slot `counter % len` of it | a recursive function, so that it can be proved about |
| `RoundRobin` | the shared counter, drawn from while upstreams come and go | the component on its own |
| `UpstreamPool` | pools, checker, operator, concurrent requests | the core, composed of the two above |
| `UpstreamSelection` | what `select_upstream` promises, with no locks, breakers or algorithms | abstract specification |
| `RateLimiter` | choice of key, rate and burst; check_rate | exact arithmetic in units of 1/Scale token |
| `KeyStore` | auth_middleware, SqliteKeyStore, key administration, restarts | one action per SQL statement |
| `ResponseCache` | lookup, hit, expiry, fetch, store, flush, eviction | `get` split where it races |
| `Gateway` | the layers of build_router around concurrent requests | composed of `KeyStore`, `RateLimiter` and `ResponseCache` by INSTANCE |
| `Config` | the configuration, validate, the routing table | pure operators |
| `Lifecycle` | main and serve from the first line to the exit, and the server tasks | uses `Config` |
| `CircuitBreakerProofs`, `BalancerProofs`, `UpstreamPoolProofs`, `RateLimiterProofs`, `KeyStoreProofs`, `ResponseCacheProofs`, `LifecycleProofs`, `GatewayProofs` | theorems | the last one instantiates the proofs of its three parts |
| `MC*` | instances for TLC; `MCPoolDocs` states what a document says of the pool | |

**Time.** A breaker's `age` is the whole seconds since `last_state_change`,
capped at `Cooldown`: `elapsed() >= 30 s` is all the code asks of it.
`Tick` advances every breaker at once. The rate limiter and the cache have a
bounded clock of their own.

**UpstreamPool.** One action is what the code does under one acquisition of an
upstream's mutex or one atomic operation. A request is `Arrive` (its pool is a
free choice, which covers every routing table), `Scan` once per upstream,
`Refuse` (503) or a selection, `Increment`, the await of the response head
(`Headers`, `AttemptFails`), the await of the body (`BodyEnds`), `Decrement`, and
after an error `Settle`, which reports to the breaker. `least_connections` is
`StartCompare`, one `Compare` per further upstream and `SelectLc`, because it loads
the atomics one by one. `Cancel` is the disconnect that drops the future at
either await. The checker is `MarkHealthy` (with `--skip-initial-health-check`),
`StartCycle` and one `ProbeDone` or `ProbeSkipped` per upstream, whose order is
free because the probes are separate tasks; the next cycle starts only when all
are joined. Upstreams are numbered in configuration order. A URL is `http`,
`https` (the plain `HttpConnector` refuses it) or `invalid`. `succ` and `fail` wrap
at `CountModulus` (2^32; release builds wrap). `good`, `leaked`, `streak`,
`steady`, `glimpsed`, `low` and `high` are history or environment, not program state; no guard
of the program reads them except the environment's and the bound on `leaked`.

**RateLimiter.** `check_rate` holds one mutex throughout, so a call is one atomic
action. The f64 arithmetic is modelled exactly; rounding is not modelled, nor
is the order in which two calls read the clock (they read it under the lock).
`winStart`/`winCount` belong to an observer that starts counting when it likes.

**ResponseCache.** moka is external: a map that may evict when over capacity.
`Slot` is the 64-bit key; `SlotAssumption` says that no two queries in use
collide on it. `epoch`, `question` and `status` of an entry are history.

**KeyStore.** A statement runs under the connection's mutex and commits by itself,
so it is one action; what a handler does with its result (decide on the row it
read, acknowledge to the operator) is another, and `Restart` may come between any
two, keeping only the table and choosing `allow_unauthenticated` anew. `KeyId`
(SHA-256) may collide, because the code verifies the Argon2 hash as well; the hash
is modelled by the key it was made from. `granted`, `revoked`, `entitled` and
`barred` are history: what operators were told, and what they had been told when a
request began.

**Gateway.** The three layers keep their own modules; `Gateway` gives them the same
requests and the same clock and says which step follows which. A request is
`Enter` (it offers one of its `Offers`), the steps of authentication, `Admit` or
`Limit`, then either `AnswerAtOnce` (/health, a body that does not parse) or the steps
of the cache and one exchange, and every way out is `Return`, which ends it in all
layers at once. `charged` and `sent` are history: which bucket paid for a request,
and how many exchanges each bucket has paid for. An exchange is one step: what
happens inside is `UpstreamPool`, and a 503 counts as one, which can only make the
bound on the load harder to keep. `PartsAsSpecified` says that the composition does
to each layer only what that layer's module allows, so what is proved of the
parts holds of the whole. There is no restart here; `KeyStore` has it.

**Config and Lifecycle.** A configuration is reduced to what decides start-up,
routing and servers: pools as lists of weights, rules as sets of methods,
addresses as names that collide or not, Redis as the set of features that ask for
it. `LastRule` says in one line what a sequence of inserts into a map amounts to;
`Tables` does
those inserts one by one, and `RoutesLikeTheTable` compares the two. `Lifecycle` has one action per
statement of `main` and `serve` that can fail or be seen from outside. A server's
task is `spawned`, `serving` once axum accepts connections, `draining` once its
listener is closed, `ended`, or `failed` with an error that waits to be joined.
`Register` is the moment a server's `Notified` exists: axum polls it in a task of its
own, so a server can serve before it. When `at` is an exit, the runtime and all
tasks are gone and nothing more happens.

Definitions marked *Mutant* are slips that each property is shown to notice.

## 3. The runs

| Run | Instance | Distinct states | Shows |
|---|---|---|---|
| `breaker` | the code's own constants, 5 failures and 30 s | 187 | trips exactly at the threshold, quiet cooldown, readmission when quiet |
| `balancer` | 4 upstreams of weights 3, 1, 2, 1 that come and go, counter mod 16 | 1 136 | one pick, proportional service |
| `pool_lc` | 2 upstreams (one invalid URL), 2 requests, least connections | 816 155 | sound scan, least loaded chosen, counts, refinement of `UpstreamSelection` |
| `pool_pools` | 2 pools (round-robin, random) whose upstreams share a URL | 294 028 | a request stays in its pool; the operator's first match; counts with disconnects |
| `pool_health` | thresholds and cooldown 2, counters mod 3, 2 requests, recovery, fairness | 141 744 | types, breaker bookkeeping, hysteresis, who readmits and who closes; liveness |
| `rate` | 2 keys in a tier of 2 rps/burst 2, one in a tier of 0/1, one of an unknown tier and one client without key behind an address of 1/1, 2 s in thirds | 1 622 392 | rate bound, no spurious 429 |
| `cache` | 2 handlers, TTL 2, 1 and 0, capacity 1, 2 flushes | 137 762 | entries belong, hits are fresh and right |
| `keys` | 3 keys on 2 ids, 2 tiers, 2 admin handlers, 1 client, restarts | 449 444 | acknowledgements last, revocation is final, keys count in their tier |
| `lifecycle` | 895 configurations, 3 servers, 2 requests in flight each | 76 554 | routing, clean exit, stopping |
| `gateway` | 2 requests (a key; none), 1 tier, 1 address, 1 query, 1 admin, 1 flush, 1 tick | 517 251 | the layers together |
| `doc_*` | small | | disagreements with the documents, section 6 |

**Bounds.** The pool's behaviour depends on thresholds only through "reached or
not", so 2 (one step short of it, and there) is the smallest interesting value
and 1 is used where the subject is the selection. Two upstreams make a scan
non-atomic, two requests make failures late and counters contended; the theorems
remove these bounds. `CountModulus` is small so that wrapping happens.
`MaxCancels` bounds disconnects per upstream (`pool_pools` has them, the other
two pool runs have none), `MaxTime` and `MaxFlushes` clock and
flushes; the rate limiter's two seconds are several refills of each bucket that is refilled,
and its clients share buckets in both ways the code has (a tier, an address); the
cache's four are two lifetimes of the longest TTL. Request handlers are
interchangeable, and so are admin handlers, so symmetry is used in `pool_lc`, `cache` and
`keys`, which check safety only. In `gateway` one request offers a key and the other none, so
that a tier and an address pay side by side; burst and rate are one, so that the
second request of a bucket is refused until the clock ticks, and the cache may
forget at any moment. In `lifecycle` the configurations vary the servers (TLS,
metrics, authentication, a shared address) with plain routing, or the routing
(six lists of pools, no rule, one or two, overlapping or wrong) with plain servers.

**Fairness** (`UpstreamPool`). Weak fairness of the checker, of each probe (its
request is bounded by a timeout), of time, of a handler between two awaits (tokio
schedules ready tasks; no lock is held across an await) and of the await that the
timeout bounds. None for clients, for the operator, or for the response body,
which no timeout covers. Hence `AnsweredUnlessBodyStalls` and no stronger
promise: it exempts exactly the await without a timeout (section 6). `RecoveredIsReadmitted` assumes that every exchange with a recovered
upstream that ends, ends well. `CircuitBreakerSpec` assumes fairness of the probe
and of time only, and `ReopensWhenQuiet` speaks of breakers without further
failures.

`Lifecycle` assumes weak fairness of `serve` and of each server's own steps (tokio polls
what is ready). Nothing is assumed of signals, of clients, or of the time an
answer takes: a graceful shutdown has no deadline, hence the exception for
requests that are never answered in `StopsWhenTold`.

Deadlock checking is on in every run but `lifecycle`, whose process exits.

## 4. What is proved

TLAPS checks every theorem for all constants that satisfy the named assumptions
of the modules (`PoolAssumption`, `HealthThresholdAssumption`,
`RequestsAssumption`: finitely many handlers, `SlotAssumption`, ...).

- `BreakerTypeCorrect`, `TripsAtThreshold`, `ReadmitsWhenQuiet`. The threshold fact
  is inductive only with the type invariant and the relation of the history
  variable to `age` (`CBInv`).
- `TypeCorrect`. `TypeOK` is not inductive: that `chosen` is a real upstream and
  `pool` a real pool depends on the control point. `TInv` adds `LocalsOK`, which
  says what each local holds at each control point.
- `BreakersConsistent`, `Readmission`. One lemma per breaker method, then one case
  per action that locks an upstream. `Readmission` also says that a breaker becomes
  Closed only by the operator: no method of the breaker that is called closes it
  (`NoMethodCloses`), and of the actions only `Enable` replaces it.
- `LeastLoaded`. `low` and `high` are the least and the greatest count each upstream
  has had since the request began to compare. `LeastLoadedIsChosen` is not inductive:
  a comparison with the next upstream needs to know where the smallest count loaded
  so far lies. `CompareOK` says that it is at least the `low` of the chosen upstream and
  at most the `high` of every upstream loaded; loading keeps this, and the passing of
  time only widens the interval (`GaugesWiden`). A stronger promise, that no other
  upstream has fewer connections at the moment of the choice, does not hold.
- `ConnectionsAccounted`. Each action moves at most one request in or out of
  `InFlight(u)`; the cardinality lemmas of finite sets give the count.
- `Hysteresis`. The counters wrap, so they are not the length of the streak;
  `CountersLag` says they never exceed it (capped at the threshold) and that a
  counter is zero while the streak runs the other way, which is what the claim
  needs and what survives wrapping.
- `ScanSound` is inductive with `TInv`. `PoolImplementsSelection` uses it together
  with `HistoryOK` (steady and glimpsed mean what they say) and shows that each
  action of the pool is one action of `UpstreamSelection` or leaves its variables
  unchanged.
- `RInvHolds`, `RateBoundHolds`, `NoSpuriousRejection`. `BucketInv` is the usual
  potential argument: admissions in the window plus tokens left are at most what
  the window has paid for; tokens left are at least the refill since the latest
  admission.
- `AcksDurable`, `RevocationFinal`, `GrantedHonoured`, `ServedInTier`. The argument is
  that the table only grows (`Grows`): rows keep key and tier, revocations are never
  undone. `KInv` records what each handler has learned (`JobOK`, `ClientOK`), and
  everything learned survives every step that only grows the table.
- `CacheIsSound`, `HitsAreFresh`, `HitsAnswerTheQuery`. `EntriesBelong` covers the
  entry a handler has cloned as well as the slots, so a step of another handler
  between clone and use cannot matter.
- `RoutesReachPools`, `ExitIsClean`. `LInv` records how far `serve` has come and what it
  therefore knows: after `validate` the configuration is valid (`Validated`), tasks
  exist only after they are spawned (`SpawnedInOrder`), a server joined without error
  has ended (`JoinedInOrder`), and only a server that serves or drains has requests
  (`OpenInServers`). `CleanExit` alone says nothing about the step before the exit.
  For routing, the lemmas `LeastExists` and `GreatestExists` give the first pool of a
  name and the last rule for a method; `RouteIsDefined` follows from `validate`.

- `RoutesAreLookups`. The table after each rule is a recursive function of the
  number of rules; the lemma `TableHoldsLast` says that after `i` rules it holds, for
  every method, the pool of the last of them that names it.
- `AlwaysOnePick`, `ServiceIsProportional`. `Placed` says where the
  copies of an upstream lie in the virtual list and `Covered` that they leave no
  gap, so each slot has exactly one owner, the entry the list
  holds there (`OnePick`). A full turn draws as many
  consecutive counter values as the list has slots; `EverySlotComes` and `NoSlotTwice`
  make this a bijection onto the slots, wherever the turn begins, and `FullTurn`
  counts. `ProportionalService` speaks only of the end of a turn; the invariant
  `TurnOK` says of every moment in it that an upstream has been served by exactly
  those of the values drawn that pick it. The claim is made for turns in which the
  counter does not wrap: where 2^64 is no multiple of the list's length, the turn
  that wraps is not proportional.
- `GatewayParts`. Each step of the gateway is a step of one part, or of two that
  share a request or the clock, and leaves the rest alone (`KeyStep`, `RateStep`,
  `CacheStep`). So the theorems of `KeyStoreProofs`, `RateLimiterProofs` and
  `ResponseCacheProofs`, instantiated, hold of the gateway (`KeysHold`, `RatesHold`,
  `CacheHolds`); `PartsAssumption` states what the constants of the gateway must
  satisfy for the parts.
- `RevokedGetNothing`, `RequestsChargedToTheirTier`, `UpstreamsProtected`. `GInv` ties the
  layers together: a request is in the handler only after both layers above it, and
  keeps the bucket that its source was charged to (`InLayers`); the row it holds is
  the row of its key and gave it its tier (`EntryOK`); each exchange sent, and each
  request in the handler that may still send one, has an admission of its own
  (`PaidFor`). It is inductive relative to the invariants of the parts: from `KInv`
  come that a served request is not barred and that the table never changes the
  tier of a key, so what was decided at the door still holds in the handler; and
  `RateBoundHolds` bounds the admissions that `PaidFor` bounds the exchanges by.
  Without the requests that have yet to send, `PaidFor` is not inductive.

The provers cannot instantiate an induction principle, so facts about recursive
functions are proved by their smallest counterexample: among the numbers
(`LeastExists`) or finite sets (`SmallestSet`) for which the claim fails there is a
least one, by the library's theorems on well-founded orderings, and it cannot be.
That a recursive function has the value its definition says is proved the same
way first (`TablesDefined`, `VirtualListDefined`).

Every invariant and every action property that a passing run checks is now stated
by a theorem. Left to model checking: liveness (`ReopensWhenQuiet`,
`RecoveredIsReadmitted`, `AnsweredUnlessBodyStalls`, `StopsWhenTold`), which needs
fairness and ENABLED.

## 5. What is not modelled

- The pool inside `Gateway`: the exchange is one step there, because the product of the
  layers with `UpstreamPool` is out of TLC's reach; the two meet only in that step.
- Restarts in `Gateway`. The clean-up of the runtime after `main` returns.
- Metrics, telemetry, statistics, latency: written, never read back.
- Redis backends: stubs. `reload`: the code does nothing. The `LoadBalancer` trait
  objects wrap the modelled functions and are not used by the gateway.
- Parsing of bodies and the text of answers. A batch or malformed request is
  answered before it reaches a pool.
- Weights and the round-robin counter are explored in `balancer`; the pool runs use
  weight one, where the algorithm differs only in how many slots an upstream has.

## 6. Where documents and code disagree

Shown by a run:

- `doc_active_count`: a client that disconnects mid-request leaves
  `connection_count` one too high for good, so least connections compares more
  than "active connections".
- `doc_cached_for_ttl`: a lookup that saw an expired entry may remove the fresh one
  another request has just stored, so an identical request goes upstream again.

Met while reading, each visible in the code at one place and therefore without a
run of its own: a success does not close a HalfOpen breaker, because nothing calls
`record_success` (ARCHITECTURE.md:227, `proxy.rs:139`); HalfOpen admits any number of requests, not one (ARCHITECTURE.md:227,
`circuit_breaker.rs:38`); 5xx answers are not counted as failures (README.md:154,
`proxy.rs:140`); a disabled upstream comes back with the next successful probe
(README.md:649, `admin.rs:173`); `request_timeout_ms` does not cover the response
body (README.md:426, `proxy.rs:258`); all keys of a tier share one bucket instead
of having one each (README.md:568, `server/mod.rs:379`); clients without forwarding headers share one
bucket (README.md:202, `server/mod.rs:447`); `requests_per_second = 0` refuses
everything once the burst is spent instead of meaning "no limit" (README.md:228, `token_bucket.rs:46`);
buckets are never cleaned up (ARCHITECTURE.md:288); the gateway starts whatever the
initial health check finds (README.md:564, `server/mod.rs:142`); with TLS enabled the main
server never comes up, because `bind_rustls` binds the address that the plain
listener holds (README.md:576, `server/mod.rs:182`); `/health` needs a key and a token like any
request (README.md:312, `server/mod.rs:106`); a Redis backend is accepted and the one in
memory used (`server/mod.rs:43-78`).

Met in `Lifecycle`: without the condition that `Deaf` is empty, `StopsWhenTold` is false. A
signal that arrives while a server runs but its `Notified` future does not exist yet
is lost on it; `serve` then waits for that server for ever, and since the signal
handlers stay installed a second signal is ignored.

## 7. Plan

Done: breaker, balancer, pool with checker, operator and requests and its abstract
specification, rate limiter, cache, key store, configuration, routing, lifecycle,
the composition of the layers, and a proof of every safety property above. Next:

1. A tighter composition: the exchange of `Gateway` as the steps of `UpstreamPool`,
   by proof, since the product is out of TLC's reach.
2. The statistics of the cache, if something ever reads them but the operator.
