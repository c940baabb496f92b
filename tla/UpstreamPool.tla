---------------------------- MODULE UpstreamPool ----------------------------
(***************************************************************************)
(* The heart of the gateway: the upstreams of all pools, the background    *)
(* health checker that probes them (pool/health.rs), the requests that     *)
(* select an upstream and forward to it (server/proxy.rs, pool/mod.rs,     *)
(* pool/balancer.rs), and the operator who forces an upstream on or off    *)
(* (server/admin.rs).                                                      *)
(*                                                                         *)
(* Grain of atomicity.  One action is what the code does under one         *)
(* acquisition of an upstream's mutex, or one operation on an atomic:      *)
(* healthy_upstreams() locks the upstreams one after the other and         *)
(* least_connections() loads their counters one after the other, so other  *)
(* requests, probes and the operator may run between two of these steps.   *)
(*                                                                         *)
(* Latency, logging and metrics change nothing these actions read and are  *)
(* left out; max_connections is stored by the code but never consulted.    *)
(***************************************************************************)
EXTENDS CircuitBreaker, Balancer

CONSTANTS
  Pools,
  PoolOf,               \* the pool an upstream is configured in
  Algorithm,            \* load balancing algorithm of each pool
  Url,                  \* the URL of an upstream; two upstreams may share one
  Scheme,               \* what kind of URL it is: "http", "https", "invalid"
  Requests,             \* request handlers that may run concurrently
  HealthyThreshold,
  UnhealthyThreshold,
  CountModulus,         \* width of consecutive_successes/failures (2^32)
  SkipInitial,          \* --skip-initial-health-check
  MayRecover,           \* upstreams that may recover for good; safety needs none
  MaxCancels            \* bound: client disconnects per upstream in one behaviour

ASSUME PoolAssumption ==
  /\ PoolOf \in [Upstreams -> Pools]
  /\ Algorithm \in [Pools -> {"wrr", "lc", "random"}]
  /\ Scheme \in [Upstreams -> {"http", "https", "invalid"}]
  /\ DOMAIN Url = Upstreams
ASSUME HealthThresholdAssumption ==
  /\ CountModulus \in Nat
  /\ HealthyThreshold \in 1..(CountModulus - 1)
  /\ UnhealthyThreshold \in 1..(CountModulus - 1)
ASSUME RequestsAssumption == IsFiniteSet(Requests)
ASSUME SwitchAssumption ==
  SkipInitial \in BOOLEAN /\ MaxCancels \in Nat /\ MayRecover \subseteq Upstreams

VARIABLES
  \* UpstreamMutableState, behind the mutex of each upstream
  health, breaker, succ, fail,
  \* atomics: connection_count of each upstream, wrr_counter of each pool
  conn, counter,
  \* the health checker: upstreams still to be marked by skip_initial, and
  \* probes of the current cycle that have not taken the lock yet
  unmarked, pending,
  \* each request handler: control point and local variables
  pc, pool, unscanned, found, chosen, fewest, outcome,
  \* the outside world: upstreams that from now on answer every exchange
  \* in time and with success
  good,
  \* history, read by no guard but the bound on leaked
  leaked, streak, steady, glimpsed, low, high

lockVars    == <<health, breaker, succ, fail>>
atomicVars  == <<conn, counter>>
checkerVars == <<unmarked, pending>>
localVars   == <<pool, unscanned, found, chosen, fewest, outcome>>
historyVars == <<leaked, streak>>

vars == <<lockVars, atomicVars, checkerVars, pc, localVars, good, historyVars,
          steady, glimpsed, low, high>>

NoUpstream == -1
NoPool == "none"

ControlPoints ==
  {"idle", "scan", "compare", "incr", "wait", "body", "decr", "settle"}

(* Control points at which a handler has incremented connection_count of    *)
(* its upstream and not yet decremented it.                                 *)
Holding == {"wait", "body", "decr"}

Outcomes == {"none", "success", "server_error", "timeout", "error"}

(* forward_to_upstream returned Ok: whatever the status of the response. *)
OkOutcomes == {"success", "server_error"}

(***************************************************************************)
(* Mutants.  Here and below, a definition marked Mutant is the next        *)
(* unmarked one with a plausible slip in the code.  No specification uses  *)
(* it; putting it in the other's place shows that a property notices.      *)
(***************************************************************************)

(* Mutant: a pool is given the upstreams of all pools. *)
MembersOfAnyPool(p) == {u \in Upstreams : PoolOf[u] \in Pools}

(* create_pools: the upstreams configured in pool p. *)
Members(p) == {u \in Upstreams : PoolOf[u] = p}

(* UpstreamState::is_available, evaluated under the lock. *)
Available(u) == health[u] = "Healthy" /\ IsAvailable(breaker[u])

AvailableUpstreams == {u \in Upstreams : Available(u)}

Selecting(r) == pc[r] \in {"scan", "compare"}

(***************************************************************************)
(* History of a selection.  Of the upstreams of r's pool, steady[r] holds  *)
(* those available in every state since r entered select_upstream, and     *)
(* glimpsed[r] those available in some state since.                        *)
(***************************************************************************)
Candidates(r) == Members(pool[r]) \cap AvailableUpstreams

(* While r compares the connection counts, low[r] and high[r] are the least *)
(* and the greatest that each has been since r loaded the first of them.    *)
Gauge ==
  /\ low' = [r \in Requests |-> [u \in Upstreams |->
       CASE pc'[r] # "compare" -> 0
         [] pc'[r] = "compare" /\ pc[r] # "compare" -> conn'[u]
         [] pc'[r] = "compare" /\ pc[r] = "compare" ->
              IF conn'[u] < low[r][u] THEN conn'[u] ELSE low[r][u]]]
  /\ high' = [r \in Requests |-> [u \in Upstreams |->
       CASE pc'[r] # "compare" -> 0
         [] pc'[r] = "compare" /\ pc[r] # "compare" -> conn'[u]
         [] pc'[r] = "compare" /\ pc[r] = "compare" ->
              IF conn'[u] > high[r][u] THEN conn'[u] ELSE high[r][u]]]

Observe ==
  /\ steady' = [r \in Requests |->
       CASE ~Selecting(r)' -> {}
         [] Selecting(r)' /\ Selecting(r) -> steady[r] \cap Candidates(r)'
         [] Selecting(r)' /\ ~Selecting(r) -> Candidates(r)']
  /\ glimpsed' = [r \in Requests |->
       CASE ~Selecting(r)' -> {}
         [] Selecting(r)' /\ Selecting(r) -> glimpsed[r] \cup Candidates(r)'
         [] Selecting(r)' /\ ~Selecting(r) -> Candidates(r)']
  /\ Gauge

TypeOK ==
  /\ health \in [Upstreams -> {"Healthy", "Unhealthy"}]
  /\ breaker \in [Upstreams -> Breaker]
  /\ succ \in [Upstreams -> 0..(CountModulus - 1)]
  /\ fail \in [Upstreams -> 0..(CountModulus - 1)]
  /\ conn \in [Upstreams -> Int]
  /\ counter \in [Pools -> 0..(CounterModulus - 1)]
  /\ unmarked \in SUBSET Upstreams
  /\ pending \in SUBSET Upstreams
  /\ pc \in [Requests -> ControlPoints]
  /\ pool \in [Requests -> Pools \cup {NoPool}]
  /\ unscanned \in [Requests -> SUBSET Upstreams]
  /\ found \in [Requests -> SUBSET Upstreams]
  /\ chosen \in [Requests -> Upstreams \cup {NoUpstream}]
  /\ fewest \in [Requests -> Int]
  /\ outcome \in [Requests -> Outcomes]
  /\ good \in SUBSET Upstreams
  /\ leaked \in [Upstreams -> Nat]
  /\ streak \in [Upstreams -> (-UnhealthyThreshold)..HealthyThreshold]
  /\ steady \in [Requests -> SUBSET Upstreams]
  /\ glimpsed \in [Requests -> SUBSET Upstreams]
  /\ low \in [Requests -> [Upstreams -> Int]]
  /\ high \in [Requests -> [Upstreams -> Int]]

(* create_pools and UpstreamState::new; the handlers have not started. *)
Init ==
  /\ health = [u \in Upstreams |-> "Unhealthy"]
  /\ breaker = [u \in Upstreams |-> NewBreaker]
  /\ succ = [u \in Upstreams |-> 0]
  /\ fail = [u \in Upstreams |-> 0]
  /\ conn = [u \in Upstreams |-> 0]
  /\ counter = [p \in Pools |-> 0]
  /\ unmarked = IF SkipInitial THEN Upstreams ELSE {}
  /\ pending = {}
  /\ pc = [r \in Requests |-> "idle"]
  /\ pool = [r \in Requests |-> NoPool]
  /\ unscanned = [r \in Requests |-> {}]
  /\ found = [r \in Requests |-> {}]
  /\ chosen = [r \in Requests |-> NoUpstream]
  /\ fewest = [r \in Requests |-> 0]
  /\ outcome = [r \in Requests |-> "none"]
  /\ good = {}
  /\ leaked = [u \in Upstreams |-> 0]
  /\ streak = [u \in Upstreams |-> 0]
  /\ steady = [r \in Requests |-> {}]
  /\ glimpsed = [r \in Requests |-> {}]
  /\ low = [r \in Requests |-> [u \in Upstreams |-> 0]]
  /\ high = [r \in Requests |-> [u \in Upstreams |-> 0]]

-----------------------------------------------------------------------------
(***************************************************************************)
(* The health checker (run_health_checks, one background task).            *)
(***************************************************************************)

(* skip_initial: mark the upstreams healthy, one lock at a time, in order. *)
MarkHealthy(u) ==
  /\ IsFirst(u, unmarked)
  /\ health' = [health EXCEPT ![u] = "Healthy"]
  /\ unmarked' = unmarked \ {u}
  /\ UNCHANGED <<breaker, succ, fail, atomicVars, pending, pc, localVars, good,
                 historyVars>>
  /\ Observe

(* run_health_check_cycle spawns a probe of every upstream.  It starts only *)
(* when every probe of the previous cycle has been joined.                  *)
StartCycle ==
  /\ unmarked = {}
  /\ pending = {}
  /\ pending' = Upstreams
  /\ UNCHANGED <<lockVars, atomicVars, unmarked, pc, localVars, good, historyVars>>
  /\ Observe

(* Mutant: the opposite counter is not reset. *)
ApplyProbeNoReset(u, ok) ==
  /\ breaker' = [breaker EXCEPT ![u] = TryHalfOpen(@)]
  /\ succ' = IF ok THEN [succ EXCEPT ![u] = (@ + 1) % CountModulus] ELSE succ
  /\ fail' = IF ok THEN fail ELSE [fail EXCEPT ![u] = (@ + 1) % CountModulus]
  /\ health' = [health EXCEPT ![u] =
       CASE ok /\ succ'[u] >= HealthyThreshold -> "Healthy"
         [] ~ok /\ fail'[u] >= UnhealthyThreshold -> "Unhealthy"
         [] OTHER -> @]

(* Mutant: a failed probe takes one success back, below zero. *)
ApplyProbeDecays(u, ok) ==
  /\ breaker' = [breaker EXCEPT ![u] = TryHalfOpen(@)]
  /\ succ' = [succ EXCEPT ![u] = IF ok THEN (@ + 1) % CountModulus ELSE @ - 1]
  /\ fail' = [fail EXCEPT ![u] = IF ok THEN 0 ELSE (@ + 1) % CountModulus]
  /\ health' = [health EXCEPT ![u] =
       CASE ok /\ succ'[u] >= HealthyThreshold -> "Healthy"
         [] ~ok /\ fail'[u] >= UnhealthyThreshold -> "Unhealthy"
         [] OTHER -> @]

(* Mutant: try_half_open is forgotten. *)
ApplyProbeKeepsOpen(u, ok) ==
  /\ succ' = [succ EXCEPT ![u] = IF ok THEN (@ + 1) % CountModulus ELSE 0]
  /\ fail' = [fail EXCEPT ![u] = IF ok THEN 0 ELSE (@ + 1) % CountModulus]
  /\ health' = [health EXCEPT ![u] =
       CASE ok /\ succ'[u] >= HealthyThreshold -> "Healthy"
         [] ~ok /\ fail'[u] >= UnhealthyThreshold -> "Unhealthy"
         [] OTHER -> @]
  /\ UNCHANGED breaker

(* The tail of check_upstream, under the lock, with the result of the probe. *)
ApplyProbe(u, ok) ==
  /\ breaker' = [breaker EXCEPT ![u] = TryHalfOpen(@)]
  /\ succ' = [succ EXCEPT ![u] = IF ok THEN (@ + 1) % CountModulus ELSE 0]
  /\ fail' = [fail EXCEPT ![u] = IF ok THEN 0 ELSE (@ + 1) % CountModulus]
  /\ health' = [health EXCEPT ![u] =
       CASE ok /\ succ'[u] >= HealthyThreshold -> "Healthy"
         [] ~ok /\ fail'[u] >= UnhealthyThreshold -> "Unhealthy"
         [] OTHER -> @]

(* Probe outcomes in a row: n > 0 for n successes, n < 0 for -n failures. *)
NextStreak(n, ok) ==
  CASE ok /\ n < 0   -> 1
    [] ok /\ n >= 0  -> IF n < HealthyThreshold THEN n + 1 ELSE n
    [] ~ok /\ n > 0  -> -1
    [] ~ok /\ n <= 0 -> IF -n < UnhealthyThreshold THEN n - 1 ELSE n

(* A probe ends: a success status, or an error status, a failed connection  *)
(* (always, over the plain HttpConnector, when the URL is https) or the     *)
(* timeout of tokio::time::timeout.                                         *)
ProbeDone(u, ok) ==
  /\ u \in pending
  /\ Scheme[u] # "invalid"
  /\ ok => Scheme[u] = "http"
  /\ u \in good => ok
  /\ ApplyProbe(u, ok)
  /\ pending' = pending \ {u}
  /\ streak' = [streak EXCEPT ![u] = NextStreak(@, ok)]
  /\ UNCHANGED <<atomicVars, unmarked, pc, localVars, good, leaked>>
  /\ Observe

(* check_upstream returns early when the URL does not parse. *)
ProbeSkipped(u) ==
  /\ u \in pending
  /\ Scheme[u] = "invalid"
  /\ pending' = pending \ {u}
  /\ UNCHANGED <<lockVars, atomicVars, unmarked, pc, localVars, good, historyVars>>
  /\ Observe

-----------------------------------------------------------------------------
(***************************************************************************)
(* The operator (set_upstream_health): acts on the first upstream, in      *)
(* configuration order, whose URL matches.                                 *)
(***************************************************************************)

Enable(u) ==
  /\ IsFirst(u, {v \in Upstreams : Url[v] = Url[u]})
  /\ health' = [health EXCEPT ![u] = "Healthy"]
  /\ breaker' = [breaker EXCEPT ![u] = NewBreaker]
  /\ UNCHANGED <<succ, fail, atomicVars, checkerVars, pc, localVars, good,
                 historyVars>>
  /\ Observe

(* Disabling leaves the breaker and the probe counters as they are. *)
Disable(u) ==
  /\ IsFirst(u, {v \in Upstreams : Url[v] = Url[u]})
  /\ health' = [health EXCEPT ![u] = "Unhealthy"]
  /\ UNCHANGED <<breaker, succ, fail, atomicVars, checkerVars, pc, localVars,
                 good, historyVars>>
  /\ Observe

-----------------------------------------------------------------------------
(***************************************************************************)
(* A request, from the moment proxy_handler has found its pool.  Requests  *)
(* answered before that (malformed bodies, cache hits) never touch a pool. *)
(***************************************************************************)

(* Every action of a request leaves the locked state and the checker alone, *)
(* except Settle.                                                           *)
OnlyRequest == UNCHANGED <<lockVars, checkerVars, good, streak>>

Arrive(r) ==
  /\ pc[r] = "idle"
  /\ \E p \in Pools :
       /\ pool' = [pool EXCEPT ![r] = p]
       /\ unscanned' = [unscanned EXCEPT ![r] = Members(p)]
  /\ pc' = [pc EXCEPT ![r] = "scan"]
  /\ UNCHANGED <<atomicVars, found, chosen, fewest, outcome, leaked>>
  /\ OnlyRequest /\ Observe

(* Mutant: the last upstream of the pool is never looked at. *)
ScanSkipsLast(r) ==
  /\ pc[r] = "scan"
  /\ \E u \in Upstreams :
       /\ IsFirst(u, unscanned[r])
       /\ unscanned' = [unscanned EXCEPT ![r] = @ \ {u}]
       /\ found' = IF Available(u) /\ unscanned[r] # {u}
                   THEN [found EXCEPT ![r] = @ \cup {u}] ELSE found
  /\ UNCHANGED <<atomicVars, pc, pool, chosen, fewest, outcome, leaked>>
  /\ OnlyRequest /\ Observe

(* healthy_upstreams: one upstream's lock, one is_available. *)
Scan(r) ==
  /\ pc[r] = "scan"
  /\ \E u \in Upstreams :
       /\ IsFirst(u, unscanned[r])
       /\ unscanned' = [unscanned EXCEPT ![r] = @ \ {u}]
       /\ found' = IF Available(u) THEN [found EXCEPT ![r] = @ \cup {u}] ELSE found
  /\ UNCHANGED <<atomicVars, pc, pool, chosen, fewest, outcome, leaked>>
  /\ OnlyRequest /\ Observe

(* Mutant: with no upstream available the handler tries again. *)
RefuseRetries(r) ==
  /\ pc[r] = "scan" /\ unscanned[r] = {} /\ found[r] = {}
  /\ unscanned' = [unscanned EXCEPT ![r] = Members(pool[r])]
  /\ UNCHANGED <<atomicVars, pc, pool, found, chosen, fewest, outcome, leaked>>
  /\ OnlyRequest /\ Observe

(* No upstream found: select_upstream is None and the answer is 503. *)
Refuse(r) ==
  /\ pc[r] = "scan" /\ unscanned[r] = {} /\ found[r] = {}
  /\ pc' = [pc EXCEPT ![r] = "idle"]
  /\ pool' = [pool EXCEPT ![r] = NoPool]
  /\ UNCHANGED <<atomicVars, unscanned, found, chosen, fewest, outcome, leaked>>
  /\ OnlyRequest /\ Observe

(* select returned u; the handler is about to count the connection. *)
Choose(r, u) ==
  /\ chosen' = [chosen EXCEPT ![r] = u]
  /\ pc' = [pc EXCEPT ![r] = "incr"]
  /\ pool' = [pool EXCEPT ![r] = NoPool]
  /\ found' = [found EXCEPT ![r] = {}]

SelectWrr(r) ==
  /\ pc[r] = "scan" /\ unscanned[r] = {}
  /\ Algorithm[pool[r]] = "wrr"
  /\ \E u \in found[r] : WrrPicks(u, found[r], counter[pool[r]]) /\ Choose(r, u)
  /\ counter' = [counter EXCEPT ![pool[r]] = Bump(@)]
  /\ UNCHANGED <<conn, unscanned, fewest, outcome, leaked>>
  /\ OnlyRequest /\ Observe

SelectRandom(r) ==
  /\ pc[r] = "scan" /\ unscanned[r] = {}
  /\ Algorithm[pool[r]] = "random"
  /\ \E u \in found[r] : Choose(r, u)
  /\ UNCHANGED <<atomicVars, unscanned, fewest, outcome, leaked>>
  /\ OnlyRequest /\ Observe

(* least_connections starts its min_by_key with the first upstream found... *)
StartCompare(r) ==
  /\ pc[r] = "scan" /\ unscanned[r] = {}
  /\ Algorithm[pool[r]] = "lc"
  /\ \E u \in found[r] :
       /\ IsFirst(u, found[r])
       /\ chosen' = [chosen EXCEPT ![r] = u]
       /\ fewest' = [fewest EXCEPT ![r] = conn[u]]
       /\ unscanned' = [unscanned EXCEPT ![r] = found[r] \ {u}]
  /\ pc' = [pc EXCEPT ![r] = "compare"]
  /\ UNCHANGED <<atomicVars, pool, found, outcome, leaked>>
  /\ OnlyRequest /\ Observe

(* Mutant: the key is negated, as for max_by_key. *)
ComparePrefersBusy(r) ==
  /\ pc[r] = "compare"
  /\ \E u \in Upstreams :
       /\ IsFirst(u, unscanned[r])
       /\ unscanned' = [unscanned EXCEPT ![r] = @ \ {u}]
       /\ IF conn[u] > fewest[r]
          THEN /\ chosen' = [chosen EXCEPT ![r] = u]
               /\ fewest' = [fewest EXCEPT ![r] = conn[u]]
          ELSE UNCHANGED <<chosen, fewest>>
  /\ UNCHANGED <<atomicVars, pc, pool, found, outcome, leaked>>
  /\ OnlyRequest /\ Observe

(* ...and loads the counters of the others one by one, keeping the earlier  *)
(* of two equal ones.                                                       *)
Compare(r) ==
  /\ pc[r] = "compare"
  /\ \E u \in Upstreams :
       /\ IsFirst(u, unscanned[r])
       /\ unscanned' = [unscanned EXCEPT ![r] = @ \ {u}]
       /\ IF conn[u] < fewest[r]
          THEN /\ chosen' = [chosen EXCEPT ![r] = u]
               /\ fewest' = [fewest EXCEPT ![r] = conn[u]]
          ELSE UNCHANGED <<chosen, fewest>>
  /\ UNCHANGED <<atomicVars, pc, pool, found, outcome, leaked>>
  /\ OnlyRequest /\ Observe

SelectLc(r) ==
  /\ pc[r] = "compare" /\ unscanned[r] = {}
  /\ Choose(r, chosen[r])
  /\ fewest' = [fewest EXCEPT ![r] = 0]
  /\ UNCHANGED <<atomicVars, unscanned, outcome, leaked>>
  /\ OnlyRequest /\ Observe

(* increment_connection_count, then forward_to_upstream is awaited. *)
Increment(r) ==
  /\ pc[r] = "incr"
  /\ conn' = [conn EXCEPT ![chosen[r]] = @ + 1]
  /\ pc' = [pc EXCEPT ![r] = "wait"]
  /\ UNCHANGED <<counter, localVars, leaked>>
  /\ OnlyRequest /\ Observe

(* The response head arrives before the timeout. *)
Headers(r) ==
  /\ pc[r] = "wait"
  /\ Scheme[chosen[r]] = "http"
  /\ \E status \in OkOutcomes :
       /\ chosen[r] \in good => status = "success"
       /\ outcome' = [outcome EXCEPT ![r] = status]
  /\ pc' = [pc EXCEPT ![r] = "body"]
  /\ UNCHANGED <<atomicVars, pool, unscanned, found, chosen, fewest, leaked>>
  /\ OnlyRequest /\ Observe

(* The exchange fails before the response head: an URL that does not parse, *)
(* an https URL over the plain connector, a connection error, the timeout.  *)
AttemptFails(r) ==
  /\ pc[r] = "wait"
  /\ chosen[r] \notin good
  /\ \E err \in {"timeout", "error"} :
       /\ Scheme[chosen[r]] # "http" => err = "error"
       /\ outcome' = [outcome EXCEPT ![r] = err]
  /\ pc' = [pc EXCEPT ![r] = "decr"]
  /\ UNCHANGED <<atomicVars, pool, unscanned, found, chosen, fewest, leaked>>
  /\ OnlyRequest /\ Observe

(* The response body is complete, or reading it fails.  No timeout covers   *)
(* this await.                                                              *)
BodyEnds(r) ==
  /\ pc[r] = "body"
  /\ \/ UNCHANGED outcome
     \/ /\ chosen[r] \notin good
        /\ outcome' = [outcome EXCEPT ![r] = "error"]
  /\ pc' = [pc EXCEPT ![r] = "decr"]
  /\ UNCHANGED <<atomicVars, pool, unscanned, found, chosen, fewest, leaked>>
  /\ OnlyRequest /\ Observe

(* The client disconnects while the handler awaits the upstream: the server *)
(* drops the handler's future, and nothing after the await runs.            *)
Cancel(r) ==
  /\ pc[r] \in {"wait", "body"}
  /\ leaked[chosen[r]] < MaxCancels
  /\ leaked' = [leaked EXCEPT ![chosen[r]] = @ + 1]
  /\ pc' = [pc EXCEPT ![r] = "idle"]
  /\ chosen' = [chosen EXCEPT ![r] = NoUpstream]
  /\ outcome' = [outcome EXCEPT ![r] = "none"]
  /\ UNCHANGED <<atomicVars, pool, unscanned, found, fewest>>
  /\ OnlyRequest /\ Observe

(* Mutant: the decrement sits in the Ok arm only. *)
DecrementOnlyOnSuccess(r) ==
  /\ pc[r] = "decr"
  /\ IF outcome[r] \in OkOutcomes
     THEN /\ conn' = [conn EXCEPT ![chosen[r]] = @ - 1]
          /\ pc' = [pc EXCEPT ![r] = "idle"]
          /\ chosen' = [chosen EXCEPT ![r] = NoUpstream]
          /\ outcome' = [outcome EXCEPT ![r] = "none"]
     ELSE /\ pc' = [pc EXCEPT ![r] = "settle"]
          /\ UNCHANGED <<conn, chosen, outcome>>
  /\ UNCHANGED <<counter, pool, unscanned, found, fewest, leaked>>
  /\ OnlyRequest /\ Observe

(* Mutant: a response is reported to the breaker, as ARCHITECTURE.md:227    *)
(* has it.                                                                  *)
DecrementCloses(r) ==
  /\ pc[r] = "decr"
  /\ conn' = [conn EXCEPT ![chosen[r]] = @ - 1]
  /\ IF outcome[r] \in OkOutcomes
     THEN /\ breaker' = [breaker EXCEPT ![chosen[r]] = RecordSuccess(@)]
          /\ pc' = [pc EXCEPT ![r] = "idle"]
          /\ chosen' = [chosen EXCEPT ![r] = NoUpstream]
          /\ outcome' = [outcome EXCEPT ![r] = "none"]
     ELSE /\ pc' = [pc EXCEPT ![r] = "settle"]
          /\ UNCHANGED <<breaker, chosen, outcome>>
  /\ UNCHANGED <<health, succ, fail, counter, checkerVars, pool, unscanned, found,
                 fewest, good, historyVars>>
  /\ Observe

(* decrement_connection_count; a response of any status is passed on, an    *)
(* error is settled with the breaker first.                                 *)
Decrement(r) ==
  /\ pc[r] = "decr"
  /\ conn' = [conn EXCEPT ![chosen[r]] = @ - 1]
  /\ IF outcome[r] \in OkOutcomes
     THEN /\ pc' = [pc EXCEPT ![r] = "idle"]
          /\ chosen' = [chosen EXCEPT ![r] = NoUpstream]
          /\ outcome' = [outcome EXCEPT ![r] = "none"]
     ELSE /\ pc' = [pc EXCEPT ![r] = "settle"]
          /\ UNCHANGED <<chosen, outcome>>
  /\ UNCHANGED <<counter, pool, unscanned, found, fewest, leaked>>
  /\ OnlyRequest /\ Observe

(* The Err arm of proxy_handler: record_failure under the lock, then answer *)
(* 504 or 502.                                                              *)
Settle(r) ==
  /\ pc[r] = "settle"
  /\ breaker' = [breaker EXCEPT ![chosen[r]] = RecordFailure(@)]
  /\ pc' = [pc EXCEPT ![r] = "idle"]
  /\ chosen' = [chosen EXCEPT ![r] = NoUpstream]
  /\ outcome' = [outcome EXCEPT ![r] = "none"]
  /\ UNCHANGED <<health, succ, fail, atomicVars, checkerVars, pool, unscanned,
                 found, fewest, good, historyVars>>
  /\ Observe

-----------------------------------------------------------------------------
(* Time passes for every breaker at once. *)
Tick ==
  /\ breaker' = [u \in Upstreams |-> Elapse(breaker[u])]
  /\ UNCHANGED <<health, succ, fail, atomicVars, checkerVars, pc, localVars, good,
                 historyVars>>
  /\ Observe

(* An upstream recovers for good: every exchange that ends from now on ends *)
(* in time and with success.  Until then anything may happen.               *)
Recover(u) ==
  /\ u \in MayRecover \ good
  /\ Scheme[u] = "http"
  /\ good' = good \cup {u}
  /\ UNCHANGED <<lockVars, atomicVars, checkerVars, pc, localVars, historyVars>>
  /\ Observe

Checker ==
  \/ StartCycle
  \/ \E u \in Upstreams : MarkHealthy(u)
  \/ \E u \in Upstreams, ok \in BOOLEAN : ProbeDone(u, ok)
  \/ \E u \in Upstreams : ProbeSkipped(u)

Operator == \E u \in Upstreams : Enable(u) \/ Disable(u)

(* What a handler does on its own, between two awaits. *)
Handle(r) ==
  \/ Scan(r) \/ Refuse(r)
  \/ SelectWrr(r) \/ SelectRandom(r)
  \/ StartCompare(r) \/ Compare(r) \/ SelectLc(r)
  \/ Increment(r) \/ Decrement(r) \/ Settle(r)

(* The await of client.request, which the timeout ends at the latest. *)
AwaitHeaders(r) == Headers(r) \/ AttemptFails(r)

Request(r) ==
  Arrive(r) \/ Handle(r) \/ AwaitHeaders(r) \/ BodyEnds(r) \/ Cancel(r)

World == Tick \/ \E u \in Upstreams : Recover(u)

Next == Checker \/ Operator \/ World \/ \E r \in Requests : Request(r)

(* The checker's interval keeps ticking and its probes are bounded by a     *)
(* timeout; a spawned handler that is not awaiting anything is scheduled;   *)
(* client.request ends by its own timeout.  Nothing obliges a client to     *)
(* send, an upstream to finish a body, or the operator to act.              *)
Fairness ==
  /\ WF_vars(Checker) /\ WF_vars(Tick)
  /\ \A u \in Upstreams : WF_vars(\E ok \in BOOLEAN : ProbeDone(u, ok))
  /\ \A r \in Requests : WF_vars(Handle(r)) /\ WF_vars(AwaitHeaders(r))

Spec == Init /\ [][Next]_vars /\ Fairness

-----------------------------------------------------------------------------
(* The requests the gateway has in flight to u. *)
InFlight(u) == {r \in Requests : pc[r] \in Holding /\ chosen[r] = u}

(***************************************************************************)
(* connection_count, an atomic changed by concurrent handlers on either    *)
(* side of an await, is exactly the number of requests in flight plus the  *)
(* disconnects that skipped the decrement: no other path loses or doubles  *)
(* a count, so it never goes negative and only a disconnect makes          *)
(* least_connections avoid an upstream.                                    *)
(***************************************************************************)
ConnectionsAccountedFor ==
  \A u \in Upstreams : conn[u] = Cardinality(InFlight(u)) + leaked[u]

(***************************************************************************)
(* failure_count and the breaker's state tell the same story whatever the  *)
(* order in which requests, probes and the operator take the lock: a       *)
(* Closed breaker is strictly below the threshold, a tripped one exactly   *)
(* at it, so failure_count never overshoots however many requests were in  *)
(* flight when the breaker tripped.                                        *)
(***************************************************************************)
BreakerConsistent ==
  \A u \in Upstreams :
    IF breaker[u].state = "Closed"
    THEN breaker[u].failure_count < FailureThreshold
    ELSE breaker[u].failure_count = FailureThreshold

(***************************************************************************)
(* What a running selection may rely on although the scan is spread over   *)
(* many lock acquisitions: an upstream available ever since the request    *)
(* arrived and already visited has been found, everything found belongs to *)
(* the request's own pool and was available at some moment since.          *)
(***************************************************************************)
ScanIsSound ==
  \A r \in Requests : Selecting(r) =>
    /\ found[r] \subseteq glimpsed[r]
    /\ glimpsed[r] \cup unscanned[r] \subseteq Members(pool[r])
    /\ pc[r] = "scan" => steady[r] \subseteq unscanned[r] \cup found[r]
    /\ pc[r] = "compare" => chosen[r] \in found[r] /\ unscanned[r] \subseteq found[r]

(***************************************************************************)
(* least_connections although the counts it loads one by one go on         *)
(* changing: of the upstreams whose count it has loaded, it never prefers  *)
(* one that, ever since it began, has had more connections than another    *)
(* has had at any moment since.  In particular, when no request came or    *)
(* went meanwhile, it takes one with the fewest.                           *)
(***************************************************************************)
LeastLoadedIsChosen ==
  \A r \in Requests : pc[r] = "compare" =>
    \A u \in found[r] \ unscanned[r] : low[r][chosen[r]] <= high[r][u]

(* What a request looks like to UpstreamSelection.  A request that only has *)
(* to report its failure to the breaker is already out.                     *)
Phase(r) ==
  CASE pc[r] \in {"idle", "settle"} -> "out"
    [] pc[r] \in {"scan", "compare"} -> "selecting"
    [] pc[r] \in {"incr", "wait", "body", "decr"} -> "forwarding"

Selection == INSTANCE UpstreamSelection WITH
  avail  <- AvailableUpstreams,
  phase  <- [r \in Requests |-> Phase(r)],
  choice <- [r \in Requests |->
               IF Phase(r) = "forwarding" THEN chosen[r] ELSE NoUpstream]

(***************************************************************************)
(* The selection promise: every step of the pool, whatever the algorithm   *)
(* and the interleaving of scans with probes, failures and the operator,   *)
(* is on its requests a step UpstreamSelection allows.                     *)
(***************************************************************************)
ImplementsSelection == Selection!SelSpec

(***************************************************************************)
(* A probe changes an upstream's health only after HealthyThreshold        *)
(* consecutive successes or UnhealthyThreshold consecutive failures, even  *)
(* when the operator or the initial marking has set the health in between  *)
(* and the u32 counters have wrapped; and nobody but the checker and the   *)
(* operator changes it, in particular no request.                          *)
(***************************************************************************)
HealthHasHysteresis ==
  [][\A u \in Upstreams : health'[u] # health[u] =>
       \/ /\ u \in pending \ pending'
          /\ streak'[u] = IF health'[u] = "Healthy" THEN HealthyThreshold
                                                    ELSE -UnhealthyThreshold
       \/ MarkHealthy(u) \/ Enable(u) \/ Disable(u)]_vars

(***************************************************************************)
(* A tripped breaker lets traffic through again only by a probe that finds *)
(* its cooldown over, or by the operator; and it becomes Closed only by    *)
(* the operator.  Whatever requests do, successful ones included, neither  *)
(* readmits an upstream nor forgives it: one on trial that failed before   *)
(* is one late failure away from being Open again (ARCHITECTURE.md:227     *)
(* would have a success close it).                                         *)
(***************************************************************************)
OnlyCheckerReadmits ==
  [][\A u \in Upstreams :
       /\ ~IsAvailable(breaker[u]) /\ IsAvailable(breaker'[u])
            => Enable(u) \/ (u \in pending \ pending' /\ breaker[u].age = Cooldown)
       /\ breaker[u].state # "Closed" /\ breaker'[u].state = "Closed"
            => Enable(u)]_vars

(***************************************************************************)
(* An upstream that has recovered for good is offered to requests again    *)
(* and again, without any operator: the cycles keep coming, the thresholds *)
(* are reached, the cooldown expires and is not restarted for ever by      *)
(* requests that were in flight.                                           *)
(***************************************************************************)
RecoveredIsReadmitted ==
  \A u \in Upstreams : u \in good ~> Available(u)

(***************************************************************************)
(* A handler either comes back to its client again and again or is stuck   *)
(* for ever in the one await without a timeout, the response body: the     *)
(* locks, the scan and the counters never block it.                        *)
(***************************************************************************)
AnsweredUnlessBodyStalls ==
  \A r \in Requests : []<>(pc[r] = "idle") \/ <>[](pc[r] = "body")

=============================================================================
