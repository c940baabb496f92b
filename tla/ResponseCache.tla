---------------------------- MODULE ResponseCache ---------------------------
(***************************************************************************)
(* The response cache (cache/mod.rs, cache/memory.rs) as proxy_handler     *)
(* uses it: look a request up, forward it on a miss, store a successful    *)
(* answer; and the flush of the admin API.                                 *)
(*                                                                         *)
(* A query is a JSON-RPC request up to what compute_cache_key drops: id,   *)
(* jsonrpc and the order of the keys.  Slot is the u64 that                *)
(* compute_cache_key and hash_to_u64 make of it.                           *)
(*                                                                         *)
(* MemoryCache::get is not atomic: it clones the entry, then reads the     *)
(* clock, then may invalidate whatever is in the slot by that time.  The   *)
(* handler's other steps are the await of the upstream and the insert.     *)
(* The statistics (hit_count, miss_count, eviction_count) are read by      *)
(* nothing modelled here and are left out.                                 *)
(***************************************************************************)
EXTENDS Integers, FiniteSets

CONSTANTS
  Queries, NoQuery,
  Slots, Slot,      \* where the cache keeps the answer to a query
  Ttl,              \* TtlTable::ttl_for the method of a query; 0 = not cached
  Handlers,         \* request handlers that may run concurrently
  MaxEntries,       \* capacity of the moka cache
  MaxTime,          \* bound on the clock
  MaxFlushes        \* bound on flushes in one behaviour

ASSUME QueryAssumption == NoQuery \notin Queries
ASSUME SlotAssumption ==      \* no two queries in use collide on 64 bits
  /\ Slot \in [Queries -> Slots]
  /\ \A p, q \in Queries : Slot[p] = Slot[q] => p = q
ASSUME CacheAssumption ==
  /\ Ttl \in [Queries -> Nat]
  /\ MaxEntries \in Nat /\ MaxTime \in Nat /\ MaxFlushes \in Nat

VARIABLES
  now,              \* Instant::now(), in seconds
  store,            \* the moka cache: the entry in each slot, or NoEntry
  pc, query,        \* each handler: control point and the request it serves
  held,             \* the entry get() cloned
  status,           \* the status of the upstream's answer
  flushes, began    \* history: flushes so far, and when each request arrived

vars == <<now, store, pc, query, held, status, flushes, began>>

(* CachedValue.  question, status and epoch are history: the request whose  *)
(* answer this is, its status, and the flushes before it was stored.        *)
Entry == [question : Queries \cup {NoQuery}, status : {"success", "failure"},
          stored : Nat, expires_at : Nat, epoch : Nat]

NoEntry == [question |-> NoQuery, status |-> "failure",
            stored |-> 0, expires_at |-> 0, epoch |-> 0]

Present(e) == e.question # NoQuery

Cacheable(q) == Ttl[q] > 0

Live(e) == Present(e) /\ e.expires_at > now

ControlPoints == {"idle", "lookup", "check", "drop", "fetch", "store"}

TypeOK ==
  /\ now \in Nat
  /\ store \in [Slots -> Entry]
  /\ pc \in [Handlers -> ControlPoints]
  /\ query \in [Handlers -> Queries \cup {NoQuery}]
  /\ \A h \in Handlers : query[h] = NoQuery <=> pc[h] = "idle"
  /\ held \in [Handlers -> Entry]
  /\ status \in [Handlers -> {"success", "failure"}]
  /\ flushes \in Nat
  /\ began \in [Handlers -> Nat]

Init ==
  /\ now = 0
  /\ store = [s \in Slots |-> NoEntry]
  /\ pc = [h \in Handlers |-> "idle"]
  /\ query = [h \in Handlers |-> NoQuery]
  /\ held = [h \in Handlers |-> NoEntry]
  /\ status = [h \in Handlers |-> "failure"]
  /\ flushes = 0
  /\ began = [h \in Handlers |-> 0]

(* A handler whose request is answered or abandoned. *)
Leave(h) ==
  /\ pc' = [pc EXCEPT ![h] = "idle"]
  /\ query' = [query EXCEPT ![h] = NoQuery]
  /\ held' = [held EXCEPT ![h] = NoEntry]
  /\ status' = [status EXCEPT ![h] = "failure"]
  /\ began' = [began EXCEPT ![h] = 0]

-----------------------------------------------------------------------------
(* A request whose body parses; one that may not be cached skips the lookup. *)
Ask(h, q) ==
  /\ pc[h] = "idle"
  /\ query' = [query EXCEPT ![h] = q]
  /\ pc' = [pc EXCEPT ![h] = IF Cacheable(q) THEN "lookup" ELSE "fetch"]
  /\ began' = [began EXCEPT ![h] = flushes]
  /\ UNCHANGED <<now, store, held, status, flushes>>

(* get: clone the entry in the slot, if any. *)
Lookup(h) ==
  /\ pc[h] = "lookup"
  /\ held' = [held EXCEPT ![h] = store[Slot[query[h]]]]
  /\ pc' = [pc EXCEPT ![h] = "check"]
  /\ UNCHANGED <<now, store, query, status, flushes, began>>

(* Mutant: an entry is served whatever its age. *)
HitWithoutExpiry(h) ==
  /\ pc[h] = "check" /\ Present(held[h])
  /\ Leave(h)
  /\ UNCHANGED <<now, store, flushes>>

(* get: the entry has not expired, and its data is the answer. *)
Hit(h) ==
  /\ pc[h] = "check" /\ Live(held[h])
  /\ Leave(h)
  /\ UNCHANGED <<now, store, flushes>>

(* get: no entry, or one that has expired and is now to be invalidated. *)
Miss(h) ==
  /\ pc[h] = "check" /\ ~Live(held[h])
  /\ pc' = [pc EXCEPT ![h] = IF Present(held[h]) THEN "drop" ELSE "fetch"]
  /\ held' = [held EXCEPT ![h] = NoEntry]
  /\ UNCHANGED <<now, store, query, status, flushes, began>>

(* get: invalidate the slot, whatever has been stored in it since. *)
Drop(h) ==
  /\ pc[h] = "drop"
  /\ store' = [store EXCEPT ![Slot[query[h]]] = NoEntry]
  /\ pc' = [pc EXCEPT ![h] = "fetch"]
  /\ UNCHANGED <<now, query, held, status, flushes, began>>

(* forward_to_upstream returns an answer. *)
Fetched(h) ==
  /\ pc[h] = "fetch"
  /\ \E s \in {"success", "failure"} : status' = [status EXCEPT ![h] = s]
  /\ pc' = [pc EXCEPT ![h] = "store"]
  /\ UNCHANGED <<now, store, query, held, flushes, began>>

(* There is no upstream, forward_to_upstream fails or the client gives up: *)
(* the cache is not touched.                                               *)
NotFetched(h) ==
  /\ pc[h] = "fetch"
  /\ Leave(h)
  /\ UNCHANGED <<now, store, flushes>>

(* The entry MemoryCache::set would insert now. *)
NewEntry(h) ==
  [question |-> query[h], status |-> status[h], stored |-> now,
   expires_at |-> now + Ttl[query[h]], epoch |-> flushes]

(* Mutant: every answer is stored. *)
StoreAnyStatus(h) ==
  /\ pc[h] = "store"
  /\ store' = IF Cacheable(query[h])
              THEN [store EXCEPT ![Slot[query[h]]] = NewEntry(h)] ELSE store
  /\ Leave(h)
  /\ UNCHANGED <<now, flushes>>

(* A successful answer to a cacheable query is inserted; every answer is    *)
(* passed on to the client.                                                 *)
Store(h) ==
  /\ pc[h] = "store"
  /\ store' = IF Cacheable(query[h]) /\ status[h] = "success"
              THEN [store EXCEPT ![Slot[query[h]]] = NewEntry(h)] ELSE store
  /\ Leave(h)
  /\ UNCHANGED <<now, flushes>>

-----------------------------------------------------------------------------
(* Mutant: only what has expired is flushed. *)
FlushExpired ==
  /\ flushes < MaxFlushes
  /\ store' = [s \in Slots |-> IF Live(store[s]) THEN store[s] ELSE NoEntry]
  /\ flushes' = flushes + 1
  /\ UNCHANGED <<now, pc, query, held, status, began>>

(* cache_flush_handler: invalidate_all. *)
Flush ==
  /\ flushes < MaxFlushes
  /\ store' = [s \in Slots |-> NoEntry]
  /\ flushes' = flushes + 1
  /\ UNCHANGED <<now, pc, query, held, status, began>>

(* moka evicts some entry when it holds more than its capacity. *)
Evict(s) ==
  /\ Cardinality({t \in Slots : Present(store[t])}) > MaxEntries
  /\ Present(store[s])
  /\ store' = [store EXCEPT ![s] = NoEntry]
  /\ UNCHANGED <<now, pc, query, held, status, flushes, began>>

Tick ==
  /\ now < MaxTime
  /\ now' = now + 1
  /\ UNCHANGED <<store, pc, query, held, status, flushes, began>>

Handle(h) ==
  \/ \E q \in Queries : Ask(h, q)
  \/ Lookup(h) \/ Hit(h) \/ Miss(h) \/ Drop(h)
  \/ Fetched(h) \/ NotFetched(h) \/ Store(h)

Next ==
  \/ \E h \in Handlers : Handle(h)
  \/ Flush
  \/ \E s \in Slots : Evict(s)
  \/ Tick

Spec == Init /\ [][Next]_vars

-----------------------------------------------------------------------------
(* An entry belongs in slot s: it is a successful answer to the query of    *)
(* that slot, and it expires one TTL after it was stored.                   *)
BelongsIn(e, s) ==
  /\ Slot[e.question] = s
  /\ e.status = "success"
  /\ Cacheable(e.question)
  /\ e.expires_at = e.stored + Ttl[e.question]

(***************************************************************************)
(* The inductive invariant behind the two action properties: whoever       *)
(* filled, dropped or flushed a slot, what is in it belongs there and was  *)
(* stored after the latest flush, and what a handler has cloned belongs in *)
(* the slot of its own query and was stored after the flushes it must      *)
(* respect.                                                                *)
(***************************************************************************)
EntriesBelong ==
  /\ \A s \in Slots : Present(store[s]) =>
       BelongsIn(store[s], s) /\ store[s].epoch = flushes
  /\ \A h \in Handlers : pc[h] = "check" /\ Present(held[h]) =>
       BelongsIn(held[h], Slot[query[h]]) /\ began[h] <= held[h].epoch
  /\ \A h \in Handlers : began[h] <= flushes

(* The step in which a handler answers from the cache. *)
Answers(h) == pc[h] = "check" /\ pc'[h] = "idle"

(***************************************************************************)
(* What the cache serves was stored less than its TTL ago and after every  *)
(* flush that was over when the request arrived, although the clock, a     *)
(* flush and other handlers' inserts run between the clone of the entry    *)
(* and its use.                                                            *)
(***************************************************************************)
HitIsFresh ==
  [][\A h \in Handlers : Answers(h) =>
       /\ now < held[h].stored + Ttl[query[h]]
       /\ began[h] <= held[h].epoch]_vars

(***************************************************************************)
(* What the cache serves is a successful answer to the very same query,    *)
(* and the query is of a method with a TTL: a slot that one handler drops  *)
(* and others fill never leaks an error or another query's answer.         *)
(***************************************************************************)
HitAnswersTheQuery ==
  [][\A h \in Handlers : Answers(h) =>
       /\ held[h].question = query[h]
       /\ held[h].status = "success"
       /\ Cacheable(query[h])]_vars

=============================================================================
