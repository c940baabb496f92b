-------------------------- MODULE MCResponseCache ---------------------------
(* Instances of ResponseCache for TLC: two cached methods with different    *)
(* TTLs and one that is never cached.                                       *)
EXTENDS ResponseCache, TLC

CONSTANTS h1, h2

HandlerSymmetry == Permutations(Handlers)

OwnSlot == [q \in Queries |-> q]
MCTtl   == [q \in Queries |-> CASE q = "getAccount" -> 2
                                [] q = "getLatestLedger" -> 1
                                [] q = "sendTransaction" -> 0]

(* tests/cache_test.rs: "Second identical request - should be a cache hit,  *)
(* upstream NOT called again".  An entry that has not expired leaves the    *)
(* cache only by a flush, an eviction or a newer answer.  A handler that    *)
(* found the previous entry expired invalidates the new one.                *)
CachedForItsTtl ==
  [][\A s \in Slots : Live(store[s]) /\ ~Present(store'[s]) => Flush \/ Evict(s)]_vars

=============================================================================
