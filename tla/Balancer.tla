------------------------------ MODULE Balancer ------------------------------
(***************************************************************************)
(* The three selection algorithms of pool/balancer.rs as operators.        *)
(*                                                                         *)
(* Upstreams are natural numbers in configuration order, so the Vec of     *)
(* healthy upstreams that healthy_upstreams() collects, which keeps that   *)
(* order, is represented by the set of its elements.                       *)
(***************************************************************************)
EXTENDS Integers, Sequences, FiniteSetsExt

CONSTANTS
  Upstreams,        \* every upstream of every pool, in configuration order
  Weight,           \* the configured weight of each upstream
  CounterModulus    \* width of the AtomicU64 that counts selections (2^64)

ASSUME UpstreamsAssumption == Upstreams \subseteq Nat /\ IsFiniteSet(Upstreams)
ASSUME WeightAssumption == Weight \in [Upstreams -> Nat]
ASSUME ModulusAssumption == CounterModulus \in Nat \ {0}

(* u is the first element of S in configuration order. *)
IsFirst(u, S) == u \in S /\ \A v \in S : u <= v

(* How often the virtual list repeats u: weight.max(1). *)
Share(u) == IF Weight[u] = 0 THEN 1 ELSE Weight[u]

Copies(u) == [k \in 1..Share(u) |-> u]

(* The Vec weighted for the upstreams in S: the copies of the last of them  *)
(* are pushed last.                                                         *)
VirtualList[S \in SUBSET Upstreams] ==
  IF S = {} THEN <<>> ELSE VirtualList[S \ {Max(S)}] \o Copies(Max(S))

Shares(S) == Len(VirtualList[S])

(* Mutant of WrrPicks: the weights are ignored. *)
WrrPicksUnweighted(u, healthy, count) ==
  /\ u \in healthy
  /\ Cardinality({v \in healthy : v < u}) = count % Cardinality(healthy)

(* Mutant of WrrPicks: the slot may lie one past the end of the list. *)
WrrPicksLongerList(u, healthy, count) ==
  LET slot  == count % (Shares(healthy) + 1)
      start == Shares({v \in healthy : v < u})
  IN  u \in healthy /\ start <= slot /\ slot < start + Share(u)

(* weighted_round_robin: u occupies the slot count % len of the virtual    *)
(* list, in which the upstreams of healthy follow each other in order.     *)
WrrPicks(u, healthy, count) ==
  LET slot  == count % Shares(healthy)
      start == Shares({v \in healthy : v < u})
  IN  u \in healthy /\ start <= slot /\ slot < start + Share(u)

(* fetch_add(1) on the selection counter, which wraps. *)
Bump(count) == (count + 1) % CounterModulus

=============================================================================
