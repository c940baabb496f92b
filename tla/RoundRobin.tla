----------------------------- MODULE RoundRobin -----------------------------
(***************************************************************************)
(* Weighted round-robin on its own: concurrent requests each perform one   *)
(* atomic fetch_add on the shared counter and pick by the value they got,  *)
(* while upstreams come and go.                                            *)
(*                                                                         *)
(* served counts the picks of each upstream and picks all of them, since   *)
(* the set of available upstreams last changed; they are history and start *)
(* again after every full turn of the virtual list.                        *)
(***************************************************************************)
EXTENDS Balancer

VARIABLES
  healthy,          \* what the caller passes: the upstreams available now
  counter,          \* wrr_counter
  served, picks     \* history: selections in this turn

vars == <<healthy, counter, served, picks>>

NonEmpty == (SUBSET Upstreams) \ {{}}

TypeOK ==
  /\ healthy \in NonEmpty
  /\ counter \in 0..(CounterModulus - 1)
  /\ served \in [Upstreams -> Nat]
  /\ picks \in 0..Shares(healthy)

Init ==
  /\ healthy \in NonEmpty
  /\ counter = 0
  /\ served = [u \in Upstreams |-> 0]
  /\ picks = 0

TurnIsOver == picks = Shares(healthy)

(* The upstream picked by this fetch_add, and the counter after it. *)
Select(u) ==
  /\ WrrPicks(u, healthy, counter)
  /\ counter' = Bump(counter)
  /\ served' = IF TurnIsOver
               THEN [v \in Upstreams |-> IF v = u THEN 1 ELSE 0]
               ELSE [served EXCEPT ![u] = @ + 1]
  /\ picks' = IF TurnIsOver THEN 1 ELSE picks + 1
  /\ UNCHANGED healthy

ChangeHealthy ==
  /\ healthy' \in NonEmpty \ {healthy}
  /\ served' = [u \in Upstreams |-> 0]
  /\ picks' = 0
  /\ UNCHANGED counter

Next == ChangeHealthy \/ \E u \in Upstreams : Select(u)

Spec == Init /\ [][Next]_vars

-----------------------------------------------------------------------------
(***************************************************************************)
(* Some upstream is always picked, and only one: the balancer never        *)
(* answers None for a non-empty list, so a request with an available       *)
(* upstream is never refused by the selection itself.                      *)
(***************************************************************************)
PicksExactlyOne ==
  Cardinality({u \in Upstreams : WrrPicks(u, healthy, counter)}) = 1

(***************************************************************************)
(* Proportional service: whatever counter value the current set of         *)
(* upstreams inherited, any full turn of Shares(healthy) selections serves *)
(* each upstream exactly its weight, and nobody outside the set, unless    *)
(* the counter wrapped during the turn.                                    *)
(***************************************************************************)
ProportionalService ==
  TurnIsOver /\ counter >= Shares(healthy) =>
    \A u \in Upstreams : served[u] = IF u \in healthy THEN Share(u) ELSE 0

=============================================================================
