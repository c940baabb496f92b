------------------------- MODULE CircuitBreakerSpec -------------------------
(***************************************************************************)
(* One circuit breaker driven by every call its interface offers, in any   *)
(* order: record_failure and record_success by requests, try_half_open by  *)
(* the health checker, replacement by a new breaker by the admin API, and  *)
(* the passing of time.  It is the contract of pool/circuit_breaker.rs on  *)
(* its own; UpstreamPool shows which of these calls the gateway makes.     *)
(*                                                                         *)
(* quiet and strikes are history: ticks since the latest reported failure  *)
(* (saturated at Cooldown), and failures reported since the breaker last   *)
(* heard a success while it was not Open (saturated at FailureThreshold).  *)
(***************************************************************************)
EXTENDS CircuitBreaker

VARIABLES cb, quiet, strikes

vars == <<cb, quiet, strikes>>

TypeOK ==
  /\ cb \in Breaker /\ cb.failure_count <= FailureThreshold
  /\ quiet \in 0..Cooldown
  /\ strikes \in 0..FailureThreshold

Init ==
  /\ cb = NewBreaker
  /\ quiet = Cooldown
  /\ strikes = 0

Fail ==
  /\ cb' = RecordFailure(cb)
  /\ quiet' = 0
  /\ strikes' = IF strikes < FailureThreshold THEN strikes + 1 ELSE strikes

Succeed ==
  /\ cb' = RecordSuccess(cb)
  /\ strikes' = IF cb.state = "Open" THEN strikes ELSE 0
  /\ UNCHANGED quiet

Probe ==
  /\ cb' = TryHalfOpen(cb)
  /\ UNCHANGED <<quiet, strikes>>

Replace ==
  /\ cb' = NewBreaker
  /\ strikes' = 0
  /\ UNCHANGED quiet

Tick ==
  /\ cb' = Elapse(cb)
  /\ quiet' = IF quiet < Cooldown THEN quiet + 1 ELSE quiet
  /\ UNCHANGED strikes

Next == Fail \/ Succeed \/ Probe \/ Replace \/ Tick

(* The health checker keeps probing and time keeps passing; nothing obliges *)
(* a request to succeed or fail.                                            *)
Spec == Init /\ [][Next]_vars /\ WF_vars(Probe) /\ WF_vars(Tick)

(***************************************************************************)
(* The breaker is away from Closed exactly when FailureThreshold failures  *)
(* were reported with no intervening success or replacement: neither early *)
(* (an unlucky client trips it) nor late (a dead node keeps its traffic).  *)
(***************************************************************************)
TripsExactlyAtThreshold ==
  (cb.state = "Closed") <=> (strikes < FailureThreshold)

(***************************************************************************)
(* A tripped breaker is offered to requests again, other than by the       *)
(* operator replacing it, only after Cooldown ticks with no reported       *)
(* failure: a failure that reaches an already Open breaker (a request that *)
(* was in flight when it tripped) must restart the wait.                   *)
(***************************************************************************)
QuietBeforeReadmission ==
  [][cb.state = "Open" /\ IsAvailable(cb')
       => quiet = Cooldown \/ cb' = NewBreaker]_vars

(***************************************************************************)
(* An Open breaker does not stay Open for ever once failures cease to be   *)
(* reported: the checker's try_half_open eventually finds the cooldown     *)
(* expired.                                                                *)
(***************************************************************************)
ReopensWhenQuiet == <>[](quiet > 0) => <>[](cb.state # "Open")

=============================================================================
