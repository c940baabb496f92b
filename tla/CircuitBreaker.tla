--------------------------- MODULE CircuitBreaker ---------------------------
(***************************************************************************)
(* The per-upstream circuit breaker of pool/circuit_breaker.rs, as         *)
(* operators on a breaker value: one operator per method, each taking the  *)
(* breaker before the call and returning the breaker after it.  The        *)
(* modules that own a breaker (CircuitBreakerSpec, UpstreamPool) apply     *)
(* them under the lock the code holds.                                     *)
(*                                                                         *)
(* Time.  The code reads the clock only in try_half_open, to compare the   *)
(* time elapsed since last_state_change with the cooldown, and only while  *)
(* the breaker is Open.  The field age is that elapsed time in ticks,      *)
(* saturated at Cooldown, so arbitrarily long histories have finitely many *)
(* states.                                                                 *)
(***************************************************************************)
EXTENDS Integers

CONSTANTS
  FailureThreshold,   \* failures that trip a Closed breaker (5 in the code)
  Cooldown            \* ticks an Open breaker must stay quiet (30 s in the code)

ASSUME ThresholdAssumption == FailureThreshold \in Nat \ {0}
ASSUME CooldownAssumption == Cooldown \in Nat \ {0}

BreakerStates == {"Closed", "Open", "HalfOpen"}

Breaker == [state : BreakerStates, failure_count : Nat, age : 0..Cooldown]

(* CircuitBreaker::new: also what the admin "enable" handler installs. *)
NewBreaker == [state |-> "Closed", failure_count |-> 0, age |-> 0]

(* A state change restarts the timer: last_state_change = Instant::now(). *)
Changed(b, s) == [state |-> s, failure_count |-> b.failure_count, age |-> 0]

IsAvailable(b) == b.state \in {"Closed", "HalfOpen"}

(* Here and below, a definition marked Mutant is the next unmarked one with *)
(* a plausible slip in the code.  No specification uses it; putting it in   *)
(* the other's place shows that a property notices.                         *)

(* Mutant: off by one at the end of the cooldown. *)
TryHalfOpenTooEarly(b) ==
  IF b.state = "Open" /\ b.age >= Cooldown - 1 THEN Changed(b, "HalfOpen") ELSE b

(* Mutant: a comparison the saturated clock never passes. *)
TryHalfOpenNever(b) ==
  IF b.state = "Open" /\ b.age > Cooldown THEN Changed(b, "HalfOpen") ELSE b

TryHalfOpen(b) ==
  IF b.state = "Open" /\ b.age >= Cooldown THEN Changed(b, "HalfOpen") ELSE b

RecordSuccess(b) ==
  CASE b.state = "HalfOpen" -> NewBreaker
    [] b.state = "Closed"   -> [b EXCEPT !.failure_count = 0]
    [] b.state = "Open"     -> b

(* failure_count += 1 *)
Counted(b) == [b EXCEPT !.failure_count = @ + 1]

(* Mutant: a failure reported to an Open breaker is ignored. *)
RecordFailureKeepsTimer(b) ==
  CASE b.state = "Closed" /\ b.failure_count + 1 >= FailureThreshold ->
         Changed(Counted(b), "Open")
    [] b.state = "Closed" /\ b.failure_count + 1 < FailureThreshold -> Counted(b)
    [] b.state = "HalfOpen" -> Changed(b, "Open")
    [] b.state = "Open" -> b

(* Mutant: compares before it counts. *)
RecordFailureOffByOne(b) ==
  CASE b.state = "Closed" /\ b.failure_count >= FailureThreshold ->
         Changed(Counted(b), "Open")
    [] b.state = "Closed" /\ b.failure_count < FailureThreshold -> Counted(b)
    [] b.state \in {"Open", "HalfOpen"} -> Changed(b, "Open")

(* Mutant: counts in every state. *)
RecordFailureAlwaysCounts(b) ==
  IF b.failure_count + 1 >= FailureThreshold THEN Changed(Counted(b), "Open")
                                             ELSE Counted(b)

(* A failure reported to an Open breaker restarts its cooldown. *)
RecordFailure(b) ==
  CASE b.state = "Closed" /\ b.failure_count + 1 >= FailureThreshold ->
         Changed(Counted(b), "Open")
    [] b.state = "Closed" /\ b.failure_count + 1 < FailureThreshold -> Counted(b)
    [] b.state \in {"Open", "HalfOpen"} -> Changed(b, "Open")

(* One tick of Instant::now() as last_state_change.elapsed() sees it. *)
Elapse(b) ==
  IF b.state = "Open" /\ b.age < Cooldown THEN [b EXCEPT !.age = @ + 1] ELSE b

=============================================================================
