------------------------ MODULE CircuitBreakerProofs ------------------------
(***************************************************************************)
(* Proofs about one circuit breaker, for every threshold and cooldown and  *)
(* every order of the calls of its interface.                              *)
(***************************************************************************)
EXTENDS CircuitBreakerSpec, TLAPS

(***************************************************************************)
(* The inductive invariant.  A Closed breaker has counted exactly the      *)
(* strikes against it and is below the threshold; any other has reached    *)
(* it.  An Open breaker's timer shows exactly how long no failure has been *)
(* reported, because every failure restarts it.                            *)
(***************************************************************************)
CBInv ==
  /\ TypeOK
  /\ IF cb.state = "Closed"
     THEN cb.failure_count = strikes /\ strikes < FailureThreshold
     ELSE strikes = FailureThreshold
  /\ cb.state = "Open" => cb.age = quiet

(* A breaker just created satisfies it. *)
LEMMA InitCBInv == Init => CBInv
BY ThresholdAssumption, CooldownAssumption
   DEF Init, CBInv, TypeOK, NewBreaker, Breaker, BreakerStates

(* record_failure keeps it. *)
LEMMA FailKeeps == CBInv /\ Fail => CBInv'
<1>. SUFFICES ASSUME CBInv, Fail PROVE CBInv'
  OBVIOUS
<1>. USE ThresholdAssumption, CooldownAssumption
     DEF CBInv, TypeOK, Fail, RecordFailure, Changed, Counted, Breaker, BreakerStates
<1>1. CASE cb.state = "Closed" /\ cb.failure_count + 1 >= FailureThreshold
  BY <1>1
<1>2. CASE cb.state = "Closed" /\ cb.failure_count + 1 < FailureThreshold
  BY <1>2
<1>3. CASE cb.state \in {"Open", "HalfOpen"}
  BY <1>3
<1>. QED BY <1>1, <1>2, <1>3

(* record_success keeps it. *)
LEMMA SucceedKeeps == CBInv /\ Succeed => CBInv'
<1>. SUFFICES ASSUME CBInv, Succeed PROVE CBInv'
  OBVIOUS
<1>. USE ThresholdAssumption, CooldownAssumption
     DEF CBInv, TypeOK, Succeed, RecordSuccess, NewBreaker, Breaker, BreakerStates
<1>1. CASE cb.state = "Closed"
  BY <1>1
<1>2. CASE cb.state = "HalfOpen"
  BY <1>2
<1>3. CASE cb.state = "Open"
  BY <1>3
<1>. QED BY <1>1, <1>2, <1>3

(* try_half_open, the operator's replacement and time keep it. *)
LEMMA OthersKeep == CBInv /\ (Probe \/ Replace \/ Tick) => CBInv'
<1>. SUFFICES ASSUME CBInv, Probe \/ Replace \/ Tick PROVE CBInv'
  OBVIOUS
<1>. USE ThresholdAssumption, CooldownAssumption DEF CBInv, TypeOK, Breaker, BreakerStates
<1>1. CASE Probe
  BY <1>1 DEF Probe, TryHalfOpen, Changed
<1>2. CASE Replace
  BY <1>2 DEF Replace, NewBreaker
<1>3. CASE Tick
  BY <1>3 DEF Tick, Elapse
<1>. QED BY <1>1, <1>2, <1>3

(* The invariant holds whatever the order of the calls. *)
LEMMA CBInvHolds == Spec => []CBInv
<1>1. CBInv /\ [Next]_vars => CBInv'
  <2>1. CBInv /\ UNCHANGED vars => CBInv'
    BY DEF CBInv, TypeOK, vars
  <2>. QED BY <2>1, FailKeeps, SucceedKeeps, OthersKeep DEF Next
<1>. QED BY <1>1, InitCBInv, PTL DEF Spec

(* The breaker's fields keep their types and failure_count its bound. *)
THEOREM BreakerTypeCorrect == Spec => []TypeOK
<1>1. CBInv => TypeOK
  BY DEF CBInv
<1>. QED BY <1>1, CBInvHolds, PTL

(***************************************************************************)
(* record_failure trips the breaker at the FailureThreshold-th strike,     *)
(* neither before nor after.                                               *)
(***************************************************************************)
THEOREM TripsAtThreshold == Spec => []TripsExactlyAtThreshold
<1>1. CBInv => TripsExactlyAtThreshold
  BY ThresholdAssumption DEF CBInv, TripsExactlyAtThreshold
<1>. QED BY <1>1, CBInvHolds, PTL

(***************************************************************************)
(* try_half_open readmits an Open breaker only after a full cooldown in    *)
(* which no failure was reported.                                          *)
(***************************************************************************)
THEOREM ReadmitsWhenQuiet == Spec => QuietBeforeReadmission
<1>1. ASSUME CBInv, Next, cb.state = "Open", IsAvailable(cb')
      PROVE  quiet = Cooldown \/ cb' = NewBreaker
  <2>. USE <1>1 DEF CBInv, TypeOK
  <2>1. CASE Fail
    BY <2>1 DEF Fail, RecordFailure, Changed, IsAvailable
  <2>2. CASE Succeed
    BY <2>2 DEF Succeed, RecordSuccess, IsAvailable
  <2>3. CASE Probe
    BY <2>3, CooldownAssumption DEF Probe, TryHalfOpen, IsAvailable
  <2>4. CASE Replace
    BY <2>4 DEF Replace
  <2>5. CASE Tick
    BY <2>5 DEF Tick, Elapse, IsAvailable
  <2>. QED BY <2>1, <2>2, <2>3, <2>4, <2>5 DEF Next
<1>2. CBInv /\ [Next]_vars =>
        [cb.state = "Open" /\ IsAvailable(cb')
           => quiet = Cooldown \/ cb' = NewBreaker]_vars
  BY <1>1
<1>. QED BY <1>2, CBInvHolds, PTL DEF Spec, QuietBeforeReadmission

=============================================================================
