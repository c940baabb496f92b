------------------------- MODULE UpstreamPoolProofs -------------------------
(***************************************************************************)
(* Proofs about UpstreamPool for every number of upstreams, pools and      *)
(* concurrent requests, every threshold and cooldown and every width of    *)
(* the counters.                                                           *)
(***************************************************************************)
EXTENDS UpstreamPool, FiniteSetTheorems, TLAPS

-----------------------------------------------------------------------------
(* A fresh breaker is a breaker. *)
LEMMA NewBreakerType == NewBreaker \in Breaker
BY CooldownAssumption DEF NewBreaker, Breaker, BreakerStates

(* try_half_open returns a breaker. *)
LEMMA TryHalfOpenType ==
  ASSUME NEW b \in Breaker
  PROVE  TryHalfOpen(b) \in Breaker
BY CooldownAssumption DEF TryHalfOpen, Changed, Breaker, BreakerStates

(* record_failure returns a breaker. *)
LEMMA RecordFailureType ==
  ASSUME NEW b \in Breaker
  PROVE  RecordFailure(b) \in Breaker
<1>1. Counted(b) \in Breaker
  BY DEF Counted, Breaker
<1>2. ASSUME NEW c \in Breaker PROVE Changed(c, "Open") \in Breaker
  BY CooldownAssumption DEF Changed, Breaker, BreakerStates
<1>3. b.state \in BreakerStates /\ b.failure_count \in Nat
  BY DEF Breaker
<1>. QED BY <1>1, <1>2, <1>3, ThresholdAssumption DEF RecordFailure, BreakerStates

(* The passing of time leaves a breaker. *)
LEMMA ElapseType ==
  ASSUME NEW b \in Breaker
  PROVE  Elapse(b) \in Breaker
BY CooldownAssumption DEF Elapse, Breaker, BreakerStates

(* wrr_counter stays within its width. *)
LEMMA BumpType ==
  ASSUME NEW n \in 0..(CounterModulus - 1)
  PROVE  Bump(n) \in 0..(CounterModulus - 1)
BY ModulusAssumption DEF Bump

(* consecutive_successes and consecutive_failures stay within their width. *)
LEMMA CountType ==
  ASSUME NEW n \in 0..(CountModulus - 1)
  PROVE  (n + 1) % CountModulus \in 0..(CountModulus - 1)
BY HealthThresholdAssumption

(* The streak of probe results stays within the two thresholds. *)
LEMMA StreakType ==
  ASSUME NEW n \in (-UnhealthyThreshold)..HealthyThreshold, NEW ok \in BOOLEAN
  PROVE  NextStreak(n, ok) \in (-UnhealthyThreshold)..HealthyThreshold
BY HealthThresholdAssumption DEF NextStreak

-----------------------------------------------------------------------------
(* TypeOK in the parts the actions change. *)
TypeLock ==
  /\ health \in [Upstreams -> {"Healthy", "Unhealthy"}]
  /\ breaker \in [Upstreams -> Breaker]
  /\ succ \in [Upstreams -> 0..(CountModulus - 1)]
  /\ fail \in [Upstreams -> 0..(CountModulus - 1)]

TypeAtomic ==
  /\ conn \in [Upstreams -> Int]
  /\ counter \in [Pools -> 0..(CounterModulus - 1)]

TypeChecker == unmarked \in SUBSET Upstreams /\ pending \in SUBSET Upstreams

TypeRequest ==
  /\ pc \in [Requests -> ControlPoints]
  /\ pool \in [Requests -> Pools \cup {NoPool}]
  /\ unscanned \in [Requests -> SUBSET Upstreams]
  /\ found \in [Requests -> SUBSET Upstreams]
  /\ chosen \in [Requests -> Upstreams \cup {NoUpstream}]
  /\ fewest \in [Requests -> Int]
  /\ outcome \in [Requests -> Outcomes]

TypeHistory ==
  /\ good \in SUBSET Upstreams
  /\ leaked \in [Upstreams -> Nat]
  /\ streak \in [Upstreams -> (-UnhealthyThreshold)..HealthyThreshold]

TypeObserved ==
  /\ steady \in [Requests -> SUBSET Upstreams]
  /\ glimpsed \in [Requests -> SUBSET Upstreams]
  /\ low \in [Requests -> [Upstreams -> Int]]
  /\ high \in [Requests -> [Upstreams -> Int]]

(* The history of a selection consists of upstreams and of counts. *)
LEMMA ObserveType ==
  ASSUME TypeObserved, Observe, TypeAtomic'
  PROVE  TypeObserved'
<1>1. \A r \in Requests : Candidates(r)' \subseteq Upstreams
  BY DEF Candidates, AvailableUpstreams
<1>2. /\ steady' \in [Requests -> SUBSET Upstreams]
      /\ glimpsed' \in [Requests -> SUBSET Upstreams]
  BY <1>1 DEF Observe, TypeObserved
<1>3. low' \in [Requests -> [Upstreams -> Int]]
  BY DEF Observe, Gauge, TypeObserved, TypeAtomic
<1>4. high' \in [Requests -> [Upstreams -> Int]]
  BY DEF Observe, Gauge, TypeObserved, TypeAtomic
<1>. QED BY <1>2, <1>3, <1>4 DEF TypeObserved

(* While a handler is between selection and the end of its exchange it has *)
(* an upstream; while it selects it has a pool, and only then candidates.  *)
LocalsOK ==
  \A r \in Requests :
    /\ pc[r] \in {"compare", "incr", "wait", "body", "decr", "settle"}
         => chosen[r] \in Upstreams
    /\ pc[r] \in {"scan", "compare"} => pool[r] \in Pools
    /\ pc[r] \notin {"scan", "compare"} => found[r] = {}

TInv ==
  /\ TypeLock /\ TypeAtomic /\ TypeChecker
  /\ TypeRequest /\ TypeHistory /\ TypeObserved
  /\ LocalsOK

(* The invariant holds when the gateway starts. *)
LEMMA InitType == Init => TInv
<1>. SUFFICES ASSUME Init PROVE TInv
  OBVIOUS
<1>1. TypeLock
  BY NewBreakerType, HealthThresholdAssumption DEF Init, TypeLock
<1>2. TypeAtomic
  BY ModulusAssumption DEF Init, TypeAtomic
<1>3. TypeChecker
  BY DEF Init, TypeChecker
<1>4. TypeRequest
  BY DEF Init, TypeRequest, ControlPoints, Outcomes
<1>5. TypeHistory
  BY HealthThresholdAssumption DEF Init, TypeHistory
<1>6. TypeObserved
  BY DEF Init, TypeObserved
<1>7. LocalsOK
  BY DEF Init, LocalsOK
<1>. QED BY <1>1, <1>2, <1>3, <1>4, <1>5, <1>6, <1>7 DEF TInv

(* The upstream a request acts on at each control point after selection. *)
LEMMA ChosenType ==
  ASSUME TInv, NEW r \in Requests,
         pc[r] \in {"compare", "incr", "wait", "body", "decr", "settle"}
  PROVE  chosen[r] \in Upstreams
BY DEF TInv, LocalsOK

(* The checker, the operator and the world leave the handlers alone. *)
LEMMA LocalsKept ==
  ASSUME TInv, UNCHANGED <<pc, localVars>>
  PROVE  LocalsOK' /\ TypeRequest'
<1>1. TypeRequest
  BY DEF TInv
<1>. QED BY <1>1 DEF TInv, LocalsOK, TypeRequest, localVars

(* The health checker's steps keep the types. *)
LEMMA CheckerType ==
  ASSUME TInv, Checker
  PROVE  TInv'
<1>. TypeLock /\ TypeAtomic /\ TypeChecker /\ TypeHistory /\ TypeObserved
  BY DEF TInv
<1>1. CASE StartCycle
  <2>1. Observe
    BY <1>1 DEF StartCycle
  <2>2. LocalsOK' /\ TypeRequest'
    BY <1>1, LocalsKept DEF StartCycle
  <2>3. TypeLock' /\ TypeAtomic' /\ TypeChecker' /\ TypeHistory'
    BY <1>1 DEF StartCycle, TypeLock, TypeAtomic, TypeChecker, TypeHistory,
       lockVars, atomicVars, historyVars
  <2>. QED BY <2>1, <2>2, <2>3, ObserveType DEF TInv
<1>2. ASSUME NEW u \in Upstreams, MarkHealthy(u) PROVE TInv'
  <2>1. Observe
    BY <1>2 DEF MarkHealthy
  <2>2. LocalsOK' /\ TypeRequest'
    BY <1>2, LocalsKept DEF MarkHealthy
  <2>3. TypeLock' /\ TypeAtomic' /\ TypeChecker' /\ TypeHistory'
    BY <1>2 DEF MarkHealthy, TypeLock, TypeAtomic, TypeChecker, TypeHistory,
       atomicVars, historyVars
  <2>. QED BY <2>1, <2>2, <2>3, ObserveType DEF TInv
<1>3. ASSUME NEW u \in Upstreams, NEW ok \in BOOLEAN, ProbeDone(u, ok) PROVE TInv'
  <2>1. Observe
    BY <1>3 DEF ProbeDone
  <2>2. LocalsOK' /\ TypeRequest'
    BY <1>3, LocalsKept DEF ProbeDone
  <2>3. TypeAtomic' /\ TypeChecker' /\ TypeHistory'
    BY <1>3, StreakType DEF ProbeDone, TypeAtomic, TypeChecker, TypeHistory,
       atomicVars
  <2>4. TypeLock'
    BY <1>3, TryHalfOpenType, CountType, HealthThresholdAssumption
       DEF ProbeDone, ApplyProbe, TypeLock
  <2>. QED BY <2>1, <2>2, <2>3, <2>4, ObserveType DEF TInv
<1>4. ASSUME NEW u \in Upstreams, ProbeSkipped(u) PROVE TInv'
  <2>1. Observe
    BY <1>4 DEF ProbeSkipped
  <2>2. LocalsOK' /\ TypeRequest'
    BY <1>4, LocalsKept DEF ProbeSkipped
  <2>3. TypeLock' /\ TypeAtomic' /\ TypeChecker' /\ TypeHistory'
    BY <1>4 DEF ProbeSkipped, TypeLock, TypeAtomic, TypeChecker, TypeHistory,
       lockVars, atomicVars, historyVars
  <2>. QED BY <2>1, <2>2, <2>3, ObserveType DEF TInv
<1>. QED BY <1>1, <1>2, <1>3, <1>4 DEF Checker

(* The operator's steps keep the types. *)
LEMMA OperatorType ==
  ASSUME TInv, NEW u \in Upstreams, Enable(u) \/ Disable(u)
  PROVE  TInv'
<1>. TypeLock /\ TypeAtomic /\ TypeChecker /\ TypeHistory /\ TypeObserved
  BY DEF TInv
<1>1. Observe
  BY DEF Enable, Disable
<1>2. LocalsOK' /\ TypeRequest'
  BY LocalsKept DEF Enable, Disable
<1>3. TypeLock' /\ TypeAtomic' /\ TypeChecker' /\ TypeHistory'
  BY NewBreakerType DEF Enable, Disable, TypeLock, TypeAtomic, TypeChecker,
     TypeHistory, atomicVars, checkerVars, historyVars
<1>. QED BY <1>1, <1>2, <1>3, ObserveType DEF TInv

(* Time and recovery keep the types. *)
LEMMA WorldType ==
  ASSUME TInv, World
  PROVE  TInv'
<1>. TypeLock /\ TypeAtomic /\ TypeChecker /\ TypeHistory /\ TypeObserved
  BY DEF TInv
<1>1. Observe
  BY DEF World, Tick, Recover
<1>2. LocalsOK' /\ TypeRequest'
  BY LocalsKept DEF World, Tick, Recover
<1>3. TypeLock'
  BY ElapseType DEF World, Tick, Recover, TypeLock, lockVars
<1>4. TypeAtomic' /\ TypeChecker' /\ TypeHistory'
  BY DEF World, Tick, Recover, TypeAtomic, TypeChecker, TypeHistory,
     atomicVars, checkerVars, historyVars
<1>. QED BY <1>1, <1>2, <1>3, <1>4, ObserveType DEF TInv

(* Every step of a request handler keeps the types, and                     *)
(* its locals match its control point.                                      *)
LEMMA RequestType ==
  ASSUME TInv, NEW r \in Requests, Request(r)
  PROVE  TInv'
<1>. TypeLock /\ TypeAtomic /\ TypeChecker /\ TypeRequest /\ TypeHistory
       /\ TypeObserved /\ LocalsOK
  BY DEF TInv
<1>. USE DEF OnlyRequest, lockVars, atomicVars, checkerVars, localVars, historyVars
<1>1. CASE Arrive(r)
  <2>1. Observe
    BY <1>1 DEF Arrive
  <2>2. TypeRequest' /\ LocalsOK'
    BY <1>1 DEF Arrive, TypeRequest, LocalsOK, ControlPoints, Outcomes, Members
  <2>3. TypeLock' /\ TypeAtomic' /\ TypeChecker' /\ TypeHistory'
    BY <1>1 DEF Arrive, TypeLock, TypeAtomic, TypeChecker, TypeHistory,
       TypeRequest, LocalsOK
  <2>. QED BY <2>1, <2>2, <2>3, ObserveType DEF TInv
<1>2. CASE Scan(r)
  <2>1. Observe
    BY <1>2 DEF Scan
  <2>2. TypeRequest' /\ LocalsOK'
    BY <1>2 DEF Scan, TypeRequest, LocalsOK, ControlPoints, Outcomes, Members
  <2>3. TypeLock' /\ TypeAtomic' /\ TypeChecker' /\ TypeHistory'
    BY <1>2 DEF Scan, TypeLock, TypeAtomic, TypeChecker, TypeHistory,
       TypeRequest, LocalsOK
  <2>. QED BY <2>1, <2>2, <2>3, ObserveType DEF TInv
<1>3. CASE Refuse(r)
  <2>1. Observe
    BY <1>3 DEF Refuse
  <2>2. TypeRequest' /\ LocalsOK'
    BY <1>3 DEF Refuse, TypeRequest, LocalsOK, ControlPoints, Outcomes, Members
  <2>3. TypeLock' /\ TypeAtomic' /\ TypeChecker' /\ TypeHistory'
    BY <1>3 DEF Refuse, TypeLock, TypeAtomic, TypeChecker, TypeHistory,
       TypeRequest, LocalsOK
  <2>. QED BY <2>1, <2>2, <2>3, ObserveType DEF TInv
<1>4. CASE SelectWrr(r)
  <2>1. Observe
    BY <1>4 DEF SelectWrr
  <2>2. TypeRequest' /\ LocalsOK'
    BY <1>4 DEF SelectWrr, Choose, TypeRequest, LocalsOK, ControlPoints, Outcomes, Members
  <2>3. TypeLock' /\ TypeAtomic' /\ TypeChecker' /\ TypeHistory'
    BY <1>4, BumpType DEF SelectWrr, Choose, TypeLock, TypeAtomic, TypeChecker, TypeHistory,
       TypeRequest, LocalsOK
  <2>. QED BY <2>1, <2>2, <2>3, ObserveType DEF TInv
<1>5. CASE SelectRandom(r)
  <2>1. Observe
    BY <1>5 DEF SelectRandom
  <2>2. TypeRequest' /\ LocalsOK'
    BY <1>5 DEF SelectRandom, Choose, TypeRequest, LocalsOK, ControlPoints, Outcomes, Members
  <2>3. TypeLock' /\ TypeAtomic' /\ TypeChecker' /\ TypeHistory'
    BY <1>5 DEF SelectRandom, Choose, TypeLock, TypeAtomic, TypeChecker, TypeHistory,
       TypeRequest, LocalsOK
  <2>. QED BY <2>1, <2>2, <2>3, ObserveType DEF TInv
<1>6. CASE StartCompare(r)
  <2>1. Observe
    BY <1>6 DEF StartCompare
  <2>2. TypeRequest' /\ LocalsOK'
    <3>1. PICK u \in found[r] :
            /\ chosen' = [chosen EXCEPT ![r] = u]
            /\ fewest' = [fewest EXCEPT ![r] = conn[u]]
            /\ unscanned' = [unscanned EXCEPT ![r] = found[r] \ {u}]
      BY <1>6 DEF StartCompare
    <3>2. u \in Upstreams /\ conn[u] \in Int
      BY DEF TypeRequest, TypeAtomic
    <3>3. UNCHANGED <<pool, found, outcome>> /\ pc[r] = "scan"
            /\ pc' = [pc EXCEPT ![r] = "compare"]
      BY <1>6 DEF StartCompare
    <3>4. TypeRequest'
      BY <3>1, <3>2, <3>3 DEF TypeRequest, ControlPoints
    <3>5. LocalsOK'
      BY <3>1, <3>2, <3>3 DEF LocalsOK, TypeRequest
    <3>. QED BY <3>4, <3>5
  <2>3. TypeLock' /\ TypeAtomic' /\ TypeChecker' /\ TypeHistory'
    BY <1>6 DEF StartCompare, TypeLock, TypeAtomic, TypeChecker, TypeHistory,
       TypeRequest, LocalsOK
  <2>. QED BY <2>1, <2>2, <2>3, ObserveType DEF TInv
<1>7. CASE Compare(r)
  <2>1. Observe
    BY <1>7 DEF Compare
  <2>2. TypeRequest' /\ LocalsOK'
    <3>1. PICK u \in Upstreams :
            /\ unscanned' = [unscanned EXCEPT ![r] = @ \ {u}]
            /\ \/ /\ chosen' = [chosen EXCEPT ![r] = u]
                  /\ fewest' = [fewest EXCEPT ![r] = conn[u]]
               \/ UNCHANGED <<chosen, fewest>>
      BY <1>7 DEF Compare
    <3>2. UNCHANGED <<pc, pool, found, outcome>>
      BY <1>7 DEF Compare
    <3>3. TypeRequest'
      BY <3>1, <3>2 DEF TypeRequest, TypeAtomic
    <3>4. LocalsOK'
      BY <3>1, <3>2 DEF LocalsOK, TypeRequest
    <3>. QED BY <3>3, <3>4
  <2>3. TypeLock' /\ TypeAtomic' /\ TypeChecker' /\ TypeHistory'
    BY <1>7 DEF Compare, TypeLock, TypeAtomic, TypeChecker, TypeHistory,
       TypeRequest, LocalsOK
  <2>. QED BY <2>1, <2>2, <2>3, ObserveType DEF TInv
<1>8. CASE SelectLc(r)
  <2>1. Observe
    BY <1>8 DEF SelectLc
  <2>2. TypeRequest' /\ LocalsOK'
    BY <1>8 DEF SelectLc, Choose, TypeRequest, LocalsOK, ControlPoints, Outcomes, Members
  <2>3. TypeLock' /\ TypeAtomic' /\ TypeChecker' /\ TypeHistory'
    BY <1>8 DEF SelectLc, Choose, TypeLock, TypeAtomic, TypeChecker, TypeHistory,
       TypeRequest, LocalsOK
  <2>. QED BY <2>1, <2>2, <2>3, ObserveType DEF TInv
<1>9. CASE Increment(r)
  <2>1. Observe
    BY <1>9 DEF Increment
  <2>2. TypeRequest' /\ LocalsOK'
    BY <1>9 DEF Increment, TypeRequest, LocalsOK, ControlPoints, Outcomes, Members
  <2>3. TypeLock' /\ TypeAtomic' /\ TypeChecker' /\ TypeHistory'
    BY <1>9 DEF Increment, TypeLock, TypeAtomic, TypeChecker, TypeHistory,
       TypeRequest, LocalsOK
  <2>. QED BY <2>1, <2>2, <2>3, ObserveType DEF TInv
<1>10. CASE Headers(r)
  <2>1. Observe
    BY <1>10 DEF Headers
  <2>2. TypeRequest' /\ LocalsOK'
    BY <1>10 DEF Headers, OkOutcomes, TypeRequest, LocalsOK, ControlPoints, Outcomes, Members
  <2>3. TypeLock' /\ TypeAtomic' /\ TypeChecker' /\ TypeHistory'
    BY <1>10 DEF Headers, OkOutcomes, TypeLock, TypeAtomic, TypeChecker, TypeHistory,
       TypeRequest, LocalsOK
  <2>. QED BY <2>1, <2>2, <2>3, ObserveType DEF TInv
<1>11. CASE AttemptFails(r)
  <2>1. Observe
    BY <1>11 DEF AttemptFails
  <2>2. TypeRequest' /\ LocalsOK'
    BY <1>11 DEF AttemptFails, TypeRequest, LocalsOK, ControlPoints, Outcomes, Members
  <2>3. TypeLock' /\ TypeAtomic' /\ TypeChecker' /\ TypeHistory'
    BY <1>11 DEF AttemptFails, TypeLock, TypeAtomic, TypeChecker, TypeHistory,
       TypeRequest, LocalsOK
  <2>. QED BY <2>1, <2>2, <2>3, ObserveType DEF TInv
<1>12. CASE BodyEnds(r)
  <2>1. Observe
    BY <1>12 DEF BodyEnds
  <2>2. TypeRequest' /\ LocalsOK'
    BY <1>12 DEF BodyEnds, TypeRequest, LocalsOK, ControlPoints, Outcomes, Members
  <2>3. TypeLock' /\ TypeAtomic' /\ TypeChecker' /\ TypeHistory'
    BY <1>12 DEF BodyEnds, TypeLock, TypeAtomic, TypeChecker, TypeHistory,
       TypeRequest, LocalsOK
  <2>. QED BY <2>1, <2>2, <2>3, ObserveType DEF TInv
<1>13. CASE Cancel(r)
  <2>1. Observe
    BY <1>13 DEF Cancel
  <2>2. TypeRequest' /\ LocalsOK'
    BY <1>13 DEF Cancel, TypeRequest, LocalsOK, ControlPoints, Outcomes, Members
  <2>3. TypeLock' /\ TypeAtomic' /\ TypeChecker' /\ TypeHistory'
    BY <1>13 DEF Cancel, TypeLock, TypeAtomic, TypeChecker, TypeHistory,
       TypeRequest, LocalsOK
  <2>. QED BY <2>1, <2>2, <2>3, ObserveType DEF TInv
<1>14. CASE Decrement(r)
  <2>1. Observe
    BY <1>14 DEF Decrement
  <2>2. TypeRequest' /\ LocalsOK'
    BY <1>14 DEF Decrement, TypeRequest, LocalsOK, ControlPoints, Outcomes, Members
  <2>3. TypeLock' /\ TypeAtomic' /\ TypeChecker' /\ TypeHistory'
    BY <1>14 DEF Decrement, TypeLock, TypeAtomic, TypeChecker, TypeHistory,
       TypeRequest, LocalsOK
  <2>. QED BY <2>1, <2>2, <2>3, ObserveType DEF TInv
<1>15. CASE Settle(r)
  <2>1. Observe
    BY <1>15 DEF Settle
  <2>2. TypeRequest' /\ LocalsOK'
    BY <1>15 DEF Settle, TypeRequest, LocalsOK, ControlPoints, Outcomes, Members
  <2>3. TypeLock' /\ TypeAtomic' /\ TypeChecker' /\ TypeHistory'
    BY <1>15, RecordFailureType DEF Settle, TypeLock, TypeAtomic, TypeChecker, TypeHistory,
       TypeRequest, LocalsOK
  <2>. QED BY <2>1, <2>2, <2>3, ObserveType DEF TInv
<1>. QED BY <1>1, <1>2, <1>3, <1>4, <1>5, <1>6, <1>7, <1>8, <1>9, <1>10, <1>11, <1>12, <1>13, <1>14, <1>15 DEF Request, Handle, AwaitHeaders

(* Every step keeps the types. *)
LEMMA TInvStep ==
  ASSUME TInv, [Next]_vars
  PROVE  TInv'
<1>1. CASE Checker
  BY <1>1, CheckerType
<1>2. CASE Operator
  BY <1>2, OperatorType DEF Operator
<1>3. CASE World
  BY <1>3, WorldType
<1>4. ASSUME NEW r \in Requests, Request(r) PROVE TInv'
  BY <1>4, RequestType
<1>5. CASE UNCHANGED vars
  BY <1>5 DEF vars, lockVars, atomicVars, checkerVars, localVars, historyVars,
     TInv, TypeLock, TypeAtomic, TypeChecker, TypeRequest, TypeHistory,
     TypeObserved, LocalsOK
<1>. QED BY <1>1, <1>2, <1>3, <1>4, <1>5 DEF Next

(* The types and the locals' invariant hold in every reachable state. *)
LEMMA TInvHolds == Spec => []TInv
BY InitType, TInvStep, PTL DEF Spec

(***************************************************************************)
(* Type correctness: every variable keeps its type; in particular the      *)
(* wrapping counters stay within their width and the breakers' timers      *)
(* within the cooldown.                                                    *)
(***************************************************************************)
THEOREM TypeCorrect == Spec => []TypeOK
<1>1. TInv => TypeOK
  BY DEF TInv, TypeOK, TypeLock, TypeAtomic, TypeChecker, TypeRequest,
     TypeHistory, TypeObserved
<1>. QED BY <1>1, TInvHolds, PTL

-----------------------------------------------------------------------------
(***************************************************************************)
(* The breakers.  Every step changes a breaker only by one of the methods. *)
(***************************************************************************)

BreakerOK(b) ==
  IF b.state = "Closed" THEN b.failure_count < FailureThreshold
                        ELSE b.failure_count = FailureThreshold

(* No method of the breaker parts failure_count from the state. *)
LEMMA MethodsKeepBreakerOK ==
  ASSUME NEW b \in Breaker, BreakerOK(b)
  PROVE  /\ BreakerOK(TryHalfOpen(b))
         /\ BreakerOK(RecordFailure(b))
         /\ BreakerOK(Elapse(b))
<1>1. b.state \in BreakerStates /\ b.failure_count \in Nat
  BY DEF Breaker
<1>2. BreakerOK(TryHalfOpen(b))
  BY DEF TryHalfOpen, Changed, BreakerOK
<1>3. BreakerOK(Elapse(b))
  <2>1. Elapse(b).state = b.state /\ Elapse(b).failure_count = b.failure_count
    BY DEF Elapse, Breaker
  <2>. QED BY <2>1 DEF BreakerOK
<1>4. BreakerOK(RecordFailure(b))
  <2>1. /\ Counted(b).failure_count = b.failure_count + 1
        /\ Counted(b).state = b.state
    BY DEF Counted, Breaker
  <2>. QED BY <1>1, <2>1, ThresholdAssumption
       DEF RecordFailure, Changed, BreakerOK, BreakerStates
<1>. QED BY <1>2, <1>3, <1>4

(* A step leaves a breaker as it is, replaces it by a new one, or calls one *)
(* of its methods.                                                          *)
LEMMA BreakerSteps ==
  ASSUME TInv, [Next]_vars, NEW u \in Upstreams
  PROVE  \/ breaker'[u] = breaker[u]
         \/ breaker'[u] = NewBreaker
         \/ breaker'[u] = TryHalfOpen(breaker[u])
         \/ breaker'[u] = RecordFailure(breaker[u])
         \/ breaker'[u] = Elapse(breaker[u])
<1>. breaker \in [Upstreams -> Breaker]
  BY DEF TInv, TypeLock
<1>1. CASE Checker
  BY <1>1 DEF Checker, StartCycle, MarkHealthy, ProbeDone, ApplyProbe,
     ProbeSkipped, lockVars
<1>2. CASE Operator
  BY <1>2 DEF Operator, Enable, Disable
<1>3. CASE World
  BY <1>3 DEF World, Tick, Recover, lockVars
<1>4. ASSUME NEW r \in Requests, Request(r), ~Settle(r)
      PROVE  breaker'[u] = breaker[u]
  BY <1>4 DEF Request, Handle, AwaitHeaders, Arrive, Scan, Refuse, SelectWrr,
     SelectRandom, StartCompare, Compare, SelectLc, Increment, Headers,
     AttemptFails, BodyEnds, Cancel, Decrement, OnlyRequest, lockVars
<1>5. ASSUME NEW r \in Requests, Settle(r)
      PROVE  breaker'[u] \in {breaker[u], RecordFailure(breaker[u])}
  BY <1>5 DEF Settle
<1>6. CASE UNCHANGED vars
  BY <1>6 DEF vars, lockVars
<1>. QED BY <1>1, <1>2, <1>3, <1>4, <1>5, <1>6 DEF Next

(***************************************************************************)
(* failure_count never overshoots the threshold and is below it exactly    *)
(* while the breaker is Closed, however many requests fail at once.        *)
(***************************************************************************)
THEOREM BreakersConsistent == Spec => []BreakerConsistent
<1>1. Init => BreakerConsistent
  BY ThresholdAssumption DEF Init, BreakerConsistent, NewBreaker
<1>2. ASSUME TInv, BreakerConsistent, [Next]_vars PROVE BreakerConsistent'
  <2>1. SUFFICES ASSUME NEW u \in Upstreams PROVE BreakerOK(breaker'[u])
    BY DEF BreakerConsistent, BreakerOK
  <2>2. breaker[u] \in Breaker /\ BreakerOK(breaker[u])
    BY <1>2 DEF TInv, TypeLock, BreakerConsistent, BreakerOK
  <2>3. BreakerOK(NewBreaker)
    BY ThresholdAssumption DEF BreakerOK, NewBreaker
  <2>. QED BY <1>2, <2>2, <2>3, BreakerSteps, MethodsKeepBreakerOK
<1>. QED BY <1>1, <1>2, TInvHolds, PTL DEF Spec

(* What OnlyCheckerReadmits allows a step to do. *)
ReadmitStep ==
  \A u \in Upstreams :
    /\ ~IsAvailable(breaker[u]) /\ IsAvailable(breaker'[u])
         => Enable(u) \/ (u \in pending \ pending' /\ breaker[u].age = Cooldown)
    /\ breaker[u].state # "Closed" /\ breaker'[u].state = "Closed" => Enable(u)

(* Neither a failure nor time makes an Open breaker available, and          *)
(* try_half_open does only when the cooldown is over.                       *)
LEMMA MethodsThatReadmit ==
  ASSUME NEW b \in Breaker, ~IsAvailable(b)
  PROVE  /\ ~IsAvailable(RecordFailure(b))
         /\ ~IsAvailable(Elapse(b))
         /\ IsAvailable(TryHalfOpen(b)) => b.age = Cooldown
<1>1. b.state = "Open" /\ b.age \in 0..Cooldown
  BY DEF IsAvailable, Breaker, BreakerStates
<1>2. ~IsAvailable(RecordFailure(b))
  BY <1>1 DEF RecordFailure, Changed, IsAvailable
<1>3. ~IsAvailable(Elapse(b))
  BY <1>1 DEF Elapse, IsAvailable, Breaker
<1>4. IsAvailable(TryHalfOpen(b)) => b.age = Cooldown
  BY <1>1, CooldownAssumption DEF TryHalfOpen, IsAvailable
<1>. QED BY <1>2, <1>3, <1>4

(* No method that the gateway calls closes a breaker. *)
LEMMA NoMethodCloses ==
  ASSUME NEW b \in Breaker, b.state # "Closed"
  PROVE  /\ TryHalfOpen(b).state # "Closed"
         /\ RecordFailure(b).state # "Closed"
         /\ Elapse(b).state # "Closed"
<1>1. b.state \in {"Open", "HalfOpen"}
  BY DEF Breaker, BreakerStates
<1>2. Elapse(b).state = b.state
  BY DEF Elapse, Breaker
<1>. QED BY <1>1, <1>2 DEF TryHalfOpen, RecordFailure, Changed

(* A breaker that closes was replaced, and only the operator replaces one. *)
LEMMA StepCloses ==
  ASSUME TInv, [Next]_vars, NEW u \in Upstreams,
         breaker[u].state # "Closed", breaker'[u].state = "Closed"
  PROVE  Enable(u)
<1>1. breaker \in [Upstreams -> Breaker] /\ breaker[u] \in Breaker
  BY DEF TInv, TypeLock
<1>2. /\ TryHalfOpen(breaker[u]).state # "Closed"
      /\ RecordFailure(breaker[u]).state # "Closed"
      /\ Elapse(breaker[u]).state # "Closed"
  BY <1>1, NoMethodCloses
<1>3. breaker'[u] # breaker[u]
  OBVIOUS
<1>4. ~Checker
  BY <1>1, <1>2, <1>3 DEF Checker, StartCycle, MarkHealthy, ProbeDone, ApplyProbe,
     ProbeSkipped, lockVars
<1>5. ~World
  BY <1>2, <1>3 DEF World, Tick, Recover, lockVars
<1>6. ASSUME NEW r \in Requests, Request(r) PROVE FALSE
  <2>1. CASE Settle(r)
    BY <1>1, <1>2, <1>3, <2>1 DEF Settle
  <2>2. CASE ~Settle(r)
    BY <1>3, <1>6, <2>2 DEF Request, Handle, AwaitHeaders, Arrive, Scan, Refuse,
       SelectWrr, SelectRandom, StartCompare, Compare, SelectLc, Increment,
       Headers, AttemptFails, BodyEnds, Cancel, Decrement, OnlyRequest, lockVars
  <2>. QED BY <2>1, <2>2
<1>7. ASSUME NEW v \in Upstreams, Enable(v) \/ Disable(v) PROVE Enable(u)
  BY <1>1, <1>3, <1>7 DEF Enable, Disable
<1>8. ~UNCHANGED vars
  BY <1>3 DEF vars, lockVars
<1>. QED BY <1>4, <1>5, <1>6, <1>7, <1>8 DEF Next, Operator

(* Every step readmits as allowed. *)
LEMMA StepReadmits ==
  ASSUME TInv, [Next]_vars
  PROVE  ReadmitStep
<1>1. SUFFICES ASSUME NEW u \in Upstreams,
                      ~IsAvailable(breaker[u]), IsAvailable(breaker'[u])
               PROVE  \/ Enable(u)
                      \/ u \in pending \ pending' /\ breaker[u].age = Cooldown
  BY StepCloses DEF ReadmitStep
<1>2. breaker \in [Upstreams -> Breaker] /\ breaker[u] \in Breaker
  BY DEF TInv, TypeLock
<1>3. /\ ~IsAvailable(RecordFailure(breaker[u]))
      /\ ~IsAvailable(Elapse(breaker[u]))
      /\ IsAvailable(TryHalfOpen(breaker[u])) => breaker[u].age = Cooldown
  BY <1>1, <1>2, MethodsThatReadmit
<1>4. breaker'[u] # breaker[u]
  BY <1>1
<1>5. ASSUME NEW v \in Upstreams, NEW ok \in BOOLEAN, ProbeDone(v, ok)
      PROVE  u \in pending \ pending' /\ breaker[u].age = Cooldown
  <2>1. breaker'[u] = (IF u = v THEN TryHalfOpen(breaker[u]) ELSE breaker[u])
    BY <1>2, <1>5 DEF ProbeDone, ApplyProbe
  <2>2. u = v /\ IsAvailable(TryHalfOpen(breaker[u]))
    BY <1>1, <1>4, <2>1
  <2>. QED BY <1>3, <1>5, <2>2 DEF ProbeDone
<1>6. ASSUME Checker, \A v \in Upstreams, ok \in BOOLEAN : ~ProbeDone(v, ok)
      PROVE  FALSE
  BY <1>4, <1>6 DEF Checker, StartCycle, MarkHealthy, ProbeSkipped, lockVars
<1>7. ASSUME NEW v \in Upstreams, Enable(v) \/ Disable(v) PROVE Enable(u)
  BY <1>2, <1>4, <1>7 DEF Enable, Disable
<1>8. ASSUME World PROVE FALSE
  BY <1>1, <1>3, <1>4, <1>8 DEF World, Tick, Recover, lockVars
<1>9. ASSUME NEW r \in Requests, Request(r) PROVE FALSE
  <2>1. CASE Settle(r)
    BY <1>1, <1>2, <1>3, <1>4, <2>1 DEF Settle
  <2>2. CASE ~Settle(r)
    BY <1>4, <1>9, <2>2 DEF Request, Handle, AwaitHeaders, Arrive, Scan, Refuse,
       SelectWrr, SelectRandom, StartCompare, Compare, SelectLc, Increment,
       Headers, AttemptFails, BodyEnds, Cancel, Decrement, OnlyRequest, lockVars
  <2>. QED BY <2>1, <2>2
<1>10. ~UNCHANGED vars
  BY <1>4 DEF vars, lockVars
<1>. QED BY <1>5, <1>6, <1>7, <1>8, <1>9, <1>10 DEF Next, Operator

(***************************************************************************)
(* A tripped breaker lets traffic through again only when a probe finds    *)
(* its cooldown over or the operator enables the upstream, and is Closed   *)
(* again only in the latter case: no request, and no probe of another      *)
(* upstream, readmits it, and no success forgives it.                      *)
(***************************************************************************)
THEOREM Readmission == Spec => OnlyCheckerReadmits
<1>1. ASSUME TInv, [Next]_vars PROVE [ReadmitStep]_vars
  BY <1>1, StepReadmits
<1>2. Spec => [][ReadmitStep]_vars
  BY <1>1, TInvHolds, PTL DEF Spec
<1>. QED BY <1>2 DEF OnlyCheckerReadmits, ReadmitStep

-----------------------------------------------------------------------------
(***************************************************************************)
(* The connection counts.                                                  *)
(***************************************************************************)

(* A step that moves no request into or out of its exchange, and touches no *)
(* count, keeps the account.                                                *)
LEMMA AccountKept ==
  ASSUME ConnectionsAccountedFor, UNCHANGED <<conn, leaked>>,
         \A q \in Requests, u \in Upstreams :
           (pc'[q] \in Holding /\ chosen'[q] = u) <=> (pc[q] \in Holding /\ chosen[q] = u)
  PROVE  ConnectionsAccountedFor'
<1>1. \A u \in Upstreams : InFlight(u)' = InFlight(u)
  BY DEF InFlight
<1>. QED BY <1>1 DEF ConnectionsAccountedFor

(* Finitely many requests are in flight to an upstream. *)
LEMMA InFlightFinite ==
  ASSUME NEW u \in Upstreams
  PROVE  IsFiniteSet(InFlight(u)) /\ Cardinality(InFlight(u)) \in Nat
<1>1. IsFiniteSet(InFlight(u))
  BY RequestsAssumption, FS_Subset DEF InFlight
<1>. QED BY <1>1, FS_CardinalityType

(* A request enters its exchange: one more in flight, one more counted. *)
LEMMA IncrementAccount ==
  ASSUME TInv, ConnectionsAccountedFor, NEW r \in Requests, Increment(r)
  PROVE  ConnectionsAccountedFor'
<1>1. PICK w \in Upstreams : w = chosen[r]
  BY ChosenType DEF Increment
<1>2. /\ pc[r] = "incr" /\ pc' = [pc EXCEPT ![r] = "wait"]
      /\ UNCHANGED <<chosen, leaked>> /\ conn' = [conn EXCEPT ![w] = @ + 1]
      /\ pc \in [Requests -> ControlPoints] /\ conn \in [Upstreams -> Int]
  BY <1>1 DEF Increment, localVars, TInv, TypeRequest, TypeAtomic
<1>3. ASSUME NEW u \in Upstreams, u # w
      PROVE  conn'[u] = Cardinality(InFlight(u)') + leaked'[u]
  <2>1. InFlight(u)' = InFlight(u)
    BY <1>1, <1>2, <1>3 DEF InFlight, Holding
  <2>. QED BY <1>1, <1>2, <1>3, <2>1 DEF ConnectionsAccountedFor
<1>4. conn'[w] = Cardinality(InFlight(w)') + leaked'[w]
  <2>1. InFlight(w)' = InFlight(w) \cup {r} /\ r \notin InFlight(w)
    BY <1>1, <1>2 DEF InFlight, Holding
  <2>2. Cardinality(InFlight(w)') = Cardinality(InFlight(w)) + 1
    BY <1>1, <2>1, InFlightFinite, FS_AddElement
  <2>3. leaked[w] \in Nat
    BY <1>1 DEF TInv, TypeHistory
  <2>. QED BY <1>1, <1>2, <2>2, <2>3, InFlightFinite DEF ConnectionsAccountedFor
<1>5. ASSUME NEW u \in Upstreams
      PROVE  conn'[u] = Cardinality(InFlight(u)') + leaked'[u]
  BY <1>3, <1>4
<1>. QED BY <1>5 DEF ConnectionsAccountedFor

(* A request leaves its exchange: either it decrements or it is counted as *)
(* leaked.                                                                 *)
LEMMA LeaveAccount ==
  ASSUME TInv, ConnectionsAccountedFor, NEW r \in Requests, pc[r] \in Holding,
         pc'[r] \notin Holding,
         \A q \in Requests \ {r} : pc'[q] = pc[q] /\ chosen'[q] = chosen[q],
         \/ /\ conn' = [conn EXCEPT ![chosen[r]] = @ - 1]
            /\ UNCHANGED leaked
         \/ /\ leaked' = [leaked EXCEPT ![chosen[r]] = @ + 1]
            /\ UNCHANGED conn
  PROVE  ConnectionsAccountedFor'
<1>1. PICK w \in Upstreams : w = chosen[r]
  BY ChosenType DEF Holding
<1>2. conn \in [Upstreams -> Int] /\ leaked \in [Upstreams -> Nat]
  BY DEF TInv, TypeAtomic, TypeHistory
<1>3. ASSUME NEW u \in Upstreams, u # w
      PROVE  conn'[u] = Cardinality(InFlight(u)') + leaked'[u]
  <2>1. InFlight(u)' = InFlight(u)
    BY <1>1, <1>3 DEF InFlight
  <2>2. conn'[u] = conn[u] /\ leaked'[u] = leaked[u]
    BY <1>1, <1>2, <1>3
  <2>. QED BY <2>1, <2>2 DEF ConnectionsAccountedFor
<1>4. conn'[w] = Cardinality(InFlight(w)') + leaked'[w]
  <2>1. InFlight(w)' = InFlight(w) \ {r} /\ r \in InFlight(w)
    BY <1>1 DEF InFlight
  <2>2. Cardinality(InFlight(w)') = Cardinality(InFlight(w)) - 1
    BY <1>1, <2>1, InFlightFinite, FS_RemoveElement
  <2>3. conn[w] = Cardinality(InFlight(w)) + leaked[w]
    BY <1>1 DEF ConnectionsAccountedFor
  <2>4. conn'[w] - leaked'[w] = conn[w] - leaked[w] - 1
    BY <1>1, <1>2
  <2>5. leaked'[w] \in Nat /\ conn'[w] \in Int
    BY <1>1, <1>2
  <2>. QED BY <1>1, <1>2, <2>2, <2>3, <2>4, <2>5, InFlightFinite
<1>5. ASSUME NEW u \in Upstreams
      PROVE  conn'[u] = Cardinality(InFlight(u)') + leaked'[u]
  BY <1>3, <1>4
<1>. QED BY <1>5 DEF ConnectionsAccountedFor

(* Every step keeps the account of connections. *)
LEMMA AccountStep ==
  ASSUME TInv, ConnectionsAccountedFor, [Next]_vars
  PROVE  ConnectionsAccountedFor'
<1>1. CASE Checker \/ Operator \/ World \/ UNCHANGED vars
  <2>1. UNCHANGED <<conn, leaked, pc, chosen>>
    BY <1>1 DEF Checker, StartCycle, MarkHealthy, ProbeDone, ProbeSkipped,
       Operator, Enable, Disable, World, Tick, Recover, vars, atomicVars,
       localVars, historyVars
  <2>. QED BY <2>1, AccountKept
<1>2. ASSUME NEW r \in Requests, Request(r) PROVE ConnectionsAccountedFor'
  <2>. pc \in [Requests -> ControlPoints]
         /\ chosen \in [Requests -> Upstreams \cup {NoUpstream}]
    BY DEF TInv, TypeRequest
  <2>1. CASE Increment(r)
    BY <2>1, IncrementAccount
  <2>2. CASE Decrement(r)
    <3>1. /\ pc[r] \in Holding /\ pc'[r] \notin Holding
          /\ \A q \in Requests \ {r} : pc'[q] = pc[q] /\ chosen'[q] = chosen[q]
      BY <2>2 DEF Decrement, Holding
    <3>2. conn' = [conn EXCEPT ![chosen[r]] = @ - 1] /\ UNCHANGED leaked
      BY <2>2 DEF Decrement
    <3>. QED BY <3>1, <3>2, LeaveAccount
  <2>3. CASE Cancel(r)
    <3>1. /\ pc[r] \in Holding /\ pc'[r] \notin Holding
          /\ \A q \in Requests \ {r} : pc'[q] = pc[q] /\ chosen'[q] = chosen[q]
      BY <2>3 DEF Cancel, Holding
    <3>2. leaked' = [leaked EXCEPT ![chosen[r]] = @ + 1] /\ UNCHANGED conn
      BY <2>3 DEF Cancel, atomicVars
    <3>. QED BY <3>1, <3>2, LeaveAccount
  <2>4. CASE Arrive(r) \/ Scan(r) \/ Refuse(r) \/ SelectWrr(r) \/ SelectRandom(r)
    <3>1. UNCHANGED <<conn, leaked>>
      BY <2>4 DEF Arrive, Scan, Refuse, SelectWrr, SelectRandom, atomicVars
    <3>2. ASSUME NEW q \in Requests
          PROVE  \/ pc'[q] = pc[q] /\ chosen'[q] = chosen[q]
                 \/ pc[q] \notin Holding /\ pc'[q] \notin Holding
      BY <2>4 DEF Arrive, Scan, Refuse, SelectWrr, SelectRandom, Choose, Holding
    <3>. QED BY <3>1, <3>2, AccountKept
  <2>5. CASE StartCompare(r) \/ Compare(r) \/ SelectLc(r) \/ Settle(r)
    <3>1. UNCHANGED <<conn, leaked>>
      BY <2>5 DEF StartCompare, Compare, SelectLc, Settle, atomicVars, historyVars
    <3>2. ASSUME NEW q \in Requests
          PROVE  \/ pc'[q] = pc[q] /\ chosen'[q] = chosen[q]
                 \/ pc[q] \notin Holding /\ pc'[q] \notin Holding
      BY <2>5 DEF StartCompare, Compare, SelectLc, Settle, Choose, Holding
    <3>. QED BY <3>1, <3>2, AccountKept
  <2>6. CASE Headers(r) \/ AttemptFails(r) \/ BodyEnds(r)
    <3>1. UNCHANGED <<conn, leaked, chosen>>
      BY <2>6 DEF Headers, AttemptFails, BodyEnds, atomicVars
    <3>2. \A q \in Requests : pc'[q] \in Holding <=> pc[q] \in Holding
      BY <2>6 DEF Headers, AttemptFails, BodyEnds, Holding
    <3>. QED BY <3>1, <3>2, AccountKept
  <2>. QED BY <1>2, <2>1, <2>2, <2>3, <2>4, <2>5, <2>6
       DEF Request, Handle, AwaitHeaders
<1>. QED BY <1>1, <1>2 DEF Next

(***************************************************************************)
(* connection_count is the number of requests in flight plus the           *)
(* disconnects, for any number of concurrent handlers.                     *)
(***************************************************************************)
THEOREM ConnectionsAccounted == Spec => []ConnectionsAccountedFor
<1>1. Init => ConnectionsAccountedFor
  <2>1. SUFFICES ASSUME Init, NEW u \in Upstreams
                 PROVE  conn[u] = Cardinality(InFlight(u)) + leaked[u]
    BY DEF ConnectionsAccountedFor
  <2>2. InFlight(u) = {}
    BY <2>1 DEF Init, InFlight, Holding
  <2>. QED BY <2>1, <2>2, FS_EmptySet DEF Init
<1>. QED BY <1>1, AccountStep, TInvHolds, PTL DEF Spec

-----------------------------------------------------------------------------
(***************************************************************************)
(* Hysteresis.  The counters lag behind the true streak of outcomes: they  *)
(* may wrap to a smaller value, never to a larger one.                     *)
(***************************************************************************)
CountersLag ==
  \A u \in Upstreams :
    /\ succ[u] > 0 => succ[u] <= streak[u] \/ streak[u] = HealthyThreshold
    /\ fail[u] > 0 => fail[u] <= -streak[u] \/ streak[u] = -UnhealthyThreshold

(* Counting up by one in u32 arithmetic: one more, or zero. *)
LEMMA CountsUp ==
  ASSUME NEW n \in 0..(CountModulus - 1), (n + 1) % CountModulus > 0
  PROVE  (n + 1) % CountModulus = n + 1
BY HealthThresholdAssumption

(* The counters, and the streak, after the probe of u. *)
LEMMA ProbeCounts ==
  ASSUME TInv, NEW u \in Upstreams, NEW ok \in BOOLEAN, ProbeDone(u, ok)
  PROVE  /\ succ'[u] = IF ok THEN (succ[u] + 1) % CountModulus ELSE 0
         /\ fail'[u] = IF ok THEN 0 ELSE (fail[u] + 1) % CountModulus
         /\ streak'[u] = NextStreak(streak[u], ok)
         /\ \A v \in Upstreams \ {u} :
              succ'[v] = succ[v] /\ fail'[v] = fail[v] /\ streak'[v] = streak[v]
BY DEF TInv, TypeLock, TypeHistory, ProbeDone, ApplyProbe

(* What one more success does to a streak. *)
LEMMA StreakUp ==
  ASSUME NEW n \in (-UnhealthyThreshold)..HealthyThreshold
  PROVE  /\ NextStreak(n, TRUE) \in 1..HealthyThreshold
         /\ \/ NextStreak(n, TRUE) = HealthyThreshold
            \/ NextStreak(n, TRUE) = n + 1
            \/ n < 0 /\ NextStreak(n, TRUE) = 1
         /\ n = HealthyThreshold => NextStreak(n, TRUE) = HealthyThreshold
BY HealthThresholdAssumption DEF NextStreak

(* The same for a success alone. *)
LEMMA SuccessCounts ==
  ASSUME TInv, NEW u \in Upstreams, ProbeDone(u, TRUE)
  PROVE  /\ succ'[u] = (succ[u] + 1) % CountModulus
         /\ fail'[u] = 0
         /\ streak'[u] = NextStreak(streak[u], TRUE)
BY DEF TInv, TypeLock, TypeHistory, ProbeDone, ApplyProbe

(* Every step keeps the probe counters at or behind the true streak. *)
LEMMA CountersLagStep ==
  ASSUME TInv, CountersLag, [Next]_vars
  PROVE  CountersLag'
<1>1. ASSUME NEW u \in Upstreams, NEW ok \in BOOLEAN, ProbeDone(u, ok)
      PROVE  CountersLag'
  <2>1. /\ succ[u] \in 0..(CountModulus - 1) /\ fail[u] \in 0..(CountModulus - 1)
        /\ streak[u] \in (-UnhealthyThreshold)..HealthyThreshold
    BY DEF TInv, TypeLock, TypeHistory
  <2>2. CASE ok = TRUE
    <3>. ProbeDone(u, TRUE)
      BY <1>1, <2>2
    <3>1. succ'[u] > 0 => succ'[u] = succ[u] + 1
      BY <2>1, SuccessCounts, CountsUp
    <3>2. fail'[u] = 0
      BY SuccessCounts
    <3>3. /\ streak'[u] \in 1..HealthyThreshold
          /\ \/ streak'[u] = HealthyThreshold
             \/ streak'[u] = streak[u] + 1
             \/ streak[u] < 0 /\ streak'[u] = 1
          /\ streak[u] = HealthyThreshold => streak'[u] = HealthyThreshold
      BY <2>1, SuccessCounts, StreakUp
    <3>4. succ[u] > 0 => succ[u] <= streak[u] \/ streak[u] = HealthyThreshold
      BY DEF CountersLag
    <3>5. succ'[u] > 0 => succ'[u] <= streak'[u] \/ streak'[u] = HealthyThreshold
      BY <2>1, <3>1, <3>3, <3>4, HealthThresholdAssumption
    <3>. QED BY <1>1, <3>2, <3>5, ProbeCounts DEF CountersLag
  <2>3. CASE ok = FALSE
    <3>1. fail'[u] > 0 => fail'[u] = fail[u] + 1
      BY <1>1, <2>1, <2>3, ProbeCounts, CountsUp
    <3>2. succ'[u] = 0
      BY <1>1, <2>3, ProbeCounts
    <3>3. /\ streak'[u] = -UnhealthyThreshold \/ streak'[u] = streak[u] - 1
             \/ (streak[u] > 0 /\ streak'[u] = -1)
      BY <1>1, <2>1, <2>3, ProbeCounts, HealthThresholdAssumption DEF NextStreak
    <3>4. fail[u] > 0 => fail[u] <= -streak[u] \/ streak[u] = -UnhealthyThreshold
      BY DEF CountersLag
    <3>5. streak[u] = -UnhealthyThreshold => streak'[u] = -UnhealthyThreshold
      BY <1>1, <2>1, <2>3, ProbeCounts, HealthThresholdAssumption DEF NextStreak
    <3>6. streak'[u] <= -1
      BY <1>1, <2>1, <2>3, ProbeCounts, HealthThresholdAssumption DEF NextStreak
    <3>7. fail'[u] > 0 => fail'[u] <= -streak'[u] \/ streak'[u] = -UnhealthyThreshold
      BY <2>1, <3>1, <3>3, <3>4, <3>5, <3>6, HealthThresholdAssumption
    <3>. QED BY <1>1, <3>2, <3>7, ProbeCounts DEF CountersLag
  <2>. QED BY <2>2, <2>3
<1>2. ASSUME UNCHANGED <<succ, fail, streak>> PROVE CountersLag'
  BY <1>2 DEF CountersLag
<1>3. CASE Checker
  BY <1>1, <1>2, <1>3 DEF Checker, StartCycle, MarkHealthy, ProbeSkipped,
     lockVars, historyVars
<1>4. CASE Operator \/ World \/ UNCHANGED vars
  BY <1>2, <1>4 DEF Operator, Enable, Disable, World, Tick, Recover, vars,
     lockVars, historyVars
<1>5. ASSUME NEW r \in Requests, Request(r) PROVE CountersLag'
  BY <1>2, <1>5 DEF Request, Handle, AwaitHeaders, Arrive, Scan, Refuse, SelectWrr,
     SelectRandom, StartCompare, Compare, SelectLc, Increment, Headers,
     AttemptFails, BodyEnds, Cancel, Decrement, Settle, OnlyRequest, lockVars,
     historyVars
<1>. QED BY <1>3, <1>4, <1>5 DEF Next

(* The probe counters never run ahead of the true streak. *)
LEMMA CountersLagHolds == Spec => []CountersLag
<1>1. Init => CountersLag
  BY DEF Init, CountersLag
<1>. QED BY <1>1, CountersLagStep, TInvHolds, PTL DEF Spec

(* The body of HealthHasHysteresis. *)
HysteresisStep ==
  \A u \in Upstreams : health'[u] # health[u] =>
    \/ /\ u \in pending \ pending'
       /\ streak'[u] = IF health'[u] = "Healthy" THEN HealthyThreshold
                                                 ELSE -UnhealthyThreshold
    \/ MarkHealthy(u) \/ Enable(u) \/ Disable(u)

(* One step changes health only as HealthHasHysteresis allows. *)
LEMMA StepHasHysteresis ==
  ASSUME TInv, CountersLag', [Next]_vars
  PROVE  HysteresisStep
<1>1. SUFFICES ASSUME NEW u \in Upstreams, health'[u] # health[u]
               PROVE  \/ /\ u \in pending \ pending'
                         /\ streak'[u] = IF health'[u] = "Healthy"
                                         THEN HealthyThreshold
                                         ELSE -UnhealthyThreshold
                      \/ MarkHealthy(u) \/ Enable(u) \/ Disable(u)
  BY DEF HysteresisStep
<1>. health \in [Upstreams -> {"Healthy", "Unhealthy"}]
  BY DEF TInv, TypeLock
<1>2. ASSUME NEW v \in Upstreams, NEW ok \in BOOLEAN, ProbeDone(v, ok)
      PROVE  /\ u \in pending \ pending'
             /\ streak'[u] = IF health'[u] = "Healthy" THEN HealthyThreshold
                                                       ELSE -UnhealthyThreshold
  <2>1. v = u /\ u \in pending \ pending'
    BY <1>1, <1>2 DEF ProbeDone, ApplyProbe
  <2>2. CASE ok = TRUE
    <3>1. health'[u] = "Healthy" /\ succ'[u] >= HealthyThreshold
      BY <1>1, <1>2, <2>1, <2>2 DEF ProbeDone, ApplyProbe
    <3>2. /\ succ'[u] > 0
          /\ streak'[u] \in (-UnhealthyThreshold)..HealthyThreshold
          /\ succ'[u] \in Int
      <4>1. /\ streak[u] \in (-UnhealthyThreshold)..HealthyThreshold
            /\ succ[u] \in 0..(CountModulus - 1)
        BY DEF TInv, TypeLock, TypeHistory
      <4>2. ProbeDone(u, TRUE)
        BY <1>2, <2>1, <2>2
      <4>3. succ'[u] \in 0..(CountModulus - 1)
        BY <4>1, <4>2, SuccessCounts, CountType
      <4>4. streak'[u] \in 1..HealthyThreshold
        BY <4>1, <4>2, SuccessCounts, StreakUp
      <4>. QED BY <3>1, <4>3, <4>4, HealthThresholdAssumption
    <3>3. succ'[u] <= streak'[u] \/ streak'[u] = HealthyThreshold
      BY <3>2 DEF CountersLag
    <3>. QED BY <2>1, <3>1, <3>2, <3>3, HealthThresholdAssumption
  <2>3. CASE ok = FALSE
    <3>1. health'[u] = "Unhealthy" /\ fail'[u] >= UnhealthyThreshold
      BY <1>1, <1>2, <2>1, <2>3 DEF ProbeDone, ApplyProbe
    <3>2. /\ fail'[u] > 0
          /\ streak'[u] \in (-UnhealthyThreshold)..HealthyThreshold
          /\ fail'[u] \in Int
      BY <1>2, <2>1, <2>3, <3>1, ProbeCounts, StreakType, CountType,
         HealthThresholdAssumption DEF TInv, TypeLock, TypeHistory
    <3>3. fail'[u] <= -streak'[u] \/ streak'[u] = -UnhealthyThreshold
      BY <3>2 DEF CountersLag
    <3>. QED BY <2>1, <3>1, <3>2, <3>3, HealthThresholdAssumption
  <2>. QED BY <2>2, <2>3
<1>3. ASSUME NEW v \in Upstreams, MarkHealthy(v) \/ Enable(v) \/ Disable(v)
      PROVE  MarkHealthy(u) \/ Enable(u) \/ Disable(u)
  <2>1. v = u
    BY <1>1, <1>3 DEF MarkHealthy, Enable, Disable
  <2>. QED BY <1>3, <2>1
<1>4. CASE Checker
  <2>1. ~StartCycle /\ \A v \in Upstreams : ~ProbeSkipped(v)
    BY <1>1 DEF StartCycle, ProbeSkipped, lockVars
  <2>. QED BY <1>2, <1>3, <1>4, <2>1 DEF Checker
<1>5. CASE Operator
  BY <1>3, <1>5 DEF Operator
<1>6. CASE World \/ UNCHANGED vars
  BY <1>1, <1>6 DEF World, Tick, Recover, vars, lockVars
<1>7. \A r \in Requests : ~Request(r)
  BY <1>1 DEF Request, Handle, AwaitHeaders, Arrive, Scan, Refuse, SelectWrr,
     SelectRandom, StartCompare, Compare, SelectLc, Increment, Headers,
     AttemptFails, BodyEnds, Cancel, Decrement, Settle, OnlyRequest, lockVars
<1>. QED BY <1>4, <1>5, <1>6, <1>7 DEF Next

(***************************************************************************)
(* A probe flips an upstream's health only at the end of a full streak,    *)
(* whatever the thresholds and even if the u32 counters wrap.              *)
(***************************************************************************)
THEOREM Hysteresis == Spec => HealthHasHysteresis
<1>1. ASSUME TInv, CountersLag', [Next]_vars PROVE [HysteresisStep]_vars
  BY <1>1, StepHasHysteresis
<1>2. Spec => [][HysteresisStep]_vars
  BY <1>1, TInvHolds, CountersLagHolds, PTL DEF Spec
<1>. QED BY <1>2 DEF HealthHasHysteresis, HysteresisStep

-----------------------------------------------------------------------------
(***************************************************************************)
(* Selection.                                                              *)
(***************************************************************************)

ScanOK(r) ==
  Selecting(r) =>
    /\ found[r] \subseteq glimpsed[r]
    /\ glimpsed[r] \cup unscanned[r] \subseteq Members(pool[r])
    /\ pc[r] = "scan" => steady[r] \subseteq unscanned[r] \cup found[r]
    /\ pc[r] = "compare" => chosen[r] \in found[r] /\ unscanned[r] \subseteq found[r]

(* What Observe records of a request that goes on selecting, ... *)
LEMMA ObserveSelecting ==
  ASSUME Observe, NEW q \in Requests, Selecting(q), Selecting(q)'
  PROVE  /\ steady'[q] = steady[q] \cap Candidates(q)'
         /\ glimpsed'[q] = glimpsed[q] \cup Candidates(q)'
BY DEF Observe

(* ... of one that begins, ... *)
LEMMA ObserveBeginning ==
  ASSUME Observe, NEW q \in Requests, ~Selecting(q), Selecting(q)'
  PROVE  steady'[q] = Candidates(q)' /\ glimpsed'[q] = Candidates(q)'
BY DEF Observe

(* ... and of the others. *)
LEMMA ObserveOutside ==
  ASSUME Observe, NEW q \in Requests, ~Selecting(q)'
  PROVE  steady'[q] = {} /\ glimpsed'[q] = {}
BY DEF Observe

(* A request that does not move keeps its findings while availability      *)
(* changes around it.                                                      *)
LEMMA ScanKept ==
  ASSUME Observe, NEW q \in Requests, ScanOK(q),
         pc'[q] = pc[q], pool'[q] = pool[q], unscanned'[q] = unscanned[q],
         found'[q] = found[q], chosen'[q] = chosen[q]
  PROVE  ScanOK(q)'
<1>1. SUFFICES ASSUME Selecting(q)' PROVE ScanOK(q)'
  BY DEF ScanOK
<1>2. Selecting(q)
  BY <1>1 DEF Selecting
<1>3. Candidates(q)' \subseteq Members(pool[q])
  BY DEF Candidates, Members
<1>. QED BY <1>1, <1>2, <1>3, ObserveSelecting DEF ScanOK, Members

(* The request that takes a step of its selection. *)
LEMMA ScanMoves ==
  ASSUME TInv, NEW r \in Requests, ScanOK(r), Request(r)
  PROVE  ScanOK(r)'
<1>. TypeRequest /\ LocalsOK
  BY DEF TInv
<1>1. CASE Arrive(r)
  <2>1. PICK p \in Pools : /\ pool' = [pool EXCEPT ![r] = p]
                           /\ unscanned' = [unscanned EXCEPT ![r] = Members(p)]
    BY <1>1 DEF Arrive
  <2>2. /\ ~Selecting(r) /\ Selecting(r)' /\ pc'[r] = "scan" /\ Observe
        /\ found'[r] = {} /\ pool'[r] = p /\ unscanned'[r] = Members(p)
    BY <1>1, <2>1 DEF Arrive, Selecting, TypeRequest, LocalsOK
  <2>3. steady'[r] = Candidates(r)' /\ glimpsed'[r] = Candidates(r)'
    BY <2>2, ObserveBeginning
  <2>4. Candidates(r)' \subseteq Members(p)
    BY <2>2 DEF Candidates, Members
  <2>. QED BY <2>2, <2>3, <2>4 DEF ScanOK, Members
<1>2. CASE Scan(r)
  <2>1. PICK u \in Upstreams :
          /\ IsFirst(u, unscanned[r])
          /\ unscanned' = [unscanned EXCEPT ![r] = @ \ {u}]
          /\ found' = IF Available(u) THEN [found EXCEPT ![r] = @ \cup {u}] ELSE found
    BY <1>2 DEF Scan
  <2>2. /\ Selecting(r) /\ Selecting(r)' /\ pc[r] = "scan" /\ pc'[r] = "scan"
        /\ Observe /\ pool'[r] = pool[r] /\ u \in unscanned[r]
    BY <1>2, <2>1 DEF Scan, Selecting, IsFirst
  <2>3. Candidates(r)' = Members(pool[r]) \cap AvailableUpstreams
    BY <1>2, <2>2 DEF Scan, OnlyRequest, lockVars, Candidates, Members,
       AvailableUpstreams, Available
  <2>4. /\ steady'[r] = steady[r] \cap Candidates(r)'
        /\ glimpsed'[r] = glimpsed[r] \cup Candidates(r)'
    BY <2>2, ObserveSelecting
  <2>5. /\ found[r] \subseteq glimpsed[r]
        /\ glimpsed[r] \cup unscanned[r] \subseteq Members(pool[r])
        /\ steady[r] \subseteq unscanned[r] \cup found[r]
    BY <2>2 DEF ScanOK
  <2>6. unscanned'[r] = unscanned[r] \ {u}
    BY <2>1 DEF TypeRequest
  <2>7. CASE Available(u)
    <3>1. found'[r] = found[r] \cup {u} /\ u \in Candidates(r)'
      BY <2>1, <2>2, <2>3, <2>5, <2>7 DEF TypeRequest, AvailableUpstreams
    <3>. QED BY <2>2, <2>3, <2>4, <2>5, <2>6, <3>1 DEF ScanOK, Members
  <2>8. CASE ~Available(u)
    <3>1. found'[r] = found[r] /\ u \notin Candidates(r)'
      BY <2>1, <2>3, <2>8 DEF AvailableUpstreams
    <3>. QED BY <2>2, <2>3, <2>4, <2>5, <2>6, <3>1 DEF ScanOK, Members
  <2>. QED BY <2>7, <2>8
<1>3. CASE StartCompare(r)
  <2>1. PICK u \in found[r] :
          /\ chosen' = [chosen EXCEPT ![r] = u]
          /\ unscanned' = [unscanned EXCEPT ![r] = found[r] \ {u}]
    BY <1>3 DEF StartCompare
  <2>2. /\ Selecting(r) /\ Selecting(r)' /\ pc'[r] = "compare" /\ Observe
        /\ pool'[r] = pool[r] /\ found'[r] = found[r] /\ chosen'[r] = u
        /\ unscanned'[r] = found[r] \ {u}
    BY <1>3, <2>1 DEF StartCompare, Selecting, TypeRequest
  <2>3. glimpsed'[r] = glimpsed[r] \cup Candidates(r)'
    BY <2>2, ObserveSelecting
  <2>4. Candidates(r)' \subseteq Members(pool[r])
    BY <2>2 DEF Candidates, Members
  <2>. QED BY <2>2, <2>3, <2>4 DEF ScanOK, Members
<1>4. CASE Compare(r)
  <2>1. PICK u \in unscanned[r] :
          /\ unscanned' = [unscanned EXCEPT ![r] = @ \ {u}]
          /\ chosen' = [chosen EXCEPT ![r] = u] \/ UNCHANGED chosen
    BY <1>4 DEF Compare, IsFirst
  <2>2. /\ Selecting(r) /\ Selecting(r)' /\ Observe
        /\ pc[r] = "compare" /\ pc'[r] = "compare"
        /\ pool'[r] = pool[r] /\ found'[r] = found[r] /\ chosen'[r] \in {u, chosen[r]}
        /\ unscanned'[r] = unscanned[r] \ {u}
    BY <1>4, <2>1 DEF Compare, Selecting, TypeRequest
  <2>3. glimpsed'[r] = glimpsed[r] \cup Candidates(r)'
    BY <2>2, ObserveSelecting
  <2>4. Candidates(r)' \subseteq Members(pool[r])
    BY <2>2 DEF Candidates, Members
  <2>. QED BY <2>1, <2>2, <2>3, <2>4 DEF ScanOK, Members
<1>5. CASE ~Arrive(r) /\ ~Scan(r) /\ ~StartCompare(r) /\ ~Compare(r)
  <2>1. ~Selecting(r)'
    BY <1>5 DEF Request, Handle, AwaitHeaders, Refuse, SelectWrr, SelectRandom,
       SelectLc, Choose, Increment, Headers, AttemptFails, BodyEnds, Cancel,
       Decrement, Settle, Selecting, TypeRequest
  <2>. QED BY <2>1 DEF ScanOK
<1>. QED BY <1>1, <1>2, <1>3, <1>4, <1>5

(* A step of one request leaves the local variables of the others alone. *)
LEMMA OthersKeepLocals ==
  ASSUME TInv, NEW r \in Requests, Request(r), NEW q \in Requests, q # r
  PROVE  /\ pc'[q] = pc[q] /\ pool'[q] = pool[q] /\ unscanned'[q] = unscanned[q]
         /\ found'[q] = found[q] /\ chosen'[q] = chosen[q]
         /\ fewest'[q] = fewest[q] /\ Observe
<1>. TypeRequest
  BY DEF TInv
<1>1. CASE Arrive(r) \/ Scan(r) \/ Refuse(r) \/ SelectWrr(r) \/ SelectRandom(r)
  BY <1>1 DEF Arrive, Scan, Refuse, SelectWrr, SelectRandom, Choose, TypeRequest
<1>2. CASE StartCompare(r) \/ Compare(r) \/ SelectLc(r) \/ Settle(r)
  BY <1>2 DEF StartCompare, Compare, SelectLc, Settle, Choose, TypeRequest
<1>3. CASE Increment(r) \/ Headers(r) \/ AttemptFails(r) \/ BodyEnds(r)
  BY <1>3 DEF Increment, Headers, AttemptFails, BodyEnds, localVars, TypeRequest
<1>4. CASE Cancel(r) \/ Decrement(r)
  BY <1>4 DEF Cancel, Decrement, TypeRequest
<1>. QED BY <1>1, <1>2, <1>3, <1>4 DEF Request, Handle, AwaitHeaders

(* The steps of everyone but the requests. *)
LEMMA EnvironmentKeepsLocals ==
  ASSUME Checker \/ Operator \/ World
  PROVE  UNCHANGED <<pc, localVars>> /\ Observe
BY DEF Checker, StartCycle, MarkHealthy, ProbeDone, ProbeSkipped, Operator,
   Enable, Disable, World, Tick, Recover

(* Every step keeps ScanIsSound. *)
LEMMA ScanStep ==
  ASSUME TInv, ScanIsSound, [Next]_vars
  PROVE  ScanIsSound'
<1>1. SUFFICES ASSUME NEW q \in Requests PROVE ScanOK(q)'
  BY DEF ScanIsSound, ScanOK
<1>2. ScanOK(q)
  BY DEF ScanIsSound, ScanOK
<1>3. CASE Checker \/ Operator \/ World
  BY <1>2, <1>3, EnvironmentKeepsLocals, ScanKept DEF localVars
<1>4. ASSUME NEW r \in Requests, Request(r) PROVE ScanOK(q)'
  <2>1. CASE q = r
    BY <1>2, <1>4, <2>1, ScanMoves
  <2>2. CASE q # r
    BY <1>2, <1>4, <2>2, OthersKeepLocals, ScanKept
  <2>. QED BY <2>1, <2>2
<1>5. CASE UNCHANGED vars
  BY <1>2, <1>5 DEF vars, localVars, ScanOK, Selecting, Members
<1>. QED BY <1>3, <1>4, <1>5 DEF Next

(***************************************************************************)
(* A selection spread over many lock acquisitions never loses an upstream  *)
(* that stays available and never finds one that was not available.        *)
(***************************************************************************)
THEOREM ScanSound == Spec => []ScanIsSound
<1>1. Init => ScanIsSound
  BY DEF Init, ScanIsSound, Selecting
<1>. QED BY <1>1, ScanStep, TInvHolds, PTL DEF Spec

-----------------------------------------------------------------------------
(***************************************************************************)
(* The comparison of connection counts.  Between the least that the chosen *)
(* upstream's count has been and the greatest that another's has been lies *)
(* fewest, the value that the comparison has kept.                         *)
(***************************************************************************)
CompareOK(r) ==
  pc[r] = "compare" =>
    /\ low[r][chosen[r]] <= fewest[r]
    /\ \A u \in found[r] \ unscanned[r] : fewest[r] <= high[r][u]

(* The gauges of a request that goes on comparing only widen, ... *)
LEMMA GaugesWiden ==
  ASSUME TInv, TypeAtomic', Observe, NEW q \in Requests, NEW u \in Upstreams,
         pc[q] = "compare", pc'[q] = "compare"
  PROVE  /\ low'[q][u] <= low[q][u] /\ low'[q][u] <= conn'[u]
         /\ high[q][u] <= high'[q][u] /\ conn'[u] <= high'[q][u]
         /\ low'[q][u] \in Int /\ high'[q][u] \in Int
<1>1. low[q][u] \in Int /\ high[q][u] \in Int /\ conn'[u] \in Int
  BY DEF TInv, TypeObserved, TypeAtomic
<1>2. /\ low'[q][u] = IF conn'[u] < low[q][u] THEN conn'[u] ELSE low[q][u]
      /\ high'[q][u] = IF conn'[u] > high[q][u] THEN conn'[u] ELSE high[q][u]
  BY DEF Observe, Gauge
<1>. QED BY <1>1, <1>2

(* ... and those of one that begins show the counts as they are. *)
LEMMA GaugesStart ==
  ASSUME Observe, NEW q \in Requests, NEW u \in Upstreams,
         pc[q] # "compare", pc'[q] = "compare"
  PROVE  low'[q][u] = conn'[u] /\ high'[q][u] = conn'[u]
BY DEF Observe, Gauge

(* A request that does not move keeps its comparison while others come and  *)
(* go.                                                                      *)
LEMMA CompareKept ==
  ASSUME TInv, TypeAtomic', Observe, NEW q \in Requests, CompareOK(q),
         pc'[q] = pc[q], unscanned'[q] = unscanned[q], found'[q] = found[q],
         chosen'[q] = chosen[q], fewest'[q] = fewest[q]
  PROVE  CompareOK(q)'
<1>. SUFFICES ASSUME pc[q] = "compare" PROVE CompareOK(q)'
  BY DEF CompareOK
<1>1. /\ chosen[q] \in Upstreams /\ found[q] \subseteq Upstreams
      /\ fewest[q] \in Int
      /\ \A u \in Upstreams : low[q][u] \in Int /\ high[q][u] \in Int
  BY DEF TInv, LocalsOK, TypeRequest, TypeObserved
<1>2. low'[q][chosen[q]] <= fewest[q]
  <2>1. low'[q][chosen[q]] <= low[q][chosen[q]] /\ low'[q][chosen[q]] \in Int
    BY <1>1, GaugesWiden
  <2>2. low[q][chosen[q]] <= fewest[q]
    BY DEF CompareOK
  <2>. QED BY <1>1, <2>1, <2>2
<1>3. ASSUME NEW u \in found[q] \ unscanned[q] PROVE fewest[q] <= high'[q][u]
  <2>1. high[q][u] <= high'[q][u] /\ high'[q][u] \in Int /\ high[q][u] \in Int
    BY <1>1, GaugesWiden
  <2>2. fewest[q] <= high[q][u]
    BY DEF CompareOK
  <2>. QED BY <1>1, <2>1, <2>2
<1>. QED BY <1>2, <1>3 DEF CompareOK

(* The request that loads a count. *)
LEMMA CompareMoves ==
  ASSUME TInv, TypeAtomic', NEW r \in Requests, CompareOK(r), Request(r)
  PROVE  CompareOK(r)'
<1>. TypeRequest /\ LocalsOK
  BY DEF TInv
<1>1. CASE StartCompare(r)
  <2>1. PICK u \in found[r] :
          /\ chosen' = [chosen EXCEPT ![r] = u]
          /\ fewest' = [fewest EXCEPT ![r] = conn[u]]
          /\ unscanned' = [unscanned EXCEPT ![r] = found[r] \ {u}]
    BY <1>1 DEF StartCompare
  <2>2. /\ pc[r] # "compare" /\ pc'[r] = "compare" /\ Observe
        /\ found'[r] = found[r] /\ chosen'[r] = u /\ fewest'[r] = conn[u]
        /\ unscanned'[r] = found[r] \ {u} /\ conn' = conn
    BY <1>1, <2>1 DEF StartCompare, TypeRequest, atomicVars
  <2>3. u \in Upstreams /\ conn[u] \in Int
    BY DEF TypeRequest, TInv, TypeAtomic
  <2>4. low'[r][u] = conn[u] /\ high'[r][u] = conn[u]
    BY <2>2, <2>3, GaugesStart
  <2>5. found'[r] \ unscanned'[r] = {u}
    BY <2>2
  <2>. QED BY <2>2, <2>3, <2>4, <2>5 DEF CompareOK
<1>2. CASE Compare(r)
  <2>1. PICK u \in Upstreams :
          /\ u \in unscanned[r]
          /\ unscanned' = [unscanned EXCEPT ![r] = @ \ {u}]
          /\ IF conn[u] < fewest[r]
             THEN /\ chosen' = [chosen EXCEPT ![r] = u]
                  /\ fewest' = [fewest EXCEPT ![r] = conn[u]]
             ELSE UNCHANGED <<chosen, fewest>>
    BY <1>2 DEF Compare, IsFirst
  <2>2. /\ pc[r] = "compare" /\ pc'[r] = "compare" /\ Observe
        /\ found'[r] = found[r] /\ unscanned'[r] = unscanned[r] \ {u}
        /\ conn' = conn
    BY <1>2, <2>1 DEF Compare, TypeRequest, atomicVars
  <2>3. /\ conn[u] \in Int /\ fewest[r] \in Int /\ chosen[r] \in Upstreams
        /\ found[r] \subseteq Upstreams
        /\ \A v \in Upstreams : low[r][v] \in Int /\ high[r][v] \in Int
    BY <2>2 DEF TInv, TypeAtomic, TypeRequest, TypeObserved, LocalsOK
  <2>4. \A v \in Upstreams :
          /\ low'[r][v] <= low[r][v] /\ low'[r][v] <= conn[v]
          /\ high[r][v] <= high'[r][v] /\ conn[v] <= high'[r][v]
          /\ low'[r][v] \in Int /\ high'[r][v] \in Int
    BY <2>2, GaugesWiden
  <2>5. /\ fewest'[r] \in Int /\ fewest'[r] <= fewest[r] /\ fewest'[r] <= conn[u]
        /\ \/ chosen'[r] = u /\ fewest'[r] = conn[u]
           \/ chosen'[r] = chosen[r] /\ fewest'[r] = fewest[r]
    BY <2>1, <2>3 DEF TypeRequest
  <2>6. low'[r][chosen'[r]] <= fewest'[r]
    <3>1. low[r][chosen[r]] <= fewest[r]
      BY <2>2 DEF CompareOK
    <3>2. CASE chosen'[r] = u /\ fewest'[r] = conn[u]
      BY <2>4, <3>2
    <3>3. CASE chosen'[r] = chosen[r] /\ fewest'[r] = fewest[r]
      BY <2>3, <2>4, <3>1, <3>3
    <3>. QED BY <2>5, <3>2, <3>3
  <2>7. ASSUME NEW v \in found'[r] \ unscanned'[r] PROVE fewest'[r] <= high'[r][v]
    <3>1. CASE v = u
      BY <2>3, <2>4, <2>5, <3>1
    <3>2. CASE v # u
      <4>1. v \in found[r] \ unscanned[r] /\ v \in Upstreams
        BY <2>2, <2>3, <3>2
      <4>2. fewest[r] <= high[r][v]
        BY <2>2, <4>1 DEF CompareOK
      <4>. QED BY <2>3, <2>4, <2>5, <4>1, <4>2
    <3>. QED BY <3>1, <3>2
  <2>. QED BY <2>6, <2>7 DEF CompareOK
<1>3. CASE ~StartCompare(r) /\ ~Compare(r)
  <2>1. pc'[r] # "compare"
    BY <1>3 DEF Request, Handle, AwaitHeaders, Arrive, Scan, Refuse, SelectWrr,
       SelectRandom, SelectLc, Choose, Increment, Headers, AttemptFails, BodyEnds,
       Cancel, Decrement, Settle, TypeRequest
  <2>. QED BY <2>1 DEF CompareOK
<1>. QED BY <1>1, <1>2, <1>3

CInv == \A r \in Requests : CompareOK(r)

(* Every step keeps every comparison right. *)
LEMMA CompareStep ==
  ASSUME TInv, TInv', CInv, [Next]_vars
  PROVE  CInv'
<1>1. SUFFICES ASSUME NEW q \in Requests PROVE CompareOK(q)'
  BY DEF CInv
<1>2. CompareOK(q) /\ TypeAtomic'
  BY DEF CInv, TInv
<1>3. CASE Checker \/ Operator \/ World
  BY <1>2, <1>3, EnvironmentKeepsLocals, CompareKept DEF localVars
<1>4. ASSUME NEW r \in Requests, Request(r) PROVE CompareOK(q)'
  <2>1. CASE q = r
    BY <1>2, <1>4, <2>1, CompareMoves
  <2>2. CASE q # r
    BY <1>2, <1>4, <2>2, OthersKeepLocals, CompareKept
  <2>. QED BY <2>1, <2>2
<1>5. CASE UNCHANGED vars
  BY <1>2, <1>5 DEF vars, localVars, CompareOK
<1>. QED BY <1>3, <1>4, <1>5 DEF Next

(***************************************************************************)
(* least_connections never prefers an upstream that has been busier, ever  *)
(* since the comparison began, than another has been at any moment since,  *)
(* however many requests come and go while it loads the counts.            *)
(***************************************************************************)
THEOREM LeastLoaded == Spec => []LeastLoadedIsChosen
<1>1. Init => CInv
  BY DEF Init, CInv, CompareOK
<1>2. TInv /\ CInv => LeastLoadedIsChosen
  <2>. SUFFICES ASSUME TInv, CInv, NEW r \in Requests, pc[r] = "compare",
                       NEW u \in found[r] \ unscanned[r]
                PROVE  low[r][chosen[r]] <= high[r][u]
    BY DEF LeastLoadedIsChosen
  <2>1. low[r][chosen[r]] <= fewest[r] /\ fewest[r] <= high[r][u]
    BY DEF CInv, CompareOK
  <2>2. /\ chosen[r] \in Upstreams /\ u \in Upstreams /\ fewest[r] \in Int
        /\ low \in [Requests -> [Upstreams -> Int]]
        /\ high \in [Requests -> [Upstreams -> Int]]
    BY DEF TInv, LocalsOK, TypeRequest, TypeObserved
  <2>3. low[r][chosen[r]] \in Int /\ high[r][u] \in Int
    BY <2>2
  <2>. QED BY <2>1, <2>2, <2>3
<1>. QED BY <1>1, <1>2, CompareStep, TInvHolds, PTL DEF Spec

-----------------------------------------------------------------------------
(***************************************************************************)
(* UpstreamPool implements UpstreamSelection: every step of the scan, of   *)
(* the balancing algorithms, of the probes, of the operator and of the     *)
(* exchanges is a step the abstract selection allows, or leaves its        *)
(* variables alone.                                                        *)
(*                                                                         *)
(* Two invariants carry it: ScanIsSound (a refusal and a choice are        *)
(* justified by what was scanned) and HistoryOK (the recorded history of a *)
(* selection agrees with the availability of this very state, so a step    *)
(* that does not change availability does not change history either).      *)
(***************************************************************************)
HistoryOK ==
  \A q \in Requests :
    IF Selecting(q)
    THEN steady[q] \subseteq Candidates(q) /\ Candidates(q) \subseteq glimpsed[q]
    ELSE steady[q] = {} /\ glimpsed[q] = {}

(* Observe re-establishes the history whatever else a step does. *)
LEMMA ObserveRecords == Observe => HistoryOK'
<1>. SUFFICES ASSUME Observe, NEW q \in Requests
              PROVE  IF Selecting(q)'
                     THEN /\ steady'[q] \subseteq Candidates(q)'
                          /\ Candidates(q)' \subseteq glimpsed'[q]
                     ELSE steady'[q] = {} /\ glimpsed'[q] = {}
  BY DEF HistoryOK
<1>1. CASE ~Selecting(q)'
  BY <1>1, ObserveOutside
<1>2. CASE Selecting(q)' /\ Selecting(q)
  BY <1>2, ObserveSelecting
<1>3. CASE Selecting(q)' /\ ~Selecting(q)
  BY <1>3, ObserveBeginning
<1>. QED BY <1>1, <1>2, <1>3

(* Every step of the pool observes. *)
LEMMA EveryStepObserves == Next => Observe
<1>1. ASSUME NEW r \in Requests, Request(r) PROVE Observe
  BY <1>1 DEF Request, Handle, AwaitHeaders, Arrive, Scan, Refuse, SelectWrr,
     SelectRandom, StartCompare, Compare, SelectLc, Increment, Headers,
     AttemptFails, BodyEnds, Cancel, Decrement, Settle
<1>. QED BY <1>1, EnvironmentKeepsLocals DEF Next

(* The history is right in every reachable state. *)
LEMMA HistoryHolds == Spec => []HistoryOK
<1>1. Init => HistoryOK
  BY DEF Init, HistoryOK, Selecting
<1>2. HistoryOK /\ [Next]_vars => HistoryOK'
  <2>1. HistoryOK /\ UNCHANGED vars => HistoryOK'
    BY DEF HistoryOK, vars, lockVars, localVars, Selecting, Candidates, Members,
       AvailableUpstreams, Available
  <2>. QED BY <2>1, EveryStepObserves, ObserveRecords
<1>. QED BY <1>1, <1>2, PTL DEF Spec

-----------------------------------------------------------------------------
(* A request that neither begins nor ends its selection in a step that      *)
(* leaves availability alone keeps its history.                             *)
LEMMA HistoryKept ==
  ASSUME HistoryOK, Observe, AvailableUpstreams' = AvailableUpstreams,
         NEW q \in Requests, Selecting(q)' <=> Selecting(q), pool'[q] = pool[q]
  PROVE  steady'[q] = steady[q] /\ glimpsed'[q] = glimpsed[q]
<1>1. Candidates(q)' = Candidates(q)
  BY DEF Candidates, Members
<1>2. CASE Selecting(q)
  BY <1>1, <1>2, ObserveSelecting DEF HistoryOK
<1>3. CASE ~Selecting(q)
  BY <1>3, ObserveOutside DEF HistoryOK
<1>. QED BY <1>2, <1>3

(* Phases and choices, the part of the mapping that is computed. *)
PhaseMap == [r \in Requests |-> Phase(r)]
ChoiceMap ==
  [r \in Requests |-> IF Phase(r) = "forwarding" THEN chosen[r] ELSE NoUpstream]

(* A step under which no request changes phase, pool or choice is a change  *)
(* of availability.                                                         *)
LEMMA AvailabilityStep ==
  ASSUME TInv, HistoryOK, Observe, UNCHANGED pool,
         PhaseMap' = PhaseMap, ChoiceMap' = ChoiceMap,
         \A q \in Requests : Selecting(q)' <=> Selecting(q)
  PROVE  Selection!AvailabilityChanges
<1>1. AvailableUpstreams' \in SUBSET Upstreams
  BY DEF AvailableUpstreams
<1>2. \A q \in Requests : Selecting(q) <=> PhaseMap[q] = "selecting"
  BY DEF PhaseMap, Phase, Selecting, TInv, TypeRequest, ControlPoints
<1>3. ASSUME NEW q \in Requests
      PROVE  /\ steady'[q] = steady[q] \cap AvailableUpstreams'
             /\ glimpsed'[q] =
                  IF Selecting(q)
                  THEN glimpsed[q] \cup (Members(pool[q]) \cap AvailableUpstreams')
                  ELSE {}
  <2>1. CASE Selecting(q)
    <3>1. Candidates(q)' = Members(pool[q]) \cap AvailableUpstreams'
      BY DEF Candidates, Members
    <3>2. steady[q] \subseteq Members(pool[q])
      BY <2>1 DEF HistoryOK, Candidates
    <3>. QED BY <2>1, <3>1, <3>2, ObserveSelecting
  <2>2. CASE ~Selecting(q)
    BY <2>2, ObserveOutside DEF HistoryOK
  <2>. QED BY <2>1, <2>2
<1>4. steady' = [q \in Requests |-> steady[q] \cap AvailableUpstreams']
  BY <1>3 DEF Observe
<1>5. glimpsed' = [q \in Requests |->
        IF PhaseMap[q] = "selecting"
        THEN glimpsed[q] \cup (Members(pool[q]) \cap AvailableUpstreams') ELSE {}]
  BY <1>2, <1>3 DEF Observe
<1>. QED BY <1>1, <1>4, <1>5
         DEF Selection!AvailabilityChanges, Selection!PoolMembers, Members,
             PhaseMap, ChoiceMap

-----------------------------------------------------------------------------
(* A request step that leaves the locked state alone leaves availability    *)
(* alone.                                                                   *)
LEMMA AvailabilityKept ==
  ASSUME OnlyRequest
  PROVE  AvailableUpstreams' = AvailableUpstreams
BY DEF OnlyRequest, lockVars, AvailableUpstreams, Available

(* What a step of r leaves of the other requests' abstract state. *)
LEMMA OthersKept ==
  ASSUME TInv, HistoryOK, OnlyRequest, NEW r \in Requests, Request(r),
         NEW q \in Requests, q # r
  PROVE  /\ PhaseMap'[q] = PhaseMap[q] /\ ChoiceMap'[q] = ChoiceMap[q]
         /\ pool'[q] = pool[q]
         /\ steady'[q] = steady[q] /\ glimpsed'[q] = glimpsed[q]
<1>1. /\ pc'[q] = pc[q] /\ pool'[q] = pool[q] /\ chosen'[q] = chosen[q]
      /\ Observe
  BY OthersKeepLocals
<1>2. Selecting(q)' <=> Selecting(q)
  BY <1>1 DEF Selecting
<1>3. Phase(q)' = Phase(q)
  BY <1>1 DEF Phase
<1>. QED BY <1>1, <1>2, <1>3, AvailabilityKept, HistoryKept DEF PhaseMap, ChoiceMap

(* Arrive begins a selection. *)
LEMMA ArriveBegins ==
  ASSUME TInv, HistoryOK, NEW r \in Requests, Arrive(r)
  PROVE  \E p \in Pools : Selection!Begin(r, p)
<1>1. PICK p \in Pools : pool' = [pool EXCEPT ![r] = p]
  BY DEF Arrive
<1>2. /\ OnlyRequest /\ Observe /\ Request(r)
      /\ pc[r] = "idle" /\ pc'[r] = "scan" /\ pool'[r] = p
  BY <1>1 DEF Arrive, Request, TInv, TypeRequest
<1>3. AvailableUpstreams' = AvailableUpstreams
  BY <1>2, AvailabilityKept
<1>4. /\ steady'[r] = Members(p) \cap AvailableUpstreams
      /\ glimpsed'[r] = Members(p) \cap AvailableUpstreams
  BY <1>2, <1>3, ObserveBeginning DEF Selecting, Candidates, Members
<1>5. Phase(r) = "out" /\ Phase(r)' = "selecting"
  BY <1>2 DEF Phase
<1>6. PhaseMap' = [PhaseMap EXCEPT ![r] = "selecting"]
  BY <1>2, <1>5, OthersKept DEF PhaseMap
<1>7. ChoiceMap' = ChoiceMap
  BY <1>2, <1>5, OthersKept DEF ChoiceMap
<1>8. /\ steady' = [steady EXCEPT ![r] = Members(p) \cap AvailableUpstreams]
      /\ glimpsed' = [glimpsed EXCEPT ![r] = Members(p) \cap AvailableUpstreams]
  BY <1>2, <1>4, OthersKept DEF Observe, TInv, TypeObserved
<1>. QED BY <1>1, <1>3, <1>5, <1>6, <1>7, <1>8
         DEF Selection!Begin, Selection!PoolMembers, Members, PhaseMap, ChoiceMap

(* What leaving the selection does to the abstract state, whatever follows. *)
LEMMA Leaving ==
  ASSUME TInv, HistoryOK, NEW r \in Requests, Request(r), OnlyRequest,
         Selecting(r), ~Selecting(r)', pool' = [pool EXCEPT ![r] = NoPool]
  PROVE  Selection!Leave(r)
<1>1. Observe
  BY EveryStepObserves DEF Next
<1>2. steady'[r] = {} /\ glimpsed'[r] = {}
  BY <1>1, ObserveOutside
<1>3. /\ steady' = [steady EXCEPT ![r] = {}]
      /\ glimpsed' = [glimpsed EXCEPT ![r] = {}]
  BY <1>1, <1>2, OthersKept DEF Observe, TInv, TypeObserved
<1>. QED BY <1>3, AvailabilityKept DEF Selection!Leave

(* Refuse denies: every steady upstream would have been found. *)
LEMMA RefuseDenies ==
  ASSUME TInv, HistoryOK, ScanIsSound, NEW r \in Requests, Refuse(r)
  PROVE  Selection!Deny(r)
<1>1. /\ OnlyRequest /\ Request(r) /\ pc[r] = "scan" /\ pc'[r] = "idle"
      /\ unscanned[r] = {} /\ found[r] = {}
      /\ pool' = [pool EXCEPT ![r] = NoPool]
  BY DEF Refuse, Request, Handle, TInv, TypeRequest
<1>2. Selecting(r) /\ ~Selecting(r)'
  BY <1>1 DEF Selecting
<1>3. steady[r] = {}
  BY <1>1, <1>2 DEF ScanIsSound
<1>4. Phase(r) = "selecting" /\ Phase(r)' = "out"
  BY <1>1 DEF Phase
<1>5. PhaseMap' = [PhaseMap EXCEPT ![r] = "out"]
  BY <1>1, <1>4, OthersKept DEF PhaseMap
<1>6. ChoiceMap' = ChoiceMap
  BY <1>1, <1>4, OthersKept DEF ChoiceMap
<1>. QED BY <1>1, <1>2, <1>3, <1>4, <1>5, <1>6, Leaving
         DEF Selection!Deny, PhaseMap, ChoiceMap

(* Each algorithm gives an upstream that was found, hence glimpsed. *)
LEMMA SelectGives ==
  ASSUME TInv, HistoryOK, ScanIsSound, NEW r \in Requests,
         SelectWrr(r) \/ SelectRandom(r) \/ SelectLc(r)
  PROVE  \E u \in Upstreams : Selection!Give(r, u)
<1>1. PICK u \in found[r] : Choose(r, u)
  BY DEF SelectWrr, SelectRandom, SelectLc, ScanIsSound, Selecting
<1>2. /\ OnlyRequest /\ Request(r) /\ pc[r] \in {"scan", "compare"}
      /\ pc'[r] = "incr" /\ chosen'[r] = u
      /\ pool' = [pool EXCEPT ![r] = NoPool]
  BY <1>1 DEF SelectWrr, SelectRandom, SelectLc, Choose, Request, Handle, TInv,
     TypeRequest
<1>3. Selecting(r) /\ ~Selecting(r)'
  BY <1>2 DEF Selecting
<1>4. u \in glimpsed[r] /\ u \in Upstreams
  BY <1>1, <1>3 DEF ScanIsSound, TInv, TypeRequest
<1>5. Phase(r) = "selecting" /\ Phase(r)' = "forwarding"
  BY <1>2 DEF Phase
<1>6. PhaseMap' = [PhaseMap EXCEPT ![r] = "forwarding"]
  BY <1>2, <1>5, OthersKept DEF PhaseMap
<1>7. ChoiceMap' = [ChoiceMap EXCEPT ![r] = u]
  BY <1>2, <1>5, OthersKept DEF ChoiceMap
<1>. QED BY <1>2, <1>3, <1>4, <1>5, <1>6, <1>7, Leaving
         DEF Selection!Give, PhaseMap, ChoiceMap

(* The end of an exchange, regular or not, finishes. *)
LEMMA ExchangeFinishes ==
  ASSUME TInv, HistoryOK, NEW r \in Requests, Cancel(r) \/ Decrement(r)
  PROVE  Selection!Finish(r)
<1>1. /\ OnlyRequest /\ Request(r) /\ Observe /\ UNCHANGED pool
      /\ pc[r] \in {"wait", "body", "decr"} /\ pc'[r] \in {"idle", "settle"}
  BY DEF Cancel, Decrement, Request, Handle, TInv, TypeRequest
<1>2. Phase(r) = "forwarding" /\ Phase(r)' = "out"
  BY <1>1 DEF Phase
<1>3. steady'[r] = steady[r] /\ glimpsed'[r] = glimpsed[r]
  BY <1>1, AvailabilityKept, HistoryKept DEF Selecting
<1>4. PhaseMap' = [PhaseMap EXCEPT ![r] = "out"]
  BY <1>1, <1>2, OthersKept DEF PhaseMap
<1>5. ChoiceMap' = [ChoiceMap EXCEPT ![r] = NoUpstream]
  BY <1>1, <1>2, OthersKept DEF ChoiceMap
<1>6. UNCHANGED <<steady, glimpsed>>
  BY <1>1, <1>3, OthersKept DEF Observe, TInv, TypeObserved
<1>. QED BY <1>1, <1>2, <1>4, <1>5, <1>6, AvailabilityKept
         DEF Selection!Finish, PhaseMap, ChoiceMap

(* The steps inside a selection and inside an exchange are invisible. *)
LEMMA InnerStepsStutter ==
  ASSUME TInv, HistoryOK, NEW r \in Requests,
         \/ Scan(r) \/ StartCompare(r) \/ Compare(r)
         \/ Increment(r) \/ Headers(r) \/ AttemptFails(r) \/ BodyEnds(r)
  PROVE  UNCHANGED Selection!selVars
<1>1. /\ OnlyRequest /\ Request(r) /\ Observe /\ UNCHANGED pool
      /\ Phase(r)' = Phase(r)
      /\ Selecting(r)' <=> Selecting(r)
      /\ Selecting(r) \/ chosen'[r] = chosen[r]
  BY DEF Scan, StartCompare, Compare, Increment, Headers, AttemptFails, BodyEnds,
     Request, Handle, AwaitHeaders, TInv, TypeRequest, Phase, Selecting, localVars
<1>2. Selecting(r) => Phase(r) = "selecting"
  BY DEF Selecting, Phase
<1>3. steady'[r] = steady[r] /\ glimpsed'[r] = glimpsed[r]
  BY <1>1, AvailabilityKept, HistoryKept
<1>4. PhaseMap' = PhaseMap
  BY <1>1, OthersKept DEF PhaseMap
<1>5. ChoiceMap' = ChoiceMap
  BY <1>1, <1>2, OthersKept DEF ChoiceMap
<1>6. UNCHANGED <<steady, glimpsed>>
  BY <1>1, <1>3, OthersKept DEF Observe, TInv, TypeObserved
<1>. QED BY <1>1, <1>4, <1>5, <1>6, AvailabilityKept
         DEF Selection!selVars, PhaseMap, ChoiceMap

(* Settling a failure may trip the breaker: availability changes. *)
LEMMA SettleChanges ==
  ASSUME TInv, HistoryOK, NEW r \in Requests, Settle(r)
  PROVE  Selection!AvailabilityChanges
<1>1. /\ Observe /\ UNCHANGED pool
      /\ \A q \in Requests : Phase(q)' = Phase(q)
      /\ \A q \in Requests : Phase(q) = "forwarding" => chosen'[q] = chosen[q]
      /\ \A q \in Requests : Selecting(q)' <=> Selecting(q)
  BY DEF Settle, TInv, TypeRequest, Phase, Selecting
<1>2. PhaseMap' = PhaseMap
  BY <1>1 DEF PhaseMap
<1>3. ChoiceMap' = ChoiceMap
  BY <1>1 DEF ChoiceMap
<1>. QED BY <1>1, <1>2, <1>3, AvailabilityStep

(* The checker, the operator and the world only change availability. *)
LEMMA EnvironmentChanges ==
  ASSUME TInv, HistoryOK, Checker \/ Operator \/ World
  PROVE  Selection!AvailabilityChanges
<1>1. UNCHANGED <<pc, pool, chosen>> /\ Observe
  BY EnvironmentKeepsLocals DEF localVars
<1>2. PhaseMap' = PhaseMap
  BY <1>1 DEF PhaseMap, Phase
<1>3. ChoiceMap' = ChoiceMap
  BY <1>1 DEF ChoiceMap, Phase
<1>. QED BY <1>1, <1>2, <1>3, AvailabilityStep DEF Selecting

(***************************************************************************)
(* select_upstream keeps the promise of UpstreamSelection, for any number  *)
(* of pools, upstreams and concurrent requests, under every algorithm and  *)
(* however its lock acquisitions interleave with everybody else's.         *)
(***************************************************************************)
THEOREM PoolImplementsSelection == Spec => ImplementsSelection
<1>1. Init => Selection!SelInit
  BY DEF Init, Selection!SelInit, AvailableUpstreams, Phase
<1>2. ASSUME TInv, HistoryOK, ScanIsSound, [Next]_vars
      PROVE  [Selection!SelNext]_(Selection!selVars)
  <2>1. CASE Checker \/ Operator \/ World
    BY <1>2, <2>1, EnvironmentChanges DEF Selection!SelNext
  <2>2. ASSUME NEW r \in Requests, Request(r)
        PROVE  [Selection!SelNext]_(Selection!selVars)
    <3>1. CASE Arrive(r)
      BY <1>2, <3>1, ArriveBegins DEF Selection!SelNext
    <3>2. CASE Refuse(r)
      BY <1>2, <3>2, RefuseDenies DEF Selection!SelNext
    <3>3. CASE SelectWrr(r) \/ SelectRandom(r) \/ SelectLc(r)
      BY <1>2, <3>3, SelectGives DEF Selection!SelNext
    <3>4. CASE Cancel(r) \/ Decrement(r)
      BY <1>2, <3>4, ExchangeFinishes DEF Selection!SelNext
    <3>5. CASE Settle(r)
      BY <1>2, <3>5, SettleChanges DEF Selection!SelNext
    <3>6. CASE \/ Scan(r) \/ StartCompare(r) \/ Compare(r)
               \/ Increment(r) \/ Headers(r) \/ AttemptFails(r) \/ BodyEnds(r)
      BY <1>2, <3>6, InnerStepsStutter
    <3>. QED BY <2>2, <3>1, <3>2, <3>3, <3>4, <3>5, <3>6
             DEF Request, Handle, AwaitHeaders
  <2>3. CASE UNCHANGED vars
    BY <2>3 DEF vars, lockVars, localVars, Selection!selVars, AvailableUpstreams,
       Available, Phase
  <2>. QED BY <1>2, <2>1, <2>2, <2>3 DEF Next
<1>. QED BY <1>1, <1>2, TInvHolds, HistoryHolds, ScanSound, PTL
         DEF Spec, ImplementsSelection, Selection!SelSpec

=============================================================================
