------------------------- MODULE RateLimiterProofs --------------------------
(***************************************************************************)
(* Proofs about RateLimiter for every number of clients and tiers, every   *)
(* rate and burst, every clock resolution and every length of run.         *)
(***************************************************************************)
EXTENDS RateLimiter, TLAPS

-----------------------------------------------------------------------------
(* Arithmetic the provers are told once: products distribute.              *)

(* Refilling in two steps adds what refilling in one step adds. *)
LEMMA RefillAdds ==
  ASSUME NEW r \in Nat, NEW a \in Int, NEW b \in Int, NEW c \in Int
  PROVE  r * (c - a) = r * (b - a) + r * (c - b)
OBVIOUS

(* A later observation has seen at least as much refill. *)
LEMMA RefillGrows ==
  ASSUME NEW r \in Nat, NEW a \in Int, NEW b \in Int, a <= b
  PROVE  r * (b - a) \in Nat
OBVIOUS

(* One more admission costs one more token. *)
LEMMA OneMore ==
  ASSUME NEW n \in Int, NEW s \in Int
  PROVE  (n + 1) * s = n * s + s
OBVIOUS

(* Products of naturals are naturals. *)
LEMMA ProductType ==
  ASSUME NEW n \in Nat, NEW s \in Nat
  PROVE  n * s \in Nat
OBVIOUS

(* A positive burst holds at least one token. *)
LEMMA BurstHoldsOne ==
  ASSUME NEW n \in Nat, NEW s \in Nat, n > 0
  PROVE  s <= n * s
OBVIOUS

-----------------------------------------------------------------------------
(* Every client is charged to a bucket that exists in the model. *)
LEMMA RateKeyType ==
  ASSUME NEW c \in Clients
  PROVE  RateKey(c) \in Keys
BY DEF RateKey, Keys

(* Rates and bursts are natural numbers. *)
LEMMA LimitTypes ==
  ASSUME NEW k \in Keys
  PROVE  Rps(k) \in Nat /\ Burst(k) \in Nat
BY RateAssumption DEF Rps, Burst, Keys

(* The refilled bucket is a number of units between 0 and the burst. *)
LEMMA RefilledType ==
  ASSUME TypeOK, BucketInv, NEW k \in Keys
  PROVE  Refilled(k) \in Nat /\ Refilled(k) <= Burst(k) * Scale
<1>1. Rps(k) \in Nat /\ Burst(k) \in Nat
  BY LimitTypes
<1>2. Burst(k) * Scale \in Nat
  BY <1>1, ProductType, RateAssumption
<1>3. k \in known => Rps(k) * (now - last[k]) \in Nat
  <2>1. SUFFICES ASSUME k \in known PROVE Rps(k) * (now - last[k]) \in Nat
    OBVIOUS
  <2>2. last[k] \in Int /\ now \in Int /\ last[k] <= now
    BY <2>1 DEF TypeOK, BucketInv, BucketOK
  <2>. QED BY <1>1, <2>2, RefillGrows
<1>4. tokens[k] \in Nat
  BY DEF TypeOK
<1>. QED BY <1>2, <1>3, <1>4 DEF Refilled, Capped

-----------------------------------------------------------------------------
(***************************************************************************)
(* The inductive invariant.                                                *)
(***************************************************************************)
RInv == TypeOK /\ BucketInv /\ winStart <= now

(* The empty bucket map satisfies the invariant. *)
LEMMA InitHolds == Init => RInv
<1>. SUFFICES ASSUME Init PROVE RInv
  OBVIOUS
<1>1. TypeOK
  BY RateAssumption DEF Init, TypeOK
<1>2. BucketInv
  BY DEF Init, BucketInv, BucketOK
<1>. QED BY <1>1, <1>2 DEF RInv, Init

(* What the window has paid for covers the admissions so far and all the   *)
(* bucket holds after the refill.                                          *)
LEMMA RefilledIsPaidFor ==
  ASSUME RInv, NEW k \in Keys
  PROVE  winCount[k] * Scale + Refilled(k)
           <= Burst(k) * Scale + Rps(k) * (now - winStart)
<1>. DEFINE B == Burst(k) * Scale
<1>1. Rps(k) \in Nat /\ Burst(k) \in Nat /\ B \in Nat
  BY LimitTypes, ProductType, RateAssumption
<1>2. Refilled(k) \in Nat /\ Refilled(k) <= B
  BY RefilledType DEF RInv
<1>3. Rps(k) * (now - winStart) \in Nat
  BY <1>1, RefillGrows DEF RInv, TypeOK
<1>4. winCount[k] = 0 => winCount[k] * Scale = 0
  BY RateAssumption
<1>5. CASE k \notin known \/ last[k] < winStart
  <2>1. winCount[k] = 0
    BY <1>5 DEF RInv, BucketInv, BucketOK
  <2>. QED BY <1>1, <1>2, <1>3, <1>4, <2>1
<1>6. CASE k \in known /\ ~(last[k] < winStart)
  <2>1. winCount[k] * Scale + tokens[k] <= B + Rps(k) * (last[k] - winStart)
    BY <1>6 DEF RInv, BucketInv, BucketOK
  <2>2. Rps(k) * (now - winStart)
          = Rps(k) * (last[k] - winStart) + Rps(k) * (now - last[k])
    BY <1>1, RefillAdds DEF RInv, TypeOK
  <2>3. winCount[k] * Scale \in Nat
    BY ProductType, RateAssumption DEF RInv, TypeOK
  <2>4. /\ tokens[k] \in Nat
        /\ Rps(k) * (now - last[k]) \in Nat
        /\ Rps(k) * (last[k] - winStart) \in Nat
    BY <1>1, <1>6, RefillGrows DEF RInv, TypeOK, BucketInv, BucketOK
  <2>5. Refilled(k) <= tokens[k] + Rps(k) * (now - last[k])
    BY <1>1, <1>6, <2>4 DEF Refilled, Capped
  <2>. QED BY <1>1, <1>2, <2>1, <2>2, <2>3, <2>4, <2>5
<1>. QED BY <1>5, <1>6

(* A check of one key leaves the buckets of the others alone. *)
LEMMA OthersUntouched ==
  ASSUME RInv, NEW k \in Keys, NEW j \in Keys, j # k, Touch(k),
         tokens'[j] = tokens[j], reply'[j] = reply[j],
         lastOk'[j] = lastOk[j], winCount'[j] = winCount[j]
  PROVE  BucketOK(j)'
<1>1. BucketOK(j)
  BY DEF RInv, BucketInv
<1>2. (j \in known') <=> (j \in known)
  BY DEF Touch
<1>3. last'[j] = last[j] /\ now' = now /\ winStart' = winStart
  BY DEF Touch, RInv, TypeOK
<1>. QED BY <1>1, <1>2, <1>3 DEF BucketOK, Burst, Rps

(* An admission takes one token and adds one to the window's count. *)
LEMMA AdmitPreserves ==
  ASSUME RInv, NEW c \in Clients, Admit(c)
  PROVE  RInv'
<1>. DEFINE k == RateKey(c)
            B == Burst(k) * Scale
<1>1. k \in Keys
  BY RateKeyType
<1>2. Rps(k) \in Nat /\ Burst(k) \in Nat /\ B \in Nat
  BY <1>1, LimitTypes, ProductType, RateAssumption
<1>3. Refilled(k) \in Nat /\ Refilled(k) <= B /\ Refilled(k) >= Scale
  BY <1>1, RefilledType DEF RInv, Admit
<1>4. TypeOK'
  BY <1>1, <1>3, RateAssumption DEF RInv, TypeOK, Admit, Touch
<1>5. winStart' <= now'
  BY DEF RInv, Admit, Touch
<1>6. BucketOK(k)'
  <2>1. /\ k \in known' /\ last'[k] = now /\ tokens'[k] = Refilled(k) - Scale
        /\ reply'[k] = "ok" /\ lastOk'[k] = now /\ now' = now
        /\ winStart' = winStart /\ winCount'[k] = winCount[k] + 1
    BY <1>1 DEF Admit, Touch, RInv, TypeOK
  <2>2. winCount'[k] * Scale = winCount[k] * Scale + Scale
    BY <1>1, <2>1, OneMore, RateAssumption DEF RInv, TypeOK
  <2>3. winCount[k] * Scale + Refilled(k) <= B + Rps(k) * (now - winStart)
    BY <1>1, RefilledIsPaidFor
  <2>4. /\ winCount[k] * Scale \in Nat
        /\ Rps(k) * (now - winStart) \in Nat
        /\ Rps(k) * (now - now) = 0
    BY <1>1, <1>2, ProductType, RefillGrows, RateAssumption DEF RInv, TypeOK
  <2>5. winCount'[k] * Scale + tokens'[k] <= B + Rps(k) * (last'[k] - winStart')
    BY <1>2, <1>3, <2>1, <2>2, <2>3, <2>4, RateAssumption
  <2>6. ~(last'[k] < winStart') /\ last'[k] <= now' /\ lastOk'[k] <= last'[k]
    BY <2>1 DEF RInv, TypeOK
  <2>7. Rps(k) * (last'[k] - lastOk'[k]) <= tokens'[k] /\ tokens'[k] <= B
    BY <1>2, <1>3, <2>1, <2>4, RateAssumption
  <2>. QED BY <2>1, <2>5, <2>6, <2>7 DEF BucketOK, Burst, Rps
<1>7. ASSUME NEW j \in Keys, j # k PROVE BucketOK(j)'
  <2>1. /\ tokens'[j] = tokens[j] /\ reply'[j] = reply[j]
        /\ lastOk'[j] = lastOk[j] /\ winCount'[j] = winCount[j] /\ Touch(k)
    BY <1>7 DEF Admit, RInv, TypeOK
  <2>. QED BY <1>1, <1>7, <2>1, OthersUntouched
<1>. QED BY <1>4, <1>5, <1>6, <1>7 DEF RInv, BucketInv, Keys

(* A rejection keeps the refill. *)
LEMMA RejectPreserves ==
  ASSUME RInv, NEW c \in Clients, Reject(c)
  PROVE  RInv'
<1>. DEFINE k == RateKey(c)
            B == Burst(k) * Scale
<1>1. k \in Keys
  BY RateKeyType
<1>2. Rps(k) \in Nat /\ Burst(k) \in Nat /\ B \in Nat
  BY <1>1, LimitTypes, ProductType, RateAssumption
<1>3. Refilled(k) \in Nat /\ Refilled(k) <= B /\ Refilled(k) < Scale
  BY <1>1, RefilledType DEF RInv, Reject
<1>4. TypeOK'
  BY <1>1, <1>3, RateAssumption DEF RInv, TypeOK, Reject, Touch
<1>5. winStart' <= now'
  BY DEF RInv, Reject, Touch
<1>6. BucketOK(k)'
  <2>1. /\ k \in known' /\ last'[k] = now /\ tokens'[k] = Refilled(k)
        /\ lastOk'[k] = lastOk[k] /\ now' = now
        /\ winStart' = winStart /\ winCount'[k] = winCount[k]
    BY <1>1 DEF Reject, Touch, RInv, TypeOK
  <2>2. winCount'[k] * Scale + tokens'[k] <= B + Rps(k) * (last'[k] - winStart')
    BY <1>1, <2>1, RefilledIsPaidFor
  <2>3. ~(last'[k] < winStart') /\ last'[k] <= now'
    BY <2>1 DEF RInv, TypeOK
  <2>4. ASSUME Burst(k) > 0
        PROVE  lastOk'[k] <= last'[k] /\ Rps(k) * (last'[k] - lastOk'[k]) <= tokens'[k]
    <3>1. Scale <= B
      BY <1>2, <2>4, BurstHoldsOne, RateAssumption
    <3>2. k \in known
      BY <1>3, <3>1, RateAssumption DEF Refilled
    <3>3. Refilled(k) = tokens[k] + Rps(k) * (now - last[k])
      BY <1>3, <3>1, <3>2, RateAssumption DEF Refilled, Capped
    <3>4. /\ lastOk[k] <= last[k] /\ last[k] <= now
          /\ Rps(k) * (last[k] - lastOk[k]) <= tokens[k]
      BY <1>1, <2>4, <3>2 DEF RInv, BucketInv, BucketOK
    <3>5. Rps(k) * (now - lastOk[k])
            = Rps(k) * (last[k] - lastOk[k]) + Rps(k) * (now - last[k])
      BY <1>1, <1>2, RefillAdds DEF RInv, TypeOK
    <3>6. /\ Rps(k) * (last[k] - lastOk[k]) \in Nat
          /\ Rps(k) * (now - last[k]) \in Nat /\ tokens[k] \in Nat
          /\ lastOk[k] \in Nat /\ last[k] \in Nat /\ now \in Nat
      BY <1>1, <1>2, <3>4, RefillGrows DEF RInv, TypeOK
    <3>. QED BY <2>1, <3>3, <3>4, <3>5, <3>6
  <2>. QED BY <1>3, <2>1, <2>2, <2>3, <2>4 DEF BucketOK, Burst, Rps
<1>7. ASSUME NEW j \in Keys, j # k PROVE BucketOK(j)'
  <2>1. /\ tokens'[j] = tokens[j] /\ reply'[j] = reply[j]
        /\ lastOk'[j] = lastOk[j] /\ winCount'[j] = winCount[j] /\ Touch(k)
    BY <1>7 DEF Reject, RInv, TypeOK
  <2>. QED BY <1>1, <1>7, <2>1, OthersUntouched
<1>. QED BY <1>4, <1>5, <1>6, <1>7 DEF RInv, BucketInv, Keys

(* Time only makes the windows more generous. *)
LEMMA TickPreserves ==
  ASSUME RInv, Tick
  PROVE  RInv'
<1>1. TypeOK' /\ winStart' <= now'
  BY RateAssumption DEF RInv, TypeOK, Tick
<1>2. ASSUME NEW k \in Keys PROVE BucketOK(k)'
  <2>1. BucketOK(k) /\ last[k] \in Nat /\ now \in Nat
    BY DEF RInv, TypeOK, BucketInv
  <2>2. /\ now' = now + 1
        /\ UNCHANGED <<known, tokens, last, reply, lastOk, winStart, winCount>>
    BY DEF Tick
  <2>. QED BY <2>1, <2>2 DEF BucketOK, Burst, Rps
<1>. QED BY <1>1, <1>2 DEF RInv, BucketInv, Keys

(* Opening a window forgets the admissions so far: a bucket holds no more  *)
(* than its burst, which every window grants.                              *)
LEMMA OpenWindowPreserves ==
  ASSUME RInv, OpenWindow
  PROVE  RInv'
<1>1. TypeOK' /\ winStart' <= now'
  BY DEF RInv, TypeOK, OpenWindow
<1>2. ASSUME NEW k \in Keys PROVE BucketOK(k)'
  <2>1. BucketOK(k)
    BY DEF RInv, BucketInv
  <2>2. /\ known' = known /\ last'[k] = last[k] /\ tokens'[k] = tokens[k]
        /\ lastOk'[k] = lastOk[k] /\ reply'[k] = reply[k] /\ now' = now
        /\ winStart' = now /\ winCount'[k] = 0
    BY DEF OpenWindow
  <2>3. 0 * Scale = 0 /\ Rps(k) * (now - now) = 0
    BY LimitTypes, RateAssumption DEF RInv, TypeOK
  <2>4. k \in known /\ ~(last[k] < now) => last[k] = now
    BY <2>1 DEF BucketOK, RInv, TypeOK
  <2>5. Burst(k) * Scale \in Nat /\ tokens[k] \in Nat
    BY LimitTypes, ProductType, RateAssumption DEF RInv, TypeOK
  <2>. QED BY <2>1, <2>2, <2>3, <2>4, <2>5 DEF BucketOK, Burst, Rps
<1>. QED BY <1>1, <1>2 DEF RInv, BucketInv, Keys

(* The invariant holds in every reachable state. *)
THEOREM RInvHolds == Spec => []RInv
<1>1. ASSUME RInv, [Next]_vars PROVE RInv'
  <2>1. ASSUME NEW c \in Clients, Admit(c) PROVE RInv'
    BY <1>1, <2>1, AdmitPreserves
  <2>2. ASSUME NEW c \in Clients, Reject(c) PROVE RInv'
    BY <1>1, <2>2, RejectPreserves
  <2>3. CASE Tick
    BY <1>1, <2>3, TickPreserves
  <2>4. CASE OpenWindow
    BY <1>1, <2>4, OpenWindowPreserves
  <2>5. CASE UNCHANGED vars
    BY <1>1, <2>5 DEF vars, RInv, TypeOK, BucketInv, BucketOK, Burst, Rps, Keys
  <2>. QED BY <1>1, <2>1, <2>2, <2>3, <2>4, <2>5 DEF Next
<1>. QED BY <1>1, InitHolds, PTL DEF Spec

(***************************************************************************)
(* The buckets of check_rate keep their types; in particular tokens never  *)
(* fall below zero, although every admission subtracts one.                *)
(***************************************************************************)
THEOREM RateTypeCorrect == Spec => []TypeOK
<1>1. RInv => TypeOK
  BY DEF RInv
<1>. QED BY <1>1, RInvHolds, PTL

(***************************************************************************)
(* check_rate admits a key at most burst + rps * t times in any t seconds. *)
(***************************************************************************)
THEOREM RateBoundHolds == Spec => []RateBound
<1>1. ASSUME RInv PROVE RateBound
  <2>1. SUFFICES ASSUME NEW k \in Keys
                 PROVE  winCount[k] * Scale
                          <= Burst(k) * Scale + Rps(k) * (now - winStart)
    BY DEF RateBound
  <2>2. winCount[k] * Scale + Refilled(k)
          <= Burst(k) * Scale + Rps(k) * (now - winStart)
    BY <1>1, RefilledIsPaidFor
  <2>3. Refilled(k) \in Nat
    BY <1>1, RefilledType DEF RInv
  <2>4. /\ winCount[k] * Scale \in Nat /\ Burst(k) * Scale \in Nat
        /\ Rps(k) * (now - winStart) \in Nat
    BY <1>1, LimitTypes, ProductType, RefillGrows, RateAssumption DEF RInv, TypeOK
  <2>. QED BY <2>2, <2>3, <2>4
<1>. QED BY <1>1, RInvHolds, PTL

(***************************************************************************)
(* check_rate turns a key away only within 1/rps seconds of admitting it.  *)
(***************************************************************************)
THEOREM NoSpuriousRejection == Spec => []RejectedOnlyWhenSpent
<1>1. ASSUME RInv PROVE RejectedOnlyWhenSpent
  <2>1. SUFFICES ASSUME NEW k \in Keys, reply[k] = "limited", Burst(k) > 0
                 PROVE  Rps(k) * (last[k] - lastOk[k]) < Scale
    BY DEF RejectedOnlyWhenSpent
  <2>2. BucketOK(k) /\ k \in known
    BY <1>1, <2>1 DEF RInv, BucketInv, BucketOK
  <2>3. /\ lastOk[k] <= last[k] /\ tokens[k] < Scale
        /\ Rps(k) * (last[k] - lastOk[k]) <= tokens[k]
    BY <2>1, <2>2 DEF BucketOK
  <2>4. Rps(k) * (last[k] - lastOk[k]) \in Nat /\ tokens[k] \in Nat
    BY <1>1, <2>3, LimitTypes, RefillGrows DEF RInv, TypeOK
  <2>. QED BY <2>3, <2>4, RateAssumption
<1>. QED BY <1>1, RInvHolds, PTL

=============================================================================
