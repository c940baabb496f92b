---------------------------- MODULE RateLimiter -----------------------------
(***************************************************************************)
(* rate_limit_middleware (server/mod.rs) and the in-memory token buckets   *)
(* it consults (rate_limit/token_bucket.rs).  The middleware derives a     *)
(* bucket key, a rate and a burst from the request; check_rate runs        *)
(* entirely under the mutex of the bucket map and reads the clock after    *)
(* taking it, so one call is one action.                                   *)
(*                                                                         *)
(* Units.  Time is in ticks of 1/Scale second and tokens are counted in    *)
(* units of 1/Scale token, so that a rate of n requests per second adds    *)
(* exactly n units per tick; the f64 arithmetic of the code is modelled as *)
(* exact.                                                                  *)
(***************************************************************************)
EXTENDS Integers

CONSTANTS
  Clients,        \* request sources, distinguished by what the code can see
  Tier,           \* the AuthTier auth_middleware attached, or NoTier
  Ip,             \* what extract_client_ip makes of the client's headers
  Tiers,          \* tiers configured in auth.tiers
  TierRps, TierBurst,
  IpRps, IpBurst, \* ip_fallback_rps, ip_fallback_burst
  Scale,          \* ticks per second
  MaxTime         \* bound on the clock

ASSUME RateAssumption ==
  /\ Scale \in Nat \ {0} /\ MaxTime \in Nat
  /\ TierRps \in [Tiers -> Nat] /\ TierBurst \in [Tiers -> Nat]
  /\ IpRps \in Nat /\ IpBurst \in Nat
  /\ DOMAIN Tier = Clients /\ DOMAIN Ip = Clients

VARIABLES
  now,                    \* Instant::now(), in ticks
  known, tokens, last,    \* the HashMap: keys present, tokens, last_refill
  reply,                  \* history: the latest answer given for each key
  lastOk,                 \* history: when each key was last admitted
  winStart, winCount      \* history: admissions of each key since winStart

vars == <<now, known, tokens, last, reply, lastOk, winStart, winCount>>

Keys == {<<"tier", t>> : t \in Tiers} \cup {<<"ip", Ip[c]>> : c \in Clients}

(* The bucket a request is charged to: its tier if it has a configured one, *)
(* else its address.                                                        *)
RateKey(c) == IF Tier[c] \in Tiers THEN <<"tier", Tier[c]>> ELSE <<"ip", Ip[c]>>

Rps(k)   == IF k[1] = "tier" THEN TierRps[k[2]] ELSE IpRps
Burst(k) == IF k[1] = "tier" THEN TierBurst[k[2]] ELSE IpBurst

TypeOK ==
  /\ now \in 0..MaxTime
  /\ known \in SUBSET Keys
  /\ tokens \in [Keys -> Nat]
  /\ last \in [Keys -> Nat]
  /\ reply \in [Keys -> {"none", "ok", "limited"}]
  /\ lastOk \in [Keys -> Nat]
  /\ winStart \in Nat
  /\ winCount \in [Keys -> Nat]

Init ==
  /\ now = 0
  /\ known = {}
  /\ tokens = [k \in Keys |-> 0]
  /\ last = [k \in Keys |-> 0]
  /\ reply = [k \in Keys |-> "none"]
  /\ lastOk = [k \in Keys |-> 0]
  /\ winStart = 0
  /\ winCount = [k \in Keys |-> 0]

Capped(k, n) == IF n > Burst(k) * Scale THEN Burst(k) * Scale ELSE n

(* Here and below, a definition marked Mutant is the next unmarked one with *)
(* a plausible slip in the code.  No specification uses it; putting it in   *)
(* the other's place shows that a property notices.                         *)

(* Mutant: the bucket fills without bound. *)
RefilledUncapped(k) ==
  IF k \in known THEN tokens[k] + Rps(k) * (now - last[k]) ELSE Burst(k) * Scale

(* Mutant: the elapsed time is truncated to seconds. *)
RefilledWholeSeconds(k) ==
  IF k \in known
  THEN Capped(k, tokens[k] + Rps(k) * (((now - last[k]) \div Scale) * Scale))
  ELSE Burst(k) * Scale

(* The bucket after or_insert (a new bucket is full) and the refill. *)
Refilled(k) ==
  IF k \in known
  THEN Capped(k, tokens[k] + Rps(k) * (now - last[k]))
  ELSE Burst(k) * Scale

Touch(k) ==
  /\ known' = known \cup {k}
  /\ last' = [last EXCEPT ![k] = now]
  /\ UNCHANGED <<now, winStart>>

(* Mutant: no check that a whole token is left. *)
AdmitUnchecked(c) ==
  LET k == RateKey(c) IN
  /\ tokens' = [tokens EXCEPT ![k] = Refilled(k) - Scale]
  /\ reply' = [reply EXCEPT ![k] = "ok"]
  /\ lastOk' = [lastOk EXCEPT ![k] = now]
  /\ winCount' = [winCount EXCEPT ![k] = @ + 1]
  /\ Touch(k)

(* check_rate returns Ok and the request goes on to the next layer... *)
Admit(c) ==
  LET k == RateKey(c) IN
  /\ Refilled(k) >= Scale
  /\ tokens' = [tokens EXCEPT ![k] = Refilled(k) - Scale]
  /\ reply' = [reply EXCEPT ![k] = "ok"]
  /\ lastOk' = [lastOk EXCEPT ![k] = now]
  /\ winCount' = [winCount EXCEPT ![k] = @ + 1]
  /\ Touch(k)

(* ...or RateLimited, answered with 429; the refill is kept. *)
Reject(c) ==
  LET k == RateKey(c) IN
  /\ Refilled(k) < Scale
  /\ tokens' = [tokens EXCEPT ![k] = Refilled(k)]
  /\ reply' = [reply EXCEPT ![k] = "limited"]
  /\ UNCHANGED <<lastOk, winCount>>
  /\ Touch(k)

Tick ==
  /\ now < MaxTime
  /\ now' = now + 1
  /\ UNCHANGED <<known, tokens, last, reply, lastOk, winStart, winCount>>

(* An observer starts counting admissions at any moment it likes. *)
OpenWindow ==
  /\ winStart' = now
  /\ winCount' = [k \in Keys |-> 0]
  /\ UNCHANGED <<now, known, tokens, last, reply, lastOk>>

Next ==
  \/ \E c \in Clients : Admit(c) \/ Reject(c)
  \/ Tick
  \/ OpenWindow

Spec == Init /\ [][Next]_vars

-----------------------------------------------------------------------------
(***************************************************************************)
(* The promise of a token bucket: in any window of time, from whatever     *)
(* moment the observer starts counting, a key is admitted at most burst    *)
(* times plus rps times the length of the window, however its requests     *)
(* interleave with refills and rejections.                                 *)
(***************************************************************************)
RateBound ==
  \A k \in Keys :
    winCount[k] * Scale <= Burst(k) * Scale + Rps(k) * (now - winStart)

(***************************************************************************)
(* No spurious 429: a key with a positive burst is turned away only if it  *)
(* was admitted less than 1/rps seconds before, however often it was       *)
(* turned away in between (a rejection must not forfeit the refill).       *)
(***************************************************************************)
RejectedOnlyWhenSpent ==
  \A k \in Keys :
    reply[k] = "limited" /\ Burst(k) > 0 =>
      Rps(k) * (last[k] - lastOk[k]) < Scale

(***************************************************************************)
(* The inductive invariant behind both: what a key was admitted for in the *)
(* window and what is left in its bucket never exceed what the window has  *)
(* paid for, and what is left is at least what has been refilled since the *)
(* latest admission.                                                       *)
(***************************************************************************)
BucketOK(k) ==
  IF k \in known
  THEN /\ last[k] <= now /\ tokens[k] <= Burst(k) * Scale
       /\ IF last[k] < winStart
          THEN winCount[k] = 0
          ELSE winCount[k] * Scale + tokens[k]
                 <= Burst(k) * Scale + Rps(k) * (last[k] - winStart)
       /\ Burst(k) > 0 => /\ lastOk[k] <= last[k]
                          /\ Rps(k) * (last[k] - lastOk[k]) <= tokens[k]
       /\ reply[k] = "limited" => tokens[k] < Scale
  ELSE winCount[k] = 0 /\ reply[k] = "none"

BucketInv == \A k \in Keys : BucketOK(k)

=============================================================================
