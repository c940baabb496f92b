------------------------------- MODULE Gateway ------------------------------
(***************************************************************************)
(* The stack that build_router (server/mod.rs) puts together, for requests *)
(* that run concurrently: auth_middleware, rate_limit_middleware, then     *)
(* proxy_handler with its cache.  KeyStore, RateLimiter and ResponseCache  *)
(* are the parts; here they share the requests and the clock, and a step   *)
(* of a request in one layer decides what it does in the next.             *)
(*                                                                         *)
(* In axum the layer added last is the outermost, so a request meets       *)
(* authentication first.  gateway_middleware and TraceLayer only log and   *)
(* cache_middleware passes everything on.  The exchange with an upstream   *)
(* is one step here and the subject of UpstreamPool.  Authentication, rate *)
(* limiting and cache are enabled; the process does not restart.           *)
(***************************************************************************)
EXTENDS Integers, FiniteSets

CONSTANTS
  Requests,                                   \* handlers of client requests
  Offers,                                     \* credentials each may present
  ApiKeys, NoKey, Unreadable, Ids, KeyId,     \* see KeyStore
  KeyTiers, Anonymous, Admins,
  Tiers, TierRps, TierBurst, IpRps, IpBurst,  \* see RateLimiter
  Scale, MaxTime,
  Addresses,                                  \* what extract_client_ip returns
  Queries, NoQuery, Slots, Slot, Ttl,         \* see ResponseCache; Ttl in ticks
  MaxEntries, MaxFlushes

VARIABLES
  rows, allow, authAt, key, entry, tier, apc, job, granted, revoked, entitled, barred,
  now, known, tokens, last, reply, lastOk, winStart, winCount,
  store, cacheAt, query, held, status, flushes, began,
  ip,           \* the address each request comes from
  passed,       \* the requests that rate_limit_middleware has let through
  charged,      \* history: the bucket each of them was charged to
  sent          \* history: exchanges with upstreams paid by each bucket

keyVars == <<rows, allow, authAt, key, entry, tier, apc, job, granted, revoked,
             entitled, barred>>
rateVars == <<known, tokens, last, reply, lastOk, winStart, winCount>>
cacheVars == <<store, cacheAt, query, held, status, flushes, began>>
layerVars == <<ip, passed, charged, sent>>
vars == <<keyVars, now, rateVars, cacheVars, layerVars>>

(* What the rate limiter can see of a request: its AuthTier and its address. *)
Sources == (KeyTiers \cup {Anonymous}) \X Addresses

K == INSTANCE KeyStore WITH
       Keys <- ApiKeys, Tiers <- KeyTiers, Clients <- Requests, pc <- authAt
R == INSTANCE RateLimiter WITH
       Clients <- Sources,
       Tier <- [c \in Sources |-> c[1]], Ip <- [c \in Sources |-> c[2]]
C == INSTANCE ResponseCache WITH Handlers <- Requests, pc <- cacheAt

ASSUME OffersAssumption == Offers \in [Requests -> SUBSET K!Credentials]
ASSUME RequestsAssumption == IsFiniteSet(Requests)
ASSUME TiersAssumption == Anonymous \notin Tiers   \* no tier has that name

(* What KeyStore, RateLimiter and ResponseCache assume of their constants. *)
ASSUME PartsAssumption ==
  /\ K!KeyAssumption /\ K!IdAssumption /\ K!TierAssumption
  /\ R!RateAssumption
  /\ C!QueryAssumption /\ C!SlotAssumption /\ C!CacheAssumption

NoBucket == <<"none", Anonymous>>

Init ==
  /\ K!Init /\ R!Init /\ C!Init
  /\ ip \in [Requests -> Addresses]
  /\ passed = {}
  /\ charged = [r \in Requests |-> NoBucket]
  /\ sent = [k \in R!Keys |-> 0]

-----------------------------------------------------------------------------
(* A request arrives from address a; a part of auth_middleware handles it. *)
Enter(r, a) ==
  /\ \E cred \in Offers[r] : K!Ask(r, cred) \/ K!AskWithoutKey(r, cred)
  /\ ip' = [ip EXCEPT ![r] = a]
  /\ UNCHANGED <<now, rateVars, cacheVars, passed, charged, sent>>

Authenticate(r) ==
  /\ \/ K!Lookup(r) \/ K!LookupFails(r)
     \/ K!Authenticate(r) \/ K!Forbid(r)
     \/ K!PassUnknown(r) \/ K!RefuseUnknown(r)
  /\ UNCHANGED <<now, rateVars, cacheVars, layerVars>>

(* next.run in auth_middleware: the request is in the layers below. *)
Authenticated(r) == authAt[r] = "served"

(* Here and below, a definition marked Mutant is the next unmarked one with *)
(* a plausible slip in the code.  No specification uses it; putting it in   *)
(* the other's place shows that a property notices.                         *)

(* Mutant: the layers are in the other order, and no AuthTier is there yet. *)
SourceByAddress(r) == <<Anonymous, ip[r]>>

(* What the limiter reads of the request: the AuthTier that auth_middleware *)
(* left in it, and the address of the client.                               *)
Source(r) == <<tier[r], ip[r]>>

(* rate_limit_middleware lets the request through, or answers 429. *)
Admit(r) ==
  /\ Authenticated(r) /\ r \notin passed
  /\ R!Admit(Source(r))
  /\ passed' = passed \cup {r}
  /\ charged' = [charged EXCEPT ![r] = R!RateKey(Source(r))]
  /\ UNCHANGED <<keyVars, cacheVars, ip, sent>>

Limit(r) ==
  /\ Authenticated(r) /\ r \notin passed
  /\ R!Reject(Source(r))
  /\ K!Finish(r)
  /\ UNCHANGED <<cacheVars, layerVars>>

(* The request leaves the stack: every layer returns. *)
Return(r) ==
  /\ K!Finish(r)
  /\ passed' = passed \ {r}
  /\ charged' = [charged EXCEPT ![r] = NoBucket]
  /\ UNCHANGED <<now, rateVars, ip>>

(* GET /health, or a body that is no JSON-RPC request: 400. *)
AnswerAtOnce(r) ==
  /\ r \in passed /\ cacheAt[r] = "idle"
  /\ Return(r)
  /\ UNCHANGED <<cacheVars, sent>>

Handle(r) ==
  /\ r \in passed
  /\ \/ \E q \in Queries : C!Ask(r, q)
     \/ C!Lookup(r) \/ C!Miss(r) \/ C!Drop(r)
  /\ UNCHANGED <<keyVars, rateVars, layerVars>>

(* The exchange with an upstream, paid by the bucket of the request. *)
Send(r) == sent' = [sent EXCEPT ![charged[r]] = @ + 1]

Exchange(r) ==
  /\ r \in passed
  /\ C!Fetched(r)
  /\ Send(r)
  /\ UNCHANGED <<keyVars, rateVars, ip, passed, charged>>

(* Mutant: the exchange is tried again. *)
ExchangeRetries(r) ==
  /\ cacheAt[r] = "fetch"
  /\ Send(r)
  /\ UNCHANGED <<keyVars, now, rateVars, cacheVars, ip, passed, charged>>

ExchangeFails(r) ==
  /\ C!NotFetched(r)
  /\ Send(r)
  /\ Return(r)

(* Mutant: an answer from the cache is free, its token is given back. *)
AnswerFromCacheFree(r) ==
  /\ C!Hit(r) /\ K!Finish(r)
  /\ tokens' = [tokens EXCEPT ![charged[r]] = @ + Scale]
  /\ passed' = passed \ {r}
  /\ charged' = [charged EXCEPT ![r] = NoBucket]
  /\ UNCHANGED <<now, known, last, reply, lastOk, winStart, winCount, ip, sent>>

AnswerFromCache(r) == C!Hit(r) /\ Return(r) /\ UNCHANGED sent
AnswerFetched(r)   == C!Store(r) /\ Return(r) /\ UNCHANGED sent

Request(r) ==
  \/ \E a \in Addresses : Enter(r, a)
  \/ Authenticate(r)
  \/ Admit(r) \/ Limit(r)
  \/ AnswerAtOnce(r) \/ Handle(r)
  \/ Exchange(r) \/ ExchangeFails(r)
  \/ AnswerFromCache(r) \/ AnswerFetched(r)

(* The admin server has its own router without these layers. *)
Administer ==
  \/ /\ \E a \in Admins : K!Admin(a)
     /\ UNCHANGED <<now, rateVars, cacheVars, layerVars>>
  \/ /\ C!Flush
     /\ UNCHANGED <<keyVars, rateVars, layerVars>>

Environment ==
  \/ /\ \E s \in Slots : C!Evict(s)
     /\ UNCHANGED <<keyVars, rateVars, layerVars>>
  \/ /\ R!Tick
     /\ UNCHANGED <<keyVars, cacheVars, layerVars>>

Next == (\E r \in Requests : Request(r)) \/ Administer \/ Environment

Spec == Init /\ [][Next]_vars

-----------------------------------------------------------------------------
(***************************************************************************)
(* What the layers do together is, for each of them, what its own module   *)
(* allows: every property of KeyStore, RateLimiter and ResponseCache holds *)
(* of the gateway.                                                         *)
(***************************************************************************)
PartsAsSpecified == K!Spec /\ R!Spec /\ C!Spec

(***************************************************************************)
(* A request in proxy_handler, whether it will be answered from the cache  *)
(* or by an upstream, was charged to the bucket of the tier that the key   *)
(* table gives its key, and to its address only if it has no such tier.    *)
(***************************************************************************)
ChargedToItsTier ==
  \A r \in passed :
    charged[r] = IF /\ key[r] \in ApiKeys
                    /\ K!Holds(key[r])
                    /\ entry[r].key_hash = key[r]
                    /\ rows[KeyId[key[r]]].tier \in Tiers
                 THEN <<"tier", rows[KeyId[key[r]]].tier>> ELSE <<"ip", ip[r]>>

(***************************************************************************)
(* A request whose key was revoked before it began gets no token, no       *)
(* cached answer and no upstream.                                          *)
(***************************************************************************)
NothingForTheRevoked == passed \cap barred = {}

(***************************************************************************)
(* The rate limit protects the upstreams: the exchanges that the requests  *)
(* of one bucket have caused are never more than its burst and its rate    *)
(* allow, whatever the cache answered or forgot in between.                *)
(***************************************************************************)
UpstreamLoadBound ==
  \A k \in R!Keys : sent[k] * Scale <= R!Burst(k) * Scale + R!Rps(k) * now

=============================================================================
