--------------------------- MODULE GatewayProofs ----------------------------
(***************************************************************************)
(* Proofs about Gateway, for any number of concurrent requests, keys,      *)
(* tiers, addresses and queries.                                           *)
(***************************************************************************)
EXTENDS Gateway, FiniteSetTheorems, TLAPS

(* The proofs about the parts, for the constants and variables the gateway  *)
(* gives them.                                                              *)
KP == INSTANCE KeyStoreProofs WITH
        Keys <- ApiKeys, Tiers <- KeyTiers, Clients <- Requests, pc <- authAt
RP == INSTANCE RateLimiterProofs WITH
        Clients <- Sources,
        Tier <- [c \in Sources |-> c[1]], Ip <- [c \in Sources |-> c[2]]
CP == INSTANCE ResponseCacheProofs WITH Handlers <- Requests, pc <- cacheAt

-----------------------------------------------------------------------------
(***************************************************************************)
(* Every step of the gateway is a step of the key store, or leaves it      *)
(* alone.                                                                  *)
(***************************************************************************)
LEMMA KeyStep == [Next]_vars => [K!Next]_(K!vars)
<1>. SUFFICES ASSUME [Next]_vars PROVE K!Next \/ UNCHANGED K!vars
  OBVIOUS
<1>. USE DEF K!vars, K!clientVars, keyVars
<1>1. ASSUME NEW r \in Requests, Request(r) PROVE K!Client(r) \/ UNCHANGED K!vars
  <2>1. ASSUME NEW a \in Addresses, Enter(r, a) PROVE K!Client(r)
    BY <2>1, OffersAssumption DEF Enter, K!Client
  <2>2. CASE Authenticate(r)
    BY <2>2 DEF Authenticate, K!Client
  <2>3. CASE Limit(r) \/ AnswerAtOnce(r) \/ ExchangeFails(r) \/ AnswerFromCache(r)
             \/ AnswerFetched(r)
    BY <2>3 DEF Limit, AnswerAtOnce, ExchangeFails, AnswerFromCache, AnswerFetched,
       Return, K!Client
  <2>4. CASE Admit(r) \/ Handle(r) \/ Exchange(r)
    BY <2>4 DEF Admit, Handle, Exchange
  <2>. QED BY <1>1, <2>1, <2>2, <2>3, <2>4 DEF Request
<1>2. CASE Administer
  BY <1>2 DEF Administer, K!Next
<1>3. CASE Environment
  BY <1>3 DEF Environment
<1>4. CASE UNCHANGED vars
  BY <1>4 DEF vars
<1>. QED BY <1>1, <1>2, <1>3, <1>4 DEF Next, K!Next

(* The same for the cache. *)
LEMMA CacheStep == [Next]_vars => [C!Next]_(C!vars)
<1>. SUFFICES ASSUME [Next]_vars PROVE C!Next \/ UNCHANGED C!vars
  OBVIOUS
<1>. USE DEF C!vars, cacheVars
<1>1. ASSUME NEW r \in Requests, Request(r) PROVE C!Handle(r) \/ UNCHANGED C!vars
  <2>1. ASSUME NEW a \in Addresses, Enter(r, a) PROVE UNCHANGED C!vars
    BY <2>1 DEF Enter
  <2>2. CASE Authenticate(r) \/ AnswerAtOnce(r)
    BY <2>2 DEF Authenticate, AnswerAtOnce, Return
  <2>3. CASE Admit(r) \/ Limit(r)
    BY <2>3 DEF Admit, Limit, R!Admit, R!Reject, R!Touch
  <2>4. CASE Handle(r) \/ Exchange(r)
    BY <2>4 DEF Handle, Exchange, C!Handle
  <2>5. CASE ExchangeFails(r) \/ AnswerFromCache(r) \/ AnswerFetched(r)
    BY <2>5 DEF ExchangeFails, AnswerFromCache, AnswerFetched, C!Handle
  <2>. QED BY <1>1, <2>1, <2>2, <2>3, <2>4, <2>5 DEF Request
<1>2. CASE Administer
  BY <1>2 DEF Administer, C!Next
<1>3. CASE Environment
  <2>1. CASE R!Tick /\ UNCHANGED cacheVars
    BY <2>1 DEF R!Tick, C!Tick, C!Next
  <2>2. CASE \E s \in Slots : C!Evict(s)
    BY <2>2 DEF C!Next
  <2>. QED BY <1>3, <2>1, <2>2 DEF Environment
<1>4. CASE UNCHANGED vars
  BY <1>4 DEF vars
<1>. QED BY <1>1, <1>2, <1>3, <1>4 DEF Next, C!Next

(* The same for the limiter, which sees only what Source makes of a request. *)
LEMMA RateStep ==
  ASSUME [Next]_vars, \A r \in Requests : Source(r) \in Sources
  PROVE  [R!Next]_(R!vars)
<1>. SUFFICES R!Next \/ UNCHANGED R!vars
  OBVIOUS
<1>. USE DEF R!vars, rateVars
<1>1. ASSUME NEW r \in Requests, Request(r) PROVE R!Next \/ UNCHANGED R!vars
  <2>1. ASSUME NEW a \in Addresses, Enter(r, a) PROVE UNCHANGED R!vars
    BY <2>1 DEF Enter
  <2>2. CASE Authenticate(r) \/ AnswerAtOnce(r)
    BY <2>2 DEF Authenticate, AnswerAtOnce, Return
  <2>3. CASE Admit(r) \/ Limit(r)
    BY <2>3 DEF Admit, Limit, R!Next
  <2>4. CASE Handle(r) \/ Exchange(r)
    BY <2>4 DEF Handle, Exchange, C!Ask, C!Lookup, C!Miss, C!Drop, C!Fetched
  <2>5. CASE ExchangeFails(r) \/ AnswerFromCache(r) \/ AnswerFetched(r)
    BY <2>5 DEF ExchangeFails, AnswerFromCache, AnswerFetched, Return
  <2>. QED BY <1>1, <2>1, <2>2, <2>3, <2>4, <2>5 DEF Request
<1>2. CASE Administer
  BY <1>2 DEF Administer, C!Flush
<1>3. CASE Environment
  BY <1>3 DEF Environment, C!Evict, R!Next
<1>4. CASE UNCHANGED vars
  BY <1>4 DEF vars
<1>. QED BY <1>1, <1>2, <1>3, <1>4 DEF Next

-----------------------------------------------------------------------------
(* The proofs are about the very specifications that Gateway instantiates. *)
LEMMA SameKeyStore == K!Spec => KP!Spec
BY DEF K!Spec, KP!Spec, K!Init, KP!Init, K!Next, KP!Next, K!vars, KP!vars,
   K!clientVars, KP!clientVars, K!Client, KP!Client, K!Admin, KP!Admin, K!Restart,
   KP!Restart, K!Ask, KP!Ask, K!AskWithoutKey, KP!AskWithoutKey, K!Lookup,
   KP!Lookup, K!LookupFails, KP!LookupFails, K!Authenticate, KP!Authenticate,
   K!Forbid, KP!Forbid, K!PassUnknown, KP!PassUnknown, K!RefuseUnknown,
   KP!RefuseUnknown, K!Finish, KP!Finish, K!AskCreate, KP!AskCreate, K!Revoke,
   KP!Revoke, K!Insert, KP!Insert, K!InsertFails, KP!InsertFails, K!ReplyCreated,
   KP!ReplyCreated, K!ReplyRevoked, KP!ReplyRevoked, K!Leave, KP!Leave,
   K!OnlyClient, KP!OnlyClient, K!OnlyAdmin, KP!OnlyAdmin, K!Idle, KP!Idle,
   K!NewRow, KP!NewRow, K!Present, KP!Present, K!NoRow, KP!NoRow, K!NoJob,
   KP!NoJob, K!ExtractApiKey, KP!ExtractApiKey, K!Credentials, KP!Credentials

LEMMA SameLimiter == R!Spec => RP!Spec
BY DEF R!Spec, RP!Spec, R!Init, RP!Init, R!Next, RP!Next, R!vars, RP!vars, R!Keys,
   RP!Keys, R!RateKey, RP!RateKey, R!Rps, RP!Rps, R!Burst, RP!Burst, R!Capped,
   RP!Capped, R!Refilled, RP!Refilled, R!Touch, RP!Touch, R!Admit, RP!Admit,
   R!Reject, RP!Reject, R!Tick, RP!Tick, R!OpenWindow, RP!OpenWindow

LEMMA SameCache == C!Spec => CP!Spec
BY DEF C!Spec, CP!Spec, C!Init, CP!Init, C!Next, CP!Next, C!vars, CP!vars,
   C!Entry, CP!Entry, C!NoEntry, CP!NoEntry, C!Present, CP!Present, C!Cacheable,
   CP!Cacheable, C!Live, CP!Live, C!Leave, CP!Leave, C!Ask, CP!Ask, C!Lookup,
   CP!Lookup, C!Hit, CP!Hit, C!Miss, CP!Miss, C!Drop, CP!Drop, C!Fetched,
   CP!Fetched, C!NotFetched, CP!NotFetched, C!NewEntry, CP!NewEntry, C!Store,
   CP!Store, C!Flush, CP!Flush, C!Evict, CP!Evict, C!Tick, CP!Tick, C!Handle,
   CP!Handle, C!Cardinality, CP!Cardinality

(* The gateway uses the key store as specified, so its invariant holds. *)
LEMMA KeysHold == Spec => K!Spec /\ []KP!KInv
<1>1. Init => K!Init
  BY DEF Init
<1>2. Spec => K!Spec
  BY <1>1, KeyStep, PTL DEF Spec, K!Spec
<1>3. KP!Spec => []KP!KInv
  BY KP!KInvHolds, PartsAssumption
<1>. QED BY <1>2, <1>3, SameKeyStore, PTL

(* Where requests come from is an address. *)
IpOK == ip \in [Requests -> Addresses]

LEMMA IpHolds == Spec => []IpOK
<1>1. Init => IpOK
  BY DEF Init, IpOK
<1>2. IpOK /\ [Next]_vars => IpOK'
  <2>. SUFFICES ASSUME IpOK, [Next]_vars PROVE IpOK'
    OBVIOUS
  <2>. USE DEF IpOK, layerVars
  <2>1. ASSUME NEW r \in Requests, Request(r) PROVE IpOK'
    <3>1. ASSUME NEW a \in Addresses, Enter(r, a) PROVE IpOK'
      BY <3>1 DEF Enter
    <3>2. CASE ~\E a \in Addresses : Enter(r, a)
      BY <2>1, <3>2 DEF Request, Authenticate, Admit, Limit, AnswerAtOnce, Handle,
         Exchange, ExchangeFails, AnswerFromCache, AnswerFetched, Return
    <3>. QED BY <3>1, <3>2
  <2>2. CASE Administer \/ Environment \/ UNCHANGED vars
    BY <2>2 DEF Administer, Environment, vars
  <2>. QED BY <2>1, <2>2 DEF Next
<1>. QED BY <1>1, <1>2, PTL DEF Spec

(* So the limiter is used as specified too... *)
LEMMA SourcesSeen == KP!KInv /\ IpOK => \A r \in Requests : Source(r) \in Sources
BY DEF KP!KInv, KP!TypeOK, IpOK, Source, Sources

LEMMA RatesHold == Spec => R!Spec /\ []RP!RInv
<1>1. Init => R!Init
  BY DEF Init
<1>2. KP!KInv /\ IpOK /\ [Next]_vars => [R!Next]_(R!vars)
  BY SourcesSeen, RateStep
<1>3. Spec => R!Spec
  BY <1>1, <1>2, KeysHold, IpHolds, PTL DEF Spec, R!Spec
<1>4. RP!Spec => []RP!RInv
  BY RP!RInvHolds, PartsAssumption
<1>. QED BY <1>3, <1>4, SameLimiter, PTL

(* ...and so is the cache. *)
LEMMA CacheHolds == Spec => C!Spec /\ [](CP!TypeOK /\ CP!EntriesBelong)
<1>1. Init => C!Init
  BY DEF Init
<1>2. Spec => C!Spec
  BY <1>1, CacheStep, PTL DEF Spec, C!Spec
<1>3. CP!Spec => [](CP!TypeOK /\ CP!EntriesBelong)
  BY CP!CacheIsSound, PartsAssumption
<1>. QED BY <1>2, <1>3, SameCache, PTL

(***************************************************************************)
(* The layers that build_router stacks do to each other nothing that one   *)
(* of them alone would not allow: all that is proved of KeyStore,          *)
(* RateLimiter and ResponseCache is true of the gateway.                   *)
(***************************************************************************)
THEOREM GatewayParts == Spec => PartsAsSpecified
BY KeysHold, RatesHold, CacheHolds, PTL DEF PartsAsSpecified

-----------------------------------------------------------------------------
(***************************************************************************)
(* What the gateway adds to its parts.  A request is in proxy_handler only *)
(* after both layers above it, and keeps the AuthTier and the bucket that  *)
(* they settled until it leaves; and the bucket has been charged for every *)
(* request that may still go to an upstream.  None of the three properties *)
(* of Gateway is inductive without these.                                  *)
(***************************************************************************)
LayerTypeOK ==
  /\ passed \in SUBSET Requests
  /\ charged \in [Requests -> R!Keys \cup {NoBucket}]
  /\ sent \in [R!Keys -> Nat]
  /\ winStart = 0                  \* no observer opens another window

InLayers(r) ==
  /\ cacheAt[r] # "idle" => r \in passed
  /\ r \in passed => authAt[r] = "served" /\ charged[r] = R!RateKey(Source(r))

(* The row a request holds is the one of its key, and gave it its tier. *)
EntryOK(r) ==
  /\ authAt[r] \in {"idle", "lookup"} => ~K!Present(entry[r])
  /\ K!Present(entry[r]) => key[r] \in ApiKeys /\ entry[r].key_hash = key[r]
  /\ authAt[r] = "served" => tier[r] = entry[r].tier

(* The requests charged to bucket k that may still cause an exchange. *)
Unsent(k) == {r \in passed : charged[r] = k /\ cacheAt[r] # "store"}

PaidFor(k) == sent[k] + Cardinality(Unsent(k)) <= winCount[k]

GInv ==
  /\ LayerTypeOK
  /\ \A r \in Requests : InLayers(r) /\ EntryOK(r)
  /\ \A k \in R!Keys : PaidFor(k)

(* What holds of the parts, by the proofs about them. *)
PartsInv == KP!KInv /\ RP!RInv /\ CP!TypeOK /\ IpOK

LEMMA PartsHold == Spec => []PartsInv
BY KeysHold, RatesHold, CacheHolds, IpHolds, PTL DEF PartsInv

(* What is needed of it, in the names that Gateway uses. *)
PartTypeOK ==
  /\ authAt \in [Requests -> {"idle", "lookup", "decide", "served"}]
  /\ key \in [Requests -> ApiKeys \cup {NoKey}]
  /\ entry \in [Requests -> K!Row]
  /\ tier \in [Requests -> KeyTiers \cup {Anonymous}]
  /\ ip \in [Requests -> Addresses]
  /\ cacheAt \in [Requests -> C!ControlPoints]
  /\ now \in Nat /\ winCount \in [R!Keys -> Nat]

LEMMA PartTypes == PartsInv => PartTypeOK
<1>. SUFFICES ASSUME PartsInv PROVE PartTypeOK
  OBVIOUS
<1>1. /\ authAt \in [Requests -> {"idle", "lookup", "decide", "served"}]
      /\ key \in [Requests -> ApiKeys \cup {NoKey}]
      /\ entry \in [Requests -> K!Row]
      /\ tier \in [Requests -> KeyTiers \cup {Anonymous}]
  BY DEF PartsInv, KP!KInv, KP!TypeOK, KP!Row, K!Row
<1>2. ip \in [Requests -> Addresses] /\ cacheAt \in [Requests -> C!ControlPoints]
  BY DEF PartsInv, IpOK, CP!TypeOK, CP!ControlPoints, C!ControlPoints
<1>3. now \in Nat /\ winCount \in [R!Keys -> Nat]
  BY PartsAssumption DEF PartsInv, RP!RInv, RP!TypeOK, RP!Keys, R!Keys, R!RateAssumption
<1>. QED BY <1>1, <1>2, <1>3 DEF PartTypeOK

(* Until it is served a request has no tier, and it is looked up by a key. *)
LEMMA BeforeServed ==
  ASSUME PartsInv, NEW r \in Requests
  PROVE  /\ authAt[r] # "served" => tier[r] = Anonymous
         /\ authAt[r] = "lookup" => key[r] \in ApiKeys
BY DEF PartsInv, KP!KInv, KP!TypeOK, KP!ClientOK

(* The bucket of a request is one of the limiter's. *)
LEMMA BucketType ==
  ASSUME PartTypeOK, NEW r \in Requests
  PROVE  R!RateKey(Source(r)) \in R!Keys
BY DEF PartTypeOK, Source, Sources, R!RateKey, R!Keys

(* A step of one request leaves the others where they are. *)
LEMMA OthersStay ==
  ASSUME PartTypeOK, LayerTypeOK, NEW r \in Requests, Request(r),
         NEW s \in Requests, s # r
  PROVE  /\ authAt'[s] = authAt[s] /\ key'[s] = key[s] /\ entry'[s] = entry[s]
         /\ tier'[s] = tier[s] /\ ip'[s] = ip[s]
         /\ cacheAt'[s] = cacheAt[s]
         /\ s \in passed' <=> s \in passed
         /\ charged'[s] = charged[s]
<1>. USE DEF PartTypeOK, LayerTypeOK, layerVars, keyVars, cacheVars
<1>1. ASSUME NEW a \in Addresses, Enter(r, a)
      PROVE  /\ authAt'[s] = authAt[s] /\ key'[s] = key[s] /\ entry'[s] = entry[s]
             /\ tier'[s] = tier[s] /\ ip'[s] = ip[s]
             /\ UNCHANGED <<cacheAt, passed, charged>>
  BY <1>1 DEF Enter, K!Ask, K!AskWithoutKey
<1>2. CASE Authenticate(r)
  BY <1>2 DEF Authenticate, K!Lookup, K!LookupFails, K!Authenticate, K!Forbid,
     K!PassUnknown, K!RefuseUnknown, K!Leave
<1>3. CASE Admit(r) \/ Limit(r)
  BY <1>3 DEF Admit, Limit, K!Finish, K!Leave
<1>4. CASE AnswerAtOnce(r)
  BY <1>4 DEF AnswerAtOnce, Return, K!Finish, K!Leave
<1>5. CASE Handle(r) \/ Exchange(r)
  BY <1>5 DEF Handle, Exchange, C!Ask, C!Lookup, C!Miss, C!Drop, C!Fetched
<1>6. CASE ExchangeFails(r) \/ AnswerFromCache(r) \/ AnswerFetched(r)
  BY <1>6 DEF ExchangeFails, AnswerFromCache, AnswerFetched, Return, K!Finish,
     K!Leave, C!NotFetched, C!Hit, C!Store, C!Leave
<1>. QED BY <1>1, <1>2, <1>3, <1>4, <1>5, <1>6 DEF Request

(* The admin server, the clock and the evictions leave all of them there. *)
LEMMA AllStay ==
  ASSUME Administer \/ Environment \/ UNCHANGED vars
  PROVE  UNCHANGED <<authAt, key, entry, tier, ip, cacheAt, passed, charged, sent,
                     winStart, winCount>>
<1>. USE DEF layerVars, keyVars, cacheVars, rateVars
<1>1. CASE Administer
  BY <1>1 DEF Administer, K!Admin, K!AskCreate, K!Revoke, K!Insert, K!InsertFails,
     K!ReplyCreated, K!ReplyRevoked, K!OnlyAdmin, K!clientVars, C!Flush
<1>2. CASE Environment
  BY <1>2 DEF Environment, C!Evict, R!Tick
<1>3. CASE UNCHANGED vars
  BY <1>3 DEF vars
<1>. QED BY <1>1, <1>2, <1>3

-----------------------------------------------------------------------------
(* The invariant holds when the process starts. *)
LEMMA InitGInv == Init => GInv
<1>. SUFFICES ASSUME Init PROVE GInv
  OBVIOUS
<1>1. LayerTypeOK
  BY DEF Init, R!Init, LayerTypeOK
<1>2. ASSUME NEW r \in Requests PROVE InLayers(r) /\ EntryOK(r)
  BY DEF Init, K!Init, C!Init, InLayers, EntryOK, K!Present
<1>3. ASSUME NEW k \in R!Keys PROVE PaidFor(k)
  <2>1. Unsent(k) = {}
    BY DEF Init, Unsent
  <2>. QED BY <2>1, FS_EmptySet DEF Init, R!Init, PaidFor
<1>. QED BY <1>1, <1>2, <1>3 DEF GInv

(* Its types: an exchange is paid by a bucket, not by NoBucket. *)
LEMMA SendType ==
  ASSUME sent \in [R!Keys -> Nat], NEW r, charged[r] \in R!Keys, Send(r)
  PROVE  sent' \in [R!Keys -> Nat]
BY DEF Send

LEMMA LayerTypeStep ==
  ASSUME PartTypeOK, LayerTypeOK, \A r \in Requests : InLayers(r), [Next]_vars
  PROVE  LayerTypeOK'
<1>. USE DEF LayerTypeOK, layerVars, rateVars
<1>0. LayerTypeOK' <=> /\ passed' \in SUBSET Requests
                       /\ charged' \in [Requests -> R!Keys \cup {NoBucket}]
                       /\ sent' \in [R!Keys -> Nat]
                       /\ winStart' = 0
  BY DEF R!Keys, NoBucket
<1>1. ASSUME NEW r \in Requests, Request(r) PROVE LayerTypeOK'
  <2>1. ASSUME NEW a \in Addresses, Enter(r, a) PROVE LayerTypeOK'
    BY <1>0, <2>1 DEF Enter
  <2>2. CASE Authenticate(r) \/ Handle(r)
    BY <1>0, <2>2 DEF Authenticate, Handle
  <2>3. CASE Admit(r)
    BY <1>0, <2>3, BucketType DEF Admit, R!Admit, R!Touch
  <2>4. CASE Limit(r)
    BY <1>0, <2>4 DEF Limit, R!Reject, R!Touch
  <2>5. CASE AnswerAtOnce(r) \/ AnswerFromCache(r) \/ AnswerFetched(r)
    BY <1>0, <2>5 DEF AnswerAtOnce, AnswerFromCache, AnswerFetched, Return
  <2>6. CASE Exchange(r)
    <3>1. Send(r) /\ UNCHANGED <<winStart, passed, charged>>
      BY <2>6 DEF Exchange
    <3>2. charged[r] \in R!Keys
      BY <2>6, BucketType DEF Exchange, InLayers
    <3>. QED BY <1>0, <3>1, <3>2, SendType
  <2>7. CASE ExchangeFails(r)
    <3>1. Send(r) /\ UNCHANGED winStart
      BY <2>7 DEF ExchangeFails, Return
    <3>2. passed' = passed \ {r} /\ charged' = [charged EXCEPT ![r] = NoBucket]
      BY <2>7 DEF ExchangeFails, Return
    <3>3. charged[r] \in R!Keys
      BY <2>7, BucketType DEF ExchangeFails, C!NotFetched, InLayers
    <3>. QED BY <1>0, <3>1, <3>2, <3>3, SendType
  <2>. QED BY <1>1, <2>1, <2>2, <2>3, <2>4, <2>5, <2>6, <2>7 DEF Request
<1>2. CASE Administer \/ Environment \/ UNCHANGED vars
  BY <1>0, <1>2, AllStay
<1>. QED BY <1>1, <1>2 DEF Next

(* No request gets below a layer, or stays below one, out of turn. *)
LEMMA InLayersStep ==
  ASSUME PartTypeOK, LayerTypeOK, \A r \in Requests : InLayers(r), [Next]_vars,
         NEW s \in Requests
  PROVE  InLayers(s)'
<1>0. ASSUME authAt'[s] = authAt[s], tier'[s] = tier[s], ip'[s] = ip[s],
             cacheAt'[s] = cacheAt[s], s \in passed' <=> s \in passed,
             charged'[s] = charged[s]
      PROVE  InLayers(s)'
  BY <1>0 DEF InLayers, Source, R!RateKey
<1>1. ASSUME Request(s) PROVE InLayers(s)'
  <2>. USE DEF PartTypeOK, LayerTypeOK, layerVars, keyVars, cacheVars
  <2>1. ASSUME NEW a \in Addresses, Enter(s, a) PROVE InLayers(s)'
    <3>1. authAt[s] = "idle" /\ UNCHANGED <<cacheAt, passed>>
      BY <2>1 DEF Enter, K!Ask, K!AskWithoutKey
    <3>. QED BY <3>1 DEF InLayers
  <2>2. CASE Authenticate(s)
    <3>1. authAt[s] # "served" /\ UNCHANGED <<cacheAt, passed>>
      BY <2>2 DEF Authenticate, K!Lookup, K!LookupFails, K!Authenticate, K!Forbid,
         K!PassUnknown, K!RefuseUnknown
    <3>. QED BY <3>1 DEF InLayers
  <2>3. CASE Admit(s)
    BY <2>3 DEF Admit, Authenticated, InLayers, Source, R!RateKey
  <2>4. CASE Limit(s)
    BY <2>4 DEF Limit, InLayers
  <2>5. CASE AnswerAtOnce(s)
    BY <2>5 DEF AnswerAtOnce, Return, InLayers
  <2>6. CASE Handle(s) \/ Exchange(s)
    BY <2>6 DEF Handle, Exchange, InLayers, Source, R!RateKey
  <2>7. CASE ExchangeFails(s) \/ AnswerFromCache(s) \/ AnswerFetched(s)
    BY <2>7 DEF ExchangeFails, AnswerFromCache, AnswerFetched, Return, C!NotFetched,
       C!Hit, C!Store, C!Leave, InLayers
  <2>. QED BY <1>1, <2>1, <2>2, <2>3, <2>4, <2>5, <2>6, <2>7 DEF Request
<1>2. ASSUME NEW r \in Requests, Request(r), r # s PROVE InLayers(s)'
  BY <1>0, <1>2, OthersStay
<1>3. CASE Administer \/ Environment \/ UNCHANGED vars
  BY <1>0, <1>3, AllStay
<1>. QED BY <1>1, <1>2, <1>3 DEF Next

(* The row that lookup returned goes with the key, and with the tier. *)
LEMMA EntryStep ==
  ASSUME PartsInv, LayerTypeOK, \A r \in Requests : EntryOK(r), [Next]_vars,
         NEW s \in Requests
  PROVE  EntryOK(s)'
<1>0. ASSUME authAt'[s] = authAt[s], key'[s] = key[s], entry'[s] = entry[s],
             tier'[s] = tier[s]
      PROVE  EntryOK(s)'
  BY <1>0 DEF EntryOK, K!Present, K!NoRow
<1>t. PartTypeOK
  BY PartTypes
<1>1. ASSUME Request(s) PROVE EntryOK(s)'
  <2>. USE <1>t DEF PartTypeOK, keyVars
  <2>a. /\ authAt[s] # "served" => tier[s] = Anonymous
        /\ authAt[s] = "lookup" => key[s] \in ApiKeys
    BY BeforeServed
  <2>b. K!NoRow.tier = Anonymous /\ ~K!Present(K!NoRow)
    BY DEF K!NoRow, K!Present
  <2>1. ASSUME NEW a \in Addresses, Enter(s, a) PROVE EntryOK(s)'
    <3>1. authAt[s] = "idle" /\ UNCHANGED <<entry, tier>>
      BY <2>1 DEF Enter, K!Ask, K!AskWithoutKey
    <3>2. authAt'[s] \in {"lookup", "served"}
      BY <2>1 DEF Enter, K!Ask, K!AskWithoutKey
    <3>. QED BY <3>1, <3>2, <2>a, <2>b DEF EntryOK, K!Present, K!NoRow
  <2>2. CASE Authenticate(s)
    <3>1. CASE K!Lookup(s)
      BY <2>a, <2>b, <3>1 DEF K!Lookup, EntryOK, K!Present, K!NoRow
    <3>2. CASE K!LookupFails(s) \/ K!Forbid(s) \/ K!RefuseUnknown(s)
      BY <3>2 DEF K!LookupFails, K!Forbid, K!RefuseUnknown, K!Leave, EntryOK,
         K!Present, K!NoRow
    <3>3. CASE K!Authenticate(s)
      BY <3>3 DEF K!Authenticate, EntryOK, K!Present, K!NoRow
    <3>4. CASE K!PassUnknown(s)
      BY <2>a, <3>4 DEF K!PassUnknown, EntryOK, K!Present, K!NoRow
    <3>. QED BY <2>2, <3>1, <3>2, <3>3, <3>4 DEF Authenticate
  <2>3. CASE Admit(s) \/ Handle(s) \/ Exchange(s)
    BY <1>0, <2>3 DEF Admit, Handle, Exchange
  <2>4. CASE K!Finish(s)
    BY <2>4 DEF K!Finish, K!Leave, EntryOK, K!Present, K!NoRow
  <2>. QED BY <1>1, <2>1, <2>2, <2>3, <2>4 DEF Request, Limit, AnswerAtOnce,
     ExchangeFails, AnswerFromCache, AnswerFetched, Return
<1>2. ASSUME NEW r \in Requests, Request(r), r # s PROVE EntryOK(s)'
  BY <1>0, <1>t, <1>2, OthersStay
<1>3. CASE Administer \/ Environment \/ UNCHANGED vars
  BY <1>0, <1>3, AllStay
<1>. QED BY <1>1, <1>2, <1>3 DEF Next

-----------------------------------------------------------------------------
(* What is counted is finite. *)
LEMMA UnsentFinite ==
  ASSUME LayerTypeOK, NEW k
  PROVE  IsFiniteSet(Unsent(k)) /\ Cardinality(Unsent(k)) \in Nat
<1>1. Unsent(k) \subseteq Requests
  BY DEF LayerTypeOK, Unsent
<1>2. IsFiniteSet(Unsent(k))
  BY <1>1, RequestsAssumption, FS_Subset
<1>. QED BY <1>2, FS_CardinalityType

(* A bucket pays for no more than before if no request joins it. *)
LEMMA PaidKept ==
  ASSUME PartTypeOK, LayerTypeOK, LayerTypeOK', NEW k \in R!Keys, PaidFor(k),
         Unsent(k)' \subseteq Unsent(k), sent'[k] = sent[k],
         winCount'[k] = winCount[k]
  PROVE  PaidFor(k)'
<1>1. /\ IsFiniteSet(Unsent(k)) /\ Cardinality(Unsent(k)) \in Nat
      /\ Cardinality(Unsent(k)') \in Nat
      /\ Cardinality(Unsent(k)') <= Cardinality(Unsent(k))
  <2>1. IsFiniteSet(Unsent(k)) /\ Cardinality(Unsent(k)) \in Nat
    BY UnsentFinite
  <2>2. IsFiniteSet(Unsent(k)') /\ Cardinality(Unsent(k)') <= Cardinality(Unsent(k))
    BY <2>1, FS_Subset
  <2>. QED BY <2>1, <2>2, FS_CardinalityType
<1>2. sent[k] \in Nat /\ winCount[k] \in Nat
  BY DEF PartTypeOK, LayerTypeOK
<1>. QED BY <1>1, <1>2 DEF PaidFor

(* A step of request r moves nobody else in or out of a bucket's account. *)
LEMMA OthersUnsent ==
  ASSUME PartTypeOK, LayerTypeOK, LayerTypeOK', NEW r \in Requests, Request(r), NEW k
  PROVE  Unsent(k)' \ {r} = Unsent(k) \ {r}
<1>1. passed \subseteq Requests /\ passed' \subseteq Requests
  BY DEF LayerTypeOK
<1>2. ASSUME NEW s \in Requests, s # r
      PROVE  /\ s \in passed' <=> s \in passed
             /\ charged'[s] = charged[s] /\ cacheAt'[s] = cacheAt[s]
  BY <1>2, OthersStay
<1>. QED BY <1>1, <1>2 DEF Unsent

(* rate_limit_middleware charges the bucket for the request it lets in. *)
LEMMA AdmitPaid ==
  ASSUME PartTypeOK, LayerTypeOK, LayerTypeOK', NEW r \in Requests, InLayers(r),
         Admit(r), NEW k \in R!Keys, PaidFor(k)
  PROVE  PaidFor(k)'
<1>. USE DEF PartTypeOK, LayerTypeOK
<1>1. /\ r \notin passed /\ passed' = passed \cup {r}
      /\ charged' = [charged EXCEPT ![r] = R!RateKey(Source(r))]
      /\ UNCHANGED <<cacheAt, sent>>
      /\ winCount' = [winCount EXCEPT ![R!RateKey(Source(r))] = @ + 1]
  BY DEF Admit, R!Admit, cacheVars
<1>2. cacheAt[r] = "idle"
  BY <1>1 DEF InLayers
<1>3. CASE k = R!RateKey(Source(r))
  <2>1. Unsent(k)' = Unsent(k) \cup {r} /\ r \notin Unsent(k)
    BY <1>1, <1>2, <1>3 DEF Unsent
  <2>2. Cardinality(Unsent(k)') = Cardinality(Unsent(k)) + 1
    BY <2>1, UnsentFinite, FS_AddElement
  <2>3. winCount'[k] = winCount[k] + 1 /\ winCount[k] \in Nat /\ sent[k] \in Nat
    BY <1>1, <1>3
  <2>. QED BY <1>1, <2>2, <2>3, UnsentFinite DEF PaidFor
<1>4. CASE k # R!RateKey(Source(r))
  <2>1. Unsent(k)' = Unsent(k)
    BY <1>1, <1>4 DEF Unsent
  <2>2. winCount'[k] = winCount[k] /\ sent'[k] = sent[k]
    BY <1>1, <1>4
  <2>. QED BY <2>1, <2>2, PaidKept
<1>. QED BY <1>3, <1>4

(* An exchange is made by a request that will make no other. *)
LEMMA ExchangePaid ==
  ASSUME PartTypeOK, LayerTypeOK, LayerTypeOK', NEW r \in Requests, InLayers(r),
         Request(r), cacheAt[r] = "fetch", Send(r),
         r \notin passed' \/ cacheAt'[r] = "store", UNCHANGED winCount,
         NEW k \in R!Keys, PaidFor(k)
  PROVE  PaidFor(k)'
<1>. USE DEF PartTypeOK, LayerTypeOK
<1>1. r \in passed /\ r \notin Unsent(k)'
  BY DEF InLayers, Unsent
<1>2. Unsent(k)' = Unsent(k) \ {r}
  BY <1>1, OthersUnsent
<1>3. CASE charged[r] = k
  <2>1. r \in Unsent(k)
    BY <1>1, <1>3 DEF Unsent
  <2>2. Cardinality(Unsent(k)') = Cardinality(Unsent(k)) - 1
    BY <1>2, <2>1, UnsentFinite, FS_RemoveElement
  <2>3. sent'[k] = sent[k] + 1 /\ winCount[k] \in Nat /\ sent[k] \in Nat
    BY <1>3 DEF Send
  <2>. QED BY <2>2, <2>3, UnsentFinite DEF PaidFor
<1>4. CASE charged[r] # k
  <2>1. sent'[k] = sent[k]
    BY <1>4 DEF Send
  <2>. QED BY <1>2, <2>1, PaidKept
<1>. QED BY <1>3, <1>4

(* Every step keeps every bucket's account. *)
LEMMA PaidForStep ==
  ASSUME PartTypeOK, LayerTypeOK, LayerTypeOK', \A r \in Requests : InLayers(r),
         [Next]_vars, NEW k \in R!Keys, PaidFor(k)
  PROVE  PaidFor(k)'
<1>. USE DEF layerVars, rateVars, cacheVars
<1>0. ASSUME UNCHANGED <<passed, charged, cacheAt, sent, winCount>> PROVE PaidFor(k)'
  BY <1>0, PaidKept DEF Unsent
<1>1. ASSUME NEW r \in Requests, Request(r) PROVE PaidFor(k)'
  <2>1. ASSUME NEW a \in Addresses, Enter(r, a) PROVE PaidFor(k)'
    BY <1>0, <2>1 DEF Enter
  <2>2. CASE Authenticate(r)
    BY <1>0, <2>2 DEF Authenticate
  <2>3. CASE Admit(r)
    BY <2>3, AdmitPaid
  <2>4. CASE Limit(r)
    BY <1>0, <2>4 DEF Limit, R!Reject
  <2>5. CASE AnswerAtOnce(r) \/ AnswerFromCache(r) \/ AnswerFetched(r)
    <3>1. r \notin passed' /\ UNCHANGED <<sent, winCount>>
      BY <2>5 DEF AnswerAtOnce, AnswerFromCache, AnswerFetched, Return
    <3>2. Unsent(k)' \subseteq Unsent(k)
      BY <1>1, <3>1, OthersUnsent DEF Unsent
    <3>. QED BY <3>1, <3>2, PaidKept
  <2>6. CASE Handle(r)
    <3>1. UNCHANGED <<passed, charged, sent, winCount>>
      BY <2>6 DEF Handle
    <3>2. cacheAt[r] # "store"
      BY <2>6 DEF Handle, C!Ask, C!Lookup, C!Miss, C!Drop
    <3>3. Unsent(k)' \subseteq Unsent(k)
      BY <1>1, <3>1, <3>2, OthersUnsent DEF Unsent
    <3>. QED BY <3>1, <3>3, PaidKept
  <2>7. CASE Exchange(r)
    <3>1. cacheAt[r] = "fetch" /\ cacheAt'[r] = "store" /\ Send(r) /\ UNCHANGED winCount
      BY <2>7 DEF Exchange, C!Fetched, PartTypeOK
    <3>. QED BY <1>1, <3>1, ExchangePaid
  <2>8. CASE ExchangeFails(r)
    <3>1. cacheAt[r] = "fetch" /\ r \notin passed' /\ Send(r) /\ UNCHANGED winCount
      BY <2>8 DEF ExchangeFails, C!NotFetched, Return
    <3>. QED BY <1>1, <3>1, ExchangePaid
  <2>. QED BY <1>1, <2>1, <2>2, <2>3, <2>4, <2>5, <2>6, <2>7, <2>8 DEF Request
<1>2. CASE Administer \/ Environment \/ UNCHANGED vars
  BY <1>0, <1>2, AllStay
<1>. QED BY <1>1, <1>2 DEF Next

-----------------------------------------------------------------------------
LEMMA GInvHolds == Spec => []GInv
<1>1. PartsInv /\ GInv /\ [Next]_vars => GInv'
  <2>. SUFFICES ASSUME PartsInv, GInv, [Next]_vars PROVE GInv'
    OBVIOUS
  <2>1. PartTypeOK /\ LayerTypeOK /\ LayerTypeOK'
    BY PartTypes, LayerTypeStep DEF GInv
  <2>2. ASSUME NEW r \in Requests PROVE InLayers(r)' /\ EntryOK(r)'
    BY <2>1, InLayersStep, EntryStep DEF GInv
  <2>3. ASSUME NEW k \in R!Keys PROVE PaidFor(k)'
    BY <2>1, PaidForStep DEF GInv
  <2>. QED BY <2>1, <2>2, <2>3 DEF GInv, R!Keys
<1>. QED BY <1>1, InitGInv, PartsHold, PTL DEF Spec

(***************************************************************************)
(* auth_middleware is outside the other layers: a request that presents a  *)
(* key whose revocation was acknowledged before the request began never    *)
(* gets below it.                                                          *)
(***************************************************************************)
THEOREM RevokedGetNothing == Spec => []NothingForTheRevoked
<1>1. PartsInv /\ GInv => NothingForTheRevoked
  <2>. SUFFICES ASSUME PartsInv, GInv, NEW r \in passed, r \in barred PROVE FALSE
    BY DEF NothingForTheRevoked
  <2>1. r \in Requests /\ authAt[r] = "served"
    BY DEF GInv, LayerTypeOK, InLayers
  <2>. QED BY <2>1 DEF PartsInv, KP!KInv, KP!ClientOK
<1>. QED BY <1>1, PartsHold, GInvHolds, PTL

(***************************************************************************)
(* rate_limit_middleware reads the AuthTier that auth_middleware left, and *)
(* what it charged stays right: the table never changes the tier of a key, *)
(* whatever the operators do while the request is in proxy_handler.        *)
(***************************************************************************)
THEOREM RequestsChargedToTheirTier == Spec => []ChargedToItsTier
<1>1. PartsInv /\ GInv => ChargedToItsTier
  <2>. SUFFICES ASSUME PartsInv, GInv, NEW r \in passed
                PROVE  charged[r] =
                         IF /\ key[r] \in ApiKeys
                            /\ K!Holds(key[r])
                            /\ entry[r].key_hash = key[r]
                            /\ rows[KeyId[key[r]]].tier \in Tiers
                         THEN <<"tier", rows[KeyId[key[r]]].tier>> ELSE <<"ip", ip[r]>>
    BY DEF ChargedToItsTier
  <2>1. /\ r \in Requests /\ authAt[r] = "served" /\ tier[r] = entry[r].tier
        /\ K!Present(entry[r]) => key[r] \in ApiKeys /\ entry[r].key_hash = key[r]
        /\ charged[r] = R!RateKey(Source(r))
    BY DEF GInv, LayerTypeOK, InLayers, EntryOK
  <2>2. charged[r] = IF tier[r] \in Tiers THEN <<"tier", tier[r]>> ELSE <<"ip", ip[r]>>
    BY <2>1, SourcesSeen DEF PartsInv, Source, R!RateKey
  <2>3. CASE K!Present(entry[r])
    <3>1. K!Holds(key[r]) /\ rows[KeyId[key[r]]].tier = tier[r]
      BY <2>1, <2>3 DEF PartsInv, KP!KInv, KP!ClientOK, KP!Present, K!Present, KP!NoRow,
         K!NoRow, KP!Holds, K!Holds
    <3>. QED BY <2>1, <2>2, <2>3, <3>1
  <2>4. CASE ~K!Present(entry[r])
    <3>1. entry[r].key_hash \notin ApiKeys /\ tier[r] \notin Tiers
      BY <2>1, <2>4, PartsAssumption, TiersAssumption
         DEF K!Present, K!NoRow, K!KeyAssumption
    <3>. QED BY <2>2, <3>1
  <2>. QED BY <2>3, <2>4
<1>. QED BY <1>1, PartsHold, GInvHolds, PTL

(***************************************************************************)
(* Whatever the cache answers or forgets, and whatever operators flush,    *)
(* the exchanges that the requests of a bucket cause at the upstreams stay *)
(* within its burst and its rate.                                          *)
(***************************************************************************)
THEOREM UpstreamsProtected == Spec => []UpstreamLoadBound
<1>1. RP!Spec => []RP!RateBound
  BY RP!RateBoundHolds, PartsAssumption
<1>2. RP!RateBound /\ PartsInv /\ GInv => UpstreamLoadBound
  <2>. SUFFICES ASSUME RP!RateBound, PartsInv, GInv, NEW k \in R!Keys
                PROVE  sent[k] * Scale <= R!Burst(k) * Scale + R!Rps(k) * now
    BY DEF UpstreamLoadBound
  <2>1. winCount[k] * Scale <= R!Burst(k) * Scale + R!Rps(k) * (now - winStart)
    BY DEF RP!RateBound, RP!Keys, R!Keys, RP!Burst, R!Burst, RP!Rps, R!Rps
  <2>2. winStart = 0 /\ now \in Nat /\ Scale \in Nat
    BY PartTypes, PartsAssumption DEF GInv, LayerTypeOK, PartTypeOK, R!RateAssumption
  <2>3. R!Burst(k) \in Nat /\ R!Rps(k) \in Nat
    BY PartsAssumption DEF R!Keys, R!Burst, R!Rps, R!RateAssumption
  <2>4. sent[k] \in Nat /\ winCount[k] \in Nat /\ sent[k] <= winCount[k]
    BY PartTypes, UnsentFinite DEF GInv, LayerTypeOK, PartTypeOK, PaidFor
  <2>5. \A n, m, c \in Nat : n <= m => n * c <= m * c
    OBVIOUS
  <2>6. sent[k] * Scale <= winCount[k] * Scale
    BY <2>2, <2>4, <2>5
  <2>. QED BY <2>1, <2>2, <2>3, <2>4, <2>6
<1>. QED BY <1>1, <1>2, RatesHold, SameLimiter, PartsHold, GInvHolds, PTL

=============================================================================
