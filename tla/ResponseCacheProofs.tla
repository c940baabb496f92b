------------------------ MODULE ResponseCacheProofs -------------------------
(***************************************************************************)
(* Proofs about ResponseCache, for any number of concurrent handlers,      *)
(* queries and flushes and any TTLs: what the cache serves is fresh and    *)
(* answers the query.  The induction is on TypeOK /\ EntriesBelong; the    *)
(* two action properties follow from it in one step.                       *)
(***************************************************************************)
EXTENDS ResponseCache, TLAPS

(* The empty entry is an entry and is not present. *)
LEMMA NoEntryType == NoEntry \in Entry /\ ~Present(NoEntry)
BY DEF NoEntry, Entry, Present

(* What MemoryCache::set inserts is an entry. *)
LEMMA NewEntryType ==
  ASSUME TypeOK, NEW h \in Handlers, pc[h] # "idle"
  PROVE  NewEntry(h) \in Entry
<1>1. query[h] \in Queries
  BY DEF TypeOK
<1>2. now + Ttl[query[h]] \in Nat
  BY <1>1, CacheAssumption DEF TypeOK
<1>. QED BY <1>1, <1>2 DEF TypeOK, NewEntry, Entry

CInv == TypeOK /\ EntriesBelong

(* The empty cache satisfies the invariant. *)
LEMMA InitCInv == Init => CInv
<1>. SUFFICES ASSUME Init PROVE CInv
  OBVIOUS
<1>1. TypeOK
  BY NoEntryType, QueryAssumption DEF Init, TypeOK, ControlPoints
<1>2. EntriesBelong
  BY NoEntryType DEF Init, EntriesBelong
<1>. QED BY <1>1, <1>2 DEF CInv

(* Every step keeps the types; a busy handler has a query. *)
LEMMA TypeStep == TypeOK /\ [Next]_vars => TypeOK'
<1>. SUFFICES ASSUME TypeOK, [Next]_vars PROVE TypeOK'
  OBVIOUS
<1>. USE NoEntryType, QueryAssumption, CacheAssumption, SlotAssumption
<1>1. ASSUME NEW h \in Handlers, NEW q \in Queries, Ask(h, q) PROVE TypeOK'
  BY <1>1 DEF Ask, TypeOK, ControlPoints
<1>2. ASSUME NEW h \in Handlers, Lookup(h) PROVE TypeOK'
  <2>1. query[h] \in Queries
    BY <1>2 DEF Lookup, TypeOK
  <2>2. store[Slot[query[h]]] \in Entry
    BY <2>1 DEF TypeOK
  <2>. QED BY <1>2, <2>2 DEF Lookup, TypeOK, ControlPoints
<1>3. ASSUME NEW h \in Handlers, Hit(h) \/ NotFetched(h) PROVE TypeOK'
  BY <1>3 DEF Hit, NotFetched, Leave, TypeOK, ControlPoints
<1>4. ASSUME NEW h \in Handlers, Miss(h) PROVE TypeOK'
  BY <1>4 DEF Miss, TypeOK, ControlPoints
<1>5. ASSUME NEW h \in Handlers, Drop(h) PROVE TypeOK'
  BY <1>5 DEF Drop, TypeOK, ControlPoints
<1>6. ASSUME NEW h \in Handlers, Fetched(h) PROVE TypeOK'
  BY <1>6 DEF Fetched, TypeOK, ControlPoints
<1>7. ASSUME NEW h \in Handlers, Store(h) PROVE TypeOK'
  <2>1. NewEntry(h) \in Entry
    BY <1>7, NewEntryType DEF Store
  <2>2. store' \in [Slots -> Entry]
    BY <1>7, <2>1 DEF Store, TypeOK
  <2>. QED BY <1>7, <2>2 DEF Store, Leave, TypeOK, ControlPoints
<1>8. CASE Flush
  BY <1>8 DEF Flush, TypeOK
<1>9. ASSUME NEW s \in Slots, Evict(s) PROVE TypeOK'
  BY <1>9 DEF Evict, TypeOK
<1>10. CASE Tick
  BY <1>10 DEF Tick, TypeOK
<1>11. CASE UNCHANGED vars
  BY <1>11 DEF vars, TypeOK
<1>. QED BY <1>1, <1>2, <1>3, <1>4, <1>5, <1>6, <1>7, <1>8, <1>9, <1>10, <1>11
         DEF Next, Handle

(* Every step keeps what is stored and what is cloned where it belongs. *)
LEMMA BelongStep == CInv /\ [Next]_vars => EntriesBelong'
<1>. SUFFICES ASSUME CInv, TypeOK', [Next]_vars PROVE EntriesBelong'
  BY TypeStep DEF CInv
<1>. USE NoEntryType DEF CInv
<1>1. ASSUME NEW h \in Handlers, NEW q \in Queries, Ask(h, q)
      PROVE  EntriesBelong'
  BY <1>1 DEF Ask, TypeOK, EntriesBelong
<1>2. ASSUME NEW h \in Handlers, Lookup(h) PROVE EntriesBelong'
  <2>1. query[h] \in Queries /\ Slot[query[h]] \in Slots
    BY <1>2, SlotAssumption DEF Lookup, TypeOK
  <2>2. Present(held'[h]) =>
          BelongsIn(held'[h], Slot[query[h]]) /\ began[h] <= held'[h].epoch
    BY <1>2, <2>1 DEF Lookup, TypeOK, EntriesBelong
  <2>. QED BY <1>2, <2>2 DEF Lookup, TypeOK, EntriesBelong
<1>3. ASSUME NEW h \in Handlers, Hit(h) \/ NotFetched(h) PROVE EntriesBelong'
  BY <1>3 DEF Hit, NotFetched, Leave, TypeOK, EntriesBelong
<1>4. ASSUME NEW h \in Handlers, Miss(h) PROVE EntriesBelong'
  BY <1>4 DEF Miss, TypeOK, EntriesBelong
<1>5. ASSUME NEW h \in Handlers, Drop(h) PROVE EntriesBelong'
  BY <1>5 DEF Drop, TypeOK, EntriesBelong
<1>6. ASSUME NEW h \in Handlers, Fetched(h) PROVE EntriesBelong'
  BY <1>6 DEF Fetched, TypeOK, EntriesBelong
<1>7. ASSUME NEW h \in Handlers, Store(h) PROVE EntriesBelong'
  <2>1. query[h] \in Queries
    BY <1>7 DEF Store, TypeOK
  <2>2. \A s \in Slots : Present(store'[s]) =>
          BelongsIn(store'[s], s) /\ store'[s].epoch = flushes
    <3>1. CASE Cacheable(query[h]) /\ status[h] = "success"
      <4>1. BelongsIn(NewEntry(h), Slot[query[h]]) /\ NewEntry(h).epoch = flushes
        BY <3>1 DEF BelongsIn, NewEntry
      <4>. QED BY <1>7, <3>1, <4>1 DEF Store, TypeOK, EntriesBelong
    <3>2. CASE ~(Cacheable(query[h]) /\ status[h] = "success")
      BY <1>7, <3>2 DEF Store, EntriesBelong
    <3>. QED BY <3>1, <3>2
  <2>3. \A g \in Handlers : pc'[g] = "check" /\ Present(held'[g]) =>
          BelongsIn(held'[g], Slot[query'[g]]) /\ began'[g] <= held'[g].epoch
    BY <1>7 DEF Store, Leave, TypeOK, EntriesBelong
  <2>. QED BY <1>7, <2>2, <2>3 DEF Store, Leave, TypeOK, EntriesBelong
<1>8. CASE Flush
  BY <1>8 DEF Flush, TypeOK, EntriesBelong
<1>9. ASSUME NEW s \in Slots, Evict(s) PROVE EntriesBelong'
  BY <1>9 DEF Evict, TypeOK, EntriesBelong
<1>10. CASE Tick
  BY <1>10 DEF Tick, EntriesBelong
<1>11. CASE UNCHANGED vars
  BY <1>11 DEF vars, EntriesBelong
<1>. QED BY <1>1, <1>2, <1>3, <1>4, <1>5, <1>6, <1>7, <1>8, <1>9, <1>10, <1>11
         DEF Next, Handle

(***************************************************************************)
(* In every reachable state of the cache, each entry sits in the slot of   *)
(* the query it answers, is a success and is newer than the latest flush.  *)
(***************************************************************************)
THEOREM CacheIsSound == Spec => [](TypeOK /\ EntriesBelong)
<1>1. Spec => []CInv
  BY InitCInv, TypeStep, BelongStep, PTL DEF Spec, CInv
<1>. QED BY <1>1, PTL DEF CInv

(* Only Hit takes a handler from its check to the answer. *)
LEMMA OnlyHitAnswers ==
  ASSUME TypeOK, Next, NEW h \in Handlers, Answers(h)
  PROVE  Live(held[h])
<1>. USE DEF Answers, TypeOK
<1>1. ASSUME NEW g \in Handlers, Handle(g) PROVE Live(held[h])
  BY <1>1 DEF Handle, Ask, Lookup, Hit, Miss, Drop, Fetched, NotFetched, Store, Leave
<1>2. ~Flush /\ ~Tick /\ \A s \in Slots : ~Evict(s)
  BY DEF Flush, Tick, Evict
<1>. QED BY <1>1, <1>2 DEF Next

(***************************************************************************)
(* proxy_handler never answers from the cache with an entry stored a TTL   *)
(* ago or longer, or before a flush the request should see.                *)
(***************************************************************************)
THEOREM HitsAreFresh == Spec => HitIsFresh
<1>1. ASSUME CInv, Next, NEW h \in Handlers, Answers(h)
      PROVE  now < held[h].stored + Ttl[query[h]] /\ began[h] <= held[h].epoch
  <2>1. Live(held[h]) /\ pc[h] = "check"
    BY <1>1, OnlyHitAnswers DEF Answers, CInv
  <2>2. query[h] \in Queries /\ held[h].question \in Queries
    BY <1>1, <2>1 DEF CInv, TypeOK, Live, Present, Entry
  <2>3. BelongsIn(held[h], Slot[query[h]]) /\ began[h] <= held[h].epoch
    BY <1>1, <2>1 DEF CInv, EntriesBelong, Live
  <2>4. held[h].question = query[h]
    BY <2>2, <2>3, SlotAssumption DEF BelongsIn
  <2>5. held[h].expires_at = held[h].stored + Ttl[query[h]]
    BY <2>3, <2>4 DEF BelongsIn
  <2>6. now \in Nat /\ held[h].expires_at \in Nat
    BY <1>1 DEF CInv, TypeOK, Entry
  <2>. QED BY <2>1, <2>3, <2>5, <2>6 DEF Live
<1>2. CInv /\ [Next]_vars =>
        [\A h \in Handlers : Answers(h) =>
           /\ now < held[h].stored + Ttl[query[h]]
           /\ began[h] <= held[h].epoch]_vars
  BY <1>1
<1>. QED BY <1>2, CacheIsSound, PTL DEF Spec, HitIsFresh, CInv

(***************************************************************************)
(* proxy_handler answers from the cache only with a successful answer to   *)
(* the same query, provided no two queries collide on their 64-bit slot.   *)
(***************************************************************************)
THEOREM HitsAnswerTheQuery == Spec => HitAnswersTheQuery
<1>1. ASSUME CInv, Next, NEW h \in Handlers, Answers(h)
      PROVE  /\ held[h].question = query[h]
             /\ held[h].status = "success"
             /\ Cacheable(query[h])
  <2>1. Live(held[h]) /\ pc[h] = "check"
    BY <1>1, OnlyHitAnswers DEF Answers, CInv
  <2>2. query[h] \in Queries /\ held[h].question \in Queries
    BY <1>1, <2>1 DEF CInv, TypeOK, Live, Present, Entry
  <2>3. BelongsIn(held[h], Slot[query[h]])
    BY <1>1, <2>1 DEF CInv, EntriesBelong, Live
  <2>. QED BY <2>2, <2>3, SlotAssumption DEF BelongsIn
<1>2. CInv /\ [Next]_vars =>
        [\A h \in Handlers : Answers(h) =>
           /\ held[h].question = query[h]
           /\ held[h].status = "success"
           /\ Cacheable(query[h])]_vars
  BY <1>1
<1>. QED BY <1>2, CacheIsSound, PTL DEF Spec, HitAnswersTheQuery, CInv

=============================================================================
