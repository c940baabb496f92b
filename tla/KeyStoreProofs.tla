--------------------------- MODULE KeyStoreProofs ---------------------------
(***************************************************************************)
(* Proofs about KeyStore, for any keys, ids (colliding or not), tiers and  *)
(* any number of concurrent handlers.  The argument is that the table only *)
(* grows: a row keeps its key and its tier for ever, and a revocation is   *)
(* never undone.  So whatever a handler has learned about a key, from the  *)
(* table or from an acknowledgement, is still true when it is used.        *)
(***************************************************************************)
EXTENDS KeyStore, TLAPS

(* Each id holds a key of that id, or nothing. *)
RowsOK ==
  \A i \in Ids : Present(rows[i]) =>
    /\ rows[i].key_hash \in Keys /\ rows[i].tier \in Tiers
    /\ KeyId[rows[i].key_hash] = i

(* What an admin handler is about to acknowledge is in the table. *)
JobOK(a) ==
  /\ apc[a] # "idle" => job[a].key \in Keys /\ job[a].tier \in Tiers
  /\ apc[a] = "created" => /\ Holds(job[a].key)
                           /\ rows[KeyId[job[a].key]].tier = job[a].tier
  /\ apc[a] = "revoked" => /\ Holds(job[a].key)
                           /\ rows[KeyId[job[a].key]].is_revoked

(* What a client's handler has read, and what was acknowledged before. *)
ClientOK(c) ==
  /\ pc[c] = "idle" => key[c] = NoKey
  /\ pc[c] \in {"lookup", "decide"} => key[c] \in Keys
  /\ key[c] = NoKey => entitled[c] = {} /\ c \notin barred /\ tier[c] = Anonymous
  /\ pc[c] \in {"idle", "lookup", "decide"} => tier[c] = Anonymous
  /\ key[c] \in Keys =>
       /\ \A t \in entitled[c] : <<key[c], t>> \in granted
       /\ c \in barred => key[c] \in revoked
       /\ pc[c] \in {"decide", "served"} =>
            /\ Present(entry[c]) => /\ Holds(key[c])
                                    /\ rows[KeyId[key[c]]].tier = entry[c].tier
            /\ entitled[c] # {} => Present(entry[c])
            /\ c \in barred => Present(entry[c]) /\ entry[c].is_revoked
       /\ tier[c] # Anonymous => /\ Holds(key[c])
                                 /\ rows[KeyId[key[c]]].tier = tier[c]
  /\ pc[c] = "served" => c \notin barred

KInv ==
  /\ TypeOK /\ RowsOK /\ AcksAreDurable
  /\ \A a \in Admins : JobOK(a)
  /\ \A c \in Clients : ClientOK(c)

(* The table only grows. *)
Grows ==
  \A i \in Ids : Present(rows[i]) =>
    /\ Present(rows'[i])
    /\ rows'[i].key_hash = rows[i].key_hash
    /\ rows'[i].tier = rows[i].tier
    /\ rows[i].is_revoked => rows'[i].is_revoked

-----------------------------------------------------------------------------
(* The record constants have their types. *)
LEMMA RecordTypes ==
  /\ NoRow \in Row /\ ~Present(NoRow)
  /\ NoJob \in [key : Keys \cup {NoKey}, tier : Tiers \cup {Anonymous}]
  /\ \A e \in Row : e.key_hash \in Keys => Present(e)
BY KeyAssumption DEF NoRow, Row, Present, NoJob

(* SqliteKeyStore::new on a new file establishes the invariant. *)
LEMMA InitKInv == Init => KInv
BY RecordTypes, KeyAssumption, TierAssumption, IdAssumption
   DEF Init, KInv, TypeOK, RowsOK, AcksAreDurable, JobOK, ClientOK

(* A key in the table stays there, in its tier, and revoked if it was. *)
LEMMA HeldStays ==
  ASSUME TypeOK, Grows, NEW k \in Keys, Holds(k)
  PROVE  /\ Holds(k)' /\ rows'[KeyId[k]].tier = rows[KeyId[k]].tier
         /\ rows[KeyId[k]].is_revoked => rows'[KeyId[k]].is_revoked
BY RecordTypes, IdAssumption DEF TypeOK, Grows, Holds

(* A client's knowledge outlives every change the table can make. *)
LEMMA ClientKept ==
  ASSUME KInv, Grows, granted \subseteq granted', revoked \subseteq revoked',
         NEW c \in Clients,
         pc'[c] = pc[c], key'[c] = key[c], entry'[c] = entry[c], tier'[c] = tier[c],
         entitled'[c] = entitled[c], c \in barred' <=> c \in barred
  PROVE  ClientOK(c)'
BY HeldStays DEF KInv, ClientOK, Present

(* So does an admin handler's, as long as it does not move itself. *)
LEMMA JobKept ==
  ASSUME KInv, Grows, NEW a \in Admins, apc'[a] = apc[a], job'[a] = job[a]
  PROVE  JobOK(a)'
BY HeldStays DEF KInv, JobOK

(* And so does what was acknowledged. *)
LEMMA AcksKept ==
  ASSUME KInv, Grows, granted' = granted, revoked' = revoked
  PROVE  AcksAreDurable'
<1>1. \A k \in revoked : k \in Keys
  BY DEF KInv, TypeOK
<1>. QED BY <1>1, HeldStays DEF KInv, AcksAreDurable

(* A client's steps: the table and the acknowledgements are as they were.  *)
LEMMA ClientStep ==
  ASSUME KInv, NEW c \in Clients, Client(c) PROVE KInv'
<1>1. /\ UNCHANGED <<rows, allow, apc, job, granted, revoked>>
      /\ \A d \in Clients \ {c} :
           /\ pc'[d] = pc[d] /\ key'[d] = key[d] /\ entry'[d] = entry[d]
           /\ tier'[d] = tier[d] /\ entitled'[d] = entitled[d]
           /\ d \in barred' <=> d \in barred
  BY DEF KInv, TypeOK, Client, Ask, AskWithoutKey, Lookup, LookupFails, Authenticate,
         Forbid, PassUnknown, RefuseUnknown, Finish, Leave, OnlyClient
<1>2. Grows
  BY <1>1 DEF Grows
<1>3. RowsOK' /\ AcksAreDurable' /\ \A a \in Admins : JobOK(a)'
  BY <1>1, <1>2, AcksKept, JobKept DEF KInv, RowsOK
<1>4. \A d \in Clients \ {c} : ClientOK(d)'
  BY <1>1, <1>2, ClientKept
<1>5. TypeOK /\ ClientOK(c) /\ AcksAreDurable
  BY DEF KInv
<1>6. TypeOK'
  <2>. USE <1>1, <1>5
  <2>1. CASE LookupFails(c) \/ Forbid(c) \/ RefuseUnknown(c) \/ Finish(c)
    BY <2>1, RecordTypes DEF LookupFails, Forbid, RefuseUnknown, Finish, Leave, TypeOK
  <2>2. CASE \E cred \in Credentials : Ask(c, cred)
    BY <2>2 DEF Ask, TypeOK
  <2>3. CASE \E cred \in Credentials : AskWithoutKey(c, cred)
    BY <2>3 DEF AskWithoutKey, TypeOK
  <2>4. CASE Lookup(c)
    BY <2>4, RecordTypes, IdAssumption DEF Lookup, TypeOK, ClientOK
  <2>5. CASE Authenticate(c)
    BY <2>5 DEF Authenticate, TypeOK, Row
  <2>6. CASE PassUnknown(c)
    BY <2>6 DEF PassUnknown, TypeOK
  <2>. QED BY <2>1, <2>2, <2>3, <2>4, <2>5, <2>6 DEF Client
<1>7. ClientOK(c)'
  <2>. USE <1>1, <1>5, KeyAssumption
  <2>1. CASE LookupFails(c) \/ Forbid(c) \/ RefuseUnknown(c) \/ Finish(c)
    BY <2>1 DEF LookupFails, Forbid, RefuseUnknown, Finish, Leave, TypeOK, ClientOK
  <2>2. CASE \E cred \in Credentials : Ask(c, cred)
    BY <2>2 DEF Ask, TypeOK, ClientOK
  <2>3. CASE \E cred \in Credentials : AskWithoutKey(c, cred)
    BY <2>3 DEF AskWithoutKey, TypeOK, ClientOK
  <2>4. CASE Lookup(c)
    <3>. DEFINE k == key[c]
                row == rows[KeyId[k]]
    <3>1. /\ k \in Keys /\ row \in Row /\ key'[c] = k /\ pc'[c] = "decide"
          /\ entry'[c] = IF row.key_hash = k THEN row ELSE NoRow
          /\ tier'[c] = Anonymous /\ UNCHANGED <<entitled, barred>>
      BY <2>4, IdAssumption DEF Lookup, TypeOK, ClientOK
    <3>2. Holds(k) => Present(row)
      BY <3>1, RecordTypes DEF Holds
    <3>3. Present(entry'[c]) => Holds(k) /\ entry'[c] = row
      BY <3>1, RecordTypes DEF Holds
    <3>4. entitled[c] # {} => Present(entry'[c])
      <4>1. ASSUME NEW t \in entitled[c] PROVE Holds(k)
        BY <3>1 DEF ClientOK, TypeOK, AcksAreDurable
      <4>. QED BY <4>1, <3>1, <3>2 DEF Holds
    <3>5. c \in barred => Present(entry'[c]) /\ entry'[c].is_revoked
      BY <3>1, <3>2 DEF ClientOK, AcksAreDurable, Holds
    <3>. QED BY <3>1, <3>3, <3>4, <3>5 DEF ClientOK, Holds
  <2>5. CASE Authenticate(c)
    BY <2>5 DEF Authenticate, TypeOK, ClientOK, Holds
  <2>6. CASE PassUnknown(c)
    BY <2>6 DEF PassUnknown, TypeOK, ClientOK, Holds
  <2>. QED BY <2>1, <2>2, <2>3, <2>4, <2>5, <2>6 DEF Client
<1>. QED BY <1>3, <1>4, <1>6, <1>7 DEF KInv

(* The admin's statements only ever add a row or set a flag. *)
LEMMA AdminGrows ==
  ASSUME KInv, NEW a \in Admins, Admin(a) PROVE Grows /\ RowsOK' /\ TypeOK'
<1>. USE DEF OnlyAdmin, clientVars, Idle
<1>a. TypeOK /\ RowsOK /\ JobOK(a)
  BY DEF KInv
<1>1. CASE UNCHANGED rows /\ ~Insert(a) /\ \A i \in Ids : ~Revoke(a, i)
  <2>1. Grows /\ RowsOK'
    BY <1>1, <1>a DEF Grows, RowsOK
  <2>2. CASE \E k \in Keys, t \in Tiers : AskCreate(a, k, t)
    BY <2>1, <2>2, <1>a DEF AskCreate, TypeOK
  <2>3. CASE InsertFails(a)
    BY <2>1, <2>3, <1>a, RecordTypes DEF InsertFails, TypeOK
  <2>4. CASE ReplyCreated(a)
    BY <2>1, <2>4, <1>a, RecordTypes DEF ReplyCreated, TypeOK, JobOK
  <2>5. CASE ReplyRevoked(a)
    BY <2>1, <2>5, <1>a, RecordTypes DEF ReplyRevoked, TypeOK, JobOK
  <2>. QED BY <1>1, <2>1, <2>2, <2>3, <2>4, <2>5 DEF Admin
<1>2. CASE \E i \in Ids : Revoke(a, i)
  <2>1. PICK i \in Ids : Revoke(a, i)
    BY <1>2
  <2>2. rows'[i] = [rows[i] EXCEPT !.is_revoked = TRUE]
    BY <2>1, <1>a DEF Revoke, TypeOK
  <2>3. /\ rows'[i] \in Row /\ rows'[i].key_hash = rows[i].key_hash
        /\ rows'[i].tier = rows[i].tier /\ rows'[i].is_revoked
        /\ rows[i].key_hash \in Keys
    <3>1. rows[i] \in Row /\ rows[i].key_hash \in Keys
      BY <2>1, <1>a DEF Revoke, TypeOK, RowsOK
    <3>. QED BY <2>2, <3>1 DEF Row
  <2>4. \A j \in Ids \ {i} : rows'[j] = rows[j]
    BY <2>1, <1>a DEF Revoke, TypeOK
  <2>5. Grows
    BY <2>3, <2>4, RecordTypes DEF Grows
  <2>6. RowsOK'
    BY <2>1, <2>3, <2>4, <1>a DEF RowsOK, Revoke
  <2>7. rows' \in [Ids -> Row]
    BY <2>1, <2>3, <2>4, <1>a DEF Revoke, TypeOK
  <2>8. job'[a] \in [key : Keys \cup {NoKey}, tier : Tiers \cup {Anonymous}]
    BY <2>1, <1>a DEF Revoke, TypeOK, Row
  <2>9. TypeOK'
    BY <2>1, <2>7, <2>8, <1>a DEF Revoke, TypeOK
  <2>. QED BY <2>5, <2>6, <2>9
<1>3. CASE Insert(a)
  <2>1. job[a].key \in Keys /\ job[a].tier \in Tiers
    BY <1>3, <1>a DEF Insert, JobOK
  <2>2. NewRow(job[a]) \in Row
    BY <2>1 DEF NewRow, Row
  <2>3. Grows
    BY <1>3, <1>a DEF Insert, Grows, TypeOK
  <2>4. RowsOK'
    BY <1>3, <1>a, <2>1, IdAssumption DEF Insert, RowsOK, TypeOK, NewRow
  <2>5. TypeOK'
    BY <1>3, <1>a, <2>2, IdAssumption, <2>1 DEF Insert, TypeOK
  <2>. QED BY <2>3, <2>4, <2>5
<1>. QED BY <1>1, <1>2, <1>3
     DEF Admin, AskCreate, InsertFails, ReplyCreated, ReplyRevoked

(* What an admin handler does keeps the invariant. *)
LEMMA AdminStep ==
  ASSUME KInv, NEW a \in Admins, Admin(a) PROVE KInv'
<1>1. Grows /\ RowsOK' /\ TypeOK'
  BY AdminGrows
<1>2. /\ UNCHANGED clientVars
      /\ granted \subseteq granted' /\ revoked \subseteq revoked'
      /\ \A b \in Admins \ {a} : apc'[b] = apc[b] /\ job'[b] = job[b]
  BY DEF KInv, TypeOK, Admin, AskCreate, Revoke, Insert, InsertFails, ReplyCreated,
         ReplyRevoked, Idle, OnlyAdmin
<1>3. \A c \in Clients : ClientOK(c)'
  BY <1>1, <1>2, ClientKept DEF clientVars
<1>4. \A b \in Admins \ {a} : JobOK(b)'
  BY <1>1, <1>2, JobKept
<1>5. JobOK(a)'
  <2>1. CASE apc'[a] = "idle"
    BY <2>1 DEF JobOK
  <2>2. CASE \E k \in Keys, t \in Tiers : AskCreate(a, k, t)
    BY <2>2 DEF KInv, TypeOK, AskCreate, JobOK
  <2>3. CASE \E i \in Ids : Revoke(a, i)
    <3>1. PICK i \in Ids : Revoke(a, i)
      BY <2>3
    <3>2. /\ rows[i].key_hash \in Keys /\ KeyId[rows[i].key_hash] = i
          /\ rows[i].tier \in Tiers
      BY <3>1 DEF KInv, RowsOK, Revoke
    <3>3. /\ apc'[a] = "revoked" /\ job'[a].key = rows[i].key_hash
          /\ job'[a].tier = rows[i].tier
      BY <3>1 DEF KInv, TypeOK, Revoke
    <3>4. rows'[i].key_hash = rows[i].key_hash /\ rows'[i].is_revoked
      BY <3>1 DEF KInv, TypeOK, Revoke, Row
    <3>. QED BY <3>2, <3>3, <3>4 DEF JobOK, Holds
  <2>4. CASE Insert(a)
    BY <2>4, IdAssumption DEF KInv, TypeOK, Insert, JobOK, Holds, NewRow
  <2>. QED BY <2>1, <2>2, <2>3, <2>4
       DEF Admin, InsertFails, ReplyCreated, ReplyRevoked, Idle, KInv, TypeOK
<1>6. AcksAreDurable'
  <2>1. CASE UNCHANGED <<granted, revoked>>
    BY <2>1, <1>1, AcksKept
  <2>2. CASE ReplyCreated(a)
    BY <2>2 DEF KInv, ReplyCreated, JobOK, AcksAreDurable, Holds
  <2>3. CASE ReplyRevoked(a)
    BY <2>3 DEF KInv, ReplyRevoked, JobOK, AcksAreDurable, Holds
  <2>. QED BY <2>1, <2>2, <2>3 DEF Admin, AskCreate, Revoke, Insert, InsertFails
<1>. QED BY <1>1, <1>3, <1>4, <1>5, <1>6 DEF KInv

(* A restart forgets the handlers and keeps the table. *)
LEMMA RestartStep == KInv /\ Restart => KInv'
BY RecordTypes, KeyAssumption, TierAssumption
   DEF KInv, Restart, TypeOK, RowsOK, AcksAreDurable, JobOK, ClientOK, Holds

LEMMA KInvHolds == Spec => []KInv
<1>1. KInv /\ [Next]_vars => KInv'
  <2>1. KInv /\ UNCHANGED vars => KInv'
    BY DEF vars, clientVars, KInv, TypeOK, RowsOK, AcksAreDurable, JobOK, ClientOK, Holds
  <2>. QED BY <2>1, ClientStep, AdminStep, RestartStep DEF Next
<1>. QED BY <1>1, InitKInv, PTL DEF Spec

-----------------------------------------------------------------------------
(* Every variable keeps its type, and what an operator was told about a key *)
(* stays true across concurrent creations, revocations and restarts.        *)
THEOREM AcksDurable == Spec => [](TypeOK /\ AcksAreDurable)
<1>1. KInv => TypeOK /\ AcksAreDurable
  BY DEF KInv
<1>. QED BY <1>1, KInvHolds, PTL

(* auth_middleware never serves a request that presents a key revoked       *)
(* before it began.                                                         *)
THEOREM RevocationFinal == Spec => []RevocationIsFinal
<1>1. KInv => RevocationIsFinal
  BY DEF KInv, ClientOK, RevocationIsFinal
<1>. QED BY <1>1, KInvHolds, PTL

(* A key acknowledged before the request began is found, in its tier. *)
THEOREM GrantedHonoured == Spec => []GrantedIsHonoured
<1>1. KInv => GrantedIsHonoured
  <2>. SUFFICES ASSUME KInv, NEW c \in Clients, pc[c] \in {"decide", "served"},
                       entitled[c] # {}
                PROVE  Present(entry[c]) /\ entry[c].tier \in entitled[c]
    BY DEF GrantedIsHonoured
  <2>1. key[c] \in Keys
    BY DEF KInv, TypeOK, ClientOK
  <2>2. PICK t \in entitled[c] : <<key[c], t>> \in granted
    BY <2>1 DEF KInv, ClientOK
  <2>3. rows[KeyId[key[c]]].tier = t
    BY <2>1, <2>2 DEF KInv, TypeOK, AcksAreDurable
  <2>. QED BY <2>1, <2>2, <2>3 DEF KInv, ClientOK
<1>. QED BY <1>1, KInvHolds, PTL

(* A request is served in a tier only if the table holds its very key in    *)
(* that tier, whether or not ids collide.                                   *)
THEOREM ServedInTier == Spec => []ServedInItsTier
<1>1. KInv => ServedInItsTier
  BY DEF KInv, TypeOK, ClientOK, ServedInItsTier
<1>. QED BY <1>1, KInvHolds, PTL

=============================================================================
