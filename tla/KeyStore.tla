------------------------------ MODULE KeyStore ------------------------------
(***************************************************************************)
(* API keys: the SQLite table (auth/store/sqlite.rs), the middleware that  *)
(* checks a request against it (server/mod.rs, auth/mod.rs), the admin     *)
(* handlers that create and revoke keys (server/admin.rs), and restarts of *)
(* the gateway at any moment.  Authentication is enabled.                  *)
(*                                                                         *)
(* Each statement runs under the mutex of the connection and commits on    *)
(* its own; what a handler does with its result comes later, and other     *)
(* handlers, or a crash, may come first.  Listing keys only reads.         *)
(*                                                                         *)
(* KeyId is the SHA-256 of a raw key.  It need not be injective here: the  *)
(* code also verifies the Argon2 hash, which is modelled by the raw key it *)
(* was made from.                                                          *)
(***************************************************************************)
EXTENDS Integers

CONSTANTS
  Keys, NoKey,          \* raw keys; no key, or none that can be read
  Unreadable,           \* a header whose bytes are not visible ASCII
  Ids, KeyId,           \* primary keys of api_keys, and the one of a raw key
  Tiers, Anonymous,     \* tiers of keys; what an unauthenticated request gets
  Clients, Admins       \* handlers of the gateway and of the admin API

ASSUME KeyAssumption ==
  NoKey \notin Keys /\ Unreadable \notin Keys \cup {NoKey}
ASSUME IdAssumption == KeyId \in [Keys -> Ids]
ASSUME TierAssumption == Anonymous \notin Tiers

VARIABLES
  rows,                 \* the table api_keys: the row of each id, or NoRow
  allow,                \* auth.allow_unauthenticated of the running process
  pc, key, entry, tier, \* a client's handler: control point, the key it
                        \*   presents, the row lookup returned, its AuthTier
  apc, job,             \* an admin handler: control point and its operation
  granted, revoked,     \* history: creations and revocations acknowledged
  entitled, barred      \* history: the tiers acknowledged for a client's key
                        \*   before its request began, and the clients
                        \*   whose key's revocation was

clientVars == <<pc, key, entry, tier, entitled, barred>>
vars == <<rows, allow, clientVars, apc, job, granted, revoked>>

(* KeyEntry.  label and created_at are only listed. *)
Row == [key_hash : Keys \cup {NoKey}, tier : Tiers \cup {Anonymous},
        is_revoked : BOOLEAN]
NoRow == [key_hash |-> NoKey, tier |-> Anonymous, is_revoked |-> FALSE]
Present(e) == e # NoRow

NoJob == [key |-> NoKey, tier |-> Anonymous]

TypeOK ==
  /\ rows \in [Ids -> Row]
  /\ allow \in BOOLEAN
  /\ pc \in [Clients -> {"idle", "lookup", "decide", "served"}]
  /\ key \in [Clients -> Keys \cup {NoKey}]
  /\ entry \in [Clients -> Row]
  /\ tier \in [Clients -> Tiers \cup {Anonymous}]
  /\ apc \in [Admins -> {"idle", "insert", "created", "revoked"}]
  /\ job \in [Admins -> [key : Keys \cup {NoKey}, tier : Tiers \cup {Anonymous}]]
  /\ granted \in SUBSET (Keys \X Tiers)
  /\ revoked \in SUBSET Keys
  /\ entitled \in [Clients -> SUBSET Tiers]
  /\ barred \in SUBSET Clients

(* SqliteKeyStore::new on a new database file. *)
Init ==
  /\ rows = [i \in Ids |-> NoRow]
  /\ allow \in BOOLEAN
  /\ pc = [c \in Clients |-> "idle"]
  /\ key = [c \in Clients |-> NoKey]
  /\ entry = [c \in Clients |-> NoRow]
  /\ tier = [c \in Clients |-> Anonymous]
  /\ entitled = [c \in Clients |-> {}]
  /\ barred = {}
  /\ apc = [a \in Admins |-> "idle"]
  /\ job = [a \in Admins |-> NoJob]
  /\ granted = {} /\ revoked = {}

-----------------------------------------------------------------------------
(***************************************************************************)
(* A client's request in auth_middleware.                                  *)
(***************************************************************************)

(* Where a request may carry a key.  A bearer of NoKey stands for another   *)
(* scheme and for an empty token as well.                                   *)
Credentials ==
  [bearer : Keys \cup {NoKey, Unreadable}, header : Keys \cup {NoKey, Unreadable},
   query : Keys \cup {NoKey}]

(* extract_api_key: an unreadable header ends the search without a key. *)
ExtractApiKey(c) ==
  CASE c.bearer \in Keys -> c.bearer
    [] c.bearer = NoKey /\ c.header \in Keys -> c.header
    [] c.bearer = NoKey /\ c.header = NoKey -> c.query
    [] OTHER -> NoKey

(* The handler of a request that is over. *)
Leave(c) ==
  /\ pc' = [pc EXCEPT ![c] = "idle"]
  /\ key' = [key EXCEPT ![c] = NoKey]
  /\ entry' = [entry EXCEPT ![c] = NoRow]
  /\ tier' = [tier EXCEPT ![c] = Anonymous]
  /\ entitled' = [entitled EXCEPT ![c] = {}]
  /\ barred' = barred \ {c}

OnlyClient == UNCHANGED <<rows, allow, apc, job, granted, revoked>>

(* A request that presents a key is looked up. *)
Ask(c, cred) ==
  LET k == ExtractApiKey(cred) IN
  /\ pc[c] = "idle" /\ k \in Keys
  /\ pc' = [pc EXCEPT ![c] = "lookup"]
  /\ key' = [key EXCEPT ![c] = k]
  /\ entitled' = [entitled EXCEPT ![c] = {t \in Tiers : <<k, t>> \in granted}]
  /\ barred' = IF k \in revoked THEN barred \cup {c} ELSE barred \ {c}
  /\ UNCHANGED <<entry, tier>>
  /\ OnlyClient

(* One without goes on unauthenticated if the configuration allows it; else *)
(* it is answered 401 and nothing changes.                                  *)
AskWithoutKey(c, cred) ==
  /\ pc[c] = "idle" /\ ExtractApiKey(cred) = NoKey
  /\ allow
  /\ pc' = [pc EXCEPT ![c] = "served"]
  /\ UNCHANGED <<key, entry, tier, entitled, barred>>
  /\ OnlyClient

(* Here and below, a definition marked Mutant is the next unmarked one with *)
(* a plausible slip in the code.  No specification uses it; putting it in   *)
(* the other's place shows that a property notices.                         *)

(* Mutant: the hash is not verified. *)
LookupUnverified(c) ==
  /\ pc[c] = "lookup"
  /\ entry' = [entry EXCEPT ![c] = rows[KeyId[key[c]]]]
  /\ pc' = [pc EXCEPT ![c] = "decide"]
  /\ UNCHANGED <<key, tier, entitled, barred>>
  /\ OnlyClient

(* Mutant: the query selects keys that are not revoked. *)
LookupUnrevoked(c) ==
  /\ pc[c] = "lookup"
  /\ LET row == rows[KeyId[key[c]]] IN
       entry' = [entry EXCEPT ![c] =
                   IF row.key_hash = key[c] /\ ~row.is_revoked THEN row ELSE NoRow]
  /\ pc' = [pc EXCEPT ![c] = "decide"]
  /\ UNCHANGED <<key, tier, entitled, barred>>
  /\ OnlyClient

(* SqliteKeyStore::lookup: the row of the key's id, if its hash verifies. *)
Lookup(c) ==
  /\ pc[c] = "lookup"
  /\ LET row == rows[KeyId[key[c]]] IN
       entry' = [entry EXCEPT ![c] = IF row.key_hash = key[c] THEN row ELSE NoRow]
  /\ pc' = [pc EXCEPT ![c] = "decide"]
  /\ UNCHANGED <<key, tier, entitled, barred>>
  /\ OnlyClient

(* The statement fails: 500. *)
LookupFails(c) == pc[c] = "lookup" /\ Leave(c) /\ OnlyClient

(* The rest of the middleware works on the row as it was read. *)
Authenticate(c) ==
  /\ pc[c] = "decide" /\ Present(entry[c]) /\ ~entry[c].is_revoked
  /\ tier' = [tier EXCEPT ![c] = entry[c].tier]
  /\ pc' = [pc EXCEPT ![c] = "served"]
  /\ UNCHANGED <<key, entry, entitled, barred>>
  /\ OnlyClient

(* 403. *)
Forbid(c) ==
  /\ pc[c] = "decide" /\ Present(entry[c]) /\ entry[c].is_revoked
  /\ Leave(c) /\ OnlyClient

(* An unknown key counts as none if the configuration allows it, else 401. *)
PassUnknown(c) ==
  /\ pc[c] = "decide" /\ ~Present(entry[c]) /\ allow
  /\ pc' = [pc EXCEPT ![c] = "served"]
  /\ UNCHANGED <<key, entry, tier, entitled, barred>>
  /\ OnlyClient

RefuseUnknown(c) ==
  /\ pc[c] = "decide" /\ ~Present(entry[c]) /\ ~allow
  /\ Leave(c) /\ OnlyClient

(* The layers below are done with the request. *)
Finish(c) == pc[c] = "served" /\ Leave(c) /\ OnlyClient

Client(c) ==
  \/ \E cred \in Credentials : Ask(c, cred) \/ AskWithoutKey(c, cred)
  \/ Lookup(c) \/ LookupFails(c)
  \/ Authenticate(c) \/ Forbid(c) \/ PassUnknown(c) \/ RefuseUnknown(c)
  \/ Finish(c)

-----------------------------------------------------------------------------
(***************************************************************************)
(* The admin handlers.  A request without a key to create is answered 400  *)
(* and changes nothing.                                                    *)
(***************************************************************************)
OnlyAdmin == UNCHANGED <<allow, clientVars>>

Idle(a) ==
  /\ apc' = [apc EXCEPT ![a] = "idle"]
  /\ job' = [job EXCEPT ![a] = NoJob]

(* keys_create_handler has read its payload; create_key hashes the key. *)
AskCreate(a, k, t) ==
  /\ apc[a] = "idle"
  /\ apc' = [apc EXCEPT ![a] = "insert"]
  /\ job' = [job EXCEPT ![a] = [key |-> k, tier |-> t]]
  /\ UNCHANGED <<rows, granted, revoked>>
  /\ OnlyAdmin

NewRow(j) == [key_hash |-> j.key, tier |-> j.tier, is_revoked |-> FALSE]

(* Mutant: INSERT OR REPLACE. *)
InsertOrReplace(a) ==
  /\ apc[a] = "insert"
  /\ rows' = [rows EXCEPT ![KeyId[job[a].key]] = NewRow(job[a])]
  /\ apc' = [apc EXCEPT ![a] = "created"]
  /\ UNCHANGED <<job, granted, revoked>>
  /\ OnlyAdmin

(* Mutant: INSERT OR IGNORE. *)
InsertOrIgnore(a) ==
  /\ apc[a] = "insert"
  /\ LET i == KeyId[job[a].key] IN
       rows' = IF Present(rows[i]) THEN rows
               ELSE [rows EXCEPT ![i] = NewRow(job[a])]
  /\ apc' = [apc EXCEPT ![a] = "created"]
  /\ UNCHANGED <<job, granted, revoked>>
  /\ OnlyAdmin

(* The INSERT succeeds: the id is not in the table. *)
Insert(a) ==
  /\ apc[a] = "insert"
  /\ ~Present(rows[KeyId[job[a].key]])
  /\ rows' = [rows EXCEPT ![KeyId[job[a].key]] = NewRow(job[a])]
  /\ apc' = [apc EXCEPT ![a] = "created"]
  /\ UNCHANGED <<job, granted, revoked>>
  /\ OnlyAdmin

(* It violates the primary key, as a retry does, or fails otherwise: 500. *)
InsertFails(a) ==
  /\ apc[a] = "insert"
  /\ Idle(a)
  /\ UNCHANGED <<rows, granted, revoked>>
  /\ OnlyAdmin

(* keys_delete_handler: the UPDATE finds a row.  If it finds none (404) or  *)
(* fails (500), nothing changes.                                            *)
Revoke(a, i) ==
  /\ apc[a] = "idle" /\ Present(rows[i])
  /\ rows' = [rows EXCEPT ![i].is_revoked = TRUE]
  /\ apc' = [apc EXCEPT ![a] = "revoked"]
  /\ job' = [job EXCEPT ![a] = [key |-> rows[i].key_hash, tier |-> rows[i].tier]]
  /\ UNCHANGED <<granted, revoked>>
  /\ OnlyAdmin

(* 201 and 200: the operator knows that the key is valid, or void. *)
ReplyCreated(a) ==
  /\ apc[a] = "created"
  /\ granted' = granted \cup {<<job[a].key, job[a].tier>>}
  /\ Idle(a)
  /\ UNCHANGED <<rows, revoked>>
  /\ OnlyAdmin

ReplyRevoked(a) ==
  /\ apc[a] = "revoked"
  /\ revoked' = revoked \cup {job[a].key}
  /\ Idle(a)
  /\ UNCHANGED <<rows, granted>>
  /\ OnlyAdmin

Admin(a) ==
  \/ \E k \in Keys, t \in Tiers : AskCreate(a, k, t)
  \/ \E i \in Ids : Revoke(a, i)
  \/ Insert(a) \/ InsertFails(a)
  \/ ReplyCreated(a) \/ ReplyRevoked(a)

-----------------------------------------------------------------------------
(* The process dies at any moment and starts again, perhaps with another    *)
(* configuration.  CREATE TABLE IF NOT EXISTS finds the table and keeps it. *)
Restart ==
  /\ allow' \in BOOLEAN
  /\ pc' = [c \in Clients |-> "idle"]
  /\ key' = [c \in Clients |-> NoKey]
  /\ entry' = [c \in Clients |-> NoRow]
  /\ tier' = [c \in Clients |-> Anonymous]
  /\ entitled' = [c \in Clients |-> {}]
  /\ barred' = {}
  /\ apc' = [a \in Admins |-> "idle"]
  /\ job' = [a \in Admins |-> NoJob]
  /\ UNCHANGED <<rows, granted, revoked>>

Next ==
  \/ \E c \in Clients : Client(c)
  \/ \E a \in Admins : Admin(a)
  \/ Restart

Spec == Init /\ [][Next]_vars

-----------------------------------------------------------------------------
(* The table holds key k. *)
Holds(k) == rows[KeyId[k]].key_hash = k

(***************************************************************************)
(* What an operator was told stays true, whatever else is created, retried *)
(* or revoked at the same time and however often the gateway restarts: an  *)
(* acknowledged key is in the table in the tier it was given, an           *)
(* acknowledged revocation is recorded.                                    *)
(***************************************************************************)
AcksAreDurable ==
  /\ \A k \in Keys, t \in Tiers : <<k, t>> \in granted =>
       Holds(k) /\ rows[KeyId[k]].tier = t
  /\ \A k \in revoked : Holds(k) /\ rows[KeyId[k]].is_revoked

(***************************************************************************)
(* A request that presents a key whose revocation was acknowledged before  *)
(* the request began is not served: not in its old tier, not after someone *)
(* creates the key again, and not as an unauthenticated request either.    *)
(***************************************************************************)
RevocationIsFinal ==
  \A c \in Clients : pc[c] = "served" => c \notin barred

(***************************************************************************)
(* A key whose creation was acknowledged before the request began is never *)
(* taken for unknown, and counts in the tier it was given.                 *)
(***************************************************************************)
GrantedIsHonoured ==
  \A c \in Clients : pc[c] \in {"decide", "served"} /\ entitled[c] # {} =>
    Present(entry[c]) /\ entry[c].tier \in entitled[c]

(***************************************************************************)
(* A request is served in a tier only if the table holds that very key in  *)
(* that very tier, even when two keys have the same id.                    *)
(***************************************************************************)
ServedInItsTier ==
  \A c \in Clients : pc[c] = "served" /\ tier[c] # Anonymous =>
    Holds(key[c]) /\ rows[KeyId[key[c]]].tier = tier[c]

=============================================================================
