------------------------------- MODULE Config -------------------------------
(***************************************************************************)
(* The configuration (config/mod.rs), its validation (config/validate.rs)  *)
(* and the routing table made from it (routing/mod.rs), as far as they     *)
(* decide whether the gateway starts, which pool a method goes to and      *)
(* which servers run.  An upstream is represented by its weight and a      *)
(* server's address by what makes two of them collide.                     *)
(***************************************************************************)
EXTENDS Integers, Sequences

CONSTANTS Methods, PoolNames, Addresses

Servers == {"main", "admin", "metrics"}

Pool == [name : PoolNames, upstreams : Seq(Nat)]
Rule == [methods : SUBSET Methods, pool : PoolNames]

(* redis_backends: the features that are enabled with a Redis backend. *)
Config ==
  [pools : Seq(Pool), default_pool : PoolNames, rules : Seq(Rule),
   healthy_threshold : Nat, unhealthy_threshold : Nat, health_method : STRING,
   redis_backends : SUBSET {"cache", "rate_limit", "auth"}, redis_url : BOOLEAN,
   auth : BOOLEAN, tls : BOOLEAN, metrics : BOOLEAN,
   bind : [Servers -> Addresses]]

DefinedPools(c) == {c.pools[i].name : i \in DOMAIN c.pools}

(* What every pool, and what the routing must satisfy. *)
PoolsValid(c) ==
  /\ c.pools # <<>>
  /\ \A i \in DOMAIN c.pools :
       /\ c.pools[i].upstreams # <<>>
       /\ \A j \in DOMAIN c.pools[i].upstreams : c.pools[i].upstreams[j] > 0

(* Here and below, a definition marked Mutant is the next unmarked one with *)
(* a plausible slip in the code.  No specification uses it; putting it in   *)
(* the other's place shows that a property notices.                         *)

(* Mutant: the pools that rules name are not looked up. *)
RoutingValidDefaultOnly(c) ==
  /\ c.default_pool \in DefinedPools(c)
  /\ \A i \in DOMAIN c.rules : c.rules[i].methods # {}

RoutingValid(c) ==
  /\ c.default_pool \in DefinedPools(c)
  /\ \A i \in DOMAIN c.rules :
       c.rules[i].methods # {} /\ c.rules[i].pool \in DefinedPools(c)

Validate(c) ==
  /\ PoolsValid(c)
  /\ c.healthy_threshold > 0 /\ c.unhealthy_threshold > 0
  /\ c.health_method # ""
  /\ RoutingValid(c)
  /\ c.redis_backends # {} => c.redis_url

(* Router::new: the map after each of the rules, whose inserts overwrite. *)
Inserted(table, rule) ==
  [m \in rule.methods \cup DOMAIN table |->
     IF m \in rule.methods THEN rule.pool ELSE table[m]]

Tables(c) ==
  LET after[i \in 0..Len(c.rules)] ==
        IF i = 0 THEN [m \in {} |-> c.default_pool]
        ELSE Inserted(after[i - 1], c.rules[i])
  IN  after

(* So the last rule that names a method decides; Router::route falls back  *)
(* to the default pool.                                                    *)
RulesFor(c, m) == {i \in DOMAIN c.rules : m \in c.rules[i].methods}

(* Mutant: a method that is in the map already is left alone. *)
FirstRule(c, m) == CHOOSE i \in RulesFor(c, m) : \A j \in RulesFor(c, m) : i <= j

LastRule(c, m) == CHOOSE i \in RulesFor(c, m) : \A j \in RulesFor(c, m) : j <= i

Route(c, m) ==
  IF RulesFor(c, m) = {} THEN c.default_pool ELSE c.rules[LastRule(c, m)].pool

(* proxy_handler takes the first pool of that name. *)
IsPool(c, n, i) ==
  /\ i \in DOMAIN c.pools /\ c.pools[i].name = n
  /\ \A j \in 1..(i - 1) : c.pools[j].name # n

=============================================================================
