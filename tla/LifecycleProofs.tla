--------------------------- MODULE LifecycleProofs --------------------------
(* Proofs about Lifecycle, for every set of configuration files. *)
EXTENDS Lifecycle, WellFoundedInduction, TLAPS

(* A nonempty set of numbers has a least element. *)
LEMMA LeastExists ==
  ASSUME NEW T \in SUBSET Nat, T # {}
  PROVE  \E x \in T : \A y \in T : x <= y
<1>1. IsWellFoundedOn(OpToRel(<, Nat), Nat)
  BY NatLessThanWellFounded
<1>2. PICK x \in T : \A y \in T : ~ (<<y, x>> \in OpToRel(<, Nat))
  BY <1>1, WFMin, Zenon
<1>3. \A y \in T : ~ (y < x)
  BY <1>2 DEF OpToRel
<1>4. \A y \in T : x <= y
  BY <1>3
<1> QED BY <1>4

(* A nonempty set of indices of a sequence has a greatest element. *)
LEMMA GreatestExists ==
  ASSUME NEW n \in Nat, NEW T \in SUBSET (1..n), T # {}
  PROVE  \E x \in T : \A y \in T : y <= x
<1> DEFINE D == {n - x : x \in T}
<1>0. \A x \in T : n - x \in Nat
  OBVIOUS
<1>1. D \in SUBSET Nat /\ D # {}
  BY <1>0
<1>2. PICK d \in D : \A e \in D : d <= e
  BY <1>1, LeastExists
<1>3. PICK x \in T : d = n - x
  BY <1>2
<1>4. \A y \in T : n - y \in D
  OBVIOUS
<1>5. \A y \in T : n - x <= n - y
  BY <1>2, <1>3, <1>4
<1> QED BY <1>3, <1>5

(* The rule that decides about a method is the last one that names it. *)
LEMMA LastRuleNames ==
  ASSUME NEW c \in Config, NEW m, RulesFor(c, m) # {}
  PROVE  /\ LastRule(c, m) \in RulesFor(c, m)
         /\ \A j \in RulesFor(c, m) : j <= LastRule(c, m)
<1>1. Len(c.rules) \in Nat /\ DOMAIN c.rules = 1..Len(c.rules)
  BY DEF Config
<1>2. RulesFor(c, m) \in SUBSET (1..Len(c.rules))
  BY <1>1 DEF RulesFor
<1>3. \E i \in RulesFor(c, m) : \A j \in RulesFor(c, m) : j <= i
  BY <1>1, <1>2, GreatestExists
<1> QED BY <1>3, Zenon DEF LastRule

(* A valid configuration routes every method to a pool it defines. *)
LEMMA RouteIsDefined ==
  ASSUME NEW c \in Config, RoutingValid(c), NEW m
  PROVE  Route(c, m) \in DefinedPools(c)
<1>1. CASE RulesFor(c, m) = {}
  BY <1>1 DEF Route, RoutingValid
<1>2. CASE RulesFor(c, m) # {}
  <2>1. LastRule(c, m) \in DOMAIN c.rules
    BY <1>2, LastRuleNames DEF RulesFor
  <2> QED BY <1>2, <2>1 DEF Route, RoutingValid
<1> QED BY <1>1, <1>2

(* A pool that is defined is found, and the one found is the first. *)
LEMMA FirstPoolExists ==
  ASSUME NEW c \in Config, NEW n \in DefinedPools(c)
  PROVE  \E i \in DOMAIN c.pools : IsPool(c, n, i)
<1> DEFINE T == {i \in DOMAIN c.pools : c.pools[i].name = n}
<1>1. Len(c.pools) \in Nat /\ DOMAIN c.pools = 1..Len(c.pools)
  BY DEF Config
<1>2. T \in SUBSET Nat /\ T # {}
  BY <1>1 DEF DefinedPools
<1>3. PICK i \in T : \A j \in T : i <= j
  BY <1>2, LeastExists
<1>4. \A j \in 1..(i - 1) : c.pools[j].name # n
  BY <1>1, <1>3
<1> QED BY <1>3, <1>4 DEF IsPool

-----------------------------------------------------------------------------
(* One step of the recursion in Tables. *)
AfterRule(c, f, i) ==
  IF i = 0 THEN [m \in {} |-> c.default_pool] ELSE Inserted(f[i - 1], c.rules[i])

(* The recursion in Tables has a solution: a shortest sequence of rules     *)
(* without one would be one rule longer than one with.                      *)
LEMMA TablesDefined ==
  ASSUME NEW c \in Config
  PROVE  /\ DOMAIN Tables(c) = 0..Len(c.rules)
         /\ \A i \in 0..Len(c.rules) : Tables(c)[i] = AfterRule(c, Tables(c), i)
<1> DEFINE n == Len(c.rules)
           Solves(f, k) == f = [i \in 0..k |-> AfterRule(c, f, i)]
           Bad == {k \in 0..n : ~\E f : Solves(f, k)}
<1>0. n \in Nat
  BY DEF Config
<1>1. Bad = {}
  <2> SUFFICES ASSUME Bad # {} PROVE FALSE
    OBVIOUS
  <2>1. PICK k \in Bad : \A j \in Bad : k <= j
    <3>1. Bad \in SUBSET Nat
      BY <1>0
    <3> HIDE DEF Bad
    <3> QED BY <3>1, LeastExists
  <2>2. k # 0
    <3> DEFINE g == [i \in 0..0 |-> [m \in {} |-> c.default_pool]]
    <3>1. Solves(g, 0)
      BY DEF AfterRule
    <3> QED BY <3>1, <1>0
  <2>3. k \in Nat \ {0} /\ k <= n /\ k - 1 \in 0..n
    BY <1>0, <2>2
  <2>4. PICK f : Solves(f, k - 1)
    BY <2>1, <2>3
  <2> DEFINE g == [i \in 0..k |-> IF i = k THEN Inserted(f[k - 1], c.rules[k]) ELSE f[i]]
  <2> HIDE DEF n
  <2>5. DOMAIN f = 0..(k - 1) /\ \A i \in 0..(k - 1) : f[i] = AfterRule(c, f, i)
    BY <2>4, Zenon
  <2>6. ASSUME NEW i \in 0..k PROVE g[i] = AfterRule(c, g, i)
    <3>1. CASE i = k
      BY <2>3, <3>1 DEF AfterRule
    <3>2. CASE i # k
      <4>1. i \in 0..(k - 1) /\ g[i] = f[i] /\ (i # 0 => i - 1 \in 0..k /\ i - 1 # k)
        BY <2>3, <3>2
      <4>2. i # 0 => g[i - 1] = f[i - 1]
        BY <4>1
      <4> QED BY <2>5, <4>1, <4>2 DEF AfterRule
    <3> QED BY <3>1, <3>2
  <2>7. Solves(g, k)
    BY <2>6
  <2> QED BY <2>1, <2>7
<1>2. PICK t : Solves(t, n)
  BY <1>0, <1>1
<1>3. Solves(Tables(c), n)
  <2>1. Tables(c) = CHOOSE f : Solves(f, n)
    BY DEF Tables, AfterRule
  <2> QED BY <1>2, <2>1, Zenon
<1> QED BY <1>3, Zenon

(* After i rules the map holds a method that one of them names, with the    *)
(* pool of the last such rule.                                              *)
LEMMA TableHoldsLast ==
  ASSUME NEW c \in Config, NEW m, NEW n \in 0..Len(c.rules)
  PROVE  /\ m \in DOMAIN Tables(c)[n] <=> \E j \in 1..n : m \in c.rules[j].methods
         /\ \A j \in 1..n :
              /\ m \in c.rules[j].methods
              /\ \A k \in (j + 1)..n : m \notin c.rules[k].methods
              => Tables(c)[n][m] = c.rules[j].pool
<1> DEFINE t == Tables(c)
           Names(j) == m \in c.rules[j].methods
           Last(j, i) == Names(j) /\ \A k \in (j + 1)..i : ~Names(k)
           Right(i) == /\ m \in DOMAIN t[i] <=> \E j \in 1..i : Names(j)
                       /\ \A j \in 1..i : Last(j, i) => t[i][m] = c.rules[j].pool
           Bad == {i \in 0..Len(c.rules) : ~Right(i)}
<1>0. Len(c.rules) \in Nat
  BY DEF Config
<1>1. Bad = {}
  <2> SUFFICES ASSUME Bad # {} PROVE FALSE
    OBVIOUS
  <2>1. PICK i \in Bad : \A j \in Bad : i <= j
    <3>1. Bad \in SUBSET Nat
      BY <1>0
    <3> HIDE DEF Bad
    <3> QED BY <3>1, LeastExists
  <2>2. i \in 0..Len(c.rules) /\ ~Right(i)
    OBVIOUS
  <2>3. t[i] = AfterRule(c, t, i)
    BY <2>2, TablesDefined
  <2>4. CASE i = 0
    BY <2>2, <2>3, <2>4 DEF AfterRule
  <2>5. CASE i # 0
    <3>1. i \in Nat \ {0} /\ i - 1 \in 0..Len(c.rules) /\ i - 1 < i
      BY <1>0, <2>2, <2>5
    <3>2. Right(i - 1)
      BY <2>1, <3>1
    <3>3. t[i] = Inserted(t[i - 1], c.rules[i])
      BY <2>3, <2>5 DEF AfterRule
    <3>4. DOMAIN t[i] = c.rules[i].methods \cup DOMAIN t[i - 1]
      BY <3>3 DEF Inserted
    <3>5. m \in DOMAIN t[i] => t[i][m] = IF Names(i) THEN c.rules[i].pool ELSE t[i - 1][m]
      BY <3>3, <3>4 DEF Inserted
    <3> HIDE DEF t
    <3>6. m \in DOMAIN t[i] <=> \E j \in 1..i : Names(j)
      <4>1. \A j \in 1..i : j = i \/ j \in 1..(i - 1)
        BY <3>1
      <4>2. 1..(i - 1) \subseteq 1..i /\ i \in 1..i
        BY <3>1
      <4> QED BY <3>2, <3>4, <4>1, <4>2
    <3>7. ASSUME NEW j \in 1..i, Last(j, i) PROVE t[i][m] = c.rules[j].pool
      <4>1. m \in DOMAIN t[i]
        BY <3>6, <3>7
      <4>2. CASE j = i
        BY <3>5, <3>7, <4>1, <4>2
      <4>3. CASE j # i
        <5>1. j \in 1..(i - 1) /\ i \in (j + 1)..i
              /\ \A k \in (j + 1)..(i - 1) : k \in (j + 1)..i
          BY <3>1, <4>3
        <5>2. ~Names(i) /\ Last(j, i - 1)
          BY <3>7, <5>1
        <5> QED BY <3>2, <3>5, <4>1, <5>1, <5>2
      <4> QED BY <4>2, <4>3
    <3> QED BY <2>2, <3>6, <3>7
  <2> QED BY <2>4, <2>5
<1> QED BY <1>1

(* A look-up in the finished map gives what Route gives. *)
LEMMA RouteIsLookup ==
  ASSUME NEW c \in Config, NEW m
  PROVE  LET table == Tables(c)[Len(c.rules)] IN
         Route(c, m) = IF m \in DOMAIN table THEN table[m] ELSE c.default_pool
<1> DEFINE n == Len(c.rules)
           table == Tables(c)[n]
<1> SUFFICES Route(c, m) = IF m \in DOMAIN table THEN table[m] ELSE c.default_pool
  OBVIOUS
<1>1. n \in Nat /\ DOMAIN c.rules = 1..n
  BY DEF Config
<1>2. /\ m \in DOMAIN table <=> \E j \in 1..n : m \in c.rules[j].methods
      /\ \A j \in 1..n : /\ m \in c.rules[j].methods
                         /\ \A k \in (j + 1)..n : m \notin c.rules[k].methods
                         => table[m] = c.rules[j].pool
  <2>1. n \in 0..n
    BY <1>1
  <2> QED BY <2>1, TableHoldsLast
<1> HIDE DEF table
<1>3. m \in DOMAIN table <=> RulesFor(c, m) # {}
  BY <1>1, <1>2 DEF RulesFor
<1>4. CASE RulesFor(c, m) # {}
  <2> DEFINE j == LastRule(c, m)
  <2>1. j \in RulesFor(c, m) /\ \A i \in RulesFor(c, m) : i <= j
    BY <1>4, LastRuleNames
  <2> HIDE DEF j
  <2>2. j \in 1..n /\ m \in c.rules[j].methods
    BY <1>1, <2>1 DEF RulesFor
  <2>3. \A k \in (j + 1)..n : m \notin c.rules[k].methods
    BY <1>1, <2>1, <2>2 DEF RulesFor
  <2>4. table[m] = c.rules[j].pool
    BY <1>2, <2>2, <2>3
  <2> QED BY <1>3, <1>4, <2>4 DEF Route, j
<1>5. CASE RulesFor(c, m) = {}
  BY <1>3, <1>5 DEF Route
<1> QED BY <1>4, <1>5

-----------------------------------------------------------------------------
(* What serve has established when it is at each of its steps. *)
Validated ==
  /\ at \in {"build", "bind_main", "bind_admin", "spawn", "bind_metrics", "install",
            "signal", "notify"} \cup Joining \cup {"exit_ok"} => Validate(config)
  /\ task["main"] # "none" => Validate(config)

JoinedInOrder ==
  /\ at \in {"join_metrics", "join_admin", "exit_ok"} => task["main"] = "ended"
  /\ at \in {"join_admin", "exit_ok"} => task["metrics"] = "ended"
  /\ at = "exit_ok" => task["admin"] = "ended"

SpawnedInOrder ==
  /\ at \in {"load", "validate", "build", "bind_main", "bind_admin", "spawn"} =>
       task["main"] = "none" /\ task["admin"] = "none"
  /\ at \in Starting \ {"install"} => task["metrics"] = "none"

(* A request is in flight only in a server that has not ended. *)
OpenInServers ==
  \A s \in Servers : open[s] > 0 => task[s] \in {"serving", "draining"}

LInv ==
  TypeOK /\ Validated /\ JoinedInOrder /\ SpawnedInOrder /\ OpenInServers

LEMMA InitLInv == Init => LInv
BY ConfigAssumption DEF Init, LInv, TypeOK, Validated, JoinedInOrder, SpawnedInOrder,
  OpenInServers,  Starting, Joining, Exits, Servers

(* The addresses of a configuration are addresses. *)
LEMMA BindType == TypeOK => \A s \in Servers : config.bind[s] \in Addresses
BY ConfigAssumption DEF TypeOK, Config

(* The steps of main and serve. *)
LEMMA ServeLInv == LInv /\ (Serve \/ Signal) => LInv'
<1> SUFFICES ASSUME LInv, Serve \/ Signal PROVE LInv'
  OBVIOUS
<1>t. TypeOK /\ \A s \in Servers : config.bind[s] \in Addresses
  BY BindType DEF LInv
<1>1. TypeOK'
  <2>1. at' \in Starting \cup {"signal", "notify"} \cup Joining \cup Exits
    BY DEF Serve, Signal, Load, CheckConfig, BuildState, BindMain, BindAdmin, BindFails,
      Spawn, BindMetrics, NoMetrics, Install, Notify, Joins, Join, Go, Starting,
      Joining, Exits
  <2>2. bound' \in SUBSET Addresses
    BY <1>t DEF TypeOK, Serve, Signal, Load, CheckConfig, BuildState, BindMain, BindAdmin,
      BindFails, Binds, Spawn, BindMetrics, NoMetrics, Install, Notify, Joins, Join,
      Servers
  <2>3. UNCHANGED <<config, open>>
    BY DEF Serve, Signal, Load, CheckConfig, BuildState, BindMain, BindAdmin, BindFails,
      Spawn, BindMetrics, NoMetrics, Install, Notify, Joins, Join, Go, NoTask
  <2>4. task' \in [Servers ->
                     {"none", "spawned", "serving", "draining", "ended", "failed"}]
    BY <1>t DEF TypeOK, Serve, Signal, Load, CheckConfig, BuildState, BindMain, BindAdmin,
      BindFails, Spawn, BindMetrics, NoMetrics, Install, Notify, Joins, Join, NoTask
  <2>5. waiting' \in SUBSET Servers /\ told' \in SUBSET Servers
    BY <1>t DEF TypeOK, Serve, Signal, Load, CheckConfig, BuildState, BindMain, BindAdmin,
      BindFails, Spawn, BindMetrics, NoMetrics, Install, Notify, Joins, Join, NoTask
  <2> QED BY <1>t, <2>1, <2>2, <2>3, <2>4, <2>5 DEF TypeOK
<1>2. Validated'
  BY DEF LInv, Validated, TypeOK, Serve, Signal, Load, CheckConfig, BuildState, BindMain,
    BindAdmin, BindFails, Binds, Spawn, BindMetrics, NoMetrics, Install, Notify, Joins,
    Join, Go, NoTask, Starting, Joining, Servers
<1>3. JoinedInOrder'
  BY DEF LInv, JoinedInOrder, TypeOK, Serve, Signal, Load, CheckConfig, BuildState,
    BindMain, BindAdmin, BindFails, Binds, Spawn, BindMetrics, NoMetrics, Install, Notify,
    Joins, Join, Go, NoTask, Starting, Joining, Servers
<1>4. SpawnedInOrder'
  BY DEF LInv, SpawnedInOrder, TypeOK, Serve, Signal, Load, CheckConfig, BuildState,
    BindMain, BindAdmin, BindFails, Binds, Spawn, BindMetrics, NoMetrics, Install, Notify,
    Joins, Join, Go, NoTask, Starting, Joining, Servers
<1>5. OpenInServers'
  BY DEF LInv, OpenInServers, SpawnedInOrder, TypeOK, Serve, Signal, Load, CheckConfig,
    BuildState, BindMain, BindAdmin, BindFails, Binds, Spawn, BindMetrics, NoMetrics,
    Install, Notify, Joins, Join, Go, NoTask, Starting, Servers
<1> QED BY <1>1, <1>2, <1>3, <1>4, <1>5 DEF LInv

(* The steps of the server tasks. *)
LEMMA TaskLInv ==
  ASSUME LInv, NEW s \in Servers,
         Start(s) \/ StartTls \/ Register(s) \/ Accept(s) \/ Answer(s) \/ Drain(s) \/ End(s)
  PROVE  LInv'
<1>t. TypeOK /\ config.bind[s] \in Addresses /\ config.bind["main"] \in Addresses
  BY BindType DEF LInv, Servers
<1>1. TypeOK'
  BY <1>t DEF TypeOK, Start, StartTls, Register, Accept, Answer, Drain, End, Becomes
<1>2. Validated'
  BY DEF LInv, TypeOK, Validated, Start, StartTls, Register, Accept, Answer, Drain, End,
    Becomes, Servers
<1>3. JoinedInOrder'
  BY DEF LInv, TypeOK, JoinedInOrder, Start, StartTls, Register, Accept, Answer, Drain,
    End, Becomes, Servers
<1>4. SpawnedInOrder'
  BY DEF LInv, TypeOK, SpawnedInOrder, Start, StartTls, Register, Accept, Answer, Drain,
    End, Becomes, Servers
<1>5. OpenInServers'
  BY DEF LInv, TypeOK, OpenInServers, Start, StartTls, Register, Accept, Answer, Drain,
    End, Becomes, Servers
<1> QED BY <1>1, <1>2, <1>3, <1>4, <1>5 DEF LInv

(* The inductive invariant of the process. *)
THEOREM LInvHolds == Spec => []LInv
<1>1. LInv /\ [Next]_vars => LInv'
  <2> SUFFICES ASSUME LInv, [Next]_vars PROVE LInv'
    OBVIOUS
  <2>1. CASE Serve \/ Signal
    BY <2>1, ServeLInv
  <2>2. CASE StartTls
    BY <2>2, TaskLInv DEF Servers
  <2>3. ASSUME NEW s \in Servers,
               Start(s) \/ Register(s) \/ Accept(s) \/ Answer(s) \/ Drain(s) \/ End(s)
        PROVE  LInv'
    BY <2>3, TaskLInv
  <2>4. CASE UNCHANGED vars
    BY <2>4 DEF vars, LInv, TypeOK, Validated, JoinedInOrder, SpawnedInOrder,
      OpenInServers
  <2> QED BY <2>1, <2>2, <2>3, <2>4 DEF Next
<1> QED BY InitLInv, <1>1, PTL DEF Spec

(***************************************************************************)
(* Whatever configuration file the process was given: while the main       *)
(* server takes requests, proxy_handler finds a usable pool for every      *)
(* method, by whichever of several overlapping rules.                      *)
(***************************************************************************)
THEOREM RoutesReachPools == Spec => []RoutesReachAPool
<1>1. LInv => RoutesReachAPool
  <2> SUFFICES ASSUME LInv, task["main"] = "serving", NEW m \in Methods
               PROVE  \E i \in DOMAIN config.pools :
                        /\ IsPool(config, Route(config, m), i)
                        /\ config.pools[i].upstreams # <<>>
                        /\ \A j \in DOMAIN config.pools[i].upstreams :
                             config.pools[i].upstreams[j] > 0
    BY DEF RoutesReachAPool
  <2>1. config \in Config /\ Validate(config)
    BY ConfigAssumption DEF LInv, TypeOK, Validated
  <2>2. Route(config, m) \in DefinedPools(config)
    BY <2>1, RouteIsDefined DEF Validate
  <2>3. PICK i \in DOMAIN config.pools : IsPool(config, Route(config, m), i)
    BY <2>1, <2>2, FirstPoolExists
  <2>4. /\ config.pools[i].upstreams # <<>>
        /\ \A j \in DOMAIN config.pools[i].upstreams : config.pools[i].upstreams[j] > 0
    BY <2>1 DEF Validate, PoolsValid
  <2> QED BY <2>3, <2>4
<1> QED BY LInvHolds, <1>1, PTL

(***************************************************************************)
(* For every configuration file: Route, by which RoutesReachAPool and the  *)
(* proxy choose a pool, gives what a lookup in the map gives that          *)
(* Router::new fills insert by insert, however its rules overlap.          *)
(***************************************************************************)
THEOREM RoutesAreLookups == Spec => []RoutesLikeTheTable
<1>1. LInv => RoutesLikeTheTable
  <2>1. LInv => config \in Config
    BY ConfigAssumption DEF LInv, TypeOK
  <2> QED BY <2>1, RouteIsLookup DEF RoutesLikeTheTable
<1> QED BY LInvHolds, <1>1, PTL

(***************************************************************************)
(* An exit with success means that every server ended without an error and *)
(* answered every request it had accepted.                                 *)
(***************************************************************************)
THEOREM ExitIsClean == Spec => []CleanExit
<1>1. LInv => CleanExit
  BY DEF LInv, TypeOK, JoinedInOrder, OpenInServers, CleanExit, Servers
<1> QED BY LInvHolds, <1>1, PTL

=============================================================================
