---------------------------- MODULE MCLifecycle -----------------------------
(* Instances of Lifecycle for TLC: one family of configurations varies the  *)
(* servers, the other the pools and the routing.                            *)
EXTENDS Lifecycle

OwnPort == [s \in Servers |-> s]
SharedPort == [OwnPort EXCEPT !["metrics"] = "admin"]

Good ==
  [pools |-> <<[name |-> "a", upstreams |-> <<1>>]>>, default_pool |-> "a",
   rules |-> <<>>, healthy_threshold |-> 2, unhealthy_threshold |-> 3,
   health_method |-> "getHealth", redis_backends |-> {}, redis_url |-> FALSE,
   auth |-> FALSE, tls |-> FALSE, metrics |-> FALSE, bind |-> OwnPort]

ServerConfigs ==
  {[Good EXCEPT !.auth = a, !.tls = t, !.metrics = m, !.bind = p] :
     a \in BOOLEAN, t \in BOOLEAN, m \in BOOLEAN, p \in {OwnPort, SharedPort}}

OtherConfigs ==
  {[Good EXCEPT !.healthy_threshold = 0], [Good EXCEPT !.health_method = ""],
   [Good EXCEPT !.redis_backends = {"cache"}, !.redis_url = TRUE],
   [Good EXCEPT !.redis_backends = {"auth"}]}

PoolLists ==
  LET p(n, ws) == [name |-> n, upstreams |-> ws] IN
  {<<>>, <<p("a", <<1, 0>>)>>, <<p("a", <<1>>)>>, <<p("a", <<2>>), p("b", <<1, 1>>)>>,
   <<p("b", <<1>>), p("b", <<>>)>>, <<p("b", <<1>>), p("b", <<2>>)>>}

RoutingConfigs ==
  {[Good EXCEPT !.pools = p, !.default_pool = d, !.rules = r] :
     p \in PoolLists, d \in PoolNames,
     r \in {<<>>} \cup {<<x>> : x \in Rule} \cup {<<x, y>> : x \in Rule, y \in Rule}}

MCConfigs == ServerConfigs \cup OtherConfigs \cup RoutingConfigs

=============================================================================
