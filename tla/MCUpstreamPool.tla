--------------------------- MODULE MCUpstreamPool ---------------------------
(* Instances of UpstreamPool for TLC. *)
EXTENDS UpstreamPool, TLC

CONSTANTS r1, r2

RequestSymmetry == Permutations(Requests)

OnePool  == [u \in Upstreams |-> "main"]
TwoPools == [u \in Upstreams |-> IF u = 1 THEN "main" ELSE "archive"]
WrrAndRandom == [p \in Pools |-> IF p = "main" THEN "wrr" ELSE "random"]
AllWrr   == [p \in Pools |-> "wrr"]
AllLc    == [p \in Pools |-> "lc"]
UnitWeight == [u \in Upstreams |-> 1]
FirstHttp == [u \in Upstreams |-> IF u = 1 THEN "http" ELSE "invalid"]
AllHttp  == [u \in Upstreams |-> "http"]
OwnUrl   == [u \in Upstreams |-> u]
SameUrl  == [u \in Upstreams |-> 1]

=============================================================================
