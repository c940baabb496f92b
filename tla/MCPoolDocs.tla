----------------------------- MODULE MCPoolDocs -----------------------------
(* What the repository's documents say about the pool, stated as a property *)
(* of UpstreamPool that the code violates.                                  *)
EXTENDS MCUpstreamPool

(* ARCHITECTURE.md, load balancing: LeastConnections "Picks upstream with   *)
(* fewest active connections".  The count it compares is not the number of  *)
(* active connections once a client has disconnected mid-request.           *)
CountsOnlyActiveConnections ==
  \A u \in Upstreams : conn[u] = Cardinality(InFlight(u))

=============================================================================
