----------------------------- MODULE MCBalancer -----------------------------
(* An instance of RoundRobin for TLC. *)
EXTENDS RoundRobin, TLC

MCWeight == 1 :> 3 @@ 2 :> 1 @@ 3 :> 2 @@ 4 :> 1

=============================================================================
