------------------------------ MODULE MCGateway -----------------------------
(* An instance of Gateway for TLC. *)
EXTENDS Gateway, TLC

CONSTANTS r1, r2

OneId  == [k \in ApiKeys |-> 1]
OneRps == [t \in Tiers |-> 1]
Bearer == [bearer |-> "k", header |-> NoKey, query |-> NoKey]
Nothing == [bearer |-> NoKey, header |-> NoKey, query |-> NoKey]
MCOffers == [r \in Requests |-> IF r = r1 THEN {Bearer} ELSE {Nothing}]
OwnSlot == [q \in Queries |-> q]
MCTtl  == [q \in Queries |-> IF q = "getLedger" THEN 1 ELSE 0]

=============================================================================
