--------------------------- MODULE MCRateLimiter ----------------------------
(* Instances of RateLimiter for TLC.  An API key's tier and a client's      *)
(* forwarding headers are all that distinguishes two clients.               *)
EXTENDS RateLimiter, TLC

NoTier == "none"

(* Two keys that share the bucket of their tier, one in a tier that is never *)
(* refilled, and one whose tier is not configured, which shares the bucket  *)
(* of its address with a client without key.                                *)
MCTier == [c \in Clients |-> CASE c \in {"key1", "key2"} -> "free"
                               [] c = "key3" -> "once"
                               [] c = "key4" -> "gone"
                               [] c = "anon" -> NoTier]
MCIp == [c \in Clients |-> "unknown"]
MCTierRps   == "free" :> 2 @@ "once" :> 0
MCTierBurst == "free" :> 2 @@ "once" :> 1

=============================================================================
