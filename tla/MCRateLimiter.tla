----------------------------- MODULE MCRateLimiter -----------------------------
(***************************************************************************)
(* Small instances of RateLimiter for TLC: the buckets of two peers under  *)
(* one global bucket, and the duplicate map for two messages.              *)
(***************************************************************************)
EXTENDS RateLimiter, TLC

MCPeerCapacity == [k \in Kinds |-> IF k = "message" THEN 2 ELSE 1]
MCSymmetry == Permutations(Peers) \cup Permutations(Ids)
=============================================================================
