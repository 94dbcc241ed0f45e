----------------------------- MODULE MCBlocklist -----------------------------
(***************************************************************************)
(* Small instances of Blocklist for TLC: two bans of one peer, for         *)
(* different reasons, the first temporary.  Peers share only the index of  *)
(* a reason, which nothing reads but to write it.                          *)
(***************************************************************************)
EXTENDS Blocklist

CONSTANTS p1, spam, policy, short, long

MCPeerOf == [b \in Bans |-> p1]
MCReasonOf == [b \in Bans |-> IF b = long THEN policy ELSE spam]
MCTemporary == Bans \cap {short}
=============================================================================
