---------------------------- MODULE MCMessageIngress ----------------------------
(***************************************************************************)
(* Small instances of MessageIngress for TLC.                              *)
(***************************************************************************)
EXTENDS MessageIngress

CONSTANTS p1, a, b

\* Messages of one peer, written one instant after the other: each passes
\* verifyTimestamp from MaxSkew before it was written to MaxAge after.
Valid(i) == [sender |-> p1, id |-> i, timestamp |-> IF i = a THEN 0 ELSE 1,
             signed |-> TRUE, genuine |-> TRUE]
Unsigned(i) == [Valid(i) EXCEPT !.signed = FALSE]
Tampered(i) == [Valid(i) EXCEPT !.genuine = FALSE]

MCPeers == {p1}
MCIds == {a, b}
MCMixed == {Valid(a), Valid(b), Unsigned(b)}
MCInvalid == {Unsigned(a), Tampered(b)}
MCPeerCapacity == [k \in Kinds |-> 1]

\* The limiter observed from its construction.
MCInit == IngressInit /\ since = [p \in Peers |-> 0]
MCSpec == MCInit /\ [][IngressNext]_ingressVars
=============================================================================
