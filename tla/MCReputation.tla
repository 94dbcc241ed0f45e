----------------------------- MODULE MCReputation -----------------------------
(***************************************************************************)
(* Small instances of Reputation for TLC.                                  *)
(***************************************************************************)
EXTENDS Reputation

CONSTANTS good, bad, worse, worst, look, forgive

MCKindOf == [op \in Ops |-> CASE op = look -> "read"
                              [] op = forgive -> "reset"
                              [] OTHER -> "update"]
MCEventOf == [op \in Ops |-> CASE op = bad -> "invalid_signature"
                               [] op = worst -> "spam"
                               [] op = worse -> "invalid_message"
                               [] OTHER -> "valid_message"]
MCDeltaOf == [op \in Ops |-> CASE op = bad -> -2
                               [] op = worse -> -3
                               [] op = worst -> -3
                               [] OTHER -> 1]
=============================================================================
