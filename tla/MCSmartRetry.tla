----------------------------- MODULE MCSmartRetry -----------------------------
(***************************************************************************)
(* A small instance of SmartRetry for TLC: three callers, and profiles     *)
(* that allow one or two retries, or messages whose type allows none.      *)
(***************************************************************************)
EXTENDS SmartRetry
=============================================================================
