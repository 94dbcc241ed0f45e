------------------------------- MODULE MCQueries -------------------------------
(***************************************************************************)
(* Small instances of Queries for TLC.                                     *)
(***************************************************************************)
EXTENDS Queries

CONSTANTS p1, p2, q1, q2, b
=============================================================================
