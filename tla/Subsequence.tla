----------------------------- MODULE Subsequence -----------------------------
(***************************************************************************)
(* Array.filter and Array.slice by places: the places of an array that     *)
(* remain, and the array they make.  A place is known by its rank, how     *)
(* many of the places are no greater.                                      *)
(***************************************************************************)
EXTENDS Integers, FiniteSets, Sequences

\* The k-th of a set of numbers, in their order.
Nth(I, k) == CHOOSE i \in I : Cardinality({j \in I : j <= i}) = k

\* The elements of s at the places I, in their order.
Picked(s, I) == [k \in 1 .. Cardinality(I) |-> s[Nth(I, k)]]

\* The first and the last n of the places I.
FirstPlaces(I, n) == {i \in I : Cardinality({j \in I : j <= i}) <= n}
LastPlaces(I, n) == {i \in I : Cardinality({j \in I : j >= i}) <= n}
=============================================================================
