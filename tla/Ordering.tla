------------------------------ MODULE Ordering ------------------------------
(* Sets of numbers in ascending order, as ORDER BY id returns its rows. *)
EXTENDS Naturals, FiniteSets

\* The i-th element of S has i - 1 elements before it.
Ascending(S) ==
    [i \in 1..Cardinality(S) |-> CHOOSE x \in S : Cardinality({y \in S : y < x}) = i - 1]
=============================================================================
