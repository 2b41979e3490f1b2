------------------------------ MODULE Ranking -------------------------------
(***************************************************************************)
(* A finite set of numbers, counted through from the smallest.             *)
(***************************************************************************)
EXTENDS Naturals, FiniteSets

Rank(S, x) == Cardinality({y \in S : y <= x})
Nth(S, n) == CHOOSE x \in S : Rank(S, x) = n
=============================================================================
