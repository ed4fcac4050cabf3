---------------------------- MODULE SubSequences ----------------------------
(* What is left of a sequence when only the elements at some positions stay. *)
EXTENDS Naturals, FiniteSets

(* The n-th smallest of a set of positions.                                 *)
Nth(P, n)  == CHOOSE i \in P : Cardinality({j \in P : j <= i}) = n
Pick(s, P) == [n \in 1..Cardinality(P) |-> s[Nth(P, n)]]
=============================================================================
