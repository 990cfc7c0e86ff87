------------------------------ MODULE Selection ------------------------------
(***************************************************************************)
(* What a comprehension over a list keeps of it, in the list's order.      *)
(***************************************************************************)
EXTENDS Integers, Sequences, FiniteSets

\* the k-th smallest of the places in a set, and what a list holds at those places
Nth(places, k) == CHOOSE i \in places : Cardinality({j \in places : j <= i}) = k
Kept(list, places) == [k \in 1..Cardinality(places) |-> list[Nth(places, k)]]
=============================================================================
