----------------------------- MODULE Selections -----------------------------
(* What a loop over a list leaves of it, by position. *)
EXTENDS Naturals, FiniteSets, Sequences

\* The elements of d at the positions P, in their order: the n-th of them is at
\* the position of P that n positions of P do not exceed.
Select(d, P) ==
    [n \in 1..Cardinality(P) |->
       d[CHOOSE i \in P : Cardinality({j \in P : j <= i}) = n]]
=============================================================================
