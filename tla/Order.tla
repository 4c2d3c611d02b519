-------------------------------- MODULE Order --------------------------------
(***************************************************************************)
(* Sorting, as Array.sort and ORDER BY do it where no two elements compare *)
(* equal: an element stands behind all that precede it.                    *)
(***************************************************************************)
EXTENDS Integers, FiniteSets

InOrder(S, Precedes(_, _)) ==
    [i \in 1..Cardinality(S) |->
        CHOOSE x \in S : Cardinality({y \in S : Precedes(y, x)}) = i - 1]
=============================================================================
