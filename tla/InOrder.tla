------------------------------- MODULE InOrder -------------------------------
(* The elements of a sequence at a set of places, in the order of the places. *)
EXTENDS Integers, Sequences, FiniteSets

\* The numbers of a finite set, smallest first.
Sorted(S) ==
    [i \in 1 .. Cardinality(S) |->
        CHOOSE x \in S : Cardinality({y \in S : y <= x}) = i]

Selected(s, S) == LET at == Sorted(S) IN [k \in DOMAIN at |-> s[at[k]]]
=============================================================================
