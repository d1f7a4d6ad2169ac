------------------------------ MODULE Selection ------------------------------
(***************************************************************************)
(* SelectSeq without recursion, so that it can be reasoned about: the      *)
(* entries at some places of a sequence, in their order.                   *)
(***************************************************************************)
EXTENDS Naturals, Sequences, FiniteSets

\* How many of the places are not behind i.
Rank(places, i) == Cardinality({j \in places : j <= i})

Selected(s, places) ==
    [k \in 1..Cardinality(places) |-> s[CHOOSE i \in places : Rank(places, i) = k]]
=============================================================================
