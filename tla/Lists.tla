------------------------------- MODULE Lists -------------------------------
(***************************************************************************)
(* The walks over ordered maps and the retain of the standard library that *)
(* several components use, as functions and not by recursion, so that they *)
(* can be reasoned about.                                                  *)
(***************************************************************************)
EXTENDS Integers, FiniteSets, Sequences

\* The order in which the maps and sets of ids are walked (BTreeMap)
Ascending(S) ==
  CHOOSE list \in [1..Cardinality(S) -> S] :
    \A i, j \in 1..Cardinality(S) : i < j => list[i] < list[j]

\* What list has at the places I, in its order (retain)
Kept(list, I) == LET at == Ascending(I)
                 IN [k \in 1..Cardinality(I) |-> list[at[k]]]
=============================================================================
