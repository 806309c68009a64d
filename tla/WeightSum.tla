------------------------------- MODULE WeightSum -------------------------------
(***************************************************************************)
(* The sum of natural numbers over a finite set, as the number of pairs of *)
(* an element and one of its units.  It is defined without recursion.      *)
(***************************************************************************)
EXTENDS Integers, FiniteSets

\* One unit of x for each of 1 .. w[x].
UnitsOfWeight(S, w) == UNION {{x} \X (1 .. w[x]) : x \in S}

\* The sum of w[x] over S.
Total(S, w) == Cardinality(UnitsOfWeight(S, w))
=============================================================================
