------------------------------ MODULE MCRunReport ------------------------------
EXTENDS RunReport

CONSTANTS a, b

\* Two units, one of which needs the other, of one module and of two; and one unit that is
\* found cached, or is not, while it runs.
Pair(m) ==
  [module |-> m, needs |-> [u \in {a, b} |-> IF u = b THEN {a} ELSE {}], upToDate |-> {}]

LayoutValues ==
  {Pair([u \in {a, b} |-> a]), Pair([u \in {a, b} |-> u]),
   [module |-> [u \in {a} |-> a], needs |-> [u \in {a} |-> {}], upToDate |-> {a}]}

=============================================================================
