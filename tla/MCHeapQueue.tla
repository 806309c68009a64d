------------------------------ MODULE MCHeapQueue ------------------------------
(* Instances of HeapQueue for TLC. *)
EXTENDS HeapQueue

MCUnit == 1 .. 7

Free == [u \in MCUnit |-> {}]
\* One dependent, a fan with a tail, two nested groups (a diamond and a pair), and a line.
Single == [Free EXCEPT ![7] = {1}]
Fan == [Free EXCEPT ![5] = {1}, ![7] = {1}, ![3] = {7}]
Nested == [Free EXCEPT ![2] = {1}, ![3] = {1}, ![4] = {2, 3}, ![6] = {5}]
Line == [Free EXCEPT ![7] = {1}, ![6] = {7}, ![5] = {6}]
MCGraphs == {Single, Fan, Nested, Line}

\* Falling, mixed and mostly tied weights, zero among them.
Falling == [u \in MCUnit |-> 20 - u]
Mixed == [u \in MCUnit |-> CASE u = 1 -> 20 [] u = 2 -> 10 [] u \in {3, 5, 6} -> 1
                             [] u = 4 -> 9 [] u = 7 -> 8]
Tied == [u \in MCUnit |-> IF u \in {1, 4} THEN 3 ELSE 0]
MCWeights == {Falling, Mixed, Tied}

\* The second and the third order lay the heap out so that a removal in its
\* middle must sift up, and so that a cascade's walk passes a unit by.
MCWorks == {<<1, 2, 3, 4, 5, 6, 7>>, <<4, 5, 1, 6, 2, 3, 7>>, <<7, 4, 2, 6, 1, 3, 5>>}
=============================================================================
