---------------------------- MODULE MCUnitScheduler ----------------------------
(* Instances of UnitScheduler for TLC. *)
EXTENDS UnitScheduler, TLC

MCUnit == {"a", "b", "c", "d"}

Free == [u \in MCUnit |-> {}]
Chain == [Free EXCEPT !["b"] = {"a"}, !["c"] = {"b"}]
Diamond == [Free EXCEPT !["b"] = {"a"}, !["c"] = {"a"}, !["d"] = {"b", "c"}]
Join == [Free EXCEPT !["d"] = {"a", "b"}, !["c"] = {"a"}]
MCGraphs == {Chain, Diamond, Join}
DiamondOnly == {Diamond}

\* a and d each take most of the pool, c more than it holds; b and d are container work.
MCHostWeight == [u \in MCUnit |-> CASE u = "b" -> 1 [] u = "c" -> 4 [] OTHER -> 2]
MCDockerWeight == [u \in MCUnit |-> IF u \in {"b", "d"} THEN 1 ELSE 0]
MCCacheable == {"b"}

\* The goroutines are interchangeable.
Symmetry == Permutations(Worker)
=============================================================================
