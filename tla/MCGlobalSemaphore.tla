--------------------------- MODULE MCGlobalSemaphore ---------------------------
(* Instances of GlobalSemaphore for TLC. *)
EXTENDS GlobalSemaphore, TLC

\* Processes, goroutines and uuids are interchangeable.
Symmetry == Permutations(Proc) \cup Permutations(Worker) \cup Permutations(AllocId)
=============================================================================
