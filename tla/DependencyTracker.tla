--------------------------- MODULE DependencyTracker ---------------------------
(***************************************************************************)
(* core/scheduling, DependencyTracker: who waits for whom, who is done and *)
(* who failed.  A failed unit counts as completed too, so its dependents   *)
(* become ready and are told apart by HasFailedDependency.                 *)
(***************************************************************************)
CONSTANT Unit

VARIABLES
  depsOf,     \* forward map, fixed when the tracker is made
  completed,  \* done, successfully or not
  failed

\* Mutant: one completed dependency is enough.
IsReadyAny(u) == depsOf[u] = {} \/ depsOf[u] \cap completed # {}

IsReady(u) == depsOf[u] \subseteq completed

\* Mutant: executeOrSkipUnit trusts the cascade and does not look.
HasFailedDependencyNever(u) == FALSE

HasFailedDependency(u) == depsOf[u] \cap failed # {}

\* The reverse map, which ensureBlocks builds.
BlockedBy(u) == {v \in Unit : u \in depsOf[v]}

\* S holds every dependent of u, and of S, that had not failed before.
ClosedUnderCascade(S, u) ==
  \A v \in Unit \ (failed \cup {u}) :
     depsOf[v] \cap (S \cup {u}) # {} => v \in S

\* Mutants: the cascade stops at the direct dependents; it walks the forward map.
CascadeFailDirect(u) == BlockedBy(u) \ failed
CascadeFailForward(u) == depsOf[u]

\* What CascadeFail(u) marks, u being failed: the least such set.  (HeapQueue
\* has the recursion that computes it.)
CascadeFail(u) ==
  {v \in Unit : \A S \in SUBSET Unit : ClosedUnderCascade(S, u) => v \in S}
=============================================================================
