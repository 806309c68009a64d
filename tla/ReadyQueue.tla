------------------------------- MODULE ReadyQueue -------------------------------
(***************************************************************************)
(* What the dependency scheduler promises to the worker pool, with a set   *)
(* for a queue: a unit is handed out only when all it depends on is done,  *)
(* heaviest first; a failure marks every transitive dependent failed and   *)
(* takes some of those still queued out of the queue.                      *)
(***************************************************************************)
EXTENDS Integers, DependencyTracker

CONSTANTS Graphs, Weights

VARIABLES weight, queue, inflight

vars == <<depsOf, weight, queue, inflight, completed, failed>>

Init ==
  /\ depsOf \in Graphs
  /\ weight \in Weights
  /\ queue = Unit
  /\ inflight = {}
  /\ completed = {}
  /\ failed = {}

\* A unit of negative weight is never the heaviest.
HeaviestReady ==
  {u \in queue : /\ IsReady(u)
                 /\ weight[u] >= 0
                 /\ \A v \in queue : IsReady(v) => weight[v] <= weight[u]}

Take(u) ==
  /\ u \in HeaviestReady
  /\ queue' = queue \ {u}
  /\ inflight' = inflight \cup {u}
  /\ UNCHANGED <<depsOf, weight, completed, failed>>

Complete(u) ==
  /\ u \in inflight
  /\ inflight' = inflight \ {u}
  /\ completed' = completed \cup {u}
  /\ UNCHANGED <<depsOf, weight, queue, failed>>

FailCascade(u) ==
  /\ u \in inflight
  /\ inflight' = inflight \ {u}
  /\ failed' = failed \cup {u} \cup CascadeFail(u)
  /\ completed' = completed \cup {u} \cup CascadeFail(u)
  /\ \E removed \in SUBSET (queue \cap CascadeFail(u)) : queue' = queue \ removed
  /\ UNCHANGED <<depsOf, weight>>

Next == \E u \in Unit : Take(u) \/ Complete(u) \/ FailCascade(u)

Spec == Init /\ [][Next]_vars
=============================================================================
