------------------------------- MODULE HeapQueue -------------------------------
(***************************************************************************)
(* core/scheduling, DependencyScheduler with its heap as the array it is:  *)
(* container/heap over unitHeap, a scan for the heaviest ready unit, and   *)
(* the backward walk by which MarkFailedCascade takes units out.  Every    *)
(* operation holds the scheduler's mutex, so it is one step.               *)
(***************************************************************************)
EXTENDS Integers, Sequences, SequencesExt, DependencyTracker

CONSTANTS
  Graphs,   \* the dependency relations of a call
  Weights,  \* the weight assignments of a call
  Works     \* the orders of the work slice

ASSUME QueueAssumption ==
  /\ Graphs \subseteq [Unit -> SUBSET Unit]
  /\ Weights \subseteq [Unit -> Int]
  /\ Works \subseteq {w \in Seq(Unit) : ToSet(w) = Unit /\ IsInjective(w)}

VARIABLES
  work,      \* the work slice, kept for the reverse map
  weight,    \* UnitSpec.Weight
  items,     \* the heap's array
  inflight   \* units handed out and not yet marked

vars == <<depsOf, work, weight, items, inflight, completed, failed>>

-----------------------------------------------------------------------------
(* container/heap over unitHeap; arrays start at 1, so i's parent is i \div 2. *)

Less(s, i, j) == weight[s[i]] > weight[s[j]]

Swap(s, i, j) == [s EXCEPT ![i] = s[j], ![j] = s[i]]

\* An array and the entry that rises in it, from which up goes on.
Rising == {x \in Seq(Unit) \X Nat : x[2] \in DOMAIN x[1]}

up[x \in Rising] ==
  LET s == x[1]
      j == x[2]
  IN  IF j = 1 \/ ~Less(s, j, j \div 2) THEN s
      ELSE up[<<Swap(s, j, j \div 2), j \div 2>>]

Up(s, j) == up[<<s, j>>]

\* The heavier child of i within the first n entries.
Child(s, i, n) == IF 2*i + 1 <= n /\ Less(s, 2*i + 1, 2*i) THEN 2*i + 1 ELSE 2*i

\* An array, the entry that sinks in it, and how far it may.
Sinking == {x \in Seq(Unit) \X Nat \X Nat : x[2] \in 1 .. x[3] /\ x[3] <= Len(x[1])}

down[x \in Sinking] ==
  LET s == x[1]
      i == x[2]
      n == x[3]
      c == Child(s, i, n)
  IN  IF 2*i > n \/ ~Less(s, c, i) THEN s ELSE down[<<Swap(s, i, c), c, n>>]

Down(s, i, n) == down[<<s, i, n>>]

Push(s, u) == Up(Append(s, u), Len(s) + 1)

\* Mutant: the entry moved into the hole is never sifted up.
HeapRemoveSinkOnly(s, i) ==
  LET n == Len(s) - 1 IN
  Front(IF i = Len(s) THEN s ELSE Down(Swap(s, i, Len(s)), i, n))

\* heap.Remove: the last entry fills the hole, then sinks or rises.
HeapRemove(s, i) ==
  LET n == Len(s) - 1
      t == Swap(s, i, Len(s))
      sunk == Down(t, i, n)
  IN  IF i = Len(s) THEN Front(s)
      ELSE Front(IF sunk = t THEN Up(t, i) ELSE sunk)

-----------------------------------------------------------------------------
\* Mutant: the first ready entry of the array, whatever its weight.
HeaviestReadyAtFirst ==
  {i \in DOMAIN items : /\ IsReady(items[i])
                        /\ \A j \in 1 .. i - 1 : ~IsReady(items[j])}

\* findHeaviestReady: the first of the heaviest ready entries.
HeaviestReadyAt ==
  LET ready == {i \in DOMAIN items : IsReady(items[i]) /\ weight[items[i]] > -1}
  IN  {i \in ready : \A j \in ready : /\ weight[items[j]] <= weight[items[i]]
                                      /\ j < i => weight[items[j]] < weight[items[i]]}

\* ensureBlocks: the dependents of u in the order of the work slice, of which those from
\* entry i on are still to be looked at.
blocking[x \in Unit \X (Nat \ {0}) \X Seq(Unit)] ==
  LET u == x[1]
      i == x[2]
      found == x[3]
  IN  IF i > Len(work) THEN found
      ELSE blocking[<<u, i + 1, IF u \in depsOf[work[i]] THEN Append(found, work[i]) ELSE found>>]

Blocks(u) == blocking[<<u, 1, <<>>>>]

\* cascadeFailRecursive: depth first, past what failed already.  What the calls that have
\* not returned have still to look at is todo, that of the innermost call first.
cascading[x \in (SUBSET Unit) \X Seq(Unit) \X Seq(Unit)] ==
  LET marked == x[1]
      list == x[2]
      todo == x[3]
      v == Head(todo)
  IN  IF todo = <<>> THEN [failed |-> marked, list |-> list]
      ELSE IF v \in marked THEN cascading[<<marked, list, Tail(todo)>>]
      ELSE cascading[<<marked \cup {v}, Append(list, v), Blocks(v) \o Tail(todo)>>]

\* What fails with u, which is marked, and the list of it.
Cascade(u) == cascading[<<failed \cup {u}, <<>>, Blocks(u)>>]

Walking == {x \in Seq(Unit) \X Nat \X SUBSET Unit : x[2] <= Len(x[1])}

\* MarkFailedCascade's loop over the array from entry i down: what stays in it.
walking[x \in Walking] ==
  LET s == x[1]
      i == x[2]
      gone == x[3]
  IN  IF i = 0 THEN s
      ELSE walking[<<IF s[i] \in gone THEN HeapRemove(s, i) ELSE s, i - 1, gone>>]

WithoutCascaded(s, gone) == walking[<<s, Len(s), gone>>]

\* NewDependencyScheduler's loop: a heap, and what is still to be pushed.
heaping[x \in Seq(Unit) \X Seq(Unit)] ==
  IF x[2] = <<>> THEN x[1] ELSE heaping[<<Push(x[1], Head(x[2])), Tail(x[2])>>]

-----------------------------------------------------------------------------
\* NewDependencyScheduler pushes the units one by one.
Init ==
  /\ depsOf \in Graphs
  /\ weight \in Weights
  /\ work \in Works
  /\ items = heaping[<<<<>>, work>>]
  /\ inflight = {}
  /\ completed = {}
  /\ failed = {}

\* Next, and WaitForReady when it finds a unit.
Take ==
  \E i \in HeaviestReadyAt :
    /\ items' = HeapRemove(items, i)
    /\ inflight' = inflight \cup {items[i]}
    /\ UNCHANGED <<depsOf, work, weight, completed, failed>>

MarkComplete(u) ==
  /\ u \in inflight
  /\ inflight' = inflight \ {u}
  /\ completed' = completed \cup {u}
  /\ UNCHANGED <<depsOf, work, weight, items, failed>>

\* Mutant: the unit itself is not marked failed.
MarkFailedCascadeOthers(u) ==
  /\ u \in inflight
  /\ inflight' = inflight \ {u}
  /\ LET cascade == Cascade(u)
     IN  /\ failed' = cascade.failed \ {u}
         /\ completed' = completed \cup {u} \cup ToSet(cascade.list)
         /\ items' = WithoutCascaded(items, ToSet(cascade.list))
  /\ UNCHANGED <<depsOf, work, weight>>

MarkFailedCascade(u) ==
  /\ u \in inflight
  /\ inflight' = inflight \ {u}
  /\ LET cascade == Cascade(u)
     IN  /\ failed' = cascade.failed
         /\ completed' = completed \cup {u} \cup ToSet(cascade.list)
         /\ items' = WithoutCascaded(items, ToSet(cascade.list))
  /\ UNCHANGED <<depsOf, work, weight>>

Drained == items = <<>> /\ inflight = {} /\ UNCHANGED vars

Next ==
  \/ Take
  \/ \E u \in Unit : MarkComplete(u) \/ MarkFailedCascade(u)
  \/ Drained

Spec == Init /\ [][Next]_vars

-----------------------------------------------------------------------------
(* Properties.                                                             *)

\* The array stays a heap through removals at any place in it (findHeaviestReady
\* removes in the middle, MarkFailedCascade several at a time).
HeapOrdered ==
  \A i \in 2 .. Len(items) : weight[items[i]] <= weight[items[i \div 2]]

\* A unit that failed and is still queued, because the walk of the heap passed it
\* by, has a failed dependency: whoever pulls it will skip it, not run it
\* (MarkFailedCascade, HasFailedDependency).
LeftBehindIsSkipped ==
  \A u \in ToSet(items) \cap failed : HasFailedDependency(u)

Queue == INSTANCE ReadyQueue WITH queue <- ToSet(items)

\* The array, the scans and the recursive cascade behave as ReadyQueue's sets:
\* heaviest ready unit first, none lost, none handed out twice, and a cascade
\* marks exactly the transitive dependents not failed before.
ImplementsReadyQueue == Queue!Spec
=============================================================================
