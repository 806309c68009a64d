---------------------------- MODULE UnitScheduler ----------------------------
(***************************************************************************)
(* The worker pool of the orchestrator (clibase/orchestrator,              *)
(* UnitScheduler.RunUnits) over the dependency scheduler                   *)
(* (core/scheduling, DependencyScheduler and DependencyTracker).           *)
(*                                                                         *)
(* A pool of goroutines pulls units of work from a shared queue, heaviest  *)
(* ready unit first, acquires capacity, runs the unit's handler or skips   *)
(* it, releases the capacity, stores the result, and tells the scheduler;  *)
(* a failure fails every transitive dependent.                             *)
(*                                                                         *)
(* Abstractions.  Unit is the work of one RunUnits call.  The heap is a    *)
(* set: module HeapQueue has the array, and shows why a cascade may leave  *)
(* some of the units it fails in the queue.  The two cross-process         *)
(* semaphores are two counters with a fixed capacity: module               *)
(* GlobalSemaphore has the files.  An exit code is one of the four classes *)
(* the code tells apart.                                                   *)
(***************************************************************************)
EXTENDS Integers, FiniteSets, WeightSum, DependencyTracker

CONSTANTS
  Worker,        \* the goroutines of the pool
  NoUnit,        \* "no spec": the nil of WaitForReady
  Graphs,        \* the dependency relations a call may be given
  Weight,        \* UnitSpec.Weight, the LPT key
  HostWeight,    \* PoolAllocation.HostWeight
  DockerWeight,  \* PoolAllocation.DockerWeight
  HostTotal,     \* host capacity when the pool is sized
  DockerTotal,   \* docker capacity when the pool is sized; 0: no docker pool
  Cacheable      \* units the background cache detection finds cached

ASSUME UnitAssumption ==
  /\ NoUnit \notin Unit
  /\ Graphs \subseteq [Unit -> SUBSET Unit]
  /\ Cacheable \subseteq Unit

\* computeWorkerPoolSize: the smaller of the number of units and the capacity.
ASSUME WorkerAssumption == (Unit # {} => Worker # {}) /\ IsFiniteSet(Worker)

ASSUME WeightAssumption ==
  /\ Weight \in [Unit -> Int]
  /\ HostWeight \in [Unit -> Int]
  /\ DockerWeight \in [Unit -> Int]
  /\ HostTotal \in Nat \ {0}
  /\ DockerTotal \in Nat

VARIABLES
  queue,        \* DependencyScheduler.items, as a set
  pc,           \* where each goroutine is in workerLoop
  spec,         \* the unit a goroutine works on
  exit,         \* the exit code it got for that unit
  cascaded,     \* the cascade-failed specs it still has to report
  overCap,      \* the goroutine that holds overCapacityMu, as a set
  hostUsed,     \* host weight allocated
  dockerUsed,   \* docker weight allocated
  running,      \* units whose handler goroutine is executing
  earlyCached,  \* units marked cached by the background detection
  results,      \* the results slice
  reported      \* how often markUnitComplete was called for a unit

tracker == <<depsOf, completed, failed>>
capacity == <<overCap, hostUsed, dockerUsed>>
outcome == <<results, reported>>
vars == <<depsOf, queue, completed, failed, pc, spec, exit, cascaded, overCap,
          hostUsed, dockerUsed, running, earlyCached, results, reported>>

-----------------------------------------------------------------------------
(* Exit codes: 0, -1, 1 (any other positive code) and ExitCodeTimeout.     *)

\* Mutant: a timeout not taken for a failure.
FailCodeNoTimeout == {"failed"}

FailCode == {"failed", "timeout"}
ExitCode == {"ok", "cached"} \cup FailCode
NoResult == "none"

PC == {"pull", "blocked", "acquire", "docker", "start", "exec", "release",
       "store", "mark", "report", "exit"}

\* The goroutine owns the unit it works on: between the pull and the last
\* call of handleCompletion.
Busy(w) == pc[w] \notin {"pull", "blocked", "exit"}

-----------------------------------------------------------------------------
(* The scheduler's choice (DependencyTracker has what it asks).            *)

\* Mutant: any ready spec will do.
ReadyAny == {u \in queue : IsReady(u) /\ Weight[u] >= 0}

\* The specs findHeaviestReady may return: the heap's array order breaks
\* ties, and a unit with a negative weight is never better than bestWeight.
HeaviestReady ==
  {u \in queue : /\ IsReady(u)
                 /\ Weight[u] >= 0
                 /\ \A v \in queue : IsReady(v) => Weight[v] <= Weight[u]}

\* Mutant: nobody is woken.
BroadcastNobody(from) == from

\* notReady.Broadcast(): every waiter checks again.
Broadcast(from) == [w \in Worker |-> IF from[w] = "blocked" THEN "pull"
                                                            ELSE from[w]]

-----------------------------------------------------------------------------
(* Capacity.                                                               *)

HostNeed(u) == IF HostWeight[u] < 1 THEN 1 ELSE HostWeight[u]
NeedsDocker(u) == DockerWeight[u] > 0 /\ DockerTotal > 0

IsOverCapacity(u) ==
  \/ HostWeight[u] > HostTotal
  \/ NeedsDocker(u) /\ DockerWeight[u] > DockerTotal

-----------------------------------------------------------------------------
Init ==
  /\ depsOf \in Graphs
  /\ queue = Unit
  /\ completed = {}
  /\ failed = {}
  /\ pc = [w \in Worker |-> "pull"]
  /\ spec = [w \in Worker |-> NoUnit]
  /\ exit = [w \in Worker |-> "ok"]
  /\ cascaded = [w \in Worker |-> {}]
  /\ overCap = {}
  /\ hostUsed = 0
  /\ dockerUsed = 0
  /\ running = {}
  /\ earlyCached = {}
  /\ results = [u \in Unit |-> NoResult]
  /\ reported = [u \in Unit |-> 0]

Goto(w, label) == pc' = [pc EXCEPT ![w] = label]

\* Mutant: the unit is returned but stays in the queue.
PullPeek(w) ==
  /\ pc[w] = "pull"
  /\ \E u \in HeaviestReady : spec' = [spec EXCEPT ![w] = u]
  /\ Goto(w, "acquire")
  /\ UNCHANGED <<tracker, queue, exit, cascaded, capacity, running, earlyCached,
                 outcome>>

\* WaitForReady returns the heaviest ready unit, which leaves the queue.
Pull(w) ==
  /\ pc[w] = "pull"
  /\ \E u \in HeaviestReady :
       /\ queue' = queue \ {u}
       /\ spec' = [spec EXCEPT ![w] = u]
  /\ Goto(w, "acquire")
  /\ UNCHANGED <<tracker, exit, cascaded, capacity, running, earlyCached, outcome>>

\* WaitForReady finds no ready unit in a queue that is not empty: it waits on
\* the condition variable.
Block(w) ==
  /\ pc[w] = "pull"
  /\ queue # {}
  /\ HeaviestReady = {}
  /\ Goto(w, "blocked")
  /\ UNCHANGED <<tracker, queue, spec, exit, cascaded, capacity, running,
                 earlyCached, outcome>>

\* WaitForReady finds the queue empty and returns nil: the goroutine ends.
Exit(w) ==
  /\ pc[w] = "pull"
  /\ queue = {}
  /\ Goto(w, "exit")
  /\ UNCHANGED <<tracker, queue, spec, exit, cascaded, capacity, running,
                 earlyCached, outcome>>

\* A unit larger than a whole pool skips the semaphores and runs under a mutex.
AcquireOverCapacity(w) ==
  /\ pc[w] = "acquire"
  /\ IsOverCapacity(spec[w])
  /\ overCap = {}
  /\ overCap' = {w}
  /\ Goto(w, "start")
  /\ UNCHANGED <<tracker, queue, spec, exit, cascaded, hostUsed, dockerUsed,
                 running, earlyCached, outcome>>

\* Mutant: the host pool is not checked.
AcquireHostUnchecked(w) ==
  /\ pc[w] = "acquire"
  /\ ~IsOverCapacity(spec[w])
  /\ hostUsed' = hostUsed + HostNeed(spec[w])
  /\ Goto(w, IF NeedsDocker(spec[w]) THEN "docker" ELSE "start")
  /\ UNCHANGED <<tracker, queue, spec, exit, cascaded, overCap, dockerUsed,
                 running, earlyCached, outcome>>

\* DualPoolSemaphore.Acquire, first half: the host pool.
AcquireHost(w) ==
  /\ pc[w] = "acquire"
  /\ ~IsOverCapacity(spec[w])
  /\ hostUsed + HostNeed(spec[w]) <= HostTotal
  /\ hostUsed' = hostUsed + HostNeed(spec[w])
  /\ Goto(w, IF NeedsDocker(spec[w]) THEN "docker" ELSE "start")
  /\ UNCHANGED <<tracker, queue, spec, exit, cascaded, overCap, dockerUsed,
                 running, earlyCached, outcome>>

\* DualPoolSemaphore.Acquire, second half: the docker pool, holding the host's.
AcquireDocker(w) ==
  /\ pc[w] = "docker"
  /\ dockerUsed + DockerWeight[spec[w]] <= DockerTotal
  /\ dockerUsed' = dockerUsed + DockerWeight[spec[w]]
  /\ Goto(w, "start")
  /\ UNCHANGED <<tracker, queue, spec, exit, cascaded, overCap, hostUsed,
                 running, earlyCached, outcome>>

\* executeOrSkipUnit and the entry of executeWorker: skip on a failed
\* dependency, return at once for an early-cached unit, fail when the output
\* directory or the log file cannot be made, else start the handler.
Skip(w) ==
  /\ pc[w] = "start"
  /\ HasFailedDependency(spec[w])
  /\ exit' = [exit EXCEPT ![w] = "failed"]
  /\ Goto(w, "release")
  /\ UNCHANGED <<tracker, queue, spec, cascaded, capacity, running,
                 earlyCached, outcome>>

FastPath(w) ==
  /\ pc[w] = "start"
  /\ ~HasFailedDependency(spec[w])
  /\ spec[w] \in earlyCached
  /\ exit' = [exit EXCEPT ![w] = "cached"]
  /\ Goto(w, "release")
  /\ UNCHANGED <<tracker, queue, spec, cascaded, capacity, running,
                 earlyCached, outcome>>

CannotStart(w) ==
  /\ pc[w] = "start"
  /\ ~HasFailedDependency(spec[w])
  /\ spec[w] \notin earlyCached
  /\ exit' = [exit EXCEPT ![w] = "failed"]
  /\ Goto(w, "release")
  /\ UNCHANGED <<tracker, queue, spec, cascaded, capacity, running,
                 earlyCached, outcome>>

Start(w) ==
  /\ pc[w] = "start"
  /\ ~HasFailedDependency(spec[w])
  /\ spec[w] \notin earlyCached
  /\ running' = running \cup {spec[w]}
  /\ Goto(w, "exec")
  /\ UNCHANGED <<tracker, queue, spec, exit, cascaded, capacity, earlyCached,
                 outcome>>

\* The handler returns before its deadline.
Finish(w) ==
  /\ pc[w] = "exec"
  /\ \E code \in {"ok", "cached", "failed"} : exit' = [exit EXCEPT ![w] = code]
  /\ running' = running \ {spec[w]}
  /\ Goto(w, "release")
  /\ UNCHANGED <<tracker, queue, spec, cascaded, capacity, earlyCached, outcome>>

\* The deadline passes first: the pool goes on, the handler's goroutine with it.
TimeOut(w) ==
  /\ pc[w] = "exec"
  /\ exit' = [exit EXCEPT ![w] = "timeout"]
  /\ Goto(w, "release")
  /\ UNCHANGED <<tracker, queue, spec, cascaded, capacity, running, earlyCached,
                 outcome>>

\* releaseCapacity.
Release(w) ==
  /\ pc[w] = "release"
  /\ IF IsOverCapacity(spec[w])
       THEN /\ overCap' = overCap \ {w}
            /\ UNCHANGED <<hostUsed, dockerUsed>>
       ELSE /\ hostUsed' = hostUsed - HostNeed(spec[w])
            /\ dockerUsed' = IF NeedsDocker(spec[w])
                               THEN dockerUsed - DockerWeight[spec[w]]
                               ELSE dockerUsed
            /\ UNCHANGED overCap
  /\ Goto(w, "store")
  /\ UNCHANGED <<tracker, queue, spec, exit, cascaded, running, earlyCached,
                 outcome>>

\* workerLoop stores the result at spec.Index.
Store(w) ==
  /\ pc[w] = "store"
  /\ results' = [results EXCEPT ![spec[w]] = exit[w]]
  /\ Goto(w, "mark")
  /\ UNCHANGED <<tracker, queue, spec, exit, cascaded, capacity, running,
                 earlyCached, reported>>

\* handleCompletion, success: MarkComplete wakes the waiters.
MarkComplete(w) ==
  /\ pc[w] = "mark"
  /\ exit[w] \notin FailCode
  /\ completed' = completed \cup {spec[w]}
  /\ pc' = [Broadcast(pc) EXCEPT ![w] = "report"]
  /\ UNCHANGED <<depsOf, failed, queue, spec, exit, cascaded, capacity, running,
                 earlyCached, outcome>>

\* handleCompletion, failure: MarkFailedCascade fails the unit and its
\* transitive dependents and takes those its walk of the heap meets out of the
\* queue.
MarkFailedCascade(w) ==
  /\ pc[w] = "mark"
  /\ exit[w] \in FailCode
  /\ LET down == CascadeFail(spec[w])
     IN  /\ failed' = failed \cup {spec[w]} \cup down
         /\ completed' = completed \cup {spec[w]} \cup down
         /\ \E removed \in SUBSET (queue \cap down) :
              /\ queue' = queue \ removed
              /\ cascaded' = [cascaded EXCEPT ![w] = removed]
  /\ pc' = [Broadcast(pc) EXCEPT ![w] = "report"]
  /\ UNCHANGED <<depsOf, spec, exit, capacity, running, earlyCached, outcome>>

\* Mutant: a cascade-failed spec is stored like a cached one.
ReportCascadedCached(w) ==
  /\ pc[w] = "report"
  /\ \E u \in cascaded[w] :
       /\ results' = [results EXCEPT ![u] = "cached"]
       /\ reported' = [reported EXCEPT ![u] = @ + 1]
       /\ cascaded' = [cascaded EXCEPT ![w] = @ \ {u}]
  /\ UNCHANGED <<tracker, queue, pc, spec, exit, capacity, running, earlyCached>>

\* handleCompletion stores and reports a failure for a spec the cascade removed.
ReportCascaded(w) ==
  /\ pc[w] = "report"
  /\ \E u \in cascaded[w] :
       /\ results' = [results EXCEPT ![u] = "failed"]
       /\ reported' = [reported EXCEPT ![u] = @ + 1]
       /\ cascaded' = [cascaded EXCEPT ![w] = @ \ {u}]
  /\ UNCHANGED <<tracker, queue, pc, spec, exit, capacity, running, earlyCached>>

\* markUnitComplete for the unit itself; back to the top of the loop.
Report(w) ==
  /\ pc[w] = "report"
  /\ cascaded[w] = {}
  /\ reported' = [reported EXCEPT ![spec[w]] = @ + 1]
  /\ spec' = [spec EXCEPT ![w] = NoUnit]
  /\ Goto(w, "pull")
  /\ UNCHANGED <<tracker, queue, exit, cascaded, capacity, running, earlyCached,
                 results>>

WorkerStep(w) ==
  \/ Pull(w) \/ Block(w) \/ Exit(w)
  \/ AcquireOverCapacity(w) \/ AcquireHost(w) \/ AcquireDocker(w)
  \/ Skip(w) \/ FastPath(w) \/ CannotStart(w) \/ Start(w)
  \/ Finish(w) \/ TimeOut(w)
  \/ Release(w) \/ Store(w)
  \/ MarkComplete(w) \/ MarkFailedCascade(w)
  \/ ReportCascaded(w) \/ Report(w)

\* A handler whose deadline passed returns at last; nobody reads its result.
OrphanReturns(u) ==
  /\ u \in running
  /\ \A w \in Worker : pc[w] = "exec" => spec[w] # u
  /\ running' = running \ {u}
  /\ UNCHANGED <<tracker, queue, pc, spec, exit, cascaded, capacity, earlyCached,
                 outcome>>

\* A goroutine of StartBackgroundCacheDetection marks a unit; RunUnits does not
\* wait for these, so one may act after the pool has ended.
DetectCached(u) ==
  /\ u \in Cacheable \ earlyCached
  /\ earlyCached' = earlyCached \cup {u}
  /\ UNCHANGED <<tracker, queue, pc, spec, exit, cascaded, capacity, running,
                 outcome>>

\* wg.Wait() returned.
PoolDone == \A w \in Worker : pc[w] = "exit"

Returned == PoolDone /\ UNCHANGED vars

Next ==
  \/ \E w \in Worker : WorkerStep(w)
  \/ \E u \in Unit : OrphanReturns(u) \/ DetectCached(u)
  \/ Returned

Spec == Init /\ [][Next]_vars

\* The Go runtime runs every goroutine that can run, and a handler's deadline
\* ends the wait for it; nothing makes an orphan or a detection goroutine end.
Fairness == \A w \in Worker : WF_vars(WorkerStep(w))

FairSpec == Spec /\ Fairness

-----------------------------------------------------------------------------
(* Properties.                                                             *)

TypeOK ==
  /\ depsOf \in [Unit -> SUBSET Unit]
  /\ queue \in SUBSET Unit
  /\ completed \in SUBSET Unit
  /\ failed \in SUBSET Unit
  /\ pc \in [Worker -> PC]
  /\ spec \in [Worker -> Unit \cup {NoUnit}]
  /\ \A w \in Worker : Busy(w) <=> spec[w] # NoUnit
  /\ exit \in [Worker -> ExitCode]
  /\ cascaded \in [Worker -> SUBSET Unit]
  /\ overCap \in SUBSET Worker
  /\ hostUsed \in Int /\ hostUsed <= HostTotal
  /\ dockerUsed \in Int /\ dockerUsed <= DockerTotal
  /\ running \in SUBSET Unit
  /\ earlyCached \in SUBSET Unit
  /\ results \in [Unit -> ExitCode \cup {NoResult}]
  /\ reported \in [Unit -> Nat]

\* The units a goroutine has still to report: its own and those it cascaded.
Held(w) == cascaded[w] \cup (IF Busy(w) THEN {spec[w]} ELSE {})

\* Every unit is in exactly one place, the queue or one goroutine's hands, until
\* it is reported, and it is reported to the display and the summary exactly
\* once: neither a cascade that races another failure, nor a unit a cascade
\* left in the queue, reports a unit twice or loses it (workerLoop,
\* handleCompletion).  When the pool has ended every unit was reported.
NoneLostNoneTwice ==
  /\ \A v, w \in Worker : v # w => Held(v) \cap Held(w) = {}
  /\ \A w \in Worker : Held(w) \cap queue = {} /\ spec[w] \notin cascaded[w]
  /\ \A u \in Unit :
       reported[u] = IF u \in queue \/ (\E w \in Worker : u \in Held(w))
                       THEN 0 ELSE 1
  /\ PoolDone => \A u \in Unit : reported[u] = 1 /\ results[u] # NoResult

\* A handler runs only after each dependency was completed, without failure,
\* with its result stored (IsReady, HasFailedDependency, the order of
\* workerLoop); and that stays so for as long as the handler runs, whatever
\* fails meanwhile.
DependenciesFirst ==
  \A u \in running : \A d \in depsOf[u] :
     /\ d \in completed \ failed
     /\ results[d] \in {"ok", "cached"}

\* A unit's handler never executes beside the handler of a unit it depends on,
\* not even one whose deadline passed and whose goroutine still runs: a timeout
\* is a failure, so its dependents never start (executeWorker).
NoHandlerBesideDependency == \A u \in running : depsOf[u] \cap running = {}

\* A unit has a good result only if all it depends on have: no interleaving of
\* cascades and pulls lets a dependent of a failure succeed (MarkFailedCascade,
\* executeOrSkipUnit).
SuccessRestsOnSuccess ==
  \A u \in Unit : results[u] \in {"ok", "cached"} =>
     \A d \in depsOf[u] : results[d] \in {"ok", "cached"}

\* The two books agree: of the units reported, the tracker holds as failed just
\* those whose stored result is a failure (handleCompletion writes both).
ReportAgreesWithTracker ==
  \A u \in Unit : reported[u] > 0 =>
     /\ u \in completed
     /\ u \in failed <=> results[u] \in {"failed", "timeout"}

\* The units past acquireAndExecute's acquisition fit the pools together, the
\* one over-capacity unit aside, which is alone of its kind.
Holders == {w \in Worker : pc[w] \in {"docker", "start", "exec", "release"}}
DockerHolders == {w \in Holders : pc[w] # "docker" /\ NeedsDocker(spec[w])}
OverHolders == {w \in Holders : IsOverCapacity(spec[w])}

CapacityHeld ==
  /\ OverHolders = overCap
  /\ Cardinality(overCap) <= 1
  /\ hostUsed = Total(Holders \ overCap, [w \in Holders |-> HostNeed(spec[w])])
  /\ dockerUsed = Total(DockerHolders \ overCap,
                        [w \in DockerHolders |-> DockerWeight[spec[w]]])
  /\ hostUsed <= HostTotal
  /\ dockerUsed <= DockerTotal

\* A stored result is never replaced, and what the tracker completed without
\* failure is never failed by a later cascade (cascadeFailRecursive marks
\* dependents without looking whether they completed).
VerdictIsFinal ==
  [][/\ \A u \in Unit : results[u] # NoResult => results'[u] = results[u]
     /\ (completed \ failed) \cap failed' = {}]_vars

\* RunUnits returns: no goroutine waits for ever on the condition variable, the
\* mutex or the semaphores, for any acyclic work (runWorkerPool's wg.Wait).
Termination == <>PoolDone

\* The scheduler implements WorkGraph.
StatusOf(u) ==
  CASE u \in failed -> "failed"
    [] u \in completed \ failed -> "ok"
    [] OTHER -> IF \E w \in Worker : /\ spec[w] = u
                                     /\ pc[w] \in {"exec", "release", "store", "mark"}
                  THEN "running" ELSE "pending"

status == [u \in Unit |-> StatusOf(u)]

Promise == INSTANCE WorkGraph

\* Every run of the pool is a run of WorkGraph: dependents start after their
\* dependencies succeeded, a failure takes all its dependents with it in one
\* step, and every unit gets a verdict.
ImplementsWorkGraph == Promise!FairSpec

\* The units pulled and not yet marked.
Pulled == {u \in Unit : \E w \in Worker : Busy(w) /\ pc[w] # "report" /\ spec[w] = u}

PoolQueue == INSTANCE ReadyQueue WITH weight <- Weight, Weights <- {Weight},
                                      inflight <- Pulled

\* The pool keeps the scheduler's protocol, and the scheduler its promise to the
\* pool: a unit is pulled heaviest first, when its dependencies are done, and
\* each unit pulled is marked once, complete or failed, by who pulled it.  (The
\* heap of HeapQueue keeps the same promise.)
KeepsQueueProtocol == PoolQueue!Spec
=============================================================================
