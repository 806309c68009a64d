-------------------------- MODULE UnitScheduler_proofs --------------------------
(***************************************************************************)
(* Proofs about UnitScheduler, for any set of units, any dependency        *)
(* relation (cyclic ones too), any number of goroutines and any weights.   *)
(***************************************************************************)
EXTENDS UnitScheduler, WeightSum_proofs

-----------------------------------------------------------------------------
(* Type correctness.                                                       *)

LEMMA CascadeType == \A u : CascadeFail(u) \subseteq Unit
  BY DEF CascadeFail

LEMMA InitType == Init => TypeOK
  BY UnitAssumption, WeightAssumption
  DEF Init, TypeOK, PC, ExitCode, FailCode, NoResult, Busy

\* What each step of a goroutine leaves of its types.
LEMMA StepType == ASSUME TypeOK, NEW w \in Worker, WorkerStep(w) PROVE TypeOK'
  <1> USE UnitAssumption, WeightAssumption
      DEF TypeOK, PC, ExitCode, FailCode, NoResult, Busy, Goto, tracker,
          capacity, outcome, HostNeed, NeedsDocker
  <1>1. CASE Pull(w)
    BY <1>1 DEF Pull, HeaviestReady
  <1>2. CASE Block(w)
    BY <1>2 DEF Block
  <1>3. CASE Exit(w)
    BY <1>3 DEF Exit
  <1>4. CASE AcquireOverCapacity(w)
    BY <1>4 DEF AcquireOverCapacity
  <1>5. CASE AcquireHost(w)
    BY <1>5 DEF AcquireHost
  <1>6. CASE AcquireDocker(w)
    BY <1>6 DEF AcquireDocker
  <1>7. CASE Skip(w) \/ FastPath(w) \/ CannotStart(w)
    BY <1>7 DEF Skip, FastPath, CannotStart
  <1>8. CASE Start(w)
    BY <1>8 DEF Start
  <1>9. CASE Finish(w) \/ TimeOut(w)
    BY <1>9 DEF Finish, TimeOut
  <1>10. CASE Release(w)
    BY <1>10 DEF Release
  <1>11. CASE Store(w)
    BY <1>11 DEF Store
  <1>12. CASE MarkComplete(w)
    BY <1>12 DEF MarkComplete, Broadcast
  <1>13. CASE MarkFailedCascade(w)
    BY <1>13, CascadeType DEF MarkFailedCascade, Broadcast
  <1>14. CASE ReportCascaded(w)
    BY <1>14 DEF ReportCascaded
  <1>15. CASE Report(w)
    BY <1>15 DEF Report
  <1>16. QED
    BY <1>1, <1>2, <1>3, <1>4, <1>5, <1>6, <1>7, <1>8, <1>9, <1>10, <1>11,
       <1>12, <1>13, <1>14, <1>15 DEF WorkerStep

\* Types: every variable keeps its type, in particular no allocation exceeds its
\* pool, whatever the goroutines and the background detection do.
THEOREM TypeCorrect == Spec => []TypeOK
  <1>1. TypeOK /\ [Next]_vars => TypeOK'
    <2> SUFFICES ASSUME TypeOK, [Next]_vars PROVE TypeOK'
      OBVIOUS
    <2>1. ASSUME NEW w \in Worker, WorkerStep(w) PROVE TypeOK'
      BY <2>1, StepType
    <2>2. ASSUME NEW u \in Unit, OrphanReturns(u) \/ DetectCached(u) PROVE TypeOK'
      BY <2>2 DEF OrphanReturns, DetectCached, TypeOK, tracker, capacity, outcome, Busy
    <2>3. CASE UNCHANGED vars
      BY <2>3 DEF vars, TypeOK, Busy
    <2>4. QED
      BY <2>1, <2>2, <2>3 DEF Next, Returned
  <1>2. QED
    BY InitType, <1>1, PTL DEF Spec

-----------------------------------------------------------------------------
(* The inductive invariant.                                                *)

\* Completed without failure.
Good == completed \ failed

\* Who has each unit.
Custody ==
  /\ \A v, w \in Worker : v # w => Held(v) \cap Held(w) = {}
  /\ \A w \in Worker : Held(w) \cap queue = {} /\ spec[w] \notin cascaded[w]
  /\ \A w \in Worker : cascaded[w] # {} => pc[w] = "report"
  /\ \A u \in Unit :
       reported[u] = IF u \in queue \/ (\E w \in Worker : u \in Held(w))
                       THEN 0 ELSE 1
  /\ \A w \in Worker : pc[w] = "exit" => queue = {}

\* The goroutine runs its unit's handler, or has a result that is no failure.
Sound(w) ==
  \/ pc[w] = "exec"
  \/ pc[w] \in {"release", "store", "mark", "report"} /\ exit[w] \notin FailCode

\* What the tracker knows, and where the units it knows about are.  A unit that a
\* cascade failed may still be queued or pulled: then it has a failed dependency.
TrackedAt(w) ==
  /\ Busy(w) => IsReady(spec[w])
  /\ Busy(w) /\ pc[w] # "report" => spec[w] \notin Good
  /\ pc[w] \in {"acquire", "docker", "start"} /\ spec[w] \in failed
       => HasFailedDependency(spec[w])
  /\ Sound(w) => spec[w] \notin failed /\ depsOf[spec[w]] \subseteq Good
  /\ pc[w] = "report" => /\ spec[w] \in completed
                         /\ exit[w] \in FailCode => spec[w] \in failed
  /\ cascaded[w] \subseteq failed

Tracked ==
  /\ failed \subseteq completed
  /\ \A u \in Unit : HasFailedDependency(u) => u \in failed
  /\ \A u \in Good : depsOf[u] \subseteq Good
  /\ queue \cap Good = {}
  /\ \A u \in queue \cap failed : HasFailedDependency(u)
  /\ \A w \in Worker : TrackedAt(w)

\* What is stored, when, and what it tells.
ResultStored ==
  \A w \in Worker : pc[w] \in {"mark", "report"} => results[spec[w]] = exit[w]

NothingStoredEarly ==
  \A u \in Unit : results[u] # NoResult =>
     \/ reported[u] > 0
     \/ \E w \in Worker : spec[w] = u /\ pc[w] \in {"mark", "report"}

ReportedStored ==
  \A u \in Unit : reported[u] > 0 =>
     /\ u \in completed
     /\ results[u] # NoResult
     /\ u \in failed <=> results[u] \in {"failed", "timeout"}

GoodStored == \A u \in Good : results[u] \in {"ok", "cached"}

SuccessEarned ==
  \A u \in Unit : results[u] \in {"ok", "cached"} =>
     \/ u \in Good
     \/ \E w \in Worker : spec[w] = u /\ pc[w] = "mark" /\ Sound(w)

Stored == /\ ResultStored
          /\ NothingStoredEarly
          /\ ReportedStored
          /\ GoodStored
          /\ SuccessEarned

\* Which handlers execute: of units that rest on good ones, and that are being
\* run, or will fail, or have failed.
Executing ==
  \A u \in running :
    /\ depsOf[u] \subseteq Good
    /\ \/ u \in failed
       \/ \E w \in Worker :
            /\ spec[w] = u
            /\ \/ pc[w] = "exec"
               \/ /\ pc[w] \in {"release", "store", "mark", "report"}
                  /\ exit[w] \in FailCode

IInv == TypeOK /\ Custody /\ Tracked /\ Stored /\ Executing

LEMMA InitIInv == Init => IInv
  BY InitType, UnitAssumption
  DEF Init, IInv, Custody, Tracked, TrackedAt, Stored, ResultStored,
      NothingStoredEarly, ReportedStored, GoodStored, SuccessEarned, Executing, Held, Busy, Good, Sound,
      IsReady, HasFailedDependency, NoResult

-----------------------------------------------------------------------------
(* The cascade.                                                            *)

\* Every dependent that had not failed is cascaded.
LEMMA CascadeClosed == \A u : ClosedUnderCascade(CascadeFail(u), u)
  BY DEF ClosedUnderCascade, CascadeFail

\* Only units that had not failed are cascaded, and never the origin.
LEMMA CascadeFresh ==
  ASSUME NEW u PROVE CascadeFail(u) \cap (failed \cup {u}) = {}
  <1>1. ClosedUnderCascade(Unit \ (failed \cup {u}), u)
    BY DEF ClosedUnderCascade
  <1>2. QED
    BY <1>1 DEF CascadeFail

\* A cascaded unit depends on the origin or on another cascaded unit.
LEMMA CascadeGrounded ==
  ASSUME NEW u, NEW v \in CascadeFail(u)
  PROVE  depsOf[v] \cap (CascadeFail(u) \cup {u}) # {}
  <1> DEFINE S == CascadeFail(u) \ {v}
  <1> SUFFICES ASSUME depsOf[v] \cap (CascadeFail(u) \cup {u}) = {} PROVE FALSE
    OBVIOUS
  <1>1. ClosedUnderCascade(S, u)
    BY CascadeClosed DEF ClosedUnderCascade
  <1>2. S \in SUBSET Unit
    BY CascadeType
  <1>3. QED
    BY <1>1, <1>2 DEF CascadeFail

\* A cascade never reaches a set of units whose dependencies are all inside it.
LEMMA CascadeAvoids ==
  ASSUME NEW u, NEW T \in SUBSET Unit,
         \A v \in T : depsOf[v] \cap ((Unit \ T) \cup {u}) = {}
  PROVE  CascadeFail(u) \cap T = {}
  <1>1. ClosedUnderCascade(Unit \ T, u)
    BY DEF ClosedUnderCascade
  <1>2. QED
    BY <1>1 DEF CascadeFail

-----------------------------------------------------------------------------
\* Marking moves its goroutine on and wakes the waiters, no more.
LEMMA MarkWakes ==
  ASSUME TypeOK, NEW w \in Worker, MarkComplete(w) \/ MarkFailedCascade(w)
  PROVE  \A v \in Worker :
           /\ pc'[v] = IF v = w THEN "report"
                      ELSE IF pc[v] = "blocked" THEN "pull" ELSE pc[v]
           /\ pc'[v] = "exit" <=> pc[v] = "exit"
           /\ pc'[v] = "report" <=> pc[v] = "report" \/ v = w
           /\ Busy(v)' <=> Busy(v)
           /\ v # w => (Sound(v)' <=> Sound(v))
           /\ Sound(w)' => Sound(w)
  <1>1. pc[w] = "mark" /\ pc \in [Worker -> PC] /\ exit' = exit
    BY DEF MarkComplete, MarkFailedCascade, TypeOK
  <1>2. pc' = [Broadcast(pc) EXCEPT ![w] = "report"]
    BY DEF MarkComplete, MarkFailedCascade
  <1>3. \A v \in Worker :
           pc'[v] = IF v = w THEN "report"
                    ELSE IF pc[v] = "blocked" THEN "pull" ELSE pc[v]
    BY <1>2 DEF Broadcast
  <1>4. QED
    BY <1>1, <1>3 DEF Busy, Sound

-----------------------------------------------------------------------------
(* Custody is kept by every step of a goroutine.                           *)

LEMMA StepCustody ==
  ASSUME TypeOK, Custody, NEW w \in Worker, WorkerStep(w) PROVE Custody'
  <1> USE UnitAssumption DEF Custody, Held, Busy, Goto, TypeOK, outcome
  <1>1. CASE Pull(w)
    BY <1>1 DEF Pull, HeaviestReady
  <1>2. CASE Block(w) \/ Exit(w)
    BY <1>2 DEF Block, Exit
  <1>3. CASE AcquireOverCapacity(w) \/ AcquireHost(w) \/ AcquireDocker(w)
    BY <1>3 DEF AcquireOverCapacity, AcquireHost, AcquireDocker
  <1>4. CASE Skip(w) \/ FastPath(w) \/ CannotStart(w) \/ Start(w)
    BY <1>4 DEF Skip, FastPath, CannotStart, Start
  <1>5. CASE Finish(w) \/ TimeOut(w)
    BY <1>5 DEF Finish, TimeOut
  <1>6. CASE Release(w)
    BY <1>6 DEF Release
  <1>7. CASE Store(w)
    BY <1>7 DEF Store
  <1>8. ASSUME MarkComplete(w) \/ MarkFailedCascade(w)
        PROVE  \A v \in Worker : /\ pc'[v] = "exit" <=> pc[v] = "exit"
                                 /\ pc'[v] = "report" <=> pc[v] = "report" \/ v = w
                                 /\ Busy(v)' <=> Busy(v)
    BY <1>8, MarkWakes
  <1>9. CASE MarkComplete(w)
    <2>1. UNCHANGED <<queue, spec, cascaded, reported>>
      BY <1>9 DEF MarkComplete
    <2>2. \A v \in Worker : Held(v)' = Held(v)
      BY <1>8, <1>9, <2>1
    <2>3. QED
      BY <1>8, <1>9, <2>1, <2>2
  <1>10. CASE MarkFailedCascade(w)
    <2>1. PICK removed \in SUBSET (queue \cap CascadeFail(spec[w])) :
             /\ queue' = queue \ removed
             /\ cascaded' = [cascaded EXCEPT ![w] = removed]
      BY <1>10 DEF MarkFailedCascade
    <2>10. UNCHANGED <<spec, reported>>
      BY <1>10 DEF MarkFailedCascade
    <2>2. cascaded[w] = {} /\ Busy(w)
      BY <1>10 DEF MarkFailedCascade
    <2>3. \A v \in Worker : Held(v)' = IF v = w THEN Held(v) \cup removed ELSE Held(v)
      BY <1>8, <1>10, <2>1, <2>2, <2>10
    <2> HIDE DEF Held, Busy, TypeOK
    <2>9. ASSUME NEW v \in Worker PROVE spec[v] \notin cascaded[v] /\ spec[v] \notin removed
      <3>1. CASE Busy(v)
        BY <3>1, <2>1 DEF Held
      <3>2. CASE ~Busy(v)
        BY <3>2, <2>1 DEF TypeOK
      <3>3. QED
        BY <3>1, <3>2
    <2>4. \A v \in Worker : Held(v) \cap removed = {}
      BY <2>1
    <2>5. (\A u, v \in Worker : u # v => Held(u) \cap Held(v) = {})'
      BY <2>3, <2>4 DEF Custody
    <2>6. (\A v \in Worker : Held(v) \cap queue = {} /\ spec[v] \notin cascaded[v])'
      <3>1. \A v \in Worker : (spec[v] \notin cascaded[v])'
        BY <2>9, <2>1, <2>10, cascaded \in [Worker -> SUBSET Unit] DEF TypeOK
      <3>2. QED
        BY <3>1, <2>1, <2>3
    <2>7. (\A u \in Unit :
             reported[u] = IF u \in queue \/ (\E v \in Worker : u \in Held(v))
                             THEN 0 ELSE 1)'
      <3>1. \A u \in Unit : (u \in queue \/ \E v \in Worker : u \in Held(v))'
                           <=> (u \in queue \/ \E v \in Worker : u \in Held(v))
        BY <2>1, <2>3
      <3>2. QED
        BY <3>1, <2>10
    <2>8. QED
      BY <1>8, <1>10, <2>1, <2>10, <2>5, <2>6, <2>7 DEF TypeOK
  <1>11. CASE ReportCascaded(w)
    BY <1>11 DEF ReportCascaded
  <1>12. CASE Report(w)
    BY <1>12 DEF Report
  <1>13. QED
    BY <1>1, <1>2, <1>3, <1>4, <1>5, <1>6, <1>7, <1>8, <1>9, <1>10, <1>11,
       <1>12
    DEF WorkerStep

-----------------------------------------------------------------------------
(* So is what the tracker knows.                                           *)

\* The steps that leave the tracker alone.
LEMMA StepTrackedQuiet ==
  ASSUME TypeOK, Custody, Tracked, NEW w \in Worker, WorkerStep(w),
         ~MarkComplete(w), ~MarkFailedCascade(w)
  PROVE  Tracked'
  <1> USE UnitAssumption
      DEF Tracked, TrackedAt, Busy, Goto, TypeOK, outcome, tracker, Sound, Good, IsReady,
          HasFailedDependency, FailCode
  <1>1. CASE Pull(w)
    BY <1>1 DEF Pull, HeaviestReady
  <1>2. CASE Block(w) \/ Exit(w)
    BY <1>2 DEF Block, Exit
  <1>3. CASE AcquireOverCapacity(w) \/ AcquireHost(w) \/ AcquireDocker(w)
    BY <1>3 DEF AcquireOverCapacity, AcquireHost, AcquireDocker
  <1>4. CASE Skip(w) \/ FastPath(w) \/ CannotStart(w) \/ Start(w)
    BY <1>4 DEF Skip, FastPath, CannotStart, Start
  <1>5. CASE Finish(w) \/ TimeOut(w)
    BY <1>5 DEF Finish, TimeOut
  <1>6. CASE Release(w)
    BY <1>6 DEF Release
  <1>7. CASE Store(w)
    BY <1>7 DEF Store
  <1>8. CASE ReportCascaded(w)
    BY <1>8 DEF ReportCascaded
  <1>9. CASE Report(w)
    BY <1>9 DEF Report, Custody
  <1>10. QED
    BY <1>1, <1>2, <1>3, <1>4, <1>5, <1>6, <1>7, <1>8, <1>9 DEF WorkerStep

\* Two busy goroutines have different units, none of them queued.
LEMMA OwnUnits ==
  ASSUME TypeOK, Custody, NEW w \in Worker, Busy(w)
  PROVE  /\ spec[w] \in Unit \ queue
         /\ \A v \in Worker : v # w /\ Busy(v) => spec[v] # spec[w]
  BY DEF Custody, Held, TypeOK

LEMMA MarkCompleteTracked ==
  ASSUME TypeOK, Custody, Tracked, NEW w \in Worker, MarkComplete(w)
  PROVE  Tracked'
  <1> DEFINE u == spec[w]
  <1>1. /\ pc[w] = "mark" /\ Busy(w) /\ Sound(w)
        /\ completed' = completed \cup {u}
        /\ UNCHANGED <<depsOf, failed, queue, spec, exit, cascaded>>
    BY DEF MarkComplete, Busy, Sound
  <1>2. u \in Unit /\ u \notin failed /\ depsOf[u] \subseteq Good /\ u \notin queue
    BY <1>1, OwnUnits DEF Tracked, TrackedAt
  <1>3. Good' = Good \cup {u}
    BY <1>1, <1>2 DEF Good
  <1>4. \A x : HasFailedDependency(x)' = HasFailedDependency(x)
    BY <1>1 DEF HasFailedDependency
  <1>5. ASSUME NEW v \in Worker PROVE TrackedAt(v)'
    <2>1. Busy(v)' => IsReady(spec[v])'
      BY <1>1, MarkWakes DEF Tracked, TrackedAt, IsReady
    <2>2. Busy(v)' /\ pc'[v] # "report" => spec'[v] \notin Good'
      BY <1>1, <1>3, MarkWakes, OwnUnits DEF Tracked, TrackedAt
    <2>3. pc'[v] \in {"acquire", "docker", "start"} /\ spec'[v] \in failed'
                    => HasFailedDependency(spec[v])'
      BY <1>1, <1>4, MarkWakes DEF Tracked, TrackedAt
    <2>4. Sound(v)' => spec'[v] \notin failed' /\ depsOf'[spec'[v]] \subseteq Good'
      BY <1>1, <1>3, MarkWakes DEF Tracked, TrackedAt
    <2>5. pc'[v] = "report" => /\ spec'[v] \in completed'
                               /\ exit'[v] \in FailCode => spec'[v] \in failed'
      BY <1>1, MarkWakes DEF Tracked, TrackedAt, MarkComplete
    <2>6. cascaded'[v] \subseteq failed'
      BY <1>1 DEF Tracked, TrackedAt
    <2>7. QED
      BY <2>1, <2>2, <2>3, <2>4, <2>5, <2>6 DEF TrackedAt
  <1>6. QED
    BY <1>1, <1>2, <1>3, <1>4, <1>5 DEF Tracked

\* A failure cascades to no unit that completed, nor to one that is running or
\* has run without failure.
LEMMA CascadeSparesSound ==
  ASSUME TypeOK, Tracked, NEW u, u \notin Good
  PROVE  /\ CascadeFail(u) \cap Good = {}
         /\ \A v \in Worker : Sound(v) => spec[v] \notin CascadeFail(u)
  <1> DEFINE T == Good \cup {x \in Unit : depsOf[x] \subseteq Good}
  <1>1. T \in SUBSET Unit
    BY DEF Good, TypeOK
  <1>2. \A x \in T : depsOf[x] \subseteq Good
    BY DEF Tracked, TrackedAt
  <1>3. \A x \in T : depsOf[x] \cap ((Unit \ T) \cup {u}) = {}
    BY <1>2
  <1>4. CascadeFail(u) \cap T = {}
    BY <1>1, <1>3, CascadeAvoids
  <1>5. \A v \in Worker : Sound(v) => spec[v] \in Unit
    BY UnitAssumption DEF Sound, TypeOK, Busy
  <1>6. QED
    BY <1>4, <1>5 DEF Tracked, TrackedAt

LEMMA MarkFailedTracked ==
  ASSUME TypeOK, Custody, Tracked, NEW w \in Worker, MarkFailedCascade(w)
  PROVE  Tracked'
  <1> DEFINE u == spec[w]
             C == CascadeFail(u)
  <1>1. /\ pc[w] = "mark" /\ Busy(w) /\ exit[w] \in FailCode
        /\ completed' = completed \cup {u} \cup C
        /\ failed' = failed \cup {u} \cup C
        /\ UNCHANGED <<depsOf, spec, exit>>
    BY DEF MarkFailedCascade, Busy
  <1>2. PICK removed \in SUBSET (queue \cap CascadeFail(spec[w])) :
             /\ queue' = queue \ removed
             /\ cascaded' = [cascaded EXCEPT ![w] = removed]
    BY DEF MarkFailedCascade
  <1>3. u \in Unit /\ u \notin Good /\ u \notin queue
    BY <1>1, OwnUnits DEF Tracked, TrackedAt
  <1>4. /\ C \cap Good = {}
        /\ \A v \in Worker : Sound(v) => spec[v] \notin C
    BY <1>3, CascadeSparesSound
  <1>5. Good' = Good
    BY <1>1, <1>3, <1>4 DEF Good
  <1>6. \A x \in C : HasFailedDependency(x)'
    BY <1>1, CascadeGrounded DEF HasFailedDependency
  <1>7. \A x : HasFailedDependency(x) => HasFailedDependency(x)'
    BY <1>1 DEF HasFailedDependency
  <1>8. \A x \in Unit : HasFailedDependency(x)' => x \in failed'
    <2> SUFFICES ASSUME NEW x \in Unit, HasFailedDependency(x)', x \notin failed'
                 PROVE FALSE
      OBVIOUS
    <2>1. depsOf[x] \cap (failed \cup {u} \cup C) # {}
      BY <1>1 DEF HasFailedDependency
    <2>2. depsOf[x] \cap failed = {}
      BY <1>1 DEF Tracked, TrackedAt, HasFailedDependency
    <2>3. x \in Unit \ (failed \cup {u})
      BY <1>1
    <2>4. x \in C
      BY <2>1, <2>2, <2>3, CascadeClosed DEF ClosedUnderCascade
    <2>5. QED
      BY <2>4, <1>1
  <1>9. \A x \in queue' \cap failed' : HasFailedDependency(x)'
    BY <1>1, <1>2, <1>3, <1>6, <1>7 DEF Tracked, TrackedAt
  <1>10. ASSUME NEW v \in Worker PROVE TrackedAt(v)'
    <2>1. Busy(v)' => IsReady(spec[v])'
      BY <1>1, MarkWakes DEF Tracked, TrackedAt, IsReady
    <2>2. Busy(v)' /\ pc'[v] # "report" => spec'[v] \notin Good'
      BY <1>1, <1>5, MarkWakes DEF Tracked, TrackedAt
    <2>3. pc'[v] \in {"acquire", "docker", "start"} /\ spec'[v] \in failed'
                    => HasFailedDependency(spec[v])'
      <3> SUFFICES ASSUME pc'[v] \in {"acquire", "docker", "start"}, spec[v] \in failed'
                   PROVE HasFailedDependency(spec[v])'
        BY <1>1
      <3>1. v # w /\ pc'[v] = pc[v]
        BY MarkWakes
      <3>2. spec[v] # u
        BY <1>1, <3>1, OwnUnits DEF Busy
      <3>3. QED
        BY <1>1, <1>6, <1>7, <3>1, <3>2 DEF Tracked, TrackedAt
    <2>4. Sound(v)' => spec'[v] \notin failed' /\ depsOf'[spec'[v]] \subseteq Good'
      <3> SUFFICES ASSUME Sound(v)'
                   PROVE spec[v] \notin failed' /\ depsOf[spec[v]] \subseteq Good
        BY <1>1, <1>5
      <3>1. v # w /\ Sound(v) /\ Busy(v)
        BY <1>1, MarkWakes DEF Sound, Busy
      <3>2. spec[v] # u
        BY <1>1, <3>1, OwnUnits
      <3>3. QED
        BY <1>1, <1>4, <3>1, <3>2 DEF Tracked, TrackedAt
    <2>5. pc'[v] = "report" => /\ spec'[v] \in completed'
                               /\ exit'[v] \in FailCode => spec'[v] \in failed'
      BY <1>1, MarkWakes DEF Tracked, TrackedAt
    <2>6. cascaded'[v] \subseteq failed'
      BY <1>1, <1>2 DEF Tracked, TrackedAt, TypeOK
    <2>7. QED
      BY <2>1, <2>2, <2>3, <2>4, <2>5, <2>6 DEF TrackedAt
  <1>11. failed' \subseteq completed' /\ queue' \cap Good' = {}
    BY <1>1, <1>2, <1>5 DEF Tracked, TrackedAt
  <1>12. \A x \in Good' : depsOf'[x] \subseteq Good'
    BY <1>1, <1>5 DEF Tracked, TrackedAt
  <1>13. QED
    BY <1>8, <1>9, <1>10, <1>11, <1>12 DEF Tracked

LEMMA StepTracked ==
  ASSUME TypeOK, Custody, Tracked, NEW w \in Worker, WorkerStep(w) PROVE Tracked'
  BY StepTrackedQuiet, MarkCompleteTracked, MarkFailedTracked

-----------------------------------------------------------------------------
(* So are the results and the reports.                                     *)

\* A unit in a goroutine's hands was not reported, and is no other's.
LEMMA HeldUnreported ==
  ASSUME TypeOK, Custody, NEW w \in Worker, NEW u \in Held(w)
  PROVE  /\ reported[u] = 0
         /\ \A v \in Worker : v # w /\ Busy(v) => spec[v] # u
  <1>1. u \in Unit
    BY UnitAssumption DEF Held, TypeOK
  <1>2. reported[u] = 0
    BY <1>1 DEF Custody
  <1>3. \A v \in Worker : v # w /\ Busy(v) => spec[v] # u
    BY DEF Custody, Held
  <1>4. QED
    BY <1>2, <1>3

\* The steps that store and report nothing and do not mark.
LEMMA StepStoredQuiet ==
  ASSUME TypeOK, Custody, Tracked, Stored, NEW w \in Worker, WorkerStep(w),
         ~Store(w), ~MarkComplete(w), ~MarkFailedCascade(w), ~ReportCascaded(w)
  PROVE  Stored'
  <1> USE UnitAssumption
      DEF Stored, ResultStored, NothingStoredEarly, ReportedStored, GoodStored,
          SuccessEarned, Busy, Goto, TypeOK, outcome, tracker, Sound, Good, NoResult
  <1>1. CASE Pull(w)
    BY <1>1 DEF Pull, HeaviestReady
  <1>2. CASE Block(w) \/ Exit(w)
    BY <1>2 DEF Block, Exit
  <1>3. CASE AcquireOverCapacity(w) \/ AcquireHost(w) \/ AcquireDocker(w)
    BY <1>3 DEF AcquireOverCapacity, AcquireHost, AcquireDocker
  <1>4. CASE Skip(w) \/ FastPath(w) \/ CannotStart(w) \/ Start(w)
    BY <1>4 DEF Skip, FastPath, CannotStart, Start
  <1>5. CASE Finish(w) \/ TimeOut(w)
    BY <1>5 DEF Finish, TimeOut
  <1>6. CASE Release(w)
    BY <1>6 DEF Release
  <1>7. CASE Report(w)
    BY <1>7, UnitAssumption DEF Report, Tracked, TrackedAt, ExitCode, FailCode
  <1>8. QED
    BY <1>1, <1>2, <1>3, <1>4, <1>5, <1>6, <1>7 DEF WorkerStep

LEMMA StoreStored ==
  ASSUME TypeOK, Custody, Tracked, Stored, NEW w \in Worker, Store(w)
  PROVE  Stored'
  <1> DEFINE u == spec[w]
  <1>1. /\ pc[w] = "store" /\ Busy(w)
        /\ results' = [results EXCEPT ![u] = exit[w]]
        /\ pc' = [pc EXCEPT ![w] = "mark"]
        /\ UNCHANGED <<completed, failed, spec, exit, reported>>
    BY DEF Store, Busy, Goto, tracker
  <1>2. /\ u \in Unit /\ u \in Held(w)
        /\ exit[w] \in ExitCode
        /\ pc \in [Worker -> PC]
        /\ results \in [Unit -> ExitCode \cup {NoResult}]
    BY <1>1, OwnUnits DEF Held, TypeOK
  <1>3. reported[u] = 0 /\ \A v \in Worker : v # w /\ Busy(v) => spec[v] # u
    BY <1>2, HeldUnreported
  <1>4. u \notin Good /\ Good' = Good
    BY <1>1 DEF Tracked, TrackedAt, Good
  <1>5. \A x \in Unit : results'[x] = IF x = u THEN exit[w] ELSE results[x]
    BY <1>1, <1>2
  <1>6. \A v \in Worker : pc'[v] = IF v = w THEN "mark" ELSE pc[v]
    BY <1>1, <1>2
  <1>7. ResultStored'
    <2> SUFFICES ASSUME NEW v \in Worker, pc'[v] \in {"mark", "report"}
                 PROVE results'[spec[v]] = exit[v]
      BY <1>1 DEF ResultStored
    <2>1. CASE v = w
      BY <2>1, <1>2, <1>5
    <2>2. CASE v # w
      <3>1. pc[v] \in {"mark", "report"} /\ Busy(v)
        BY <1>6, <2>2 DEF Busy
      <3>2. spec[v] # u /\ spec[v] \in Unit
        BY <3>1, <2>2, <1>3, OwnUnits
      <3>3. QED
        BY <3>1, <3>2, <1>5 DEF Stored, ResultStored
    <2>3. QED
      BY <2>1, <2>2
  <1>8. NothingStoredEarly'
    BY <1>1, <1>5, <1>6 DEF Stored, NothingStoredEarly
  <1>9. ReportedStored'
    BY <1>1, <1>3, <1>5 DEF Stored, ReportedStored
  <1>10. GoodStored'
    BY <1>2, <1>4, <1>5 DEF Stored, GoodStored, Good, TypeOK
  <1>11. SuccessEarned'
    <2> SUFFICES ASSUME NEW x \in Unit, results'[x] \in {"ok", "cached"}
                 PROVE \/ x \in Good
                       \/ \E v \in Worker : spec[v] = x /\ pc'[v] = "mark" /\ Sound(v)'
      BY <1>1, <1>4 DEF SuccessEarned
    <2>1. CASE x = u
      <3>1. pc'[w] = "mark" /\ Sound(w)'
        BY <2>1, <1>1, <1>5, <1>6 DEF Sound, FailCode
      <3>2. QED
        BY <2>1, <3>1
    <2>2. CASE x # u
      <3>1. ASSUME NEW v \in Worker, spec[v] = x, pc[v] = "mark", Sound(v)
            PROVE  pc'[v] = "mark" /\ Sound(v)'
        BY <3>1, <1>1, <1>6 DEF Sound
      <3>2. QED
        BY <2>2, <3>1, <1>5 DEF Stored, SuccessEarned
    <2>3. QED
      BY <2>1, <2>2
  <1>12. QED
    BY <1>7, <1>8, <1>9, <1>10, <1>11 DEF Stored

LEMMA MarkStored ==
  ASSUME TypeOK, Custody, Tracked, Stored, NEW w \in Worker,
         MarkComplete(w) \/ MarkFailedCascade(w)
  PROVE  Stored'
  <1> DEFINE u == spec[w]
  <1>1. /\ pc[w] = "mark" /\ Busy(w)
        /\ UNCHANGED <<results, spec, exit, reported>>
    BY DEF MarkComplete, MarkFailedCascade, Busy, outcome
  <1>2. u \in Unit /\ u \in Held(w) /\ u \notin Good /\ reported[u] = 0
    BY <1>1, OwnUnits, HeldUnreported DEF Held, Tracked, TrackedAt
  <1>3. results[u] = exit[w] /\ exit[w] \in ExitCode
    BY <1>1 DEF Stored, ResultStored, TypeOK
  <1>4. \A v \in Worker : pc[v] \in {"mark", "report"} <=> pc'[v] \in {"mark", "report"}
    BY <1>1, MarkWakes
  <1>5. /\ completed \subseteq completed'
        /\ Good' = IF exit[w] \in FailCode THEN Good ELSE Good \cup {u}
        /\ failed \subseteq failed' /\ failed' \cap Good = {}
    <2>1. CASE MarkComplete(w)
      BY <2>1, <1>2 DEF MarkComplete, Good, Tracked, TrackedAt, Sound
    <2>2. CASE MarkFailedCascade(w)
      BY <2>2, <1>2, CascadeSparesSound DEF MarkFailedCascade, Good
    <2>3. QED
      BY <2>1, <2>2
  <1>6. ResultStored'
    BY <1>1, <1>4 DEF Stored, ResultStored
  <1>7. NothingStoredEarly'
    BY <1>1, <1>4 DEF Stored, NothingStoredEarly
  <1>8. ReportedStored'
    <2> SUFFICES ASSUME NEW x \in Unit, reported[x] > 0
                 PROVE /\ x \in completed'
                       /\ results[x] # NoResult
                       /\ x \in failed' <=> results[x] \in {"failed", "timeout"}
      BY <1>1 DEF ReportedStored
    <2>1. /\ x \in completed
          /\ results[x] # NoResult
          /\ x \in failed <=> results[x] \in {"failed", "timeout"}
      BY DEF Stored, ReportedStored
    <2>2. x \in failed' <=> x \in failed
      BY <2>1, <1>5 DEF Good
    <2>3. QED
      BY <2>1, <2>2, <1>5
  <1>9. GoodStored'
    BY <1>1, <1>3, <1>5 DEF Stored, GoodStored, ExitCode, FailCode
  <1>10. SuccessEarned'
    <2> SUFFICES ASSUME NEW x \in Unit, results[x] \in {"ok", "cached"}, x \notin Good'
                 PROVE \E v \in Worker : spec[v] = x /\ pc'[v] = "mark" /\ Sound(v)'
      BY <1>1 DEF SuccessEarned
    <2>1. PICK v \in Worker : spec[v] = x /\ pc[v] = "mark" /\ Sound(v)
      BY <1>5 DEF Stored, SuccessEarned
    <2>2. v # w
      BY <2>1, <1>1, <1>5 DEF Sound
    <2>3. QED
      BY <2>1, <2>2, MarkWakes
  <1>11. QED
    BY <1>6, <1>7, <1>8, <1>9, <1>10 DEF Stored

LEMMA ReportCascadedStored ==
  ASSUME TypeOK, Custody, Tracked, Stored, NEW w \in Worker, ReportCascaded(w)
  PROVE  Stored'
  <1>1. PICK u \in cascaded[w] : /\ results' = [results EXCEPT ![u] = "failed"]
                                 /\ reported' = [reported EXCEPT ![u] = @ + 1]
    BY DEF ReportCascaded
  <1>2. UNCHANGED <<pc, spec, exit, completed, failed>>
    BY DEF ReportCascaded, tracker
  <1>3. u \in Unit /\ u \in Held(w) /\ u \in failed /\ u \in completed
    BY DEF Held, TypeOK, Tracked, TrackedAt
  <1>4. /\ reported[u] = 0
        /\ \A v \in Worker : Busy(v) => spec[v] # u
    BY <1>3, HeldUnreported DEF Custody
  <1>5. /\ \A x \in Unit : results'[x] = IF x = u THEN "failed" ELSE results[x]
        /\ \A x \in Unit : reported'[x] = IF x = u THEN 1 ELSE reported[x]
    BY <1>1, <1>3, <1>4 DEF TypeOK
  <1>6. ResultStored'
    <2>1. \A v \in Worker : pc[v] \in {"mark", "report"} => Busy(v)
      BY DEF Busy
    <2>2. QED
      BY <2>1, <1>2, <1>4, <1>5, OwnUnits DEF Stored, ResultStored
  <1>7. NothingStoredEarly'
    BY <1>2, <1>5 DEF Stored, NothingStoredEarly
  <1>8. ReportedStored'
    BY <1>2, <1>3, <1>5 DEF Stored, ReportedStored, NoResult
  <1>9. GoodStored'
    BY <1>2, <1>3, <1>5 DEF Stored, GoodStored, Good, TypeOK
  <1>10. SuccessEarned'
    BY <1>2, <1>5 DEF Stored, SuccessEarned, Good, Sound
  <1>11. QED
    BY <1>6, <1>7, <1>8, <1>9, <1>10 DEF Stored

LEMMA StepStored ==
  ASSUME TypeOK, Custody, Tracked, Stored, NEW w \in Worker, WorkerStep(w)
  PROVE  Stored'
  BY StepStoredQuiet, StoreStored, MarkStored, ReportCascadedStored

-----------------------------------------------------------------------------
(* So is what executes.                                                    *)

LEMMA MarkExecuting ==
  ASSUME TypeOK, Custody, Tracked, Executing, NEW w \in Worker,
         MarkComplete(w) \/ MarkFailedCascade(w)
  PROVE  Executing'
  <1>1. /\ pc[w] = "mark" /\ Busy(w)
        /\ UNCHANGED <<running, depsOf, spec, exit>>
    BY DEF MarkComplete, MarkFailedCascade, Busy, outcome
  <1>2. Good \subseteq Good' /\ failed \subseteq failed'
    <2>1. CASE MarkComplete(w)
      BY <2>1 DEF MarkComplete, Good
    <2>2. CASE MarkFailedCascade(w)
      <3>1. spec[w] \notin Good
        BY <1>1 DEF Tracked, TrackedAt
      <3>2. CascadeFail(spec[w]) \cap Good = {}
        BY <3>1, CascadeSparesSound
      <3>3. QED
        BY <2>2, <3>1, <3>2 DEF MarkFailedCascade, Good
    <2>3. QED
      BY <2>1, <2>2
  <1> SUFFICES ASSUME NEW u \in running
               PROVE /\ depsOf[u] \subseteq Good'
                     /\ \/ u \in failed'
                        \/ \E v \in Worker :
                             /\ spec[v] = u
                             /\ \/ pc'[v] = "exec"
                                \/ /\ pc'[v] \in {"release", "store", "mark", "report"}
                                   /\ exit[v] \in FailCode
    BY <1>1 DEF Executing
  <1>3. depsOf[u] \subseteq Good'
    BY <1>2 DEF Executing
  <1>4. CASE u \in failed
    BY <1>2, <1>3, <1>4
  <1>5. CASE u \notin failed
    <2>1. PICK v \in Worker :
             /\ spec[v] = u
             /\ \/ pc[v] = "exec"
                \/ /\ pc[v] \in {"release", "store", "mark", "report"}
                   /\ exit[v] \in FailCode
      BY <1>5 DEF Executing
    <2>2. pc'[v] = IF v = w THEN "report"
                   ELSE IF pc[v] = "blocked" THEN "pull" ELSE pc[v]
      BY MarkWakes
    <2>3. CASE v = w
      BY <1>1, <1>3, <2>1, <2>2, <2>3
    <2>4. CASE v # w
      BY <1>3, <2>1, <2>2, <2>4
    <2>5. QED
      BY <2>3, <2>4
  <1>6. QED
    BY <1>4, <1>5

LEMMA StepExecuting ==
  ASSUME TypeOK, Custody, Tracked, Executing, NEW w \in Worker, WorkerStep(w)
  PROVE  Executing'
  <1> USE UnitAssumption DEF Executing, Busy, Goto, TypeOK, outcome, tracker, Good
  <1>1. CASE Pull(w)
    BY <1>1 DEF Pull, HeaviestReady
  <1>2. CASE Block(w) \/ Exit(w)
    BY <1>2 DEF Block, Exit
  <1>3. CASE AcquireOverCapacity(w) \/ AcquireHost(w) \/ AcquireDocker(w)
    BY <1>3 DEF AcquireOverCapacity, AcquireHost, AcquireDocker
  <1>4. CASE Skip(w) \/ FastPath(w) \/ CannotStart(w)
    BY <1>4 DEF Skip, FastPath, CannotStart
  <1>5. CASE Start(w)
    BY <1>5 DEF Start, Tracked, TrackedAt, IsReady, HasFailedDependency
  <1>6. CASE Finish(w) \/ TimeOut(w)
    BY <1>6 DEF Finish, TimeOut, FailCode
  <1>7. CASE Release(w) \/ Store(w)
    BY <1>7 DEF Release, Store
  <1>8. CASE MarkComplete(w) \/ MarkFailedCascade(w)
    BY <1>8, MarkExecuting
  <1>9. CASE ReportCascaded(w)
    BY <1>9 DEF ReportCascaded
  <1>10. CASE Report(w)
    BY <1>10 DEF Report, Tracked, TrackedAt
  <1>11. QED
    BY <1>1, <1>2, <1>3, <1>4, <1>5, <1>6, <1>7, <1>8, <1>9, <1>10
    DEF WorkerStep

-----------------------------------------------------------------------------
(* The invariant and what follows from it.                                 *)

LEMMA StepIInv == ASSUME IInv, [Next]_vars PROVE IInv'
  <1>1. ASSUME NEW w \in Worker, WorkerStep(w) PROVE IInv'
    BY <1>1, StepType, StepCustody, StepTracked, StepStored, StepExecuting DEF IInv
  <1>2. ASSUME NEW u \in Unit, OrphanReturns(u) \/ DetectCached(u) PROVE IInv'
    <2>1. /\ UNCHANGED <<depsOf, completed, failed, queue, pc, spec, exit, cascaded,
                        capacity, results, reported>>
          /\ running' \subseteq running
          /\ earlyCached' \in SUBSET Unit
      BY <1>2, UnitAssumption
      DEF OrphanReturns, DetectCached, tracker, capacity, outcome, IInv, TypeOK
    <2>2. (TypeOK /\ Custody)'
      BY <2>1 DEF IInv, TypeOK, Custody, Held, Busy, capacity
    <2>3. (Tracked /\ Stored)'
      BY <2>1 DEF IInv, Tracked, TrackedAt, Stored, ResultStored,
                  NothingStoredEarly, ReportedStored, GoodStored, SuccessEarned,
                  Sound, Good, Busy, IsReady, HasFailedDependency
    <2>4. Executing'
      BY <2>1 DEF IInv, Executing, Good
    <2>5. QED
      BY <2>2, <2>3, <2>4 DEF IInv
  <1>3. CASE UNCHANGED vars
    <2> USE <1>3 DEF vars
    <2>1. (TypeOK /\ Custody)'
      BY DEF IInv, TypeOK, Custody, Held, Busy
    <2>2. (Tracked /\ Stored)'
      BY DEF IInv, Tracked, TrackedAt, Stored, ResultStored,
             NothingStoredEarly, ReportedStored, GoodStored, SuccessEarned,
             Sound, Good, Busy, IsReady, HasFailedDependency
    <2>3. Executing'
      BY DEF IInv, Executing, Good
    <2>4. QED
      BY <2>1, <2>2, <2>3 DEF IInv
  <1>4. QED
    BY <1>1, <1>2, <1>3 DEF Next, Returned

\* The inductive invariant holds in every state of the pool: types, custody of
\* the units, the tracker's knowledge, the stored results, the handlers.
THEOREM Invariant == Spec => []IInv
  BY InitIInv, StepIInv, PTL DEF Spec

\* Every unit is in one place until it is reported, is reported once, and none
\* is lost when the pool has ended (workerLoop, handleCompletion).
THEOREM EveryUnitOnce == Spec => []NoneLostNoneTwice
  <1>1. IInv => NoneLostNoneTwice
    <2> SUFFICES ASSUME IInv PROVE NoneLostNoneTwice
      OBVIOUS
    <2>1. ASSUME PoolDone, NEW u \in Unit
          PROVE  reported[u] = 1 /\ results[u] # NoResult
      <3>1. \A w \in Worker : Held(w) = {}
        BY <2>1 DEF PoolDone, IInv, Custody, Held, Busy
      <3>2. u \notin queue
        BY <2>1, WorkerAssumption DEF PoolDone, IInv, Custody
      <3>3. reported[u] = 1
        BY <3>1, <3>2 DEF IInv, Custody
      <3>4. QED
        BY <3>3 DEF IInv, Stored, ReportedStored
    <2>2. QED
      BY <2>1 DEF IInv, Custody, NoneLostNoneTwice
  <1>2. QED
    BY <1>1, Invariant, PTL

\* A handler runs on dependencies that completed, did not fail and have a good
\* result, for as long as it runs (IsReady, HasFailedDependency, workerLoop).
THEOREM DependenciesHeld == Spec => []DependenciesFirst
  <1>1. IInv => DependenciesFirst
    BY DEF IInv, DependenciesFirst, Executing, Stored, GoodStored, Good
  <1>2. QED
    BY <1>1, Invariant, PTL

\* No handler executes beside the handler of a unit it depends on, timed-out
\* handlers that still run included (executeWorker, IsReady).
THEOREM HandlersApart == Spec => []NoHandlerBesideDependency
  <1>1. ASSUME IInv, NEW u \in running, NEW d \in depsOf[u] \cap running PROVE FALSE
    <2>1. d \in Good /\ d \notin failed
      BY <1>1 DEF IInv, Executing, Good
    <2>2. PICK w \in Worker :
             /\ spec[w] = d
             /\ \/ pc[w] = "exec"
                \/ /\ pc[w] \in {"release", "store", "mark", "report"}
                   /\ exit[w] \in FailCode
      BY <1>1, <2>1 DEF IInv, Executing
    <2>3. TrackedAt(w)
      BY <1>1 DEF IInv, Tracked
    <2>4. QED
      BY <2>1, <2>2, <2>3 DEF TrackedAt, Busy
  <1>2. IInv => NoHandlerBesideDependency
    BY <1>1 DEF NoHandlerBesideDependency
  <1>3. QED
    BY <1>2, Invariant, PTL

\* A unit with a good result depends on units with good results only
\* (MarkFailedCascade, executeOrSkipUnit).
THEOREM SuccessSound == Spec => []SuccessRestsOnSuccess
  <1>1. ASSUME IInv, NEW u \in Unit, results[u] \in {"ok", "cached"}
        PROVE  \A d \in depsOf[u] : results[d] \in {"ok", "cached"}
    <2>1. depsOf[u] \subseteq Good
      BY <1>1 DEF IInv, Stored, SuccessEarned, Tracked, TrackedAt
    <2>2. QED
      BY <1>1, <2>1 DEF IInv, Stored, GoodStored
  <1>2. IInv => SuccessRestsOnSuccess
    BY <1>1 DEF SuccessRestsOnSuccess
  <1>3. QED
    BY <1>2, Invariant, PTL

\* Of the units reported, the tracker holds as failed just those with a stored
\* failure (handleCompletion).
THEOREM BooksAgree == Spec => []ReportAgreesWithTracker
  <1>1. IInv => ReportAgreesWithTracker
    BY DEF IInv, Stored, ReportedStored, ReportAgreesWithTracker
  <1>2. QED
    BY <1>1, Invariant, PTL
-----------------------------------------------------------------------------
(* Verdicts.                                                               *)

\* What a failed unit's cascade adds: nothing that had completed without failure.
LEMMA StepGood ==
  ASSUME IInv, NEW w \in Worker, WorkerStep(w)
  PROVE  Good \cap failed' = {}
  <1>1. CASE MarkFailedCascade(w)
    <2>1. spec[w] \notin Good
      BY <1>1 DEF MarkFailedCascade, IInv, Tracked, TrackedAt, Busy
    <2>2. CascadeFail(spec[w]) \cap Good = {}
      BY <2>1, CascadeSparesSound DEF IInv
    <2>3. QED
      BY <1>1, <2>1, <2>2 DEF MarkFailedCascade, Good
  <1>2. CASE ~MarkFailedCascade(w)
    BY <1>2
    DEF WorkerStep, Pull, Block, Exit, AcquireOverCapacity, AcquireHost,
        AcquireDocker, Skip, FastPath, CannotStart, Start, Finish, TimeOut, Release,
        Store, MarkComplete, ReportCascaded, Report, tracker, Good
  <1>3. QED
    BY <1>1, <1>2

\* A unit whose result is stored now had none.
LEMMA StepResults ==
  ASSUME IInv, NEW w \in Worker, WorkerStep(w), NEW u \in Unit, results[u] # NoResult
  PROVE  results'[u] = results[u]
  <1> USE DEF IInv
  <1>1. CASE Store(w)
    <2>1. Busy(w) /\ spec[w] \in Held(w) /\ pc[w] = "store"
      BY <1>1 DEF Store, Busy, Held
    <2>2. reported[spec[w]] = 0
      BY <2>1, HeldUnreported
    <2>3. results[spec[w]] = NoResult
      <3>1. \A v \in Worker : pc[v] \in {"mark", "report"} => Busy(v) /\ v # w
        BY <2>1 DEF Busy
      <3>2. \A v \in Worker : pc[v] \in {"mark", "report"} => spec[v] # spec[w]
        BY <2>1, <3>1, OwnUnits
      <3>3. spec[w] \in Unit
        BY <2>1, OwnUnits
      <3>4. QED
        BY <2>2, <3>2, <3>3 DEF Stored, NothingStoredEarly
    <2>4. QED
      BY <1>1, <2>3 DEF Store, TypeOK
  <1>2. CASE ReportCascaded(w)
    <2>1. PICK x \in cascaded[w] : results' = [results EXCEPT ![x] = "failed"]
      BY <1>2 DEF ReportCascaded
    <2>2. x \in Unit /\ x \in Held(w)
      BY DEF Held, TypeOK
    <2>3. reported[x] = 0 /\ spec[w] # x
      BY <2>2, HeldUnreported DEF Custody
    <2>4. \A v \in Worker : pc[v] \in {"mark", "report"} => spec[v] # x
      BY <2>2, <2>3, HeldUnreported DEF Busy
    <2>5. results[x] = NoResult
      BY <2>2, <2>3, <2>4 DEF Stored, NothingStoredEarly
    <2>6. QED
      BY <2>1, <2>5 DEF TypeOK
  <1>3. CASE ~Store(w) /\ ~ReportCascaded(w)
    BY <1>3
    DEF WorkerStep, Pull, Block, Exit, AcquireOverCapacity, AcquireHost,
        AcquireDocker, Skip, FastPath, CannotStart, Start, Finish, TimeOut, Release,
        MarkComplete, MarkFailedCascade, Report, outcome
  <1>4. QED
    BY <1>1, <1>2, <1>3

\* No stored result is replaced, and nothing completed without failure fails
\* later, though cascadeFailRecursive does not look at what it marks.
THEOREM VerdictsFinal == Spec => VerdictIsFinal
  <1>1. ASSUME IInv, [Next]_vars
        PROVE  [/\ \A u \in Unit : results[u] # NoResult => results'[u] = results[u]
                /\ (completed \ failed) \cap failed' = {}]_vars
    <2>1. ASSUME NEW w \in Worker, WorkerStep(w)
          PROVE  /\ \A u \in Unit : results[u] # NoResult => results'[u] = results[u]
                 /\ (completed \ failed) \cap failed' = {}
      BY <1>1, <2>1, StepResults, StepGood DEF Good
    <2>2. ASSUME NEW u \in Unit, OrphanReturns(u) \/ DetectCached(u)
          PROVE  UNCHANGED <<results, completed, failed>>
      BY <2>2 DEF OrphanReturns, DetectCached, tracker, outcome
    <2>3. CASE UNCHANGED vars
      BY <2>3
    <2>4. QED
      BY <1>1, <2>1, <2>2, <2>3 DEF Next, Returned
  <1>2. QED
    BY <1>1, Invariant, PTL DEF Spec, VerdictIsFinal
-----------------------------------------------------------------------------
(* The pool implements WorkGraph (its safety part).                        *)

\* StatusOf without CASE.
Runs(u) == \E w \in Worker : /\ spec[w] = u
                             /\ pc[w] \in {"exec", "release", "store", "mark"}

LEMMA StatusIs ==
  \A u \in Unit : status[u] = IF u \in failed THEN "failed"
                              ELSE IF u \in Good THEN "ok"
                              ELSE IF Runs(u) THEN "running" ELSE "pending"
  BY DEF status, StatusOf, Good, Runs

\* In terms of the tracker, what the promise calls downstream of a failure is
\* what had failed before and what the cascade adds.
LEMMA DownstreamIs ==
  ASSUME TypeOK, Tracked, NEW u \in Unit
  PROVE  /\ CascadeFail(u) \subseteq Promise!Downstream(u)
         /\ Promise!Downstream(u) \subseteq failed \cup {u} \cup CascadeFail(u)
  <1>1. ASSUME NEW S \in SUBSET Unit, Promise!Closed(S, u)
        PROVE  ClosedUnderCascade(S, u)
    BY <1>1 DEF Promise!Closed, ClosedUnderCascade
  <1>2. CascadeFail(u) \subseteq Promise!Downstream(u)
    BY <1>1 DEF Promise!Downstream, CascadeFail
  <1> DEFINE T == (failed \cap Unit) \cup {u} \cup CascadeFail(u)
  <1>3. Promise!Closed(T, u)
    <2> SUFFICES ASSUME NEW v \in Unit, depsOf[v] \cap (T \cup {u}) # {} PROVE v \in T
      BY DEF Promise!Closed
    <2>1. CASE depsOf[v] \cap failed # {}
      BY <2>1 DEF Tracked, HasFailedDependency
    <2>2. CASE depsOf[v] \cap (CascadeFail(u) \cup {u}) # {}
      BY <2>2, CascadeClosed DEF ClosedUnderCascade
    <2>3. QED
      BY <2>1, <2>2
  <1>4. T \in SUBSET Unit
    BY CascadeType
  <1>5. QED
    BY <1>2, <1>3, <1>4 DEF Promise!Downstream

\* The goroutine holds a unit that counts as running.
Runner(w) == pc[w] \in {"exec", "release", "store", "mark"}

\* The unit of a runner is the unit of nobody else.
LEMMA RunsIs ==
  ASSUME TypeOK, Custody, NEW w \in Worker, Busy(w)
  PROVE  /\ spec[w] \in Unit
         /\ Runs(spec[w]) <=> Runner(w)
         /\ \A x \in Unit \ {spec[w]} :
              Runs(x) <=> \E v \in Worker \ {w} : spec[v] = x /\ Runner(v)
  <1>1. spec[w] \in Unit /\ \A v \in Worker : v # w /\ Busy(v) => spec[v] # spec[w]
    BY OwnUnits
  <1>2. \A v \in Worker : Runner(v) => Busy(v)
    BY DEF Runner, Busy
  <1>3. QED
    BY <1>1, <1>2 DEF Runs, Runner

\* Steps that change no status.
LEMMA QuietStatus ==
  ASSUME TypeOK, NEW w \in Worker,
         \/ Pull(w) \/ Block(w) \/ Exit(w) \/ AcquireOverCapacity(w)
         \/ AcquireHost(w) \/ AcquireDocker(w) \/ Finish(w) \/ TimeOut(w)
         \/ Release(w) \/ Store(w) \/ ReportCascaded(w) \/ Report(w)
  PROVE  UNCHANGED <<depsOf, status>>
  <1>1. UNCHANGED <<depsOf, completed, failed>>
    BY DEF Pull, Block, Exit, AcquireOverCapacity, AcquireHost, AcquireDocker, Finish,
           TimeOut, Release, Store, ReportCascaded, Report, tracker
  <1>2. \A v \in Worker : /\ Runner(v)' <=> Runner(v)
                          /\ Runner(v) => spec'[v] = spec[v]
    BY DEF Pull, Block, Exit, AcquireOverCapacity, AcquireHost, AcquireDocker, Finish,
           TimeOut, Release, Store, ReportCascaded, Report, Runner, Goto, TypeOK
  <1>3. \A u \in Unit : Runs(u)' <=> Runs(u)
    BY <1>2 DEF Runs, Runner
  <1>4. \A u \in Unit : StatusOf(u)' = StatusOf(u)
    BY <1>1, <1>3 DEF StatusOf, Runs
  <1>5. QED
    BY <1>1, <1>4 DEF status

\* What a step must show of the status of each unit to be a step of WorkGraph.
LEMMA StatusChange ==
  \A u \in Unit : status'[u] = IF u \in failed' THEN "failed"
                               ELSE IF u \in Good' THEN "ok"
                               ELSE IF Runs(u)' THEN "running" ELSE "pending"
  BY DEF status, StatusOf, Good, Runs

LEMMA BeginRefines ==
  ASSUME IInv, NEW w \in Worker, Skip(w) \/ FastPath(w) \/ CannotStart(w) \/ Start(w)
  PROVE  [Promise!Next]_<<depsOf, status>>
  <1> DEFINE u == spec[w]
  <1>1. /\ pc[w] = "start" /\ Busy(w) /\ ~Runner(w)
        /\ UNCHANGED <<depsOf, completed, failed, spec>>
        /\ \/ pc' = [pc EXCEPT ![w] = "release"]
           \/ pc' = [pc EXCEPT ![w] = "exec"]
    BY DEF Skip, FastPath, CannotStart, Start, tracker, Goto, Busy, Runner
  <1>2. /\ u \in Unit /\ ~Runs(u)
        /\ \A x \in Unit \ {u} :
             Runs(x) <=> \E v \in Worker \ {w} : spec[v] = x /\ Runner(v)
    BY <1>1, RunsIs DEF IInv
  <1>3. Runner(w)' /\ \A v \in Worker \ {w} : Runner(v)' <=> Runner(v)
    BY <1>1 DEF Runner, IInv, TypeOK
  <1>4. Runs(u)' /\ \A x \in Unit \ {u} : Runs(x)' <=> Runs(x)
    <2>1. Runs(u)'
      BY <1>1, <1>3 DEF Runs, Runner
    <2>2. \A x \in Unit \ {u} : Runs(x)' <=> \E v \in Worker \ {w} : spec[v] = x /\ Runner(v)
      BY <1>1, <1>3 DEF Runs, Runner
    <2>3. QED
      BY <2>1, <2>2, <1>2
  <1>5. Good' = Good
    BY <1>1 DEF Good
  <1>6. CASE u \in failed
    <2>1. \A x \in Unit : status'[x] = status[x]
      BY <1>1, <1>4, <1>5, <1>6, StatusIs, StatusChange
    <2>2. status' = status
      BY <2>1 DEF status
    <2>3. QED
      BY <2>2, <1>1
  <1>7. CASE u \notin failed
    <2>1. depsOf[u] \subseteq Good /\ u \notin Good
      BY <1>1, <1>2, <1>7
      DEF IInv, Tracked, TrackedAt, HasFailedDependency, IsReady, Good
    <2>2. status[u] = "pending"
      BY <2>1, <1>2, <1>7, StatusIs
    <2>3. \A d \in depsOf[u] : status[d] = "ok"
      BY <2>1, <1>2, StatusIs DEF Good, IInv, TypeOK
    <2>4. \A x \in Unit : status'[x] = IF x = u THEN "running" ELSE status[x]
      BY <1>1, <1>4, <1>5, <1>7, <2>1, StatusIs, StatusChange
    <2>5. status' = [status EXCEPT ![u] = "running"]
      BY <2>4 DEF status
    <2>6. Promise!Start(u)
      BY <2>2, <2>3, <2>5, <1>1 DEF Promise!Start
    <2>7. QED
      BY <2>6, <1>2 DEF Promise!Next, Promise!Step
  <1>8. QED
    BY <1>6, <1>7

LEMMA MarkRefines ==
  ASSUME IInv, NEW w \in Worker, MarkComplete(w) \/ MarkFailedCascade(w)
  PROVE  [Promise!Next]_<<depsOf, status>>
  <1> DEFINE u == spec[w]
  <1>1. /\ pc[w] = "mark" /\ Busy(w) /\ Runner(w)
        /\ UNCHANGED <<depsOf, spec>>
    BY DEF MarkComplete, MarkFailedCascade, Busy, Runner
  <1>2. /\ u \in Unit /\ Runs(u)
        /\ \A x \in Unit \ {u} :
             Runs(x) <=> \E v \in Worker \ {w} : spec[v] = x /\ Runner(v)
    BY <1>1, RunsIs DEF IInv
  <1>3. ~Runner(w)' /\ \A v \in Worker \ {w} : Runner(v)' <=> Runner(v)
    BY MarkWakes DEF Runner, IInv
  <1>4. \A x \in Unit \ {u} : Runs(x)' <=> Runs(x)
    <2>1. \A x \in Unit \ {u} : Runs(x)' <=> \E v \in Worker \ {w} : spec[v] = x /\ Runner(v)
      BY <1>1, <1>3 DEF Runs, Runner
    <2>2. QED
      BY <2>1, <1>2
  <1>5. u \notin Good
    BY <1>1 DEF IInv, Tracked, TrackedAt
  <1>6. CASE MarkComplete(w)
    <2>1. u \notin failed
      BY <1>1, <1>6 DEF MarkComplete, Sound, IInv, Tracked, TrackedAt
    <2>2. failed' = failed /\ Good' = Good \cup {u}
      BY <1>6, <2>1 DEF MarkComplete, Good
    <2>3. \A x \in Unit : status'[x] = IF x = u THEN "ok" ELSE status[x]
      BY <1>4, <2>1, <2>2, StatusIs, StatusChange
    <2>4. status' = [status EXCEPT ![u] = "ok"]
      BY <2>3 DEF status
    <2>5. status[u] = "running"
      BY <1>2, <1>5, <2>1, StatusIs
    <2>6. Promise!Succeed(u)
      BY <1>1, <2>4, <2>5 DEF Promise!Succeed
    <2>7. QED
      BY <2>6, <1>2 DEF Promise!Next, Promise!Step
  <1>7. CASE MarkFailedCascade(w)
    <2> DEFINE down == CascadeFail(u)
    <2>1. failed' = failed \cup {u} \cup down /\ completed' = completed \cup {u} \cup down
      BY <1>7 DEF MarkFailedCascade
    <2>2. down \cap Good = {}
      BY <1>5, CascadeSparesSound DEF IInv
    <2>3. Good' = Good
      BY <2>1, <2>2, <1>5 DEF Good
    <2>4. CASE u \in failed
      <3>1. ClosedUnderCascade({}, u)
        BY <2>4 DEF IInv, Tracked, HasFailedDependency, ClosedUnderCascade
      <3>2. down = {}
        BY <3>1 DEF CascadeFail
      <3>3. \A x \in Unit : status'[x] = status[x]
        BY <1>4, <2>1, <2>3, <2>4, <3>2, StatusIs, StatusChange
      <3>4. status' = status
        BY <3>3 DEF status
      <3>5. QED
        BY <3>4, <1>1
    <2>5. CASE u \notin failed
      <3>1. status[u] = "running"
        BY <1>2, <1>5, <2>5, StatusIs
      <3>2. down \subseteq Promise!Downstream(u)
        BY <1>2, DownstreamIs DEF IInv
      <3>3. Promise!Downstream(u) \subseteq failed \cup {u} \cup down
        BY <1>2, DownstreamIs DEF IInv
      <3>4. \A x \in Unit : status'[x] = IF x = u \/ x \in Promise!Downstream(u)
                                           THEN "failed" ELSE status[x]
        BY <1>4, <2>1, <2>3, <3>2, <3>3, StatusIs, StatusChange
      <3>5. status' = [x \in Unit |-> IF x = u \/ x \in Promise!Downstream(u)
                                        THEN "failed" ELSE status[x]]
        BY <3>4 DEF status
      <3>6. Promise!Fail(u)
        BY <1>1, <3>1, <3>5 DEF Promise!Fail
      <3>7. QED
        BY <3>6, <1>2 DEF Promise!Next, Promise!Step
    <2>6. QED
      BY <2>4, <2>5
  <1>8. QED
    BY <1>6, <1>7

\* Every behaviour of the pool is a behaviour of WorkGraph: a unit starts when all
\* it depends on succeeded, a failure fails all that lies downstream of it in one
\* step, and nothing else changes a verdict (RunUnits).
THEOREM ImplementsPromise == Spec => Promise!Spec
  <1>1. Init => Promise!Init
    BY DEF Init, Promise!Init, status, StatusOf
  <1>2. ASSUME IInv, [Next]_vars PROVE [Promise!Next]_<<depsOf, status>>
    <2>1. ASSUME NEW w \in Worker, WorkerStep(w)
          PROVE  [Promise!Next]_<<depsOf, status>>
      BY <1>2, <2>1, QuietStatus, BeginRefines, MarkRefines DEF WorkerStep, IInv
    <2>2. ASSUME NEW u \in Unit, OrphanReturns(u) \/ DetectCached(u)
          PROVE  UNCHANGED <<depsOf, status>>
      BY <2>2 DEF OrphanReturns, DetectCached, tracker, status, StatusOf
    <2>3. CASE UNCHANGED vars
      BY <2>3 DEF vars, status, StatusOf
    <2>4. QED
      BY <1>2, <2>1, <2>2, <2>3 DEF Next, Returned
  <1>3. QED
    BY <1>1, <1>2, Invariant, PTL DEF Spec, Promise!Spec, Promise!vars

-----------------------------------------------------------------------------
(* The pool keeps the protocol of ReadyQueue.                              *)

LEMMA SameCascade ==
  \A u : PoolQueue!CascadeFail(u) = CascadeFail(u)
  <1>1. \A S, u : PoolQueue!ClosedUnderCascade(S, u) <=> ClosedUnderCascade(S, u)
    BY DEF PoolQueue!ClosedUnderCascade, ClosedUnderCascade
  <1>2. QED
    BY <1>1 DEF PoolQueue!CascadeFail, CascadeFail

\* The goroutine has a unit in flight.
Pulls(w) == Busy(w) /\ pc[w] # "report"

LEMMA PulledSame ==
  ASSUME \A v \in Worker : (Pulls(v)' <=> Pulls(v)) /\ (Pulls(v) => spec'[v] = spec[v])
  PROVE  Pulled' = Pulled
  <1>1. Pulled = {u \in Unit : \E w \in Worker : Pulls(w) /\ spec[w] = u}
    BY DEF Pulled, Pulls
  <1>2. Pulled' = {u \in Unit : \E w \in Worker : Pulls(w)' /\ spec'[w] = u}
    BY DEF Pulled, Pulls
  <1>3. \A u \in Unit : (\E w \in Worker : Pulls(w)' /\ spec'[w] = u)
                         <=> (\E w \in Worker : Pulls(w) /\ spec[w] = u)
    OBVIOUS
  <1>4. QED
    BY <1>1, <1>2, <1>3

LEMMA QuietQueue ==
  ASSUME TypeOK, NEW w \in Worker, WorkerStep(w),
         ~Pull(w), ~MarkComplete(w), ~MarkFailedCascade(w)
  PROVE  UNCHANGED <<depsOf, Pulled, queue, completed, failed>>
  <1>1. UNCHANGED <<depsOf, queue, completed, failed>>
    BY DEF WorkerStep, Block, Exit, AcquireOverCapacity, AcquireHost, AcquireDocker,
           Skip, FastPath, CannotStart, Start, Finish, TimeOut, Release, Store,
           ReportCascaded, Report, tracker
  <1>2. \A v \in Worker : (Pulls(v)' <=> Pulls(v)) /\ (Pulls(v) => spec'[v] = spec[v])
    BY DEF WorkerStep, Block, Exit, AcquireOverCapacity, AcquireHost, AcquireDocker,
           Skip, FastPath, CannotStart, Start, Finish, TimeOut, Release, Store,
           ReportCascaded, Report, Pulls, Busy, Goto, TypeOK
  <1>3. QED
    BY <1>1, <1>2, PulledSame

LEMMA PullTakes ==
  ASSUME IInv, NEW w \in Worker, Pull(w)
  PROVE  PoolQueue!Next
  <1>1. PICK u \in HeaviestReady : /\ queue' = queue \ {u}
                                  /\ spec' = [spec EXCEPT ![w] = u]
    BY DEF Pull
  <1>2. /\ pc[w] = "pull" /\ pc' = [pc EXCEPT ![w] = "acquire"]
        /\ UNCHANGED <<depsOf, completed, failed>>
    BY DEF Pull, Goto, tracker
  <1>3. u \in Unit
    BY DEF HeaviestReady, IInv, TypeOK
  <1>4. Pulled' = Pulled \cup {u}
    <2>1. \A v \in Worker \ {w} : pc'[v] = pc[v] /\ spec'[v] = spec[v]
      BY <1>1, <1>2 DEF IInv, TypeOK
    <2>2. pc'[w] = "acquire" /\ spec'[w] = u
      BY <1>1, <1>2 DEF IInv, TypeOK
    <2>3. QED
      BY <2>1, <2>2, <1>2, <1>3 DEF Pulled, Busy
  <1>5. u \in PoolQueue!HeaviestReady
    BY DEF HeaviestReady, PoolQueue!HeaviestReady, IsReady, PoolQueue!IsReady
  <1>6. PoolQueue!Take(u)
    BY <1>1, <1>2, <1>4, <1>5 DEF PoolQueue!Take
  <1>7. QED
    BY <1>3, <1>6 DEF PoolQueue!Next

LEMMA MarkMarks ==
  ASSUME IInv, NEW w \in Worker, MarkComplete(w) \/ MarkFailedCascade(w)
  PROVE  PoolQueue!Next
  <1> DEFINE u == spec[w]
  <1>1. /\ pc[w] = "mark" /\ Busy(w)
        /\ UNCHANGED <<depsOf, spec>>
    BY DEF MarkComplete, MarkFailedCascade, Busy
  <1>2. u \in Unit /\ \A v \in Worker \ {w} : Busy(v) => spec[v] # u
    BY <1>1, OwnUnits DEF IInv
  <1>3. u \in Pulled
    BY <1>1, <1>2 DEF Pulled
  <1>4. Pulled' = Pulled \ {u}
    <2>1. pc'[w] = "report"
      BY MarkWakes DEF IInv
    <2>2. \A v \in Worker \ {w} : (Busy(v) /\ pc[v] # "report")'
                                   <=> (Busy(v) /\ pc[v] # "report")
      BY MarkWakes DEF IInv
    <2>3. QED
      BY <2>1, <2>2, <1>1, <1>2 DEF Pulled
  <1>5. CASE MarkComplete(w)
    <2>1. PoolQueue!Complete(u)
      BY <1>1, <1>3, <1>4, <1>5 DEF MarkComplete, PoolQueue!Complete
    <2>2. QED
      BY <2>1, <1>2 DEF PoolQueue!Next
  <1>6. CASE MarkFailedCascade(w)
    <2>1. \E removed \in SUBSET (queue \cap CascadeFail(u)) : queue' = queue \ removed
      BY <1>6 DEF MarkFailedCascade
    <2>2. /\ failed' = failed \cup {u} \cup CascadeFail(u)
          /\ completed' = completed \cup {u} \cup CascadeFail(u)
      BY <1>6 DEF MarkFailedCascade
    <2>3. PoolQueue!FailCascade(u)
      BY <2>1, <2>2, <1>1, <1>3, <1>4, SameCascade DEF PoolQueue!FailCascade
    <2>4. QED
      BY <2>3, <1>2 DEF PoolQueue!Next
  <1>7. QED
    BY <1>5, <1>6

\* Every behaviour of the pool, seen through its queue, is a behaviour of
\* ReadyQueue (WaitForReady, MarkComplete, MarkFailedCascade as workerLoop and
\* handleCompletion call them).
THEOREM QueueProtocol == Spec => KeepsQueueProtocol
  <1>1. Init => PoolQueue!Init
    BY DEF Init, PoolQueue!Init, Pulled, Busy
  <1>2. ASSUME IInv, [Next]_vars
        PROVE  [PoolQueue!Next]_<<depsOf, Weight, queue, Pulled, completed, failed>>
    <2>1. ASSUME NEW w \in Worker, WorkerStep(w)
          PROVE  [PoolQueue!Next]_<<depsOf, Weight, queue, Pulled, completed, failed>>
      BY <1>2, <2>1, QuietQueue, PullTakes, MarkMarks DEF IInv
    <2>2. ASSUME NEW u \in Unit, OrphanReturns(u) \/ DetectCached(u)
          PROVE  UNCHANGED <<depsOf, queue, Pulled, completed, failed>>
      BY <2>2 DEF OrphanReturns, DetectCached, tracker, Pulled, Busy
    <2>3. CASE UNCHANGED vars
      BY <2>3 DEF vars, Pulled, Busy
    <2>4. QED
      BY <1>2, <2>1, <2>2, <2>3 DEF Next, Returned
  <1>3. QED
    BY <1>1, <1>2, Invariant, PTL DEF Spec, KeepsQueueProtocol, PoolQueue!Spec,
       PoolQueue!vars

-----------------------------------------------------------------------------
(* Capacity.                                                               *)

\* Who has a share of each pool, and how much.
HostShare == Holders \ overCap
DockerShare == DockerHolders \ overCap
HostLoad == [w \in Worker |-> HostNeed(spec[w])]
DockerLoad == [w \in Worker |-> DockerWeight[spec[w]]]

\* CapacityHeld with the sums over functions of every goroutine, and what a
\* goroutine that waits for docker waits with.
Capacity ==
  /\ OverHolders = overCap
  /\ \A v, w \in overCap : v = w
  /\ hostUsed = Total(HostShare, HostLoad)
  /\ dockerUsed = Total(DockerShare, DockerLoad)
  /\ \A w \in Worker : pc[w] = "docker" => /\ NeedsDocker(spec[w])
                                           /\ ~IsOverCapacity(spec[w])

LEMMA Loads ==
  ASSUME TypeOK
  PROVE  /\ Holders \subseteq Worker /\ DockerHolders \subseteq Holders
         /\ IsFiniteSet(HostShare) /\ IsFiniteSet(DockerShare)
         /\ \A w \in Holders : HostLoad[w] \in Nat
         /\ \A w \in DockerHolders : DockerLoad[w] \in Nat
  <1>1. Holders \subseteq Worker /\ DockerHolders \subseteq Holders
    BY DEF Holders, DockerHolders
  <1>2. IsFiniteSet(HostShare) /\ IsFiniteSet(DockerShare)
    <2>1. HostShare \subseteq Worker /\ DockerShare \subseteq Worker
      BY <1>1 DEF HostShare, DockerShare
    <2>2. QED
      BY <2>1, WorkerAssumption, FS_Subset
  <1>3. \A w \in Holders : spec[w] \in Unit
    BY DEF Holders, TypeOK, Busy
  <1>4. \A w \in Holders : HostLoad[w] \in Nat
    BY <1>1, <1>3, WeightAssumption DEF HostLoad, HostNeed
  <1>5. \A w \in DockerHolders : DockerLoad[w] \in Nat
    BY <1>1, <1>3, WeightAssumption DEF DockerLoad, DockerHolders, NeedsDocker
  <1>6. QED
    BY <1>1, <1>2, <1>4, <1>5

LEMMA CapacityMeans ==
  ASSUME TypeOK, Capacity
  PROVE  CapacityHeld
  <1>1. Cardinality(overCap) <= 1
    <2>1. CASE overCap = {}
      BY <2>1, FS_EmptySet
    <2>2. ASSUME NEW w \in overCap PROVE Cardinality(overCap) = 1
      <3>1. overCap = {w}
        BY DEF Capacity
      <3>2. QED
        BY <3>1, FS_Singleton
    <2>3. QED
      BY <2>1, <2>2
  <1>2. hostUsed = Total(Holders \ overCap, [w \in Holders |-> HostNeed(spec[w])])
    <2> DEFINE part == [w \in Holders |-> HostNeed(spec[w])]
    <2>1. \A w \in HostShare : part[w] = HostLoad[w]
      BY Loads DEF HostShare, HostLoad
    <2> HIDE DEF part
    <2>2. Total(HostShare, part) = Total(HostShare, HostLoad)
      BY <2>1, TotalSame
    <2>3. QED
      BY <2>2 DEF Capacity, HostShare, part
  <1>3. dockerUsed = Total(DockerHolders \ overCap,
                           [w \in DockerHolders |-> DockerWeight[spec[w]]])
    <2> DEFINE part == [w \in DockerHolders |-> DockerWeight[spec[w]]]
    <2>1. \A w \in DockerShare : part[w] = DockerLoad[w]
      BY Loads DEF DockerShare, DockerLoad
    <2> HIDE DEF part
    <2>2. Total(DockerShare, part) = Total(DockerShare, DockerLoad)
      BY <2>1, TotalSame
    <2>3. QED
      BY <2>2 DEF Capacity, DockerShare, part
  <1>4. QED
    BY <1>1, <1>2, <1>3 DEF Capacity, CapacityHeld, TypeOK

LEMMA InitCapacity == Init => Capacity
  <1> SUFFICES ASSUME Init PROVE Capacity
    OBVIOUS
  <1>1. Holders = {} /\ DockerHolders = {} /\ OverHolders = {}
    BY DEF Init, Holders, DockerHolders, OverHolders
  <1>2. HostShare = {} /\ DockerShare = {}
    BY <1>1 DEF HostShare, DockerShare
  <1>3. QED
    BY <1>1, <1>2, TotalEmpty DEF Init, Capacity

\* A step that leaves the shares alone.
LEMMA QuietCapacity ==
  ASSUME TypeOK, Capacity, UNCHANGED capacity,
         \A w \in Worker : /\ w \in Holders' <=> w \in Holders
                           /\ pc'[w] = "docker" <=> pc[w] = "docker"
                           /\ w \in Holders => spec'[w] = spec[w]
  PROVE  Capacity'
  <1>1. Holders' = Holders
    BY DEF Holders
  <1>2. DockerHolders' = DockerHolders /\ OverHolders' = OverHolders
    BY <1>1 DEF DockerHolders, OverHolders, Holders
  <1>3. HostShare' = HostShare /\ DockerShare' = DockerShare
    BY <1>1, <1>2 DEF HostShare, DockerShare, capacity
  <1>4. Total(HostShare, HostLoad') = Total(HostShare, HostLoad)
    <2>1. \A w \in HostShare : HostLoad'[w] = HostLoad[w]
      BY DEF HostShare, HostLoad, HostNeed, Holders
    <2>2. QED
      BY <2>1, TotalSame
  <1>5. Total(DockerShare, DockerLoad') = Total(DockerShare, DockerLoad)
    <2>1. \A w \in DockerShare : DockerLoad'[w] = DockerLoad[w]
      BY Loads DEF DockerShare, DockerLoad
    <2>2. QED
      BY <2>1, TotalSame
  <1>6. \A w \in Worker : pc[w] = "docker" => w \in Holders
    BY DEF Holders
  <1>7. (hostUsed = Total(HostShare, HostLoad))'
    BY <1>3, <1>4 DEF Capacity, capacity
  <1>8. (dockerUsed = Total(DockerShare, DockerLoad))'
    BY <1>3, <1>5 DEF Capacity, capacity
  <1>9. QED
    BY <1>2, <1>6, <1>7, <1>8 DEF Capacity, capacity, NeedsDocker, IsOverCapacity

LEMMA OverCapacityKeeps ==
  ASSUME TypeOK, Capacity, NEW w \in Worker, AcquireOverCapacity(w)
  PROVE  Capacity'
  <1>1. /\ pc[w] = "acquire" /\ pc' = [pc EXCEPT ![w] = "start"]
        /\ overCap = {} /\ overCap' = {w} /\ IsOverCapacity(spec[w])
        /\ UNCHANGED <<spec, hostUsed, dockerUsed>>
    BY DEF AcquireOverCapacity, Goto
  <1>2. Holders' = Holders \cup {w} /\ w \notin Holders
    BY <1>1 DEF Holders, TypeOK
  <1>3. OverHolders' = {w}
    BY <1>1, <1>2 DEF OverHolders, Capacity, IsOverCapacity, NeedsDocker
  <1>4. \A v \in Worker \ {w} : v \in DockerHolders' <=> v \in DockerHolders
    BY <1>1, <1>2 DEF DockerHolders, NeedsDocker, TypeOK
  <1>5. HostShare' = HostShare /\ DockerShare' = DockerShare
    BY <1>1, <1>2, <1>4 DEF HostShare, DockerShare, DockerHolders, Holders
  <1>6. HostLoad' = HostLoad /\ DockerLoad' = DockerLoad
    BY <1>1 DEF HostLoad, DockerLoad, HostNeed
  <1>7. QED
    BY <1>1, <1>3, <1>5, <1>6 DEF Capacity, NeedsDocker, IsOverCapacity, TypeOK

LEMMA HostKeeps ==
  ASSUME TypeOK, Capacity, NEW w \in Worker, AcquireHost(w)
  PROVE  Capacity'
  <1>1. /\ pc[w] = "acquire" /\ ~IsOverCapacity(spec[w])
        /\ pc' = [pc EXCEPT ![w] = IF NeedsDocker(spec[w]) THEN "docker" ELSE "start"]
        /\ hostUsed' = hostUsed + HostLoad[w]
        /\ UNCHANGED <<spec, overCap, dockerUsed>>
    BY DEF AcquireHost, Goto, HostLoad
  <1>2. Holders' = Holders \cup {w} /\ w \notin Holders
    BY <1>1 DEF Holders, TypeOK
  <1>3. OverHolders' = OverHolders /\ w \notin overCap
    BY <1>1, <1>2 DEF OverHolders, Capacity, IsOverCapacity, NeedsDocker
  <1>4. HostShare' = HostShare \cup {w} /\ w \notin HostShare
    BY <1>1, <1>2, <1>3 DEF HostShare
  <1>5. DockerShare' = DockerShare
    <2>1. \A v \in Worker \ {w} : v \in DockerHolders' <=> v \in DockerHolders
      BY <1>1, <1>2 DEF DockerHolders, NeedsDocker, TypeOK
    <2>2. w \notin DockerHolders' /\ w \notin DockerHolders
      BY <1>1, <1>2 DEF DockerHolders, NeedsDocker, TypeOK
    <2>3. QED
      BY <2>1, <2>2, <1>1 DEF DockerShare, DockerHolders, Holders
  <1>6. HostLoad' = HostLoad /\ DockerLoad' = DockerLoad
    BY <1>1 DEF HostLoad, DockerLoad, HostNeed
  <1>7. Total(HostShare \cup {w}, HostLoad) = Total(HostShare, HostLoad) + HostLoad[w]
    <2>1. spec[w] \in Unit
      BY <1>1 DEF TypeOK, Busy
    <2>2. HostLoad[w] \in Nat
      BY <2>1, WeightAssumption DEF HostLoad, HostNeed
    <2>3. \A v \in HostShare \cup {w} : HostLoad[v] \in Nat
      BY <2>2, Loads DEF HostShare
    <2>4. QED
      BY <2>3, <1>4, Loads, TotalAdd
  <1>8. QED
    BY <1>1, <1>3, <1>4, <1>5, <1>6, <1>7
    DEF Capacity, NeedsDocker, IsOverCapacity, TypeOK

LEMMA DockerKeeps ==
  ASSUME TypeOK, Capacity, NEW w \in Worker, AcquireDocker(w)
  PROVE  Capacity'
  <1>1. /\ pc[w] = "docker" /\ pc' = [pc EXCEPT ![w] = "start"]
        /\ dockerUsed' = dockerUsed + DockerLoad[w]
        /\ UNCHANGED <<spec, overCap, hostUsed>>
    BY DEF AcquireDocker, Goto, DockerLoad
  <1>2. NeedsDocker(spec[w]) /\ ~IsOverCapacity(spec[w])
    BY <1>1 DEF Capacity
  <1>3. Holders' = Holders /\ w \in Holders
    BY <1>1 DEF Holders, TypeOK
  <1>4. OverHolders' = OverHolders /\ w \notin overCap
    BY <1>1, <1>2, <1>3 DEF OverHolders, Capacity, IsOverCapacity, NeedsDocker
  <1>5. DockerShare' = DockerShare \cup {w} /\ w \notin DockerShare
    <2>1. \A v \in Worker \ {w} : v \in DockerHolders' <=> v \in DockerHolders
      BY <1>1, <1>3 DEF DockerHolders, NeedsDocker, TypeOK
    <2>2. w \in DockerHolders' /\ w \notin DockerHolders
      BY <1>1, <1>2, <1>3 DEF DockerHolders, NeedsDocker, TypeOK
    <2>3. QED
      BY <2>1, <2>2, <1>1, <1>4 DEF DockerShare, DockerHolders, Holders
  <1>6. HostLoad' = HostLoad /\ DockerLoad' = DockerLoad /\ HostShare' = HostShare
    BY <1>1, <1>3 DEF HostLoad, DockerLoad, HostNeed, HostShare
  <1>7. Total(DockerShare \cup {w}, DockerLoad)
          = Total(DockerShare, DockerLoad) + DockerLoad[w]
    <2>1. spec[w] \in Unit
      BY <1>1 DEF TypeOK, Busy
    <2>2. DockerLoad[w] \in Nat
      BY <2>1, <1>2, WeightAssumption DEF DockerLoad, NeedsDocker
    <2>3. \A v \in DockerShare \cup {w} : DockerLoad[v] \in Nat
      BY <2>2, Loads DEF DockerShare
    <2>4. QED
      BY <2>3, <1>5, Loads, TotalAdd
  <1>8. QED
    BY <1>1, <1>4, <1>5, <1>6, <1>7 DEF Capacity, NeedsDocker, IsOverCapacity, TypeOK

LEMMA ReleaseKeeps ==
  ASSUME TypeOK, Capacity, NEW w \in Worker, Release(w)
  PROVE  Capacity'
  <1>1. /\ pc[w] = "release" /\ pc' = [pc EXCEPT ![w] = "store"]
        /\ UNCHANGED spec
    BY DEF Release, Goto
  <1>2. Holders' = Holders \ {w} /\ w \in Holders
    BY <1>1 DEF Holders, TypeOK
  <1>3. OverHolders' = OverHolders \ {w} /\ (w \in overCap <=> IsOverCapacity(spec[w]))
    BY <1>1, <1>2 DEF OverHolders, Capacity, IsOverCapacity, NeedsDocker
  <1>4. HostLoad' = HostLoad /\ DockerLoad' = DockerLoad
    BY <1>1 DEF HostLoad, DockerLoad, HostNeed
  <1>5. DockerHolders' = DockerHolders \ {w}
    <2>1. \A v \in Worker \ {w} : v \in DockerHolders' <=> v \in DockerHolders
      BY <1>1, <1>2 DEF DockerHolders, NeedsDocker, TypeOK
    <2>2. w \notin DockerHolders'
      BY <1>2 DEF DockerHolders
    <2>3. QED
      BY <2>1, <2>2 DEF DockerHolders, Holders
  <1>6. \A v \in Worker : pc'[v] = "docker" => pc[v] = "docker"
    BY <1>1 DEF TypeOK
  <1>7. CASE IsOverCapacity(spec[w])
    <2>1. overCap' = overCap \ {w} /\ UNCHANGED <<hostUsed, dockerUsed>>
      BY <1>7 DEF Release
    <2>2. HostShare' = HostShare /\ DockerShare' = DockerShare
      BY <2>1, <1>2, <1>3, <1>5, <1>7 DEF HostShare, DockerShare
    <2>3. QED
      BY <2>1, <2>2, <1>1, <1>3, <1>4, <1>6
      DEF Capacity, NeedsDocker, IsOverCapacity
  <1>8. CASE ~IsOverCapacity(spec[w])
    <2>1. /\ overCap' = overCap /\ hostUsed' = hostUsed - HostLoad[w]
          /\ dockerUsed' = IF NeedsDocker(spec[w]) THEN dockerUsed - DockerLoad[w]
                                                   ELSE dockerUsed
      BY <1>8 DEF Release, HostLoad, DockerLoad
    <2>2. HostShare' = HostShare \ {w} /\ w \in HostShare
      BY <2>1, <1>2, <1>3, <1>8 DEF HostShare
    <2>3. DockerShare' = DockerShare \ {w} /\ (w \in DockerShare <=> NeedsDocker(spec[w]))
      BY <2>1, <1>1, <1>2, <1>3, <1>5, <1>8 DEF DockerShare, DockerHolders
    <2>4. Total(HostShare \ {w}, HostLoad) = Total(HostShare, HostLoad) - HostLoad[w]
      <3>1. \A v \in HostShare : HostLoad[v] \in Nat
        BY Loads DEF HostShare
      <3>2. QED
        BY <3>1, <2>2, Loads, TotalRemove
    <2>5. Total(DockerShare \ {w}, DockerLoad)
            = IF NeedsDocker(spec[w]) THEN Total(DockerShare, DockerLoad) - DockerLoad[w]
                                      ELSE Total(DockerShare, DockerLoad)
      <3>1. CASE NeedsDocker(spec[w])
        <4>1. \A v \in DockerShare : DockerLoad[v] \in Nat
          BY Loads DEF DockerShare
        <4>2. QED
          BY <3>1, <4>1, <2>3, Loads, TotalRemove
      <3>2. CASE ~NeedsDocker(spec[w])
        <4>1. DockerShare \ {w} = DockerShare
          BY <3>2, <2>3
        <4>2. QED
          BY <3>2, <4>1
      <3>3. QED
        BY <3>1, <3>2
    <2>6. QED
      BY <2>1, <2>2, <2>3, <2>4, <2>5, <1>1, <1>3, <1>4, <1>6, <1>8
      DEF Capacity, NeedsDocker, IsOverCapacity
  <1>9. QED
    BY <1>7, <1>8

LEMMA StepCapacity == ASSUME TypeOK, Capacity, [Next]_vars PROVE Capacity'
  <1>1. ASSUME NEW w \in Worker, WorkerStep(w) PROVE Capacity'
    <2>1. CASE \/ AcquireOverCapacity(w) \/ AcquireHost(w) \/ AcquireDocker(w)
               \/ Release(w)
      BY <2>1, OverCapacityKeeps, HostKeeps, DockerKeeps, ReleaseKeeps
    <2>2. CASE \/ Pull(w) \/ Block(w) \/ Exit(w)
               \/ Skip(w) \/ FastPath(w) \/ CannotStart(w) \/ Start(w)
               \/ Finish(w) \/ TimeOut(w) \/ Store(w)
               \/ ReportCascaded(w) \/ Report(w)
      <3>1. UNCHANGED capacity
        BY <2>2 DEF Pull, Block, Exit, Skip, FastPath, CannotStart, Start, Finish,
                    TimeOut, Store, ReportCascaded, Report
      <3>2. \A v \in Worker : /\ v \in Holders' <=> v \in Holders
                              /\ pc'[v] = "docker" <=> pc[v] = "docker"
                              /\ v \in Holders => spec'[v] = spec[v]
        BY <2>2 DEF Pull, Block, Exit, Skip, FastPath, CannotStart, Start, Finish,
                    TimeOut, Store, ReportCascaded, Report, Goto, Holders, TypeOK
      <3>3. QED
        BY <3>1, <3>2, QuietCapacity
    <2>3. CASE MarkComplete(w) \/ MarkFailedCascade(w)
      <3>1. UNCHANGED capacity /\ UNCHANGED spec
        BY <2>3 DEF MarkComplete, MarkFailedCascade
      <3>2. pc' = [Broadcast(pc) EXCEPT ![w] = "report"] /\ pc[w] = "mark"
        BY <2>3 DEF MarkComplete, MarkFailedCascade
      <3>3. \A v \in Worker : /\ v \in Holders' <=> v \in Holders
                              /\ pc'[v] = "docker" <=> pc[v] = "docker"
                              /\ v \in Holders => spec'[v] = spec[v]
        BY <3>1, <3>2 DEF Broadcast, Holders, TypeOK
      <3>4. QED
        BY <3>1, <3>3, QuietCapacity
    <2>4. QED
      BY <1>1, <2>1, <2>2, <2>3 DEF WorkerStep
  <1>2. ASSUME UNCHANGED <<capacity, pc, spec>> PROVE Capacity'
    BY <1>2, QuietCapacity DEF Holders
  <1>3. ASSUME NEW u \in Unit, OrphanReturns(u) \/ DetectCached(u)
        PROVE  UNCHANGED <<capacity, pc, spec>>
    BY <1>3 DEF OrphanReturns, DetectCached
  <1>4. QED
    BY <1>1, <1>2, <1>3 DEF Next, Returned, vars, capacity

\* The pools' counters are the sums of what the goroutines between acquisition
\* and release took, each sum fits its pool, and at most one over-capacity unit
\* runs beside them (acquireAndExecute, releaseCapacity).
THEOREM CapacityFits == Spec => []CapacityHeld
  <1>1. TypeOK /\ Capacity => CapacityHeld
    BY CapacityMeans
  <1>2. TypeOK /\ Capacity /\ [Next]_vars => Capacity'
    BY StepCapacity
  <1>3. QED
    BY InitCapacity, TypeCorrect, <1>1, <1>2, PTL DEF Spec
=============================================================================
