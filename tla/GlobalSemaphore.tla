----------------------------- MODULE GlobalSemaphore -----------------------------
(***************************************************************************)
(* The weighted semaphore all eac processes of a workspace share           *)
(* (clibase/capacity, GlobalSemaphore; DualPoolSemaphore has one for the   *)
(* host and one for docker): a state file that lists who holds what,       *)
(* rewritten under a flock, polled by who waits, with the entries of dead  *)
(* processes dropped by whoever reads it next.                             *)
(*                                                                         *)
(* Each process has worker goroutines that acquire and release, and one    *)
(* agent more, Main, for the constructor and for Close.  The flock makes a *)
(* read-modify-write one critical section, of two steps here: lock, read   *)
(* and decide; write and unlock.  A process may die between them, and      *)
(* os.WriteFile truncates the file before it writes, which then may fail.  *)
(* A poll that finds the pool full changes nothing that is modelled, so it *)
(* is no step.                                                             *)
(***************************************************************************)
EXTENDS Integers, FiniteSets, WeightSum

CONSTANTS
  Proc,        \* processes; a pid is not used again while its entries are in the file
  Worker,      \* worker goroutines of a process
  Main,        \* the agent of a process that constructs and closes
  None,
  AllocId,     \* allocation ids in use at a time
  Weights,     \* the weights asked for
  Capacities,  \* the capacities a process may compute
  TornWrites,  \* a write may be cut short: by a kill, or by an error it goes on after
  Signals,     \* a signal may close the semaphore while units run
  LockErrors,  \* the flock may fail
  Resizing     \* the ticker may change the capacity

ASSUME SemaphoreAssumption ==
  /\ Main \notin Worker
  /\ Weights \subseteq Nat \ {0} /\ Capacities \subseteq Nat \ {0}
  /\ {TornWrites, Signals, LockErrors, Resizing} \subseteq BOOLEAN

\* Finitely many at a time of each; the file and the flock are bounded by what runs.
ASSUME FiniteAssumption ==
  IsFiniteSet(Proc) /\ IsFiniteSet(Worker) /\ IsFiniteSet(AllocId)

Agent == Proc \X (Worker \cup {Main})
WorkerAgent == Proc \X Worker

\* An Allocation of the state file.
Entry == [pid : Proc, weight : Weights]

ASSUME NoneAssumption == None \notin Agent \cup AllocId \cup Entry

VARIABLES
  file,      \* the state file: what each allocation id stands for
  torn,      \* the file was truncated and not written: it reads as empty
  lock,      \* who has the flock
  pending,   \* what the one who has it will write
  life,      \* "new", "live" or "dead"
  total,     \* the capacity a process sized its pool with
  capacity,  \* GlobalSemaphore.capacity
  closed,    \* GlobalSemaphore.closed
  local,     \* GlobalSemaphore.allocations
  toClose,   \* the ids Close still has to release
  pc,
  need,      \* the weight a worker asks for
  cap,       \* the capacity Acquire read when it was called
  mine       \* the allocation id an agent is working with

vars == <<file, torn, lock, pending, life, total, capacity, closed, local, toClose, pc,
          need, cap, mine>>
disk == <<file, torn>>
process == <<life, total, capacity, closed, toClose>>

Empty == [i \in AllocId |-> None]

Init ==
  /\ file = Empty /\ torn = FALSE
  /\ lock = None /\ pending = Empty
  /\ life = [p \in Proc |-> "new"]
  /\ total \in [Proc -> Capacities]
  /\ capacity = total
  /\ closed = [p \in Proc |-> FALSE]
  /\ local = [p \in Proc |-> {}]
  /\ toClose = [p \in Proc |-> {}]
  /\ pc = [a \in Agent |-> "idle"]
  /\ need = [a \in Agent |-> 0]
  /\ cap = [a \in Agent |-> 0]
  /\ mine = [a \in Agent |-> None]

Goto(a, label) == pc' = [pc EXCEPT ![a] = label]

\* Mutant: nobody is ever found dead.
CleanedNever(state) == state

\* cleanStaleFromState.
Cleaned(state) ==
  [i \in AllocId |-> IF state[i] # None /\ life[state[i].pid] = "dead" THEN None
                                                                      ELSE state[i]]

Entered(state) == {i \in AllocId : state[i] # None}

Used(state) == Total(Entered(state), [i \in Entered(state) |-> state[i].weight])

\* readState: a file that is not there, cannot be read or does not parse is an empty state.
Read == IF torn THEN Empty ELSE file

\* A fresh uuid; one whose entry the write is about to drop stands for it as well.
Fresh(i) ==
  /\ Cleaned(Read)[i] = None
  /\ \A p \in Proc : i \notin toClose[p] /\ \A r \in local[p] : r.id # i
  /\ \A a \in Agent : mine[a] # i

\* The process runs and its semaphore is constructed.
Ready(p) == life[p] = "live" /\ pc[<<p, Main>>] # "clean" /\ pc[<<p, Main>>] # "cleanWrite"

Locked(a, state, label) ==
  /\ lock = None
  /\ lock' = a
  /\ pending' = state
  /\ Goto(a, label)
  /\ UNCHANGED disk

-----------------------------------------------------------------------------
\* NewDualPoolSemaphore; cleanStale follows.
Boot(p) ==
  /\ life[p] = "new"
  /\ life' = [life EXCEPT ![p] = "live"]
  /\ Goto(<<p, Main>>, "clean")
  /\ UNCHANGED <<disk, lock, pending, total, capacity, closed, local, toClose,
                 need, cap, mine>>

CleanStale(p) ==
  /\ pc[<<p, Main>>] = "clean"
  /\ Locked(<<p, Main>>, Cleaned(Read), "cleanWrite")
  /\ UNCHANGED <<process, local, need, cap, mine>>

\* Acquire is called: it reads the capacity once.
Acquire(a) ==
  /\ Ready(a[1]) /\ pc[a] = "idle"
  /\ \E w \in Weights :
       /\ w <= total[a[1]]
       /\ need' = [need EXCEPT ![a] = w]
  /\ cap' = [cap EXCEPT ![a] = capacity[a[1]]]
  /\ Goto(a, "try")
  /\ UNCHANGED <<disk, lock, pending, process, local, mine>>

\* Mutant: the weight asked for is not counted.
TryFitsUncounted(a) ==
  /\ pc[a] = "try"
  /\ Used(Cleaned(Read)) < cap[a]
  /\ \E i \in AllocId :
       /\ Fresh(i)
       /\ mine' = [mine EXCEPT ![a] = i]
       /\ Locked(a, [Cleaned(Read) EXCEPT ![i] = [pid |-> a[1], weight |-> need[a]]],
                 "acquireWrite")
  /\ UNCHANGED <<process, local, need, cap>>

\* tryAcquireInternal, when the weight fits.
TryFits(a) ==
  /\ pc[a] = "try"
  /\ Used(Cleaned(Read)) + need[a] <= cap[a]
  /\ \E i \in AllocId :
       /\ Fresh(i)
       /\ mine' = [mine EXCEPT ![a] = i]
       /\ Locked(a, [Cleaned(Read) EXCEPT ![i] = [pid |-> a[1], weight |-> need[a]]],
                 "acquireWrite")
  /\ UNCHANGED <<process, local, need, cap>>

\* Mutant: the local book is not kept.
RecordNothing(a) ==
  /\ pc[a] = "record"
  /\ mine' = [mine EXCEPT ![a] = None]
  /\ Goto(a, "held")
  /\ UNCHANGED <<disk, lock, pending, process, local, need, cap>>

\* Acquire enters the allocation in the local book and returns.
Record(a) ==
  /\ pc[a] = "record"
  /\ local' = [local EXCEPT ![a[1]] = @ \cup {[id |-> mine[a], weight |-> need[a]]}]
  /\ mine' = [mine EXCEPT ![a] = None]
  /\ Goto(a, "held")
  /\ UNCHANGED <<disk, lock, pending, process, need, cap>>

\* Mutant: any allocation of the process will do.
ReleaseAny(a) ==
  /\ pc[a] = "held"
  /\ IF local[a[1]] = {}
       THEN Goto(a, "idle") /\ UNCHANGED <<local, mine>>
       ELSE /\ \E r \in local[a[1]] : /\ local' = [local EXCEPT ![a[1]] = @ \ {r}]
                                      /\ mine' = [mine EXCEPT ![a] = r.id]
            /\ Goto(a, "release")
  /\ UNCHANGED <<disk, lock, pending, process, need, cap>>

\* Release takes one allocation of its weight out of the local book, whosever it
\* is; after a Close there may be none.
Release(a) ==
  LET fitting == {r \in local[a[1]] : r.weight = need[a]} IN
  /\ pc[a] = "held"
  /\ IF fitting = {}
       THEN Goto(a, "idle") /\ UNCHANGED <<local, mine>>
       ELSE /\ \E r \in fitting : /\ local' = [local EXCEPT ![a[1]] = @ \ {r}]
                                  /\ mine' = [mine EXCEPT ![a] = r.id]
            /\ Goto(a, "release")
  /\ UNCHANGED <<disk, lock, pending, process, need, cap>>

\* releaseInternal.
Unrecord(a) ==
  /\ pc[a] = "release"
  /\ Locked(a, [Read EXCEPT ![mine[a]] = None], "releaseWrite")
  /\ UNCHANGED <<process, local, need, cap, mine>>

\* Where an agent goes after its critical section.
After(a) ==
  CASE pc[a] = "acquireWrite" -> "record"
    [] pc[a] = "releaseWrite" -> IF a[2] = Main THEN "closing" ELSE "idle"
    [] OTHER -> "idle"

\* writeState and the deferred Unlock.  A write that fails is only warned of, and the agent
\* goes on as if it were done: the file is truncated by then, and reads as empty.  (One that
\* cannot even be opened, which leaves the file as it was, is left out.)
Write(a) ==
  /\ lock = a
  /\ \/ file' = pending /\ torn' = FALSE
     \/ TornWrites /\ file' = Empty /\ torn' = TRUE
  /\ lock' = None /\ pending' = Empty
  /\ Goto(a, After(a))
  /\ mine' = [mine EXCEPT ![a] = IF pc[a] = "acquireWrite" THEN @ ELSE None]
  /\ UNCHANGED <<process, local, need, cap>>

\* Mutant: the error of lock.Lock() is not looked at.
LockFailsIgnored(a) ==
  /\ LockErrors
  /\ pc[a] = "release"
  /\ Goto(a, "releaseWrite")
  /\ UNCHANGED <<disk, lock, pending, process, local, need, cap, mine>>

\* lock.Lock() fails: a release forgets its allocation, the constructor goes on,
\* an acquire polls again.
LockFails(a) ==
  /\ LockErrors
  /\ \/ pc[a] = "release"
     \/ pc[a] = "clean"
  /\ Goto(a, IF pc[a] = "release" /\ a[2] = Main THEN "closing" ELSE "idle")
  /\ mine' = [mine EXCEPT ![a] = None]
  /\ UNCHANGED <<disk, lock, pending, process, local, need, cap>>

\* Close: by the signal handler while units run, or when RunUnits is over.
Close(p) ==
  /\ Ready(p) /\ ~closed[p]
  /\ Signals \/ \A w \in Worker : pc[<<p, w>>] = "idle"
  /\ closed' = [closed EXCEPT ![p] = TRUE]
  /\ toClose' = [toClose EXCEPT ![p] = {r.id : r \in local[p]}]
  /\ local' = [local EXCEPT ![p] = {}]
  /\ Goto(<<p, Main>>, "closing")
  /\ UNCHANGED <<disk, lock, pending, life, total, capacity, need, cap, mine>>

CloseNext(p) ==
  /\ pc[<<p, Main>>] = "closing"
  /\ \E i \in toClose[p] :
       /\ toClose' = [toClose EXCEPT ![p] = @ \ {i}]
       /\ mine' = [mine EXCEPT ![<<p, Main>>] = i]
  /\ Goto(<<p, Main>>, "release")
  /\ UNCHANGED <<disk, lock, pending, life, total, capacity, closed, local, need, cap>>

\* Nothing of a process is left but what it wrote.
Gone(p) ==
  LET cleared(f, v) == [a \in Agent |-> IF a[1] = p THEN v ELSE f[a]] IN
  /\ life' = [life EXCEPT ![p] = "dead"]
  /\ capacity' = [capacity EXCEPT ![p] = total[p]]
  /\ local' = [local EXCEPT ![p] = {}]
  /\ toClose' = [toClose EXCEPT ![p] = {}]
  /\ pc' = cleared(pc, "idle")
  /\ need' = cleared(need, 0)
  /\ cap' = cleared(cap, 0)
  /\ mine' = cleared(mine, None)
  /\ UNCHANGED total

\* The command is over and so is its Close.  (A signal's Close that is not yet over
\* is not waited for: that end is Crash.)
Exit(p) ==
  /\ life[p] = "live"
  /\ pc[<<p, Main>>] = "closing" /\ toClose[p] = {}
  /\ \A w \in Worker : pc[<<p, w>>] = "idle"
  /\ Gone(p)
  /\ UNCHANGED <<disk, lock, pending, closed>>

\* The process is killed.  Its flock goes with it; a write it was at happened, or
\* did not, or was torn.
Crash(p) ==
  /\ life[p] = "live"
  /\ Gone(p)
  /\ closed' = [closed EXCEPT ![p] = TRUE]
  /\ IF lock # None /\ lock[1] = p
       THEN /\ lock' = None /\ pending' = Empty
            /\ \/ UNCHANGED disk
               \/ file' = pending /\ torn' = FALSE
               \/ TornWrites /\ file' = Empty /\ torn' = TRUE
       ELSE UNCHANGED <<disk, lock, pending>>

\* The capacity ticker.
SetCapacity(p) ==
  /\ Resizing /\ life[p] = "live"
  /\ \E c \in Capacities : capacity' = [capacity EXCEPT ![p] = c]
  /\ UNCHANGED <<disk, lock, pending, life, total, closed, local, toClose, pc, need,
                 cap, mine>>

AllGone == (\A p \in Proc : life[p] = "dead") /\ UNCHANGED vars

WorkerStep(a) == TryFits(a) \/ Record(a) \/ Release(a)

AgentStep(a) == Unrecord(a) \/ Write(a)

Next ==
  \/ \E p \in Proc : \/ Boot(p) \/ CleanStale(p) \/ Close(p) \/ CloseNext(p) \/ Exit(p)
                     \/ Crash(p) \/ SetCapacity(p)
  \/ \E a \in WorkerAgent : Acquire(a) \/ WorkerStep(a)
  \/ \E a \in Agent : AgentStep(a) \/ LockFails(a)
  \/ AllGone

Spec == Init /\ [][Next]_vars

\* A goroutine that can run runs, a poll comes round again while the pool has
\* room, and a unit ends.  Nobody has to start, acquire, close or crash.
Fairness ==
  /\ \A a \in WorkerAgent : WF_vars(WorkerStep(a))
  /\ \A a \in Agent : WF_vars(AgentStep(a))
  /\ \A p \in Proc : WF_vars(CleanStale(p) \/ CloseNext(p))

FairSpec == Spec /\ Fairness

-----------------------------------------------------------------------------
(* Properties.                                                             *)

Labels == {"idle", "clean", "cleanWrite", "try", "acquireWrite", "record", "held",
           "release", "releaseWrite", "closing"}

TypeOK ==
  /\ file \in [AllocId -> Entry \cup {None}]
  /\ torn \in BOOLEAN
  /\ lock \in Agent \cup {None}
  /\ \A a \in Agent : lock = a <=> pc[a] \in {"cleanWrite", "acquireWrite", "releaseWrite"}
  /\ pending \in [AllocId -> Entry \cup {None}]
  /\ life \in [Proc -> {"new", "live", "dead"}]
  /\ total \in [Proc -> Capacities] /\ capacity \in [Proc -> Capacities]
  /\ closed \in [Proc -> BOOLEAN]
  /\ local \in [Proc -> SUBSET [id : AllocId, weight : Weights]]
  /\ toClose \in [Proc -> SUBSET AllocId]
  /\ pc \in [Agent -> Labels]
  /\ need \in [Agent -> Weights \cup {0}] /\ cap \in [Agent -> Capacities \cup {0}]
  /\ mine \in [Agent -> AllocId \cup {None}]

Holders == {a \in WorkerAgent : pc[a] \in {"record", "held"}}

Fit(agents) == agents # {} => \E a \in agents : Total(agents, need) <= cap[a]

\* What the processes that did not close their semaphore run at a time fits the
\* largest capacity that one of those units was measured against, as long as no
\* write is torn: no interleaving of polls, releases, stale cleaning, crashes
\* and failing locks lets one in too many (tryAcquireInternal,
\* cleanStaleFromState).  A signal closes the semaphore under units that still
\* run, and what these use no longer counts.
OpenPoolsFit == Fit({a \in Holders : ~closed[a[1]]})

\* What a process runs it has on file, weight for weight, though Release takes
\* back any allocation of the same weight and others rewrite the whole file.  Up
\* to a Close: that takes back what still runs.
HoldersRecorded ==
  \A p \in Proc : life[p] = "live" /\ ~closed[p] => \A w \in Weights :
     Cardinality({a \in Holders : a[1] = p /\ need[a] = w})
       <= Cardinality({i \in AllocId : Read[i] = [pid |-> p, weight |-> w]})

\* A process that ends of itself once its Close is done leaves nothing behind in
\* the file, not even when that Close came from a signal while units ran, others
\* started after, and releases took back allocations that were not their own.
ExitsClean ==
  [][\A p \in Proc : Exit(p) => \A i \in AllocId : Read[i] = None \/ Read[i].pid # p]_vars

\* A dead holder is found out: as long as somebody waits for what its process
\* could have had, somebody gets it, whoever was killed holding it or the flock.
Waits(a) == life[a[1]] = "live" /\ pc[a] = "try" /\ need[a] <= cap[a]

SomeoneIsServed ==
  (\E a \in WorkerAgent : Waits(a)) ~>
     \/ \E a \in WorkerAgent : pc[a] = "held"
     \/ \A a \in WorkerAgent : ~Waits(a)

=============================================================================
