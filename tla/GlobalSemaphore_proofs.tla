------------------------- MODULE GlobalSemaphore_proofs -------------------------
(***************************************************************************)
(* Proofs about GlobalSemaphore, for any number of processes, goroutines   *)
(* and allocation ids, any weights and any capacities.                     *)
(***************************************************************************)
EXTENDS GlobalSemaphore, WeightSum_proofs

-----------------------------------------------------------------------------
(* The inductive invariant.                                                *)

\* The critical section is entered, and not left.
Writing == {"cleanWrite", "acquireWrite", "releaseWrite"}

\* The agent works with an allocation id.
WithId == {"acquireWrite", "record", "release", "releaseWrite"}

\* Where the agents of a process may be, and what they have there.
PlaceOf(a) ==
  /\ pc[a] # "idle" => life[a[1]] = "live"
  /\ mine[a] # None <=> pc[a] \in WithId
  /\ a[2] = Main => /\ pc[a] \notin {"try", "acquireWrite", "record", "held"}
                    /\ pc[a] \in {"closing", "release", "releaseWrite"} => closed[a[1]]
  /\ a[2] # Main => pc[a] \notin {"clean", "cleanWrite", "closing"}
  /\ pc[a] \in {"try", "acquireWrite", "record", "held"} => need[a] \in Weights

Places ==
  /\ \A a \in Agent : PlaceOf(a)
  /\ \A p \in Proc : life[p] # "live" => local[p] = {} /\ toClose[p] = {}
  /\ \A p \in Proc : ~closed[p] => toClose[p] = {}

\* An id stands for one allocation, and one book or one agent has it.
Distinct ==
  /\ \A p, q \in Proc : \A r \in local[p], s \in local[q] : r.id = s.id => p = q /\ r = s
  /\ \A p, q \in Proc : \A r \in local[p] : r.id \notin toClose[q]
  /\ \A p, q \in Proc : p # q => toClose[p] \cap toClose[q] = {}
  /\ \A a, b \in Agent : mine[a] # None /\ mine[a] = mine[b] => a = b
  /\ \A a \in Agent, p \in Proc : mine[a] \notin toClose[p] /\ \A r \in local[p] : r.id # mine[a]

\* What the processes hold is in a state of the file.
Booked(state) ==
  /\ \A p \in Proc : \A r \in local[p] : state[r.id] = [pid |-> p, weight |-> r.weight]
  /\ \A a \in Agent : pc[a] = "record" => state[mine[a]] = [pid |-> a[1], weight |-> need[a]]

\* The file has it, and so has what is about to be written.
Books ==
  /\ torn = FALSE
  /\ Booked(file)
  /\ lock # None => Booked(pending)
  /\ \A a \in Agent : pc[a] = "acquireWrite" =>
       pending[mine[a]] = [pid |-> a[1], weight |-> need[a]]

\* The allocations in the books of the processes.
Book == {e \in Proc \X [id : AllocId, weight : Weights] : e[2] \in local[e[1]]}

\* Each allocation in a book is, for the weight, that of a unit that runs; every
\* unit that runs has one as long as its process did not close.
Matching(g) ==
  /\ g \in [Book -> WorkerAgent]
  /\ \A e \in Book : pc[g[e]] = "held" /\ g[e][1] = e[1] /\ need[g[e]] = e[2].weight
  /\ \A e, f \in Book : g[e] = g[f] => e = f
  /\ \A a \in WorkerAgent : pc[a] = "held" /\ ~closed[a[1]] => \E e \in Book : g[e] = a

Matched == \E g \in [Book -> WorkerAgent] : Matching(g)

\* Who counts for the pool.
OpenHolders == {a \in Holders : ~closed[a[1]]}

\* Every part of them fits, and so will who is about to join.
Fits ==
  /\ \A agents \in SUBSET OpenHolders : Fit(agents)
  /\ \A a \in Agent : pc[a] = "acquireWrite" =>
       Total(OpenHolders, need) + need[a] <= cap[a]

\* The process knows of the allocation id: its book, its Close or an agent has it.
Owned(p, i) ==
  \/ \E r \in local[p] : r.id = i
  \/ i \in toClose[p]
  \/ \E a \in Agent : a[1] = p /\ mine[a] = i

\* A state of the file has no more of a process that lives than it knows of.
Known(state) ==
  \A i \in Entered(state) : life[state[i].pid] = "dead" \/ Owned(state[i].pid, i)

Clean ==
  /\ Known(Read)
  /\ lock # None => Known(pending)
  /\ \A a \in Agent : pc[a] = "releaseWrite" => pending[mine[a]] = None

-----------------------------------------------------------------------------
(* Types and places.                                                       *)

LEMMA Agents ==
  /\ \A a \in Agent : a = <<a[1], a[2]>> /\ a[1] \in Proc /\ a[2] \in Worker \cup {Main}
  /\ \A p \in Proc : <<p, Main>> \in Agent
  /\ \A p \in Proc, w \in Worker : <<p, w>> \in Agent /\ <<p, w>> \in WorkerAgent
  /\ \A a \in WorkerAgent : a \in Agent /\ a[2] # Main
  /\ \A a \in Agent : a[2] # Main => a \in WorkerAgent
  BY SemaphoreAssumption DEF Agent, WorkerAgent

LEMMA EmptyState ==
  /\ Empty \in [AllocId -> Entry \cup {None}]
  /\ \A i \in AllocId : Empty[i] = None
  BY DEF Empty

LEMMA StateType ==
  ASSUME TypeOK
  PROVE  /\ Read \in [AllocId -> Entry \cup {None}]
         /\ Cleaned(Read) \in [AllocId -> Entry \cup {None}]
  BY EmptyState DEF TypeOK, Read, Cleaned

Shape == TypeOK /\ Places

LEMMA InitShape == Init => Shape
  <1> SUFFICES ASSUME Init PROVE Shape
    OBVIOUS
  <1>1. TypeOK
    BY EmptyState, NoneAssumption DEF Init, TypeOK, Labels
  <1>2. Places
    BY DEF Init, Places, PlaceOf, WithId
  <1>3. QED
    BY <1>1, <1>2 DEF Shape

\* What a step of an agent leaves of its types.
LEMMA LockedType ==
  ASSUME Shape, NEW a \in Agent, NEW label \in Writing, pc[a] \notin Writing,
         NEW state \in [AllocId -> Entry \cup {None}], Locked(a, state, label)
  PROVE  /\ file' \in [AllocId -> Entry \cup {None}] /\ torn' \in BOOLEAN
         /\ lock' \in Agent \cup {None} /\ pending' \in [AllocId -> Entry \cup {None}]
         /\ pc' \in [Agent -> Labels]
         /\ \A b \in Agent : lock' = b <=> pc'[b] \in {"cleanWrite", "acquireWrite",
                                                        "releaseWrite"}
  BY NoneAssumption DEF Shape, TypeOK, Locked, Goto, Writing, Labels, disk

LEMMA AgentType ==
  ASSUME Shape, NEW a \in Agent,
         \/ a \in WorkerAgent /\ (Acquire(a) \/ WorkerStep(a))
         \/ AgentStep(a) \/ LockFails(a)
  PROVE  TypeOK'
  <1> USE SemaphoreAssumption, NoneAssumption DEF Shape, Goto, disk, process
  <1>1. CASE Acquire(a)
    BY <1>1, Agents DEF Acquire, TypeOK, Labels
  <1>2. CASE TryFits(a)
    <2>1. PICK i \in AllocId :
             /\ mine' = [mine EXCEPT ![a] = i]
             /\ Locked(a, [Cleaned(Read) EXCEPT ![i] = [pid |-> a[1], weight |-> need[a]]],
                       "acquireWrite")
      BY <1>2 DEF TryFits
    <2>2. [pid |-> a[1], weight |-> need[a]] \in Entry
      BY <1>2, Agents DEF TryFits, Places, PlaceOf, Entry
    <2>3. [Cleaned(Read) EXCEPT ![i] = [pid |-> a[1], weight |-> need[a]]]
            \in [AllocId -> Entry \cup {None}]
      BY <2>2, StateType
    <2>4. pc[a] \notin Writing /\ UNCHANGED <<process, local, need, cap>>
      BY <1>2 DEF TryFits, Writing
    <2>5. "acquireWrite" \in Writing
      BY DEF Writing
    <2>6. QED
      BY <2>1, <2>3, <2>4, <2>5, LockedType DEF TypeOK
  <1>3. CASE Record(a)
    <2>1. mine[a] \in AllocId /\ need[a] \in Weights /\ a[1] \in Proc
      BY <1>3, Agents DEF Record, TypeOK, Places, PlaceOf, WithId
    <2>2. QED
      BY <1>3, <2>1 DEF Record, TypeOK, Labels
  <1>4. CASE Release(a)
    <2> DEFINE fitting == {r \in local[a[1]] : r.weight = need[a]}
    <2>1. a[1] \in Proc /\ pc[a] = "held" /\ UNCHANGED <<disk, lock, pending, process, need, cap>>
      BY <1>4, Agents DEF Release
    <2>2. CASE Goto(a, "idle") /\ UNCHANGED <<local, mine>>
      BY <2>1, <2>2 DEF TypeOK, Labels
    <2>3. ASSUME NEW r \in fitting, local' = [local EXCEPT ![a[1]] = @ \ {r}],
                 mine' = [mine EXCEPT ![a] = r.id], Goto(a, "release")
          PROVE  TypeOK'
      <3>1. r.id \in AllocId
        BY <2>1 DEF TypeOK
      <3>2. QED
        BY <2>1, <2>3, <3>1 DEF TypeOK, Labels
    <2>4. QED
      BY <1>4, <2>2, <2>3 DEF Release
  <1>5. CASE Unrecord(a)
    <2>1. [Read EXCEPT ![mine[a]] = None] \in [AllocId -> Entry \cup {None}]
      BY StateType
    <2>2. pc[a] \notin Writing /\ UNCHANGED <<process, local, need, cap, mine>>
      BY <1>5 DEF Unrecord, Writing
    <2>3. Locked(a, [Read EXCEPT ![mine[a]] = None], "releaseWrite")
      BY <1>5 DEF Unrecord
    <2>4. "releaseWrite" \in Writing
      BY DEF Writing
    <2>5. QED
      BY <2>1, <2>2, <2>3, <2>4, LockedType DEF TypeOK
  <1>6. CASE Write(a)
    <2>1. After(a) \in Labels \ {"cleanWrite", "acquireWrite", "releaseWrite"}
      BY DEF After, Labels
    <2>2. /\ lock = a /\ lock' = None /\ pending' = Empty
          /\ pc' = [pc EXCEPT ![a] = After(a)]
          /\ mine' = [mine EXCEPT ![a] = IF pc[a] = "acquireWrite" THEN @ ELSE None]
          /\ UNCHANGED <<life, total, capacity, closed, toClose, local, need, cap>>
      BY <1>6 DEF Write
    <2>3. file' \in [AllocId -> Entry \cup {None}] /\ torn' \in BOOLEAN
      BY <1>6, EmptyState DEF Write, TypeOK
    <2>4. pc' \in [Agent -> Labels] /\ mine' \in [Agent -> AllocId \cup {None}]
      BY <2>1, <2>2 DEF TypeOK
    <2>5. \A b \in Agent : lock' = b <=> pc'[b] \in {"cleanWrite", "acquireWrite", "releaseWrite"}
      BY <2>1, <2>2 DEF TypeOK
    <2>6. QED
      BY <2>2, <2>3, <2>4, <2>5, EmptyState DEF TypeOK
  <1>7. CASE LockFails(a)
    BY <1>7 DEF LockFails, TypeOK, Labels
  <1>8. QED
    BY <1>1, <1>2, <1>3, <1>4, <1>5, <1>6, <1>7 DEF WorkerStep, AgentStep

LEMMA GoneType ==
  ASSUME Shape, NEW p \in Proc, Gone(p)
  PROVE  /\ life' = [life EXCEPT ![p] = "dead"]
         /\ local' = [local EXCEPT ![p] = {}] /\ toClose' = [toClose EXCEPT ![p] = {}]
         /\ \A a \in Agent : a[1] = p => /\ pc'[a] = "idle" /\ mine'[a] = None
                                         /\ need'[a] = 0 /\ cap'[a] = 0
         /\ \A a \in Agent : a[1] # p => /\ pc'[a] = pc[a] /\ mine'[a] = mine[a]
                                         /\ need'[a] = need[a] /\ cap'[a] = cap[a]
         /\ pc' \in [Agent -> Labels] /\ mine' \in [Agent -> AllocId \cup {None}]
         /\ need' \in [Agent -> Weights \cup {0}] /\ cap' \in [Agent -> Capacities \cup {0}]
         /\ total' = total /\ capacity' \in [Proc -> Capacities]
  BY DEF Gone, Shape, TypeOK, Labels

LEMMA ProcessType ==
  ASSUME Shape, NEW p \in Proc,
         \/ Boot(p) \/ CleanStale(p) \/ Close(p) \/ CloseNext(p) \/ Exit(p)
         \/ Crash(p) \/ SetCapacity(p)
  PROVE  TypeOK'
  <1> DEFINE m == <<p, Main>>
  <1> USE SemaphoreAssumption, NoneAssumption DEF Shape, Goto, disk, process
  <1>1. CASE Boot(p)
    <2>1. m \in Agent /\ m[1] = p /\ pc[m] = "idle"
      BY <1>1, Agents DEF Boot, Places, PlaceOf, TypeOK
    <2>2. QED
      BY <1>1, <2>1 DEF Boot, TypeOK, Labels
  <1>2. CASE CleanStale(p)
    <2>1. m \in Agent
      BY Agents
    <2>2. Locked(m, Cleaned(Read), "cleanWrite") /\ pc[m] = "clean"
      BY <1>2 DEF CleanStale
    <2>3. "cleanWrite" \in Writing /\ "clean" \notin Writing
      BY DEF Writing
    <2> HIDE DEF m
    <2>4. QED
      BY <1>2, <2>1, <2>2, <2>3, StateType, LockedType DEF CleanStale, TypeOK
  <1>3. CASE Close(p)
    <2>1. m \in Agent /\ m[1] = p /\ m[2] = Main
      BY Agents
    <2>2. pc[m] \notin {"cleanWrite", "acquireWrite", "releaseWrite"}
      BY <1>3, <2>1 DEF Close, Ready, Places, PlaceOf
    <2>3. {r.id : r \in local[p]} \in SUBSET AllocId
      BY DEF TypeOK
    <2>4. QED
      BY <1>3, <2>1, <2>2, <2>3 DEF Close, TypeOK, Labels
  <1>4. CASE CloseNext(p)
    <2>1. m \in Agent /\ m[1] = p /\ m[2] = Main
      BY Agents
    <2>2. QED
      BY <1>4, <2>1 DEF CloseNext, TypeOK, Labels
  <1>5. CASE Exit(p)
    <2>1. Gone(p) /\ UNCHANGED <<disk, lock, pending, closed>>
      BY <1>5 DEF Exit
    <2>2. \A a \in Agent : a[1] = p => pc[a] \notin {"cleanWrite", "acquireWrite", "releaseWrite"}
      BY <1>5, Agents DEF Exit
    <2>3. \A a \in Agent : lock = a <=> pc'[a] \in {"cleanWrite", "acquireWrite", "releaseWrite"}
      BY <2>1, <2>2, GoneType DEF TypeOK
    <2>4. life' \in [Proc -> {"new", "live", "dead"}]
      BY <2>1, GoneType DEF TypeOK
    <2>5. /\ local' \in [Proc -> SUBSET [id : AllocId, weight : Weights]]
          /\ toClose' \in [Proc -> SUBSET AllocId]
      BY <2>1, GoneType DEF TypeOK
    <2>6. QED
      BY <2>1, <2>3, <2>4, <2>5, GoneType DEF TypeOK
  <1>6. CASE Crash(p)
    <2>1. Gone(p) /\ closed' = [closed EXCEPT ![p] = TRUE]
      BY <1>6 DEF Crash
    <2>2. /\ file' \in [AllocId -> Entry \cup {None}] /\ torn' \in BOOLEAN
          /\ pending' \in [AllocId -> Entry \cup {None}]
          /\ lock' = IF lock # None /\ lock[1] = p THEN None ELSE lock
      BY <1>6, EmptyState DEF Crash, TypeOK
    <2>3. \A a \in Agent : lock' = a <=> pc'[a] \in {"cleanWrite", "acquireWrite", "releaseWrite"}
      BY <2>1, <2>2, GoneType, Agents DEF TypeOK
    <2>4. life' \in [Proc -> {"new", "live", "dead"}] /\ lock' \in Agent \cup {None}
      BY <2>1, <2>2, GoneType DEF TypeOK
    <2>5. /\ local' \in [Proc -> SUBSET [id : AllocId, weight : Weights]]
          /\ toClose' \in [Proc -> SUBSET AllocId]
      <3>1. Gone(p)
        BY <2>1
      <3>2. QED
        BY <3>1, GoneType DEF TypeOK
    <2>6. closed' \in [Proc -> BOOLEAN]
      <3>1. closed \in [Proc -> BOOLEAN]
        BY DEF TypeOK
      <3>2. QED
        BY <2>1, <3>1, Zenon
    <2>7. total' \in [Proc -> Capacities] /\ capacity' \in [Proc -> Capacities]
      BY <2>1, GoneType DEF TypeOK
    <2>8. /\ pc' \in [Agent -> Labels] /\ mine' \in [Agent -> AllocId \cup {None}]
          /\ need' \in [Agent -> Weights \cup {0}] /\ cap' \in [Agent -> Capacities \cup {0}]
      BY <2>1, GoneType
    <2>9. QED
      BY <2>2, <2>3, <2>4, <2>5, <2>6, <2>7, <2>8, Zenon DEF TypeOK
  <1>7. CASE SetCapacity(p)
    BY <1>7 DEF SetCapacity, TypeOK
  <1>8. QED
    BY <1>1, <1>2, <1>3, <1>4, <1>5, <1>6, <1>7

\* What a step of an agent leaves of where the agents are.
LEMMA AgentPlaces ==
  ASSUME Shape, NEW a \in Agent,
         \/ a \in WorkerAgent /\ (Acquire(a) \/ WorkerStep(a))
         \/ AgentStep(a) \/ LockFails(a)
  PROVE  Places'
  <1> USE NoneAssumption, Agents DEF Shape, Goto, disk, process
  <1>1. a[1] \in Proc /\ PlaceOf(a) /\ pc[a] \in Labels
    BY DEF Places, TypeOK
  <1>2. UNCHANGED <<life, closed, toClose>>
    BY DEF Acquire, WorkerStep, TryFits, Record, Release, AgentStep, Unrecord, Write,
           LockFails
  <1>3. life[a[1]] # "live" => pc[a] = "idle"
    BY <1>1 DEF PlaceOf
  <1>4. \A b \in Agent \ {a} : pc'[b] = pc[b] /\ mine'[b] = mine[b] /\ need'[b] = need[b]
    <2> USE DEF TypeOK
    <2>1. CASE WorkerStep(a)
      BY <2>1 DEF WorkerStep, TryFits, Record, Release, Locked
    <2>2. CASE Acquire(a) \/ AgentStep(a) \/ LockFails(a)
      BY <2>2 DEF Acquire, AgentStep, Unrecord, Write, LockFails, Locked
    <2>3. QED
      BY <2>1, <2>2
  <1>5. PlaceOf(a)'
    <2> USE <1>1, <1>2 DEF TypeOK, PlaceOf, WithId
    <2>1. CASE a \in WorkerAgent /\ Acquire(a)
      BY <2>1 DEF Acquire, Ready
    <2>2. CASE a \in WorkerAgent /\ TryFits(a)
      BY <2>2 DEF TryFits, Locked
    <2>3. CASE a \in WorkerAgent /\ Record(a)
      BY <2>3 DEF Record
    <2>4. CASE a \in WorkerAgent /\ Release(a)
      <3>1. CASE Goto(a, "idle") /\ UNCHANGED <<local, mine>>
        BY <2>4, <3>1 DEF Release
      <3>2. CASE \E r \in local[a[1]] : mine' = [mine EXCEPT ![a] = r.id] /\ Goto(a, "release")
        <4>1. \A r \in local[a[1]] : r.id \in AllocId
          OBVIOUS
        <4>2. QED
          BY <2>4, <3>2, <4>1 DEF Release
      <3>3. QED
        BY <2>4, <3>1, <3>2 DEF Release
    <2>5. CASE Unrecord(a)
      BY <2>5 DEF Unrecord, Locked
    <2>6. CASE Write(a)
      <3>1. pc[a] \in {"cleanWrite", "acquireWrite", "releaseWrite"}
        BY <2>6 DEF Write
      <3>2. pc' = [pc EXCEPT ![a] = After(a)]
        BY <2>6 DEF Write
      <3>3. mine' = [mine EXCEPT ![a] = IF pc[a] = "acquireWrite" THEN mine[a] ELSE None]
            /\ UNCHANGED need
        BY <2>6 DEF Write
      <3>4. CASE pc[a] = "acquireWrite"
        <4>1. After(a) = "record"
          BY <3>4 DEF After
        <4>2. QED
          BY <3>2, <3>3, <3>4, <4>1
      <3>5. CASE pc[a] = "releaseWrite"
        <4>1. After(a) = IF a[2] = Main THEN "closing" ELSE "idle"
          BY <3>5 DEF After
        <4>2. QED
          BY <3>2, <3>3, <3>5, <4>1
      <3>6. CASE pc[a] = "cleanWrite"
        <4>1. After(a) = "idle"
          BY <3>6 DEF After
        <4>2. QED
          BY <3>2, <3>3, <3>6, <4>1
      <3>7. QED
        BY <3>1, <3>4, <3>5, <3>6
    <2>7. CASE LockFails(a)
      BY <2>7 DEF LockFails
    <2>8. QED
      BY <2>1, <2>2, <2>3, <2>4, <2>5, <2>6, <2>7 DEF WorkerStep, AgentStep
  <1>6. \A b \in Agent \ {a} : PlaceOf(b)'
    BY <1>2, <1>4 DEF Places, PlaceOf, WithId
  <1>7. \A p \in Proc : life'[p] # "live" => local'[p] = {} /\ toClose'[p] = {}
    <2> USE <1>2, <1>3 DEF Places, TypeOK
    <2>1. CASE Record(a) \/ Release(a)
      <3>1. life[a[1]] = "live"
        BY <2>1, <1>3 DEF Record, Release
      <3>2. \A p \in Proc \ {a[1]} : local'[p] = local[p]
        BY <2>1, <1>1 DEF Record, Release
      <3>3. QED
        BY <3>1, <3>2
    <2>2. CASE Acquire(a) \/ TryFits(a) \/ AgentStep(a) \/ LockFails(a)
      BY <2>2 DEF Acquire, TryFits, AgentStep, Unrecord, Write, LockFails
    <2>3. QED
      BY <2>1, <2>2 DEF WorkerStep
  <1>8. \A p \in Proc : ~closed'[p] => toClose'[p] = {}
    BY <1>2 DEF Places
  <1>9. QED
    BY <1>5, <1>6, <1>7, <1>8 DEF Places

\* What a step of a process leaves of where its agents are.
LEMMA ProcessPlaces ==
  ASSUME Shape, NEW p \in Proc,
         \/ Boot(p) \/ CleanStale(p) \/ Close(p) \/ CloseNext(p) \/ Exit(p)
         \/ Crash(p) \/ SetCapacity(p)
  PROVE  Places'
  <1> DEFINE m == <<p, Main>>
  <1> USE NoneAssumption DEF Shape
  <1>1. m \in Agent /\ m[1] = p /\ m[2] = Main /\ PlaceOf(m)
    BY Agents DEF Places
  <1>2. \A a \in Agent : PlaceOf(a)
    BY DEF Places
  <1>3. \A a \in Agent \ {m} : a[1] = p => a[2] # Main
    BY Agents
  <1>4. CASE Boot(p) \/ CleanStale(p) \/ Close(p) \/ CloseNext(p)
    <2>1. \A a \in Agent \ {m} : pc'[a] = pc[a] /\ mine'[a] = mine[a] /\ need'[a] = need[a]
      BY <1>1, <1>4 DEF Boot, CleanStale, Close, CloseNext, Goto, Locked, TypeOK
    <2>2. \A q \in Proc : /\ life[q] = "live" => life'[q] = "live"
                          /\ closed[q] => closed'[q]
      BY <1>4 DEF Boot, CleanStale, Close, CloseNext, process, TypeOK
    <2>3. \A a \in Agent \ {m} : PlaceOf(a)'
      BY <1>2, <2>1, <2>2, Agents DEF PlaceOf, WithId
    <2>4. PlaceOf(m)'
      <3> USE <1>1 DEF PlaceOf, WithId, Goto, TypeOK
      <3>1. CASE Boot(p)
        BY <3>1 DEF Boot
      <3>2. CASE CleanStale(p)
        BY <3>2 DEF CleanStale, Locked, process
      <3>3. CASE Close(p)
        BY <3>3 DEF Close, Ready
      <3>4. CASE CloseNext(p)
        BY <3>4 DEF CloseNext
      <3>5. QED
        BY <1>4, <3>1, <3>2, <3>3, <3>4
    <2>5. \A q \in Proc : life'[q] # "live" => local'[q] = {} /\ toClose'[q] = {}
      <3> USE DEF Places, TypeOK
      <3>1. CASE Boot(p) \/ CleanStale(p)
        BY <3>1 DEF Boot, CleanStale, process
      <3>2. CASE Close(p)
        BY <3>2 DEF Close, Ready
      <3>3. CASE CloseNext(p)
        BY <3>3 DEF CloseNext
      <3>4. QED
        BY <1>4, <3>1, <3>2, <3>3
    <2>6. \A q \in Proc : ~closed'[q] => toClose'[q] = {}
      BY <1>4 DEF Boot, CleanStale, Close, CloseNext, process, Places, TypeOK
    <2>7. QED
      BY <2>3, <2>4, <2>5, <2>6 DEF Places
  <1>5. CASE Exit(p) \/ Crash(p)
    <2>1. Gone(p) /\ \A q \in Proc : closed[q] => closed'[q]
      BY <1>5 DEF Exit, Crash, TypeOK
    <2>2. \A q \in Proc \ {p} : life'[q] = life[q] /\ local'[q] = local[q]
                                                   /\ toClose'[q] = toClose[q]
      BY <2>1, GoneType DEF TypeOK
    <2>3. local'[p] = {} /\ toClose'[p] = {}
      BY <2>1, GoneType DEF TypeOK
    <2>4. \A a \in Agent : a[1] = p => PlaceOf(a)'
      BY <2>1, GoneType DEF PlaceOf, WithId
    <2>5. \A a \in Agent : a[1] # p => PlaceOf(a)'
      BY <1>2, <2>1, <2>2, GoneType, Agents DEF PlaceOf, WithId
    <2>6. \A q \in Proc : ~closed'[q] => toClose'[q] = {}
      BY <2>1, <2>2, <2>3 DEF Places
    <2>7. QED
      BY <2>2, <2>3, <2>4, <2>5, <2>6 DEF Places
  <1>6. CASE SetCapacity(p)
    BY <1>6 DEF SetCapacity, Places, PlaceOf, WithId
  <1>7. QED
    BY <1>4, <1>5, <1>6

LEMMA StepShape == ASSUME Shape, [Next]_vars PROVE Shape'
  <1>1. ASSUME NEW p \in Proc,
               \/ Boot(p) \/ CleanStale(p) \/ Close(p) \/ CloseNext(p) \/ Exit(p)
               \/ Crash(p) \/ SetCapacity(p)
        PROVE  Shape'
    BY <1>1, ProcessType, ProcessPlaces DEF Shape
  <1>2. ASSUME NEW a \in WorkerAgent, Acquire(a) \/ WorkerStep(a) PROVE Shape'
    BY <1>2, AgentType, AgentPlaces, Agents DEF Shape
  <1>3. ASSUME NEW a \in Agent, AgentStep(a) \/ LockFails(a) PROVE Shape'
    BY <1>3, AgentType, AgentPlaces DEF Shape
  <1>4. CASE UNCHANGED vars
    BY <1>4 DEF vars, Shape, TypeOK, Places, PlaceOf, WithId
  <1>5. QED
    BY <1>1, <1>2, <1>3, <1>4 DEF Next, AllGone

\* Types, and that the flock is had by just the agent in its critical section.
THEOREM TypeCorrect == Spec => []TypeOK
  <1>1. Spec => []Shape
    BY InitShape, StepShape, PTL DEF Spec
  <1>2. Shape => TypeOK
    BY DEF Shape
  <1>3. QED
    BY <1>1, <1>2, PTL

-----------------------------------------------------------------------------
(* An allocation id has one owner.                                         *)

LEMMA InitDistinct == Init => Distinct
  BY DEF Init, Distinct

\* A step that gives no id to anybody.
LEMMA FewerDistinct ==
  ASSUME Distinct,
         \A a \in Agent : mine'[a] = mine[a] \/ mine'[a] = None,
         \A p \in Proc : local'[p] \subseteq local[p] /\ toClose'[p] \subseteq toClose[p],
         \A p \in Proc : None \notin toClose[p] /\ \A r \in local[p] : r.id # None
  PROVE  Distinct'
  BY DEF Distinct

\* No book holds None.
LEMMA IdsAreIds ==
  ASSUME TypeOK
  PROVE  \A p \in Proc : None \notin toClose[p] /\ \A r \in local[p] : r.id # None
  BY NoneAssumption DEF TypeOK

LEMMA StepDistinct ==
  ASSUME Shape, Distinct, [Next]_vars
  PROVE  Distinct'
  <1> USE DEF Shape
  <1>1. ASSUME NEW p \in Proc, Boot(p) \/ CleanStale(p) \/ SetCapacity(p) PROVE Distinct'
    <2>1. UNCHANGED <<mine, local, toClose>>
      BY <1>1 DEF Boot, CleanStale, SetCapacity, process
    <2>2. QED
      BY <2>1, FewerDistinct, IdsAreIds
  <1>2. ASSUME NEW p \in Proc, Exit(p) \/ Crash(p) PROVE Distinct'
    <2>1. Gone(p)
      BY <1>2 DEF Exit, Crash
    <2>2. \A q \in Proc : local'[q] \subseteq local[q] /\ toClose'[q] \subseteq toClose[q]
      BY <2>1, GoneType DEF TypeOK
    <2>3. \A a \in Agent : mine'[a] = mine[a] \/ mine'[a] = None
      BY <2>1, GoneType
    <2>4. QED
      BY <2>2, <2>3, FewerDistinct, IdsAreIds
  <1>3. ASSUME NEW p \in Proc, Close(p) PROVE Distinct'
    <2>1. /\ toClose' = [toClose EXCEPT ![p] = {r.id : r \in local[p]}]
          /\ local' = [local EXCEPT ![p] = {}]
          /\ UNCHANGED mine
      BY <1>3 DEF Close
    <2>2. /\ toClose'[p] = {r.id : r \in local[p]} /\ local'[p] = {}
          /\ \A q \in Proc \ {p} : toClose'[q] = toClose[q] /\ local'[q] = local[q]
      BY <2>1 DEF TypeOK
    <2>3. QED
      BY <2>1, <2>2 DEF Distinct
  <1>4. ASSUME NEW p \in Proc, CloseNext(p) PROVE Distinct'
    <2> DEFINE m == <<p, Main>>
    <2>1. PICK i \in toClose[p] : /\ toClose' = [toClose EXCEPT ![p] = @ \ {i}]
                                 /\ mine' = [mine EXCEPT ![m] = i]
      BY <1>4 DEF CloseNext
    <2>2. m \in Agent /\ UNCHANGED local
      BY <1>4, Agents DEF CloseNext
    <2>3. /\ toClose'[p] = toClose[p] \ {i}
          /\ \A q \in Proc \ {p} : toClose'[q] = toClose[q]
          /\ mine'[m] = i /\ \A a \in Agent \ {m} : mine'[a] = mine[a]
      BY <2>1, <2>2 DEF TypeOK
    <2> HIDE DEF m
    <2>4. QED
      BY <2>2, <2>3 DEF Distinct
  <1>5. ASSUME NEW a \in Agent, Acquire(a) \/ AgentStep(a) \/ LockFails(a) PROVE Distinct'
    <2>1. UNCHANGED <<local, toClose>>
      BY <1>5 DEF Acquire, AgentStep, Unrecord, Write, LockFails, process
    <2>2. \A b \in Agent : mine'[b] = mine[b] \/ mine'[b] = None
      BY <1>5 DEF Acquire, AgentStep, Unrecord, Write, LockFails, TypeOK
    <2>3. QED
      BY <2>1, <2>2, FewerDistinct, IdsAreIds
  <1>6. ASSUME NEW a \in Agent, TryFits(a) PROVE Distinct'
    <2>1. PICK i \in AllocId : Fresh(i) /\ mine' = [mine EXCEPT ![a] = i]
      BY <1>6 DEF TryFits
    <2>2. UNCHANGED <<local, toClose>>
      BY <1>6 DEF TryFits, process
    <2>3. mine'[a] = i /\ \A b \in Agent \ {a} : mine'[b] = mine[b] /\ mine[b] # i
      BY <2>1 DEF Fresh, TypeOK
    <2>4. QED
      BY <2>1, <2>2, <2>3 DEF Fresh, Distinct
  <1>7. ASSUME NEW a \in Agent, Record(a) PROVE Distinct'
    <2> DEFINE p == a[1]
               r == [id |-> mine[a], weight |-> need[a]]
    <2>1. p \in Proc /\ mine[a] # None /\ r.id = mine[a]
      BY <1>7, Agents DEF Record, Places, PlaceOf, WithId
    <2>2. /\ local'[p] = local[p] \cup {r}
          /\ \A q \in Proc \ {p} : local'[q] = local[q]
          /\ mine'[a] = None /\ \A b \in Agent \ {a} : mine'[b] = mine[b]
          /\ UNCHANGED toClose
      BY <1>7, <2>1 DEF Record, process, TypeOK
    <2> HIDE DEF p, r
    <2>3. QED
      BY <2>1, <2>2, IdsAreIds DEF Distinct
  <1>8. ASSUME NEW a \in Agent, Release(a) PROVE Distinct'
    <2> DEFINE p == a[1]
    <2>1. p \in Proc /\ UNCHANGED toClose
      BY <1>8, Agents DEF Release, process
    <2>2. CASE UNCHANGED <<local, mine>>
      BY <2>1, <2>2, FewerDistinct, IdsAreIds
    <2>3. ASSUME NEW r \in local[p], local' = [local EXCEPT ![p] = @ \ {r}],
                 mine' = [mine EXCEPT ![a] = r.id]
          PROVE  Distinct'
      <3>1. /\ local'[p] = local[p] \ {r}
            /\ \A q \in Proc \ {p} : local'[q] = local[q]
            /\ mine'[a] = r.id /\ \A b \in Agent \ {a} : mine'[b] = mine[b]
        BY <2>1, <2>3 DEF TypeOK
      <3> HIDE DEF p
      <3>2. QED
        BY <2>1, <3>1 DEF Distinct
    <2>4. QED
      BY <1>8, <2>2, <2>3 DEF Release
  <1>9. CASE UNCHANGED vars
    BY <1>9 DEF vars, Distinct
  <1>10. QED
    BY <1>1, <1>2, <1>3, <1>4, <1>5, <1>6, <1>7, <1>8, <1>9, Agents
    DEF Next, WorkerStep, AllGone

-----------------------------------------------------------------------------
(* What is held is on file.                                                *)

LEMMA InitBooks == Init => Books
  <1> SUFFICES ASSUME Init PROVE Books
    OBVIOUS
  <1>1. Booked(file)
    BY DEF Init, Booked
  <1>2. QED
    BY <1>1 DEF Init, Books

\* Cleaning drops no entry of who is there to hold it.
LEMMA CleanedBooked ==
  ASSUME Shape, NEW state \in [AllocId -> Entry \cup {None}], Booked(state)
  PROVE  Booked(Cleaned(state))
  <1>1. \A i \in AllocId : state[i] # None /\ life[state[i].pid] = "live"
                             => Cleaned(state)[i] = state[i]
    BY DEF Cleaned
  <1>2. \A p \in Proc, n \in Weights : [pid |-> p, weight |-> n] # None
    BY NoneAssumption DEF Entry
  <1>3. ASSUME NEW p \in Proc, NEW r \in local[p]
        PROVE  Cleaned(state)[r.id] = [pid |-> p, weight |-> r.weight]
    <2>1. life[p] = "live" /\ r.id \in AllocId /\ r.weight \in Weights
      BY DEF Shape, TypeOK, Places
    <2>2. state[r.id] = [pid |-> p, weight |-> r.weight]
      BY DEF Booked
    <2>3. QED
      BY <2>1, <2>2, <1>1, <1>2
  <1>4. ASSUME NEW a \in Agent, pc[a] = "record"
        PROVE  Cleaned(state)[mine[a]] = [pid |-> a[1], weight |-> need[a]]
    <2>1. /\ life[a[1]] = "live" /\ mine[a] \in AllocId /\ need[a] \in Weights
          /\ a[1] \in Proc
      BY <1>4, Agents DEF Shape, TypeOK, Places, PlaceOf, WithId
    <2>2. state[mine[a]] = [pid |-> a[1], weight |-> need[a]]
      BY <1>4 DEF Booked
    <2>3. QED
      BY <2>1, <2>2, <1>1, <1>2
  <1>5. QED
    BY <1>3, <1>4 DEF Booked

\* Nobody has an id more.
Fewer ==
  /\ \A p \in Proc : local'[p] \subseteq local[p]
  /\ \A a \in Agent : pc'[a] = "record" => /\ pc[a] = "record" /\ need'[a] = need[a]
                                           /\ mine'[a] = mine[a]

LEMMA FewerBooked ==
  ASSUME NEW state, Booked(state), Fewer
  PROVE  Booked(state)'
  BY DEF Booked, Fewer

\* A step that neither reads nor writes the file.
LEMMA FewerBooks ==
  ASSUME Books, Fewer, UNCHANGED <<disk, lock, pending>>,
         \A a \in Agent : pc'[a] = "acquireWrite" => /\ pc[a] = "acquireWrite"
                                                     /\ need'[a] = need[a]
                                                     /\ mine'[a] = mine[a]
  PROVE  Books'
  <1>1. Booked(file)'
    BY FewerBooked DEF Books, disk, Booked
  <1>2. lock # None => Booked(pending)'
    BY FewerBooked DEF Books, Booked
  <1>3. QED
    BY <1>1, <1>2 DEF Books, disk

LEMMA RecordBooks ==
  ASSUME Shape, Books, NEW a \in WorkerAgent, Record(a)
  PROVE  Books'
  <1> DEFINE p == a[1]
             r == [id |-> mine[a], weight |-> need[a]]
  <1>1. a \in Agent /\ p \in Proc
    BY Agents
  <1>2. /\ local'[p] = local[p] \cup {r}
        /\ \A q \in Proc \ {p} : local'[q] = local[q]
        /\ \A b \in Agent : pc'[b] # "held" =>
             pc'[b] = pc[b] /\ mine'[b] = mine[b] /\ need'[b] = need[b]
        /\ pc[a] = "record" /\ UNCHANGED <<file, torn, lock, pending>>
    BY <1>1 DEF Record, Goto, Shape, TypeOK, disk
  <1>3. ASSUME NEW state, Booked(state) PROVE Booked(state)'
    <2>1. state[r.id] = [pid |-> p, weight |-> r.weight]
      BY <1>1, <1>2, <1>3 DEF Booked
    <2> HIDE DEF r, p
    <2>2. QED
      BY <1>2, <1>3, <2>1 DEF Booked
  <1>4. Booked(file)' /\ (lock # None => Booked(pending)')
    BY <1>2, <1>3 DEF Books, Booked
  <1>5. QED
    BY <1>2, <1>4 DEF Books

\* A critical section begins, with a state that keeps what is held.
LEMMA LockedBooks ==
  ASSUME Shape, Shape', Books, NEW a \in Agent, NEW label \in Writing,
         NEW state, Locked(a, state, label), Booked(state), Fewer,
         label = "acquireWrite" =>
           state[mine'[a]] = [pid |-> a[1], weight |-> need'[a]]
  PROVE  Books'
  <1>1. /\ lock = None /\ lock' = a /\ pending' = state /\ UNCHANGED <<file, torn>>
        /\ pc'[a] = label
    BY DEF Locked, Goto, disk, Shape, TypeOK
  <1>2. Booked(file)'
    BY <1>1, FewerBooked DEF Books, Booked
  <1>3. Booked(pending)'
    BY <1>1, FewerBooked DEF Booked
  <1>4. \A b \in Agent : pc'[b] = "acquireWrite" => b = a
    BY <1>1 DEF Shape, TypeOK
  <1>5. QED
    BY <1>1, <1>2, <1>3, <1>4 DEF Books

LEMMA TryBooks ==
  ASSUME Shape, Shape', Books, NEW a \in WorkerAgent, TryFits(a)
  PROVE  Books'
  <1> DEFINE entry == [pid |-> a[1], weight |-> need[a]]
  <1>1. PICK i \in AllocId :
          /\ Fresh(i)
          /\ mine' = [mine EXCEPT ![a] = i]
          /\ Locked(a, [Cleaned(Read) EXCEPT ![i] = entry], "acquireWrite")
    BY DEF TryFits
  <1> DEFINE state == [Cleaned(Read) EXCEPT ![i] = entry]
  <1>2. a \in Agent /\ UNCHANGED <<local, need>> /\ pc[a] = "try"
    BY Agents DEF TryFits
  <1>3. Booked(Cleaned(Read))
    BY StateType, CleanedBooked DEF Books, Read, Shape
  <1>4. \A j \in AllocId : state[j] = IF j = i THEN entry ELSE Cleaned(Read)[j]
    BY StateType DEF Shape
  <1> HIDE DEF entry
  <1>5. Booked(state)
    <2>1. \A p \in Proc : \A r \in local[p] : r.id \in AllocId /\ r.id # i
      BY <1>1 DEF Fresh, Shape, TypeOK
    <2>2. \A b \in Agent : pc[b] = "record" => mine[b] \in AllocId /\ mine[b] # i
      BY <1>1 DEF Fresh, Shape, TypeOK, Places, PlaceOf, WithId
    <2> HIDE DEF state
    <2>3. QED
      BY <1>3, <1>4, <2>1, <2>2 DEF Booked
  <1>6. mine'[a] = i /\ \A b \in Agent \ {a} : mine'[b] = mine[b]
    BY <1>1, <1>2 DEF Shape, TypeOK
  <1>7. Fewer
    <2>1. pc' = [pc EXCEPT ![a] = "acquireWrite"]
      BY <1>1 DEF Locked, Goto
    <2>2. QED
      BY <2>1, <1>2, <1>6 DEF Fewer, Shape, TypeOK
  <1>8. state[mine'[a]] = [pid |-> a[1], weight |-> need'[a]]
    BY <1>2, <1>4, <1>6 DEF entry
  <1>9. "acquireWrite" \in Writing
    BY DEF Writing
  <1> HIDE DEF state
  <1>10. Locked(a, state, "acquireWrite")
    BY <1>1 DEF state
  <1>11. QED
    BY <1>2, <1>5, <1>7, <1>8, <1>9, <1>10, LockedBooks

LEMMA CleanStaleBooks ==
  ASSUME Shape, Shape', Books, NEW p \in Proc, CleanStale(p)
  PROVE  Books'
  <1> DEFINE m == <<p, Main>>
  <1>1. m \in Agent /\ "cleanWrite" \in Writing
    BY Agents DEF Writing
  <1>2. Locked(m, Cleaned(Read), "cleanWrite") /\ UNCHANGED <<local, need, mine>>
    BY DEF CleanStale
  <1>3. Booked(Cleaned(Read))
    BY StateType, CleanedBooked DEF Books, Read, Shape
  <1>4. Fewer
    BY <1>1, <1>2 DEF Fewer, Locked, Goto, Shape, TypeOK
  <1> HIDE DEF m
  <1>5. QED
    BY <1>1, <1>2, <1>3, <1>4, LockedBooks

LEMMA UnrecordBooks ==
  ASSUME Shape, Shape', Distinct, Books, NEW a \in Agent, Unrecord(a)
  PROVE  Books'
  <1> DEFINE state == [Read EXCEPT ![mine[a]] = None]
  <1>1. /\ Locked(a, state, "releaseWrite") /\ UNCHANGED <<local, need, mine>>
        /\ pc[a] = "release" /\ "releaseWrite" \in Writing
    BY DEF Unrecord, Writing
  <1>2. mine[a] \in AllocId
    BY <1>1 DEF Shape, TypeOK, Places, PlaceOf, WithId
  <1>3. \A j \in AllocId : j # mine[a] => state[j] = file[j]
    BY StateType DEF Shape, Books, Read
  <1> HIDE DEF state
  <1>4. Booked(state)
    <2>1. \A p \in Proc : \A r \in local[p] : r.id \in AllocId /\ r.id # mine[a]
      BY DEF Distinct, Shape, TypeOK
    <2>2. \A b \in Agent : pc[b] = "record" => mine[b] \in AllocId /\ mine[b] # mine[a]
      BY <1>1 DEF Distinct, Shape, TypeOK, Places, PlaceOf, WithId
    <2>3. QED
      BY <1>3, <2>1, <2>2 DEF Booked, Books
  <1>5. Fewer
    BY <1>1 DEF Fewer, Locked, Goto, Shape, TypeOK
  <1>6. QED
    BY <1>1, <1>4, <1>5, LockedBooks

LEMMA WriteBooks ==
  ASSUME Shape, Shape', Books, ~TornWrites, NEW a \in Agent, Write(a)
  PROVE  Books'
  <1>1. /\ lock = a /\ file' = pending /\ torn' = FALSE /\ lock' = None
        /\ UNCHANGED <<local, need>>
        /\ pc' = [pc EXCEPT ![a] = After(a)]
        /\ mine' = [mine EXCEPT ![a] = IF pc[a] = "acquireWrite" THEN mine[a] ELSE None]
    BY DEF Write, Goto
  <1>2. Booked(pending) /\ a # None
    BY <1>1, NoneAssumption DEF Books
  <1>3. \A b \in Agent \ {a} : pc'[b] = pc[b] /\ mine'[b] = mine[b]
    BY <1>1 DEF Shape, TypeOK
  <1>4. pc'[a] = "record" => /\ pending[mine'[a]] = [pid |-> a[1], weight |-> need[a]]
    <2>1. pc'[a] = After(a)
          /\ mine'[a] = IF pc[a] = "acquireWrite" THEN mine[a] ELSE None
      BY <1>1 DEF Shape, TypeOK
    <2>2. After(a) = "record" => pc[a] = "acquireWrite"
      BY DEF After
    <2>3. QED
      BY <2>1, <2>2 DEF Books
  <1>5. Booked(file)'
    BY <1>1, <1>2, <1>3, <1>4 DEF Booked
  <1>6. \A b \in Agent : pc'[b] # "acquireWrite"
    BY <1>1, NoneAssumption DEF Shape, TypeOK
  <1>7. QED
    BY <1>1, <1>5, <1>6 DEF Books

\* Crash and Exit.
LEMMA GoneBooks ==
  ASSUME Shape, Shape', Books, ~TornWrites, NEW p \in Proc, Exit(p) \/ Crash(p)
  PROVE  Books'
  <1>1. Gone(p)
    BY DEF Exit, Crash
  <1>2. Fewer
    <2>1. \A q \in Proc : local'[q] \subseteq local[q]
      BY <1>1, GoneType DEF Shape, TypeOK
    <2>2. QED
      BY <1>1, <2>1, GoneType DEF Fewer
  <1>3. \A a \in Agent : pc'[a] = "acquireWrite" => /\ pc[a] = "acquireWrite"
                                                    /\ need'[a] = need[a]
                                                    /\ mine'[a] = mine[a]
    BY <1>1, GoneType
  <1>4. CASE UNCHANGED <<disk, lock, pending>>
    BY <1>2, <1>3, <1>4, FewerBooks
  <1>5. ASSUME lock # None, lock' = None, torn' = FALSE, file' = file \/ file' = pending
        PROVE  Books'
    <2>1. Booked(file)'
      <3>1. Booked(file) /\ Booked(pending)
        BY <1>5 DEF Books
      <3>2. CASE file' = file
        BY <3>1, <3>2, <1>2, FewerBooked DEF Booked
      <3>3. CASE file' = pending
        BY <3>1, <3>3, <1>2 DEF Booked, Fewer
      <3>4. QED
        BY <1>5, <3>2, <3>3
    <2>2. \A b \in Agent : pc'[b] # "acquireWrite"
      BY <1>5, NoneAssumption DEF Shape, TypeOK
    <2>3. QED
      BY <1>5, <2>1, <2>2 DEF Books
  <1>6. QED
    BY <1>4, <1>5 DEF Exit, Crash, disk, Books

LEMMA StepBooks ==
  ASSUME Shape, Shape', Distinct, Books, ~TornWrites, [Next]_vars
  PROVE  Books'
  <1>1. ASSUME NEW p \in Proc, Boot(p) \/ Close(p) \/ CloseNext(p) \/ SetCapacity(p)
        PROVE  Books'
    <2>1. UNCHANGED <<disk, lock, pending, need>>
      BY <1>1 DEF Boot, Close, CloseNext, SetCapacity
    <2>2. \A q \in Proc : local'[q] \subseteq local[q]
      BY <1>1 DEF Boot, Close, CloseNext, SetCapacity, Shape, TypeOK
    <2>3. \A a \in Agent : pc'[a] \in {"record", "acquireWrite"} =>
                             pc'[a] = pc[a] /\ mine'[a] = mine[a]
      <3>1. <<p, Main>> \in Agent
        BY Agents
      <3>2. QED
        BY <1>1, <3>1 DEF Boot, Close, CloseNext, SetCapacity, Goto, Shape, TypeOK
    <2>4. QED
      BY <2>1, <2>2, <2>3, FewerBooks DEF Fewer
  <1>2. ASSUME NEW a \in Agent, Acquire(a) \/ Release(a) \/ LockFails(a) PROVE Books'
    <2>1. UNCHANGED <<disk, lock, pending>>
      BY <1>2 DEF Acquire, Release, LockFails
    <2>2. \A q \in Proc : local'[q] \subseteq local[q]
      <3>1. a[1] \in Proc /\ local \in [Proc -> SUBSET [id : AllocId, weight : Weights]]
        BY Agents DEF Shape, TypeOK
      <3>2. \/ UNCHANGED local
            \/ \E r \in local[a[1]] : local' = [local EXCEPT ![a[1]] = @ \ {r}]
        BY <1>2 DEF Acquire, Release, LockFails
      <3>3. QED
        BY <3>1, <3>2
    <2>3. \A b \in Agent : pc'[b] \in {"record", "acquireWrite"} =>
                             pc'[b] = pc[b] /\ mine'[b] = mine[b] /\ need'[b] = need[b]
      BY <1>2 DEF Acquire, Release, LockFails, Goto, Shape, TypeOK
    <2>4. QED
      BY <2>1, <2>2, <2>3, FewerBooks DEF Fewer
  <1>3. CASE UNCHANGED vars
    BY <1>3, FewerBooks DEF vars, Fewer, disk
  <1>4. QED
    BY <1>1, <1>2, <1>3, RecordBooks, TryBooks, CleanStaleBooks, UnrecordBooks, WriteBooks,
       GoneBooks, Agents
    DEF Next, WorkerStep, AgentStep, AllGone

-----------------------------------------------------------------------------
(* What is in the books runs.                                              *)

LEMMA BookIs ==
  /\ \A e \in Book : e[1] \in Proc /\ e[2] \in local[e[1]] /\ e = <<e[1], e[2]>>
  /\ \A p \in Proc, r \in [id : AllocId, weight : Weights] :
       r \in local[p] => <<p, r>> \in Book
  BY DEF Book

LEMMA InitMatched == Init => Matched
  <1> SUFFICES ASSUME Init PROVE Matched
    OBVIOUS
  <1>1. Book = {}
    BY DEF Init, Book
  <1> DEFINE g == [e \in Book |-> CHOOSE a \in WorkerAgent : TRUE]
  <1>2. g \in [Book -> WorkerAgent]
    BY <1>1
  <1>3. \A a \in WorkerAgent : pc[a] = "idle"
    BY Agents DEF Init
  <1>4. Matching(g)
    BY <1>1, <1>2, <1>3 DEF Matching
  <1>5. QED
    BY <1>2, <1>4 DEF Matched

\* A step that changes neither the books nor who runs.
LEMMA SameMatched ==
  ASSUME Matched, local' = local,
         \A a \in WorkerAgent : /\ pc'[a] = "held" <=> pc[a] = "held"
                                /\ pc[a] = "held" => need'[a] = need[a]
                                /\ closed[a[1]] => closed'[a[1]]
  PROVE  Matched'
  <1>1. PICK g \in [Book -> WorkerAgent] : Matching(g)
    BY DEF Matched
  <1>2. Book' = Book
    BY DEF Book
  <1>3. Matching(g)'
    BY <1>1, <1>2 DEF Matching
  <1>4. QED
    BY <1>2, <1>3 DEF Matched

\* A process loses its book: it closed, or is gone.
LEMMA LostMatched ==
  ASSUME Matched, NEW p \in Proc, local'[p] = {},
         \A q \in Proc \ {p} : local'[q] = local[q] /\ (closed[q] => closed'[q]),
         \A a \in WorkerAgent :
            /\ a[1] # p /\ pc[a] = "held" => pc'[a] = "held" /\ need'[a] = need[a]
            /\ pc'[a] = "held" => pc[a] = "held" /\ (a[1] = p => closed'[p])
  PROVE  Matched'
  <1>1. PICK g \in [Book -> WorkerAgent] : Matching(g)
    BY DEF Matched
  <1>2. \A e : e \in Book' <=> e \in Book /\ e[1] # p
    BY DEF Book
  <1>3. PICK h \in [Book' -> WorkerAgent] : \A e \in Book' : h[e] = g[e]
    <2> DEFINE k == [e \in Book' |-> g[e]]
    <2>1. k \in [Book' -> WorkerAgent] /\ \A e \in Book' : k[e] = g[e]
      BY <1>2
    <2>2. QED
      BY <2>1
  <1>4. \A e \in Book' : pc'[h[e]] = "held" /\ h[e][1] = e[1] /\ need'[h[e]] = e[2].weight
    BY <1>1, <1>2, <1>3 DEF Matching
  <1>5. \A e, f \in Book' : h[e] = h[f] => e = f
    BY <1>1, <1>2, <1>3 DEF Matching
  <1>6. ASSUME NEW a \in WorkerAgent, pc'[a] = "held", ~closed'[a[1]]
        PROVE  \E e \in Book' : h[e] = a
    <2>1. a[1] \in Proc /\ a[1] # p /\ pc[a] = "held" /\ ~closed[a[1]]
      BY <1>6, Agents
    <2>2. PICK e \in Book : g[e] = a
      BY <1>1, <2>1 DEF Matching
    <2>3. e[1] # p
      BY <1>1, <2>1, <2>2 DEF Matching
    <2>4. QED
      BY <1>2, <1>3, <2>2, <2>3
  <1>7. Matching(h)'
    BY <1>3, <1>4, <1>5, <1>6 DEF Matching
  <1>8. QED
    BY <1>3, <1>7 DEF Matched

LEMMA RecordMatched ==
  ASSUME Shape, Distinct, Matched, NEW a \in WorkerAgent, Record(a)
  PROVE  Matched'
  <1> DEFINE p == a[1]
             r == [id |-> mine[a], weight |-> need[a]]
             new == <<p, r>>
  <1>1. a \in Agent /\ p \in Proc /\ mine[a] \in AllocId /\ need[a] \in Weights
        /\ pc[a] = "record"
    BY Agents DEF Record, Shape, TypeOK, Places, PlaceOf, WithId
  <1>2. /\ local' = [local EXCEPT ![p] = @ \cup {r}]
        /\ pc' = [pc EXCEPT ![a] = "held"] /\ UNCHANGED <<need, closed>>
    BY DEF Record, Goto, process
  <1>3. local'[p] = local[p] \cup {r} /\ \A q \in Proc \ {p} : local'[q] = local[q]
    BY <1>1, <1>2 DEF Shape, TypeOK
  <1>4. r \in [id : AllocId, weight : Weights] /\ r \notin local[p]
    <2>1. r \in [id : AllocId, weight : Weights] /\ r.id = mine[a]
      BY <1>1
    <2>2. QED
      BY <1>1, <2>1 DEF Distinct
  <1>5. new \notin Book /\ new[1] = p /\ new[2] = r
    BY <1>4, BookIs
  <1>6. Book' = Book \cup {new}
    <2> HIDE DEF r, p
    <2>1. QED
      BY <1>1, <1>3, <1>4 DEF Book
  <1>7. PICK g \in [Book -> WorkerAgent] : Matching(g)
    BY DEF Matched
  <1>8. \A b \in WorkerAgent : pc'[b] = IF b = a THEN "held" ELSE pc[b]
    BY <1>2, Agents DEF Shape, TypeOK
  <1>9. PICK h \in [Book' -> WorkerAgent] :
          \A e \in Book' : h[e] = IF e = new THEN a ELSE g[e]
    <2> DEFINE k == [e \in Book' |-> IF e = new THEN a ELSE g[e]]
    <2>1. /\ k \in [Book' -> WorkerAgent]
          /\ \A e \in Book' : k[e] = IF e = new THEN a ELSE g[e]
      BY <1>6
    <2>2. QED
      BY <2>1
  <1>10. r.weight = need[a]
    OBVIOUS
  <1> HIDE DEF new, r
  <1>11. \A e \in Book : g[e] # a
    BY <1>1, <1>7 DEF Matching
  <1>12. \A e \in Book' : pc'[h[e]] = "held" /\ h[e][1] = e[1] /\ need'[h[e]] = e[2].weight
    BY <1>2, <1>5, <1>6, <1>7, <1>8, <1>9, <1>10, <1>11 DEF Matching
  <1>13. \A e, f \in Book' : h[e] = h[f] => e = f
    BY <1>6, <1>7, <1>9, <1>11 DEF Matching
  <1>14. \A b \in WorkerAgent : pc'[b] = "held" /\ ~closed'[b[1]] => \E e \in Book' : h[e] = b
    BY <1>2, <1>5, <1>6, <1>7, <1>8, <1>9 DEF Matching
  <1>15. Matching(h)'
    BY <1>9, <1>12, <1>13, <1>14 DEF Matching
  <1>16. QED
    BY <1>9, <1>15 DEF Matched

\* Release takes back r, which may be what another unit runs on: that one takes
\* over the entry of the unit that ends.
LEMMA SwapMatched ==
  ASSUME Shape, Matched, NEW a \in WorkerAgent, pc[a] = "held",
         NEW r \in local[a[1]], r.weight = need[a],
         local' = [local EXCEPT ![a[1]] = @ \ {r}],
         pc' = [pc EXCEPT ![a] = "release"], UNCHANGED <<need, closed>>
  PROVE  Matched'
  <1> DEFINE p == a[1]
             old == <<p, r>>
  <1>1. a \in Agent /\ p \in Proc /\ r \in [id : AllocId, weight : Weights]
    BY Agents DEF Shape, TypeOK
  <1>2. local'[p] = local[p] \ {r} /\ \A q \in Proc \ {p} : local'[q] = local[q]
    BY <1>1 DEF Shape, TypeOK
  <1>3. old \in Book /\ old[1] = p /\ old[2] = r
    BY <1>1, BookIs
  <1>4. Book' = Book \ {old}
    <2>1. \A e : e \in Book' <=> e \in Book /\ e # old
      BY <1>1, <1>2 DEF Book
    <2>2. QED
      BY <2>1
  <1>5. PICK g \in [Book -> WorkerAgent] : Matching(g)
    BY DEF Matched
  <1>6. \A b \in WorkerAgent : pc'[b] = IF b = a THEN "release" ELSE pc[b]
    BY Agents DEF Shape, TypeOK
  <1>7. PICK h \in [Book' -> WorkerAgent] :
          \A e \in Book' : h[e] = IF g[e] = a THEN g[old] ELSE g[e]
    <2> DEFINE k == [e \in Book' |-> IF g[e] = a THEN g[old] ELSE g[e]]
    <2>1. /\ k \in [Book' -> WorkerAgent]
          /\ \A e \in Book' : k[e] = IF g[e] = a THEN g[old] ELSE g[e]
      BY <1>3, <1>4
    <2>2. QED
      BY <2>1
  <1> HIDE DEF old
  <1>8. \A e \in Book' : h[e] # a
    BY <1>3, <1>4, <1>5, <1>7 DEF Matching
  <1>9. \A e \in Book' : pc'[h[e]] = "held" /\ h[e][1] = e[1] /\ need'[h[e]] = e[2].weight
    BY <1>3, <1>4, <1>5, <1>6, <1>7, <1>8 DEF Matching
  <1>10. \A e, f \in Book' : h[e] = h[f] => e = f
    BY <1>3, <1>4, <1>5, <1>7 DEF Matching
  <1>11. ASSUME NEW b \in WorkerAgent, pc'[b] = "held", ~closed'[b[1]]
         PROVE  \E e \in Book' : h[e] = b
    <2>1. b # a /\ pc[b] = "held" /\ ~closed[b[1]]
      BY <1>6, <1>11
    <2>2. PICK e \in Book : g[e] = b
      BY <1>5, <2>1 DEF Matching
    <2>3. CASE e # old
      BY <1>4, <1>7, <2>1, <2>2, <2>3
    <2>4. CASE e = old
      <3>1. ~closed[p]
        BY <1>3, <1>5, <2>1, <2>2, <2>4 DEF Matching
      <3>2. PICK f \in Book : g[f] = a
        BY <1>5, <3>1 DEF Matching
      <3>3. QED
        BY <1>4, <1>7, <2>1, <2>2, <2>4, <3>2
    <2>5. QED
      BY <2>3, <2>4
  <1>12. Matching(h)'
    BY <1>7, <1>9, <1>10, <1>11 DEF Matching
  <1>13. QED
    BY <1>7, <1>12 DEF Matched

LEMMA ReleaseMatched ==
  ASSUME Shape, Matched, NEW a \in WorkerAgent, Release(a)
  PROVE  Matched'
  <1> DEFINE fitting == {r \in local[a[1]] : r.weight = need[a]}
  <1>1. pc[a] = "held" /\ UNCHANGED <<need, closed>> /\ a \in Agent /\ a[1] \in Proc
    BY Agents DEF Release, process
  <1>2. CASE fitting = {} /\ Goto(a, "idle") /\ UNCHANGED local
    <2>1. PICK g \in [Book -> WorkerAgent] : Matching(g)
      BY DEF Matched
    <2>2. \A e \in Book : g[e] # a
      <3>1. ASSUME NEW e \in Book, g[e] = a PROVE e[2] \in fitting
        BY <2>1, <3>1, BookIs DEF Matching
      <3>2. QED
        BY <3>1, <1>2
    <2>3. Book' = Book
      BY <1>2 DEF Book
    <2>4. \A b \in WorkerAgent : pc'[b] = IF b = a THEN "idle" ELSE pc[b]
      BY <1>2, Agents DEF Goto, Shape, TypeOK
    <2>5. Matching(g)'
      BY <1>1, <2>1, <2>2, <2>3, <2>4 DEF Matching
    <2>6. QED
      BY <2>3, <2>5 DEF Matched
  <1>3. ASSUME NEW r \in fitting, local' = [local EXCEPT ![a[1]] = @ \ {r}],
               Goto(a, "release")
        PROVE  Matched'
    BY <1>1, <1>3, SwapMatched DEF Goto
  <1>4. QED
    BY <1>2, <1>3 DEF Release

LEMMA StepMatched ==
  ASSUME Shape, Distinct, Matched, [Next]_vars
  PROVE  Matched'
  <1>1. ASSUME NEW p \in Proc, Boot(p) \/ CleanStale(p) \/ CloseNext(p) \/ SetCapacity(p)
        PROVE  Matched'
    <2>1. UNCHANGED <<local, closed, need>>
      BY <1>1 DEF Boot, CleanStale, CloseNext, SetCapacity, process
    <2>2. \A a \in WorkerAgent : pc'[a] = pc[a]
      <3>1. \A a \in WorkerAgent : a # <<p, Main>>
        BY Agents
      <3>2. QED
        BY <1>1, <3>1, Agents
        DEF Boot, CleanStale, CloseNext, SetCapacity, Goto, Locked, Shape, TypeOK
    <2>3. QED
      BY <2>1, <2>2, SameMatched
  <1>2. ASSUME NEW p \in Proc, Close(p) PROVE Matched'
    <2>1. \A a \in WorkerAgent : pc'[a] = pc[a]
      <3>1. \A a \in WorkerAgent : a # <<p, Main>>
        BY Agents
      <3>2. QED
        BY <1>2, <3>1, Agents DEF Close, Goto, Shape, TypeOK
    <2>2. /\ local'[p] = {} /\ closed'[p] = TRUE /\ UNCHANGED need
          /\ \A q \in Proc \ {p} : local'[q] = local[q] /\ closed'[q] = closed[q]
      BY <1>2 DEF Close, Shape, TypeOK
    <2>3. QED
      BY <2>1, <2>2, LostMatched
  <1>3. ASSUME NEW p \in Proc, Exit(p) \/ Crash(p) PROVE Matched'
    <2>1. Gone(p)
      BY <1>3 DEF Exit, Crash
    <2>2. /\ local'[p] = {}
          /\ \A q \in Proc \ {p} : local'[q] = local[q]
      BY <2>1, GoneType DEF Shape, TypeOK
    <2>3. \A q \in Proc : closed[q] => closed'[q]
      BY <1>3 DEF Exit, Crash, Shape, TypeOK
    <2>4. QED
      BY <2>1, <2>2, <2>3, GoneType, LostMatched, Agents
  <1>4. ASSUME NEW a \in Agent, Acquire(a) \/ TryFits(a) \/ AgentStep(a) \/ LockFails(a)
        PROVE  Matched'
    <2>1. UNCHANGED <<local, closed>>
      BY <1>4 DEF Acquire, TryFits, AgentStep, Unrecord, Write, LockFails, process
    <2>2. pc[a] # "held" /\ pc'[a] # "held"
      <3>1. After(a) # "held"
        BY DEF After
      <3>2. CASE Write(a)
        BY <3>1, <3>2 DEF Write, Goto, Shape, TypeOK
      <3>3. CASE Acquire(a) \/ TryFits(a) \/ Unrecord(a) \/ LockFails(a)
        BY <3>3 DEF Acquire, TryFits, Unrecord, LockFails, Locked, Goto, Shape, TypeOK
      <3>4. QED
        BY <1>4, <3>2, <3>3 DEF AgentStep
    <2>3. \A b \in Agent \ {a} : pc'[b] = pc[b] /\ need'[b] = need[b]
      BY <1>4 DEF Acquire, TryFits, AgentStep, Unrecord, Write, LockFails, Locked, Goto,
                  Shape, TypeOK
    <2>4. QED
      BY <2>1, <2>2, <2>3, SameMatched, Agents
  <1>5. CASE UNCHANGED vars
    BY <1>5, SameMatched DEF vars
  <1>6. QED
    BY <1>1, <1>2, <1>3, <1>4, <1>5, RecordMatched, ReleaseMatched, Agents
    DEF Next, WorkerStep, AllGone

-----------------------------------------------------------------------------
(* What runs in the open pools fits.                                       *)

LEMMA Numbers ==
  ASSUME TypeOK
  PROVE  \A a \in Agent : need[a] \in Nat /\ cap[a] \in Nat
  <1>1. \A a \in Agent : need[a] \in Weights \cup {0} /\ cap[a] \in Capacities \cup {0}
    BY DEF TypeOK
  <1>2. Weights \cup {0} \subseteq Nat /\ Capacities \cup {0} \subseteq Nat
    BY SemaphoreAssumption
  <1>3. QED
    BY <1>1, <1>2

LEMMA HoldersAre ==
  ASSUME Shape
  PROVE  /\ OpenHolders \subseteq Agent /\ IsFiniteSet(OpenHolders)
         /\ \A a \in OpenHolders : need[a] \in Nat
  <1>1. OpenHolders \subseteq Agent /\ OpenHolders \subseteq WorkerAgent
    BY Agents DEF OpenHolders, Holders
  <1>2. IsFiniteSet(WorkerAgent)
    BY FiniteAssumption, FS_Product DEF WorkerAgent
  <1>3. IsFiniteSet(OpenHolders)
    BY <1>1, <1>2, FS_Subset
  <1>4. \A a \in OpenHolders : need[a] \in Nat
    BY <1>1, SemaphoreAssumption DEF OpenHolders, Holders, Shape, Places, PlaceOf
  <1>5. QED
    BY <1>1, <1>3, <1>4

\* Each unit that runs in an open pool has an entry of its own in a state that
\* has what is held, with its process and its weight.
LEMMA OwnEntries ==
  ASSUME Shape, Distinct, Matched, NEW state, Booked(state)
  PROVE  \E f \in [OpenHolders -> AllocId] :
           /\ \A a, b \in OpenHolders : f[a] = f[b] => a = b
           /\ \A a \in OpenHolders : state[f[a]] = [pid |-> a[1], weight |-> need[a]]
  <1>1. PICK g \in [Book -> WorkerAgent] : Matching(g)
    BY DEF Matched
  <1> DEFINE entry(a) == CHOOSE e \in Book : g[e] = a
             f == [a \in OpenHolders |-> IF pc[a] = "record" THEN mine[a] ELSE entry(a)[2].id]
  <1>2. ASSUME NEW a \in OpenHolders
        PROVE  /\ a \in Agent /\ a \in WorkerAgent /\ a[1] \in Proc /\ ~closed[a[1]]
               /\ pc[a] = "record" \/ pc[a] = "held"
    BY <1>2, Agents DEF OpenHolders, Holders
  <1>3. ASSUME NEW a \in OpenHolders, pc[a] = "record"
        PROVE  /\ mine[a] \in AllocId /\ mine[a] # None
               /\ state[mine[a]] = [pid |-> a[1], weight |-> need[a]]
    BY <1>2, <1>3 DEF Shape, TypeOK, Places, PlaceOf, WithId, Booked
  <1>4. ASSUME NEW a \in OpenHolders, pc[a] # "record"
        PROVE  entry(a) \in Book /\ g[entry(a)] = a
    <2>1. \E e \in Book : g[e] = a
      BY <1>1, <1>2, <1>4 DEF Matching
    <2>2. QED
      BY <2>1
  <1> HIDE DEF entry
  <1>5. ASSUME NEW e \in Book
        PROVE  /\ e[1] \in Proc /\ e[2] \in local[e[1]] /\ e = <<e[1], e[2]>>
               /\ e[2].id \in AllocId
               /\ state[e[2].id] = [pid |-> g[e][1], weight |-> need[g[e]]]
    BY <1>1, BookIs DEF Matching, Booked, Shape, TypeOK
  <1>6. \A a \in OpenHolders : f[a] \in AllocId
                                /\ state[f[a]] = [pid |-> a[1], weight |-> need[a]]
    BY <1>3, <1>4, <1>5
  <1>7. ASSUME NEW a \in OpenHolders, NEW b \in OpenHolders, f[a] = f[b] PROVE a = b
    <2>1. CASE pc[a] = "record" /\ pc[b] = "record"
      BY <1>2, <1>3, <1>7, <2>1 DEF Distinct
    <2>2. CASE pc[a] = "record" /\ pc[b] # "record"
      <3>1. PICK e \in Book : e = entry(b) /\ g[e] = b
        BY <1>4, <2>2
      <3>2. mine[a] = e[2].id
        BY <1>7, <2>2, <3>1
      <3>3. e[1] \in Proc /\ e[2] \in local[e[1]]
        BY <1>5
      <3>4. QED
        BY <1>2, <3>2, <3>3 DEF Distinct
    <2>3. CASE pc[a] # "record" /\ pc[b] = "record"
      <3>1. PICK e \in Book : e = entry(a) /\ g[e] = a
        BY <1>4, <2>3
      <3>2. mine[b] = e[2].id
        BY <1>7, <2>3, <3>1
      <3>3. e[1] \in Proc /\ e[2] \in local[e[1]]
        BY <1>5
      <3>4. QED
        BY <1>2, <3>2, <3>3 DEF Distinct
    <2>4. CASE pc[a] # "record" /\ pc[b] # "record"
      <3>1. PICK d \in Book : d = entry(a) /\ g[d] = a
        BY <1>4, <2>4
      <3>2. PICK e \in Book : e = entry(b) /\ g[e] = b
        BY <1>4, <2>4
      <3>3. d[2].id = e[2].id
        BY <1>7, <2>4, <3>1, <3>2
      <3>4. /\ d[1] \in Proc /\ d[2] \in local[d[1]] /\ d = <<d[1], d[2]>>
            /\ e[1] \in Proc /\ e[2] \in local[e[1]] /\ e = <<e[1], e[2]>>
        BY <1>5
      <3>5. d[1] = e[1] /\ d[2] = e[2]
        BY <3>3, <3>4 DEF Distinct
      <3>6. d = e
        BY <3>4, <3>5
      <3>7. QED
        BY <3>1, <3>2, <3>6
    <2>5. QED
      BY <2>1, <2>2, <2>3, <2>4
  <1>8. QED
    <2>1. f \in [OpenHolders -> AllocId]
      BY <1>6
    <2> HIDE DEF f
    <2>2. QED
      BY <1>6, <1>7, <2>1

\* So the sum of the file is no less than what runs.
LEMMA UsedCovers ==
  ASSUME Shape, Distinct, Matched, NEW state \in [AllocId -> Entry \cup {None}],
         Booked(state)
  PROVE  Total(OpenHolders, need) <= Used(state) /\ Used(state) \in Nat
  <1> DEFINE T == Entered(state)
             w == [i \in T |-> state[i].weight]
  <1>1. PICK f \in [OpenHolders -> AllocId] :
           /\ \A a, b \in OpenHolders : f[a] = f[b] => a = b
           /\ \A a \in OpenHolders : state[f[a]] = [pid |-> a[1], weight |-> need[a]]
    BY OwnEntries
  <1>2. IsFiniteSet(T)
    BY FiniteAssumption, FS_Subset DEF Entered
  <1>3. \A a \in OpenHolders : f[a] \in T
    <2>1. \A a \in OpenHolders : need[a] \in Weights /\ a[1] \in Proc
      BY Agents DEF OpenHolders, Holders, Shape, Places, PlaceOf
    <2>2. \A a \in OpenHolders : [pid |-> a[1], weight |-> need[a]] # None
      BY <2>1, NoneAssumption DEF Entry
    <2>3. QED
      BY <1>1, <2>2 DEF Entered
  <1>4. \A i \in T : w[i] \in Nat
    BY SemaphoreAssumption DEF Entered, Entry
  <1>5. \A a \in OpenHolders : need[a] = w[f[a]]
    <2>1. ASSUME NEW a \in OpenHolders PROVE state[f[a]].weight = need[a]
      <3>1. state[f[a]] = [pid |-> a[1], weight |-> need[a]]
        BY <1>1
      <3>2. [pid |-> a[1], weight |-> need[a]].weight = need[a]
        OBVIOUS
      <3>3. QED
        BY <3>1, <3>2
    <2>2. \A i \in T : w[i] = state[i].weight
      OBVIOUS
    <2>3. QED
      BY <1>3, <2>1, <2>2
  <1>6. f \in [OpenHolders -> T]
    BY <1>1, <1>3
  <1>7. Used(state) = Total(T, w)
    BY DEF Used
  <1> HIDE DEF T, w
  <1>8. QED
    BY <1>1, <1>2, <1>4, <1>5, <1>6, <1>7, TotalMatched, TotalType

LEMMA InitFits == Init => Fits
  <1> SUFFICES ASSUME Init PROVE Fits
    OBVIOUS
  <1>1. OpenHolders = {}
    BY Agents DEF Init, OpenHolders, Holders
  <1>2. QED
    BY <1>1 DEF Init, Fits, Fit

\* A step that lets nobody in.
LEMMA FewerFits ==
  ASSUME Shape, Shape', Fits,
         \A a \in OpenHolders' : a \in OpenHolders /\ need'[a] = need[a] /\ cap'[a] = cap[a],
         \A a \in Agent : pc'[a] = "acquireWrite" => /\ pc[a] = "acquireWrite"
                                                     /\ need'[a] = need[a]
                                                     /\ cap'[a] = cap[a]
  PROVE  Fits'
  <1>1. ASSUME NEW agents \in SUBSET OpenHolders' PROVE Fit(agents)'
    <2>1. agents \in SUBSET OpenHolders
      OBVIOUS
    <2>2. Fit(agents)
      BY <2>1 DEF Fits
    <2>3. Total(agents, need') = Total(agents, need)
      BY TotalSame
    <2>4. QED
      BY <2>2, <2>3 DEF Fit
  <1>2. ASSUME NEW a \in Agent, pc'[a] = "acquireWrite"
        PROVE  Total(OpenHolders', need') + need'[a] <= cap'[a]
    <2>1. Total(OpenHolders', need') = Total(OpenHolders', need)
      BY TotalSame
    <2>2. Total(OpenHolders', need) <= Total(OpenHolders, need)
      BY HoldersAre, TotalPart
    <2>3. /\ Total(OpenHolders', need) \in Nat
          /\ Total(OpenHolders, need) \in Nat
      <3>1. IsFiniteSet(OpenHolders')
        BY HoldersAre, FS_Subset
      <3>2. QED
        BY <3>1, HoldersAre, TotalType
    <2>4. need[a] \in Nat /\ cap[a] \in Nat
      BY Numbers DEF Shape
    <2>5. Total(OpenHolders, need) + need[a] <= cap[a] /\ need'[a] = need[a] /\ cap'[a] = cap[a]
      BY <1>2 DEF Fits
    <2>6. QED
      BY <2>1, <2>2, <2>3, <2>4, <2>5
  <1>3. QED
    BY <1>1, <1>2 DEF Fits

LEMMA TryKeepsFits ==
  ASSUME Shape, Shape', Distinct, Books, Matched, Fits, NEW a \in WorkerAgent, TryFits(a)
  PROVE  Fits'
  <1>1. /\ Used(Cleaned(Read)) + need[a] <= cap[a] /\ UNCHANGED <<need, cap, closed>>
        /\ pc[a] = "try" /\ pc' = [pc EXCEPT ![a] = "acquireWrite"] /\ lock' = a
        /\ a \in Agent
    BY Agents DEF TryFits, Locked, Goto, process
  <1>2. Booked(Cleaned(Read))
    BY StateType, CleanedBooked DEF Books, Read, Shape
  <1>3. Total(OpenHolders, need) <= Used(Cleaned(Read)) /\ Used(Cleaned(Read)) \in Nat
    BY <1>2, StateType, UsedCovers DEF Shape
  <1>4. Total(OpenHolders, need) \in Nat /\ need[a] \in Nat /\ cap[a] \in Nat
    BY <1>1, HoldersAre, TotalType, Numbers DEF Shape
  <1>5. Total(OpenHolders, need) + need[a] <= cap[a]
    BY <1>1, <1>3, <1>4
  <1>6. OpenHolders' = OpenHolders
    BY <1>1, Agents DEF OpenHolders, Holders, Shape, TypeOK
  <1>7. \A b \in Agent : pc'[b] = "acquireWrite" => b = a
    BY <1>1 DEF Shape, TypeOK
  <1>8. \A agents : Fit(agents)' <=> Fit(agents)
    BY <1>1 DEF Fit
  <1>9. QED
    BY <1>1, <1>5, <1>6, <1>7, <1>8 DEF Fits

LEMMA WriteKeepsFits ==
  ASSUME Shape, Shape', Fits, NEW a \in Agent, Write(a)
  PROVE  Fits'
  <1>1. /\ UNCHANGED <<need, cap, closed>> /\ lock' = None
        /\ pc' = [pc EXCEPT ![a] = After(a)]
    BY DEF Write, Goto, process
  <1>2. \A b \in Agent \ {a} : pc'[b] = pc[b]
    BY <1>1 DEF Shape, TypeOK
  <1>3. \A b \in Agent : pc'[b] # "acquireWrite"
    BY <1>1, NoneAssumption DEF Shape, TypeOK
  <1>4. CASE pc[a] # "acquireWrite"
    <2>1. pc'[a] \notin {"record", "held"}
      BY <1>1, <1>4 DEF After, Shape, TypeOK
    <2>2. OpenHolders' \subseteq OpenHolders
      BY <1>1, <1>2, <2>1, Agents DEF OpenHolders, Holders
    <2>3. QED
      BY <1>1, <1>3, <2>2, FewerFits
  <1>5. CASE pc[a] = "acquireWrite"
    <2>1. OpenHolders' \subseteq OpenHolders \cup {a} /\ a \notin OpenHolders
      BY <1>1, <1>2, <1>5, Agents DEF OpenHolders, Holders
    <2>2. ASSUME NEW agents \in SUBSET OpenHolders' PROVE Fit(agents)'
      <3>1. CASE a \notin agents
        <4>1. agents \in SUBSET OpenHolders
          BY <2>1, <3>1
        <4>2. Fit(agents)
          BY <4>1 DEF Fits
        <4>3. QED
          BY <1>1, <4>2 DEF Fit
      <3>2. CASE a \in agents
        <4> DEFINE others == agents \ {a}
        <4>1. others \in SUBSET OpenHolders /\ agents = others \cup {a} /\ a \notin others
          BY <2>1, <3>2
        <4>2. IsFiniteSet(others)
          BY <4>1, HoldersAre, FS_Subset
        <4>3. need[a] \in Nat /\ cap[a] \in Nat
          BY Numbers DEF Shape
        <4> HIDE DEF others
        <4>4. Total(agents, need) = Total(others, need) + need[a]
          <5>1. \A b \in others \cup {a} : need[b] \in Nat
            BY <4>1, <4>3, HoldersAre
          <5>2. QED
            BY <4>1, <4>2, <5>1, TotalAdd
        <4>5. Total(others, need) <= Total(OpenHolders, need)
          BY <4>1, HoldersAre, TotalPart
        <4>6. Total(others, need) \in Nat /\ Total(OpenHolders, need) \in Nat
          BY <4>1, <4>2, HoldersAre, TotalType
        <4>7. Total(OpenHolders, need) + need[a] <= cap[a]
          BY <1>5 DEF Fits
        <4>8. Total(agents, need) <= cap[a]
          BY <4>3, <4>4, <4>5, <4>6, <4>7
        <4>9. QED
          BY <1>1, <3>2, <4>8 DEF Fit
      <3>3. QED
        BY <3>1, <3>2
    <2>3. QED
      BY <1>3, <2>2 DEF Fits
  <1>6. QED
    BY <1>4, <1>5

LEMMA StepFits ==
  ASSUME Shape, Shape', Distinct, Books, Matched, Fits, [Next]_vars
  PROVE  Fits'
  <1>1. ASSUME NEW p \in Proc,
               Boot(p) \/ CleanStale(p) \/ Close(p) \/ CloseNext(p) \/ SetCapacity(p)
        PROVE  Fits'
    <2>1. UNCHANGED <<need, cap>>
      BY <1>1 DEF Boot, CleanStale, Close, CloseNext, SetCapacity
    <2>2. \A a \in Agent : /\ a # <<p, Main>> => pc'[a] = pc[a]
                           /\ pc'[a] # pc[a] => pc'[a] # "acquireWrite"
      <3> DEFINE m == <<p, Main>>
      <3>1. m \in Agent /\ pc \in [Agent -> Labels]
        BY Agents DEF Shape, TypeOK
      <3>2. UNCHANGED pc \/ \E label \in Labels \ {"acquireWrite"} :
                                pc' = [pc EXCEPT ![m] = label]
        BY <1>1 DEF Boot, CleanStale, Close, CloseNext, SetCapacity, Goto, Locked, Labels
      <3> HIDE DEF m
      <3>3. \A a \in Agent : /\ a # m => pc'[a] = pc[a]
                             /\ pc'[a] # pc[a] => pc'[a] # "acquireWrite"
        BY <3>1, <3>2
      <3>4. QED
        BY <3>3 DEF m
    <2>3. \A q \in Proc : closed[q] => closed'[q]
      BY <1>1 DEF Boot, CleanStale, Close, CloseNext, SetCapacity, process, Shape, TypeOK
    <2>4. OpenHolders' \subseteq OpenHolders
      <3>1. \A a \in WorkerAgent : a \in Agent /\ a # <<p, Main>> /\ a[1] \in Proc
        BY Agents
      <3>2. QED
        BY <2>2, <2>3, <3>1 DEF OpenHolders, Holders
    <2>5. QED
      BY <2>1, <2>2, <2>4, FewerFits
  <1>2. ASSUME NEW p \in Proc, Exit(p) \/ Crash(p) PROVE Fits'
    <2>1. Gone(p)
      BY <1>2 DEF Exit, Crash
    <2>2. \A q \in Proc : closed[q] => closed'[q]
      BY <1>2 DEF Exit, Crash, Shape, TypeOK
    <2>3. \A a \in OpenHolders' : a \in OpenHolders /\ need'[a] = need[a] /\ cap'[a] = cap[a]
      BY <2>1, <2>2, GoneType, Agents DEF OpenHolders, Holders
    <2>4. QED
      BY <2>1, <2>3, GoneType, FewerFits
  <1>3. ASSUME NEW a \in Agent,
               Acquire(a) \/ Record(a) \/ Release(a) \/ Unrecord(a) \/ LockFails(a)
        PROVE  Fits'
    <2>1. UNCHANGED closed /\ \A b \in Agent \ {a} : /\ pc'[b] = pc[b]
                                                    /\ need'[b] = need[b] /\ cap'[b] = cap[b]
      BY <1>3 DEF Acquire, Record, Release, Unrecord, LockFails, Locked, Goto, process,
                  Shape, TypeOK
    <2>2. /\ pc'[a] # "acquireWrite"
          /\ pc'[a] \in {"record", "held"} => pc[a] = "record" /\ UNCHANGED <<need, cap>>
      BY <1>3 DEF Acquire, Record, Release, Unrecord, LockFails, Locked, Goto, Shape, TypeOK
    <2>3. \A b \in OpenHolders' : b \in OpenHolders /\ need'[b] = need[b] /\ cap'[b] = cap[b]
      BY <2>1, <2>2, Agents DEF OpenHolders, Holders
    <2>4. QED
      BY <2>1, <2>2, <2>3, FewerFits
  <1>4. CASE UNCHANGED vars
    BY <1>4, FewerFits DEF vars, OpenHolders, Holders
  <1>5. QED
    BY <1>1, <1>2, <1>3, <1>4, TryKeepsFits, WriteKeepsFits, Agents
    DEF Next, WorkerStep, AgentStep, AllGone

-----------------------------------------------------------------------------
(* Without torn writes.                                                    *)

\* What holds of the pool as long as every write is whole.
Kept == Shape /\ Distinct /\ Books /\ Matched /\ Fits

LEMMA PoolKept ==
  ASSUME ~TornWrites
  PROVE  Spec => []Kept
  <1>1. Init => Kept
    BY InitShape, InitDistinct, InitBooks, InitMatched, InitFits DEF Kept
  <1>2. ASSUME Kept, [Next]_vars PROVE Kept'
    <2>1. Shape'
      BY <1>2, StepShape DEF Kept
    <2>2. QED
      BY <1>2, <2>1, StepDistinct, StepBooks, StepMatched, StepFits DEF Kept
  <1>3. QED
    BY <1>1, <1>2, PTL DEF Spec

\* As long as no write is torn, what the processes that did not close run at a
\* time fits the capacity one of those units was measured against, for any
\* interleaving of polls, releases that swap allocations, stale cleaning, crashes,
\* failing locks and resizes (tryAcquireInternal, cleanStaleFromState, Release).
THEOREM PoolsFit == ASSUME ~TornWrites PROVE Spec => []OpenPoolsFit
  <1>1. ASSUME Kept PROVE OpenPoolsFit
    <2>1. Fit(OpenHolders)
      BY <1>1 DEF Kept, Fits
    <2>2. QED
      BY <2>1 DEF OpenPoolsFit, OpenHolders
  <1>2. QED
    BY <1>1, PoolKept, PTL

\* As long as no write is torn, what a process runs it has on file, weight for
\* weight, up to its Close (Acquire, Release, releaseInternal, writeState).
THEOREM HoldersOnFile == ASSUME ~TornWrites PROVE Spec => []HoldersRecorded
  <1>1. ASSUME Kept, NEW p \in Proc, life[p] = "live", ~closed[p], NEW n \in Weights
        PROVE  Cardinality({a \in Holders : a[1] = p /\ need[a] = n})
                 <= Cardinality({i \in AllocId : Read[i] = [pid |-> p, weight |-> n]})
    <2> DEFINE A == {a \in Holders : a[1] = p /\ need[a] = n}
               I == {i \in AllocId : Read[i] = [pid |-> p, weight |-> n]}
    <2>1. Read = file
      BY <1>1 DEF Kept, Books, Read
    <2>2. PICK f \in [OpenHolders -> AllocId] :
             /\ \A a, b \in OpenHolders : f[a] = f[b] => a = b
             /\ \A a \in OpenHolders : Read[f[a]] = [pid |-> a[1], weight |-> need[a]]
      BY <1>1, <2>1, OwnEntries DEF Kept, Books
    <2>3. A \subseteq OpenHolders
      BY <1>1 DEF OpenHolders
    <2> DEFINE h == [a \in A |-> f[a]]
    <2>4. h \in [A -> I] /\ \A a, b \in A : h[a] = h[b] => a = b
      BY <2>2, <2>3
    <2>5. IsFiniteSet(I)
      BY FiniteAssumption, FS_Subset
    <2> HIDE DEF A, I, h
    <2>6. h \in Injection(A, I)
      BY <2>4 DEF Injection, IsInjective
    <2>7. Cardinality(A) <= Cardinality(I)
      BY <2>5, <2>6, FS_Injection
    <2>8. QED
      BY <2>7 DEF A, I
  <1>2. Kept => HoldersRecorded
    BY <1>1 DEF HoldersRecorded
  <1>3. QED
    BY <1>2, PoolKept, PTL

-----------------------------------------------------------------------------
(* Nothing is left behind.                                                 *)

LEMMA InitClean == Init => Clean
  BY Agents DEF Init, Clean, Known, Entered, Read, Empty

\* Nothing that is known of is forgotten by who lives.
Kind ==
  \A p \in Proc : /\ life[p] = "dead" => life'[p] = "dead"
                  /\ \A i \in AllocId : Owned(p, i) => Owned(p, i)' \/ life'[p] = "dead"

LEMMA KindKnown ==
  ASSUME Kind, NEW state \in [AllocId -> Entry \cup {None}], Known(state)
  PROVE  Known(state)'
  <1>1. \A i \in Entered(state) : i \in AllocId /\ state[i].pid \in Proc
    BY DEF Entered, Entry
  <1>2. QED
    BY <1>1 DEF Kind, Known, Entered

\* A state with fewer entries is known of as well.
LEMMA PartKnown ==
  ASSUME NEW state, Known(state), NEW part,
         \A i \in Entered(part) : i \in Entered(state) /\ part[i] = state[i]
  PROVE  Known(part)
  BY DEF Known

LEMMA KindClean ==
  ASSUME Shape, Shape', Clean, Kind, UNCHANGED <<disk, lock, pending>>,
         \A a \in Agent : pc'[a] = "releaseWrite" => /\ pc[a] = "releaseWrite"
                                                     /\ mine'[a] = mine[a]
  PROVE  Clean'
  <1>1. Read' = Read /\ Read \in [AllocId -> Entry \cup {None}]
    BY StateType DEF Read, disk, Shape
  <1>2. Known(Read)'
    <2>1. \A state \in [AllocId -> Entry \cup {None}] : Known(state) => Known(state)'
      BY KindKnown
    <2>2. QED
      BY <1>1, <2>1 DEF Clean, Known, Entered, Owned
  <1>3. lock # None => Known(pending)'
    <2>1. pending \in [AllocId -> Entry \cup {None}] /\ pending' = pending
      BY DEF Shape, TypeOK
    <2>2. \A state \in [AllocId -> Entry \cup {None}] : Known(state) => Known(state)'
      BY KindKnown
    <2>3. QED
      BY <2>1, <2>2 DEF Clean, Known, Entered, Owned
  <1>4. QED
    BY <1>2, <1>3 DEF Clean

LEMMA LockedClean ==
  ASSUME Shape, Shape', Clean, Kind, NEW a \in Agent, NEW label \in Writing,
         NEW state \in [AllocId -> Entry \cup {None}], Locked(a, state, label),
         Known(state)', label = "releaseWrite" => state[mine'[a]] = None
  PROVE  Clean'
  <1>1. /\ lock' = a /\ pending' = state /\ UNCHANGED disk /\ pc'[a] = label
    BY DEF Locked, Goto, Shape, TypeOK
  <1>2. Known(Read)'
    <2>1. Read' = Read /\ Read \in [AllocId -> Entry \cup {None}]
      BY <1>1, StateType DEF Read, disk, Shape
    <2>2. \A s \in [AllocId -> Entry \cup {None}] : Known(s) => Known(s)'
      BY KindKnown
    <2>3. QED
      BY <2>1, <2>2 DEF Clean, Known, Entered, Owned
  <1>3. Known(pending)'
    BY <1>1 DEF Known, Entered, Owned
  <1>4. \A b \in Agent : pc'[b] = "releaseWrite" => b = a
    BY <1>1 DEF Shape, TypeOK
  <1>5. QED
    BY <1>1, <1>2, <1>3, <1>4 DEF Clean

LEMMA CleanedKnown == Known(Read) => Known(Cleaned(Read))
  <1>1. \A i \in Entered(Cleaned(Read)) : i \in Entered(Read) /\ Cleaned(Read)[i] = Read[i]
    BY DEF Entered, Cleaned
  <1>2. QED
    BY <1>1, PartKnown

LEMMA SameKind ==
  ASSUME UNCHANGED <<local, toClose, mine>>,
         \A p \in Proc : life[p] = "dead" => life'[p] = "dead"
  PROVE  Kind
  BY DEF Kind, Owned

LEMMA CloseKind ==
  ASSUME Shape, NEW p \in Proc, Close(p) \/ CloseNext(p)
  PROVE  Kind
  <1> DEFINE m == <<p, Main>>
  <1>1. m \in Agent /\ m[1] = p /\ UNCHANGED life
    BY Agents DEF Close, CloseNext
  <1>2. CASE Close(p)
    <2>1. /\ toClose'[p] = {r.id : r \in local[p]}
          /\ \A q \in Proc \ {p} : toClose'[q] = toClose[q] /\ local'[q] = local[q]
          /\ UNCHANGED mine
      BY <1>2 DEF Close, Shape, TypeOK
    <2>2. toClose[p] = {}
      BY <1>2 DEF Close, Shape, Places
    <2>3. \A q \in Proc, i \in AllocId : Owned(q, i) => Owned(q, i)'
      BY <2>1, <2>2 DEF Owned
    <2>4. QED
      BY <1>1, <2>3 DEF Kind
  <1>3. CASE CloseNext(p)
    <2>1. PICK i \in toClose[p] : /\ toClose' = [toClose EXCEPT ![p] = @ \ {i}]
                                 /\ mine' = [mine EXCEPT ![m] = i]
      BY <1>3 DEF CloseNext
    <2>2. /\ toClose'[p] = toClose[p] \ {i}
          /\ \A q \in Proc \ {p} : toClose'[q] = toClose[q]
          /\ mine'[m] = i /\ \A a \in Agent \ {m} : mine'[a] = mine[a]
          /\ UNCHANGED local
      BY <1>1, <1>3, <2>1 DEF CloseNext, Shape, TypeOK
    <2>3. mine[m] = None
      BY <1>1, <1>3 DEF CloseNext, Shape, Places, PlaceOf, WithId
    <2> HIDE DEF m
    <2>4. \A q \in Proc, j \in AllocId : Owned(q, j) => Owned(q, j)'
      BY <1>1, <2>2, <2>3, NoneAssumption DEF Owned
    <2>5. QED
      BY <1>1, <2>4 DEF Kind
  <1>4. QED
    BY <1>2, <1>3

LEMMA GoneKind ==
  ASSUME Shape, NEW p \in Proc, Gone(p)
  PROVE  Kind
  <1>1. life'[p] = "dead" /\ \A q \in Proc \ {p} : life'[q] = life[q]
    BY GoneType DEF Shape, TypeOK
  <1>2. \A q \in Proc \ {p} : local'[q] = local[q] /\ toClose'[q] = toClose[q]
    BY GoneType DEF Shape, TypeOK
  <1>3. \A a \in Agent : a[1] # p => mine'[a] = mine[a]
    BY GoneType
  <1>4. \A q \in Proc \ {p}, i \in AllocId : Owned(q, i) => Owned(q, i)'
    BY <1>2, <1>3 DEF Owned
  <1>5. QED
    BY <1>1, <1>4 DEF Kind

LEMMA RunKind ==
  ASSUME Shape, NEW a \in WorkerAgent, TryFits(a) \/ Record(a) \/ Release(a)
  PROVE  Kind
  <1> DEFINE p == a[1]
  <1>1. a \in Agent /\ p \in Proc /\ UNCHANGED <<life, toClose>>
    BY Agents DEF TryFits, Record, Release, process
  <1>2. CASE TryFits(a)
    <2>1. mine[a] = None
      BY <1>1, <1>2 DEF TryFits, Shape, Places, PlaceOf, WithId
    <2>2. (\A b \in Agent \ {a} : mine'[b] = mine[b]) /\ UNCHANGED local
      BY <1>1, <1>2 DEF TryFits, Shape, TypeOK
    <2>3. \A q \in Proc, j \in AllocId : Owned(q, j) => Owned(q, j)'
      BY <1>1, <2>1, <2>2, NoneAssumption DEF Owned
    <2>4. QED
      BY <1>1, <2>3 DEF Kind
  <1>3. CASE Record(a)
    <2> DEFINE r == [id |-> mine[a], weight |-> need[a]]
    <2>1. /\ local'[p] = local[p] \cup {r} /\ \A q \in Proc \ {p} : local'[q] = local[q]
          /\ \A b \in Agent \ {a} : mine'[b] = mine[b]
      BY <1>1, <1>3 DEF Record, Shape, TypeOK
    <2>2. r.id = mine[a]
      OBVIOUS
    <2> HIDE DEF r
    <2>3. \A q \in Proc, j \in AllocId : Owned(q, j) => Owned(q, j)'
      BY <1>1, <2>1, <2>2 DEF Owned
    <2>4. QED
      BY <1>1, <2>3 DEF Kind
  <1>4. CASE Release(a)
    <2>1. mine[a] = None
      BY <1>1, <1>4 DEF Release, Shape, Places, PlaceOf, WithId
    <2>2. CASE UNCHANGED <<local, mine>>
      BY <1>1, <2>2, SameKind
    <2>3. ASSUME NEW r \in local[p], local' = [local EXCEPT ![p] = @ \ {r}],
                 mine' = [mine EXCEPT ![a] = r.id]
          PROVE  Kind
      <3>1. /\ local'[p] = local[p] \ {r} /\ \A q \in Proc \ {p} : local'[q] = local[q]
            /\ mine'[a] = r.id /\ \A b \in Agent \ {a} : mine'[b] = mine[b]
        BY <1>1, <2>3 DEF Shape, TypeOK
      <3>2. ASSUME NEW q \in Proc, NEW j \in AllocId, Owned(q, j) PROVE Owned(q, j)'
        <4>1. CASE \E s \in local[q] : s.id = j
          <5>1. PICK s \in local[q] : s.id = j
            BY <4>1
          <5>2. CASE q = p /\ s = r
            BY <1>1, <3>1, <5>1, <5>2 DEF Owned
          <5>3. CASE ~(q = p /\ s = r)
            <6>1. s \in local'[q]
              BY <3>1, <5>3
            <6>2. QED
              BY <5>1, <6>1 DEF Owned
          <5>4. QED
            BY <5>2, <5>3
        <4>2. CASE j \in toClose[q]
          BY <1>1, <4>2 DEF Owned
        <4>3. ASSUME NEW b \in Agent, b[1] = q, mine[b] = j PROVE Owned(q, j)'
          <5>1. b # a
            BY <2>1, <4>3, NoneAssumption
          <5>2. QED
            BY <3>1, <4>3, <5>1 DEF Owned
        <4>4. QED
          BY <3>2, <4>1, <4>2, <4>3 DEF Owned
      <3>3. QED
        BY <1>1, <3>2 DEF Kind
    <2>4. QED
      BY <1>4, <2>2, <2>3 DEF Release
  <1>5. QED
    BY <1>2, <1>3, <1>4

LEMMA TryClean ==
  ASSUME Shape, Shape', Clean, NEW a \in WorkerAgent, TryFits(a)
  PROVE  Clean'
  <1> DEFINE entry == [pid |-> a[1], weight |-> need[a]]
  <1>1. PICK i \in AllocId :
          /\ Fresh(i)
          /\ mine' = [mine EXCEPT ![a] = i]
          /\ Locked(a, [Cleaned(Read) EXCEPT ![i] = entry], "acquireWrite")
    BY DEF TryFits
  <1> DEFINE state == [Cleaned(Read) EXCEPT ![i] = entry]
  <1>2. a \in Agent /\ a[1] \in Proc /\ need[a] \in Weights
    BY Agents DEF TryFits, Shape, Places, PlaceOf
  <1>3. entry \in Entry /\ entry.pid = a[1]
    BY <1>2 DEF Entry
  <1> HIDE DEF entry
  <1>4. /\ state \in [AllocId -> Entry \cup {None}]
        /\ \A j \in AllocId : state[j] = IF j = i THEN entry ELSE Cleaned(Read)[j]
    BY <1>3, StateType DEF Shape
  <1> HIDE DEF state
  <1>5. Kind
    BY RunKind
  <1>6. Known(Cleaned(Read))'
    <2>1. Known(Cleaned(Read)) /\ Cleaned(Read) \in [AllocId -> Entry \cup {None}]
      BY CleanedKnown, StateType DEF Clean, Shape
    <2>2. Cleaned(Read)' = Cleaned(Read)
      BY <1>1 DEF Locked, disk, Read, Cleaned, TryFits, process
    <2>3. \A s \in [AllocId -> Entry \cup {None}] : Known(s) => Known(s)'
      BY <1>5, KindKnown
    <2>4. QED
      BY <2>1, <2>2, <2>3 DEF Known, Entered, Owned
  <1>7. Cleaned(Read)' = Cleaned(Read)
    BY <1>1 DEF Locked, disk, Read, Cleaned, TryFits, process
  <1>8. PICK s \in [AllocId -> Entry \cup {None}] : s = state
    BY <1>4
  <1>9. \A j \in AllocId : s[j] = IF j = i THEN entry ELSE Cleaned(Read)[j]
    BY <1>4, <1>8
  <1>10. Known(s)'
    <2>1. mine'[a] = i
      BY <1>1, <1>2 DEF Shape, TypeOK
    <2>2. ASSUME NEW j \in Entered(s)
          PROVE  (life[s[j].pid] = "dead" \/ Owned(s[j].pid, j))'
      <3>1. j \in AllocId /\ s[j] # None
        BY DEF Entered
      <3>2. CASE j = i
        <4>1. s[j].pid = a[1]
          BY <1>3, <1>9, <3>1, <3>2
        <4>2. QED
          BY <1>2, <2>1, <3>2, <4>1 DEF Owned
      <3>3. CASE j # i
        <4>1. j \in Entered(Cleaned(Read)) /\ s[j] = Cleaned(Read)[j]
          BY <1>9, <3>1, <3>3 DEF Entered
        <4>2. QED
          BY <1>6, <1>7, <4>1 DEF Known, Entered
      <3>4. QED
        BY <3>2, <3>3
    <2>3. QED
      BY <2>2 DEF Known, Entered
  <1>11. "acquireWrite" \in Writing /\ Locked(a, s, "acquireWrite")
    BY <1>1, <1>8 DEF Writing, state
  <1>12. QED
    BY <1>2, <1>5, <1>10, <1>11, LockedClean

LEMMA CleanStaleClean ==
  ASSUME Shape, Shape', Clean, NEW p \in Proc, CleanStale(p)
  PROVE  Clean'
  <1> DEFINE m == <<p, Main>>
             state == Cleaned(Read)
  <1>1. m \in Agent /\ "cleanWrite" \in Writing
    BY Agents DEF Writing
  <1>2. Locked(m, state, "cleanWrite") /\ UNCHANGED <<local, toClose, mine, life>>
    BY DEF CleanStale, process
  <1>3. Known(state) /\ state \in [AllocId -> Entry \cup {None}]
    BY CleanedKnown, StateType DEF Clean, Shape
  <1>4. Kind
    BY <1>2, SameKind
  <1>5. PICK s \in [AllocId -> Entry \cup {None}] : s = state
    BY <1>3
  <1> HIDE DEF m, state
  <1>6. Known(s)'
    <2>1. Known(s)
      BY <1>3, <1>5
    <2>2. QED
      BY <1>4, <2>1, KindKnown
  <1>7. Locked(m, s, "cleanWrite")
    BY <1>2, <1>5
  <1>8. QED
    BY <1>1, <1>4, <1>6, <1>7, LockedClean

LEMMA UnrecordClean ==
  ASSUME Shape, Shape', Clean, NEW a \in Agent, Unrecord(a)
  PROVE  Clean'
  <1> DEFINE state == [Read EXCEPT ![mine[a]] = None]
  <1>1. /\ Locked(a, state, "releaseWrite") /\ UNCHANGED <<local, toClose, mine, life>>
        /\ pc[a] = "release" /\ "releaseWrite" \in Writing
    BY DEF Unrecord, Writing, process
  <1>2. mine[a] \in AllocId
    BY <1>1 DEF Shape, TypeOK, Places, PlaceOf, WithId
  <1>3. /\ state \in [AllocId -> Entry \cup {None}] /\ state[mine[a]] = None
        /\ \A j \in AllocId : j # mine[a] => state[j] = Read[j]
    BY <1>2, StateType DEF Shape
  <1>4. PICK s \in [AllocId -> Entry \cup {None}] : s = state
    BY <1>3
  <1> HIDE DEF state
  <1>5. Known(s)
    <2>1. \A j \in Entered(s) : j \in Entered(Read) /\ s[j] = Read[j]
      BY <1>3, <1>4 DEF Entered
    <2>2. QED
      BY <2>1, PartKnown DEF Clean
  <1>6. Kind
    BY <1>1, SameKind
  <1>7. Known(s)'
    BY <1>5, <1>6, KindKnown
  <1>8. Locked(a, s, "releaseWrite") /\ s[mine'[a]] = None
    BY <1>1, <1>3, <1>4
  <1>9. QED
    BY <1>1, <1>6, <1>7, <1>8, LockedClean

LEMMA WriteClean ==
  ASSUME Shape, Shape', Clean, NEW a \in Agent, Write(a)
  PROVE  Clean'
  <1>1. /\ lock = a /\ lock' = None
        /\ UNCHANGED <<local, toClose, life>>
        /\ mine' = [mine EXCEPT ![a] = IF pc[a] = "acquireWrite" THEN mine[a] ELSE None]
    BY DEF Write, process
  <1>2. Known(pending) /\ (Read' = pending \/ Read' = Empty)
    <2>1. lock # None
      BY <1>1, NoneAssumption
    <2>2. QED
      BY <1>1, <2>1 DEF Clean, Read, Write
  <1>3. \A b \in Agent : mine'[b] = mine[b] \/ (b = a /\ pc[a] # "acquireWrite")
    <2>1. mine \in [Agent -> AllocId \cup {None}]
      BY DEF Shape, TypeOK
    <2>2. \A b \in Agent \ {a} : mine'[b] = mine[b]
      BY <1>1, <2>1
    <2>3. pc[a] = "acquireWrite" => mine'[a] = mine[a]
      BY <1>1, <2>1
    <2>4. QED
      BY <2>2, <2>3
  <1>4. \A b \in Agent : pc'[b] # "releaseWrite"
    BY <1>1, NoneAssumption DEF Shape, TypeOK
  <1>5. pc[a] = "cleanWrite" \/ pc[a] = "acquireWrite" \/ pc[a] = "releaseWrite"
    BY <1>1 DEF Shape, TypeOK
  <1>6. PICK s : s = Read'
    OBVIOUS
  <1>11. \A i \in Entered(s) : i \in Entered(pending) /\ s[i] = pending[i]
    BY <1>2, <1>6 DEF Entered, Empty
  <1>7. pc[a] # "acquireWrite" => \A i \in Entered(s) : mine[a] # i
    <2>1. \A i \in Entered(s) : i \in AllocId /\ i # None /\ pending[i] # None
      BY <1>11, NoneAssumption DEF Entered
    <2>2. CASE pc[a] = "cleanWrite"
      <3>1. mine[a] = None
        BY <2>2 DEF Shape, Places, PlaceOf, WithId
      <3>2. QED
        BY <2>1, <3>1
    <2>3. CASE pc[a] = "releaseWrite"
      BY <2>1, <2>3 DEF Clean
    <2>4. QED
      BY <1>5, <2>2, <2>3
  <1>8. ASSUME NEW i \in Entered(s) PROVE (life[s[i].pid] = "dead" \/ Owned(s[i].pid, i))'
    <2>1. CASE life[s[i].pid] = "dead"
      BY <1>1, <2>1
    <2>2. CASE Owned(s[i].pid, i)
      BY <1>1, <1>3, <1>7, <2>2 DEF Owned
    <2>3. QED
      BY <1>2, <1>11, <2>1, <2>2 DEF Known
  <1>9. Known(Read)'
    BY <1>6, <1>8 DEF Known, Entered
  <1>10. QED
    BY <1>1, <1>4, <1>9 DEF Clean

\* Crash and Exit.
LEMMA GoneClean ==
  ASSUME Shape, Shape', Clean, NEW p \in Proc, Exit(p) \/ Crash(p)
  PROVE  Clean'
  <1>1. Gone(p)
    BY DEF Exit, Crash
  <1>2. Kind
    BY <1>1, GoneKind
  <1>3. \A a \in Agent : pc'[a] = "releaseWrite" => pc[a] = "releaseWrite" /\ mine'[a] = mine[a]
    BY <1>1, GoneType
  <1>4. CASE UNCHANGED <<disk, lock, pending>>
    BY <1>2, <1>3, <1>4, KindClean
  <1>5. ASSUME lock # None, lock' = None, Read' \in {Read, pending, Empty} PROVE Clean'
    <2>1. PICK s : s = Read'
      OBVIOUS
    <2>2. s \in [AllocId -> Entry \cup {None}] /\ Known(s)
      <3>1. Known(Empty)
        BY EmptyState DEF Known, Entered
      <3>2. QED
        BY <1>5, <2>1, <3>1, StateType, EmptyState DEF Clean, Shape, TypeOK
    <2>3. Known(s)'
      BY <1>2, <2>2, KindKnown
    <2>4. Known(Read)'
      BY <2>1, <2>3 DEF Known, Entered, Owned
    <2>5. \A b \in Agent : pc'[b] # "releaseWrite"
      BY <1>5, NoneAssumption DEF Shape, TypeOK
    <2>6. QED
      BY <1>5, <2>4, <2>5 DEF Clean
  <1>6. QED
    BY <1>4, <1>5 DEF Exit, Crash, disk, Read, Empty

LEMMA StepClean ==
  ASSUME Shape, Shape', Clean, ~LockErrors, [Next]_vars
  PROVE  Clean'
  <1>1. ASSUME NEW p \in Proc, Boot(p) \/ Close(p) \/ CloseNext(p) \/ SetCapacity(p)
        PROVE  Clean'
    <2> DEFINE m == <<p, Main>>
    <2>1. Kind
      <3>1. CASE Boot(p) \/ SetCapacity(p)
        BY <3>1, SameKind DEF Boot, SetCapacity, Shape, TypeOK
      <3>2. QED
        BY <1>1, <3>1, CloseKind
    <2>2. UNCHANGED <<disk, lock, pending>>
      BY <1>1 DEF Boot, Close, CloseNext, SetCapacity
    <2>3. \A a \in Agent : pc'[a] = "releaseWrite" => pc[a] = "releaseWrite" /\ mine'[a] = mine[a]
      <3>1. m \in Agent
        BY Agents
      <3>2. \A a \in Agent : pc'[a] = "releaseWrite" => pc[a] = "releaseWrite"
        <4>1. \/ UNCHANGED pc
              \/ \E label \in {"clean", "closing", "release"} : pc' = [pc EXCEPT ![m] = label]
          BY <1>1 DEF Boot, Close, CloseNext, SetCapacity, Goto
        <4>2. pc \in [Agent -> Labels]
          BY DEF Shape, TypeOK
        <4>3. QED
          BY <4>1, <4>2
      <3>3. \A a \in Agent \ {m} : mine'[a] = mine[a]
        BY <1>1, <3>1 DEF Boot, Close, CloseNext, SetCapacity, Shape, TypeOK
      <3>4. CASE CloseNext(p)
        <4>1. pc'[m] = "release"
          BY <3>1, <3>4 DEF CloseNext, Goto, Shape, TypeOK
        <4>2. QED
          BY <3>2, <3>3, <4>1
      <3>5. CASE Boot(p) \/ Close(p) \/ SetCapacity(p)
        BY <3>2, <3>5 DEF Boot, Close, SetCapacity
      <3>6. QED
        BY <1>1, <3>4, <3>5
    <2>4. QED
      BY <2>1, <2>2, <2>3, KindClean
  <1>2. ASSUME NEW a \in WorkerAgent, Acquire(a) \/ Record(a) \/ Release(a) PROVE Clean'
    <2>1. Kind
      <3>1. CASE Acquire(a)
        BY <3>1, SameKind DEF Acquire, process
      <3>2. QED
        BY <1>2, <3>1, RunKind
    <2>2. UNCHANGED <<disk, lock, pending>>
      BY <1>2 DEF Acquire, Record, Release
    <2>3. \A b \in Agent : pc'[b] = "releaseWrite" => pc[b] = "releaseWrite" /\ mine'[b] = mine[b]
      BY <1>2 DEF Acquire, Record, Release, Goto, Shape, TypeOK
    <2>4. QED
      BY <2>1, <2>2, <2>3, KindClean
  <1>3. CASE UNCHANGED vars
    <2>1. Kind
      BY <1>3, SameKind DEF vars
    <2>2. QED
      BY <1>3, <2>1, KindClean DEF vars, disk
  <1>4. ASSUME NEW a \in Agent PROVE ~LockFails(a)
    BY DEF LockFails
  <1>5. QED
    BY <1>1, <1>2, <1>3, <1>4, TryClean, CleanStaleClean, UnrecordClean, WriteClean, GoneClean
    DEF Next, WorkerStep, AgentStep, AllGone

\* As long as no flock fails, torn writes or not, a process that ends of itself once
\* its Close is done leaves nothing in the file (Close, Release, releaseInternal).
THEOREM ExitLeavesNothing == ASSUME ~LockErrors PROVE Spec => ExitsClean
  <1> DEFINE Tidy == Shape /\ Distinct /\ Matched /\ Clean
  <1>1. Init => Tidy
    BY InitShape, InitDistinct, InitMatched, InitClean
  <1>2. ASSUME Tidy, [Next]_vars PROVE Tidy'
    <2>1. Shape'
      BY <1>2, StepShape
    <2>2. QED
      BY <1>2, <2>1, StepDistinct, StepMatched, StepClean
  <1>3. ASSUME Tidy, NEW p \in Proc, Exit(p), NEW i \in AllocId
        PROVE  Read[i] = None \/ Read[i].pid # p
    <2> DEFINE m == <<p, Main>>
    <2>1. /\ life[p] = "live" /\ pc[m] = "closing" /\ toClose[p] = {}
          /\ \A w \in Worker : pc[<<p, w>>] = "idle"
      BY <1>3 DEF Exit
    <2>2. \A a \in Agent : a[1] = p => pc[a] \in {"closing", "idle"}
      BY <2>1, Agents
    <2>3. \A a \in Agent : a[1] = p => mine[a] = None
      BY <1>3, <2>2 DEF Shape, Places, PlaceOf, WithId
    <2>4. local[p] = {}
      <3>1. PICK g \in [Book -> WorkerAgent] : Matching(g)
        BY <1>3 DEF Matched
      <3>2. ASSUME NEW r \in local[p] PROVE FALSE
        <4>1. <<p, r>> \in Book /\ <<p, r>>[1] = p
          BY <1>3, BookIs DEF Shape, TypeOK
        <4>2. g[<<p, r>>] \in Agent /\ g[<<p, r>>][1] = p /\ pc[g[<<p, r>>]] = "held"
          BY <3>1, <4>1, Agents DEF Matching
        <4>3. QED
          BY <2>2, <4>2
      <3>3. QED
        BY <3>2
    <2>5. ~Owned(p, i)
      BY <2>1, <2>3, <2>4, NoneAssumption DEF Owned
    <2>6. QED
      BY <1>3, <2>1, <2>5 DEF Clean, Known, Entered
  <1>4. Tidy => \A p \in Proc : Exit(p) => \A i \in AllocId : Read[i] = None \/ Read[i].pid # p
    BY <1>3
  <1> HIDE DEF Tidy
  <1>5. QED
    BY <1>1, <1>2, <1>4, PTL DEF Spec, ExitsClean
=============================================================================
