----------------------------- MODULE UnitLock_proofs -----------------------------
(***************************************************************************)
(* Proofs about UnitLock, for any number of acquirers and inodes.          *)
(***************************************************************************)
EXTENDS UnitLock, TLAPS

\* Holders have the flock of the file they have open, the registry names no
\* others, and nobody is registered as waiting who does not.
Held ==
  /\ \A a \in Acquirer : pc[a] \in {"held", "unlock"} => owner[fd[a]] = a
  /\ \A a \in held : pc[a] = "held"
  /\ \A a \in waiting : pc[a] \in {"poll", "pollOpen", "wait"}

\* Every open file is the one the name refers to.
Linked == \A a \in Acquirer : fd[a] # None => fd[a] = path

LEMMA InitInv == Init => TypeOK /\ Held /\ Linked
  BY LockAssumption DEF Init, TypeOK, Held, Linked, PC

LEMMA TypeStep == TypeOK /\ [Next]_vars => TypeOK'
  <1> SUFFICES ASSUME TypeOK, [Next]_vars PROVE TypeOK'
    OBVIOUS
  <1> USE LockAssumption DEF TypeOK, PC, Goto, registry
  <1>1. ASSUME NEW a \in Acquirer, Call(a) PROVE TypeOK'
    BY <1>1 DEF Call
  <1>2. ASSUME NEW a \in Acquirer, Open(a) PROVE TypeOK'
    BY <1>2 DEF Open
  <1>3. ASSUME NEW a \in Acquirer, OpenFails(a) PROVE TypeOK'
    BY <1>3 DEF OpenFails
  <1>4. ASSUME NEW a \in Acquirer, Lock(a) PROVE TypeOK'
    BY <1>4 DEF Lock
  <1>5. ASSUME NEW a \in Acquirer, Busy(a) \/ Tick(a) \/ GiveUp(a) PROVE TypeOK'
    BY <1>5 DEF Busy, Tick, GiveUp
  <1>6. ASSUME NEW a \in Acquirer, Unregister(a) \/ Unlock(a) \/ Remove(a) PROVE TypeOK'
    BY <1>6 DEF Unregister, Unlock, Remove
  <1>7. ASSUME NEW a \in Acquirer, Crash(a) PROVE TypeOK'
    BY <1>7 DEF Crash
  <1>8. CASE UNCHANGED vars
    BY <1>8 DEF vars
  <1>9. QED
    BY <1>1, <1>2, <1>3, <1>4, <1>5, <1>6, <1>7, <1>8 DEF Next, Step

LEMMA HeldStep == TypeOK /\ Held /\ [Next]_vars => Held'
  <1> SUFFICES ASSUME TypeOK, Held, [Next]_vars PROVE Held'
    OBVIOUS
  <1> USE LockAssumption DEF TypeOK, PC, Held, Goto, registry
  <1>1. ASSUME NEW a \in Acquirer, Call(a) PROVE Held'
    BY <1>1 DEF Call
  <1>2. ASSUME NEW a \in Acquirer, Open(a) PROVE Held'
    BY <1>2 DEF Open
  <1>3. ASSUME NEW a \in Acquirer, OpenFails(a) PROVE Held'
    BY <1>3 DEF OpenFails
  <1>4. ASSUME NEW a \in Acquirer, Lock(a) PROVE Held'
    BY <1>4 DEF Lock
  <1>5. ASSUME NEW a \in Acquirer, Busy(a) \/ Tick(a) \/ GiveUp(a) PROVE Held'
    BY <1>5 DEF Busy, Tick, GiveUp
  <1>6. ASSUME NEW a \in Acquirer, Unregister(a) \/ Unlock(a) \/ Remove(a) PROVE Held'
    BY <1>6 DEF Unregister, Unlock, Remove
  <1>7. ASSUME NEW a \in Acquirer, Crash(a) PROVE Held'
    BY <1>7 DEF Crash
  <1>8. CASE UNCHANGED vars
    BY <1>8 DEF vars
  <1>9. QED
    BY <1>1, <1>2, <1>3, <1>4, <1>5, <1>6, <1>7, <1>8 DEF Next, Step

\* Only a removal can part an open file from its name.
LEMMA LinkedStep ==
  ~unlinkOpen /\ TypeOK /\ Linked /\ [Next]_vars => Linked'
  <1> SUFFICES ASSUME ~unlinkOpen, TypeOK, Linked, [Next]_vars PROVE Linked'
    OBVIOUS
  <1> USE LockAssumption DEF TypeOK, Linked, registry
  <1>1. ASSUME NEW a \in Acquirer, Open(a) PROVE Linked'
    BY <1>1 DEF Open
  <1>2. ASSUME NEW a \in Acquirer, Remove(a) PROVE Linked'
    BY <1>2 DEF Remove
  <1>3. ASSUME NEW a \in Acquirer,
               \/ Call(a) \/ OpenFails(a) \/ Lock(a) \/ Busy(a) \/ Tick(a)
               \/ GiveUp(a) \/ Unregister(a) \/ Unlock(a) \/ Crash(a)
        PROVE  Linked'
    BY <1>3 DEF Call, OpenFails, Lock, Busy, Tick, GiveUp, Unregister, Unlock, Crash
  <1>4. CASE UNCHANGED vars
    BY <1>4 DEF vars
  <1>5. QED
    BY <1>1, <1>2, <1>3, <1>4 DEF Next, Step

\* Types, on every platform.
THEOREM TypeCorrect == Spec => []TypeOK
  BY InitInv, TypeStep, PTL DEF Spec

\* On every platform the registry shows as holders only who has the flock on the
\* file it has open, and as waiting only who waits (registerHeldLock,
\* ReleaseTracked, pollForLock's deferred Unregister).
THEOREM RegistryCorrect == Spec => []RegistryHonest
  <1>1. TypeOK /\ Held => RegistryHonest
    BY DEF TypeOK, Held, RegistryHonest
  <1>2. QED
    BY <1>1, InitInv, TypeStep, HeldStep, PTL DEF Spec

\* Where an open file cannot be removed, the lock excludes: two acquirers never
\* hold it at once, however many there are and whoever crashes (AcquireWithWait,
\* ReleaseTracked).
THEOREM Exclusion == Spec => []ExclusionWithoutUnlink
  <1> DEFINE Inv == TypeOK /\ Held /\ (~unlinkOpen => Linked)
  <1>1. Init => Inv
    BY InitInv
  <1>2. [Next]_vars => unlinkOpen' = unlinkOpen
    BY DEF Next, Step, vars, Call, Open, OpenFails, Lock, Busy, Tick, GiveUp, Unregister,
           Unlock, Remove, Crash
  <1>3. Inv /\ [Next]_vars => Inv'
    BY <1>2, TypeStep, HeldStep, LinkedStep
  <1>4. Inv => ExclusionWithoutUnlink
    BY DEF TypeOK, Held, Linked, ExclusionWithoutUnlink, MutualExclusion
  <1>5. QED
    BY <1>1, <1>3, <1>4, PTL DEF Spec
=============================================================================
