-------------------------------- MODULE UnitLock --------------------------------
(***************************************************************************)
(* The lock on one unit of work (clibase/locking: AcquireWithWait and      *)
(* ReleaseTracked, as cmdframework.UnitPipeline.AcquireLock uses them): a  *)
(* flock on a file that the release removes, polled by whoever finds it    *)
(* taken, with a registry of who holds and who waits for the display.      *)
(*                                                                         *)
(* An acquirer is a process that builds or tests the unit.  The file       *)
(* system is modelled as far as the code relies on it: a directory entry   *)
(* names an inode, a flock belongs to an open file and so to an inode, and *)
(* dies with its process.  gofrs/flock opens (and creates) the file on     *)
(* each try and closes it again when the try fails.                        *)
(***************************************************************************)
EXTENDS FiniteSets

CONSTANTS
  Acquirer,
  Inode,       \* as many as acquirers are enough: unused ones are used again
  None         \* no inode, nobody

ASSUME LockAssumption == None \notin Acquirer \cup Inode

VARIABLES
  unlinkOpen,  \* TRUE: an open file can be removed (Unix); FALSE: it cannot (Windows)
  path,     \* the inode the lock file's name refers to
  owner,    \* who has the flock of an inode
  fd,       \* the inode an acquirer has open
  pc,       \* where an acquirer is
  held,     \* acquirers registered as holding
  waiting   \* acquirers registered as waiting

vars == <<unlinkOpen, path, owner, fd, pc, held, waiting>>
registry == <<held, waiting>>

PC == {"idle", "first", "poll", "firstOpen", "pollOpen", "wait", "held", "unlock",
       "remove"}

Init ==
  /\ unlinkOpen \in BOOLEAN
  /\ path = None
  /\ owner = [i \in Inode |-> None]
  /\ fd = [a \in Acquirer |-> None]
  /\ pc = [a \in Acquirer |-> "idle"]
  /\ held = {}
  /\ waiting = {}

Goto(a, label) == pc' = [pc EXCEPT ![a] = label]

\* AcquireWithWait is called: prepareLock.
Call(a) ==
  /\ pc[a] = "idle"
  /\ Goto(a, "first")
  /\ UNCHANGED <<unlinkOpen, path, owner, fd, registry>>

Unused(i) == i # path /\ \A a \in Acquirer : fd[a] # i

\* TryLock opens the file, and makes it if it is not there.
Open(a) ==
  /\ pc[a] \in {"first", "poll"}
  /\ \/ path # None /\ path' = path
     \/ path = None /\ path' \in {i \in Inode : Unused(i)}
  /\ fd' = [fd EXCEPT ![a] = path']
  /\ Goto(a, IF pc[a] = "first" THEN "firstOpen" ELSE "pollOpen")
  /\ UNCHANGED <<unlinkOpen, owner, registry>>

\* The file cannot be opened: the first try gives up, a later one polls on.
OpenFails(a) ==
  /\ pc[a] \in {"first", "poll"}
  /\ Goto(a, IF pc[a] = "first" THEN "idle" ELSE "wait")
  /\ UNCHANGED <<unlinkOpen, path, owner, fd, registry>>

\* TryLock gets the flock; the wait is unregistered, the lock registered.
Lock(a) ==
  /\ pc[a] \in {"firstOpen", "pollOpen"}
  /\ owner[fd[a]] = None
  /\ owner' = [owner EXCEPT ![fd[a]] = a]
  /\ waiting' = waiting \ {a}
  /\ held' = held \cup {a}
  /\ Goto(a, "held")
  /\ UNCHANGED <<unlinkOpen, path, fd>>

\* Mutant: a failed try keeps its file open.
BusyKeepsOpen(a) ==
  /\ pc[a] \in {"firstOpen", "pollOpen"}
  /\ owner[fd[a]] # None
  /\ Goto(a, "wait")
  /\ UNCHANGED <<unlinkOpen, path, owner, fd, registry>>

\* TryLock does not get it: the file is closed, pollForLock waits for a tick.
Busy(a) ==
  /\ pc[a] \in {"firstOpen", "pollOpen"}
  /\ owner[fd[a]] # None
  /\ fd' = [fd EXCEPT ![a] = None]
  /\ Goto(a, "wait")
  /\ UNCHANGED <<unlinkOpen, path, owner, registry>>

\* A tick: the wait is registered when it has lasted long enough.
Tick(a) ==
  /\ pc[a] = "wait"
  /\ \/ waiting' = waiting
     \/ waiting' = waiting \cup {a}
  /\ Goto(a, "poll")
  /\ UNCHANGED <<unlinkOpen, path, owner, fd, held>>

\* Timeout or cancellation; the deferred call unregisters the wait.
GiveUp(a) ==
  /\ pc[a] = "wait"
  /\ waiting' = waiting \ {a}
  /\ Goto(a, "idle")
  /\ UNCHANGED <<unlinkOpen, path, owner, fd, held>>

\* Mutant: the flock is given back before the registry is told.
UnregisterLate(a) ==
  /\ pc[a] = "held"
  /\ owner' = [owner EXCEPT ![fd[a]] = None]
  /\ Goto(a, "unlock")
  /\ UNCHANGED <<unlinkOpen, path, fd, registry>>

\* ReleaseTracked: unregister, then give the flock back and close, then remove.
Unregister(a) ==
  /\ pc[a] = "held"
  /\ held' = held \ {a}
  /\ Goto(a, "unlock")
  /\ UNCHANGED <<unlinkOpen, path, owner, fd, waiting>>

Unlock(a) ==
  /\ pc[a] = "unlock"
  /\ owner' = [owner EXCEPT ![fd[a]] = None]
  /\ fd' = [fd EXCEPT ![a] = None]
  /\ Goto(a, "remove")
  /\ UNCHANGED <<unlinkOpen, path, registry>>

\* Mutant: whatever the platform, an open file can be removed.
RemoveOpen(a) ==
  /\ pc[a] = "remove"
  /\ path' = None
  /\ Goto(a, "idle")
  /\ UNCHANGED <<unlinkOpen, owner, fd, registry>>

\* os.Remove of the name, whoever's inode it names by now; its error is ignored.
Remove(a) ==
  /\ pc[a] = "remove"
  /\ path' = IF unlinkOpen \/ \A b \in Acquirer : fd[b] = None THEN None ELSE path
  /\ Goto(a, "idle")
  /\ UNCHANGED <<unlinkOpen, owner, fd, registry>>

\* Mutant: the lock outlives its process.
CrashLocked(a) ==
  /\ pc[a] # "idle"
  /\ fd' = [fd EXCEPT ![a] = None]
  /\ held' = held \ {a}
  /\ waiting' = waiting \ {a}
  /\ Goto(a, "idle")
  /\ UNCHANGED <<unlinkOpen, path, owner>>

\* The process dies: its files are closed, its flock is gone, its lock file stays.
Crash(a) ==
  /\ pc[a] # "idle"
  /\ owner' = [i \in Inode |-> IF owner[i] = a THEN None ELSE owner[i]]
  /\ fd' = [fd EXCEPT ![a] = None]
  /\ held' = held \ {a}
  /\ waiting' = waiting \ {a}
  /\ Goto(a, "idle")
  /\ UNCHANGED <<unlinkOpen, path>>

\* What an acquirer that lives does once it was called.
Step(a) ==
  \/ Open(a) \/ Lock(a) \/ Busy(a) \/ Tick(a)
  \/ Unregister(a) \/ Unlock(a) \/ Remove(a)

Next == \E a \in Acquirer : Call(a) \/ Step(a) \/ OpenFails(a) \/ GiveUp(a) \/ Crash(a)

Spec == Init /\ [][Next]_vars

\* The ticker fires again and again and a build ends; the file can be opened again
\* and again; nobody has to call, fail, give up or crash.
Fairness ==
  \A a \in Acquirer :
     /\ WF_vars(Lock(a) \/ Busy(a) \/ Tick(a) \/ Unregister(a) \/ Unlock(a) \/ Remove(a))
     /\ SF_vars(Open(a))

FairSpec == Spec /\ Fairness

-----------------------------------------------------------------------------
(* Properties.                                                             *)

TypeOK ==
  /\ unlinkOpen \in BOOLEAN
  /\ path \in Inode \cup {None}
  /\ owner \in [Inode -> Acquirer \cup {None}]
  /\ fd \in [Acquirer -> Inode \cup {None}]
  /\ pc \in [Acquirer -> PC]
  /\ \A a \in Acquirer :
       fd[a] # None <=> pc[a] \in {"firstOpen", "pollOpen", "held", "unlock"}
  /\ held \in SUBSET Acquirer
  /\ waiting \in SUBSET Acquirer

\* The unit is not built or tested by two at a time, as the package's comment
\* says.  Where an open file can be removed it is not so: a release may remove the
\* file between another's open and a third's.
MutualExclusion ==
  \A a, b \in Acquirer : pc[a] = "held" /\ pc[b] = "held" => a = b

\* Where an open file cannot be removed the lock excludes, whoever crashes, gives up
\* or releases meanwhile.
ExclusionWithoutUnlink == ~unlinkOpen => MutualExclusion

\* What the display shows is so: who is registered as a holder has the flock on
\* the file it has open, and nobody is shown as waiting who holds or has left.
RegistryHonest ==
  /\ \A a \in held : fd[a] # None /\ owner[fd[a]] = a
  /\ \A a \in waiting : pc[a] \in {"poll", "pollOpen", "wait"}

\* A flock whose file was removed, or whose holder crashed and left the file
\* behind, shuts nobody out: as long as someone tries, someone gets in.
SomeoneGetsIn ==
  (\E a \in Acquirer : pc[a] \in {"poll", "pollOpen", "wait"})
    ~> \/ \E a \in Acquirer : pc[a] = "held"
       \/ \A a \in Acquirer : pc[a] \notin {"poll", "pollOpen", "wait"}
=============================================================================
