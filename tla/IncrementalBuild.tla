---------------------------- MODULE IncrementalBuild ----------------------------
(***************************************************************************)
(* What `eac build` and `eac test` leave undone because it was done before *)
(* (commands/build, commands/test, core/output, core/hash, and the cache   *)
(* check of cmdframework.UnitPipeline).                                     *)
(*                                                                         *)
(* Each unit of work leaves a manifest: whether it succeeded, the hash of  *)
(* its module's sources, the hashes of what it made, and when it ran.  A   *)
(* command computes the sources' hashes once, compares them with the       *)
(* manifests, and runs the units it finds changed; build keeps the hashes  *)
(* in a file and takes them from there as long as no file it listed has    *)
(* another mtime; at its end it puts the hash of the sources as they are   *)
(* now in place of the one it computed, for the build itself rewrites some *)
(* (go mod tidy and go.sum).  Meanwhile a user edits.                      *)
(*                                                                         *)
(* Sources are three things about a module's files: the content of those   *)
(* the user edits, the content of the one the build rewrites, and whether  *)
(* another file is there.  A hash is what it is a hash of.  A unit makes   *)
(* several parts (files), and what is made is the sources and the outputs  *)
(* that were read.  A manifest has the hashes of the parts its handler     *)
(* lists only: some handlers list all they make, some a part of it, some   *)
(* (tools defined in YAML, the scripts builder) nothing.  For `when it     *)
(* ran' there are the units that ran since.  One command runs at a time.   *)
(***************************************************************************)
EXTENDS Integers, FiniteSets

CONSTANTS
  Unit,       \* the units of build: components with their tool
  Test,       \* the units of test
  Module,
  ModuleOf,   \* the module of a unit
  DependsOn,  \* the units of build a unit of build waits for
  Part,       \* the files a unit makes
  Listed,     \* those of them its handler lists, of which the manifest has the hashes
  None,       \* no hash
  MaxDisturbances

Work == Unit \cup Test
Source == [code : {1, 2}, sum : 0..2, extra : BOOLEAN]

ASSUME UnitAssumption ==
  /\ Unit \cap Test = {}
  /\ ModuleOf \in [Work -> Module]
  /\ DependsOn \in [Unit -> SUBSET Unit]
  /\ \A u \in Unit : u \notin DependsOn[u]
  /\ Listed \in [Work -> SUBSET Part]
  /\ None \notin Source

ASSUME LimitAssumption == MaxDisturbances \in Nat

VARIABLES
  calm,       \* TRUE: the user edits between commands only, and adds no file
  restores,   \* TRUE: a unit may be killed between its last write and its manifest
  src,        \* the sources of a module
  hashCache,  \* input-hashes.json: the hash of a module, and whether no file listed changed
  output,     \* what is on disk of each part a unit makes
  manifest,   \* uow.manifest.json of a unit
  since,      \* the units that ran since a unit did
  cmd,        \* the command that runs
  hashes,     \* the hashes it computed
  cached,     \* the units it found up to date
  status,     \* how far it is with a unit
  making,     \* what a running unit will have made
  disturbances

command == <<cmd, hashes, cached, status, making>>
disk == <<hashCache, output, manifest, since>>
modes == <<calm, restores>>
vars == <<modes, src, disk, command, disturbances>>

\* The units whose outputs a unit reads: what a component depends on, or what was
\* built of the tests' module.
Reads(u) == IF u \in Unit THEN DependsOn[u]
            ELSE {v \in Unit : ModuleOf[v] = ModuleOf[u]}

UnitsOf(m) == {u \in Unit : ModuleOf[u] = m}

\* The modules a module depends on, itself not one of them: detection takes no notice of
\* what a component waits for within its module.
DependencyModules(m) ==
  {ModuleOf[v] : v \in UNION {DependsOn[u] : u \in UnitsOf(m)}} \ {m}

Gone == [state |-> "gone"]
Torn == [state |-> "torn"]
NoManifest == [result |-> "none"]

\* What a unit makes of the sources s, each part of it: a pure function of what it reads.
Made(u, s) ==
  [state |-> "made", code |-> s.code, extra |-> s.extra,
   read |-> [v \in Reads(u) |-> output[v]]]

Init ==
  /\ calm \in BOOLEAN
  /\ restores \in BOOLEAN
  /\ src = [m \in Module |-> [code |-> 1, sum |-> 0, extra |-> FALSE]]
  /\ hashCache = [m \in Module |-> [hash |-> None, fresh |-> FALSE]]
  /\ output = [u \in Work |-> [p \in Part |-> Gone]]
  /\ manifest = [u \in Work |-> NoManifest]
  /\ since = [u \in Work |-> Work]
  /\ cmd = "idle"
  /\ hashes = [m \in Module |-> None]
  /\ cached = {}
  /\ status = [u \in Work |-> "out"]
  /\ making = [u \in Work |-> Gone]
  /\ disturbances = 0

-----------------------------------------------------------------------------
(* Detection.                                                              *)

\* Mutant: the hash of the file is taken though it has none of the module.
CurrentHashCold(m) == hashCache[m].hash

\* Mutant: the hash of the file is taken whatever happened to the sources.
CurrentHashFiled(m) == IF hashCache[m].hash # None THEN hashCache[m].hash ELSE src[m]

\* GetOrCompute: the hash on file, while no file it lists has another mtime.
CurrentHash(m) == IF hashCache[m].fresh THEN hashCache[m].hash ELSE src[m]

\* Mutant: no look at what was built since.
NewerBuildNever(u) == FALSE

\* hasNewerBuildManifest: a unit of a module this one's depends on was built later, and
\* has a manifest that says so; for a test, one of its own module.
NewerBuild(u) ==
  LET Upstream == IF u \in Unit THEN DependencyModules(ModuleOf[u]) ELSE {ModuleOf[u]}
  IN  \E v \in since[u] \cap Unit :
        ModuleOf[v] \in Upstream /\ manifest[v].result # "none"

\* ValidateUoW: what the manifest lists is there, with the same hash; of what it does not
\* list nothing is asked, and a failed build's manifest lists nothing.
Valid(u) ==
  /\ manifest[u].result # "none"
  /\ manifest[u].result = "ok" => \A p \in Listed[u] : output[u][p] = manifest[u].made

\* CheckCache: a unit found up to date is not looked at again if its manifest is gone.
Intact(u) == manifest[u].result = "none" \/ Valid(u)

\* Mutant: a failed run counts as well.
UpToDateFailed(u, hash) ==
  /\ Valid(u)
  /\ manifest[u].hash = hash
  /\ ~NewerBuild(u)

\* checkUoWChanged finds no reason to run the unit.
UpToDate(u, hash) ==
  /\ Valid(u)
  /\ manifest[u].result = "ok"
  /\ manifest[u].hash = hash
  /\ ~NewerBuild(u)

-----------------------------------------------------------------------------
(* The commands.                                                           *)

Disturb ==
  /\ disturbances < MaxDisturbances
  /\ disturbances' = disturbances + 1

\* The modules that the given ones need, themselves included.
Needs(modules) ==
  LET Reach[n \in 0..Cardinality(Module)] ==
        IF n = 0 THEN modules
        ELSE Reach[n - 1] \cup UNION {DependencyModules(m) : m \in Reach[n - 1]}
  IN  Reach[Cardinality(Module)]

\* What the command is asked for, and what it takes on: nothing named means all.
Scope(requested) ==
  IF requested = {} THEN {Module} ELSE {requested, Needs(requested)}

\* build: hash what is in scope, keep the hashes, compare them with the manifests.
\* What is named is built whatever its manifest says.
StartBuild(requested) ==
  /\ cmd = "idle"
  /\ cmd' = "build"
  /\ \E scope \in Scope(requested) :
       /\ hashes' = [m \in Module |-> IF m \in scope THEN CurrentHash(m) ELSE None]
       /\ hashCache' = [m \in Module |->
            IF m \in scope THEN [hash |-> CurrentHash(m), fresh |-> TRUE]
            ELSE hashCache[m]]
       /\ status' = [u \in Work |->
            IF u \in Unit /\ ModuleOf[u] \in scope THEN "pending" ELSE "out"]
       /\ cached' = {u \in Unit : /\ ModuleOf[u] \in scope \ requested
                                  /\ UpToDate(u, CurrentHash(ModuleOf[u]))}
  /\ UNCHANGED <<modes, src, output, manifest, since, making, disturbances>>

\* ValidateBuildArtifactsWithExpected: what was built of the module is there, and some
\* unit of it was built from the sources as the hash on file has them.
BuildPresent(m) ==
  /\ \E u \in UnitsOf(m) : manifest[u].result # "none" /\ manifest[u].hash = CurrentHash(m)
  /\ \A u \in UnitsOf(m) : Intact(u)

\* test: only over builds that are present and current; hash the sources anew.
StartTest(scope) ==
  /\ cmd = "idle"
  /\ \A m \in scope : BuildPresent(m)
  /\ cmd' = "test"
  /\ hashes' = [m \in Module |-> IF m \in scope THEN src[m] ELSE None]
  /\ status' = [u \in Work |->
       IF u \in Test /\ ModuleOf[u] \in scope THEN "pending" ELSE "out"]
  /\ cached' = {u \in Test : ModuleOf[u] \in scope /\ UpToDate(u, src[ModuleOf[u]])}
  /\ UNCHANGED <<modes, src, disk, making, disturbances>>

\* What the unit waits for has ended well.
Waited(u) == \A v \in Reads(u) : status[v] \in {"out", "cached", "ok"}

\* CheckCache: the unit was found up to date, and for a build what it made is still there.
Skip(u) ==
  /\ status[u] = "pending"
  /\ u \in cached
  /\ Waited(u)
  /\ u \in Unit => Intact(u)
  /\ status' = [status EXCEPT ![u] = "cached"]
  /\ UNCHANGED <<modes, src, disk, cmd, hashes, cached, making, disturbances>>

Rewritten(m) == [src EXCEPT ![m].sum = src[m].code]

\* The unit runs: a build first rewrites the module's file of sums, then reads.  What was
\* made before is being overwritten, which nobody sees before the unit ends.
Begin(u) ==
  /\ status[u] = "pending"
  /\ u \in cached => u \in Unit /\ ~Intact(u)
  /\ Waited(u)
  /\ status' = [status EXCEPT ![u] = "running"]
  /\ cached' = cached \ {u}
  /\ LET m == ModuleOf[u]
         rewrites == u \in Unit /\ src[m].sum # src[m].code
     IN  /\ src' = IF rewrites THEN Rewritten(m) ELSE src
         /\ hashCache' = IF rewrites THEN [hashCache EXCEPT ![m].fresh = FALSE] ELSE hashCache
         /\ making' = [making EXCEPT ![u] = Made(u, src[m])]
  /\ UNCHANGED <<modes, output, manifest, since, cmd, hashes, disturbances>>

\* What a unit makes, whole; and what is left of it when it is stopped, with some parts
\* half written and the others as they were.
Whole(u) == [p \in Part |-> making[u]]
Half(u, torn) == [p \in Part |-> IF p \in torn THEN Torn ELSE output[u][p]]

\* RecordComplete.  The time of a build is its end, that of a test its start: which is
\* the same place in the sequence, for no build ends while a test runs.
Record(u, result, made) ==
  /\ manifest' = [manifest EXCEPT ![u] =
       [result |-> result, hash |-> hashes[ModuleOf[u]], made |-> made]]
  /\ since' = [v \in Work |-> IF v = u THEN {} ELSE since[v] \cup {u}]

End(u) ==
  /\ status[u] = "running"
  /\ status' = [status EXCEPT ![u] = "ok"]
  /\ output' = [output EXCEPT ![u] = Whole(u)]
  /\ making' = [making EXCEPT ![u] = Gone]
  /\ Record(u, "ok", making[u])
  /\ UNCHANGED <<modes, src, hashCache, cmd, hashes, cached, disturbances>>

\* The unit fails, after it made all or some of it: its manifest says so.
Fail(u) ==
  /\ status[u] = "running"
  /\ Disturb
  /\ status' = [status EXCEPT ![u] = "failed"]
  /\ making' = [making EXCEPT ![u] = Gone]
  /\ \E left \in {Whole(u)} \cup {Half(u, torn) : torn \in SUBSET Part} :
       output' = [output EXCEPT ![u] = left]
  /\ Record(u, "failed", Gone)
  /\ UNCHANGED <<modes, src, hashCache, cmd, hashes, cached>>

\* The unit is refused before it runs (its module does not validate, its lock is not to be
\* had): nothing is written.
Refuse(u) ==
  /\ status[u] = "pending"
  /\ u \in cached => u \in Unit /\ ~Intact(u)
  /\ Waited(u)
  /\ Disturb
  /\ status' = [status EXCEPT ![u] = "failed"]
  /\ UNCHANGED <<modes, src, disk, cmd, hashes, cached, making>>

\* A unit it waits for failed: it is not run, and reported as failed.
Cascade(u) ==
  /\ status[u] = "pending"
  /\ \E v \in Reads(u) : status[v] = "failed"
  /\ status' = [status EXCEPT ![u] = "failed"]
  /\ UNCHANGED <<modes, src, disk, cmd, hashes, cached, making, disturbances>>

Done == \A u \in Work : status[u] \in {"out", "cached", "ok", "failed"}
Idle ==
  /\ cmd' = "idle"
  /\ hashes' = [m \in Module |-> None]
  /\ cached' = {}
  /\ status' = [u \in Work |-> "out"]
  /\ making' = [u \in Work |-> Gone]

\* AggregateToWorkResults: the modules none of whose units failed and some were built.
Built == {m \in Module : /\ \E u \in UnitsOf(m) : status[u] = "ok"
                         /\ \A u \in UnitsOf(m) : status[u] # "failed"}

Drifted == {m \in Built : CurrentHash(m) # hashes[m]}

\* The manifests that are written anew, with the hash of the sources as they are now.
Stale == {u \in Unit : /\ ModuleOf[u] \in Drifted
                       /\ manifest[u].result # "none"
                       /\ manifest[u].hash = hashes[ModuleOf[u]]}

Reconciled(units) ==
  [u \in Work |-> IF u \in units THEN [manifest[u] EXCEPT !.hash = CurrentHash(ModuleOf[u])]
                  ELSE manifest[u]]

\* Mutant: the manifests keep the hash from before the build.
FinishBuildUnreconciled ==
  /\ cmd = "build"
  /\ Done
  /\ Idle
  /\ UNCHANGED <<modes, src, disk, disturbances>>

\* buildAfterExecute: reconcileBuildHashes, and the command ends.
FinishBuild ==
  /\ cmd = "build"
  /\ Done
  /\ Idle
  /\ manifest' = Reconciled(Stale)
  /\ hashCache' = [m \in Module |->
       IF m \in Built /\ Drifted # {} THEN [hash |-> CurrentHash(m), fresh |-> TRUE]
       ELSE hashCache[m]]
  /\ UNCHANGED <<modes, src, output, since, disturbances>>

FinishTest ==
  /\ cmd = "test"
  /\ Done
  /\ Idle
  /\ UNCHANGED <<modes, src, disk, disturbances>>

Running == {u \in Work : status[u] = "running"}

\* The process dies: with units half made; if restores, with units all made that have no
\* manifest yet; or in the midst of the reconciliation, with some manifests written anew.
Crash ==
  /\ cmd # "idle"
  /\ Disturb
  /\ Idle
  /\ \E whole \in SUBSET Running, torn \in [Running -> SUBSET Part] :
       /\ whole # {} => restores
       /\ output' = [u \in Work |-> IF u \in whole THEN Whole(u)
                                   ELSE IF u \in Running THEN Half(u, torn[u])
                                   ELSE output[u]]
  /\ \E units \in SUBSET Stale :
       /\ units # {} => cmd = "build" /\ Done
       /\ manifest' = Reconciled(units)
  /\ UNCHANGED <<modes, src, hashCache, since>>

-----------------------------------------------------------------------------
(* The user, and the file system.                                          *)

MayEdit == Disturb /\ (calm => cmd = "idle")

\* A file that was there is written; its mtime changes.
Edit(m) ==
  /\ MayEdit
  /\ src' = [src EXCEPT ![m].code = 3 - src[m].code]
  /\ hashCache' = [hashCache EXCEPT ![m].fresh = FALSE]
  /\ UNCHANGED <<modes, output, manifest, since, command>>

\* A file is added: no file listed changes.
AddFile(m) ==
  /\ MayEdit
  /\ ~calm
  /\ ~src[m].extra
  /\ src' = [src EXCEPT ![m].extra = TRUE]
  /\ UNCHANGED <<modes, disk, command>>

\* A file is removed, which the hash on file may list.
RemoveFile(m) ==
  /\ MayEdit
  /\ src[m].extra
  /\ src' = [src EXCEPT ![m].extra = FALSE]
  /\ hashCache' = IF hashCache[m].fresh /\ ~hashCache[m].hash.extra THEN hashCache
                  ELSE [hashCache EXCEPT ![m].fresh = FALSE]
  /\ UNCHANGED <<modes, output, manifest, since, command>>

\* A part of what a unit made is removed.
Damage(u) ==
  /\ Disturb
  /\ status[u] # "running"
  /\ \E gone \in Part :
       output' = [output EXCEPT ![u] = [p \in Part |-> IF p = gone THEN Gone
                                                       ELSE output[u][p]]]
  /\ UNCHANGED <<modes, src, hashCache, manifest, since, command>>

\* A manifest is lost: removed, or cut short when it was saved, for Save writes the file in
\* place and RecordManifest only logs that it failed.  What does not parse is no manifest.
LoseManifest(u) ==
  /\ Disturb
  /\ manifest[u].result # "none"
  /\ manifest' = [manifest EXCEPT ![u] = NoManifest]
  /\ since' = [since EXCEPT ![u] = since[u] \cup {u}]
  /\ UNCHANGED <<modes, src, hashCache, output, command>>

UnitStep(u) == Skip(u) \/ Begin(u) \/ End(u) \/ Cascade(u)
Finish == FinishBuild \/ FinishTest
User == \/ \E m \in Module : Edit(m) \/ AddFile(m) \/ RemoveFile(m)
        \/ \E requested \in SUBSET Module : StartBuild(requested)
        \/ \E scope \in SUBSET Module \ {{}} : StartTest(scope)

Next ==
  \/ \E u \in Work : UnitStep(u) \/ Fail(u) \/ Refuse(u) \/ Damage(u) \/ LoseManifest(u)
  \/ Finish
  \/ Crash
  \/ User

Spec == Init /\ [][Next]_vars

\* A command goes on until it ends, and the user builds everything again and again.
Fairness ==
  /\ \A u \in Work : WF_vars(UnitStep(u))
  /\ WF_vars(Finish)
  /\ SF_vars(StartBuild({}))

FairSpec == Spec /\ Fairness

-----------------------------------------------------------------------------
(* Properties.                                                             *)

\* The state is well formed; no unit is being made that does not run, and the file of
\* hashes says a file is unchanged only of a hash it has.
TypeOK ==
  /\ calm \in BOOLEAN
  /\ restores \in BOOLEAN
  /\ src \in [Module -> Source]
  /\ hashCache \in [Module -> [hash : Source \cup {None}, fresh : BOOLEAN]]
  /\ \A m \in Module : hashCache[m].fresh => hashCache[m].hash # None
  /\ cmd \in {"idle", "build", "test"}
  /\ cmd = "idle" => /\ \A u \in Work : status[u] = "out"
                     /\ \A m \in Module : hashes[m] = None
  /\ hashes \in [Module -> Source \cup {None}]
  /\ cached \subseteq Work
  /\ status \in [Work -> {"out", "pending", "cached", "running", "ok", "failed"}]
  /\ since \in [Work -> SUBSET Work]
  /\ \A u \in Work :
       /\ \A p \in Part : output[u][p].state \in {"gone", "torn", "made"}
       /\ making[u].state = (IF status[u] = "running" THEN "made" ELSE "gone")
       /\ status[u] # "out" => hashes[ModuleOf[u]] # None
       /\ manifest[u].result \in {"none", "ok", "failed"}
       /\ manifest[u].result = "ok" => manifest[u].made.state = "made"
       /\ manifest[u].result = "none" <=> u \in since[u]
  /\ disturbances \in 0..MaxDisturbances

\* What a unit reads of other modules' builds, and a test of its own module's.
Upstream(u) == {v \in Reads(u) : u \in Unit => ModuleOf[v] # ModuleOf[u]}

\* What a unit is to be skipped for was made of the outputs there are: each part it lists
\* was made of the parts that are there now of what it depends on, as far as these are
\* listed and their unit up to date itself, whatever was edited, damaged, failed, killed or
\* lost before (the times of the manifests, that hashes of sources alone do not give).  But
\* for a unit killed between its last write and its manifest: it may make what it made
\* before anew, under the manifest of before, while what read it torn has a later one.
UsesDependencies ==
  ~restores /\ cmd = "idle" =>
    \A u \in Work : \A v \in Upstream(u) :
      /\ UpToDate(u, CurrentHash(ModuleOf[u]))
      /\ UpToDate(v, CurrentHash(ModuleOf[v]))
      => \A p \in Listed[u] : \A q \in Listed[v] : output[u][p].read[v][q] = output[v][q]

\* As long as the user edits between the commands and adds no file, a unit is found up to
\* date only when what it lists was made of the sources there are, through failures,
\* crashes, lost manifests and builds that rewrite their own sources.
SourcesBuilt ==
  calm /\ cmd = "idle" =>
    \A u \in Work : UpToDate(u, CurrentHash(ModuleOf[u])) =>
      \A p \in Listed[u] : output[u][p].code = src[ModuleOf[u]].code

\* Dependencies between modules (depends_on): each unit waits for all there are of the
\* modules its own depends on.  With component_deps a unit waits for fewer, and the build of
\* one it did not wait for makes it stale as soon as it is built.
AllToAll ==
  \A u, v \in Unit : ModuleOf[v] \in DependencyModules(ModuleOf[u]) => v \in DependsOn[u]

\* And then a build leaves nothing to do of what it did: a unit it built is up to date for
\* the next command, though the build rewrote the sources after they were hashed.
NothingLeftToDo ==
  [][calm /\ FinishBuild =>
       \A u \in Work :
         /\ status[u] = "ok"
         /\ ModuleOf[u] \in Built
         /\ Valid(u)
         => UpToDate(u, CurrentHash(ModuleOf[u]))']_vars

\* What a unit lists is there, made of the sources there are and of what is there of the
\* parts listed by the units of other modules it waited for.  A unit of its own module that
\* was damaged before it was read is made anew, but what read it is not.
Current(u) ==
  \A p \in Listed[u] :
    /\ output[u][p].state = "made"
    /\ output[u][p].code = src[ModuleOf[u]].code
    /\ output[u][p].extra = src[ModuleOf[u]].extra
    /\ \A v \in Upstream(u) : \A q \in Listed[v] : output[u][p].read[v][q] = output[v][q]

\* Once the user is done and only builds again and again, all that units list becomes and
\* stays current, which between modules is what a build from nothing makes of the sources:
\* the incremental build converges, over as many runs as the changes have to travel.  What
\* no unit lists may stay damaged for ever.
Converges ==
  calm /\ ~restores => <>[](cmd = "idle" => \A u \in Unit : Current(u))
=============================================================================
