------------------------ MODULE IncrementalBuild_proofs ------------------------
(* That what is found up to date was made of what is there, for any modules,   *)
(* units and dependencies between them.                                        *)
EXTENDS IncrementalBuild, TLAPS

\* The variables are functions of what they are indexed by.
Shape ==
  /\ output = [u \in Work |-> [p \in Part |-> output[u][p]]]
  /\ manifest = [u \in Work |-> manifest[u]]
  /\ making = [u \in Work |-> making[u]]

\* While a unit runs, what it reads is not being made; it read what is there, unless that
\* was damaged meanwhile.
ReadsStill ==
  \A u \in Work : status[u] = "running" =>
    \A v \in Reads(u) :
      /\ status[v] \in {"out", "cached", "ok"}
      /\ \A q \in Part :
           output[v][q].state = "made" => making[u].read[v][q] = output[v][q]

\* The same of what ran, as long as what it read has not run again, if a unit that is
\* killed leaves nothing whole.
ReadSince ==
  ~restores => \A u \in Work : manifest[u].result = "ok" =>
    \A v \in Reads(u) \ since[u] : \A q \in Part :
      output[v][q].state = "made" => manifest[u].made.read[v][q] = output[v][q]

\* What the hash on file, the hashes of the command that runs and those of the manifests
\* are hashes of, as long as the user keeps to editing between commands.
HashesTrue ==
  calm =>
    /\ \A m \in Module :
         /\ hashCache[m].fresh => hashCache[m].hash = src[m]
         /\ hashes[m] # None => hashes[m].code = src[m].code
    /\ \A u \in Work :
         /\ status[u] = "running" => making[u].code = src[ModuleOf[u]].code
         /\ manifest[u].result = "ok" => manifest[u].made.code = manifest[u].hash.code

IInv == TypeOK /\ Shape /\ ReadsStill /\ ReadSince /\ HashesTrue

-----------------------------------------------------------------------------
\* What a unit reads is made by others.
LEMMA ReadsOthers ==
  ASSUME NEW u \in Work
  PROVE  Reads(u) \subseteq Unit /\ u \notin Reads(u)
BY UnitAssumption DEF Reads, Work

\* The hash the build takes of a module is a hash.
LEMMA HashIsSource ==
  ASSUME TypeOK, NEW m \in Module
  PROVE  CurrentHash(m) \in Source /\ CurrentHash(m) # None
BY UnitAssumption DEF TypeOK, CurrentHash

\* And that of the sources, if the user kept to it.
LEMMA HashIsTrue ==
  ASSUME HashesTrue, calm, NEW m \in Module
  PROVE  CurrentHash(m) = src[m]
BY DEF HashesTrue, CurrentHash

LEMMA InitIInv == Init => IInv
<1> SUFFICES ASSUME Init PROVE IInv
  OBVIOUS
<1>1. TypeOK
  <2>1. \A m \in Module : src[m] \in Source
    BY DEF Init, Source
  <2> QED BY <2>1, LimitAssumption DEF Init, TypeOK, Gone, NoManifest, Source
<1>2. Shape
  BY DEF Init, Shape
<1>3. ReadsStill /\ ReadSince /\ HashesTrue
  BY UnitAssumption DEF Init, ReadsStill, ReadSince, HashesTrue, NoManifest, Gone
<1> QED BY <1>1, <1>2, <1>3 DEF IInv
-----------------------------------------------------------------------------
(* Each action keeps the invariant.                                        *)

LEMMA StartBuildKeeps ==
  ASSUME IInv, NEW requested, StartBuild(requested)
  PROVE  IInv'
<1> PICK scope :
      /\ hashes' = [m \in Module |-> IF m \in scope THEN CurrentHash(m) ELSE None]
      /\ hashCache' = [m \in Module |->
            IF m \in scope THEN [hash |-> CurrentHash(m), fresh |-> TRUE]
            ELSE hashCache[m]]
      /\ status' = [u \in Work |->
            IF u \in Unit /\ ModuleOf[u] \in scope THEN "pending" ELSE "out"]
      /\ cached' \subseteq Unit
  BY DEF StartBuild
<1> USE DEF IInv
<1>1. TypeOK'
  <2>1. \A u \in Work : ModuleOf[u] \in Module
    BY UnitAssumption
  <2>2. \A u \in Work : status[u] # "running" /\ making[u].state = "gone" => making'[u].state = "gone"
    BY DEF StartBuild
  <2>3. /\ hashCache' \in [Module -> [hash : Source \cup {None}, fresh : BOOLEAN]]
        /\ hashes' \in [Module -> Source \cup {None}]
        /\ \A m \in Module : hashCache'[m].fresh => hashCache'[m].hash # None
    BY HashIsSource DEF TypeOK
  <2>4. \A u \in Work : status'[u] # "out" => hashes'[ModuleOf[u]] # None
    BY <2>1, HashIsSource
  <2>5. \A u \in Work : status[u] # "running"
    BY DEF StartBuild, TypeOK
  <2> QED BY <2>2, <2>3, <2>4, <2>5 DEF StartBuild, TypeOK, Work, modes
<1>2. UNCHANGED <<restores, output, manifest, making, since>>
  BY DEF StartBuild, modes
<1>3. Shape'
  BY <1>2 DEF Shape
<1>4. ReadSince'
  BY <1>2 DEF ReadSince
<1>5. ReadsStill'
  BY DEF ReadsStill
<1>6. HashesTrue'
  BY HashIsTrue, HashIsSource DEF StartBuild, HashesTrue, modes
<1> QED BY <1>1, <1>3, <1>4, <1>5, <1>6
LEMMA StartTestKeeps ==
  ASSUME IInv, NEW scope, StartTest(scope)
  PROVE  IInv'
<1> USE DEF IInv
<1>1. UNCHANGED <<output, manifest, making, since, src, hashCache, calm, restores, disturbances>>
  BY DEF StartTest, disk, modes
<1>2. \A u \in Work : ModuleOf[u] \in Module
  BY UnitAssumption
<1>3. TypeOK'
  <2>1. /\ hashes' \in [Module -> Source \cup {None}]
        /\ \A u \in Work : status'[u] # "out" => hashes'[ModuleOf[u]] # None
    BY <1>2, UnitAssumption DEF StartTest, TypeOK
  <2>2. \A u \in Work : status[u] = "out" /\ status'[u] \in {"out", "pending"}
    BY DEF StartTest, TypeOK
  <2>3. cached' \subseteq Work /\ cmd' = "test" /\ status' \in [Work -> {"out", "pending"}]
    BY DEF StartTest, Work
  <2> QED BY <1>1, <2>1, <2>2, <2>3 DEF TypeOK
<1>4. Shape' /\ ReadSince'
  BY <1>1 DEF Shape, ReadSince
<1>5. ReadsStill'
  BY DEF StartTest, ReadsStill
<1>6. HashesTrue'
  BY <1>1, UnitAssumption DEF StartTest, HashesTrue, TypeOK
<1> QED BY <1>3, <1>4, <1>5, <1>6

\* A unit is set aside: skipped, refused or given up.
LEMMA AsideKeeps ==
  ASSUME IInv, NEW u \in Work, NEW s \in {"cached", "failed"},
         status[u] = "pending", status' = [status EXCEPT ![u] = s],
         disturbances' \in 0..MaxDisturbances,
         UNCHANGED <<calm, restores, src, disk, cmd, hashes, cached, making>>
  PROVE  IInv'
<1> USE DEF IInv
<1>1. UNCHANGED <<hashCache, output, manifest, since>>
  BY DEF disk
<1>2. TypeOK'
  BY <1>1 DEF TypeOK
<1>3. Shape' /\ ReadSince'
  BY <1>1 DEF Shape, ReadSince
<1>4. HashesTrue'
  BY <1>1 DEF HashesTrue, TypeOK
<1>5. ReadsStill'
  BY <1>1 DEF ReadsStill, TypeOK
<1> QED BY <1>2, <1>3, <1>4, <1>5

\* A unit begins: it reads what is there, and is read by none that runs.
LEMMA BeginKeeps ==
  ASSUME IInv, NEW u \in Work, Begin(u)
  PROVE  IInv'
<1> DEFINE m == ModuleOf[u]
           rewrites == u \in Unit /\ src[m].sum # src[m].code
<1> USE DEF IInv
<1>1. m \in Module /\ src[m] \in Source
  BY UnitAssumption DEF TypeOK
<1>2. /\ src' = IF rewrites THEN [src EXCEPT ![m].sum = src[m].code] ELSE src
      /\ hashCache' = IF rewrites THEN [hashCache EXCEPT ![m].fresh = FALSE] ELSE hashCache
      /\ making' = [making EXCEPT ![u] = Made(u, src[m])]
      /\ status' = [status EXCEPT ![u] = "running"]
      /\ cached' = cached \ {u}
      /\ UNCHANGED <<calm, restores, output, manifest, since, cmd, hashes, disturbances>>
  BY DEF Begin, Rewritten, modes
<1>3. /\ src' \in [Module -> Source]
      /\ \A k \in Module : src'[k].code = src[k].code
      /\ \A k \in Module \ {m} : src'[k] = src[k]
  <2>1. src[m].code \in 0..2 /\ src[m].code \in {1, 2}
    BY <1>1 DEF Source
  <2>2. [src[m] EXCEPT !.sum = src[m].code] \in Source
    BY <1>1, <2>1 DEF Source
  <2>3. [src[m] EXCEPT !.sum = src[m].code].code = src[m].code
    BY <1>1 DEF Source
  <2> QED BY <1>1, <1>2, <2>2, <2>3 DEF TypeOK
<1>4. /\ hashCache' \in [Module -> [hash : Source \cup {None}, fresh : BOOLEAN]]
      /\ \A k \in Module : hashCache'[k].fresh =>
           hashCache[k].fresh /\ hashCache'[k].hash = hashCache[k].hash /\ (k = m => ~rewrites)
  <2> USE DEF TypeOK
  <2>1. CASE rewrites
    <3>1. hashCache' = [hashCache EXCEPT ![m].fresh = FALSE]
      BY <1>2, <2>1
    <3>2. [hashCache[m] EXCEPT !.fresh = FALSE] \in [hash : Source \cup {None}, fresh : BOOLEAN]
      <4>1. hashCache[m] \in [hash : Source \cup {None}, fresh : BOOLEAN]
        BY <1>1
      <4> HIDE DEF TypeOK, IInv
      <4> QED BY <4>1, Zenon
    <3>3. ~hashCache'[m].fresh /\ \A k \in Module \ {m} : hashCache'[k] = hashCache[k]
      BY <1>1, <3>1
    <3> QED BY <1>1, <3>1, <3>2, <3>3
  <2>2. CASE ~rewrites
    BY <1>2, <2>2
  <2> QED BY <2>1, <2>2
<1>5. \A v \in Work : /\ making'[v] = IF v = u THEN Made(u, src[m]) ELSE making[v]
                      /\ status'[v] = IF v = u THEN "running" ELSE status[v]
  BY <1>2 DEF Shape, TypeOK
<1>6. TypeOK'
  <2>1. status[u] = "pending"
    BY DEF Begin
  <2>2. Made(u, src[m]).state = "made"
    BY DEF Made
  <2>3. status' \in [Work -> {"out", "pending", "cached", "running", "ok", "failed"}]
    BY <1>2 DEF TypeOK
  <2>4. \A v \in Work :
          /\ making'[v].state = (IF status'[v] = "running" THEN "made" ELSE "gone")
          /\ status'[v] # "out" => hashes[ModuleOf[v]] # None
    BY <1>5, <2>1, <2>2 DEF TypeOK
  <2> QED BY <1>2, <1>3, <1>4, <2>1, <2>3, <2>4 DEF TypeOK
<1>7. Shape'
  BY <1>2 DEF Shape
<1>8. ReadsStill'
  <2>1. \A v \in Reads(u) : /\ v \in Work /\ v # u
                            /\ status[v] \in {"out", "cached", "ok"}
                            /\ Made(u, src[m]).read[v] = output[v]
    BY ReadsOthers DEF Begin, Waited, Made, Work
  <2>2. \A w \in Work : u \in Reads(w) => status[w] # "running"
    BY DEF Begin, ReadsStill
  <2>3. \A w \in Work : Reads(w) \subseteq Work
    BY ReadsOthers DEF Work
  <2>4. output' = output
    BY <1>2
  <2> QED BY <1>5, <2>1, <2>2, <2>3, <2>4 DEF ReadsStill
<1>9. ReadSince'
  <2>1. \A w \in Work : Reads(w) \subseteq Work
    BY ReadsOthers DEF Work
  <2> QED BY <1>2, <2>1 DEF ReadSince
<1>10. HashesTrue'
  <2>1. calm => \A k \in Module : hashCache'[k].fresh => hashCache'[k].hash = src'[k]
    BY <1>1, <1>2, <1>3, <1>4 DEF HashesTrue
  <2>2. \A v \in Work : ModuleOf[v] \in Module
    BY UnitAssumption
  <2>3. Made(u, src[m]).code = src[m].code
    BY DEF Made
  <2>4. ASSUME calm, NEW v \in Work, status'[v] = "running"
        PROVE  making'[v].code = src'[ModuleOf[v]].code
    BY <1>3, <1>5, <2>2, <2>3, <2>4 DEF HashesTrue
  <2> QED BY <1>2, <1>3, <2>1, <2>4 DEF HashesTrue
<1> QED BY <1>6, <1>7, <1>8, <1>9, <1>10
\* A unit ends: what it made is there, it ran after all it read.
LEMMA EndKeeps ==
  ASSUME IInv, NEW u \in Work, End(u)
  PROVE  IInv'
<1> USE DEF IInv
<1>1. \A v \in Work \ {u} :
        /\ output'[v] = output[v] /\ making'[v] = making[v] /\ status'[v] = status[v]
        /\ since'[v] = since[v] \cup {u} /\ manifest'[v] = manifest[v]
  BY DEF End, Record, Shape, TypeOK
<1>11. /\ output'[u] = Whole(u) /\ making'[u] = Gone /\ status'[u] = "ok" /\ since'[u] = {}
       /\ manifest'[u].result = "ok" /\ manifest'[u].made = making[u]
       /\ manifest'[u].hash = hashes[ModuleOf[u]]
  BY DEF End, Record, Shape, TypeOK
<1>2. UNCHANGED <<calm, restores, src, hashCache, cmd, hashes, cached, disturbances>>
  BY DEF End, modes
<1>3. status[u] = "running" /\ making[u].state = "made" /\ cmd # "idle"
  BY DEF End, TypeOK
<1>4. TypeOK'
  <2>1. /\ status' \in [Work -> {"out", "pending", "cached", "running", "ok", "failed"}]
        /\ since' \in [Work -> SUBSET Work]
    BY DEF End, Record, TypeOK
  <2>2. \A v \in Work :
          /\ \A q \in Part : output'[v][q].state \in {"gone", "torn", "made"}
          /\ making'[v].state = (IF status'[v] = "running" THEN "made" ELSE "gone")
          /\ status'[v] # "out" => hashes[ModuleOf[v]] # None
    BY <1>1, <1>11, <1>3 DEF TypeOK, Gone, Whole
  <2>3. \A v \in Work :
          /\ manifest'[v].result \in {"none", "ok", "failed"}
          /\ manifest'[v].result = "ok" => manifest'[v].made.state = "made"
          /\ manifest'[v].result = "none" <=> v \in since'[v]
    BY <1>1, <1>11, <1>3 DEF TypeOK
  <2> QED BY <1>2, <1>3, <2>1, <2>2, <2>3 DEF TypeOK
<1>5. Shape'
  BY DEF End, Record, Shape, Whole
<1>6. \A w \in Work : Reads(w) \subseteq Work /\ w \notin Reads(w)
  BY ReadsOthers DEF Work
<1>7. \A w \in Work : u \in Reads(w) => status[w] # "running"
  BY <1>3 DEF ReadsStill
<1>8. ReadsStill'
  BY <1>1, <1>11, <1>6, <1>7 DEF ReadsStill
<1>9. ReadSince'
  BY <1>1, <1>11, <1>2, <1>3, <1>6 DEF ReadSince, ReadsStill
<1>10. HashesTrue'
  <2>1. ModuleOf[u] \in Module /\ hashes[ModuleOf[u]] # None
    BY <1>3, UnitAssumption DEF TypeOK
  <2>2. ASSUME calm, NEW v \in Work, manifest'[v].result = "ok"
        PROVE  manifest'[v].made.code = manifest'[v].hash.code
    BY <1>1, <1>11, <1>3, <2>1, <2>2 DEF HashesTrue
  <2>3. ASSUME calm, NEW v \in Work, status'[v] = "running"
        PROVE  making'[v].code = src[ModuleOf[v]].code
    BY <1>1, <1>11, <2>3 DEF HashesTrue
  <2> QED BY <1>2, <2>2, <2>3 DEF HashesTrue
<1> QED BY <1>4, <1>5, <1>8, <1>9, <1>10

LEMMA FailKeeps ==
  ASSUME IInv, NEW u \in Work, Fail(u)
  PROVE  IInv'
<1> USE DEF IInv
<1>1. \A v \in Work \ {u} :
        /\ making'[v] = making[v] /\ status'[v] = status[v]
        /\ since'[v] = since[v] \cup {u} /\ manifest'[v] = manifest[v]
  BY DEF Fail, Record, Shape, TypeOK
<1>11. /\ making'[u] = Gone /\ status'[u] = "failed" /\ since'[u] = {}
       /\ manifest'[u].result = "failed"
  BY DEF Fail, Record, Shape, TypeOK
<1>2. UNCHANGED <<calm, restores, src, hashCache, cmd, hashes, cached>>
  BY DEF Fail, modes
<1>12. PICK left \in {Whole(u)} \cup {Half(u, torn) : torn \in SUBSET Part} :
         output' = [output EXCEPT ![u] = left]
  BY DEF Fail
<1>13. /\ left = [p \in Part |-> left[p]]
       /\ \A p \in Part : left[p].state \in {"gone", "torn", "made"}
  <2>1. /\ making[u].state = "made"
        /\ \A p \in Part : output[u][p].state \in {"gone", "torn", "made"}
    BY DEF Fail, TypeOK
  <2> QED BY <1>12, <2>1 DEF Whole, Half, Torn
<1>14. \A v \in Work : output'[v] = IF v = u THEN left ELSE output[v]
  BY <1>12 DEF Shape
<1>3. status[u] = "running" /\ cmd # "idle" /\ disturbances' \in 0..MaxDisturbances
  BY LimitAssumption DEF Fail, Disturb, TypeOK
<1>4. TypeOK'
  <2>1. /\ status' \in [Work -> {"out", "pending", "cached", "running", "ok", "failed"}]
        /\ since' \in [Work -> SUBSET Work]
    BY DEF Fail, Record, TypeOK
  <2>2. \A v \in Work :
          /\ making'[v].state = (IF status'[v] = "running" THEN "made" ELSE "gone")
          /\ status'[v] # "out" => hashes[ModuleOf[v]] # None
    BY <1>1, <1>11, <1>3 DEF TypeOK, Gone
  <2>4. \A v \in Work : \A q \in Part : output'[v][q].state \in {"gone", "torn", "made"}
    BY <1>13, <1>14 DEF TypeOK
  <2>3. \A v \in Work :
          /\ manifest'[v].result \in {"none", "ok", "failed"}
          /\ manifest'[v].result = "ok" => manifest'[v].made.state = "made"
          /\ manifest'[v].result = "none" <=> v \in since'[v]
    BY <1>1, <1>11, <1>3 DEF TypeOK
  <2> QED BY <1>2, <1>3, <2>1, <2>2, <2>3, <2>4 DEF TypeOK
<1>5. Shape'
  <2>1. output = [v \in Work |-> [p \in Part |-> output[v][p]]]
    BY DEF Shape
  <2>2. \A v \in Work : output'[v] = [p \in Part |-> output'[v][p]]
    BY <1>13, <1>14, <2>1
  <2>3. output' = [v \in Work |-> output'[v]]
    BY <1>12, <2>1
  <2>4. output' = [v \in Work |-> [p \in Part |-> output'[v][p]]]
    BY <2>2, <2>3
  <2>5. /\ manifest' = [v \in Work |-> manifest'[v]]
        /\ making' = [v \in Work |-> making'[v]]
    BY DEF Fail, Record, Shape
  <2> QED BY <2>4, <2>5 DEF Shape
<1>6. \A w \in Work : Reads(w) \subseteq Work
  BY ReadsOthers DEF Work
<1>7. \A w \in Work : u \in Reads(w) => status[w] # "running"
  BY <1>3 DEF ReadsStill
<1>8. ReadsStill'
  BY <1>1, <1>11, <1>14, <1>6, <1>7 DEF ReadsStill
<1>9. ReadSince'
  BY <1>1, <1>11, <1>14, <1>2, <1>6 DEF ReadSince
<1>10. HashesTrue'
  BY <1>1, <1>11, <1>2 DEF HashesTrue
<1> QED BY <1>4, <1>5, <1>8, <1>9, <1>10

\* A command ends, or dies.
LEMMA IdleKeeps ==
  ASSUME IInv, Idle, UNCHANGED <<calm, restores, src, since>>, disturbances' \in 0..MaxDisturbances,
         output' = [u \in Work |-> [p \in Part |-> output'[u][p]]],
         \A u \in Work : \A p \in Part :
           /\ output'[u][p].state \in {"gone", "torn", "made"}
           /\ ~restores /\ output'[u][p].state = "made" => output'[u][p] = output[u][p],
         hashCache' \in [Module -> [hash : Source \cup {None}, fresh : BOOLEAN]],
         \A m \in Module : hashCache'[m].fresh => hashCache'[m].hash # None,
         calm => \A m \in Module : hashCache'[m].fresh => hashCache'[m].hash = src[m],
         manifest' = [u \in Work |-> manifest'[u]],
         \A u \in Work :
           /\ manifest'[u].result = manifest[u].result
           /\ manifest[u].result = "ok" => manifest'[u].made = manifest[u].made,
         calm => \A u \in Work :
           manifest[u].result = "ok" => manifest'[u].hash.code = manifest[u].hash.code
  PROVE  IInv'
<1> USE DEF IInv
<1>1. \A u \in Work : status'[u] = "out" /\ making'[u] = Gone
  BY DEF Idle
<1>2. TypeOK'
  <2>1. /\ status' \in [Work -> {"out", "pending", "cached", "running", "ok", "failed"}]
        /\ hashes' \in [Module -> Source \cup {None}]
        /\ cmd' = "idle" /\ cached' = {} /\ \A m \in Module : hashes'[m] = None
    BY DEF Idle
  <2>2. \A u \in Work : making'[u].state = "gone" /\ status'[u] = "out"
    BY <1>1 DEF Gone
  <2>3. \A u \in Work :
          /\ manifest'[u].result \in {"none", "ok", "failed"}
          /\ manifest'[u].result = "ok" => manifest'[u].made.state = "made"
          /\ manifest'[u].result = "none" <=> u \in since'[u]
    <3>1. \A u \in Work :
            /\ manifest[u].result \in {"none", "ok", "failed"}
            /\ manifest[u].result = "ok" => manifest[u].made.state = "made"
            /\ manifest[u].result = "none" <=> u \in since[u]
      BY DEF TypeOK
    <3> HIDE DEF IInv
    <3>2. since' = since
      OBVIOUS
    <3>3. ASSUME NEW u \in Work
          PROVE  /\ manifest'[u].result = manifest[u].result
                 /\ manifest[u].result = "ok" => manifest'[u].made = manifest[u].made
      OBVIOUS
    <3> QED BY ONLY <3>1, <3>2, <3>3
  <2>4. \A u \in Work : \A p \in Part : output'[u][p].state \in {"gone", "torn", "made"}
    OBVIOUS
  <2>5. calm' \in BOOLEAN /\ restores' \in BOOLEAN /\ src' \in [Module -> Source] /\ since' \in [Work -> SUBSET Work]
    BY DEF TypeOK
  <2> HIDE DEF IInv
  <2> QED BY <1>1, <2>1, <2>2, <2>3, <2>4, <2>5 DEF TypeOK
<1>3. Shape'
  BY DEF Idle, Shape
<1>4. ReadsStill'
  BY <1>1 DEF ReadsStill
<1>5. ReadSince'
  <2>1. \A u \in Work : Reads(u) \subseteq Work
    BY ReadsOthers DEF Work
  <2> QED BY <2>1 DEF ReadSince
<1>6. HashesTrue'
  <2>1. \A m \in Module : hashes'[m] = None
    BY DEF Idle
  <2> QED BY <1>1, <2>1 DEF HashesTrue
<1> QED BY <1>2, <1>3, <1>4, <1>5, <1>6

\* The reconciliation puts hashes into manifests that are hashes of the same sources, if
\* the user kept to it.
LEMMA ReconciledKeeps ==
  ASSUME IInv, NEW units, units \subseteq Stale, manifest' = Reconciled(units)
  PROVE  /\ manifest' = [u \in Work |-> manifest'[u]]
         /\ \A u \in Work :
              /\ manifest'[u].result = manifest[u].result
              /\ manifest[u].result = "ok" => manifest'[u].made = manifest[u].made
         /\ calm => \A u \in Work :
              manifest[u].result = "ok" => manifest'[u].hash.code = manifest[u].hash.code
<1> USE DEF IInv
<1>1. ASSUME NEW u \in Work
      PROVE  /\ manifest'[u].result = manifest[u].result
             /\ manifest[u].result = "ok" => manifest'[u].made = manifest[u].made
             /\ calm /\ manifest[u].result = "ok" => manifest'[u].hash.code = manifest[u].hash.code
  <2> DEFINE m == ModuleOf[u]
  <2>1. CASE manifest'[u] = manifest[u]
    BY <2>1
  <2>2. CASE /\ manifest'[u] = [manifest[u] EXCEPT !.hash = CurrentHash(m)]
             /\ u \in Stale
    <3>1. PICK v \in UnitsOf(m) : status[v] = "ok"
      BY <2>2 DEF Stale, Drifted, Built
    <3>2. m \in Module /\ hashes[m] # None
      BY <3>1, UnitAssumption DEF TypeOK, UnitsOf, Work
    <3>3. calm => CurrentHash(m).code = hashes[m].code
      BY <3>2, HashIsTrue DEF HashesTrue
    <3>4. PICK n : n = manifest[u]
      OBVIOUS
    <3> QED BY <2>2, <3>3 DEF TypeOK, Stale
  <2> QED BY <2>1, <2>2 DEF Reconciled
<1>2. manifest' = [u \in Work |-> manifest'[u]]
  BY DEF Reconciled
<1> QED BY <1>1, <1>2

LEMMA FinishBuildKeeps ==
  ASSUME IInv, FinishBuild
  PROVE  IInv'
<1> USE DEF IInv
<1>1. Idle /\ UNCHANGED <<calm, restores, src, output, since, disturbances>>
  BY DEF FinishBuild, modes
<1>2. /\ hashCache' \in [Module -> [hash : Source \cup {None}, fresh : BOOLEAN]]
      /\ \A m \in Module : hashCache'[m].fresh => hashCache'[m].hash # None
  BY HashIsSource DEF FinishBuild, TypeOK
<1>3. calm => \A m \in Module : hashCache'[m].fresh => hashCache'[m].hash = src[m]
  BY HashIsTrue DEF FinishBuild, HashesTrue
<1>4. manifest' = Reconciled(Stale)
  BY DEF FinishBuild
<1>5. /\ output' = [u \in Work |-> [p \in Part |-> output'[u][p]]]
      /\ \A u \in Work : \A p \in Part :
           output'[u][p].state \in {"gone", "torn", "made"} /\ output'[u][p] = output[u][p]
  BY <1>1 DEF Shape, TypeOK
<1>6. disturbances' \in 0..MaxDisturbances
  BY <1>1 DEF TypeOK
<1> HIDE DEF IInv
<1> QED BY <1>1, <1>2, <1>3, <1>4, <1>5, <1>6, IdleKeeps, ReconciledKeeps

LEMMA FinishTestKeeps ==
  ASSUME IInv, FinishTest
  PROVE  IInv'
<1>1. Idle /\ UNCHANGED <<calm, restores, src, hashCache, output, manifest, since, disturbances>>
  BY DEF FinishTest, disk, modes
<1>2. disturbances' \in 0..MaxDisturbances
  BY <1>1 DEF IInv, TypeOK
<1>3. /\ hashCache' \in [Module -> [hash : Source \cup {None}, fresh : BOOLEAN]]
      /\ \A m \in Module : hashCache'[m].fresh => hashCache'[m].hash # None
      /\ calm => \A m \in Module : hashCache'[m].fresh => hashCache'[m].hash = src[m]
      /\ manifest' = [u \in Work |-> manifest'[u]]
  BY <1>1 DEF IInv, TypeOK, Shape, HashesTrue
<1>4. /\ output' = [u \in Work |-> [p \in Part |-> output'[u][p]]]
      /\ \A u \in Work : \A p \in Part :
           output'[u][p].state \in {"gone", "torn", "made"} /\ output'[u][p] = output[u][p]
  BY <1>1 DEF IInv, Shape, TypeOK
<1> QED BY <1>1, <1>2, <1>3, <1>4, IdleKeeps

LEMMA CrashKeeps ==
  ASSUME IInv, Crash
  PROVE  IInv'
<1>1. Idle /\ UNCHANGED <<calm, restores, src, hashCache, since>>
  BY DEF Crash, modes
<1>2. disturbances' \in 0..MaxDisturbances
  BY LimitAssumption DEF IInv, TypeOK, Crash, Disturb
<1>3. /\ hashCache' \in [Module -> [hash : Source \cup {None}, fresh : BOOLEAN]]
      /\ \A m \in Module : hashCache'[m].fresh => hashCache'[m].hash # None
      /\ calm => \A m \in Module : hashCache'[m].fresh => hashCache'[m].hash = src[m]
  BY <1>1 DEF IInv, TypeOK, HashesTrue
<1>4. PICK units \in SUBSET Stale : manifest' = Reconciled(units)
  BY DEF Crash
<1>5. PICK whole \in SUBSET Running, torn \in [Running -> SUBSET Part] :
        /\ whole # {} => restores
        /\ output' = [u \in Work |-> IF u \in whole THEN Whole(u)
                                    ELSE IF u \in Running THEN Half(u, torn[u])
                                    ELSE output[u]]
  BY DEF Crash
<1>6. ASSUME NEW u \in Work
      PROVE  /\ output'[u] = [p \in Part |-> output'[u][p]]
             /\ \A p \in Part :
                  /\ output'[u][p].state \in {"gone", "torn", "made"}
                  /\ ~restores /\ output'[u][p].state = "made" => output'[u][p] = output[u][p]
  <2>1. output[u] = [p \in Part |-> output[u][p]]
    BY DEF IInv, Shape
  <2>2. \A p \in Part : output[u][p].state \in {"gone", "torn", "made"}
    BY DEF IInv, TypeOK
  <2>3. CASE u \in whole
    <3>1. making[u].state = "made"
      BY <2>3 DEF Running, IInv, TypeOK
    <3> QED BY <1>5, <2>3, <3>1 DEF Whole
  <2>4. CASE u \notin whole /\ u \in Running
    BY <1>5, <2>2, <2>4 DEF Half, Torn
  <2>5. CASE u \notin Running
    BY <1>5, <2>1, <2>2, <2>5
  <2> QED BY <2>3, <2>4, <2>5
<1>7. output' = [u \in Work |-> [p \in Part |-> output'[u][p]]]
  BY <1>5, <1>6
<1> QED BY <1>1, <1>2, <1>3, <1>4, <1>6, <1>7, IdleKeeps, ReconciledKeeps

\* The user changes the sources of a module: the commands' own state stays, and the hash
\* on file is not trusted more than before.
LEMMA SourcesKeep ==
  ASSUME IInv, NEW m \in Module, Edit(m) \/ AddFile(m) \/ RemoveFile(m)
  PROVE  IInv'
<1> USE DEF IInv
<1>1. UNCHANGED <<calm, restores, output, manifest, since, cmd, hashes, cached, status, making>>
  BY DEF Edit, AddFile, RemoveFile, disk, command, modes
<1>2. disturbances' \in 0..MaxDisturbances /\ (calm => cmd = "idle")
  BY LimitAssumption DEF TypeOK, Edit, AddFile, RemoveFile, MayEdit, Disturb
<1>3. /\ src' \in [Module -> Source]
      /\ \A k \in Module \ {m} : src'[k] = src[k]
  <2>1. /\ src[m] \in [code : {1, 2}, sum : 0..2, extra : BOOLEAN]
        /\ 3 - src[m].code \in {1, 2}
    BY DEF TypeOK, Source
  <2>2. /\ [src[m] EXCEPT !.code = 3 - src[m].code] \in Source
        /\ [src[m] EXCEPT !.extra = TRUE] \in Source
        /\ [src[m] EXCEPT !.extra = FALSE] \in Source
    <3> HIDE DEF IInv
    <3> QED BY <2>1, Zenon DEF Source
  <2>3. PICK s \in Source : src' = [src EXCEPT ![m] = s]
    <3>1. CASE src' = [src EXCEPT ![m].code = 3 - src[m].code]
      BY <3>1, <2>2
    <3>2. CASE src' = [src EXCEPT ![m].extra = TRUE]
      BY <3>2, <2>2
    <3>3. CASE src' = [src EXCEPT ![m].extra = FALSE]
      BY <3>3, <2>2
    <3> QED BY <3>1, <3>2, <3>3 DEF Edit, AddFile, RemoveFile
  <2> QED BY <2>3 DEF TypeOK
<1>4. /\ hashCache' \in [Module -> [hash : Source \cup {None}, fresh : BOOLEAN]]
      /\ \A k \in Module : hashCache'[k].fresh =>
           hashCache[k].fresh /\ hashCache'[k].hash = hashCache[k].hash
  <2>1. CASE hashCache' = hashCache
    BY <2>1 DEF TypeOK
  <2>2. CASE hashCache' = [hashCache EXCEPT ![m].fresh = FALSE]
    <3>1. hashCache[m] \in [hash : Source \cup {None}, fresh : BOOLEAN]
      BY DEF TypeOK
    <3>2. [hashCache[m] EXCEPT !.fresh = FALSE] \in [hash : Source \cup {None}, fresh : BOOLEAN]
      <4> HIDE DEF IInv
      <4> QED BY <3>1, Zenon
    <3>3. ~hashCache'[m].fresh /\ \A k \in Module \ {m} : hashCache'[k] = hashCache[k]
      BY <2>2 DEF TypeOK
    <3> QED BY <2>2, <3>2, <3>3 DEF TypeOK
  <2> QED BY <2>1, <2>2 DEF Edit, AddFile, RemoveFile, disk
<1>5. TypeOK'
  BY <1>1, <1>2, <1>3, <1>4 DEF TypeOK
<1>6. Shape' /\ ReadsStill' /\ ReadSince'
  BY <1>1 DEF Shape, ReadsStill, ReadSince
<1>7. calm => \A k \in Module : hashCache'[k].fresh => hashCache'[k].hash = src'[k]
  <2>1. ASSUME calm, Edit(m) PROVE ~hashCache'[m].fresh
    BY <2>1 DEF TypeOK, Edit
  <2>2. ASSUME calm, RemoveFile(m) PROVE ~hashCache'[m].fresh
    BY <2>2 DEF TypeOK, RemoveFile, HashesTrue
  <2>3. calm => ~hashCache'[m].fresh
    BY <2>1, <2>2 DEF AddFile
  <2> QED BY <1>3, <1>4, <2>3 DEF HashesTrue
<1>8. ASSUME calm PROVE \A k \in Module : hashes'[k] = None
  BY <1>1, <1>2, <1>8 DEF TypeOK
<1>9. HashesTrue'
  BY <1>1, <1>2, <1>7, <1>8 DEF HashesTrue, TypeOK
<1> QED BY <1>5, <1>6, <1>9

LEMMA DamageKeeps ==
  ASSUME IInv, NEW u \in Work, Damage(u)
  PROVE  IInv'
<1> USE DEF IInv
<1>1. UNCHANGED <<calm, restores, src, hashCache, manifest, since, cmd, hashes, cached, status, making>>
  BY DEF Damage, command, modes
<1>2. disturbances' \in 0..MaxDisturbances
  BY LimitAssumption DEF Damage, Disturb, TypeOK
<1>3. PICK gone \in Part :
        output' = [output EXCEPT ![u] = [p \in Part |-> IF p = gone THEN Gone ELSE output[u][p]]]
  BY DEF Damage
<1>4. \A v \in Work : \A p \in Part :
        output'[v][p] = IF v = u /\ p = gone THEN Gone ELSE output[v][p]
  BY <1>3 DEF Shape
<1>5. TypeOK'
  <2>1. \A v \in Work : \A p \in Part : output'[v][p].state \in {"gone", "torn", "made"}
    BY <1>4 DEF TypeOK, Gone
  <2> QED BY <1>1, <1>2, <2>1 DEF TypeOK
<1>6. Shape'
  BY <1>1, <1>3 DEF Shape
<1>7. \A w \in Work : Reads(w) \subseteq Work
  BY ReadsOthers DEF Work
<1>8. ReadsStill' /\ ReadSince'
  BY <1>1, <1>4, <1>7 DEF ReadsStill, ReadSince, Gone
<1>9. HashesTrue'
  BY <1>1 DEF HashesTrue
<1> QED BY <1>5, <1>6, <1>8, <1>9

LEMMA LoseManifestKeeps ==
  ASSUME IInv, NEW u \in Work, LoseManifest(u)
  PROVE  IInv'
<1> USE DEF IInv
<1>1. UNCHANGED <<calm, restores, src, hashCache, output, cmd, hashes, cached, status, making>>
  BY DEF LoseManifest, command, modes
<1>2. disturbances' \in 0..MaxDisturbances
  BY LimitAssumption DEF LoseManifest, Disturb, TypeOK
<1>3. /\ manifest'[u].result = "none" /\ since'[u] = since[u] \cup {u}
      /\ \A v \in Work \ {u} : manifest'[v] = manifest[v] /\ since'[v] = since[v]
  BY DEF LoseManifest, NoManifest, Shape, TypeOK
<1>4. TypeOK'
  <2>1. since' \in [Work -> SUBSET Work]
    BY DEF LoseManifest, TypeOK
  <2>2. \A v \in Work :
          /\ manifest'[v].result \in {"none", "ok", "failed"}
          /\ manifest'[v].result = "ok" => manifest'[v].made.state = "made"
          /\ manifest'[v].result = "none" <=> v \in since'[v]
    BY <1>3 DEF TypeOK
  <2> QED BY <1>1, <1>2, <2>1, <2>2 DEF TypeOK
<1>5. Shape'
  BY <1>1 DEF LoseManifest, Shape
<1>6. ReadsStill'
  BY <1>1 DEF ReadsStill
<1>7. ReadSince'
  BY <1>1, <1>3 DEF ReadSince
<1>8. HashesTrue'
  BY <1>1, <1>3 DEF HashesTrue
<1> QED BY <1>4, <1>5, <1>6, <1>7, <1>8

LEMMA StepIInv == IInv /\ [Next]_vars => IInv'
<1> SUFFICES ASSUME IInv, [Next]_vars PROVE IInv'
  OBVIOUS
<1>1. ASSUME NEW u \in Work, UnitStep(u) \/ Refuse(u) PROVE IInv'
  <2>1. CASE Begin(u)
    BY <2>1, BeginKeeps
  <2>2. CASE End(u)
    BY <2>2, EndKeeps
  <2>3. CASE Skip(u)
    <3>1. disturbances' \in 0..MaxDisturbances
      BY <2>3 DEF Skip, IInv, TypeOK
    <3> QED BY <2>3, <3>1, AsideKeeps DEF Skip, modes
  <2>4. CASE Cascade(u)
    <3>1. disturbances' \in 0..MaxDisturbances
      BY <2>4 DEF Cascade, IInv, TypeOK
    <3> QED BY <2>4, <3>1, AsideKeeps DEF Cascade, modes
  <2>5. CASE Refuse(u)
    <3>1. disturbances' \in 0..MaxDisturbances
      BY <2>5, LimitAssumption DEF Refuse, Disturb, IInv, TypeOK
    <3> QED BY <2>5, <3>1, AsideKeeps DEF Refuse, modes
  <2> QED BY <1>1, <2>1, <2>2, <2>3, <2>4, <2>5 DEF UnitStep
<1>2. ASSUME NEW u \in Work, Fail(u) \/ Damage(u) \/ LoseManifest(u) PROVE IInv'
  BY <1>2, FailKeeps, DamageKeeps, LoseManifestKeeps
<1>3. CASE Finish \/ Crash
  BY <1>3, FinishBuildKeeps, FinishTestKeeps, CrashKeeps DEF Finish
<1>4. CASE User
  BY <1>4, SourcesKeep, StartBuildKeeps, StartTestKeeps DEF User
<1>5. CASE UNCHANGED vars
  <2>1. UNCHANGED <<calm, restores, src, hashCache, output, manifest, since, cmd, hashes, cached, status,
                    making, disturbances>>
    BY <1>5 DEF vars, disk, command, modes
  <2>2. TypeOK'
    BY <2>1 DEF IInv, TypeOK
  <2>3. Shape' /\ ReadsStill' /\ ReadSince'
    BY <2>1 DEF IInv, Shape, ReadsStill, ReadSince
  <2>4. HashesTrue'
    BY <2>1 DEF IInv, HashesTrue
  <2> QED BY <2>2, <2>3, <2>4 DEF IInv
<1> QED BY <1>1, <1>2, <1>3, <1>4, <1>5 DEF Next

\* The inductive invariant: what a unit read is what is there, until it is read anew.
THEOREM Invariant == Spec => []IInv
BY InitIInv, StepIInv, PTL DEF Spec

\* Units, manifests and hashes keep their form whatever is edited, damaged or killed.
THEOREM TypeCorrect == Spec => []TypeOK
<1>1. IInv => TypeOK
  BY DEF IInv
<1> QED BY <1>1, Invariant, PTL

\* What a unit that detection finds up to date lists was made of what is there of the parts
\* listed by the units of other modules it finds up to date (checkUoWChanged with
\* hasNewerBuildManifest and ValidateUoW), unless a unit was killed when all it made was
\* there but its manifest.
THEOREM DependenciesUsed == Spec => []UsesDependencies
<1>1. IInv => UsesDependencies
  <2> SUFFICES ASSUME IInv, ~restores, NEW u \in Work, NEW v \in Upstream(u),
                      UpToDate(u, CurrentHash(ModuleOf[u])),
                      UpToDate(v, CurrentHash(ModuleOf[v])),
                      NEW p \in Listed[u], NEW q \in Listed[v]
               PROVE  output[u][p].read[v][q] = output[v][q]
    BY DEF UsesDependencies
  <2>1. v \in Unit /\ v \in Work /\ v \in Reads(u) /\ q \in Part
    BY ReadsOthers, UnitAssumption DEF Work, Upstream
  <2>2. /\ manifest[u].result = "ok" /\ output[u][p] = manifest[u].made
        /\ manifest[v].result = "ok" /\ output[v][q] = manifest[v].made
    BY DEF UpToDate, Valid
  <2>3. v \notin since[u]
    BY <2>1, <2>2, UnitAssumption
    DEF UpToDate, NewerBuild, Reads, Upstream, DependencyModules, UnitsOf, Work
  <2>4. output[v][q].state = "made"
    BY <2>1, <2>2 DEF IInv, TypeOK
  <2> QED BY <2>1, <2>2, <2>3, <2>4 DEF IInv, ReadSince
<1> QED BY <1>1, Invariant, PTL

\* What a unit that detection finds up to date lists was made of the sources there are, if
\* the user edits between commands and adds no file (GetOrCompute with ValidateUoW and
\* reconcileBuildHashes).
THEOREM SourcesUsed == Spec => []SourcesBuilt
<1>1. IInv => SourcesBuilt
  <2> SUFFICES ASSUME IInv, calm, NEW u \in Work, UpToDate(u, CurrentHash(ModuleOf[u])),
                      NEW p \in Listed[u]
               PROVE  output[u][p].code = src[ModuleOf[u]].code
    BY DEF SourcesBuilt
  <2>1. CurrentHash(ModuleOf[u]) = src[ModuleOf[u]]
    BY HashIsTrue, UnitAssumption DEF IInv
  <2> QED BY <2>1 DEF IInv, HashesTrue, UpToDate, Valid
<1> QED BY <1>1, Invariant, PTL

-----------------------------------------------------------------------------
(* What a build did it need not do again.                                  *)

\* A build runs units of build only; what ended well in this command has the command's
\* hash, if it still has a manifest, and nothing it read was made since.
BuiltNow ==
  /\ cmd = "build" => \A u \in Test : status[u] = "out"
  /\ \A u \in Work : status[u] = "ok" =>
       /\ manifest[u].result # "none" =>
            manifest[u].result = "ok" /\ manifest[u].hash = hashes[ModuleOf[u]]
       /\ \A v \in Reads(u) : status[v] \in {"out", "cached", "ok"} /\ v \notin since[u]

\* A step of one unit that is pending or runs; it disturbs none that ended well, for it is
\* none of what they read.
LEMMA UnitKeepsBuilt ==
  ASSUME IInv, BuiltNow, NEW u \in Work, status[u] \in {"pending", "running"},
         UNCHANGED <<cmd, hashes>>,
         NEW s \in {"running", "cached", "failed"}, status' = [status EXCEPT ![u] = s],
         \A v \in Work \ {u} : /\ manifest'[v] = manifest[v]
                               /\ since'[v] \subseteq since[v] \cup {u}
  PROVE  BuiltNow'
<1>1. status \in [Work -> {"out", "pending", "cached", "running", "ok", "failed"}]
  BY DEF IInv, TypeOK
<1>2. \A v \in Work : Reads(v) \subseteq Work
  BY ReadsOthers DEF Work
<1>3. cmd' = "build" => \A v \in Test : status'[v] = "out"
  BY <1>1 DEF BuiltNow, Work
<1>4. ASSUME NEW w \in Work, status'[w] = "ok"
      PROVE  /\ manifest'[w].result # "none" =>
                  manifest'[w].result = "ok" /\ manifest'[w].hash = hashes'[ModuleOf[w]]
             /\ \A v \in Reads(w) : status'[v] \in {"out", "cached", "ok"} /\ v \notin since'[w]
  <2>1. w # u /\ status[w] = "ok"
    BY <1>1, <1>4
  <2>2. u \notin Reads(w)
    BY <2>1 DEF BuiltNow
  <2> QED BY <1>1, <1>2, <2>1, <2>2 DEF BuiltNow
<1> QED BY <1>3, <1>4 DEF BuiltNow

\* A unit ends well: nothing it read runs, or ran since.
LEMMA EndKeepsBuilt ==
  ASSUME IInv, BuiltNow, NEW u \in Work, End(u)
  PROVE  BuiltNow'
<1>1. /\ status \in [Work -> {"out", "pending", "cached", "running", "ok", "failed"}]
      /\ manifest = [v \in Work |-> manifest[v]]
  BY DEF IInv, TypeOK, Shape
<1>2. /\ status[u] = "running" /\ status' = [status EXCEPT ![u] = "ok"]
      /\ UNCHANGED <<cmd, hashes>>
      /\ manifest'[u].result = "ok" /\ manifest'[u].hash = hashes[ModuleOf[u]]
      /\ since'[u] = {}
      /\ \A v \in Work \ {u} : manifest'[v] = manifest[v] /\ since'[v] = since[v] \cup {u}
  BY <1>1 DEF End, Record
<1>3. \A v \in Work : Reads(v) \subseteq Work /\ v \notin Reads(v)
  BY ReadsOthers DEF Work
<1>4. cmd' = "build" => \A v \in Test : status'[v] = "out"
  BY <1>1, <1>2 DEF BuiltNow, Work
<1>5. \A v \in Reads(u) : status'[v] \in {"out", "cached", "ok"}
  BY <1>1, <1>2, <1>3 DEF IInv, ReadsStill
<1>6. ASSUME NEW w \in Work, w # u, status'[w] = "ok"
      PROVE  /\ manifest'[w].result # "none" =>
                  manifest'[w].result = "ok" /\ manifest'[w].hash = hashes'[ModuleOf[w]]
             /\ \A v \in Reads(w) : status'[v] \in {"out", "cached", "ok"} /\ v \notin since'[w]
  <2>1. status[w] = "ok" /\ u \notin Reads(w)
    BY <1>1, <1>2, <1>6 DEF BuiltNow
  <2> QED BY <1>1, <1>2, <1>3, <1>6, <2>1 DEF BuiltNow
<1> QED BY <1>2, <1>4, <1>5, <1>6 DEF BuiltNow

LEMMA InitBuilt == Init => BuiltNow
BY DEF Init, BuiltNow, Work

LEMMA StepBuilt == IInv /\ BuiltNow /\ [Next]_vars => BuiltNow'
<1> SUFFICES ASSUME IInv, BuiltNow, [Next]_vars PROVE BuiltNow'
  OBVIOUS
<1>1. ASSUME NEW u \in Work, Skip(u) \/ Begin(u) \/ Refuse(u) \/ Cascade(u)
      PROVE  BuiltNow'
  <2>1. status[u] = "pending" /\ UNCHANGED <<cmd, hashes, manifest, since>>
    BY <1>1 DEF Skip, Begin, Refuse, Cascade, disk
  <2>2. PICK s \in {"running", "cached", "failed"} : status' = [status EXCEPT ![u] = s]
    BY <1>1 DEF Skip, Begin, Refuse, Cascade
  <2> QED BY <2>1, <2>2, UnitKeepsBuilt
<1>2. ASSUME NEW u \in Work, Fail(u) PROVE BuiltNow'
  <2>1. /\ status[u] = "running" /\ UNCHANGED <<cmd, hashes>>
        /\ status' = [status EXCEPT ![u] = "failed"]
    BY <1>2 DEF Fail
  <2>2. \A v \in Work \ {u} : manifest'[v] = manifest[v] /\ since'[v] = since[v] \cup {u}
    BY <1>2 DEF Fail, Record, IInv, Shape
  <2> QED BY <2>1, <2>2, UnitKeepsBuilt
<1>3. ASSUME NEW u \in Work, End(u) PROVE BuiltNow'
  BY <1>3, EndKeepsBuilt
<1>4. CASE Finish \/ Crash
  <2>1. cmd' = "idle" /\ \A u \in Work : status'[u] = "out"
    BY <1>4 DEF Finish, FinishBuild, FinishTest, Crash, Idle
  <2> QED BY <2>1 DEF BuiltNow
<1>5. ASSUME NEW requested, StartBuild(requested) PROVE BuiltNow'
  <2>1. /\ \A u \in Work : status'[u] # "ok"
        /\ \A u \in Test : status'[u] = "out"
    BY <1>5, UnitAssumption DEF StartBuild, Work
  <2> QED BY <2>1 DEF BuiltNow
<1>6. ASSUME NEW scope, StartTest(scope) PROVE BuiltNow'
  <2>1. cmd' = "test" /\ \A u \in Work : status'[u] # "ok"
    BY <1>6 DEF StartTest
  <2> QED BY <2>1 DEF BuiltNow
<1>7. CASE \/ \E m \in Module : Edit(m) \/ AddFile(m) \/ RemoveFile(m)
           \/ \E u \in Work : Damage(u)
           \/ UNCHANGED vars
  <2>1. UNCHANGED <<cmd, hashes, status, manifest, since>>
    BY <1>7 DEF Edit, AddFile, RemoveFile, Damage, vars, command, disk
  <2> QED BY <2>1 DEF BuiltNow
<1>8. ASSUME NEW u \in Work, LoseManifest(u) PROVE BuiltNow'
  <2>1. UNCHANGED <<cmd, hashes, status>>
    BY <1>8 DEF LoseManifest, command
  <2>2. /\ manifest'[u].result = "none" /\ since'[u] = since[u] \cup {u}
        /\ \A v \in Work \ {u} : manifest'[v] = manifest[v] /\ since'[v] = since[v]
    BY <1>8 DEF LoseManifest, NoManifest, IInv, Shape, TypeOK
  <2> QED BY <2>1, <2>2, ReadsOthers DEF BuiltNow
<1> QED BY <1>1, <1>2, <1>3, <1>4, <1>5, <1>6, <1>7, <1>8 DEF Next, User, UnitStep

\* The hash the next command takes is that of the sources, if the user kept to it.
LEMMA HashIsTrueNext ==
  ASSUME HashesTrue', calm', NEW m \in Module
  PROVE  CurrentHash(m)' = src'[m]
BY DEF HashesTrue, CurrentHash

\* After a build, a unit it built is up to date: reconcileBuildHashes put the hash of the
\* sources as the build left them into the manifests, and nothing it depends on was built
\* later, if it waited for all of that.
LEMMA FinishLeavesNothing ==
  ASSUME AllToAll, IInv, IInv', BuiltNow, calm, FinishBuild,
         NEW u \in Work, status[u] = "ok", ModuleOf[u] \in Built, Valid(u)
  PROVE  UpToDate(u, CurrentHash(ModuleOf[u]))'
<1> DEFINE m == ModuleOf[u]
<1>1. m \in Module
  BY UnitAssumption
<1>2. u \in Unit
  BY DEF FinishBuild, BuiltNow, Work
<1>3. /\ manifest[u].result = "ok" /\ manifest[u].hash = hashes[m]
      /\ \A v \in Reads(u) : v \notin since[u]
  BY DEF BuiltNow, Valid
<1>4. UNCHANGED <<calm, src, output, since>>
  BY DEF FinishBuild, modes
<1>5. CurrentHash(m) = src[m] /\ CurrentHash(m)' = src[m]
  BY <1>1, <1>4, HashIsTrue, HashIsTrueNext DEF IInv
<1>6. manifest'[u] = IF m \in Drifted THEN [manifest[u] EXCEPT !.hash = CurrentHash(m)]
                     ELSE manifest[u]
  BY <1>2, <1>3 DEF FinishBuild, Reconciled, Stale
<1>7. /\ manifest'[u].result = "ok" /\ manifest'[u].made = manifest[u].made
      /\ manifest'[u].hash = src[m]
  BY <1>3, <1>5, <1>6 DEF Drifted
<1>8. Valid(u)'
  BY <1>4, <1>7, <1>3 DEF Valid
<1>9. ~NewerBuild(u)'
  <2>1. \A v \in Unit : ModuleOf[v] \in DependencyModules(m) => v \notin since[u]
    BY <1>2, <1>3 DEF AllToAll, Reads
  <2> QED BY <1>2, <1>4, <2>1 DEF NewerBuild
<1> QED BY <1>5, <1>7, <1>8, <1>9 DEF UpToDate

\* What a build built, and is still there, the next command finds up to date
\* (buildAfterExecute and checkUoWChanged), when units wait for all they depend on.
THEOREM NothingIsLeft == ASSUME AllToAll PROVE Spec => NothingLeftToDo
<1> DEFINE Leaves == calm /\ FinishBuild =>
             \A u \in Work :
               /\ status[u] = "ok"
               /\ ModuleOf[u] \in Built
               /\ Valid(u)
               => UpToDate(u, CurrentHash(ModuleOf[u]))'
<1>1. IInv /\ IInv' /\ BuiltNow => Leaves
  BY FinishLeavesNothing
<1>2. Spec => []BuiltNow
  BY InitBuilt, StepBuilt, Invariant, PTL DEF Spec
<1>3. Spec => [][Leaves]_vars
  BY <1>1, <1>2, Invariant, PTL DEF Spec
<1> QED BY <1>3 DEF NothingLeftToDo
=============================================================================
