--------------------------- MODULE CIPipeline_proofs ---------------------------
(***************************************************************************)
(* Proofs about CIPipeline, for any modules, any graphs without cycles and *)
(* any number of commits, reruns and failures.                             *)
(***************************************************************************)
EXTENDS CIPipeline, TLAPS

LoopStarted == phase \in {"loop", "poll"} \cup Ended

\* What was taken for valid or has completed was tested.
VerdictsTrue ==
  \A m \in Module : verdict[m] = "valid" \/ status[m] = "completed" => TestedAt(m, at)

\* Detection knows everybody when it ends; the list, which is empty before, then
\* leaves out nobody who was not tested.
NobodyForgotten ==
  /\ phase \in {"query", "filter"} => Listed = {}
  /\ phase # "query" => \A m \in graph.workflow : verdict[m] # "unknown"
  /\ LoopStarted => \A m \in graph.workflow : m \in Listed \/ TestedAt(m, at)
  /\ phase = "green" => \A m \in Listed : status[m] = "completed"

IInv == TypeOK /\ VerdictsTrue /\ NobodyForgotten /\ NobodyWaitsInVain

\* History only grows: commits stay as they are, and so do runs that ended well.
HistoryGrows ==
  /\ head' \in Nat /\ head <= head'
  /\ DOMAIN changes' = 1 .. head'
  /\ \A c \in 1 .. head : changes'[c] = changes[c]
  /\ \A m \in Module : \A i \in DOMAIN runs[m] :
       /\ i \in DOMAIN runs'[m]
       /\ runs[m][i].state \in {"success", "skipped"} => runs'[m][i] = runs[m][i]

----------------------------------------------------------------------------
\* The helpers

LEMMA SequenceIsFunction == \A T : \A q \in Seq(T) : q \in [1 .. Len(q) -> T]
  OBVIOUS

\* A module in a list is one that has a workflow.
LEMMA ListedTyped == ASSUME OrchestratorOK, SchedulerOK
                     PROVE  Listed \subseteq graph.workflow /\ graph.workflow \subseteq Module
  BY GraphAssumption DEF OrchestratorOK, SchedulerOK, Listed

LEMMA CascadeTyped ==
  ASSUME OrchestratorOK, SchedulerOK, NEW F, NEW done, F \subseteq Listed, done \subseteq Listed,
         status' = CascadeFail(F, done), UNCHANGED <<graph, order>>
  PROVE  SchedulerOK'
  <1>1. Dependents(F) \subseteq Listed
    BY DEF Dependents, WithStatus
  <1>2. Listed' = Listed
    BY DEF Listed
  <1>3. QED
    BY <1>1, <1>2, ListedTyped DEF CascadeFail, SchedulerOK

\* A sorted list of S has all of S, since nothing depends on itself.
LEMMA OrderComplete ==
  ASSUME graph \in Graphs, NEW S \in SUBSET Module, NEW n \in Nat, NEW s \in [1 .. n -> S],
         IsDispatchOrder(s, S)
  PROVE  S = {s[i] : i \in 1 .. n}
  <1> DEFINE T == {s[i] : i \in 1 .. n}
             rest == S \ T
  <1>1. Len(s) = n /\ DOMAIN s = 1 .. n
    OBVIOUS
  <1>2. {m \in rest : CIDeps(m) \cap S \subseteq T} = {}
    BY <1>1 DEF IsDispatchOrder
  <1>3. SUFFICES ASSUME rest # {} PROVE FALSE
    OBVIOUS
  <1>4. PICK m \in rest :
          (graph.ciOnly[m] \cup (graph.dependsOn[m] \cap graph.workflow)) \cap rest = {}
    <2>1. rest \in SUBSET Module
      OBVIOUS
    <2>2. QED
      BY <1>3, <2>1, AcyclicAssumption
  <1>5. CIDeps(m) \cap S \subseteq T
    BY <1>4 DEF CIDeps
  <1>6. QED
    BY <1>2, <1>5

\* A run of the orchestrator's commit that ended well is a test of it.
LEMMA PolledTested ==
  ASSUME OrchestratorOK, NEW m \in Module, Polled(m, {"success", "skipped"})
  PROVE  TestedAt(m, at)
  <1>1. PICK i \in DOMAIN runs[m] : runs[m][i].sha = at /\ runs[m][i].state \in {"success", "skipped"}
    BY DEF Polled, RunsAtCommit
  <1>2. at + 1 .. at = {}
    BY DEF OrchestratorOK
  <1>3. ~FilesDiffer(m, at, at)
    BY <1>2 DEF FilesDiffer
  <1>4. QED
    BY <1>1, <1>3 DEF TestedAt

----------------------------------------------------------------------------
\* One step changes GitHub's history, what the orchestrator knows, or the
\* scheduler's books, seldom two of these.

\* Steps that leave the history alone.
LEMMA WhoMovesHistory ==
  ASSUME HistoryOK, OrchestratorOK, [Next]_vars
  PROVE  /\ disturbances' \in Nat
         /\ \/ UNCHANGED <<head, changes, runs>>
            \/ \E S \in Changesets : Push(S)
            \/ \E m \in Module : Dispatch(m)
            \/ \E m \in Module : \E i \in DOMAIN runs[m] : Appear(m, i) \/ Finish(m, i)
  <1>1. Disturbance => disturbances' \in Nat
    BY DEF Disturbance, HistoryOK
  <1>2. UNCHANGED disturbances => disturbances' \in Nat
    BY DEF HistoryOK
  <1>3. (\E S \in Changesets : Push(S)) => Disturbance
    BY DEF Push
  <1>4. Supersede \/ Rerun => UNCHANGED <<head, changes, runs>> /\ (Disturbance \/ UNCHANGED disturbances)
    BY DEF Supersede, Rerun, Begin
  <1>5. Invalidate \/ Filter \/ Conclude \/ Sleep \/ Poll \/ PollFails
          => UNCHANGED <<head, changes, runs>> /\ (Disturbance \/ UNCHANGED disturbances)
    BY DEF Invalidate, Filter, Conclude, Sleep, Poll, PollFails
  <1>6. \A m \in Module : Query(m) \/ DispatchFails(m)
          => UNCHANGED <<head, changes, runs>> /\ (Disturbance \/ UNCHANGED disturbances)
    BY DEF Query, DispatchFails
  <1>7. \A m \in Module : Dispatch(m) => UNCHANGED disturbances
    BY DEF Dispatch
  <1>8. \A m \in Module : \A i \in DOMAIN runs[m] :
          Appear(m, i) \/ Finish(m, i) => Disturbance \/ UNCHANGED disturbances
    BY DEF Appear, Finish
  <1>9. UNCHANGED vars => UNCHANGED <<head, changes, runs, disturbances>>
    BY DEF vars
  <1>10. QED
    BY <1>1, <1>2, <1>3, <1>4, <1>5, <1>6, <1>7, <1>8, <1>9 DEF Next, Schedule, GitHubStep

LEMMA HistoryStep ==
  ASSUME HistoryOK, OrchestratorOK, [Next]_vars
  PROVE  HistoryOK' /\ HistoryGrows
  <1>0. disturbances' \in Nat
    BY WhoMovesHistory
  <1>1. CASE UNCHANGED <<head, changes, runs>>
    <2>1. HistoryOK'
      BY <1>0, <1>1 DEF HistoryOK
    <2>2. QED
      BY <1>1, <2>1 DEF HistoryOK, HistoryGrows
  <1>2. ASSUME NEW S \in Changesets, Push(S) PROVE HistoryOK' /\ HistoryGrows
    <2>1. head' = head + 1 /\ changes' = Append(changes, S) /\ runs' = runs
      BY <1>2 DEF Push
    <2>2. S \in SUBSET Module
      BY ChangesetAssumption
    <2>3. changes' \in [1 .. head' -> SUBSET Module] /\ \A c \in 1 .. head : changes'[c] = changes[c]
      <3>1. changes \in Seq(SUBSET Module) /\ Len(changes) = head /\ head \in Nat
        BY DEF HistoryOK
      <3>2. QED
        <4>1. /\ Append(changes, S) \in Seq(SUBSET Module) /\ Len(Append(changes, S)) = head + 1
              /\ \A c \in 1 .. head : Append(changes, S)[c] = changes[c]
          BY <2>2, <3>1
        <4>2. Append(changes, S) \in [1 .. head + 1 -> SUBSET Module]
          BY <4>1, SequenceIsFunction
        <4>3. QED
          BY <2>1, <4>1, <4>2
    <2>4. runs' \in [Module -> Seq(Run(head'))]
      <3>1. Run(head) \subseteq Run(head')
        BY <2>1 DEF HistoryOK, Run
      <3>2. Seq(Run(head)) \subseteq Seq(Run(head'))
        BY <3>1
      <3>3. QED
        BY <2>1, <3>2 DEF HistoryOK
    <2>5. QED
      BY <1>0, <2>1, <2>3, <2>4 DEF HistoryOK, HistoryGrows
  <1>3. ASSUME NEW m \in Module, Dispatch(m) PROVE HistoryOK' /\ HistoryGrows
    <2> DEFINE r == [sha |-> head, state |-> "hidden"]
    <2>1. runs' = [runs EXCEPT ![m] = Append(runs[m], r)] /\ UNCHANGED <<head, changes>>
      BY <1>3 DEF Dispatch
    <2>2. r \in Run(head)
      BY DEF Run, RunState, HistoryOK
    <2>3. runs[m] \in Seq(Run(head))
      BY DEF HistoryOK
    <2> HIDE DEF r
    <2>4. /\ Append(runs[m], r) \in Seq(Run(head))
          /\ \A i \in DOMAIN runs[m] : i \in DOMAIN Append(runs[m], r) /\ Append(runs[m], r)[i] = runs[m][i]
      BY <2>2, <2>3
    <2>5. QED
      BY <1>0, <2>1, <2>4 DEF HistoryOK, HistoryGrows
  <1>4. ASSUME NEW m \in Module, NEW i \in DOMAIN runs[m], Appear(m, i) \/ Finish(m, i)
        PROVE  HistoryOK' /\ HistoryGrows
    <2> DEFINE old == runs[m]
               new == runs'[m]
    <2>1. UNCHANGED <<head, changes>>
      BY <1>4 DEF Appear, Finish
    <2>2. old \in Seq(Run(head)) /\ DOMAIN old = 1 .. Len(old) /\ Len(old) \in Nat
      BY DEF HistoryOK
    <2>3. \A j \in DOMAIN old : old[j] \in Run(head)
      BY <2>2
    <2>4. \E s \in [DOMAIN old -> Run(head)] :
            /\ runs' = [runs EXCEPT ![m] = s]
            /\ \A j \in DOMAIN old : old[j].state \in {"success", "skipped"} => s[j] = old[j]
      <3>1. CASE Appear(m, i)
        <4> DEFINE s == [j \in DOMAIN old |->
                          IF j = i THEN [old[j] EXCEPT !.state = "active"]
                          ELSE IF old[j].state = "active" THEN [old[j] EXCEPT !.state = "failure"]
                          ELSE old[j]]
        <4>1. runs' = [runs EXCEPT ![m] = s] /\ old[i].state = "hidden"
          BY <3>1 DEF Appear
        <4>2. s \in [DOMAIN old -> Run(head)]
          BY <2>3 DEF Run, RunState
        <4>3. QED
          BY <4>1, <4>2
      <3>2. CASE Finish(m, i)
        <4>1. PICK c \in {"success", "failure", "skipped"} : runs' = [runs EXCEPT ![m][i].state = c]
          BY <3>2 DEF Finish
        <4> DEFINE s == [old EXCEPT ![i] = [old[i] EXCEPT !.state = c]]
        <4>2. runs' = [runs EXCEPT ![m] = s] /\ old[i].state = "active"
          BY <3>2, <4>1 DEF Finish
        <4>3. s \in [DOMAIN old -> Run(head)]
          BY <2>2, <2>3 DEF Run, RunState
        <4>4. QED
          BY <4>2, <4>3
      <3>3. QED
        BY <1>4, <3>1, <3>2
    <2>5. PICK s \in [DOMAIN old -> Run(head)] :
            /\ runs' = [runs EXCEPT ![m] = s]
            /\ \A j \in DOMAIN old : old[j].state \in {"success", "skipped"} => s[j] = old[j]
      BY <2>4
    <2>6. s \in Seq(Run(head)) /\ DOMAIN s = DOMAIN old
      <3>1. s \in [1 .. Len(old) -> Run(head)]
        BY <2>2
      <3>2. QED
        BY <2>2, <3>1
    <2>7. HistoryOK'
      BY <1>0, <2>1, <2>5, <2>6 DEF HistoryOK
    <2>8. QED
      BY <2>1, <2>5, <2>6, <2>7 DEF HistoryOK, HistoryGrows
  <1>5. QED
    BY <1>1, <1>2, <1>3, <1>4, WhoMovesHistory

LEMMA OrchestratorStep ==
  ASSUME TypeOK, [Next]_vars
  PROVE  OrchestratorOK' /\ graph' = graph
  <1> USE DEF TypeOK, OrchestratorOK
  <1>0. head \in 1 .. head /\ at \in Nat
    BY DEF HistoryOK
  <1>1. ASSUME NEW S \in Changesets, Push(S) PROVE OrchestratorOK' /\ graph' = graph
    BY <1>0, <1>1 DEF Push, orchestrator, HistoryOK
  <1>2. ASSUME Supersede \/ Rerun PROVE OrchestratorOK' /\ graph' = graph
    BY <1>0, <1>2 DEF Supersede, Rerun, Begin, Phase
  <1>3. ASSUME NEW m \in Module, Query(m) PROVE OrchestratorOK' /\ graph' = graph
    BY <1>3 DEF Query
  <1>4. ASSUME Invalidate PROVE OrchestratorOK' /\ graph' = graph
    BY <1>4 DEF Invalidate, InvalidatedBy, Valid, Phase, Ended
  <1>5. ASSUME Filter PROVE OrchestratorOK' /\ graph' = graph
    <2>1. phase' \in Phase
      BY <1>5 DEF Filter, Phase, Ended
    <2>2. QED
      BY <1>5, <2>1 DEF Filter
  <1>6. ASSUME Conclude \/ Sleep \/ Poll \/ PollFails PROVE OrchestratorOK' /\ graph' = graph
    BY <1>6 DEF Conclude, Sleep, Poll, PollFails, Phase, Ended
  <1>7. ASSUME NEW m \in Module, Dispatch(m) \/ DispatchFails(m) PROVE OrchestratorOK' /\ graph' = graph
    BY <1>7 DEF Dispatch, DispatchFails
  <1>8. ASSUME NEW m \in Module, NEW i \in DOMAIN runs[m], Appear(m, i) \/ Finish(m, i)
        PROVE  OrchestratorOK' /\ graph' = graph
    BY <1>8 DEF Appear, Finish, orchestrator
  <1>9. CASE UNCHANGED vars
    BY <1>9 DEF vars, orchestrator
  <1>10. QED
    BY <1>1, <1>2, <1>3, <1>4, <1>5, <1>6, <1>7, <1>8, <1>9 DEF Next, Schedule, GitHubStep

\* What the filter leaves behind when it has sorted dispatch into s.
FilterYields(dispatch, n, s) ==
  /\ IsDispatchOrder(s, dispatch)
  /\ order' = s
  /\ status' = [m \in Module |-> IF \E i \in 1 .. n : s[i] = m THEN "pending" ELSE "none"]
  /\ phase' = IF n = 0 THEN "green" ELSE "loop"

LEMMA FilterLists ==
  ASSUME TypeOK, Filter
  PROVE  \E dispatch \in SUBSET graph.workflow :
            /\ Listed' = dispatch /\ order' \in Seq(graph.workflow)
            /\ \A m \in graph.workflow : m \in Changed \/ (m \in invalid /\ ~Cached(m)) => m \in dispatch
            /\ status' = [m \in Module |-> IF m \in dispatch THEN "pending" ELSE "none"]
            /\ phase' = IF dispatch = {} THEN "green" ELSE "loop"
  <1>1. PICK failing \in SUBSET invalid :
          LET dispatch == Changed \cup {m \in invalid : ~Cached(m) \/ m \in failing}
          IN  \E n \in 0 .. Cardinality(dispatch) : \E s \in [1 .. n -> dispatch] :
                FilterYields(dispatch, n, s)
    BY DEF Filter, FilterYields
  <1> DEFINE dispatch == Changed \cup {m \in invalid : ~Cached(m) \/ m \in failing}
  <1>2. PICK n \in 0 .. Cardinality(dispatch) : \E s \in [1 .. n -> dispatch] : FilterYields(dispatch, n, s)
    BY <1>1
  <1>3. PICK s \in [1 .. n -> dispatch] : FilterYields(dispatch, n, s)
    BY <1>2
  <1>4. dispatch \in SUBSET graph.workflow /\ graph.workflow \subseteq Module /\ graph \in Graphs
    BY ListedTyped DEF TypeOK, OrchestratorOK, Changed
  <1>5. \A m \in graph.workflow : m \in Changed \/ (m \in invalid /\ ~Cached(m)) => m \in dispatch
    OBVIOUS
  <1> HIDE DEF dispatch
  <1>6. n \in Nat
    BY <1>2
  <1>7. dispatch = {s[i] : i \in 1 .. n}
    BY <1>3, <1>4, <1>6, OrderComplete DEF FilterYields
  <1>8. Listed' = dispatch
    BY <1>3, <1>7 DEF Listed, FilterYields
  <1>9. order' \in Seq(graph.workflow)
    BY <1>3, <1>4, <1>6 DEF FilterYields
  <1>10. status' = [m \in Module |-> IF m \in dispatch THEN "pending" ELSE "none"]
    BY <1>3, <1>7 DEF FilterYields
  <1>11. n = 0 <=> dispatch = {}
    <2>1. n = 0 => 1 .. n = {}
      OBVIOUS
    <2>2. n # 0 => 1 \in 1 .. n
      BY <1>6
    <2>3. QED
      BY <1>7, <2>1, <2>2
  <1>12. QED
    BY <1>3, <1>4, <1>5, <1>8, <1>9, <1>10, <1>11 DEF FilterYields

LEMMA SchedulerStep ==
  ASSUME TypeOK, [Next]_vars
  PROVE  SchedulerOK'
  <1>0. graph' = graph /\ OrchestratorOK /\ SchedulerOK
    BY OrchestratorStep DEF TypeOK
  <1>1. ASSUME UNCHANGED <<order, status>> PROVE SchedulerOK'
    BY <1>0, <1>1 DEF SchedulerOK, Listed
  <1>2. ASSUME Supersede \/ Rerun PROVE SchedulerOK'
    <2>1. order' = <<>> /\ status' = [m \in Module |-> "none"]
      BY <1>2 DEF Supersede, Rerun, Begin
    <2>2. Listed' = {} /\ order' \in Seq(graph'.workflow)
      BY <2>1 DEF Listed
    <2>3. QED
      BY <2>1, <2>2 DEF SchedulerOK
  <1>3. ASSUME Filter PROVE SchedulerOK'
    BY <1>0, <1>3, FilterLists DEF SchedulerOK
  <1>4. ASSUME NEW m \in Module, Dispatch(m) PROVE SchedulerOK'
    BY <1>0, <1>4 DEF Dispatch, IsNext, SchedulerOK, Listed
  <1>5. ASSUME NEW m \in Module, DispatchFails(m) PROVE SchedulerOK'
    <2>1. {m} \subseteq Listed
      BY <1>5 DEF DispatchFails, IsNext, Listed
    <2>2. QED
      BY <1>0, <1>5, <2>1, CascadeTyped DEF DispatchFails
  <1>6. ASSUME Poll PROVE SchedulerOK'
    <2>1. PICK F \in SUBSET Listed, done \in SUBSET Listed : status' = CascadeFail(F, done)
      BY <1>6 DEF Poll, WithStatus
    <2>2. QED
      BY <1>0, <1>6, <2>1, CascadeTyped DEF Poll
  <1>7. Invalidate \/ Conclude \/ Sleep \/ PollFails \/ UNCHANGED vars => UNCHANGED <<order, status>>
    BY DEF Invalidate, Conclude, Sleep, PollFails, vars, orchestrator
  <1>8. \A m \in Module : Query(m) => UNCHANGED <<order, status>>
    BY DEF Query
  <1>9. \A S \in Changesets : Push(S) => UNCHANGED <<order, status>>
    BY DEF Push, orchestrator
  <1>10. \A m \in Module : \A i \in DOMAIN runs[m] : Appear(m, i) \/ Finish(m, i) => UNCHANGED <<order, status>>
    BY DEF Appear, Finish, orchestrator
  <1>11. QED
    BY <1>1, <1>2, <1>3, <1>4, <1>5, <1>6, <1>7, <1>8, <1>9, <1>10 DEF Next, Schedule, GitHubStep

----------------------------------------------------------------------------
\* The invariant

\* A test of the orchestrator's commit stays one, whatever is pushed or run.
LEMMA TestedStays ==
  ASSUME HistoryOK, OrchestratorOK, HistoryGrows, at' = at, NEW m \in Module, TestedAt(m, at)
  PROVE  TestedAt(m, at)'
  <1>1. PICK i \in DOMAIN runs[m] :
          \/ runs[m][i].state = "success" /\ ~FilesDiffer(m, runs[m][i].sha, at)
          \/ runs[m][i].state = "skipped" /\ runs[m][i].sha = at
    BY DEF TestedAt
  <1>2. i \in DOMAIN runs'[m] /\ runs'[m][i] = runs[m][i]
    BY <1>1 DEF HistoryGrows
  <1>3. runs[m][i].sha \in 1 .. head
    <2>1. runs[m] \in Seq(Run(head))
      BY DEF HistoryOK
    <2>2. runs[m][i] \in Run(head)
      BY <2>1
    <2>3. QED
      BY <2>2 DEF Run
  <1>4. \A c \in DOMAIN changes' :
          c \in (runs[m][i].sha + 1 .. at) \cup (at + 1 .. runs[m][i].sha) =>
            c \in DOMAIN changes /\ changes'[c] = changes[c]
    <2>1. DOMAIN changes = 1 .. head /\ head \in Nat /\ at \in 1 .. head
      BY DEF HistoryOK, OrchestratorOK
    <2>2. QED
      BY <1>3, <2>1 DEF HistoryGrows
  <1>5. ~FilesDiffer(m, runs[m][i].sha, at) => ~FilesDiffer(m, runs[m][i].sha, at)'
    BY <1>2, <1>4 DEF FilesDiffer
  <1>6. QED
    BY <1>1, <1>2, <1>5 DEF TestedAt

LEMMA ValidTested ==
  ASSUME OrchestratorOK, NEW m \in Module, HasValidCI(m) \/ Cached(m)
  PROVE  TestedAt(m, at)
  <1>1. at + 1 .. at = {}
    BY DEF OrchestratorOK
  <1>2. ~FilesDiffer(m, at, at)
    BY <1>1 DEF FilesDiffer
  <1>3. QED
    BY <1>2 DEF HasValidCI, Cached, LastSuccess, TestedAt

LEMMA VerdictsStep ==
  ASSUME TypeOK, VerdictsTrue, [Next]_vars
  PROVE  VerdictsTrue'
  <1>1. HistoryGrows /\ HistoryOK /\ OrchestratorOK
    BY HistoryStep DEF TypeOK
  <1>2. ASSUME at' = at,
               \A m \in Module : /\ verdict'[m] = "valid" => verdict[m] = "valid" \/ TestedAt(m, at)
                                 /\ status'[m] = "completed" => status[m] = "completed" \/ TestedAt(m, at)
        PROVE  VerdictsTrue'
    BY <1>1, <1>2, TestedStays DEF VerdictsTrue
  <1>3. ASSUME Supersede \/ Rerun PROVE VerdictsTrue'
    BY <1>3 DEF Supersede, Rerun, Begin, VerdictsTrue
  <1>4. ASSUME NEW m \in Module, Query(m) PROVE VerdictsTrue'
    BY <1>1, <1>2, <1>4, ValidTested DEF Query, TypeOK, OrchestratorOK
  <1>5. ASSUME Filter PROVE VerdictsTrue'
    BY <1>2, <1>5, FilterLists DEF Filter
  <1>6. ASSUME NEW m \in Module, Dispatch(m) PROVE VerdictsTrue'
    BY <1>2, <1>6 DEF Dispatch, TypeOK, SchedulerOK
  <1>7. ASSUME NEW m \in Module, DispatchFails(m) PROVE VerdictsTrue'
    BY <1>2, <1>7 DEF DispatchFails, CascadeFail
  <1>8. ASSUME Poll PROVE VerdictsTrue'
    <2>1. \A m \in Module : status'[m] = "completed" =>
            status[m] = "completed" \/ Polled(m, {"success", "skipped"})
      BY <1>8 DEF Poll, CascadeFail
    <2>2. QED
      BY <1>1, <1>2, <1>8, <2>1, PolledTested DEF Poll
  <1>9. Invalidate \/ Conclude \/ Sleep \/ PollFails \/ UNCHANGED vars => UNCHANGED <<at, verdict, status>>
    BY DEF Invalidate, Conclude, Sleep, PollFails, vars, orchestrator
  <1>10. \A S \in Changesets : Push(S) => UNCHANGED <<at, verdict, status>>
    BY DEF Push, orchestrator
  <1>11. \A m \in Module : \A i \in DOMAIN runs[m] : Appear(m, i) \/ Finish(m, i) => UNCHANGED <<at, verdict, status>>
    BY DEF Appear, Finish, orchestrator
  <1>12. UNCHANGED <<at, verdict, status>> => VerdictsTrue'
    BY <1>2
  <1>13. QED
    BY <1>3, <1>4, <1>5, <1>6, <1>7, <1>8, <1>9, <1>10, <1>11, <1>12 DEF Next, Schedule, GitHubStep

LEMMA ForgottenStep ==
  ASSUME TypeOK, VerdictsTrue, NobodyForgotten, [Next]_vars
  PROVE  NobodyForgotten'
  <1>1. HistoryGrows /\ HistoryOK /\ OrchestratorOK /\ SchedulerOK /\ graph' = graph /\ graph.workflow \subseteq Module
    BY HistoryStep, OrchestratorStep, ListedTyped DEF TypeOK
  <1>2. ASSUME UNCHANGED <<at, phase, verdict, order, status>> PROVE NobodyForgotten'
    BY <1>1, <1>2, TestedStays DEF NobodyForgotten, LoopStarted, Listed
  <1>3. ASSUME Supersede \/ Rerun PROVE NobodyForgotten'
    BY <1>3 DEF Supersede, Rerun, Begin, NobodyForgotten, LoopStarted, Ended, Listed
  <1>4. ASSUME NEW m \in Module, Query(m) PROVE NobodyForgotten'
    BY <1>4 DEF Query, NobodyForgotten, LoopStarted, Ended, Listed
  <1>5. ASSUME Invalidate PROVE NobodyForgotten'
    <2>1. phase = "query" /\ UNCHANGED <<at, verdict, order, status>>
      BY <1>5 DEF Invalidate
    <2>2. phase' = IF Changed = {} THEN "green" ELSE "filter"
      BY <1>5 DEF Invalidate
    <2>3. \A m \in graph.workflow : verdict[m] # "unknown"
      BY <1>5 DEF Invalidate
    <2>4. Listed = {} /\ Listed' = {}
      BY <2>1 DEF NobodyForgotten, Listed
    <2>5. CASE Changed = {}
      <3>1. \A m \in graph.workflow : TestedAt(m, at)
        BY <1>1, <2>3, <2>5 DEF Changed, VerdictsTrue, OrchestratorOK
      <3>2. \A m \in graph.workflow : TestedAt(m, at)'
        BY <1>1, <2>1, <3>1, TestedStays
      <3>3. QED
        BY <1>1, <2>1, <2>2, <2>3, <2>4, <2>5, <3>2 DEF NobodyForgotten
    <2>6. CASE Changed # {}
      BY <1>1, <2>1, <2>2, <2>3, <2>4, <2>6 DEF NobodyForgotten, LoopStarted, Ended
    <2>7. QED
      BY <2>5, <2>6
  <1>6. ASSUME Filter PROVE NobodyForgotten'
    <2>1. phase = "filter" /\ UNCHANGED <<at, verdict, invalid>>
      BY <1>6 DEF Filter
    <2>2. PICK dispatch \in SUBSET graph.workflow :
            /\ Listed' = dispatch
            /\ \A m \in graph.workflow : m \in Changed \/ (m \in invalid /\ ~Cached(m)) => m \in dispatch
            /\ phase' = IF dispatch = {} THEN "green" ELSE "loop"
      BY <1>6, FilterLists
    <2>3. \A m \in graph.workflow : verdict[m] # "unknown"
      BY <2>1 DEF NobodyForgotten
    <2>4. \A m \in graph.workflow : m \in dispatch \/ TestedAt(m, at)
      <3>1. \A m \in graph.workflow : m \in Changed \/ verdict[m] = "valid"
        BY <1>1, <2>3 DEF Changed, OrchestratorOK
      <3>2. QED
        BY <1>1, <2>2, <3>1 DEF VerdictsTrue
    <2>5. \A m \in graph.workflow : m \in dispatch \/ TestedAt(m, at)'
      BY <1>1, <2>1, <2>4, TestedStays
    <2>6. QED
      BY <1>1, <2>1, <2>2, <2>3, <2>5 DEF NobodyForgotten
  <1>7. ASSUME UNCHANGED <<at, verdict, order>>, phase \in {"loop", "poll"},
               phase' \in {"loop", "poll", "late", "red"}
        PROVE  NobodyForgotten'
    BY <1>1, <1>7, TestedStays DEF NobodyForgotten, LoopStarted, Listed
  <1>8. ASSUME NEW m \in Module, Dispatch(m) \/ DispatchFails(m) PROVE NobodyForgotten'
    BY <1>7, <1>8 DEF Dispatch, DispatchFails, IsNext
  <1>9. ASSUME Sleep \/ Poll \/ PollFails PROVE NobodyForgotten'
    BY <1>7, <1>9 DEF Sleep, Poll, PollFails, AllDispatched
  <1>10. ASSUME Conclude PROVE NobodyForgotten'
    <2>1. phase = "loop" /\ UNCHANGED <<at, verdict, order, status>> /\ phase' \in {"green", "red"}
      BY <1>10 DEF Conclude, AllDispatched
    <2>2. CASE phase' = "red"
      BY <1>7, <2>1, <2>2
    <2>3. CASE phase' = "green"
      <3>1. \A m \in Listed : status[m] = "completed"
        BY <1>1, <1>10, <2>3, ListedTyped DEF Conclude, Unfinished, WithStatus, SchedulerOK
      <3>2. \A m \in graph.workflow : m \in Listed \/ TestedAt(m, at)'
        BY <1>1, <2>1, TestedStays DEF NobodyForgotten, LoopStarted
      <3>3. \A m \in graph.workflow : verdict[m] # "unknown"
        BY <2>1 DEF NobodyForgotten
      <3>4. QED
        BY <1>1, <2>1, <2>3, <3>1, <3>2, <3>3 DEF NobodyForgotten, Listed
    <2>4. QED
      BY <2>1, <2>2, <2>3
  <1>11. \A S \in Changesets : Push(S) => UNCHANGED <<at, phase, verdict, order, status>>
    BY DEF Push, orchestrator
  <1>12. \A m \in Module : \A i \in DOMAIN runs[m] :
           Appear(m, i) \/ Finish(m, i) => UNCHANGED <<at, phase, verdict, order, status>>
    BY DEF Appear, Finish, orchestrator
  <1>13. UNCHANGED vars => UNCHANGED <<at, phase, verdict, order, status>>
    BY DEF vars, orchestrator
  <1>14. QED
    BY <1>2, <1>3, <1>4, <1>5, <1>6, <1>8, <1>9, <1>10, <1>11, <1>12, <1>13 DEF Next, Schedule, GitHubStep

\* Whoever waits for a module that is skipped is skipped with it.
LEMMA CascadeSpares ==
  ASSUME OrchestratorOK, SchedulerOK, NobodyWaitsInVain, NEW F, NEW done,
         F \subseteq WithStatus("pending") \cup WithStatus("active"),
         done \subseteq WithStatus("active"),
         status' = CascadeFail(F, done), UNCHANGED <<graph, order>>
  PROVE  NobodyWaitsInVain'
  <1>1. Listed' = Listed /\ Listed \subseteq Module /\ \A m : Deps(m)' = Deps(m)
    BY ListedTyped DEF Listed, Deps, CIDeps
  <1>2. SUFFICES ASSUME NEW m \in Listed, status'[m] \in {"pending", "active"}, NEW d \in Deps(m),
                        status'[d] \in {"failed", "skipped"}
                 PROVE  FALSE
    BY <1>1 DEF NobodyWaitsInVain, WithStatus
  <1>3. m \in Module /\ d \in Listed /\ d \in Module
    BY <1>1 DEF Deps
  <1>4. m \notin F /\ m \notin done /\ m \notin Dependents(F) /\ status[m] \in {"pending", "active"}
    BY <1>2, <1>3 DEF CascadeFail
  <1>5. status[d] \notin {"failed", "skipped"}
    BY <1>2, <1>4 DEF NobodyWaitsInVain, WithStatus
  <1>6. d \in F \/ d \in Dependents(F)
    BY <1>2, <1>3, <1>5 DEF CascadeFail
  <1>7. m \in Dependents(F)
    BY <1>2, <1>4, <1>6 DEF Dependents, WithStatus
  <1>8. QED
    BY <1>4, <1>7

LEMMA WaitsStep ==
  ASSUME TypeOK, NobodyWaitsInVain, [Next]_vars
  PROVE  NobodyWaitsInVain'
  <1>1. OrchestratorOK /\ SchedulerOK /\ graph' = graph /\ Listed \subseteq Module
    BY OrchestratorStep, ListedTyped DEF TypeOK
  <1>2. ASSUME UNCHANGED <<order, status>> PROVE NobodyWaitsInVain'
    BY <1>1, <1>2 DEF NobodyWaitsInVain, WithStatus, Listed, Deps, CIDeps
  <1>3. ASSUME Supersede \/ Rerun PROVE NobodyWaitsInVain'
    BY <1>3 DEF Supersede, Rerun, Begin, NobodyWaitsInVain, WithStatus, Listed
  <1>4. ASSUME Filter PROVE NobodyWaitsInVain'
    <2>1. \A d \in Module : status'[d] \in {"pending", "none"}
      BY <1>4, FilterLists
    <2>2. Listed' \subseteq Module
      BY <1>1, <1>4, FilterLists, ListedTyped
    <2>3. QED
      BY <2>1, <2>2 DEF NobodyWaitsInVain, Deps
  <1>5. ASSUME NEW m \in Module, Dispatch(m) PROVE NobodyWaitsInVain'
    <2>1. m \in Listed /\ status[m] = "pending" /\ status' = [status EXCEPT ![m] = "active"] /\ order' = order
      BY <1>5 DEF Dispatch, IsNext, IsReady, Listed
    <2>2. QED
      BY <1>1, <2>1 DEF NobodyWaitsInVain, WithStatus, Listed, Deps, CIDeps, SchedulerOK
  <1>6. ASSUME NEW m \in Module, DispatchFails(m) PROVE NobodyWaitsInVain'
    <2>1. {m} \subseteq WithStatus("pending")
      BY <1>6 DEF DispatchFails, IsNext, IsReady, WithStatus, Listed
    <2>2. status' = CascadeFail({m}, {}) /\ UNCHANGED <<graph, order>>
      BY <1>6 DEF DispatchFails
    <2>3. QED
      BY <1>1, <2>1, <2>2, CascadeSpares
  <1>7. ASSUME Poll PROVE NobodyWaitsInVain'
    <2>1. PICK F \in SUBSET WithStatus("active"), done \in SUBSET WithStatus("active") :
            status' = CascadeFail(F, done) /\ UNCHANGED <<graph, order>>
      BY <1>7 DEF Poll
    <2>2. QED
      BY <1>1, <2>1, CascadeSpares
  <1>8. Invalidate \/ Conclude \/ Sleep \/ PollFails \/ UNCHANGED vars => UNCHANGED <<order, status>>
    BY DEF Invalidate, Conclude, Sleep, PollFails, vars, orchestrator
  <1>9. \A m \in Module : Query(m) => UNCHANGED <<order, status>>
    BY DEF Query
  <1>10. \A S \in Changesets : Push(S) => UNCHANGED <<order, status>>
    BY DEF Push, orchestrator
  <1>11. \A m \in Module : \A i \in DOMAIN runs[m] : Appear(m, i) \/ Finish(m, i) => UNCHANGED <<order, status>>
    BY DEF Appear, Finish, orchestrator
  <1>12. QED
    BY <1>2, <1>3, <1>4, <1>5, <1>6, <1>7, <1>8, <1>9, <1>10, <1>11 DEF Next, Schedule, GitHubStep

----------------------------------------------------------------------------
\* Theorems

LEMMA InitInv == Init => IInv
  <1> SUFFICES ASSUME Init PROVE IInv
    OBVIOUS
  <1>1. HistoryOK
    BY DEF Init, HistoryOK
  <1>2. OrchestratorOK
    BY DEF Init, OrchestratorOK, Phase
  <1>3. Listed = {}
    BY DEF Init, Listed
  <1>4. SchedulerOK
    BY <1>3 DEF Init, SchedulerOK
  <1>5. VerdictsTrue /\ NobodyForgotten /\ NobodyWaitsInVain
    BY <1>3 DEF Init, VerdictsTrue, NobodyForgotten, LoopStarted, Ended, NobodyWaitsInVain, WithStatus
  <1>6. QED
    BY <1>1, <1>2, <1>4, <1>5 DEF IInv, TypeOK

\* The invariant the others rest on: what counts as tested was tested, and nobody
\* is left out.
THEOREM Invariant == Spec => []IInv
  <1>1. IInv /\ [Next]_vars => IInv'
    BY HistoryStep, OrchestratorStep, SchedulerStep, VerdictsStep, ForgottenStep, WaitsStep DEF IInv, TypeOK
  <1>2. QED
    BY <1>1, InitInv, PTL DEF Spec

\* Every variable keeps its type, for any modules, graphs and histories.
THEOREM TypeCorrect == Spec => []TypeOK
  <1>1. IInv => TypeOK
    BY DEF IInv
  <1>2. QED
    BY <1>1, Invariant, PTL

\* An orchestration that ends well leaves no module untested.
THEOREM GreenIsTested == Spec => []GreenMeansTested
  <1>1. IInv => GreenMeansTested
    <2> SUFFICES ASSUME IInv, phase = "green", NEW m \in graph.workflow PROVE TestedAt(m, at)
      BY DEF GreenMeansTested
    <2>1. m \in Module
      BY ListedTyped DEF IInv, TypeOK
    <2>2. QED
      BY <2>1 DEF IInv, NobodyForgotten, VerdictsTrue, LoopStarted, Ended
  <1>2. QED
    BY <1>1, Invariant, PTL

\* No module waits for one that will never complete.
THEOREM NoVainWait == Spec => []NobodyWaitsInVain
  <1>1. IInv => NobodyWaitsInVain
    BY DEF IInv
  <1>2. QED
    BY <1>1, Invariant, PTL

\* A workflow is dispatched only over tested dependencies.
THEOREM DependenciesBefore == Spec => DispatchedAfterDependencies
  <1>1. ASSUME IInv, [Next]_vars
        PROVE  [\A m \in Module : Len(runs'[m]) > Len(runs[m]) =>
                  \A d \in CIDeps(m) \cap graph.workflow : TestedAt(d, at)]_vars
    <2>0. TypeOK /\ HistoryOK /\ graph.workflow \subseteq Module
      BY <1>1, ListedTyped DEF IInv, TypeOK
    <2>1. ASSUME NEW m \in Module, Dispatch(m), NEW d \in CIDeps(m) \cap graph.workflow PROVE TestedAt(d, at)
      <3>1. phase = "loop" /\ IsReady(m)
        BY <2>1 DEF Dispatch, IsNext
      <3>2. CASE d \in Listed
        BY <1>1, <2>0, <2>1, <3>1, <3>2 DEF IsReady, Deps, IInv, VerdictsTrue
      <3>3. CASE d \notin Listed
        BY <1>1, <2>1, <3>1, <3>3 DEF IInv, NobodyForgotten, LoopStarted
      <3>4. QED
        BY <3>2, <3>3
    <2>2. ASSUME NEW m \in Module, Dispatch(m), NEW k \in Module, k # m PROVE runs'[k] = runs[k]
      BY <2>0, <2>2 DEF Dispatch, HistoryOK
    <2>3. ASSUME NEW m \in Module, NEW i \in DOMAIN runs[m], Appear(m, i) \/ Finish(m, i), NEW k \in Module
          PROVE  Len(runs'[k]) = Len(runs[k])
      <3>1. runs[m] \in Seq(Run(head)) /\ runs \in [Module -> Seq(Run(head))]
        BY <2>0 DEF HistoryOK
      <3>2. DOMAIN runs[m] = 1 .. Len(runs[m]) /\ Len(runs[m]) \in Nat
        BY <3>1
      <3>3. k # m => runs'[k] = runs[k]
        BY <2>3, <3>1 DEF Appear, Finish
      <3>4. DOMAIN runs'[m] = DOMAIN runs[m]
        BY <2>3, <3>1 DEF Appear, Finish
      <3>5. runs'[m] \in Seq(Run(head'))
        BY <1>1, HistoryStep DEF HistoryOK, IInv, TypeOK
      <3>6. QED
        BY <3>2, <3>3, <3>4, <3>5
    <2>4. (\E S \in Changesets : Push(S)) => runs' = runs
      BY DEF Push
    <2>5. ASSUME NEW k \in Module, Len(runs'[k]) > Len(runs[k]), NEW d \in CIDeps(k) \cap graph.workflow
          PROVE  TestedAt(d, at)
      <3>1. Len(runs[k]) \in Nat
        BY <2>0 DEF HistoryOK
      <3>2. runs'[k] # runs[k] /\ Len(runs'[k]) # Len(runs[k])
        BY <2>5, <3>1
      <3>3. \E m \in Module : Dispatch(m)
        BY <1>1, <2>0, <2>3, <2>4, <3>2, WhoMovesHistory DEF TypeOK
      <3>4. Dispatch(k)
        BY <2>2, <2>5, <3>2, <3>3
      <3>5. QED
        BY <2>1, <2>5, <3>4
    <2>6. QED
      BY <2>5
  <1>2. QED
    BY <1>1, Invariant, PTL DEF Spec, DispatchedAfterDependencies
===============================================================================
