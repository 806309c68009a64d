------------------------------ MODULE CIPipeline ------------------------------
(***************************************************************************)
(* Continuous integration of a repository of modules: for each commit the  *)
(* orchestrator asks GitHub which modules have a valid run, adds what      *)
(* depends on the others, filters again, and dispatches one workflow for   *)
(* each module that is left, dependencies first, polling until all ended   *)
(* (commands/repository/get and commands/repository/pipeline/ci).          *)
(*                                                                         *)
(* Runs outlive the orchestrator: a push cancels it at any point, and the  *)
(* next one starts from what GitHub remembers. Modules are numbered in the *)
(* alphabetical order of their names, commits from 1.                      *)
(*                                                                         *)
(* A run tests the commit GitHub records for it.  (A job checks out the    *)
(* branch when it starts, which after a push may be a later commit.)  The  *)
(* module registry can be loaded; without it no file would be any module's *)
(* and every module with a success would be valid.                         *)
(***************************************************************************)
EXTENDS Integers, Sequences, FiniteSets

CONSTANTS
  Module,         \* modules, in alphabetical order
  Graphs,         \* [dependsOn, ciOnly : Module -> SUBSET Module, workflow : SUBSET Module]
  MaxConcurrent,  \* --max-concurrent
  Changesets,     \* sets of modules a commit may change
  MaxDisturbances \* bound: commits, reruns, failing calls and skipped runs together

ASSUME ModuleAssumption == Module \subseteq Nat
ASSUME ChangesetAssumption == Changesets \subseteq SUBSET Module
ASSUME LimitAssumption == MaxConcurrent \in Nat \ {0}
ASSUME GraphAssumption ==
  Graphs \subseteq [dependsOn : [Module -> SUBSET Module],
                    ciOnly : [Module -> SUBSET Module], workflow : SUBSET Module]
\* Nothing depends on itself: what does would be left out of the dispatch list.
ASSUME AcyclicAssumption ==
  \A g \in Graphs : \A S \in SUBSET Module : S # {} =>
    \E m \in S : (g.ciOnly[m] \cup (g.dependsOn[m] \cap g.workflow)) \cap S = {}

VARIABLES
  graph,      \* the repository's configuration
  head,       \* the branch's last commit
  changes,    \* changes[c]: the modules whose files commit c changes
  runs,       \* runs[m]: the runs of m's workflow, oldest first
  at,         \* the commit the orchestrator works for
  phase,
  verdict,    \* verdict[m]: what detection found out about m
  invalid,    \* modules dispatched for their dependencies
  order,      \* the dispatch list
  status,     \* status[m] in the scheduler
  disturbances  \* counted for their bound only

orchestrator == <<at, phase, verdict, invalid, order, status>>
vars == <<graph, head, changes, runs, orchestrator, disturbances>>

RunState == {"hidden", "active", "success", "failure", "skipped"}
Ended == {"green", "red", "late"}
Phase == {"query", "filter", "loop", "poll"} \cup Ended

----------------------------------------------------------------------------
\* What the orchestrator computes

\* m's latest successful run, if it has one.
LastSuccess(m) ==
  LET good == {i \in DOMAIN runs[m] : runs[m][i].state = "success"}
  IN  {i \in good : \A j \in good : j <= i}

\* git diff s..t lists a file of m.
FilesDiffer(m, s, t) ==
  \E c \in DOMAIN changes : m \in changes[c] /\ c \in (s + 1 .. t) \cup (t + 1 .. s)

\* Mutant: one success is enough, whatever changed since.
HasValidCIForEver(m) == LastSuccess(m) # {}

\* m's own files are as they were when they were last tested.
HasValidCI(m) == \E i \in LastSuccess(m) : ~FilesDiffer(m, runs[m][i].sha, at)

\* CICacheChecker.Check finds a success at the commit.
Cached(m) == \E i \in LastSuccess(m) : runs[m][i].sha = at

Changed == {m \in graph.workflow : verdict[m] = "changed"}
Valid == graph.workflow \ Changed

\* The valid modules that depend on S or on each other's invalidation.
InvalidatedBy(S) ==
  LET closed(I) == \A m \in Valid : graph.dependsOn[m] \cap (S \cup I) # {} => m \in I
  IN  {m \in Valid : \A I \in SUBSET Valid : closed(I) => m \in I}

CIDeps(m) == graph.ciOnly[m] \cup (graph.dependsOn[m] \cap graph.workflow)

\* s is S sorted by dependencies, by name where these leave a choice. What is
\* on a cycle or behind one is not in s.
IsDispatchOrder(s, S) ==
  LET before(i) == {s[j] : j \in 1 .. i - 1}
      free(P) == {m \in S \ P : CIDeps(m) \cap S \subseteq P}
  IN  /\ \A i \in DOMAIN s : s[i] \in free(before(i)) /\ \A m \in free(before(i)) : s[i] <= m
      /\ free(before(Len(s) + 1)) = {}

Listed == {order[i] : i \in DOMAIN order}

Deps(m) == CIDeps(m) \cap Listed

WithStatus(s) == {m \in Listed : status[m] = s}

\* Mutant: a dependency need only have ended its wait.
IsReadyDispatched(m) == status[m] = "pending" /\ \A d \in Deps(m) : status[d] # "pending"

IsReady(m) == status[m] = "pending" /\ \A d \in Deps(m) : status[d] = "completed"

\* Mutant: what is not in the list is skipped as well.
DependentsUnlisted(F) ==
  LET closed(I) == \A m \in Module : CIDeps(m) \cap (F \cup I) # {} => m \in I
  IN  {m \in Module \ F : \A I \in SUBSET Module : closed(I) => m \in I}

\* The modules cascadeFail skips when those in F failed.
Dependents(F) ==
  LET open == WithStatus("pending") \cup WithStatus("active")
      closed(I) == \A m \in open : Deps(m) \cap (F \cup I) # {} => m \in I
  IN  {m \in open \ F : \A I \in SUBSET open : closed(I) => m \in I}

\* Mutant: only the failed are marked.
CascadeNothing(F, done) ==
  [m \in Module |-> CASE m \in F -> "failed" [] m \in done -> "completed" [] OTHER -> status[m]]

CascadeFail(F, done) ==
  [m \in Module |-> CASE m \in F -> "failed"
                      [] m \in done -> "completed"
                      [] m \in Dependents(F) -> "skipped"
                      [] OTHER -> status[m]]

\* What one query of the commit's runs says about m.
RunsAtCommit(m) == {i \in DOMAIN runs[m] : runs[m][i].sha = at /\ runs[m][i].state # "hidden"}
Running(m) == \E i \in RunsAtCommit(m) : runs[m][i].state = "active"
Polled(m, conclusions) ==
  /\ ~Running(m)
  /\ \E i \in RunsAtCommit(m) : runs[m][i].state \in conclusions
                               /\ \A j \in RunsAtCommit(m) : j <= i
----------------------------------------------------------------------------
Init ==
  /\ graph \in Graphs
  /\ head = 1 /\ changes = << {} >>
  /\ runs = [m \in Module |-> <<>>]
  /\ at = 1 /\ phase = "query"
  /\ verdict = [m \in Module |-> "unknown"] /\ invalid = {} /\ order = <<>>
  /\ status = [m \in Module |-> "none"]
  /\ disturbances = 0

Disturbance == disturbances < MaxDisturbances /\ disturbances' = disturbances + 1

\* GitHub: a push to the branch.
Push(S) ==
  /\ Disturbance
  /\ head' = head + 1 /\ changes' = Append(changes, S)
  /\ UNCHANGED <<graph, runs, orchestrator>>

Begin ==
  /\ at' = head /\ phase' = "query"
  /\ verdict' = [m \in Module |-> "unknown"] /\ invalid' = {} /\ order' = <<>>
  /\ status' = [m \in Module |-> "none"]
  /\ UNCHANGED <<graph, head, changes, runs>>

\* GitHub: a newer commit cancels the orchestrator and starts another.
Supersede == at < head /\ UNCHANGED disturbances /\ Begin

\* GitHub: somebody runs an orchestration of this commit again.
Rerun == at = head /\ phase \in Ended /\ Disturbance /\ Begin

\* checkModuleCIStatusPerModule; a query or a diff that fails counts as changed.
Query(m) ==
  /\ phase = "query" /\ m \in graph.workflow /\ verdict[m] = "unknown"
  /\ \A n \in graph.workflow : n < m => verdict[n] # "unknown"
  /\ \/ /\ verdict' = [verdict EXCEPT ![m] = IF HasValidCI(m) THEN "valid" ELSE "changed"]
        /\ UNCHANGED disturbances
     \/ Disturbance /\ verdict' = [verdict EXCEPT ![m] = "changed"]
  /\ UNCHANGED <<graph, head, changes, runs, at, phase, invalid, order, status>>

\* Detection ends: what depends on a changed module is invalidated.
Invalidate ==
  /\ phase = "query" /\ \A m \in graph.workflow : verdict[m] # "unknown"
  /\ invalid' = InvalidatedBy(Changed)
  /\ phase' = IF Changed = {} THEN "green" ELSE "filter"
  /\ UNCHANGED <<graph, head, changes, runs, at, verdict, order, status, disturbances>>

\* FilterCIDispatch: the invalidated with a success at this commit are cached,
\* unless the query fails; the rest is sorted.
Filter ==
  /\ phase = "filter"
  /\ \E failing \in SUBSET invalid :
       /\ IF failing = {} THEN UNCHANGED disturbances ELSE Disturbance
       /\ LET dispatch == Changed \cup {m \in invalid : ~Cached(m) \/ m \in failing}
          IN
          \E n \in 0 .. Cardinality(dispatch) : \E s \in [1 .. n -> dispatch] :
            /\ IsDispatchOrder(s, dispatch)
            /\ order' = s
            /\ status' = [m \in Module |-> IF \E i \in 1 .. n : s[i] = m THEN "pending" ELSE "none"]
            /\ phase' = IF n = 0 THEN "green" ELSE "loop"
  /\ UNCHANGED <<graph, head, changes, runs, at, verdict, invalid>>

\* The next module of the list that dispatchReady comes to.
IsNext(m) ==
  /\ phase = "loop" /\ Cardinality(WithStatus("active")) < MaxConcurrent
  /\ \E i \in DOMAIN order : order[i] = m /\ IsReady(m)
                             /\ \A j \in 1 .. i - 1 : ~IsReady(order[j])

\* The run belongs to the branch's last commit, whatever commit was asked for.
Dispatch(m) ==
  /\ IsNext(m)
  /\ runs' = [runs EXCEPT ![m] = Append(@, [sha |-> head, state |-> "hidden"])]
  /\ status' = [status EXCEPT ![m] = "active"]
  /\ UNCHANGED <<graph, head, changes, at, phase, verdict, invalid, order, disturbances>>

DispatchFails(m) ==
  /\ Disturbance /\ IsNext(m)
  /\ status' = CascadeFail({m}, {})
  /\ UNCHANGED <<graph, head, changes, runs, at, phase, verdict, invalid, order>>

AllDispatched == phase = "loop" /\ \A m \in Module : ~IsNext(m)
Unfinished == WithStatus("active") \cup WithStatus("pending")

Conclude ==
  /\ AllDispatched /\ Unfinished = {}
  /\ phase' = IF WithStatus("failed") \cup WithStatus("skipped") = {} THEN "green" ELSE "red"
  /\ UNCHANGED <<graph, head, changes, runs, at, verdict, invalid, order, status, disturbances>>

Sleep ==
  /\ AllDispatched /\ Unfinished # {}
  /\ phase' = "poll"
  /\ UNCHANGED <<graph, head, changes, runs, at, verdict, invalid, order, status, disturbances>>

\* After a poll, the time may be up.
Poll ==
  /\ phase = "poll" /\ phase' \in {"loop", "late"}
  /\ LET active == WithStatus("active")
         failed == {m \in active : Polled(m, {"failure"})}
         done == {m \in active : Polled(m, {"success", "skipped"})}
     IN  status' = CascadeFail(failed, done)
  /\ UNCHANGED <<graph, head, changes, runs, at, verdict, invalid, order, disturbances>>

PollFails ==
  /\ Disturbance /\ phase = "poll" /\ phase' \in {"loop", "late"}
  /\ UNCHANGED <<graph, head, changes, runs, at, verdict, invalid, order, status>>

\* GitHub: a dispatched run becomes visible and cancels an older run of its workflow.
Appear(m, i) ==
  /\ runs[m][i].state = "hidden"
  /\ runs' = [runs EXCEPT ![m] = [j \in DOMAIN @ |->
       IF j = i THEN [@[j] EXCEPT !.state = "active"]
       ELSE IF @[j].state = "active" THEN [@[j] EXCEPT !.state = "failure"] ELSE @[j]]]
  /\ UNCHANGED <<graph, head, changes, orchestrator, disturbances>>

\* GitHub: a run ends; cancelled and timed out count as failures.
Finish(m, i) ==
  /\ runs[m][i].state = "active"
  /\ \/ UNCHANGED disturbances /\ \E c \in {"success", "failure"} : runs' = [runs EXCEPT ![m][i].state = c]
     \/ Disturbance /\ runs' = [runs EXCEPT ![m][i].state = "skipped"]
  /\ UNCHANGED <<graph, head, changes, orchestrator>>

GitHubStep == \E m \in Module : \E i \in DOMAIN runs[m] : Appear(m, i) \/ Finish(m, i)

Schedule == Invalidate \/ Filter \/ Conclude \/ Sleep \/ \E m \in Module : Query(m) \/ Dispatch(m)

Next ==
  \/ \E S \in Changesets : Push(S)
  \/ Supersede \/ Rerun
  \/ Schedule \/ Poll \/ PollFails \/ \E m \in Module : DispatchFails(m)
  \/ GitHubStep

Spec == Init /\ [][Next]_vars
----------------------------------------------------------------------------
Run(h) == [sha : 1 .. h, state : RunState]
HistoryOK ==
  /\ head \in Nat \ {0} /\ disturbances \in Nat
  /\ changes \in [1 .. head -> SUBSET Module]
  /\ runs \in [Module -> Seq(Run(head))]

OrchestratorOK ==
  /\ graph \in Graphs /\ at \in 1 .. head /\ phase \in Phase
  /\ verdict \in [Module -> {"unknown", "valid", "changed"}]
  /\ invalid \subseteq graph.workflow

SchedulerOK ==
  /\ order \in Seq(graph.workflow)
  /\ status \in [Module -> {"none", "pending", "active", "completed", "failed", "skipped"}]
  /\ \A m \in Module : status[m] # "none" <=> m \in Listed

\* Types, and the scheduler's books about modules it does not have.
TypeOK == HistoryOK /\ OrchestratorOK /\ SchedulerOK

\* m's own files were tested as they are at commit c, or GitHub skipped its run.
TestedAt(m, c) ==
  \E i \in DOMAIN runs[m] :
    \/ runs[m][i].state = "success" /\ ~FilesDiffer(m, runs[m][i].sha, c)
    \/ runs[m][i].state = "skipped" /\ runs[m][i].sha = c

\* An orchestration that ends well leaves no module whose own files were not
\* tested: not one whose run it took for valid while others were still going,
\* not one a cancelled predecessor had dispatched, not one left on the list.
GreenMeansTested == phase = "green" => \A m \in graph.workflow : TestedAt(m, at)

\* Nobody waits for a module that will never complete: dependents of what failed
\* or was skipped are skipped themselves, so the loop ends without its timeout.
NobodyWaitsInVain ==
  \A m \in WithStatus("pending") \cup WithStatus("active") : \A d \in Deps(m) :
    status[d] \notin {"failed", "skipped"}

\* A workflow is dispatched only when those it depends on were tested, in this
\* orchestration or before it.
DispatchedAfterDependencies ==
  [][\A m \in Module : Len(runs'[m]) > Len(runs[m]) =>
       \A d \in CIDeps(m) \cap graph.workflow : TestedAt(d, at)]_vars

\* What an orchestration that ends well says of each module includes what the
\* module depends on: it was tested since these changed.
Below(m) ==
  LET closed(S) == \A n \in S : graph.dependsOn[n] \subseteq S
  IN  {d \in Module : \A S \in SUBSET Module : m \in S /\ closed(S) => d \in S}
GreenMeansDependenciesTested ==
  phase = "green" => \A m \in graph.workflow : \A d \in Below(m) :
    \E i \in DOMAIN runs[m] : runs[m][i].state \in {"success", "skipped"}
                              /\ ~FilesDiffer(d, runs[m][i].sha, at)
===============================================================================
