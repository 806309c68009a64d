------------------------------- MODULE RunReport -------------------------------
(***************************************************************************)
(* How a run is shown and how the command ends (clibase/cmdframework,      *)
(* clibase/orchestrator, adapters/tui).                                     *)
(*                                                                         *)
(* Workers report each unit to the display and then to the summary builder; *)
(* goroutines that look for cached units report what they find as well.     *)
(* The last result starts a goroutine that sends the summary; the command   *)
(* sends it too unless it sees that it was sent, and waits for the display  *)
(* to end.  The display ends by itself once it has a summary and was told   *)
(* that all work is done, the AfterExecute hook's included; a user may end  *)
(* it at any time.                                                          *)
(*                                                                         *)
(* What must not be lost goes through a queue a pump empties (critical);    *)
(* status updates go through a short one (statusQ) and are dropped when it  *)
(* is full; the end of work is handed to the event loop directly.  The loop *)
(* takes from the three in any order.  A sender looks whether the console   *)
(* stopped and sends after it gave up the lock: a send in between meets a   *)
(* closed channel, and the process panics.                                  *)
(*                                                                         *)
(* Capacity, the locks of units and the dependencies' queue are modelled in *)
(* other modules; here a unit starts when those it needs are settled.       *)
(***************************************************************************)
EXTENDS Naturals, Sequences, FiniteSets

CONSTANTS
  Layouts,      \* the runs looked at: the module of a unit, the units it needs, and those
                \* that are up to date, as detection or the worker may find
  StatusBuffer  \* how many status updates wait at most

ASSUME LayoutAssumption ==
  \A l \in Layouts : /\ l.needs \in [DOMAIN l.module -> SUBSET DOMAIN l.module]
                     /\ l.upToDate \subseteq DOMAIN l.module

ASSUME BufferAssumption == StatusBuffer \in Nat \ {0}

VARIABLES
  layout,
  pc,         \* where the worker of a unit is
  verdict,    \* the result of a unit
  owner,      \* the unit whose worker reports a unit: another one after a cascade
  snapshot,   \* the running units a worker saw and is about to tell
  running,    \* tuiRunning
  detector,   \* the goroutine that looks whether a unit is cached
  early,      \* earlyCached
  recorded,   \* the units with a result in the summary builder
  callback,   \* the goroutine of OnComplete
  sent,       \* summarySent
  main,       \* the command
  hook,       \* AfterExecute
  passed,     \* the senders that saw the console not stopped and have not sent yet
  critical,   \* criticalChan
  statusQ,    \* statusChan, and the update the listener holds
  listener,   \* listenForStatus: on, told to stop, off
  console,    \* how far the display is with its end
  quitBy,     \* who asked it to end
  tab,        \* the tab of a unit
  shown,      \* Execution.Running
  pending,    \* PendingSummaryData
  allWorkDone,
  panic       \* who sent on a closed channel

workers == <<pc, verdict, owner, snapshot, running>>
detection == <<detector, early>>
builder == <<recorded, callback, sent>>
command == <<main, hook>>
model == <<tab, shown, pending, allWorkDone>>
display == <<console, quitBy, model>>
channels == <<passed, critical, statusQ, listener, panic>>
vars == <<layout, workers, detection, builder, command, display, channels>>

Unit == DOMAIN layout.module
Verdict == {"success", "failed", "cached"}
Tab == {"pending", "running", "success", "failed", "skipped"}
Worker(u) == <<"worker", u>>
Detector(u) == <<"detector", u>>
Main == <<"main">>
Callback == <<"callback">>
Sender == {Worker(u) : u \in Unit} \cup {Detector(u) : u \in Unit} \cup {Main, Callback}

Module(u) == layout.module[u]
Modules == {Module(u) : u \in Unit}

Init ==
  /\ layout \in Layouts
  /\ pc = [u \in Unit |-> "waiting"]
  /\ verdict = [u \in Unit |-> "none"]
  /\ owner = [u \in Unit |-> u]
  /\ snapshot = [u \in Unit |-> {}]
  /\ running = {}
  /\ detector \in [Unit -> {"verify", "end"}]
  /\ {u \in Unit : detector[u] = "verify"} \subseteq layout.upToDate
  /\ early = {}
  /\ recorded = {}
  /\ callback = "idle"
  /\ sent = FALSE
  /\ main = "prepare"
  /\ hook \in {"none", "idle"}
  /\ passed = {}
  /\ critical = <<>>
  /\ statusQ = <<>>
  /\ listener = "on"
  /\ console = "live"
  /\ quitBy = "nobody"
  /\ tab = [u \in Unit |-> "pending"]
  /\ shown = {}
  /\ pending = "none"
  /\ allWorkDone = FALSE
  /\ panic = "none"

Alive == main # "returned" /\ panic = "none"

-----------------------------------------------------------------------------
(* Sending.                                                                 *)

Stopped == console \in {"stopped", "closed"}
Closed == console = "closed"

\* The sender looked and found the console stopped.
Silent(a) == Stopped /\ a \notin passed

\* The loop still takes messages.
Looping == console \in {"live", "quitting"}

\* SendCritical, and SendSummary after its look: onto the queue of what must not be lost.
\* Once the loop is over the pump goes on taking messages, and they come to nothing.
SendCritical(a, m) ==
  /\ passed' = passed \ {a}
  /\ \/ Silent(a) /\ UNCHANGED <<critical, panic>>
     \/ Looping /\ critical' = Append(critical, m) /\ UNCHANGED panic
     \/ ~Silent(a) /\ ~Looping /\ ~Closed /\ UNCHANGED <<critical, panic>>
     \/ ~Silent(a) /\ Closed /\ panic' = a[1] /\ UNCHANGED critical

\* UpdateStatus: dropped when the buffer is full; nobody empties it once the loop is over, and
\* cleanup closes statusChan when it stops the console.
UpdateStatus(a, names) ==
  /\ passed' = passed \ {a}
  /\ \/ Looping /\ Len(statusQ) < StatusBuffer /\ statusQ' = Append(statusQ, names)
        /\ UNCHANGED panic
     \/ Looping /\ Len(statusQ) = StatusBuffer /\ UNCHANGED <<statusQ, panic>>
     \/ ~Looping /\ (~Stopped \/ Silent(a)) /\ UNCHANGED <<statusQ, panic>>
     \/ ~Silent(a) /\ Stopped /\ panic' = a[1] /\ UNCHANGED statusQ

\* A summary; its sender then tells the listeners to stop.
SendSummary(a, good) ==
  /\ SendCritical(a, [kind |-> "summary", good |-> good])
  /\ listener' = IF Silent(a) \/ listener = "off" THEN listener ELSE "told"
  /\ UNCHANGED statusQ

Settled(u) == pc[u] \in {"decided", "counted", "end"}

MayStart(u) == main = "execute" /\ pc[u] = "waiting" /\ \A v \in layout.needs[u] : Settled(v)

\* The units a worker took out of the queue, when it failed, are reported before its own.
MayReport(u) == pc[u] = "decided" /\ \A v \in Unit \ {u} : owner[v] = u => pc[v] = "end"

AboutToSend ==
  {Worker(u) : u \in {v \in Unit : MayStart(v) \/ MayReport(v)
                                   \/ pc[v] \in {"announced", "progress", "executed", "counted"}}}
  \cup {Detector(u) : u \in {v \in Unit : detector[v] = "verify"}}
  \cup (IF main \in {"gate", "send"} THEN {Main} ELSE {})
  \cup (IF callback = "called" THEN {Callback} ELSE {})

\* The look of a sender that sends later.  Until the loop is over nothing tells a look now
\* from a look just before the send, so that only the last moment for it counts.
Look(a) ==
  /\ Alive
  /\ console = "over" /\ a \in AboutToSend \ passed
  /\ passed' = passed \cup {a}
  /\ UNCHANGED <<layout, workers, detection, builder, command, display,
                 critical, statusQ, listener, panic>>

-----------------------------------------------------------------------------
(* A worker.                                                                *)

Step(u, from, to) == Alive /\ pc[u] = from /\ pc' = [pc EXCEPT ![u] = to]

FailedNeed(u) == \E v \in layout.needs[u] : verdict[v] = "failed"

\* The queue gives a unit out once those it needs are settled; capacity is taken, and
\* emitResourceStatus tells of it, and of no running unit.
Acquire(u) ==
  /\ MayStart(u)
  /\ Step(u, "waiting", "announced")
  /\ UpdateStatus(Worker(u), {})
  /\ UNCHANGED <<layout, verdict, owner, snapshot, running, detection, builder, command,
                 display, critical, listener>>

\* tuiMarkRunning and its first event: nothing for a unit already found cached.
MarkRunning(u) ==
  /\ \/ /\ u \notin early
        /\ Step(u, "announced", "progress")
        /\ running' = running \cup {u}
        /\ snapshot' = [snapshot EXCEPT ![u] = running']
        /\ SendCritical(Worker(u), [kind |-> "started", unit |-> u])
     \/ /\ u \in early
        /\ Step(u, "announced", "working")
        /\ passed' = passed \ {Worker(u)}
        /\ UNCHANGED <<running, snapshot, critical, panic>>
  /\ UNCHANGED <<layout, verdict, owner, detection, builder, command, display, statusQ, listener>>

\* The progress that follows a start: the units that ran when it was noted.
EmitProgress(u) ==
  /\ Step(u, "progress", "working")
  /\ UpdateStatus(Worker(u), snapshot[u])
  /\ snapshot' = [snapshot EXCEPT ![u] = {}]
  /\ UNCHANGED <<layout, verdict, owner, running, detection, builder, command,
                 display, critical, listener>>

\* executeOrSkipUnit: failed when one it needs failed; what detection found; or whatever
\* comes of the work.
Execute(u) ==
  /\ Step(u, "working", "executed")
  /\ \E r \in Verdict :
       /\ FailedNeed(u) => r = "failed"
       /\ r = "cached" => u \in layout.upToDate
       /\ u \in early /\ ~FailedNeed(u) => r = "cached"
       /\ verdict' = [verdict EXCEPT ![u] = r]
  /\ UNCHANGED <<layout, owner, snapshot, running, detection, builder, command, display,
                 channels>>

\* releaseCapacity and its event, then MarkFailedCascade or MarkComplete.  A failure takes
\* waiting units that need this one out of the queue, some of them if not all.
HandleCompletion(u) ==
  /\ Alive /\ pc[u] = "executed"
  /\ UpdateStatus(Worker(u), {})
  /\ \E S \in SUBSET {v \in Unit : pc[v] = "waiting" /\ u \in layout.needs[v]} :
       /\ verdict[u] # "failed" => S = {}
       /\ pc' = [v \in Unit |-> IF v \in S \cup {u} THEN "decided" ELSE pc[v]]
       /\ verdict' = [v \in Unit |-> IF v \in S THEN "failed" ELSE verdict[v]]
       /\ owner' = [v \in Unit |-> IF v \in S THEN u ELSE owner[v]]
  /\ UNCHANGED <<layout, snapshot, running, detection, builder, command, display, critical,
                 listener>>

\* tuiMarkCompleted and its first event.
MarkCompleted(u) ==
  /\ MayReport(u)
  /\ Step(u, "decided", "counted")
  /\ running' = running \ {u}
  /\ snapshot' = [snapshot EXCEPT ![u] = running']
  /\ SendCritical(Worker(u), [kind |-> "completed", unit |-> u, verdict |-> verdict[u]])
  /\ UNCHANGED <<layout, verdict, owner, detection, builder, command, display, statusQ, listener>>

\* Mutant: a module counts as done with its first result.
CompleteFirst(m, S) == \E u \in S : Module(u) = m

\* A module with all its results.
Complete(m, S) == \A u \in Unit : Module(u) = m => u \in S

\* Mutant: the result goes to the builder before the display hears of the completion.
AddResultEarly(u) ==
  /\ Alive /\ (MayReport(u) \/ pc[u] = "counted")
  /\ pc' = [pc EXCEPT ![u] = IF @ = "counted" THEN "end" ELSE @]
  /\ UpdateStatus(Worker(u), snapshot[u])
  /\ snapshot' = [snapshot EXCEPT ![u] = {}]
  /\ recorded' = recorded \cup {u}
  /\ callback' = IF callback = "idle" /\ \A m \in Modules : Complete(m, recorded')
                 THEN "called" ELSE callback
  /\ UNCHANGED <<layout, verdict, owner, running, detection, sent, command, display,
                 critical, listener>>

\* The progress after a completion, and AddResult: the result that completes the last module
\* starts the callback.
AddResult(u) ==
  /\ Step(u, "counted", "end")
  /\ UpdateStatus(Worker(u), snapshot[u])
  /\ snapshot' = [snapshot EXCEPT ![u] = {}]
  /\ recorded' = recorded \cup {u}
  /\ callback' = IF callback = "idle" /\ \A m \in Modules : Complete(m, recorded')
                 THEN "called" ELSE callback
  /\ UNCHANGED <<layout, verdict, owner, running, detection, sent, command, display,
                 critical, listener>>

-----------------------------------------------------------------------------
(* Detection of cached units.                                               *)

\* A goroutine found its unit cached and says so.
EmitCached(u) ==
  /\ Alive /\ main \notin {"prepare", "gate", "signalGate", "gateWait"}
  /\ detector[u] = "verify"
  /\ detector' = [detector EXCEPT ![u] = "store"]
  /\ SendCritical(Detector(u), [kind |-> "completed", unit |-> u, verdict |-> "cached"])
  /\ UNCHANGED <<layout, workers, early, builder, command, display, statusQ, listener>>

\* Workers see it from now on.
StoreCached(u) ==
  /\ Alive /\ detector[u] = "store"
  /\ detector' = [detector EXCEPT ![u] = "end"]
  /\ early' = early \cup {u}
  /\ UNCHANGED <<layout, workers, builder, command, display, channels>>

-----------------------------------------------------------------------------
(* The summary builder and the command.                                     *)

\* Finalize: no module with all its results has a failed one.
NoFailure == \A m \in Modules : Complete(m, recorded)
               => \A u \in Unit : Module(u) = m => verdict[u] # "failed"

\* OnComplete: the summary is sent, and only then marked as sent.
CallbackSends ==
  /\ Alive /\ callback = "called"
  /\ callback' = "mark"
  /\ SendSummary(Callback, NoFailure)
  /\ UNCHANGED <<layout, workers, detection, recorded, sent, command, display>>

MarkSummarySent ==
  /\ Alive /\ callback = "mark"
  /\ callback' = "end" /\ sent' = TRUE
  /\ UNCHANGED <<layout, workers, detection, recorded, command, display, channels>>

Go(from, to) == Alive /\ main = from /\ main' = to

\* Initialization fails, or the command has something to tell and nothing to do: the
\* summary is sent and the display waited for.
EndEarly ==
  /\ Go("prepare", "gate")
  /\ UNCHANGED <<layout, workers, detection, builder, hook, display, channels>>

\* A system dependency or an artifact is missing: the display is told first that no work is left.
GateFails ==
  /\ Go("prepare", "signalGate")
  /\ UNCHANGED <<layout, workers, detection, builder, hook, display, channels>>

GateSummary ==
  /\ Go("gate", "gateWait")
  /\ SendSummary(Main, FALSE)
  /\ UNCHANGED <<layout, workers, detection, builder, hook, display>>

\* Another phase fails: Cleanup stops the display, which is waited for when it still runs.
Abort ==
  /\ Alive /\ main = "prepare"
  /\ IF Stopped
     THEN main' = "returned" /\ UNCHANGED <<console, quitBy>>
     ELSE /\ main' = "gateWait" /\ console' = "stopped"
          /\ quitBy' = IF quitBy = "nobody" THEN "command" ELSE quitBy
  /\ UNCHANGED <<layout, workers, detection, builder, hook, model, channels>>

\* RunUnitsParallel begins.
BeginExecute ==
  /\ Go("prepare", "execute")
  /\ UNCHANGED <<layout, workers, detection, builder, hook, display, channels>>

\* Mutant: the call returns when the first worker is done.
EndExecuteFirst ==
  /\ \E u \in Unit : pc[u] = "end"
  /\ \/ hook = "none" /\ Go("execute", "signal") /\ UNCHANGED hook
     \/ hook = "idle" /\ Go("execute", "summary") /\ hook' = "work"
  /\ UNCHANGED <<layout, workers, detection, builder, display, channels>>

\* Mutant: without a hook nobody tells the display that all work is done.
EndExecuteUntold ==
  /\ \A u \in Unit : pc[u] = "end"
  /\ Go("execute", "summary")
  /\ hook' = IF hook = "idle" THEN "work" ELSE hook
  /\ UNCHANGED <<layout, workers, detection, builder, display, channels>>

\* RunUnitsParallel returns when the workers are done; the hook starts, or nothing is left.
EndExecute ==
  /\ \A u \in Unit : pc[u] = "end"
  /\ \/ hook = "none" /\ Go("execute", "signal") /\ UNCHANGED hook
     \/ hook = "idle" /\ Go("execute", "summary") /\ hook' = "work"
  /\ UNCHANGED <<layout, workers, detection, builder, display, channels>>

\* phaseSummary looks whether the callback sent the summary.
LookWhetherSent ==
  /\ \/ sent /\ Go("summary", "wait")
     \/ ~sent /\ Go("summary", "send")
  /\ UNCHANGED <<layout, workers, detection, builder, hook, display, channels>>

CommandSends ==
  /\ Go("send", "wait")
  /\ SendSummary(Main, NoFailure)
  /\ UNCHANGED <<layout, workers, detection, builder, hook, display>>

\* Mutant: the command waits for the display only.
WaitTUIOnly ==
  /\ console = "closed"
  /\ \/ Go("gateWait", "returned") \/ Go("wait", "returned")
  /\ UNCHANGED <<layout, workers, detection, builder, hook, display, channels>>

\* WaitTUI, until Start is through; the hook is awaited after a run.
WaitTUI ==
  /\ console = "closed"
  /\ \/ Go("gateWait", "returned") \/ Go("wait", "await")
  /\ UNCHANGED <<layout, workers, detection, builder, hook, display, channels>>

AwaitAfterExecute ==
  /\ hook \in {"none", "signal", "end"}
  /\ Go("await", "returned")
  /\ UNCHANGED <<layout, workers, detection, builder, hook, display, channels>>

\* AfterExecute is done.
HookEnds ==
  /\ Alive /\ hook = "work" /\ hook' = "signal"
  /\ UNCHANGED <<layout, workers, detection, builder, main, display, channels>>

-----------------------------------------------------------------------------
(* The display: one event loop.                                             *)

\* Mutant: the result is taken for the tab's status.
TabOfResult(r) == r

\* StatusFromExitCode.
TabOf(r) == IF r = "cached" THEN "skipped" ELSE r

\* Mutant: the tabs left over are taken to be done well.
FinalizeGreen(t) ==
  [u \in Unit |-> IF t[u] \in {"pending", "running"} THEN "success" ELSE t[u]]

\* finalizeAllTabs: what is not finished is shown as skipped.
FinalizeAllTabs(t) ==
  [u \in Unit |-> IF t[u] \in {"pending", "running"} THEN "skipped" ELSE t[u]]

\* The loop ends by itself: activateSummary and tea.Quit.
Exit ==
  /\ console' = "quitting"
  /\ quitBy' = IF quitBy = "nobody" THEN "display" ELSE quitBy
  /\ tab' = FinalizeAllTabs(tab)
  /\ pending' = "none"

\* handleUoWRunning, handleUoWComplete and handleSummaryData, for what the pump delivers.
\* A summary that comes when all work is done ends the loop, or the next tick does when the
\* display has been there too short a time or a user has touched it.
HandleCritical ==
  /\ Alive /\ Looping /\ critical # <<>>
  /\ critical' = Tail(critical)
  /\ LET m == Head(critical) IN
     \/ /\ m.kind = "started"
        /\ tab' = [tab EXCEPT ![m.unit] = IF @ \in {"pending", "running"} THEN "running" ELSE @]
        /\ UNCHANGED <<console, quitBy, pending>>
     \/ /\ m.kind = "completed"
        /\ tab' = [tab EXCEPT ![m.unit] = TabOf(m.verdict)]
        /\ UNCHANGED <<console, quitBy, pending>>
     \/ /\ m.kind = "summary"
        /\ \/ /\ pending' = IF m.good THEN "good" ELSE "bad"
              /\ UNCHANGED <<console, quitBy, tab>>
           \/ allWorkDone /\ Exit
  /\ UNCHANGED <<layout, workers, detection, builder, command, shown, allWorkDone,
                 passed, statusQ, listener, panic>>

\* handleStatus: a unit named that was not in the last status is shown as running.
HandleStatus ==
  /\ Alive /\ Looping /\ listener # "off" /\ statusQ # <<>>
  /\ statusQ' = Tail(statusQ)
  /\ LET names == Head(statusQ) IN
     /\ tab' = [u \in Unit |-> IF u \in names \ shown THEN "running" ELSE tab[u]]
     /\ shown' = names
  /\ UNCHANGED <<layout, workers, detection, builder, command, console, quitBy, pending,
                 allWorkDone, passed, critical, listener, panic>>

\* The listener takes either what is there or that it was told to stop.
StopListening ==
  /\ Alive /\ Looping /\ listener = "told" /\ listener' = "off"
  /\ UNCHANGED <<layout, workers, detection, builder, command, display,
                 passed, critical, statusQ, panic>>

\* handleAllWorkDone.
HandleAllWorkDone ==
  /\ allWorkDone' = TRUE
  /\ IF pending # "none" THEN Exit ELSE UNCHANGED <<console, quitBy, tab, pending>>

\* SignalAllWorkDone: program.Send waits for the loop to take it, or for the loop's end.
SignalAllWorkDone ==
  /\ \/ Go("signalGate", "gate") /\ UNCHANGED hook
     \/ Go("signal", "summary") /\ UNCHANGED hook
     \/ Alive /\ hook = "signal" /\ hook' = "end" /\ UNCHANGED main
  /\ \/ Looping /\ HandleAllWorkDone
     \/ ~Looping /\ UNCHANGED <<console, quitBy, tab, pending, allWorkDone>>
  /\ UNCHANGED <<layout, workers, detection, builder, shown, channels>>

\* handleTick, when the time has come.
Tick ==
  /\ Alive /\ Looping /\ pending # "none" /\ allWorkDone
  /\ Exit
  /\ UNCHANGED <<layout, workers, detection, builder, command, shown, allWorkDone, channels>>

\* q, esc, or a signal to the process.
UserQuits ==
  /\ Alive /\ console = "live"
  /\ console' = "quitting" /\ quitBy' = "user"
  /\ UNCHANGED <<layout, workers, detection, builder, command, model, channels>>

\* program.Run returns: the last view is printed, what is under way comes to nothing, and
\* nobody looks at the model again.
Leave ==
  /\ Alive /\ console = "quitting"
  /\ console' = "over"
  /\ critical' = <<>> /\ statusQ' = <<>> /\ listener' = "off"
  /\ tab' = [u \in Unit |-> "pending"] /\ shown' = {} /\ pending' = "none"
  /\ UNCHANGED <<layout, workers, detection, builder, command, quitBy, allWorkDone,
                 passed, panic>>

\* cleanup stops the console, then closes the pump's queues, and Start is through.
Cleanup ==
  /\ Alive
  /\ \/ console = "over" /\ console' = "stopped"
     \/ console = "stopped" /\ console' = "closed"
  /\ UNCHANGED <<layout, workers, detection, builder, command, quitBy, model, channels>>

-----------------------------------------------------------------------------

WorkerNext(u) ==
  \/ Acquire(u) \/ MarkRunning(u) \/ EmitProgress(u) \/ Execute(u)
  \/ HandleCompletion(u) \/ MarkCompleted(u) \/ AddResult(u)

DetectorNext(u) == EmitCached(u) \/ StoreCached(u)

CallbackNext == CallbackSends \/ MarkSummarySent

Prepare == EndEarly \/ GateFails \/ Abort \/ BeginExecute

CommandNext ==
  \/ Prepare \/ GateSummary \/ EndExecute \/ LookWhetherSent \/ CommandSends \/ WaitTUI
  \/ AwaitAfterExecute

DisplayNext == HandleCritical \/ HandleStatus \/ StopListening \/ Tick \/ Leave \/ Cleanup

Next ==
  \/ \E u \in Unit : WorkerNext(u) \/ DetectorNext(u)
  \/ CallbackNext \/ CommandNext \/ HookEnds \/ SignalAllWorkDone \/ DisplayNext
  \/ UserQuits
  \/ \E a \in Sender : Look(a)

Spec == Init /\ [][Next]_vars

\* What goes on without a user and without detection, and is not only for show.
Progress ==
  \/ \E u \in Unit : WorkerNext(u)
  \/ CallbackNext \/ CommandNext \/ HookEnds \/ SignalAllWorkDone
  \/ HandleCritical \/ Tick \/ Leave \/ Cleanup

\* Goroutines are scheduled: one of those that can go on does.  With it the work of a unit and
\* the hook end, and a user who touched the display leaves it alone some time.  Users need
\* not quit it.
Fairness == WF_vars(Progress)

FairSpec == Spec /\ Fairness

-----------------------------------------------------------------------------
(* Properties.                                                              *)

Message ==
  [kind : {"started"}, unit : Unit]
  \cup [kind : {"completed"}, unit : Unit, verdict : Verdict]
  \cup [kind : {"summary"}, good : BOOLEAN]

Summaries == {i \in DOMAIN critical : critical[i].kind = "summary"}

TypeOK ==
  /\ layout \in Layouts
  /\ pc \in [Unit -> {"waiting", "announced", "progress", "working", "executed", "decided",
                      "counted", "end"}]
  /\ verdict \in [Unit -> Verdict \cup {"none"}]
  /\ owner \in [Unit -> Unit]
  /\ snapshot \in [Unit -> SUBSET Unit]
  /\ running \subseteq Unit
  /\ detector \in [Unit -> {"verify", "store", "end"}]
  /\ early \subseteq Unit
  /\ recorded \subseteq Unit
  /\ callback \in {"idle", "called", "mark", "end"}
  /\ sent \in BOOLEAN
  /\ main \in {"prepare", "signalGate", "gate", "gateWait", "execute", "signal", "summary",
               "send", "wait", "await", "returned"}
  /\ hook \in {"none", "idle", "work", "signal", "end"}
  /\ passed \subseteq Sender
  /\ critical \in Seq(Message)
  /\ statusQ \in Seq(SUBSET Unit) /\ Len(statusQ) <= StatusBuffer
  /\ listener \in {"on", "told", "off"}
  /\ console \in {"live", "quitting", "over", "stopped", "closed"}
  /\ quitBy \in {"nobody", "user", "display", "command"}
  /\ tab \in [Unit -> Tab]
  /\ shown \subseteq Unit
  /\ pending \in {"none", "good", "bad"}
  /\ allWorkDone \in BOOLEAN
  /\ panic \in {"none", "worker", "detector", "callback", "main"}

\* A summary says success only when every unit has its result and none failed, and says
\* failure of a run only when one did, whichever goroutine made it (Finalize, against
\* results that still arrive).
SummaryTellsVerdicts ==
  LET Told(good) == main \in {"gateWait", "returned"} \/
                    /\ \A u \in Unit : verdict[u] # "none"
                    /\ good <=> \A u \in Unit : verdict[u] # "failed"
  IN  /\ \A i \in Summaries : Told(critical[i].good)
      /\ pending # "none" => Told(pending = "good")

\* No worker's completion waits behind a summary, and all of them are on their way when there
\* is one: the tabs hear of every result before the display may end (markUnitComplete reports
\* to the display before AddResult, and both use the critical queue).
VerdictsBeforeSummary ==
  /\ \A i \in Summaries : \A j \in i + 1 .. Len(critical) :
       critical[j].kind = "completed" => critical[j].verdict = "cached"
  /\ (Summaries # {} \/ pending # "none") /\ main \notin {"gateWait", "returned"}
       => \A u \in Unit : pc[u] \in {"counted", "end"}

\* A tab is green or red only for a unit whose result is just that, whatever arrives late,
\* twice or out of order; detection and the tabs left over at the end may only turn it blue.
NoFalseVerdict ==
  \A u \in Unit : tab[u] \in {"success", "failed"} => verdict[u] = tab[u]

\* A display that ended by itself did so after the work and its hook; and a command that ran
\* units returns after the hook, even when a user closed the display (the two gates of
\* handleSummaryData and handleAllWorkDone, and awaitAfterExecute).
ExitAfterAllWork ==
  /\ quitBy = "display" => allWorkDone /\ hook # "work"
  /\ allWorkDone /\ main \notin {"signalGate", "gate", "gateWait", "returned"}
       => \A u \in Unit : pc[u] = "end"
  /\ main = "returned" => hook # "work"

\* A worker's report meets a closed channel only when a user closed the display during the
\* run: without that the display outlives every worker.
DisplayOutlivesWorkers == panic = "worker" => quitBy = "user"

Over == main = "returned" \/ panic # "none"

\* A command that began to run units ends, whatever summary arrives when and in which order
\* the summary, the end of work and the tick reach the loop.
ReportEnds == main = "execute" ~> Over

\* Every command ends without a user (clibase/flags/output.go:19 of --skip-tui-delay,
\* clibase/cmdframework/execute.go:169).
CommandEnds == <>Over

=============================================================================
