---------------------------- MODULE RunReport_proofs ----------------------------
(***************************************************************************)
(* Proofs about RunReport, for any runs and any buffer.                     *)
(***************************************************************************)
EXTENDS RunReport, TLAPS

USE DEF workers, detection, builder, command, model, display, channels

PanicValue == {"none", "worker", "detector", "callback", "main"}

\* A unit has its result once its worker is through with the work, or it was taken out.
VerdictKnown ==
  \A u \in Unit : verdict[u] = "none"
                  <=> pc[u] \in {"waiting", "announced", "progress", "working"}

Typed == TypeOK /\ VerdictKnown

----------------------------------------------------------------------------
\* The helpers

LEMMA SameRun == ASSUME layout' = layout
                 PROVE  Unit' = Unit /\ Message' = Message /\ Sender' = Sender
  BY DEF Unit, Message, Sender, Worker, Detector, Main, Callback

LEMMA Senders ==
  /\ \A u \in Unit : Worker(u) \in Sender /\ Detector(u) \in Sender
  /\ Main \in Sender /\ Callback \in Sender
  /\ \A a \in Sender : a[1] \in PanicValue
  BY DEF Sender, Worker, Detector, Main, Callback, PanicValue

LEMMA SendCriticalTyped ==
  ASSUME TypeOK, NEW a \in Sender, NEW m \in Message, SendCritical(a, m)
  PROVE  passed' \subseteq Sender /\ critical' \in Seq(Message) /\ panic' \in PanicValue
  <1>1. a[1] \in PanicValue
    BY Senders
  <1>2. passed' \subseteq Sender
    BY DEF TypeOK, SendCritical
  <1>3. critical' = critical \/ critical' = Append(critical, m)
    BY DEF SendCritical
  <1>4. panic' = panic \/ panic' = a[1]
    BY DEF SendCritical
  <1>5. critical \in Seq(Message) /\ panic \in PanicValue
    BY DEF TypeOK, PanicValue
  <1>6. Append(critical, m) \in Seq(Message)
    BY <1>5
  <1>7. QED
    BY <1>1, <1>2, <1>3, <1>4, <1>5, <1>6

LEMMA UpdateStatusTyped ==
  ASSUME TypeOK, NEW a \in Sender, NEW names \in SUBSET Unit, UpdateStatus(a, names)
  PROVE  /\ passed' \subseteq Sender /\ panic' \in PanicValue
         /\ statusQ' \in Seq(SUBSET Unit) /\ Len(statusQ') <= StatusBuffer
  <1>1. a[1] \in PanicValue
    BY Senders
  <1>2. passed' \subseteq Sender
    BY DEF TypeOK, UpdateStatus
  <1>3. \/ statusQ' = statusQ
        \/ Len(statusQ) < StatusBuffer /\ statusQ' = Append(statusQ, names)
    BY DEF UpdateStatus
  <1>4. panic' = panic \/ panic' = a[1]
    BY DEF UpdateStatus
  <1>5. statusQ \in Seq(SUBSET Unit) /\ Len(statusQ) <= StatusBuffer /\ panic \in PanicValue
    BY DEF TypeOK, PanicValue
  <1>6. /\ Append(statusQ, names) \in Seq(SUBSET Unit)
        /\ Len(Append(statusQ, names)) = Len(statusQ) + 1 /\ Len(statusQ) \in Nat
    BY <1>5
  <1>7. statusQ' \in Seq(SUBSET Unit) /\ Len(statusQ') <= StatusBuffer
    BY <1>3, <1>5, <1>6, BufferAssumption
  <1>8. QED
    BY <1>1, <1>2, <1>4, <1>5, <1>7

LEMMA SendSummaryTyped ==
  ASSUME TypeOK, NEW a \in Sender, NEW good \in BOOLEAN, SendSummary(a, good)
  PROVE  /\ passed' \subseteq Sender /\ critical' \in Seq(Message) /\ panic' \in PanicValue
         /\ statusQ' = statusQ /\ listener' \in {"on", "told", "off"}
  <1> DEFINE m == [kind |-> "summary", good |-> good]
  <1>1. m \in Message
    BY DEF Message
  <1>2. SendCritical(a, m)
    BY DEF SendSummary
  <1>3. passed' \subseteq Sender /\ critical' \in Seq(Message) /\ panic' \in PanicValue
    <2> HIDE DEF m
    <2> QED BY <1>1, <1>2, SendCriticalTyped
  <1>4. QED
    BY <1>3 DEF SendSummary, TypeOK

----------------------------------------------------------------------------
\* The types

LEMMA WorkerTyped ==
  ASSUME Typed, NEW u \in Unit, WorkerNext(u)
  PROVE  Typed'
  <1>0. Worker(u) \in Sender
    BY Senders
  <1>s. Unit' = Unit /\ Message' = Message /\ Sender' = Sender
    <2>1. layout' = layout
      BY DEF WorkerNext, Acquire, MarkRunning, EmitProgress, Execute, HandleCompletion,
             MarkCompleted, AddResult
    <2>2. QED BY <2>1, SameRun
  <1>1. CASE Acquire(u)
    <2>1. /\ passed' \subseteq Sender /\ panic' \in PanicValue
          /\ statusQ' \in Seq(SUBSET Unit) /\ Len(statusQ') <= StatusBuffer
      BY <1>0, <1>1, UpdateStatusTyped DEF Acquire, Typed
    <2>2. QED
      BY <1>s, <1>1, <2>1 DEF Typed, TypeOK, VerdictKnown, Acquire, Step, PanicValue
  <1>2. CASE MarkRunning(u)
    <2>1. [kind |-> "started", unit |-> u] \in Message
      BY DEF Message
    <2>2. passed' \subseteq Sender /\ critical' \in Seq(Message) /\ panic' \in PanicValue
      <3>1. CASE u \in early
        <4>1. passed' = passed \ {Worker(u)} /\ critical' = critical /\ panic' = panic
          BY <1>2, <3>1 DEF MarkRunning
        <4>2. QED
          BY <4>1 DEF Typed, TypeOK, PanicValue
      <3>2. CASE SendCritical(Worker(u), [kind |-> "started", unit |-> u])
        BY <1>0, <2>1, <3>2, SendCriticalTyped DEF Typed
      <3>3. QED
        BY <1>2, <3>1, <3>2 DEF MarkRunning
    <2>3. /\ running' \subseteq Unit /\ snapshot' \in [Unit -> SUBSET Unit]
          /\ pc' = [pc EXCEPT ![u] = pc'[u]] /\ pc[u] = "announced" /\ pc'[u] \in {"progress", "working"}
      BY <1>2 DEF Typed, TypeOK, MarkRunning, Step
    <2>4. VerdictKnown'
      BY <1>s, <1>2, <2>3 DEF Typed, TypeOK, VerdictKnown, MarkRunning
    <2>5. QED
      BY <1>s, <1>2, <2>2, <2>3, <2>4 DEF Typed, TypeOK, MarkRunning, PanicValue
  <1>3. CASE EmitProgress(u)
    <2>1. snapshot[u] \in SUBSET Unit
      BY DEF Typed, TypeOK
    <2>2. /\ passed' \subseteq Sender /\ panic' \in PanicValue
          /\ statusQ' \in Seq(SUBSET Unit) /\ Len(statusQ') <= StatusBuffer
      BY <1>0, <1>3, <2>1, UpdateStatusTyped DEF EmitProgress, Typed
    <2>3. QED
      BY <1>s, <1>3, <2>2 DEF Typed, TypeOK, VerdictKnown, EmitProgress, Step, PanicValue
  <1>4. CASE Execute(u)
    BY <1>s, <1>4 DEF Typed, TypeOK, VerdictKnown, Execute, Step, Verdict
  <1>5. CASE HandleCompletion(u)
    <2>1. /\ passed' \subseteq Sender /\ panic' \in PanicValue
          /\ statusQ' \in Seq(SUBSET Unit) /\ Len(statusQ') <= StatusBuffer
      BY <1>0, <1>5, UpdateStatusTyped DEF HandleCompletion, Typed
    <2>2. QED
      BY <1>s, <1>5, <2>1 DEF Typed, TypeOK, VerdictKnown, HandleCompletion, Verdict, PanicValue
  <1>6. CASE MarkCompleted(u)
    <2>1. [kind |-> "completed", unit |-> u, verdict |-> verdict[u]] \in Message
      BY <1>6 DEF Message, Typed, TypeOK, VerdictKnown, MarkCompleted, Step
    <2>2. passed' \subseteq Sender /\ critical' \in Seq(Message) /\ panic' \in PanicValue
      BY <1>0, <1>6, <2>1, SendCriticalTyped DEF MarkCompleted, Typed
    <2>3. QED
      BY <1>s, <1>6, <2>2 DEF Typed, TypeOK, VerdictKnown, MarkCompleted, Step, PanicValue
  <1>7. CASE AddResult(u)
    <2>1. snapshot[u] \in SUBSET Unit
      BY DEF Typed, TypeOK
    <2>2. /\ passed' \subseteq Sender /\ panic' \in PanicValue
          /\ statusQ' \in Seq(SUBSET Unit) /\ Len(statusQ') <= StatusBuffer
      BY <1>0, <1>7, <2>1, UpdateStatusTyped DEF AddResult, Typed
    <2>3. QED
      BY <1>s, <1>7, <2>2 DEF Typed, TypeOK, VerdictKnown, AddResult, Step, PanicValue
  <1>8. QED
    BY <1>1, <1>2, <1>3, <1>4, <1>5, <1>6, <1>7 DEF WorkerNext

\* What the other goroutines, the command and the display do leaves the workers alone.
LEMMA OthersTyped ==
  ASSUME Typed, layout' = layout, UNCHANGED workers,
         detector' \in [Unit -> {"verify", "store", "end"}], early' \subseteq Unit,
         UNCHANGED recorded, callback' \in {"idle", "called", "mark", "end"}, sent' \in BOOLEAN,
         main' \in {"prepare", "signalGate", "gate", "gateWait", "execute", "signal", "summary",
                   "send", "wait", "await", "returned"},
         hook' \in {"none", "idle", "work", "signal", "end"},
         passed' \subseteq Sender, critical' \in Seq(Message), panic' \in PanicValue,
         statusQ' \in Seq(SUBSET Unit), Len(statusQ') <= StatusBuffer,
         listener' \in {"on", "told", "off"},
         console' \in {"live", "quitting", "over", "stopped", "closed"},
         quitBy' \in {"nobody", "user", "display", "command"},
         tab' \in [Unit -> Tab], shown' \subseteq Unit, pending' \in {"none", "good", "bad"},
         allWorkDone' \in BOOLEAN
  PROVE  Typed'
  <1>1. Unit' = Unit /\ Message' = Message /\ Sender' = Sender
    BY SameRun
  <1>2. QED
    BY <1>1 DEF Typed, TypeOK, VerdictKnown, PanicValue

LEMMA DetectorTyped ==
  ASSUME Typed, NEW u \in Unit, DetectorNext(u)
  PROVE  Typed'
  <1>1. CASE EmitCached(u)
    <2>1. [kind |-> "completed", unit |-> u, verdict |-> "cached"] \in Message
      BY DEF Message, Verdict
    <2>2. passed' \subseteq Sender /\ critical' \in Seq(Message) /\ panic' \in PanicValue
      BY <1>1, <2>1, Senders, SendCriticalTyped DEF EmitCached, Typed
    <2>3. QED
      BY <1>1, <2>2, OthersTyped DEF EmitCached, Typed, TypeOK
  <1>2. CASE StoreCached(u)
    BY <1>2, OthersTyped DEF StoreCached, Typed, TypeOK, PanicValue
  <1>3. QED
    BY <1>1, <1>2 DEF DetectorNext

LEMMA CommandTyped ==
  ASSUME Typed, CallbackNext \/ CommandNext \/ HookEnds
  PROVE  Typed'
  <1>1. CASE CallbackSends
    <2>1. NoFailure \in BOOLEAN
      BY DEF NoFailure
    <2>2. /\ passed' \subseteq Sender /\ critical' \in Seq(Message) /\ panic' \in PanicValue
          /\ statusQ' = statusQ /\ listener' \in {"on", "told", "off"}
      BY <1>1, <2>1, Senders, SendSummaryTyped DEF CallbackSends, Typed
    <2>3. QED
      BY <1>1, <2>2, OthersTyped DEF CallbackSends, Typed, TypeOK
  <1>2. CASE MarkSummarySent
    BY <1>2, OthersTyped DEF MarkSummarySent, Typed, TypeOK, PanicValue
  <1>3. CASE GateSummary
    <2>1. /\ passed' \subseteq Sender /\ critical' \in Seq(Message) /\ panic' \in PanicValue
          /\ statusQ' = statusQ /\ listener' \in {"on", "told", "off"}
      BY <1>3, Senders, SendSummaryTyped DEF GateSummary, Typed
    <2>2. QED
      BY <1>3, <2>1, OthersTyped DEF GateSummary, Go, Typed, TypeOK
  <1>4. CASE CommandSends
    <2>1. NoFailure \in BOOLEAN
      BY DEF NoFailure
    <2>2. /\ passed' \subseteq Sender /\ critical' \in Seq(Message) /\ panic' \in PanicValue
          /\ statusQ' = statusQ /\ listener' \in {"on", "told", "off"}
      BY <1>4, <2>1, Senders, SendSummaryTyped DEF CommandSends, Typed
    <2>3. QED
      BY <1>4, <2>2, OthersTyped DEF CommandSends, Go, Typed, TypeOK
  <1>5. CASE Prepare
    BY <1>5, OthersTyped
    DEF Prepare, EndEarly, GateFails, Abort, BeginExecute, Go, Typed, TypeOK, PanicValue
  <1>6. CASE EndExecute \/ LookWhetherSent \/ WaitTUI \/ AwaitAfterExecute \/ HookEnds
    BY <1>6, OthersTyped
    DEF EndExecute, LookWhetherSent, WaitTUI, AwaitAfterExecute, HookEnds, Go, Typed, TypeOK,
        PanicValue
  <1>7. QED
    BY <1>1, <1>2, <1>3, <1>4, <1>5, <1>6 DEF CallbackNext, CommandNext

\* How the loop ends by itself.
LEMMA ExitTyped ==
  ASSUME Typed, Exit
  PROVE  /\ console' = "quitting" /\ quitBy' \in {"nobody", "user", "display", "command"}
         /\ tab' \in [Unit -> Tab] /\ pending' = "none"
  BY DEF Typed, TypeOK, Exit, FinalizeAllTabs, Tab

LEMMA TakenTyped ==
  ASSUME NEW S, NEW q \in Seq(S), q # <<>>
  PROVE  Head(q) \in S /\ Tail(q) \in Seq(S) /\ Len(Tail(q)) <= Len(q)
  OBVIOUS

LEMMA CriticalTyped ==
  ASSUME Typed, HandleCritical
  PROVE  Typed'
  <1> DEFINE m == Head(critical)
  <1>1. m \in Message /\ critical' \in Seq(Message)
    BY TakenTyped DEF Typed, TypeOK, HandleCritical
  <1>2. /\ console' \in {"live", "quitting", "over", "stopped", "closed"}
        /\ quitBy' \in {"nobody", "user", "display", "command"}
        /\ tab' \in [Unit -> Tab] /\ pending' \in {"none", "good", "bad"}
    <2>1. CASE m.kind = "started"
      BY <1>1, <2>1 DEF HandleCritical, Typed, TypeOK, Tab
    <2>2. CASE m.kind = "completed"
      <3>1. m.verdict \in Verdict
        BY <1>1, <2>2 DEF Message
      <3>2. TabOf(m.verdict) \in Tab
        BY <3>1 DEF TabOf, Tab, Verdict
      <3>3. QED
        BY <2>2, <3>2 DEF HandleCritical, Typed, TypeOK
    <2>3. CASE m.kind = "summary"
      <3>1. CASE Exit
        BY <3>1, ExitTyped
      <3>2. CASE ~Exit
        BY <2>3, <3>2 DEF HandleCritical, Typed, TypeOK
      <3>3. QED
        BY <3>1, <3>2
    <2>4. QED
      BY <1>1, <2>1, <2>2, <2>3 DEF Message
  <1>3. QED
    <2> HIDE DEF m
    <2> QED
      BY <1>1, <1>2, OthersTyped DEF HandleCritical, Typed, TypeOK, PanicValue

LEMMA DisplayTyped ==
  ASSUME Typed, SignalAllWorkDone \/ DisplayNext \/ UserQuits \/ \E a \in Sender : Look(a)
  PROVE  Typed'
  <1>1. CASE HandleCritical
    BY <1>1, CriticalTyped
  <1>2. CASE HandleStatus
    <2>1. Head(statusQ) \in SUBSET Unit /\ Tail(statusQ) \in Seq(SUBSET Unit)
          /\ Len(Tail(statusQ)) <= StatusBuffer
      BY <1>2, TakenTyped, BufferAssumption DEF HandleStatus, Typed, TypeOK
    <2>2. tab' \in [Unit -> Tab] /\ shown' \subseteq Unit
      BY <1>2, <2>1 DEF HandleStatus, Typed, TypeOK, Tab
    <2>3. QED
      BY <1>2, <2>1, <2>2, OthersTyped DEF HandleStatus, Typed, TypeOK, PanicValue
  <1>3. CASE StopListening \/ UserQuits \/ Cleanup
    BY <1>3, OthersTyped DEF StopListening, UserQuits, Cleanup, Typed, TypeOK, PanicValue
  <1>4. CASE Tick
    BY <1>4, ExitTyped, OthersTyped DEF Tick, Typed, TypeOK, PanicValue
  <1>5. CASE Leave
    <2>1. tab' \in [Unit -> Tab] /\ critical' \in Seq(Message) /\ statusQ' \in Seq(SUBSET Unit)
          /\ Len(statusQ') <= StatusBuffer
      BY <1>5, BufferAssumption DEF Leave, Tab
    <2>2. QED
      BY <1>5, <2>1, OthersTyped DEF Leave, Typed, TypeOK, PanicValue
  <1>6. CASE SignalAllWorkDone
    <2>1. /\ console' \in {"live", "quitting", "over", "stopped", "closed"}
          /\ quitBy' \in {"nobody", "user", "display", "command"}
          /\ tab' \in [Unit -> Tab] /\ pending' \in {"none", "good", "bad"}
          /\ allWorkDone' \in BOOLEAN
      BY <1>6, ExitTyped DEF SignalAllWorkDone, HandleAllWorkDone, Typed, TypeOK
    <2>2. main' \in {main, "gate", "summary"} /\ hook' \in {hook, "end"}
      BY <1>6 DEF SignalAllWorkDone, Go
    <2>3. QED
      BY <1>6, <2>1, <2>2, OthersTyped DEF SignalAllWorkDone, Typed, TypeOK, PanicValue
  <1>7. CASE \E a \in Sender : Look(a)
    BY <1>7, OthersTyped DEF Look, Typed, TypeOK, PanicValue
  <1>8. QED
    BY <1>1, <1>2, <1>3, <1>4, <1>5, <1>6, <1>7 DEF DisplayNext

LEMMA InitTyped == Init => Typed
  <1> SUFFICES ASSUME Init PROVE Typed
    OBVIOUS
  <1>1. VerdictKnown
    BY DEF Init, VerdictKnown
  <1>2. /\ critical \in Seq(Message)
        /\ statusQ \in Seq(SUBSET Unit) /\ Len(statusQ) <= StatusBuffer
    BY BufferAssumption DEF Init
  <1>3. detector \in [Unit -> {"verify", "store", "end"}]
    <2>1. detector \in [Unit -> {"verify", "end"}]
      BY DEF Init
    <2>2. QED
      BY <2>1
  <1>4. /\ pc \in [Unit -> {"waiting"}] /\ verdict \in [Unit -> {"none"}]
        /\ owner \in [Unit -> Unit] /\ snapshot \in [Unit -> SUBSET Unit]
        /\ tab \in [Unit -> {"pending"}]
    BY DEF Init
  <1>5. QED
    BY <1>1, <1>2, <1>3, <1>4 DEF Init, Typed, TypeOK, Tab, Verdict

LEMMA NextTyped == Typed /\ [Next]_vars => Typed'
  <1> SUFFICES ASSUME Typed, [Next]_vars PROVE Typed'
    OBVIOUS
  <1>1. CASE UNCHANGED vars
    <2>1. /\ UNCHANGED <<layout, pc, verdict, owner, snapshot, running, detector, early>>
          /\ UNCHANGED <<recorded, callback, sent, main, hook, passed, critical, statusQ>>
          /\ UNCHANGED <<listener, console, quitBy, tab, shown, pending, allWorkDone, panic>>
      BY <1>1 DEF vars
    <2>2. QED
      BY <2>1, OthersTyped DEF Typed, TypeOK, PanicValue
  <1>2. CASE Next
    BY <1>2, WorkerTyped, DetectorTyped, CommandTyped, DisplayTyped DEF Next
  <1>3. QED
    BY <1>1, <1>2

\* Every variable keeps to its type, for any runs and any buffer of status updates.
THEOREM TypeCorrect == Spec => []TypeOK
  <1>1. Typed => TypeOK
    BY DEF Typed
  <1>2. QED
    BY InitTyped, NextTyped, <1>1, PTL DEF Spec

----------------------------------------------------------------------------
\* Tabs and results

\* What a completion says is what came of the unit, or that it was found cached.
Honest(m) == m.kind = "completed" => m.verdict = "cached" \/ verdict[m.unit] = m.verdict

AllHonest == \A i \in 1 .. Len(critical) : Honest(critical[i])

HonestInv == Typed /\ AllHonest /\ NoFalseVerdict

\* A result is never changed, and only a worker brings one.
LEMMA VerdictStable ==
  ASSUME Typed, [Next]_vars
  PROVE  /\ layout' = layout
         /\ \A u \in Unit : verdict[u] # "none" => verdict'[u] = verdict[u]
  <1>1. CASE UNCHANGED vars
    BY <1>1 DEF vars
  <1>2. ASSUME NEW u \in Unit, WorkerNext(u)
        PROVE  layout' = layout /\ \A v \in Unit : verdict[v] # "none" => verdict'[v] = verdict[v]
    <2>1. CASE Execute(u)
      BY <2>1 DEF Execute, Step, Typed, TypeOK, VerdictKnown
    <2>2. CASE HandleCompletion(u)
      BY <2>2 DEF HandleCompletion, Typed, TypeOK, VerdictKnown
    <2>3. QED
      BY <1>2, <2>1, <2>2
      DEF WorkerNext, Acquire, MarkRunning, EmitProgress, MarkCompleted, AddResult
  <1>3. CASE \E u \in Unit : DetectorNext(u)
    BY <1>3 DEF DetectorNext, EmitCached, StoreCached
  <1>4. CASE CallbackNext \/ CommandNext \/ HookEnds
    BY <1>4 DEF CallbackNext, CallbackSends, MarkSummarySent, CommandNext, Prepare, EndEarly,
         GateFails, Abort, BeginExecute, GateSummary, EndExecute, LookWhetherSent, CommandSends,
         WaitTUI, AwaitAfterExecute, HookEnds
  <1>5. CASE SignalAllWorkDone \/ DisplayNext \/ UserQuits \/ \E a \in Sender : Look(a)
    BY <1>5 DEF SignalAllWorkDone, DisplayNext, HandleCritical, HandleStatus, StopListening, Tick,
         Leave, Cleanup, UserQuits, Look
  <1>6. QED
    BY <1>1, <1>2, <1>3, <1>4, <1>5 DEF Next

\* What is put on the queue is honest, so the queue is.
LEMMA QueueHonest ==
  ASSUME Typed, AllHonest, layout' = layout,
         \A u \in Unit : verdict[u] # "none" => verdict'[u] = verdict[u],
         \/ critical' = critical
         \/ \E m \in Message : critical' = Append(critical, m) /\ (m.kind = "completed" =>
                 m.verdict = "cached" \/ verdict'[m.unit] = m.verdict)
         \/ critical # <<>> /\ critical' = Tail(critical)
         \/ critical' = <<>>
  PROVE  AllHonest'
  <1>1. critical \in Seq(Message)
    BY DEF Typed, TypeOK
  <1>2. ASSUME NEW m \in Message, Honest(m)
        PROVE  m.kind = "completed" => m.verdict = "cached" \/ verdict'[m.unit] = m.verdict
    <2>1. SUFFICES ASSUME m.kind = "completed", verdict[m.unit] = m.verdict
                   PROVE  verdict'[m.unit] = m.verdict
      BY <1>2 DEF Honest
    <2>2. m.unit \in Unit /\ m.verdict # "none"
      BY <2>1 DEF Message, Verdict
    <2>3. QED
      BY <2>1, <2>2
  <1>3. \A i \in 1 .. Len(critical) : critical[i] \in Message
    BY <1>1
  <1>4. CASE critical' = critical
    BY <1>2, <1>3, <1>4 DEF AllHonest, Honest
  <1>5. CASE \E m \in Message : critical' = Append(critical, m) /\ (m.kind = "completed" =>
                 m.verdict = "cached" \/ verdict'[m.unit] = m.verdict)
    <2>1. PICK m \in Message : critical' = Append(critical, m) /\ (m.kind = "completed" =>
                 m.verdict = "cached" \/ verdict'[m.unit] = m.verdict)
      BY <1>5
    <2>2. Len(critical') = Len(critical) + 1 /\ critical'[Len(critical) + 1] = m
          /\ \A i \in 1 .. Len(critical) : critical'[i] = critical[i]
      BY <1>1, <2>1
    <2>3. ASSUME NEW i \in 1 .. Len(critical')
          PROVE  critical'[i].kind = "completed" => critical'[i].verdict = "cached"
                    \/ verdict'[critical'[i].unit] = critical'[i].verdict
      <3>1. CASE i \in 1 .. Len(critical)
        BY <1>2, <1>3, <2>2, <3>1 DEF AllHonest
      <3>2. CASE i = Len(critical) + 1
        BY <2>1, <2>2, <3>2
      <3>3. QED
        BY <1>1, <2>2, <3>1, <3>2
    <2>4. QED
      BY <2>3 DEF AllHonest, Honest
  <1>6. CASE critical # <<>> /\ critical' = Tail(critical)
    <2>1. Len(critical') = Len(critical) - 1
          /\ \A i \in 1 .. Len(critical') : critical'[i] = critical[i + 1]
                                            /\ i + 1 \in 1 .. Len(critical)
      BY <1>1, <1>6
    <2>2. QED
      BY <1>2, <1>3, <2>1 DEF AllHonest, Honest
  <1>7. CASE critical' = <<>>
    BY <1>7 DEF AllHonest
  <1>8. QED
    BY <1>4, <1>5, <1>6, <1>7

\* What a step does to the queue.
LEMMA QueueSteps ==
  ASSUME Typed, [Next]_vars
  PROVE  \/ critical' = critical
         \/ \E m \in Message : critical' = Append(critical, m) /\ (m.kind = "completed" =>
                 m.verdict = "cached" \/ verdict'[m.unit] = m.verdict)
         \/ critical # <<>> /\ critical' = Tail(critical)
         \/ critical' = <<>>
  <1>1. CASE UNCHANGED vars
    BY <1>1 DEF vars
  <1>2. ASSUME NEW a, NEW good \in BOOLEAN, SendSummary(a, good)
        PROVE  critical' = critical \/ \E m \in Message :
                 critical' = Append(critical, m) /\ m.kind # "completed"
    BY <1>2 DEF SendSummary, SendCritical, Message
  <1>3. CASE \E u \in Unit : WorkerNext(u)
    <2> PICK u \in Unit : WorkerNext(u)
      BY <1>3
    <2>1. CASE MarkRunning(u)
      <3>1. [kind |-> "started", unit |-> u] \in Message
        BY DEF Message
      <3>2. critical' = critical \/ critical' = Append(critical, [kind |-> "started", unit |-> u])
        BY <2>1 DEF MarkRunning, SendCritical
      <3>3. QED
        BY <3>1, <3>2
    <2>2. CASE MarkCompleted(u)
      <3> DEFINE m == [kind |-> "completed", unit |-> u, verdict |-> verdict[u]]
      <3>1. m \in Message /\ verdict'[m.unit] = m.verdict
        BY <2>2 DEF Message, Typed, TypeOK, VerdictKnown, MarkCompleted, Step
      <3>2. critical' = critical \/ critical' = Append(critical, m)
        BY <2>2 DEF MarkCompleted, SendCritical
      <3>3. QED
        BY <3>1, <3>2
    <2>3. QED
      BY <2>1, <2>2 DEF WorkerNext, Acquire, EmitProgress, Execute, HandleCompletion, AddResult
  <1>4. CASE \E u \in Unit : DetectorNext(u)
    <2> PICK u \in Unit : DetectorNext(u)
      BY <1>4
    <2> DEFINE m == [kind |-> "completed", unit |-> u, verdict |-> "cached"]
    <2>1. m \in Message /\ m.verdict = "cached"
      BY DEF Message, Verdict
    <2>2. critical' = critical \/ critical' = Append(critical, m)
      BY DEF DetectorNext, EmitCached, StoreCached, SendCritical
    <2>3. QED
      BY <2>1, <2>2
  <1>5. CASE CallbackNext \/ CommandNext \/ HookEnds
    <2>1. NoFailure \in BOOLEAN
      BY DEF NoFailure
    <2>2. CASE CallbackSends \/ GateSummary \/ CommandSends
      BY <1>2, <2>1, <2>2 DEF CallbackSends, GateSummary, CommandSends
    <2>3. QED
      BY <1>5, <2>2 DEF CallbackNext, MarkSummarySent, CommandNext, Prepare, EndEarly,
         GateFails, Abort, BeginExecute, EndExecute, LookWhetherSent,
         WaitTUI, AwaitAfterExecute, HookEnds
  <1>6. CASE SignalAllWorkDone \/ DisplayNext \/ UserQuits \/ \E a \in Sender : Look(a)
    BY <1>6 DEF SignalAllWorkDone, DisplayNext, HandleCritical, HandleStatus, StopListening, Tick,
         Leave, Cleanup, UserQuits, Look
  <1>7. QED
    BY <1>1, <1>3, <1>4, <1>5, <1>6 DEF Next

\* What a step does to the tabs: what a message says, running, skipped, or all forgotten.
LEMMA TabSteps ==
  ASSUME Typed, [Next]_vars, NEW u \in Unit
  PROVE  \/ tab'[u] = tab[u]
         \/ tab'[u] \in {"pending", "running", "skipped"}
         \/ /\ critical # <<>> /\ Head(critical).kind = "completed"
            /\ Head(critical).unit = u /\ tab'[u] = TabOf(Head(critical).verdict)
  <1>1. CASE UNCHANGED vars
    BY <1>1 DEF vars
  <1>2. CASE \E v \in Unit : WorkerNext(v) \/ DetectorNext(v)
    BY <1>2 DEF WorkerNext, Acquire, MarkRunning, EmitProgress, Execute, HandleCompletion,
         MarkCompleted, AddResult, DetectorNext, EmitCached, StoreCached
  <1>3. CASE CallbackNext \/ CommandNext \/ HookEnds
    BY <1>3 DEF CallbackNext, CallbackSends, MarkSummarySent, CommandNext, Prepare, EndEarly,
         GateFails, Abort, BeginExecute, GateSummary, EndExecute, LookWhetherSent, CommandSends,
         WaitTUI, AwaitAfterExecute, HookEnds
  <1>4. Exit => tab'[u] = tab[u] \/ tab'[u] = "skipped"
    BY DEF Exit, FinalizeAllTabs
  <1>5. CASE SignalAllWorkDone \/ Tick
    BY <1>4, <1>5 DEF SignalAllWorkDone, HandleAllWorkDone, Tick
  <1>6. CASE HandleCritical
    BY <1>4, <1>6 DEF HandleCritical, Typed, TypeOK
  <1>7. CASE HandleStatus \/ StopListening \/ Leave \/ Cleanup \/ UserQuits
             \/ \E a \in Sender : Look(a)
    BY <1>7 DEF HandleStatus, StopListening, Leave, Cleanup, UserQuits, Look, Typed, TypeOK
  <1>8. QED
    BY <1>1, <1>2, <1>3, <1>5, <1>6, <1>7 DEF Next, DisplayNext

LEMMA NextHonest == HonestInv /\ [Next]_vars => HonestInv'
  <1> SUFFICES ASSUME HonestInv, [Next]_vars PROVE HonestInv'
    OBVIOUS
  <1>1. Typed /\ AllHonest /\ NoFalseVerdict
    BY DEF HonestInv
  <1>2. Typed'
    BY <1>1, NextTyped
  <1>3. /\ layout' = layout
        /\ \A u \in Unit : verdict[u] # "none" => verdict'[u] = verdict[u]
    BY <1>1, VerdictStable
  <1>4. AllHonest'
    BY <1>1, <1>3, QueueHonest, QueueSteps
  <1>5. ASSUME NEW u \in Unit, tab'[u] \in {"success", "failed"}
        PROVE  verdict'[u] = tab'[u]
    <2>1. CASE tab'[u] = tab[u]
      BY <1>1, <1>3, <1>5, <2>1 DEF NoFalseVerdict
    <2>2. CASE /\ critical # <<>> /\ Head(critical).kind = "completed"
               /\ Head(critical).unit = u /\ tab'[u] = TabOf(Head(critical).verdict)
      <3>1. Head(critical) = critical[1] /\ 1 \in 1 .. Len(critical)
        BY <1>1, <2>2 DEF Typed, TypeOK
      <3>2. Honest(Head(critical))
        BY <1>1, <3>1 DEF AllHonest
      <3>3. Head(critical).verdict = tab'[u]
        BY <1>5, <2>2 DEF TabOf
      <3>4. verdict[u] = tab'[u]
        BY <1>5, <2>2, <3>2, <3>3 DEF Honest
      <3>5. QED
        BY <1>3, <1>5, <3>4
    <2>3. QED
      BY <1>1, <1>5, <2>1, <2>2, TabSteps
  <1>6. Unit' = Unit
    BY <1>3, SameRun
  <1>7. QED
    BY <1>2, <1>4, <1>5, <1>6 DEF HonestInv, NoFalseVerdict

\* For any runs and any buffer, a tab is green or red only for a unit whose result is just
\* that: late, repeated or reordered reports can at most turn it blue.
THEOREM TabsTrue == Spec => []NoFalseVerdict
  <1>1. Init => HonestInv
    BY InitTyped DEF Init, HonestInv, AllHonest, NoFalseVerdict
  <1>2. HonestInv => NoFalseVerdict
    BY DEF HonestInv
  <1>3. QED
    BY <1>1, NextHonest, <1>2, PTL DEF Spec

----------------------------------------------------------------------------
\* The end

Late == {"signal", "summary", "send", "wait", "await"}

\* Units are worked on while the command waits for them, and are done after that; only then,
\* or at a gate, is the display told that all work is done, and the hook runs before it is.
WorkInTime ==
  /\ main \in Late => \A u \in Unit : pc[u] = "end"
  /\ \A u \in Unit : pc[u] # "waiting" => main \in {"execute", "returned"} \cup Late
  /\ hook \in {"work", "signal", "end"} => main \in {"returned"} \cup Late
  /\ main = "signal" => hook = "none"
  /\ main = "returned" \/ allWorkDone => hook # "work"
  /\ allWorkDone => main \in {"gate", "gateWait", "returned"} \cup Late

\* Who ended the display had a reason to.
EndInTime ==
  /\ console # "live" => quitBy # "nobody"
  /\ quitBy = "display" => allWorkDone
  /\ quitBy = "command" => main \in {"gateWait", "returned"}
  /\ panic = "worker" => quitBy = "user"

ExitInv == Typed /\ WorkInTime /\ EndInTime

\* Only a worker's send may panic on its behalf, and only once the loop is over.
LEMMA SendPanics ==
  /\ \A a, m : SendCritical(a, m)
               => panic' \in {panic, a[1]} /\ (panic' = panic \/ console # "live")
  /\ \A a, good : SendSummary(a, good)
               => panic' \in {panic, a[1]} /\ (panic' = panic \/ console # "live")
  /\ \A a, names : UpdateStatus(a, names)
               => panic' \in {panic, a[1]} /\ (panic' = panic \/ console # "live")
  <1>1. ASSUME NEW a, NEW m, SendCritical(a, m)
        PROVE  panic' \in {panic, a[1]} /\ (panic' = panic \/ console # "live")
    BY <1>1 DEF SendCritical, Closed
  <1>2. ASSUME NEW a, NEW names, UpdateStatus(a, names)
        PROVE  panic' \in {panic, a[1]} /\ (panic' = panic \/ console # "live")
    BY <1>2 DEF UpdateStatus, Stopped
  <1>3. ASSUME NEW a, NEW good, SendSummary(a, good)
        PROVE  panic' \in {panic, a[1]} /\ (panic' = panic \/ console # "live")
    BY <1>1, <1>3 DEF SendSummary
  <1>4. QED
    BY <1>1, <1>2, <1>3

LEMMA WorkerInTime ==
  ASSUME ExitInv, NEW u \in Unit, WorkerNext(u)
  PROVE  WorkInTime' /\ EndInTime'
  <1>1. Alive
    BY DEF WorkerNext, Acquire, MarkRunning, EmitProgress, Execute, HandleCompletion,
           MarkCompleted, AddResult, Step
  <1>2. MayStart(u) \/ pc[u] \notin {"waiting", "end"}
    BY DEF WorkerNext, Acquire, MarkRunning, EmitProgress, Execute, HandleCompletion,
           MarkCompleted, AddResult, Step
  <1>3. main = "execute"
    BY <1>1, <1>2 DEF ExitInv, WorkInTime, MayStart, Alive
  <1>4. UNCHANGED <<layout, main, hook, console, quitBy, allWorkDone>>
    BY DEF WorkerNext, Acquire, MarkRunning, EmitProgress, Execute, HandleCompletion,
           MarkCompleted, AddResult
  <1>5. panic' = panic \/ console # "live"
    <2>1. CASE Acquire(u) \/ EmitProgress(u) \/ HandleCompletion(u) \/ AddResult(u)
      BY <2>1, SendPanics DEF Acquire, EmitProgress, HandleCompletion, AddResult
    <2>2. CASE MarkRunning(u) \/ MarkCompleted(u)
      BY <2>2, SendPanics DEF MarkRunning, MarkCompleted
    <2>3. CASE Execute(u)
      BY <2>3 DEF Execute
    <2>4. QED
      BY <2>1, <2>2, <2>3 DEF WorkerNext
  <1>6. WorkInTime'
    BY <1>3, <1>4 DEF ExitInv, WorkInTime, Late
  <1>7. console # "live" => quitBy = "user"
    BY <1>3 DEF ExitInv, WorkInTime, EndInTime, Late, Typed, TypeOK
  <1>8. QED
    BY <1>3, <1>4, <1>5, <1>6, <1>7 DEF ExitInv, EndInTime

LEMMA NextInTime == ExitInv /\ [Next]_vars => ExitInv'
  <1> SUFFICES ASSUME ExitInv, [Next]_vars PROVE WorkInTime' /\ EndInTime'
    BY NextTyped DEF ExitInv
  <1>0. Typed /\ WorkInTime /\ EndInTime /\ layout' = layout /\ Unit' = Unit
    BY VerdictStable, SameRun DEF ExitInv
  <1>1. CASE UNCHANGED vars
    BY <1>0, <1>1 DEF vars, WorkInTime, EndInTime
  <1>2. CASE \E u \in Unit : WorkerNext(u)
    BY <1>2, WorkerInTime
  <1>3. CASE \E u \in Unit : DetectorNext(u)
    <2>1. PICK u \in Unit : DetectorNext(u)
      BY <1>3
    <2>2. UNCHANGED <<pc, main, hook, console, quitBy, allWorkDone>>
      BY <2>1 DEF DetectorNext, EmitCached, StoreCached
    <2>3. panic' = panic \/ panic' # "worker"
      BY <2>1, SendPanics DEF DetectorNext, EmitCached, StoreCached, Detector
    <2>4. QED
      BY <1>0, <2>2, <2>3 DEF WorkInTime, EndInTime
  <1>4. CASE CallbackNext
    <2>1. UNCHANGED <<pc, main, hook, console, quitBy, allWorkDone>>
      BY <1>4 DEF CallbackNext, CallbackSends, MarkSummarySent
    <2>2. panic' = panic \/ panic' # "worker"
      BY <1>4, SendPanics DEF CallbackNext, CallbackSends, MarkSummarySent, Callback
    <2>3. QED
      BY <1>0, <2>1, <2>2 DEF WorkInTime, EndInTime
  <1>5. CASE CommandNext \/ HookEnds
    <2>1. UNCHANGED <<pc, allWorkDone>> /\ Alive
      BY <1>5 DEF CommandNext, Prepare, EndEarly, GateFails, Abort, BeginExecute, GateSummary,
           EndExecute, LookWhetherSent, CommandSends, WaitTUI, AwaitAfterExecute, HookEnds, Go
    <2>2. CASE GateSummary \/ CommandSends
      <3>1. panic' = panic \/ panic' # "worker"
        <4>1. PICK good : SendSummary(Main, good)
          BY <2>2 DEF GateSummary, CommandSends
        <4>2. panic' \in {panic, Main[1]}
          BY <4>1, SendPanics
        <4>3. QED
          BY <4>2 DEF Main
      <3>2. QED
        BY <1>0, <2>1, <2>2, <3>1 DEF GateSummary, CommandSends, Go, WorkInTime, EndInTime, Late
    <2>3. CASE Prepare
      BY <1>0, <2>1, <2>3 DEF Prepare, EndEarly, GateFails, Abort, BeginExecute, Go, Alive,
           Stopped, WorkInTime, EndInTime, Late
    <2>4. CASE EndExecute \/ LookWhetherSent \/ WaitTUI \/ AwaitAfterExecute \/ HookEnds
      BY <1>0, <2>1, <2>4 DEF EndExecute, LookWhetherSent, WaitTUI, AwaitAfterExecute, HookEnds,
           Go, Alive, WorkInTime, EndInTime, Late, Typed, TypeOK
    <2>5. QED
      BY <1>5, <2>2, <2>3, <2>4 DEF CommandNext
  <1>6. CASE DisplayNext \/ UserQuits \/ \E a \in Sender : Look(a)
    <2>1. UNCHANGED <<pc, main, hook, allWorkDone, panic>>
      BY <1>6 DEF DisplayNext, HandleCritical, HandleStatus, StopListening, Tick, Leave, Cleanup,
           UserQuits, Look
    <2>2. \/ UNCHANGED <<console, quitBy>>
          \/ quitBy' = quitBy /\ console # "live"
          \/ console' = "quitting" /\ allWorkDone
                /\ quitBy' = IF quitBy = "nobody" THEN "display" ELSE quitBy
          \/ quitBy' = "user"
      BY <1>6 DEF DisplayNext, HandleCritical, HandleStatus, StopListening, Tick, Leave, Cleanup,
           UserQuits, Look, Exit
    <2>3. QED
      BY <1>0, <2>1, <2>2 DEF WorkInTime, EndInTime
  <1>7. CASE SignalAllWorkDone
    <2>1. UNCHANGED <<pc, panic>>
      BY <1>7 DEF SignalAllWorkDone
    <2>2. \/ main = "signalGate" /\ main' = "gate" /\ hook' = hook
          \/ main = "signal" /\ main' = "summary" /\ hook' = hook
          \/ hook = "signal" /\ hook' = "end" /\ main' = main
      BY <1>7 DEF SignalAllWorkDone, Go
    <2>3. \/ UNCHANGED <<console, quitBy, allWorkDone>>
          \/ allWorkDone' /\ UNCHANGED <<console, quitBy>>
          \/ allWorkDone' /\ console' = "quitting"
                /\ quitBy' = IF quitBy = "nobody" THEN "display" ELSE quitBy
      BY <1>7 DEF SignalAllWorkDone, HandleAllWorkDone, Exit
    <2>4. QED
      BY <1>0, <2>1, <2>2, <2>3 DEF WorkInTime, EndInTime, Late, Typed, TypeOK
  <1>8. QED
    BY <1>1, <1>2, <1>3, <1>4, <1>5, <1>6, <1>7 DEF Next

LEMMA InitInTime == Init => ExitInv
  BY InitTyped DEF Init, ExitInv, WorkInTime, EndInTime, Late

\* For any runs and any buffer, a display that ended by itself did so after all work and its
\* hook, and a command that ran units returns after the hook.
THEOREM EndsAfterWork == Spec => []ExitAfterAllWork
  <1>1. ExitInv => ExitAfterAllWork
    BY DEF ExitInv, WorkInTime, EndInTime, ExitAfterAllWork, Late
  <1>2. QED
    BY InitInTime, NextInTime, <1>1, PTL DEF Spec

\* For any runs and any buffer, no worker's report meets a closed channel unless a user
\* closed the display.
THEOREM WorkersOutlived == Spec => []DisplayOutlivesWorkers
  <1>1. ExitInv => DisplayOutlivesWorkers
    BY DEF ExitInv, EndInTime, DisplayOutlivesWorkers
  <1>2. QED
    BY InitInTime, NextInTime, <1>1, PTL DEF Spec

----------------------------------------------------------------------------
\* Summaries

\* A summary tells what came of the units of a run that is through, or that there was no run.
Told(good) ==
  \/ main \in {"gateWait", "returned"}
  \/ (\A u \in Unit : pc[u] = "end") /\ (good <=> \A u \in Unit : verdict[u] # "failed")

Recorded == recorded = {u \in Unit : pc[u] = "end"}

CallbackAfterAll == callback # "idle" => \A u \in Unit : pc[u] = "end"

AllTold ==
  /\ \A i \in 1 .. Len(critical) : critical[i].kind = "summary" => Told(critical[i].good)
  /\ pending # "none" => Told(pending = "good")

\* Behind a summary, only what detection found.
InOrder ==
  \A i, j \in 1 .. Len(critical) :
    i < j /\ critical[i].kind = "summary" /\ critical[j].kind = "completed"
      => critical[j].verdict = "cached"

SummaryInv == ExitInv /\ Recorded /\ CallbackAfterAll /\ AllTold /\ InOrder

LEMMA SummaryImplies ==
  SummaryInv => SummaryTellsVerdicts /\ VerdictsBeforeSummary
  <1> SUFFICES ASSUME SummaryInv PROVE SummaryTellsVerdicts /\ VerdictsBeforeSummary
    OBVIOUS
  <1>1. critical \in Seq(Message) /\ DOMAIN critical = 1 .. Len(critical) /\ Len(critical) \in Nat
    BY DEF SummaryInv, ExitInv, Typed, TypeOK
  <1>2. ASSUME \A u \in Unit : pc[u] = "end"
        PROVE  \A u \in Unit : verdict[u] # "none"
    BY <1>2 DEF SummaryInv, ExitInv, Typed, VerdictKnown
  <1>3. SummaryTellsVerdicts
    BY <1>1, <1>2 DEF SummaryInv, AllTold, Told, SummaryTellsVerdicts, Summaries
  <1>4. ASSUME NEW i \in Summaries, NEW j \in i + 1 .. Len(critical), critical[j].kind = "completed"
        PROVE  critical[j].verdict = "cached"
    <2>1. i \in 1 .. Len(critical) /\ j \in 1 .. Len(critical) /\ i < j
      BY <1>1 DEF Summaries
    <2>2. QED
      BY <1>4, <2>1 DEF SummaryInv, InOrder, Summaries
  <1>5. (Summaries # {} \/ pending # "none") /\ main \notin {"gateWait", "returned"}
          => \A u \in Unit : pc[u] \in {"counted", "end"}
    BY <1>1 DEF SummaryInv, AllTold, Told, Summaries
  <1>6. QED
    BY <1>3, <1>4, <1>5 DEF VerdictsBeforeSummary

\* Once every unit is through no worker does anything.
LEMMA WorkOver ==
  ASSUME NEW u \in Unit, WorkerNext(u)
  PROVE  pc[u] # "end" /\ Alive
  BY DEF WorkerNext, Acquire, MarkRunning, EmitProgress, Execute, HandleCompletion,
         MarkCompleted, AddResult, Step

\* Only workers change what the others tell of them.
LEMMA OthersLeaveWork ==
  ASSUME [Next]_vars, ~\E u \in Unit : WorkerNext(u)
  PROVE  /\ UNCHANGED <<pc, verdict, recorded>>
         /\ callback' = callback \/ callback # "idle"
  BY DEF vars, Next, DetectorNext, EmitCached, StoreCached, CallbackNext, CallbackSends,
         MarkSummarySent, CommandNext, Prepare, EndEarly, GateFails, Abort, BeginExecute,
         GateSummary, EndExecute, LookWhetherSent, CommandSends, WaitTUI, AwaitAfterExecute,
         HookEnds, SignalAllWorkDone, DisplayNext, HandleCritical, HandleStatus, StopListening,
         Tick, Leave, Cleanup, UserQuits, Look

\* A command that is through, or waits behind a gate, does not begin again.
LEMMA MainSettles ==
  ASSUME Typed, [Next]_vars, main \in {"gateWait", "returned"}
  PROVE  main' \in {"gateWait", "returned"}
  <1>1. CASE CommandNext \/ HookEnds \/ SignalAllWorkDone
    BY <1>1 DEF CommandNext, Prepare, EndEarly, GateFails, Abort, BeginExecute, GateSummary,
         EndExecute, LookWhetherSent, CommandSends, WaitTUI, AwaitAfterExecute, HookEnds,
         SignalAllWorkDone, Go, Alive
  <1>2. CASE UNCHANGED vars
    BY <1>2 DEF vars
  <1>3. CASE \E u \in Unit : WorkerNext(u) \/ DetectorNext(u)
    BY <1>3 DEF WorkerNext, Acquire, MarkRunning, EmitProgress, Execute, HandleCompletion,
         MarkCompleted, AddResult, DetectorNext, EmitCached, StoreCached
  <1>4. CASE CallbackNext \/ DisplayNext \/ UserQuits \/ \E a \in Sender : Look(a)
    BY <1>4 DEF CallbackNext, CallbackSends, MarkSummarySent, DisplayNext, HandleCritical,
         HandleStatus, StopListening, Tick, Leave, Cleanup, UserQuits, Look
  <1>5. QED
    BY <1>1, <1>2, <1>3, <1>4 DEF Next

LEMMA ToldStable ==
  ASSUME Typed, [Next]_vars, NEW good, Told(good)
  PROVE  Told(good)'
  <1>1. Unit' = Unit
    BY VerdictStable, SameRun
  <1>2. CASE main \in {"gateWait", "returned"}
    BY <1>2, MainSettles DEF Told
  <1>3. CASE \A u \in Unit : pc[u] = "end"
    <2>1. UNCHANGED <<pc, verdict>>
      BY <1>3, WorkOver, OthersLeaveWork
    <2>2. CASE main \in {"gateWait", "returned"}
      BY <1>2, <2>2
    <2>3. CASE main \notin {"gateWait", "returned"}
      BY <1>1, <2>1, <2>3 DEF Told
    <2>4. QED
      BY <2>2, <2>3
  <1>4. QED
    BY <1>2, <1>3 DEF Told

LEMMA RecordedNext ==
  ASSUME SummaryInv, [Next]_vars
  PROVE  Recorded' /\ CallbackAfterAll'
  <1>0. Typed /\ Recorded /\ CallbackAfterAll /\ Unit' = Unit /\ layout' = layout
    BY VerdictStable, SameRun DEF SummaryInv, ExitInv
  <1>1. CASE \E u \in Unit : WorkerNext(u)
    <2> PICK u \in Unit : WorkerNext(u)
      BY <1>1
    <2>1. pc[u] # "end"
      BY WorkOver
    <2>2. CASE AddResult(u)
      <3>1. pc' = [pc EXCEPT ![u] = "end"] /\ recorded' = recorded \cup {u}
        BY <2>2 DEF AddResult, Step
      <3>2. Recorded'
        BY <1>0, <3>1 DEF Recorded, Typed, TypeOK
      <3>3. callback = "idle"
        BY <1>0, <2>1 DEF CallbackAfterAll
      <3>4. callback' # "idle" => \A v \in Unit : v \in recorded'
        BY <2>2, <3>3 DEF AddResult, Complete, Modules
      <3>5. QED
        BY <1>0, <3>2, <3>4 DEF Recorded, CallbackAfterAll
    <2>3. CASE ~AddResult(u)
      <3>1. recorded' = recorded /\ callback' = callback
        BY <2>3 DEF WorkerNext, Acquire, MarkRunning, EmitProgress, Execute, HandleCompletion,
             MarkCompleted
      <3>2. \A v \in Unit : pc'[v] = "end" <=> pc[v] = "end"
        BY <1>0, <2>3 DEF WorkerNext, Acquire, MarkRunning, EmitProgress, Execute,
             HandleCompletion, MarkCompleted, Step, Typed, TypeOK
      <3>3. QED
        BY <1>0, <3>1, <3>2 DEF Recorded, CallbackAfterAll
    <2>4. QED
      BY <2>2, <2>3
  <1>2. CASE ~\E u \in Unit : WorkerNext(u)
    BY <1>0, <1>2, OthersLeaveWork DEF Recorded, CallbackAfterAll
  <1>3. QED
    BY <1>1, <1>2

\* Finalize, once every unit has its result.
LEMMA FinalVerdict ==
  ASSUME SummaryInv, \A u \in Unit : pc[u] = "end"
  PROVE  NoFailure <=> \A u \in Unit : verdict[u] # "failed"
  <1>1. \A m : Complete(m, recorded)
    BY DEF SummaryInv, Recorded, Complete
  <1>2. \A u \in Unit : Module(u) \in Modules
    BY DEF Modules
  <1>3. QED
    BY <1>1, <1>2 DEF NoFailure

\* What is put on the queue: a summary that tells, and no result behind one.
LEMMA NewMessages ==
  ASSUME SummaryInv, [Next]_vars
  PROVE  \/ critical' = critical
         \/ \E m \in Message :
              /\ critical' = Append(critical, m)
              /\ m.kind = "summary" => Told(m.good)'
              /\ m.kind = "completed" =>
                   \/ m.verdict = "cached"
                   \/ \A i \in 1 .. Len(critical) : critical[i].kind # "summary"
         \/ critical # <<>> /\ critical' = Tail(critical)
         \/ critical' = <<>>
  <1>0. Typed /\ ExitInv /\ Unit' = Unit /\ layout' = layout
    BY VerdictStable, SameRun DEF SummaryInv, ExitInv
  <1>1. CASE UNCHANGED vars
    BY <1>1 DEF vars
  <1>2. ASSUME NEW a, NEW good \in BOOLEAN, SendSummary(a, good), Told(good)'
        PROVE  \/ critical' = critical
               \/ \E m \in Message :
                    /\ critical' = Append(critical, m)
                    /\ m.kind = "summary" => Told(m.good)'
                    /\ m.kind # "completed"
    <2> DEFINE m == [kind |-> "summary", good |-> good]
    <2>1. m \in Message /\ m.kind # "completed" /\ m.good = good
      BY DEF Message
    <2>2. critical' = critical \/ critical' = Append(critical, m)
      BY <1>2 DEF SendSummary, SendCritical
    <2>3. Told(m.good)'
      BY <1>2 DEF Told
    <2> HIDE DEF m
    <2>4. QED
      BY <2>1, <2>2, <2>3
  <1>3. CASE \E u \in Unit : WorkerNext(u)
    <2> PICK u \in Unit : WorkerNext(u)
      BY <1>3
    <2>1. CASE MarkRunning(u)
      <3>1. [kind |-> "started", unit |-> u] \in Message
        BY DEF Message
      <3>2. critical' = critical \/ critical' = Append(critical, [kind |-> "started", unit |-> u])
        BY <2>1 DEF MarkRunning, SendCritical
      <3>3. QED
        BY <3>1, <3>2
    <2>2. CASE MarkCompleted(u)
      <3> DEFINE m == [kind |-> "completed", unit |-> u, verdict |-> verdict[u]]
      <3>1. m \in Message
        BY <1>0, <2>2 DEF Message, Typed, TypeOK, VerdictKnown, MarkCompleted, Step
      <3>2. critical' = critical \/ critical' = Append(critical, m)
        BY <2>2 DEF MarkCompleted, SendCritical
      <3>3. pc[u] = "decided" /\ main \notin {"gateWait", "returned"}
        BY <1>0, <2>2 DEF MarkCompleted, Step, Alive, ExitInv, WorkInTime, Late
      <3>4. \A good : ~Told(good)
        BY <3>3 DEF Told
      <3>5. \A i \in 1 .. Len(critical) : critical[i].kind # "summary"
        BY <3>4 DEF SummaryInv, AllTold
      <3>6. QED
        BY <3>1, <3>2, <3>5
    <2>3. QED
      BY <2>1, <2>2 DEF WorkerNext, Acquire, EmitProgress, Execute, HandleCompletion, AddResult
  <1>4. CASE \E u \in Unit : DetectorNext(u)
    <2> PICK u \in Unit : DetectorNext(u)
      BY <1>4
    <2> DEFINE m == [kind |-> "completed", unit |-> u, verdict |-> "cached"]
    <2>1. m \in Message /\ m.verdict = "cached" /\ m.kind # "summary"
      BY DEF Message, Verdict
    <2>2. critical' = critical \/ critical' = Append(critical, m)
      BY DEF DetectorNext, EmitCached, StoreCached, SendCritical
    <2> HIDE DEF m
    <2>3. QED
      BY <2>1, <2>2
  <1>5. NoFailure \in BOOLEAN
    BY DEF NoFailure
  <1>6. CASE CallbackSends
    <2>1. \A u \in Unit : pc[u] = "end"
      BY <1>6 DEF CallbackSends, SummaryInv, CallbackAfterAll
    <2>2. UNCHANGED <<pc, verdict>>
      BY <1>6 DEF CallbackSends
    <2>3. \/ SendSummary(Callback, TRUE) /\ NoFailure
          \/ SendSummary(Callback, FALSE) /\ ~NoFailure
      BY <1>5, <1>6 DEF CallbackSends
    <2>4. (Told(TRUE)' /\ NoFailure) \/ (Told(FALSE)' /\ ~NoFailure)
      BY <1>0, <1>5, <2>1, <2>2, FinalVerdict DEF Told
    <2>5. QED
      BY <1>2, <2>3, <2>4
  <1>7. CASE CommandSends
    <2>1. \A u \in Unit : pc[u] = "end"
      BY <1>0, <1>7 DEF CommandSends, Go, ExitInv, WorkInTime, Late
    <2>2. UNCHANGED <<pc, verdict>>
      BY <1>7 DEF CommandSends
    <2>3. \/ SendSummary(Main, TRUE) /\ NoFailure
          \/ SendSummary(Main, FALSE) /\ ~NoFailure
      BY <1>5, <1>7 DEF CommandSends
    <2>4. (Told(TRUE)' /\ NoFailure) \/ (Told(FALSE)' /\ ~NoFailure)
      BY <1>0, <1>5, <2>1, <2>2, FinalVerdict DEF Told
    <2>5. QED
      BY <1>2, <2>3, <2>4
  <1>8. CASE GateSummary
    <2>1. SendSummary(Main, FALSE) /\ Told(FALSE)'
      BY <1>8 DEF GateSummary, Go, Told
    <2>2. QED
      BY <1>2, <2>1
  <1>9. CASE MarkSummarySent \/ Prepare \/ EndExecute \/ LookWhetherSent \/ WaitTUI
             \/ AwaitAfterExecute \/ HookEnds
    BY <1>9 DEF MarkSummarySent, Prepare, EndEarly, GateFails, Abort, BeginExecute, EndExecute,
         LookWhetherSent, WaitTUI, AwaitAfterExecute, HookEnds
  <1>10. CASE SignalAllWorkDone \/ DisplayNext \/ UserQuits \/ \E a \in Sender : Look(a)
    BY <1>10 DEF SignalAllWorkDone, DisplayNext, HandleCritical, HandleStatus, StopListening, Tick,
         Leave, Cleanup, UserQuits, Look
  <1>11. QED
    BY <1>1, <1>3, <1>4, <1>6, <1>7, <1>8, <1>9, <1>10 DEF Next, CallbackNext, CommandNext

\* What the loop holds back is a summary it took from the queue.
LEMMA PendingSteps ==
  ASSUME Typed, [Next]_vars
  PROVE  \/ pending' = pending
         \/ pending' = "none"
         \/ /\ critical # <<>> /\ Head(critical).kind = "summary"
            /\ pending' = IF Head(critical).good THEN "good" ELSE "bad"
  <1>1. CASE UNCHANGED vars
    BY <1>1 DEF vars
  <1>2. CASE \E v \in Unit : WorkerNext(v) \/ DetectorNext(v)
    BY <1>2 DEF WorkerNext, Acquire, MarkRunning, EmitProgress, Execute, HandleCompletion,
         MarkCompleted, AddResult, DetectorNext, EmitCached, StoreCached
  <1>3. CASE CallbackNext \/ CommandNext \/ HookEnds
    BY <1>3 DEF CallbackNext, CallbackSends, MarkSummarySent, CommandNext, Prepare, EndEarly,
         GateFails, Abort, BeginExecute, GateSummary, EndExecute, LookWhetherSent, CommandSends,
         WaitTUI, AwaitAfterExecute, HookEnds
  <1>4. CASE SignalAllWorkDone \/ Tick \/ HandleCritical
    BY <1>4 DEF SignalAllWorkDone, HandleAllWorkDone, Tick, HandleCritical, Exit
  <1>5. CASE HandleStatus \/ StopListening \/ Leave \/ Cleanup \/ UserQuits
             \/ \E a \in Sender : Look(a)
    BY <1>5 DEF HandleStatus, StopListening, Leave, Cleanup, UserQuits, Look
  <1>6. QED
    BY <1>1, <1>2, <1>3, <1>4, <1>5 DEF Next, DisplayNext

LEMMA QueueTells ==
  ASSUME SummaryInv, [Next]_vars
  PROVE  AllTold' /\ InOrder'
  <1>1. critical \in Seq(Message) /\ Typed /\ AllTold /\ InOrder
    BY DEF SummaryInv, ExitInv, Typed, TypeOK
  <1>2. \A good : Told(good) => Told(good)'
    BY <1>1, ToldStable
  <1>3. \A i \in 1 .. Len(critical) : critical[i] \in Message
    BY <1>1
  <1>4. ASSUME NEW i \in 1 .. Len(critical), critical[i].kind = "summary"
        PROVE  (critical[i].good /\ Told(TRUE)') \/ (~critical[i].good /\ Told(FALSE)')
    <2>1. critical[i].good \in BOOLEAN
      BY <1>3, <1>4 DEF Message
    <2>2. (critical[i].good /\ Told(TRUE)) \/ (~critical[i].good /\ Told(FALSE))
      BY <1>1, <1>4, <2>1 DEF AllTold
    <2>3. QED
      BY <1>2, <2>2
  <1>5. pending' # "none" => Told(pending = "good")'
    <2>0. (Told(TRUE)' /\ pending' = "good") \/ (Told(FALSE)' /\ pending' # "good")
            => Told(pending = "good")'
      BY DEF Told
    <2>1. CASE pending' = pending /\ pending # "none"
      <3>1. (Told(TRUE) /\ pending = "good") \/ (Told(FALSE) /\ pending # "good")
        BY <1>1, <2>1 DEF AllTold, Told
      <3>2. QED
        BY <1>2, <2>0, <2>1, <3>1
    <2>2. CASE /\ critical # <<>> /\ Head(critical).kind = "summary"
               /\ pending' = IF Head(critical).good THEN "good" ELSE "bad"
      <3>1. Head(critical) = critical[1] /\ 1 \in 1 .. Len(critical)
        BY <1>1, <2>2
      <3>2. QED
        BY <1>4, <2>0, <2>2, <3>1
    <2>3. QED
      BY <1>1, <2>1, <2>2, PendingSteps
  <1>6. CASE critical' = critical
    BY <1>1, <1>4, <1>5, <1>6 DEF AllTold, InOrder, Told
  <1>7. CASE \E m \in Message :
              /\ critical' = Append(critical, m)
              /\ m.kind = "summary" => Told(m.good)'
              /\ m.kind = "completed" =>
                   \/ m.verdict = "cached"
                   \/ \A i \in 1 .. Len(critical) : critical[i].kind # "summary"
    <2>1. PICK m \in Message :
              /\ critical' = Append(critical, m)
              /\ m.kind = "summary" => Told(m.good)'
              /\ m.kind = "completed" =>
                   \/ m.verdict = "cached"
                   \/ \A i \in 1 .. Len(critical) : critical[i].kind # "summary"
      BY <1>7
    <2>2. /\ Len(critical') = Len(critical) + 1 /\ critical'[Len(critical) + 1] = m
          /\ \A i \in 1 .. Len(critical) : critical'[i] = critical[i]
      BY <1>1, <2>1
    <2>3. ASSUME NEW i \in 1 .. Len(critical'), critical'[i].kind = "summary"
          PROVE  Told(critical[i].good)'
      <3>1. CASE i \in 1 .. Len(critical)
        BY <1>4, <2>2, <2>3, <3>1 DEF Told
      <3>2. CASE i = Len(critical) + 1
        BY <2>1, <2>2, <2>3, <3>2 DEF Told
      <3>3. QED
        BY <1>1, <2>2, <3>1, <3>2
    <2>4. InOrder'
      <3>1. Len(critical) \in Nat
        BY <1>1
      <3>2. QED
        BY <1>1, <2>1, <2>2, <3>1 DEF InOrder
    <2>5. QED
      BY <1>5, <2>3, <2>4 DEF AllTold
  <1>8. CASE critical # <<>> /\ critical' = Tail(critical)
    <2>1. /\ Len(critical') = Len(critical) - 1
          /\ \A i \in 1 .. Len(critical') : /\ critical'[i] = critical[i + 1]
                                            /\ i + 1 \in 1 .. Len(critical)
      BY <1>1, <1>8
    <2>2. ASSUME NEW i \in 1 .. Len(critical'), critical'[i].kind = "summary"
          PROVE  Told(critical[i].good)'
      BY <1>4, <2>1, <2>2 DEF Told
    <2>3. ASSUME NEW i \in 1 .. Len(critical'), NEW j \in 1 .. Len(critical'), i < j,
                 critical'[i].kind = "summary", critical'[j].kind = "completed"
          PROVE  critical'[j].verdict = "cached"
      <3>1. i + 1 < j + 1
        BY <1>1, <2>1, <2>3
      <3>2. /\ critical'[i] = critical[i + 1] /\ i + 1 \in 1 .. Len(critical)
            /\ critical'[j] = critical[j + 1] /\ j + 1 \in 1 .. Len(critical)
        BY <2>1
      <3>3. QED
        BY <1>1, <2>3, <3>1, <3>2 DEF InOrder
    <2>4. InOrder'
      BY <2>3 DEF InOrder
    <2>5. QED
      BY <1>5, <2>2, <2>4 DEF AllTold
  <1>9. CASE critical' = <<>>
    BY <1>5, <1>9 DEF AllTold, InOrder
  <1>10. QED
    BY <1>6, <1>7, <1>8, <1>9, NewMessages

LEMMA NextSummary == SummaryInv /\ [Next]_vars => SummaryInv'
  BY NextInTime, RecordedNext, QueueTells DEF SummaryInv

LEMMA InitSummary == Init => SummaryInv
  BY InitInTime DEF Init, SummaryInv, Recorded, CallbackAfterAll, AllTold, InOrder

\* For any runs and any buffer, whoever makes the summary makes it of all results, and it says
\* success of a run just when no unit failed.
THEOREM SummariesTrue == Spec => []SummaryTellsVerdicts
  BY InitSummary, NextSummary, SummaryImplies, PTL DEF Spec

\* For any runs and any buffer, no summary overtakes a worker's completion.
THEOREM VerdictsFirst == Spec => []VerdictsBeforeSummary
  BY InitSummary, NextSummary, SummaryImplies, PTL DEF Spec

=============================================================================
