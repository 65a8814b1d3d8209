----------------------------- MODULE PageProofs -----------------------------
(***************************************************************************)
(* What is proved of the pages and of the main window: for any number of   *)
(* runs, devices, pages and alerts.                                        *)
(***************************************************************************)
EXTENDS Dashboard, Shell, ExportingPage, AlertsPage, AlertServiceProofs,
        SequenceTheorems

-----------------------------------------------------------------------------
(* The dashboard *)

LEMMA DashboardInvInit == DashboardInit => DashboardInv
  BY DashboardAssumption
     DEF DashboardInit, DashboardInv, DashboardTypeOK, WaitsForStopped, FrozenWhenPaused, Never

\* What the page does: whoever stops the poller waits for it, whoever starts it
\* is shown and not paused.
LEMMA BoardHandlersKeepInv ==
    ASSUME DashboardInv, ShowBoard \/ HideBoard \/ PauseBoard \/ ResumeBoard
    PROVE  DashboardInv'
  <1> USE DEF DashboardInv, DashboardTypeOK, WaitsForStopped, FrozenWhenPaused
  <1>1. CASE ShowBoard
    BY <1>1 DEF ShowBoard, StartPolling
  <1>2. CASE HideBoard
    BY <1>2 DEF HideBoard, StopPolling
  <1>3. CASE PauseBoard
    BY <1>3 DEF PauseBoard, StopPolling
  <1>4. CASE ResumeBoard
    BY <1>4 DEF ResumeBoard, StartPolling
  <1>5. QED
    BY <1>1, <1>2, <1>3, <1>4

\* What the event loop and the thread do: the thread never clears its event.
LEMMA PollingKeepsInv ==
    ASSUME DashboardInv, BoardStep \/ PollerStep
    PROVE  DashboardInv'
  <1> USE DEF DashboardInv, DashboardTypeOK, WaitsForStopped, FrozenWhenPaused
  <1>1. CASE StopWaitEnds
    BY <1>1 DEF StopWaitEnds
  <1>2. CASE PollHandled
    BY <1>2, DashboardAssumption DEF PollHandled
  <1>3. CASE SnapshotFails
    BY <1>3 DEF SnapshotFails
  <1>4. CASE PollerTests
    BY <1>4 DEF PollerTests
  <1>5. CASE PollerWakes
    BY <1>5, DashboardAssumption DEF PollerWakes
  <1>6. ASSUME NEW ok \in BOOLEAN, PollerCollects(ok) PROVE DashboardInv'
    BY <1>6 DEF PollerCollects
  <1>7. QED
    BY <1>1, <1>2, <1>3, <1>4, <1>5, <1>6 DEF BoardStep, PollerStep

\* In every reachable state, over pause, hide and restart: no thread collects for a page
\* that is paused or hidden, but one that the page waits for, or waited for in vain, and
\* that was told to stop (DashboardView._stop_polling, MetricsPoller).
THEOREM DashboardInvariant == DashboardSpec => []DashboardInv
  <1>1. DashboardInv /\ [DashboardNext]_dashboardVars => DashboardInv'
    <2>1. DashboardInv /\ UNCHANGED dashboardVars => DashboardInv'
      BY DEF DashboardInv, DashboardTypeOK, WaitsForStopped, FrozenWhenPaused, dashboardVars
    <2>2. QED
      BY <2>1, BoardHandlersKeepInv, PollingKeepsInv DEF DashboardNext
  <1>2. QED
    BY <1>1, DashboardInvInit, PTL DEF DashboardSpec

-----------------------------------------------------------------------------
(* The main window: its pages *)

\* The elements of a sequence; taking its head takes one; moving the head of a
\* second sequence to the end of a first one keeps what they hold together.
LEMMA ElementsOf ==
    ASSUME NEW S, NEW s \in Seq(S)
    PROVE  ToSet(s) = {s[i] : i \in 1 .. Len(s)}
  BY DEF ToSet

LEMMA HeadAndTail ==
    ASSUME NEW S, NEW s \in Seq(S), s # << >>
    PROVE  /\ Head(s) \in S /\ Tail(s) \in Seq(S)
           /\ ToSet(s) = {Head(s)} \union ToSet(Tail(s))
  <1>1. /\ Head(s) \in S /\ Tail(s) \in Seq(S) /\ Head(s) = s[1] /\ Len(s) >= 1
        /\ Len(Tail(s)) = Len(s) - 1
        /\ \A i \in 1 .. Len(s) - 1 : Tail(s)[i] = s[i + 1]
    OBVIOUS
  <1>2. /\ ToSet(s) = {s[i] : i \in 1 .. Len(s)}
        /\ ToSet(Tail(s)) = {Tail(s)[i] : i \in 1 .. Len(Tail(s))}
    BY <1>1, ElementsOf
  <1>3. ASSUME NEW x \in ToSet(s) PROVE x \in {Head(s)} \union ToSet(Tail(s))
    <2>1. PICK i \in 1 .. Len(s) : x = s[i]
      BY <1>2, <1>3
    <2>2. i = 1 \/ (i - 1 \in 1 .. Len(Tail(s)) /\ Tail(s)[i - 1] = x)
      BY <1>1, <2>1
    <2>3. QED
      BY <1>1, <1>2, <2>1, <2>2
  <1>4. ASSUME NEW i \in 1 .. Len(Tail(s)) PROVE Tail(s)[i] \in ToSet(s)
    <2>1. i + 1 \in 1 .. Len(s) /\ Tail(s)[i] = s[i + 1]
      BY <1>1
    <2>2. QED
      BY <1>2, <2>1
  <1>5. Head(s) \in ToSet(s)
    BY <1>1, <1>2
  <1>6. QED
    BY <1>1, <1>2, <1>3, <1>4, <1>5

LEMMA HeadMoves ==
    ASSUME NEW S, NEW s \in Seq(S), NEW t \in Seq(S), t # << >>
    PROVE  /\ Append(s, Head(t)) \in Seq(S) /\ Tail(t) \in Seq(S)
           /\ Append(s, Head(t)) \o Tail(t) = s \o t
  <1> DEFINE u == Append(s, Head(t))
  <1>1. /\ Head(t) \in S /\ Tail(t) \in Seq(S) /\ Head(t) = t[1] /\ Len(t) >= 1
        /\ Len(Tail(t)) = Len(t) - 1
        /\ \A i \in 1 .. Len(t) - 1 : Tail(t)[i] = t[i + 1]
    OBVIOUS
  <1>2. /\ u \in Seq(S) /\ Len(u) = Len(s) + 1
        /\ \A i \in 1 .. Len(u) : u[i] = IF i <= Len(s) THEN s[i] ELSE t[1]
    BY <1>1
  <1> HIDE DEF u
  <1>3. /\ u \o Tail(t) \in Seq(S) /\ s \o t \in Seq(S)
        /\ Len(u \o Tail(t)) = Len(s \o t)
    BY <1>1, <1>2
  <1>4. ASSUME NEW i \in 1 .. Len(s \o t) PROVE (u \o Tail(t))[i] = (s \o t)[i]
    <2>1. CASE i <= Len(s)
      BY <1>1, <1>2, <2>1
    <2>2. CASE i = Len(s) + 1
      BY <1>1, <1>2, <2>2
    <2>3. CASE i > Len(s) + 1
      BY <1>1, <1>2, <2>3
    <2>4. i <= Len(s) \/ i = Len(s) + 1 \/ i > Len(s) + 1
      BY <1>3
    <2>5. QED
      BY <2>1, <2>2, <2>3, <2>4, Zenon
  <1>5. u \o Tail(t) = s \o t
    <2> DEFINE l == u \o Tail(t)
               r == s \o t
    <2>1. /\ l \in Seq(S) /\ r \in Seq(S) /\ Len(l) = Len(r)
          /\ \A i \in 1 .. Len(l) : l[i] = r[i]
      BY <1>3, <1>4
    <2> HIDE DEF l, r
    <2>2. l = r
      BY <2>1, SeqEqual
    <2>3. QED
      BY <2>2 DEF l, r
  <1>6. QED
    BY <1>1, <1>2, <1>5 DEF u

PageFlowInv ==
    /\ window \in {"open", "closing", "closed", "quit"}
    /\ task \in [Pages -> {"none", "running", "ended", "chained"}]
    /\ waiting \in Seq(ToSet(ShutdownPages)) /\ overdue \subseteq Pages
    /\ subscribed \in BOOLEAN
    /\ WaitsForAll /\ NobodyWaitedFor /\ CloseWaitsForThreads

LEMMA PageFlowInit == ShellInit => PageFlowInv
  BY DEF ShellInit, PageFlowInv, WaitsForAll, NobodyWaitedFor, CloseWaitsForThreads

LEMMA PageFlowStep ==
    ASSUME PageFlowInv, [ShellNext]_shellVars
    PROVE  PageFlowInv'
  <1> USE DEF PageFlowInv, WaitsForAll, NobodyWaitedFor, CloseWaitsForThreads
  <1>1. ASSUME NEW p \in Pages, StartTask(p) PROVE PageFlowInv'
    BY <1>1 DEF StartTask, alertFlow
  <1>2. ASSUME NEW p \in Pages, TaskEnds(p) PROVE PageFlowInv'
    BY <1>2 DEF TaskEnds, alertFlow
  <1>3. ASSUME NEW p \in Pages, EndHandled(p) PROVE PageFlowInv'
    BY <1>3 DEF EndHandled, alertFlow
  <1>4. CASE CloseWindow
    BY <1>4, ShellAssumption DEF CloseWindow, Pages
  <1>5. CASE Closed
    BY <1>5 DEF Closed, alertFlow
  <1>6. CASE Quit
    <2>1. ToSet(waiting) = {}
      BY <1>6 DEF Quit, ToSet
    <2>2. QED
      BY <1>6, <2>1 DEF Quit, alertFlow
  <1>7. ASSUME NEW late \in BOOLEAN, ShutdownPage(late) PROVE PageFlowInv'
    <2>1. /\ Head(waiting) \in Pages /\ waiting' \in Seq(ToSet(ShutdownPages))
          /\ ToSet(waiting) = {Head(waiting)} \union ToSet(waiting')
      BY <1>7, HeadAndTail DEF ShutdownPage, Pages
    <2>2. QED
      BY <1>7, <2>1 DEF ShutdownPage, alertFlow
  <1>8. CASE UNCHANGED <<window, task, waiting, overdue, subscribed>>
    BY <1>8
  <1>9. QED
    BY <1>1, <1>2, <1>3, <1>4, <1>5, <1>6, <1>7, <1>8
       DEF ShellNext, shellVars, pageFlow, PublishAlert, EmitAlert, ShowToast, ToastExpires

-----------------------------------------------------------------------------
(* The main window: alerts *)

AlertFlowInv ==
    /\ publish \subseteq Alert /\ bridge \in Seq(Alert) /\ toasts \in Seq(Alert)
    /\ handled \in [raised : Nat, shown : Seq(Alert)]
    /\ AlertsArriveOnce

\* AlertsArriveOnce, for arguments.
Once(arrived, published, raised) ==
    /\ \A i, j \in DOMAIN arrived : arrived[i] = arrived[j] => i = j
    /\ \A i \in DOMAIN arrived : arrived[i] \notin published
    /\ \A a \in published \union ToSet(arrived) : a <= raised

LEMMA AlertFlowInit == ShellInit => AlertFlowInv
  <1> SUFFICES ASSUME ShellInit PROVE AlertFlowInv
    OBVIOUS
  <1>1. handled.shown \o bridge = << >>
    BY DEF ShellInit
  <1>2. QED
    BY <1>1, ShellAssumption DEF ShellInit, AlertFlowInv, AlertsArriveOnce, ToSet

\* A toast makes room for itself.
LEMMA ShowToastKeepsRoom ==
    ASSUME AlertFlowInv, ShowToast
    PROVE  toasts' \in Seq(Alert) /\ Len(toasts') <= MaxVisible
  <1> DEFINE room == MaxVisible - 1
             keep == IF Len(toasts) <= room THEN toasts
                     ELSE SubSeq(toasts, Len(toasts) - room + 1, Len(toasts))
  <1>1. room \in Nat /\ Len(toasts) \in Nat /\ toasts \in Seq(Alert) /\ Head(bridge) \in Alert
    BY ShellAssumption DEF AlertFlowInv, ShowToast
  <1>2. keep \in Seq(Alert) /\ Len(keep) <= room
    BY <1>1
  <1>3. toasts' = Append(keep, Head(bridge))
    BY DEF ShowToast
  <1> HIDE DEF keep
  <1>4. QED
    BY <1>1, <1>2, <1>3, ShellAssumption

LEMMA AlertFlowStep ==
    ASSUME AlertFlowInv, [ShellNext]_shellVars
    PROVE  AlertFlowInv'
  <1> DEFINE arrived == handled.shown \o bridge
  <1>0. /\ Once(arrived, publish, handled.raised) /\ Len(toasts) <= MaxVisible
        /\ publish \subseteq Alert /\ bridge \in Seq(Alert) /\ toasts \in Seq(Alert)
        /\ handled \in [raised : Nat, shown : Seq(Alert)] /\ arrived \in Seq(Alert)
    BY DEF AlertFlowInv, AlertsArriveOnce, Once
  <1>a. /\ DOMAIN arrived = 1 .. Len(arrived)
        /\ \A i \in DOMAIN arrived : arrived[i] \in ToSet(arrived) /\ arrived[i] \in Nat
    <2>1. arrived \in Seq(Alert)
      BY <1>0
    <2> HIDE DEF arrived
    <2>2. DOMAIN arrived = 1 .. Len(arrived) /\ ToSet(arrived) = {arrived[i] : i \in 1 .. Len(arrived)}
      BY <2>1, ElementsOf
    <2>3. \A i \in 1 .. Len(arrived) : arrived[i] \in Alert
      BY <2>1, ElementOfSeq
    <2>4. QED
      BY <2>2, <2>3, ShellAssumption
  <1>b. handled.raised \in Nat
    BY <1>0
  <1>1. CASE PublishAlert
    <2>1. /\ NextAlert = handled.raised + 1 /\ NextAlert \in Alert /\ arrived' = arrived
          /\ handled' = [handled EXCEPT !.raised = NextAlert]
          /\ publish' \subseteq publish \union {NextAlert}
          /\ UNCHANGED <<bridge, toasts>>
      BY <1>0, <1>1 DEF PublishAlert, NextAlert
    <2>2. \A i \in DOMAIN arrived : arrived[i] # NextAlert
      BY <1>0, <1>a, <1>b, <2>1 DEF Once
    <2>3. Once(arrived', publish', handled'.raised)
      <3>1. handled'.raised = handled.raised + 1
        BY <1>0, <2>1
      <3>2. \A a \in publish' \union ToSet(arrived) : a <= handled'.raised
        <4>1. \A a \in publish \union ToSet(arrived) : a \in Nat /\ a <= handled.raised
          <5>1. ToSet(arrived) \subseteq Nat
            BY <1>a DEF ToSet
          <5>2. QED
            BY <1>0, <5>1, ShellAssumption DEF Once
        <4>2. QED
          BY <1>b, <2>1, <3>1, <4>1
      <3>3. ToSet(arrived') = ToSet(arrived)
        BY <2>1
      <3>4. QED
        BY <1>0, <2>1, <2>2, <3>2, <3>3 DEF Once
    <2>4. QED
      BY <1>0, <2>1, <2>3 DEF AlertFlowInv, AlertsArriveOnce, Once
  <1>2. ASSUME NEW a \in Alert, EmitAlert(a) PROVE AlertFlowInv'
    <2>1. /\ a \in publish /\ publish' = publish \ {a} /\ bridge' = Append(bridge, a)
          /\ UNCHANGED <<toasts, handled>>
      BY <1>2 DEF EmitAlert
    <2>2. arrived' = Append(arrived, a) /\ bridge' \in Seq(Alert)
      BY <1>0, <2>1
    <2>3. \A i \in DOMAIN arrived' :
             \/ i \in DOMAIN arrived /\ arrived'[i] = arrived[i]
             \/ i = Len(arrived) + 1 /\ arrived'[i] = a
      BY <1>0, <2>2
    <2>4. ToSet(arrived') \subseteq ToSet(arrived) \union {a}
      BY <1>a, <2>3 DEF ToSet
    <2>5. Once(arrived', publish', handled.raised)
      <3> DEFINE after == arrived'
      <3>1. \A i, j \in DOMAIN after : after[i] = after[j] => i = j
        <4>1. \A i \in DOMAIN arrived : arrived[i] # a
          BY <1>0, <2>1 DEF Once
        <4>2. \A i, j \in DOMAIN arrived : arrived[i] = arrived[j] => i = j
          BY <1>0 DEF Once
        <4> HIDE DEF arrived
        <4>3. QED
          BY <2>3, <4>1, <4>2
      <3>2. \A i \in DOMAIN after : after[i] \notin publish'
        BY <1>0, <2>1, <2>3 DEF Once
      <3>3. \A b \in publish' \union ToSet(after) : b <= handled.raised
        BY <1>0, <2>1, <2>4 DEF Once
      <3>4. QED
        BY <3>1, <3>2, <3>3 DEF Once
    <2>6. QED
      BY <1>0, <2>1, <2>2, <2>5 DEF AlertFlowInv, AlertsArriveOnce, Once
  <1>3. CASE ShowToast
    <2>1. /\ bridge # << >> /\ bridge' = Tail(bridge) /\ publish' = publish
          /\ handled' = [handled EXCEPT !.shown = Append(@, Head(bridge))]
      BY <1>3 DEF ShowToast
    <2>2. /\ handled' \in [raised : Nat, shown : Seq(Alert)] /\ bridge' \in Seq(Alert)
          /\ handled'.shown \o bridge' = arrived /\ handled'.raised = handled.raised
      <3>1. handled.shown \in Seq(Alert) /\ handled'.shown = Append(handled.shown, Head(bridge))
        BY <1>0, <2>1
      <3>2. handled'.shown \in Seq(Alert) /\ handled'.shown \o bridge' = arrived
        BY <1>0, <2>1, <3>1, HeadMoves
      <3>3. bridge' \in Seq(Alert)
        BY <1>0, <2>1
      <3>4. handled' = [raised |-> handled.raised, shown |-> handled'.shown]
        BY <1>0, <2>1
      <3>5. QED
        BY <1>0, <3>2, <3>3, <3>4
    <2>3. toasts' \in Seq(Alert) /\ Len(toasts') <= MaxVisible
      BY <1>3, ShowToastKeepsRoom
    <2>4. Once(handled'.shown \o bridge', publish', handled'.raised)
      BY <1>0, <2>1, <2>2
    <2>5. QED
      BY <1>0, <2>1, <2>2, <2>3, <2>4 DEF AlertFlowInv, AlertsArriveOnce, Once
  <1>4. ASSUME NEW i \in DOMAIN toasts, ToastExpires(i) PROVE AlertFlowInv'
    <2>1. toasts' = SubSeq(toasts, 1, i - 1) \o SubSeq(toasts, i + 1, Len(toasts))
      BY <1>4 DEF ToastExpires, RemoveAt
    <2>2. toasts' \in Seq(Alert) /\ Len(toasts') <= Len(toasts)
      BY <1>0, <2>1
    <2>3. QED
      BY <1>0, <1>4, <2>2, ShellAssumption
         DEF ToastExpires, AlertFlowInv, AlertsArriveOnce, Once
  <1>5. CASE UNCHANGED <<publish, bridge, toasts, handled>>
    BY <1>5 DEF AlertFlowInv, AlertsArriveOnce
  <1>6. QED
    BY <1>1, <1>2, <1>3, <1>4, <1>5
       DEF ShellNext, shellVars, alertFlow, StartTask, TaskEnds, EndHandled,
           CloseWindow, ShutdownPage, Closed, Quit

\* In every reachable state, for any pages and alerts: when the program ends, only
\* threads of the pages that the window does not shut down, those waited for in vain
\* and calls chained to others go on; and no alert becomes two toasts, nor are there
\* more toasts than fit (MainWindow.closeEvent, EventBusBridge, ToastManager).
THEOREM ShellInvariant == ShellSpec => []ShellInv
  <1>1. ShellInit => PageFlowInv /\ AlertFlowInv
    BY PageFlowInit, AlertFlowInit
  <1>2. PageFlowInv /\ AlertFlowInv /\ [ShellNext]_shellVars => (PageFlowInv /\ AlertFlowInv)'
    BY PageFlowStep, AlertFlowStep
  <1>3. PageFlowInv /\ AlertFlowInv => ShellInv
    BY DEF PageFlowInv, AlertFlowInv, ShellInv, ShellTypeOK
  <1>4. QED
    BY <1>1, <1>2, <1>3, PTL DEF ShellSpec

-----------------------------------------------------------------------------
(* The page with an export *)

RunFlowInv ==
    /\ PageTypeOK /\ which \in {"network", "logs"} /\ good \subseteq Call
    /\ kept \in Call \union {None} /\ shown \in Call \union {None}
    /\ OneRunAtATime /\ SuccessIsTold
    /\ (kept # None => kept \in good) /\ shown \in {None, kept}

\* What is true of the export that runs; a click asked for it, so the page keeps a
\* result.
Exports(export) ==
    /\ export \in [stage : {"running", "succeeded", "failed", "told"},
                   call : [asked : Call, read : Call \union {Unread}]]
    /\ kept \in Call /\ export.call.asked <= kept
    /\ export.call.read # Unread =>
         /\ export.call.read \in good
         /\ export.call.asked <= export.call.read /\ export.call.read <= kept
    /\ which = "logs" => export.call.read = export.call.asked

ExportFlowInv ==
    /\ DOMAIN worker = Slot
    /\ worker["export"] # Nobody => Exports(worker["export"])

LEMMA RunsAreNumbers ==
    /\ Cardinality(Call) \in Nat /\ None \notin Call
    /\ \A n \in Call : n \in Nat /\ n # 0 /\ n # None
  BY PageAssumption, FS_CardinalityType

\* The main worker's run, as the page and as the thread see it.
LEMMA PageHandlersKeepRunFlow ==
    ASSUME RunFlowInv, ClickStart \/ ClickStop \/ CloseIt \/ PageWaits
    PROVE  RunFlowInv'
  <1> USE RunsAreNumbers DEF RunFlowInv, PageTypeOK, OneRunAtATime, SuccessIsTold
  <1>1. CASE ClickStart
    <2>1. /\ page.worker = None /\ runs' = runs + 1 /\ runs + 1 \in Call
          /\ thread' = [thread EXCEPT ![runs + 1] = "starting"]
          /\ page' = [page EXCEPT !.worker = runs + 1, !.canRun = FALSE, !.canCancel = TRUE]
          /\ UNCHANGED <<token, signals, which, kept, good>> /\ shown' \in {None, shown}
      BY <1>1 DEF ClickStart, ClickRun, StartWorker
    <2>2. signals' = << >>
      BY <2>1
    <2>3. PageTypeOK'
      BY <2>1, <2>2 DEF ThreadStage
    <2>4. OneRunAtATime'
      BY <2>1, <2>2
    <2>5. SuccessIsTold'
      BY <2>1, <2>2
    <2>6. QED
      BY <2>1, <2>3, <2>4, <2>5
  <1>2. CASE ClickStop
    BY <1>2 DEF ClickStop, ClickCancel, CancelCall
  <1>3. CASE CloseIt
    <2>1. /\ UNCHANGED <<thread, signals, runs, which, kept, shown, good>>
          /\ \E w \in {"closing", "closed"} : page' = [page EXCEPT !.window = w]
          /\ token' = token \/ (page.worker # None /\ token' = [token EXCEPT ![page.worker] = TRUE])
      BY <1>3 DEF CloseIt, Close, CancelCall
    <2>2. token' \in [Call -> BOOLEAN]
      BY <2>1
    <2>3. QED
      BY <2>1, <2>2
  <1>4. CASE PageWaits
    BY <1>4 DEF PageWaits, WaitReturns
  <1>5. QED
    BY <1>1, <1>2, <1>3, <1>4

\* A thread emits a signal: what it adds to the queue.
LEMMA SignalAppended ==
    ASSUME NEW s \in Seq(Signal), NEW x \in Signal
    PROVE  /\ Append(s, x) \in Seq(Signal) /\ Len(Append(s, x)) = Len(s) + 1
           /\ \A i \in DOMAIN Append(s, x) :
                 \/ i \in DOMAIN s /\ Append(s, x)[i] = s[i]
                 \/ i = Len(s) + 1 /\ Append(s, x)[i] = x
  OBVIOUS

LEMMA ThreadKeepsRunFlow ==
    ASSUME RunFlowInv, NEW n \in Call, RunStep(n)
    PROVE  RunFlowInv'
  <1> USE RunsAreNumbers DEF RunFlowInv, PageTypeOK
  <1>1. ASSUME NEW kind \in Outcome, RunAnswers(n, kind) PROVE RunFlowInv'
    <2> DEFINE x == [kind |-> kind, run |-> n]
    <2>1. /\ thread[n] = "starting" /\ thread' = [thread EXCEPT ![n] = "answered"]
          /\ signals' = Append(signals, x) /\ x \in Signal
          /\ UNCHANGED <<token, page, runs, which, kept, shown>>
          /\ good' = IF kind = "succeeded" THEN good \union {n} ELSE good
      BY <1>1 DEF RunAnswers, Answer, Signal
    <2>2. n = runs /\ signals = << >>
      <3>1. n = runs
        <4>1. n \in Nat /\ runs \in Nat
          OBVIOUS
        <4>2. ~ (n > runs) /\ ~ (n < runs)
          BY <2>1 DEF OneRunAtATime
        <4>3. QED
          BY <4>1, <4>2
      <3>2. DOMAIN signals = {}
        BY <2>1, <3>1 DEF OneRunAtATime
      <3>3. QED
        BY <3>1, <3>2
    <2>3. /\ signals' = <<x>> /\ signals' \in Seq(Signal) /\ Len(signals') = 1
          /\ DOMAIN signals' = {1} /\ signals'[1] = x
      BY <2>1, <2>2
    <2>4. x.kind = kind /\ x.run = n /\ kind # "finished"
      BY DEF Outcome
    <2> HIDE DEF x
    <2>5. QED
      BY <2>1, <2>2, <2>3, <2>4 DEF OneRunAtATime, SuccessIsTold, ThreadStage
  <1>2. CASE RunEnds(n)
    <2> DEFINE x == [kind |-> "finished", run |-> n]
    <2>1. /\ thread[n] = "answered" /\ thread' = [thread EXCEPT ![n] = "ended"]
          /\ signals' = Append(signals, x) /\ x \in Signal
          /\ UNCHANGED <<token, page, runs, which, kept, shown, good>>
      BY <1>2 DEF RunEnds, EndThread, Signal
    <2>2. n = runs
      <3>1. n \in Nat /\ runs \in Nat
        OBVIOUS
      <3>2. ~ (n > runs) /\ ~ (n < runs)
        BY <2>1 DEF OneRunAtATime
      <3>3. QED
        BY <3>1, <3>2
    <2>3. /\ signals' \in Seq(Signal) /\ Len(signals') = Len(signals) + 1
          /\ \A i \in DOMAIN signals' :
                \/ i \in DOMAIN signals /\ signals'[i] = signals[i]
                \/ i = Len(signals') /\ signals'[i] = x
      BY <2>1, SignalAppended
    <2>4. x.kind = "finished" /\ x.run = n
      OBVIOUS
    <2> HIDE DEF x
    <2>5. QED
      BY <2>1, <2>2, <2>3, <2>4 DEF OneRunAtATime, SuccessIsTold, ThreadStage
  <1>3. CASE RunDies(n)
    <2>1. /\ thread[n] = "starting" /\ thread' = [thread EXCEPT ![n] = "answered"]
          /\ UNCHANGED <<token, signals, page, runs, which, kept, shown, good>>
      BY <1>3 DEF RunDies, DieSilently
    <2>2. n = runs
      <3>1. n \in Nat /\ runs \in Nat
        OBVIOUS
      <3>2. ~ (n > runs) /\ ~ (n < runs)
        BY <2>1 DEF OneRunAtATime
      <3>3. QED
        BY <3>1, <3>2
    <2>3. page.worker # None /\ DOMAIN signals = {}
      BY <2>1, <2>2 DEF OneRunAtATime
    <2>4. QED
      BY <2>1, <2>2, <2>3 DEF OneRunAtATime, SuccessIsTold, ThreadStage
  <1>4. QED
    BY <1>1, <1>2, <1>3 DEF RunStep

LEMMA SignalsKeepRunFlow ==
    ASSUME RunFlowInv, NEW n \in Call, OnSucceeded(n) \/ OnUnsuccessful(n) \/ OnRunFinished(n)
    PROVE  RunFlowInv'
  <1> USE RunsAreNumbers DEF RunFlowInv, PageTypeOK
  <1>1. /\ signals # << >> /\ Head(signals).run = n /\ signals' = Tail(signals)
        /\ UNCHANGED <<token, thread, runs, which, good>>
    BY DEF OnSucceeded, OnUnsuccessful, OnRunFinished, OutcomeArrives, WorkerDone, Delivered
  <1>2. /\ Head(signals) = signals[1] /\ 1 \in DOMAIN signals /\ Len(signals) \in Nat
        /\ signals' \in Seq(Signal) /\ Len(signals') = Len(signals) - 1
        /\ \A i \in DOMAIN signals' :
             i \in Nat /\ i + 1 \in DOMAIN signals /\ signals'[i] = signals[i + 1]
    BY <1>1
  <1>3. n = runs
    BY <1>1, <1>2 DEF OneRunAtATime
  <1>a. ASSUME NEW i \in DOMAIN signals'
        PROVE  /\ signals'[i].run = runs /\ thread[runs] \in {"answered", "ended"}
               /\ signals'[i].kind = "finished" => i = Len(signals') /\ thread[runs] = "ended"
               /\ signals'[i].kind = "succeeded" => signals'[i].run \in good
    <2>1. /\ i \in Nat /\ i + 1 \in DOMAIN signals /\ signals'[i] = signals[i + 1]
          /\ Len(signals') = Len(signals) - 1 /\ Len(signals) \in Nat
      BY <1>2
    <2>2. signals[i + 1].kind = "finished" => i + 1 = Len(signals) /\ thread[runs] = "ended"
      BY <2>1 DEF OneRunAtATime
    <2>3. QED
      BY <2>1, <2>2 DEF OneRunAtATime, SuccessIsTold
  <1>4. CASE OnSucceeded(n)
    <2>1. kept' = n /\ shown' = n /\ n \in good
          /\ page' = [page EXCEPT !.canRun = TRUE, !.canCancel = FALSE]
      BY <1>2, <1>4 DEF OnSucceeded, OutcomeArrives, Delivered, SuccessIsTold
    <2>2. QED
      <3>1. page.worker = runs /\ page.worker # None
        BY <1>2 DEF OneRunAtATime
      <3>2. page'.worker = page.worker /\ PageTypeOK'
        BY <1>1, <1>2, <2>1
      <3>3. OneRunAtATime' /\ SuccessIsTold'
        BY <1>1, <1>3, <1>a, <2>1, <3>1, <3>2 DEF OneRunAtATime, SuccessIsTold
      <3>4. QED
        BY <1>1, <2>1, <3>2, <3>3
  <1>5. CASE OnUnsuccessful(n)
    <2>1. kept' = kept /\ shown' = shown
          /\ page' = [page EXCEPT !.canRun = TRUE, !.canCancel = FALSE]
      BY <1>5 DEF OnUnsuccessful, OutcomeArrives
    <2>2. QED
      <3>1. page.worker = runs /\ page.worker # None
        BY <1>2 DEF OneRunAtATime
      <3>2. page'.worker = page.worker /\ PageTypeOK'
        BY <1>1, <1>2, <2>1
      <3>3. OneRunAtATime' /\ SuccessIsTold'
        BY <1>1, <1>3, <1>a, <2>1, <3>1, <3>2 DEF OneRunAtATime, SuccessIsTold
      <3>4. QED
        BY <1>1, <2>1, <3>2, <3>3
  <1>6. CASE OnRunFinished(n)
    <2>1. /\ kept' = kept /\ shown' = shown /\ Head(signals).kind = "finished"
          /\ page' = [page EXCEPT !.worker = None]
      BY <1>6 DEF OnRunFinished, WorkerDone, Delivered
    <2>2. Len(signals) = 1 /\ thread[runs] = "ended"
      BY <1>2, <2>1 DEF OneRunAtATime
    <2>3. signals' = << >>
      BY <1>2, <2>2
    <2>4. QED
      <3>1. page'.worker = None /\ PageTypeOK'
        BY <1>1, <1>2, <2>1
      <3>2. DOMAIN signals' = {}
        BY <2>3
      <3>3. OneRunAtATime' /\ SuccessIsTold'
        BY <1>1, <1>3, <2>1, <2>2, <2>3, <3>1, <3>2 DEF OneRunAtATime, SuccessIsTold
      <3>4. QED
        BY <1>1, <2>1, <3>1, <3>3
  <1>7. QED
    BY <1>4, <1>5, <1>6

\* The result is kept longer than the export needs it: kept only grows.
LEMMA RunsKeepExports ==
    ASSUME RunFlowInv, ExportFlowInv, UNCHANGED <<worker, which>>,
           kept' = kept \/ (kept' \in Call /\ (kept # None => kept <= kept')),
           good \subseteq good'
    PROVE  ExportFlowInv'
  <1>1. ASSUME NEW export, Exports(export) PROVE Exports(export)'
    <2>1. /\ export.call.asked \in Nat /\ export.call.read \in Nat /\ kept \in Nat
          /\ kept \in Call /\ kept # None
      <3>1. export.call \in [asked : Call, read : Call \union {Unread}] /\ kept \in Call
        BY <1>1 DEF Exports
      <3>2. QED
        <4>1. export.call.asked \in Call /\ export.call.read \in Call \union {0}
          BY <3>1 DEF Unread
        <4>2. QED
          BY <3>1, <4>1, RunsAreNumbers
    <2>2. kept' \in Call /\ kept' \in Nat /\ kept <= kept'
      <3>1. CASE kept' = kept
        BY <2>1, <3>1
      <3>2. CASE kept' \in Call /\ (kept # None => kept <= kept')
        BY <2>1, <3>2, RunsAreNumbers
      <3>3. QED
        BY <3>1, <3>2
    <2>3. export.call.asked <= kept' /\ (export.call.read <= kept => export.call.read <= kept')
      BY <1>1, <2>1, <2>2 DEF Exports
    <2>4. QED
      BY <1>1, <2>2, <2>3 DEF Exports
  <1>2. QED
    BY <1>1 DEF ExportFlowInv

LEMMA ExportStepKeepsInv ==
    ASSUME RunFlowInv, ExportFlowInv, ClickExport \/ ExportStep
    PROVE  RunFlowInv' /\ ExportFlowInv'
  <1>1. UNCHANGED <<pageVars, which, kept, shown, good>>
    BY DEF ClickExport, ExportStep, ReadResult, OnExportFinished, WriteEnds, OnExportOutcome
  <1>2. RunFlowInv'
    BY <1>1 DEF RunFlowInv, PageTypeOK, OneRunAtATime, SuccessIsTold, pageVars
  <1>3. ASSUME NEW x, worker' = [worker EXCEPT !["export"] = x], x = Nobody \/ Exports(x)
        PROVE  ExportFlowInv'
    <2>1. DOMAIN worker' = Slot /\ worker'["export"] = x
      BY <1>3, ExportingAssumption DEF ExportFlowInv
    <2>2. Exports(x) => Exports(x)'
      BY <1>1 DEF Exports
    <2>3. QED
      BY <1>3, <2>1, <2>2 DEF ExportFlowInv
  <1>5. CASE ClickExport
    <2> DEFINE x == [stage |-> "running",
                     call |-> [asked |-> kept, read |-> IF which = "logs" THEN kept ELSE Unread]]
    <2>1. kept \in Call /\ kept \in good /\ kept \in Nat
      BY <1>5, RunsAreNumbers DEF ClickExport, RunFlowInv
    <2>2. Exports(x)
      BY <2>1 DEF Exports, Unread
    <2>3. worker' = [worker EXCEPT !["export"] = x]
      BY <1>5 DEF ClickExport, StartCall
    <2> HIDE DEF x
    <2>4. QED
      BY <1>2, <1>3, <2>2, <2>3
  <1> DEFINE export == worker["export"]
  <1>6. CASE ReadResult
    <2> DEFINE x == [export EXCEPT !.call.read = kept]
    <2>1. export # Nobody /\ Exports(export) /\ export.call.read = Unread
      BY <1>6 DEF ReadResult, SlotStage, Free, ExportFlowInv
    <2>2. kept \in Call /\ kept \in good /\ kept \in Nat
      BY <2>1, RunsAreNumbers DEF RunFlowInv, Exports
    <2>3. which # "logs"
      BY <2>1, RunsAreNumbers DEF Exports, Unread
    <2>4. Exports(x)
      BY <2>1, <2>2, <2>3 DEF Exports
    <2>5. worker' = [worker EXCEPT !["export"] = x]
      BY <1>6 DEF ReadResult
    <2> HIDE DEF x
    <2>6. QED
      BY <1>2, <1>3, <2>4, <2>5
  <1>7. ASSUME NEW o \in {"succeeded", "failed", "told"}, ~ Free("export"),
               worker' = [worker EXCEPT !["export"].stage = o]
        PROVE  ExportFlowInv'
    <2> DEFINE x == [export EXCEPT !.stage = o]
    <2>1. Exports(export)
      BY <1>7 DEF Free, ExportFlowInv
    <2>2. Exports(x)
      BY <2>1 DEF Exports
    <2>3. worker' = [worker EXCEPT !["export"] = x]
      BY <1>7
    <2> HIDE DEF x
    <2>4. QED
      BY <1>3, <2>2, <2>3
  <1>8. ASSUME NEW o \in {"succeeded", "failed"}, WriteEnds(o) \/ OnExportOutcome(o)
        PROVE  ExportFlowInv'
    BY <1>7, <1>8 DEF WriteEnds, CallEnds, OnExportOutcome, OutcomeHandled, SlotStage
  <1>9. CASE OnExportFinished
    BY <1>2, <1>3, <1>9 DEF OnExportFinished, FinishedHandled
  <1>10. QED
    BY <1>2, <1>5, <1>6, <1>8, <1>9 DEF ExportStep

LEMMA ExportingInit_Inv == ExportingInit => RunFlowInv /\ ExportFlowInv
  BY RunsAreNumbers, ExportingAssumption
     DEF ExportingInit, PageInit, OneShotInit, TokenInit, RunFlowInv, ExportFlowInv,
         PageTypeOK, OneRunAtATime, SuccessIsTold, ThreadStage

LEMMA ExportingStepKeepsInv ==
    ASSUME RunFlowInv, ExportFlowInv, [ExportingNext]_exportVars
    PROVE  RunFlowInv' /\ ExportFlowInv'
  <1>1. CASE ClickStart \/ ClickStop \/ CloseIt \/ PageWaits
    <2>1. UNCHANGED <<worker, which, kept, good>>
      BY <1>1 DEF ClickStart, ClickStop, CloseIt, PageWaits
    <2>2. QED
      BY <1>1, <2>1, PageHandlersKeepRunFlow, RunsKeepExports
  <1>2. ASSUME NEW n \in Call, RunStep(n) PROVE RunFlowInv' /\ ExportFlowInv'
    <2>1. UNCHANGED <<worker, which, kept>> /\ good \subseteq good'
      BY <1>2 DEF RunStep, RunEnds, RunDies, RunAnswers
    <2>2. QED
      BY <1>2, <2>1, ThreadKeepsRunFlow, RunsKeepExports
  <1>3. ASSUME NEW n \in Call, OnSucceeded(n) \/ OnUnsuccessful(n) \/ OnRunFinished(n)
        PROVE  RunFlowInv' /\ ExportFlowInv'
    <2>1. RunFlowInv' /\ UNCHANGED <<worker, which, good, runs>> /\ (kept' = kept \/ kept' = n)
      BY <1>3, SignalsKeepRunFlow
         DEF OnSucceeded, OnUnsuccessful, OnRunFinished, OutcomeArrives, WorkerDone, Delivered
    <2>2. OnSucceeded(n) => n = runs
      <3>1. OnSucceeded(n) => 1 \in DOMAIN signals /\ signals[1].run = n
        BY DEF OnSucceeded, OutcomeArrives, Delivered, RunFlowInv, PageTypeOK
      <3>2. QED
        BY <3>1 DEF RunFlowInv, OneRunAtATime
    <2>3. kept' = kept \/ (kept' = n /\ n = runs)
      BY <1>3, <2>2 DEF OnSucceeded, OnUnsuccessful, OnRunFinished
    <2>4. QED
      BY <2>1, <2>3, RunsKeepExports DEF RunFlowInv, SuccessIsTold
  <1>4. CASE ClickExport \/ ExportStep
    BY <1>4, ExportStepKeepsInv
  <1>5. CASE UNCHANGED exportVars
    BY <1>5 DEF exportVars, pageVars, RunFlowInv, ExportFlowInv, Exports, PageTypeOK, OneRunAtATime,
                SuccessIsTold
  <1>6. QED
    BY <1>1, <1>2, <1>3, <1>4, <1>5 DEF ExportingNext, ExportingUser, PageSignal

\* The button: what emits the outcome of a run comes before what enables it.
LEMMA ButtonInit == ExportingInit => ButtonAgrees /\ died \subseteq Call
  BY RunsAreNumbers DEF ExportingInit, PageInit, ButtonAgrees

LEMMA StepKeepsButton ==
    ASSUME RunFlowInv, ButtonAgrees, died \subseteq Call, [ExportingNext]_exportVars
    PROVE  ButtonAgrees' /\ died' \subseteq Call
  <1> USE RunsAreNumbers DEF RunFlowInv, PageTypeOK
  <1>1. CASE ClickStart
    <2>1. /\ page.worker = None /\ page.canRun /\ runs' = runs + 1 /\ runs + 1 \in Call
          /\ thread' = [thread EXCEPT ![runs + 1] = "starting"]
          /\ page' = [page EXCEPT !.worker = runs + 1, !.canRun = FALSE, !.canCancel = TRUE]
          /\ UNCHANGED <<signals, which, died>>
      BY <1>1 DEF ClickStart, ClickRun, StartWorker
    <2>2. died = {} /\ page'.worker = runs + 1 /\ page'.worker # None /\ ~ page'.canRun
          /\ thread'[runs + 1] = "starting"
      BY <2>1 DEF ButtonAgrees
    <2>3. QED
      BY <2>1, <2>2 DEF ButtonAgrees
  <1>2. CASE ClickStop \/ CloseIt \/ PageWaits
    <2>1. /\ UNCHANGED <<thread, signals, runs, which, died>>
          /\ page'.worker = page.worker /\ page'.canRun = page.canRun
      BY <1>2 DEF ClickStop, ClickCancel, CloseIt, Close, PageWaits, WaitReturns
    <2>2. QED
      BY <2>1 DEF ButtonAgrees
  <1>3. ASSUME NEW n \in Call, thread[n] \in {"starting", "answered"}
        PROVE  n = runs /\ runs # 0 /\ page.worker = n
    <2>1. n \in Nat /\ runs \in Nat
      OBVIOUS
    <2>2. ~ (n > runs) /\ ~ (n < runs)
      BY <1>3 DEF OneRunAtATime
    <2>3. n = runs
      BY <2>1, <2>2
    <2>4. QED
      BY <1>3, <2>3 DEF OneRunAtATime
  <1>4. ASSUME NEW n \in Call, NEW kind \in Outcome, RunAnswers(n, kind)
        PROVE  ButtonAgrees' /\ died' \subseteq Call
    <2> DEFINE x == [kind |-> kind, run |-> n]
    <2>1. /\ thread[n] = "starting" /\ thread' = [thread EXCEPT ![n] = "answered"]
          /\ signals' = Append(signals, x) /\ x \in Signal
          /\ UNCHANGED <<page, runs, which, died>>
      BY <1>4 DEF RunAnswers, Answer, Signal
    <2>2. n = runs /\ page.worker = n /\ ~ page.canRun
      BY <1>3, <2>1 DEF ButtonAgrees
    <2>3. DOMAIN signals = {}
      BY <2>1, <2>2 DEF OneRunAtATime
    <2>4. /\ 1 \in DOMAIN signals' /\ signals'[1] = x
          /\ \A i \in DOMAIN signals' : signals'[i] = x
      BY <2>1, <2>3
    <2>5. x.kind # "finished" /\ x.run = n
      BY DEF Outcome
    <2> HIDE DEF x
    <2>6. n \notin died
      BY <2>1 DEF ButtonAgrees
    <2>7. QED
      BY <2>1, <2>2, <2>4, <2>5, <2>6 DEF ButtonAgrees
  <1>5. ASSUME NEW n \in Call, RunDies(n)
        PROVE  ButtonAgrees' /\ died' \subseteq Call
    <2>1. /\ thread[n] = "starting" /\ thread' = [thread EXCEPT ![n] = "answered"]
          /\ UNCHANGED <<page, signals, runs, which>> /\ which = "logs"
          /\ died' = died \union {n}
      BY <1>5 DEF RunDies, DieSilently
    <2>2. n = runs /\ page.worker = n /\ ~ page.canRun
      BY <1>3, <2>1 DEF ButtonAgrees
    <2>3. DOMAIN signals = {}
      BY <2>1, <2>2 DEF OneRunAtATime
    <2>4. QED
      BY <2>1, <2>2, <2>3 DEF ButtonAgrees
  <1>6. ASSUME NEW n \in Call, RunEnds(n)
        PROVE  ButtonAgrees' /\ died' \subseteq Call
    <2> DEFINE x == [kind |-> "finished", run |-> n]
    <2>1. /\ thread[n] = "answered" /\ thread' = [thread EXCEPT ![n] = "ended"]
          /\ signals' = Append(signals, x) /\ x \in Signal
          /\ UNCHANGED <<page, runs, which, died>>
      BY <1>6 DEF RunEnds, EndThread, Signal
    <2>2. n = runs /\ page.worker = n
      BY <1>3, <2>1
    <2>3. /\ \A i \in DOMAIN signals' :
                \/ i \in DOMAIN signals /\ signals'[i] = signals[i]
                \/ signals'[i] = x
          /\ \A i \in DOMAIN signals : i \in DOMAIN signals' /\ signals'[i] = signals[i]
      BY <2>1
    <2>4. x.kind = "finished"
      OBVIOUS
    <2> HIDE DEF x
    <2>5. QED
      BY <2>1, <2>2, <2>3, <2>4 DEF ButtonAgrees
  <1>7. ASSUME NEW n \in Call, OnSucceeded(n) \/ OnUnsuccessful(n) \/ OnRunFinished(n)
        PROVE  ButtonAgrees' /\ died' \subseteq Call
    <2>1. /\ signals # << >> /\ Head(signals).run = n /\ signals' = Tail(signals)
          /\ UNCHANGED <<thread, runs, which, died>>
      BY <1>7 DEF OnSucceeded, OnUnsuccessful, OnRunFinished, OutcomeArrives, WorkerDone,
                  Delivered
    <2>2. /\ Head(signals) = signals[1] /\ 1 \in DOMAIN signals /\ Len(signals) \in Nat
          /\ Len(signals') = Len(signals) - 1
          /\ \A i \in DOMAIN signals' : i + 1 \in DOMAIN signals /\ signals'[i] = signals[i + 1]
      BY <2>1
    <2>3. n = runs /\ thread[runs] \in {"answered", "ended"} /\ runs \in Call
          /\ page.worker = runs
      BY <2>1, <2>2 DEF OneRunAtATime
    <2>4. \A i \in DOMAIN signals' : signals'[i].kind # "finished" => signals'[i].run \notin died
      BY <2>2 DEF ButtonAgrees
    <2>5. \A m \in Call : thread[m] # "starting"
      BY <1>3, <2>3
    <2>6. CASE OnRunFinished(n)
      <3>1. /\ Head(signals).kind = "finished" /\ page' = [page EXCEPT !.worker = None]
        BY <2>6 DEF OnRunFinished, WorkerDone, Delivered
      <3>2. Len(signals) = 1
        BY <2>2, <3>1 DEF OneRunAtATime
      <3>3. \A i \in DOMAIN signals : signals[i].kind = "finished"
        BY <2>2, <3>1, <3>2
      <3>4. page.canRun \/ died # {}
        BY <2>3, <3>3 DEF ButtonAgrees
      <3>5. page'.worker = None /\ page'.canRun = page.canRun
        BY <3>1
      <3>6. QED
        BY <2>1, <2>4, <3>4, <3>5 DEF ButtonAgrees
    <2>7. CASE OnSucceeded(n) \/ OnUnsuccessful(n)
      <3>1. /\ Head(signals).kind # "finished"
            /\ page' = [page EXCEPT !.canRun = TRUE, !.canCancel = FALSE]
        BY <2>7 DEF OnSucceeded, OnUnsuccessful, OutcomeArrives, Delivered
      <3>2. n \notin died
        BY <2>1, <2>2, <3>1 DEF ButtonAgrees
      <3>3. died = {}
        BY <2>3, <3>2 DEF ButtonAgrees
      <3>4. page'.canRun
        BY <3>1
      <3>5. QED
        BY <2>1, <2>4, <2>5, <3>3, <3>4 DEF ButtonAgrees
    <2>8. QED
      BY <1>7, <2>6, <2>7
  <1>8. CASE ClickExport \/ ExportStep \/ UNCHANGED exportVars
    <2>1. UNCHANGED <<pageVars, which, died>>
      BY <1>8 DEF ClickExport, ExportStep, ReadResult, OnExportFinished, WriteEnds,
                  OnExportOutcome, exportVars
    <2>2. QED
      BY <2>1 DEF ButtonAgrees, pageVars
  <1>9. QED
    BY <1>1, <1>2, <1>4, <1>5, <1>6, <1>7, <1>8
       DEF ExportingNext, ExportingUser, PageSignal, RunStep

\* In every reachable state, for any number of runs: they do not overlap; an export
\* writes the result of a run that succeeded, on the logs page that of the click, on
\* the network page that or a newer one; the rows shown are of the result that is kept;
\* and the button is on when a run's signals have been handled, unless the run died.
THEOREM ExportingInvariant == ExportingSpec => []ExportingInv
  <1> DEFINE Inv == RunFlowInv /\ ExportFlowInv /\ ButtonAgrees /\ died \subseteq Call
  <1>1. Inv => ExportingInv
    BY DEF RunFlowInv, ExportFlowInv, Exports, ExportingInv, ExportingTypeOK, ExportIsSound
  <1>2. Inv /\ [ExportingNext]_exportVars => Inv'
    BY ExportingStepKeepsInv, StepKeepsButton
  <1>3. ExportingInit => Inv
    BY ExportingInit_Inv, ButtonInit
  <1>4. QED
    BY <1>1, <1>2, <1>3, PTL DEF ExportingSpec

-----------------------------------------------------------------------------
(* The alerts page *)

ListedAreAlerts ==
    \A openOnly \in BOOLEAN : \A n \in DOMAIN ListedRows(openOnly) :
        \E i \in DOMAIN alerts : ListedRows(openOnly)[n] = [id |-> i, open |-> alerts[i].open]

\* A list that is read holds alerts of the table, with the flags they have.
LEMMA ListedAreRows == AlertTypeOK => ListedAreAlerts
  <1> SUFFICES ASSUME AlertTypeOK, NEW openOnly \in BOOLEAN, NEW n \in DOMAIN ListedRows(openOnly)
               PROVE  \E i \in DOMAIN alerts :
                        ListedRows(openOnly)[n] = [id |-> i, open |-> alerts[i].open]
    BY DEF ListedAreAlerts
  <1> DEFINE ids == {i \in DOMAIN alerts : openOnly => alerts[i].open}
             After(i) == {j \in ids : j >= i}
             rows == {i \in ids : Cardinality(After(i)) <= ListLimit}
             Nth(m) == CHOOSE i \in rows : Cardinality(After(i)) = m
             place == [i \in rows |-> Cardinality(After(i))]
  <1>1. ListedRows(openOnly)
          = [m \in 1 .. Cardinality(rows) |-> [id |-> Nth(m), open |-> alerts[Nth(m)].open]]
    BY DEF ListedRows
  <1>2. n \in 1 .. Cardinality(rows)
          /\ ListedRows(openOnly)[n] = [id |-> Nth(n), open |-> alerts[Nth(n)].open]
    <2> HIDE DEF rows, Nth
    <2>1. QED
      BY <1>1
  <1>3. ids \subseteq Nat /\ IsFiniteSet(ids) /\ rows \subseteq ids /\ IsFiniteSet(rows)
    <2>1. IsFiniteSet(1 .. Len(alerts)) /\ DOMAIN alerts = 1 .. Len(alerts) /\ Len(alerts) \in Nat
      BY RowFacts, FS_Interval
    <2>2. ids \subseteq 1 .. Len(alerts) /\ rows \subseteq ids
      BY <2>1
    <2> HIDE DEF ids, rows
    <2>3. ids \subseteq Nat
      BY <2>1, <2>2
    <2>4. IsFiniteSet(ids)
      BY <2>1, <2>2, FS_Subset
    <2>5. QED
      BY <2>2, <2>3, <2>4, FS_Subset
  <1>4. \A i \in ids : /\ After(i) \subseteq ids /\ i \in After(i)
                       /\ \A j \in ids : i <= j => After(j) \subseteq After(i)
    <2>1. ids \subseteq Nat
      BY <1>3
    <2> HIDE DEF ids
    <2>2. \A i \in ids : i \in Nat /\ After(i) = {j \in ids : j >= i}
      BY <2>1
    <2> HIDE DEF After
    <2>3. \A i \in ids : After(i) \subseteq ids /\ i \in After(i)
      BY <2>2
    <2>4. \A i, j \in ids : i <= j => After(j) \subseteq After(i)
      BY <2>2
    <2>5. QED
      BY <2>3, <2>4
  <1>5. \A i \in ids : /\ IsFiniteSet(After(i)) /\ Cardinality(After(i)) \in Nat
                       /\ Cardinality(After(i)) >= 1
    <2> TAKE i \in ids
    <2>1. After(i) \subseteq ids /\ After(i) # {}
      BY <1>4
    <2> HIDE DEF After, ids
    <2>2. QED
      BY <1>3, <2>1, FS_Subset, FS_EmptySet, FS_CardinalityType
  <1>6. ASSUME NEW i \in rows PROVE place[i] \in 1 .. Cardinality(rows)
    <2>1. \A j \in After(i) : Cardinality(After(j)) <= Cardinality(After(i))
      <3> TAKE j \in After(i)
      <3>1. i \in ids /\ j \in ids /\ i <= j
        BY <1>3
      <3>2. After(j) \subseteq After(i)
        BY <1>4, <3>1
      <3> HIDE DEF After
      <3>3. QED
        BY <1>5, <3>1, <3>2, FS_Subset
    <2>2. /\ place[i] = Cardinality(After(i)) /\ i \in ids
          /\ Cardinality(After(i)) <= ListLimit /\ After(i) \subseteq ids
          /\ \A j \in ids : Cardinality(After(j)) <= ListLimit => j \in rows
      BY <1>3
    <2>3. After(i) \subseteq rows
      <3> HIDE DEF After, rows, ids, place
      <3>1. \A j \in After(i) : Cardinality(After(j)) <= ListLimit
        BY <1>5, <2>1, <2>2, AlertsPageAssumption
      <3>2. QED
        BY <2>2, <3>1
    <2> HIDE DEF After, rows, ids, place
    <2>4. QED
      BY <1>3, <1>5, <2>2, <2>3, FS_Subset, FS_CardinalityType
  <1>7. ASSUME NEW i \in rows, NEW j \in rows, place[i] = place[j] PROVE i = j
    <2>1. ASSUME NEW x \in rows, NEW y \in rows, place[x] = place[y], x <= y PROVE x = y
      <3>1. After(y) \subseteq After(x) /\ x \in ids /\ x \in After(x)
        BY <1>3, <1>4, <2>1
      <3>2. Cardinality(After(x)) = Cardinality(After(y))
        BY <2>1
      <3>3. After(y) = After(x)
        <4> HIDE DEF After, ids, rows
        <4>1. QED
          BY <1>5, <3>1, <3>2, FS_Subset
      <3>4. x \in After(y)
        BY <3>1, <3>3
      <3>5. QED
        BY <1>3, <2>1, <3>4
    <2>2. i <= j \/ j <= i
      BY <1>3
    <2>3. QED
      BY <1>7, <2>1, <2>2
  <1>8. place \in Injection(rows, 1 .. Cardinality(rows))
    <2>1. place = [i \in rows |-> place[i]]
      OBVIOUS
    <2> HIDE DEF place, rows
    <2>2. place \in [rows -> 1 .. Cardinality(rows)]
      BY <1>6, <2>1
    <2>3. QED
      BY <1>7, <2>2 DEF Injection, IsInjective
  <1>9. Cardinality(1 .. Cardinality(rows)) = Cardinality(rows)
          /\ IsFiniteSet(1 .. Cardinality(rows))
    BY <1>3, FS_Interval, FS_CardinalityType
  <1>10. \E i \in rows : place[i] = n
    <2> HIDE DEF place, rows
    <2>1. place \in Bijection(rows, 1 .. Cardinality(rows))
      BY <1>3, <1>8, <1>9, FS_Injection DEF Bijection
    <2>2. QED
      BY <1>2, <2>1 DEF Bijection, Surjection
  <1>11. \E i \in rows : Cardinality(After(i)) = n
    BY <1>10
  <1>12. Nth(n) \in rows
    BY <1>11
  <1>13. QED
    BY <1>2, <1>12

\* What is on the screen was in the table, and is shown as open as long as it is.
ListingOK ==
    \A n \in DOMAIN records : \E i \in DOMAIN alerts :
        \/ records[n] = [id |-> i, open |-> TRUE]
        \/ records[n] = [id |-> i, open |-> FALSE] /\ ~ alerts[i].open

LEMMA AlertStepKeepsListing ==
    ASSUME AlertInv, ListingOK, [AlertNext]_alertVars, UNCHANGED records
    PROVE  ListingOK'
  BY AlertsOnlyCloseStep DEF ListingOK

LEMMA RefreshKeepsListing ==
    ASSUME AlertInv', NEW openOnly \in BOOLEAN, RefreshAlerts(openOnly)
    PROVE  ListingOK'
  <1>1. AlertTypeOK'
    BY DEF AlertInv
  <1>2. (AlertTypeOK => ListedAreAlerts)'
    BY ListedAreRows, PTL
  <1>3. \A i \in DOMAIN alerts' : alerts'[i].open \in BOOLEAN
    <2>1. \A i \in DOMAIN alerts' : alerts'[i] \in Row
      BY <1>1 DEF AlertTypeOK
    <2>2. QED
      BY <2>1 DEF Row
  <1>4. QED
    BY <1>1, <1>2, <1>3 DEF RefreshAlerts, ListingOK, ListedAreAlerts

ListingTypeOK == listing \in [visible : BOOLEAN, openOnly : BOOLEAN]

\* The operator's step on the row that is selected.
LEMMA AckClosesListed ==
    ASSUME AlertInv, ListingOK, NEW row \in DOMAIN records, AckSelected(row)
    PROVE  /\ [AlertNext]_alertVars
           /\ \A i \in DOMAIN alerts : alerts[i].open /\ ~ alerts'[i].open
                => records[row] = [id |-> i, open |-> TRUE]
  <1> DEFINE id == records[row].id
  <1>1. AcknowledgeRow(id) /\ UNCHANGED call /\ AlertTypeOK
    BY DEF AckSelected, AlertInv
  <1>2. /\ id \in DOMAIN alerts
        /\ records[row] = [id |-> id, open |-> TRUE] \/ ~ alerts[id].open
    BY DEF ListingOK
  <1>3. \A i \in DOMAIN alerts : i # id => alerts'[i] = alerts[i]
    BY <1>1 DEF AcknowledgeRow, AlertTypeOK
  <1>4. [AlertNext]_alertVars
    BY <1>1, <1>2 DEF AlertNext, Acknowledge
  <1>5. QED
    BY <1>2, <1>3, <1>4

\* A thread that closes an alert ends its call.
LEMMA ThreadsCloseInCalls ==
    ASSUME AlertInv, AlertThreads, call' = call
    PROVE  \A i \in DOMAIN alerts : alerts'[i] = alerts[i]
  <1>1. \A w \in Worker : call[w].op \in {"insert", "acknowledge"} => call[w] # Idle
    BY DEF Idle
  <1>2. call \in [Worker -> Calls]
    BY DEF AlertInv, AlertTypeOK
  <1>3. ASSUME NEW w \in Worker PROVE ~ RaiseInsert(w) /\ ~ ResolveAcknowledge(w)
    <2>1. [call EXCEPT ![w] = Idle][w] = Idle
      BY <1>2
    <2>2. QED
      BY <1>1, <2>1 DEF RaiseInsert, ResolveAcknowledge
  <1>4. alerts' = alerts
    BY <1>3 DEF AlertThreads, RaiseFind, ResolveFind, CallFails
  <1>5. QED
    BY <1>4

\* For any number of threads and alerts, and any limit of the list: the operator closes
\* what is on the screen, and shown as open.
THEOREM AlertsPageClosesWhatIsShown == AlertsPageSpec => ClosesWhatIsShown
  <1> DEFINE PageInv == AlertInv /\ ListingOK /\ ListingTypeOK
             Shown == \A i \in DOMAIN alerts :
                        alerts[i].open /\ ~ alerts'[i].open /\ call' = call
                          => \E row \in DOMAIN records : records[row] = [id |-> i, open |-> TRUE]
  <1>1. AlertsPageInit => PageInv
    BY AlertInvInit DEF AlertsPageInit, ListingOK, ListingTypeOK
  <1>2. ASSUME PageInv, [AlertsPageNext]_alertsPageVars PROVE PageInv' /\ Shown
    <2>1. CASE UNCHANGED alertsPageVars
      <3>1. UNCHANGED <<alerts, call, records, listing>>
        BY <2>1 DEF alertsPageVars, alertVars
      <3>2. AlertInv'
        BY <1>2, <3>1, AlertInvStep DEF alertVars
      <3>3. QED
        BY <1>2, <3>1, <3>2 DEF ListingOK, ListingTypeOK
    <2>2. CASE AlertThreads
      <3>1. [AlertNext]_alertVars /\ UNCHANGED <<records, listing>>
        BY <2>2 DEF AlertThreads, AlertNext
      <3>2. PageInv'
        BY <1>2, <3>1, AlertInvStep, AlertStepKeepsListing DEF ListingTypeOK
      <3>3. Shown
        BY <1>2, <2>2, ThreadsCloseInCalls
      <3>4. QED
        BY <3>2, <3>3
    <2>3. CASE ShowAlerts \/ AlertsTimer \/ ToggleOpenOnly
      <3>1. PICK o \in BOOLEAN : RefreshAlerts(o)
        BY <1>2, <2>3 DEF ShowAlerts, AlertsTimer, ToggleOpenOnly, ListingTypeOK
      <3>2. UNCHANGED alertVars /\ ListingTypeOK'
        BY <1>2, <2>3 DEF ShowAlerts, AlertsTimer, ToggleOpenOnly, ListingTypeOK
      <3>3. AlertInv' /\ Shown
        BY <1>2, <3>2, AlertInvStep DEF alertVars
      <3>4. QED
        BY <3>1, <3>2, <3>3, RefreshKeepsListing
    <2>4. CASE HideAlerts
      <3>1. UNCHANGED alertVars /\ UNCHANGED records /\ ListingTypeOK'
        BY <1>2, <2>4 DEF HideAlerts, ListingTypeOK
      <3>2. AlertInv' /\ Shown
        BY <1>2, <3>1, AlertInvStep DEF alertVars
      <3>3. QED
        BY <1>2, <3>1, <3>2, AlertStepKeepsListing
    <2>5. ASSUME NEW row \in DOMAIN records, AckSelected(row) PROVE PageInv' /\ Shown
      <3>1. AlertInv'
        BY <1>2, <2>5, AckClosesListed, AlertInvStep
      <3>2. ListingTypeOK' /\ listing.openOnly \in BOOLEAN /\ RefreshAlerts(listing.openOnly)
        BY <1>2, <2>5 DEF AckSelected, ListingTypeOK
      <3>3. ListingOK'
        BY <3>1, <3>2, RefreshKeepsListing
      <3>4. Shown
        BY <1>2, <2>5, AckClosesListed
      <3>5. QED
        BY <3>1, <3>2, <3>3, <3>4
    <2>6. QED
      BY <1>2, <2>1, <2>2, <2>3, <2>4, <2>5 DEF AlertsPageNext
  <1>3. QED
    BY <1>1, <1>2, PTL DEF AlertsPageSpec, ClosesWhatIsShown

=============================================================================
