-------------------------------- MODULE Shell --------------------------------
(***************************************************************************)
(* The main window: its pages with a worker thread each, the alerts that   *)
(* other threads publish and that become toasts, and the closing, in which *)
(* the window waits for its pages' threads one after the other and handles *)
(* no signal meanwhile.  Signals that are queued by then are still handled *)
(* before the event loop ends.                                             *)
(***************************************************************************)
EXTENDS Integers, SequencesExt

CONSTANTS
    ShutdownPages,  \* the order in which the window shuts its pages down
    OtherPages,     \* pages with a worker that it does not shut down
    ChainPages,     \* pages where the end of one call starts another one
    Alert,          \* alerts that may be raised: 1 .. n, in this order
    MaxVisible      \* toasts at a time (_MAX_VISIBLE)

Pages == ToSet(ShutdownPages) \union OtherPages

ASSUME ShellAssumption ==
    /\ ShutdownPages \in Seq(ToSet(ShutdownPages))
    /\ MaxVisible \in Nat \ {0}
    /\ Alert \subseteq Nat

VARIABLES
    window,     \* open, closing, closed (queued signals are handled) or quit
    task,       \* task[p]: none, running, ended (signal queued), and the chained
                \* call's running: "chained"
    waiting,    \* pages still to be shut down
    overdue,    \* pages whose wait has timed out (history)
    subscribed, \* whether the bus knows the window's bridge
    publish,    \* alerts being published: the bus has copied its subscribers
    bridge,     \* alerts emitted to the window and not yet handled
    toasts,     \* the toasts on the screen, oldest first
    handled     \* how many alerts were raised, and those that became toasts (history)

shellVars == <<window, task, waiting, overdue,
               subscribed, publish, bridge, toasts, handled>>
alertFlow == <<subscribed, publish, bridge, toasts, handled>>
pageFlow == <<window, task, waiting, overdue>>

ShellInit ==
    /\ window = "open"
    /\ task = [p \in Pages |-> "none"]
    /\ waiting = << >> /\ overdue = {}
    /\ subscribed = TRUE /\ publish = {} /\ bridge = << >> /\ toasts = << >>
    /\ handled = [raised |-> 0, shown |-> << >>]

-----------------------------------------------------------------------------
(* Pages and their threads *)

\* A button or a timer of the page; what it refuses while its worker is there is OneShot's.
StartTask(p) ==
    /\ window = "open" /\ task[p] = "none"
    /\ task' = [task EXCEPT ![p] = "running"]
    /\ UNCHANGED <<window, waiting, overdue, alertFlow>>

TaskEnds(p) ==
    /\ task[p] \in {"running", "chained"}
    /\ task' = [task EXCEPT ![p] = IF @ = "running" THEN "ended" ELSE "none"]
    /\ UNCHANGED <<window, waiting, overdue, alertFlow>>

EndHandled(p) ==
    /\ window \in {"open", "closed"}
    /\ task[p] = "ended"
    /\ task' = [task EXCEPT ![p] = IF p \in ChainPages THEN "chained" ELSE "none"]
    /\ UNCHANGED <<window, waiting, overdue, alertFlow>>

-----------------------------------------------------------------------------
(* closeEvent *)

\* Bug: a page is left out of the list.
CloseForgets ==
    /\ window = "open"
    /\ window' = "closing" /\ waiting' = Tail(ShutdownPages)
    /\ subscribed' = FALSE
    /\ UNCHANGED <<task, overdue, publish, bridge, toasts, handled>>

CloseWindow ==
    /\ window = "open"
    /\ window' = "closing" /\ waiting' = ShutdownPages
    /\ subscribed' = FALSE
    /\ UNCHANGED <<task, overdue, publish, bridge, toasts, handled>>

\* shutdown() of the next page, whose wait ends with the thread or in time.
ShutdownPage(late) ==
    /\ window = "closing" /\ waiting # << >>
    /\ late = (task[Head(waiting)] \in {"running", "chained"})
    /\ waiting' = Tail(waiting)
    /\ overdue' = IF late THEN overdue \union {Head(waiting)} ELSE overdue
    /\ UNCHANGED <<window, task, alertFlow>>

Closed ==
    /\ window = "closing" /\ waiting = << >>
    /\ window' = "closed"
    /\ UNCHANGED <<task, waiting, overdue, alertFlow>>

\* exec() returns when the signals that were queued have been handled; the
\* container closes the database.
Quit ==
    /\ window = "closed"
    /\ \A p \in Pages : task[p] # "ended"
    /\ bridge = << >>
    /\ window' = "quit"
    /\ UNCHANGED <<task, waiting, overdue, alertFlow>>

-----------------------------------------------------------------------------
(* Alerts: EventBus, EventBusBridge, ToastManager *)

NextAlert == handled.raised + 1

\* publish() copies the list of callbacks under the lock and calls them after.
PublishAlert ==
    /\ window # "quit" /\ NextAlert \in Alert
    /\ handled' = [handled EXCEPT !.raised = NextAlert]
    /\ publish' = IF subscribed THEN publish \union {NextAlert} ELSE publish
    /\ UNCHANGED <<pageFlow, subscribed, bridge, toasts>>

\* Bug: an alert that waits is replaced by the next one.
EmitAlertLatest(a) ==
    /\ a \in publish /\ window # "quit"
    /\ publish' = publish \ {a}
    /\ bridge' = <<a>>
    /\ UNCHANGED <<pageFlow, subscribed, toasts, handled>>

\* The bridge's callback emits a signal, also after the bridge was detached.
EmitAlert(a) ==
    /\ a \in publish /\ window # "quit"
    /\ publish' = publish \ {a}
    /\ bridge' = Append(bridge, a)
    /\ UNCHANGED <<pageFlow, subscribed, toasts, handled>>

\* _on_alert_raised, with toasts enabled: the oldest ones make room.
ShowToast ==
    /\ window \in {"open", "closed"} /\ bridge # << >>
    /\ bridge' = Tail(bridge)
    /\ LET room == MaxVisible - 1
           keep == IF Len(toasts) <= room THEN toasts
                   ELSE SubSeq(toasts, Len(toasts) - room + 1, Len(toasts))
       IN  toasts' = Append(keep, Head(bridge))
    /\ handled' = [handled EXCEPT !.shown = Append(@, Head(bridge))]
    /\ UNCHANGED <<pageFlow, subscribed, publish>>

\* Its timer, six or ten seconds; closing a toast that is gone changes nothing.
ToastExpires(i) ==
    /\ window = "open" /\ i \in DOMAIN toasts
    /\ toasts' = RemoveAt(toasts, i)
    /\ UNCHANGED <<pageFlow, subscribed, publish, bridge, handled>>

-----------------------------------------------------------------------------
ShellNext ==
    \/ \E p \in Pages : StartTask(p) \/ TaskEnds(p) \/ EndHandled(p)
    \/ CloseWindow \/ Closed \/ Quit
    \/ \E late \in BOOLEAN : ShutdownPage(late)
    \/ PublishAlert \/ ShowToast
    \/ \E a \in Alert : EmitAlert(a)
    \/ \E i \in DOMAIN toasts : ToastExpires(i)

\* The event loop turns and publishing threads run.
ShellFair == WF_shellVars(ShowToast) /\ WF_shellVars(\E a \in Alert : EmitAlert(a))

ShellSpec == ShellInit /\ [][ShellNext]_shellVars /\ ShellFair

-----------------------------------------------------------------------------
(* Properties *)

ShellTypeOK ==
    /\ window \in {"open", "closing", "closed", "quit"}
    /\ task \in [Pages -> {"none", "running", "ended", "chained"}]
    /\ waiting \in Seq(ToSet(ShutdownPages)) /\ overdue \subseteq Pages
    /\ subscribed \in BOOLEAN /\ publish \subseteq Alert
    /\ bridge \in Seq(Alert) /\ toasts \in Seq(Alert)
    /\ handled \in [raised : Nat, shown : Seq(Alert)]

\* Once the window closes, a page's first call is over before the window stops
\* waiting for the page, or was waited for in vain.
WaitsForAll ==
    window # "open" =>
        \A p \in Pages :
            task[p] = "running" => p \in OtherPages \union overdue \union ToSet(waiting)

NobodyWaitedFor == window \in {"closed", "quit"} => waiting = << >>

\* When the program ends, the only threads that go on are those of pages the
\* window does not shut down, those it waited for in vain, and calls that the
\* end of another call started after their page had been shut down.
CloseWaitsForThreads ==
    window = "quit" =>
        \A p \in Pages :
            task[p] # "none" => p \in OtherPages \union overdue \/ task[p] = "chained"

\* An alert crosses two threads and a queue without becoming two toasts, and never
\* more toasts are on the screen than fit.
AlertsArriveOnce ==
    LET arrived == handled.shown \o bridge
    IN  /\ \A i, j \in DOMAIN arrived : arrived[i] = arrived[j] => i = j
        /\ \A i \in DOMAIN arrived : arrived[i] \notin publish
        /\ \A a \in publish \union ToSet(arrived) : a <= handled.raised
        /\ Len(toasts) <= MaxVisible

ShellInv ==
    /\ ShellTypeOK /\ WaitsForAll /\ NobodyWaitedFor
    /\ CloseWaitsForThreads /\ AlertsArriveOnce

\* Every alert that is published while the window listens becomes a toast in the
\* end, although it crosses two threads and a queue, unless the window closes.
AlertIsShown ==
    <>[](window = "open" => 1 .. handled.raised \subseteq ToSet(handled.shown))

=============================================================================
