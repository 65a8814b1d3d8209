---------------------------- MODULE ExportingPage ----------------------------
(* The network and the logs page as a WorkerPage whose results can be exported:
   the page keeps the last result, and a second worker writes it to a file.
   The two differ in when the export may be asked for and in when the result is
   read: the logs page takes it with the click, and none while an analysis
   runs; the network page leaves the reading to the thread, at any time. What
   the main worker's service does is left to the modules of the services. *)

EXTENDS WorkerPage, OneShot

VARIABLES
    which,      \* the page that this is: "network" or "logs"
    kept,       \* the run of the result that the page keeps, or None
    shown,      \* the run whose rows are in the table, or None
    good,       \* runs that have succeeded (history)
    died        \* runs that have ended without an outcome (history)

ASSUME ExportingAssumption == "export" \in Slot

exportVars == <<pageVars, worker, which, kept, shown, good, died>>

ExportingInit ==
    /\ PageInit /\ OneShotInit
    /\ which \in {"network", "logs"}
    /\ kept = None /\ shown = None /\ good = {} /\ died = {}

-----------------------------------------------------------------------------
(* The main worker *)

\* Both clear what could be taken for the new result: the network page its
\* rows, the logs page nothing but its messages.
ClickStart ==
    /\ ClickRun
    /\ shown' = IF which = "network" THEN None ELSE shown
    /\ UNCHANGED <<worker, which, kept, good, died>>

ClickStop == ClickCancel /\ UNCHANGED <<worker, which, kept, shown, good, died>>
CloseIt == Close /\ UNCHANGED <<worker, which, kept, shown, good, died>>

\* run(): the service returned, raised, or was cancelled; a token is looked at
\* before the first result, and a cancelled scan may still succeed.
RunAnswers(n, kind) ==
    /\ kind = "cancelled" => token[n]
    /\ Answer(n, "starting", kind)
    /\ good' = IF kind = "succeeded" THEN good \union {n} ELSE good
    /\ UNCHANGED <<worker, which, kept, shown, died>>

\* LogWorker.run() knows the errors of files and of values, not those of the store, to
\* which the service records that an analysis began or ended. ScanWorker's knows all.
RunDies(n) ==
    /\ which = "logs"
    /\ DieSilently(n, "starting")
    /\ died' = died \union {n}
    /\ UNCHANGED <<worker, which, kept, shown, good>>

RunEnds(n) == EndThread(n) /\ UNCHANGED <<worker, which, kept, shown, good, died>>

\* Bug: the page keeps what a cancelled run has, too.
OnCancelledKeeps(n) ==
    /\ OutcomeArrives(n, {"failed", "cancelled"})
    /\ kept' = n
    /\ UNCHANGED <<worker, which, shown, good, died>>

OnSucceeded(n) ==
    /\ OutcomeArrives(n, {"succeeded"})
    /\ kept' = n /\ shown' = n
    /\ UNCHANGED <<worker, which, good, died>>

\* Failed or cancelled: the rows and the result of an earlier run stay.
OnUnsuccessful(n) ==
    /\ OutcomeArrives(n, {"failed", "cancelled"})
    /\ UNCHANGED <<worker, which, kept, shown, good, died>>

OnRunFinished(n) == WorkerDone(n) /\ UNCHANGED <<worker, which, kept, shown, good, died>>

PageWaits == WaitReturns /\ UNCHANGED <<worker, which, kept, shown, good, died>>

-----------------------------------------------------------------------------
(* The export *)

Unread == 0

ClickExport ==
    /\ page.window = "open" /\ kept # None
    /\ which = "logs" => page.worker = None
    /\ StartCall("export",
                 [asked |-> kept, read |-> IF which = "logs" THEN kept ELSE Unread])
    /\ UNCHANGED <<pageVars, which, kept, shown, good, died>>

\* The network page's thread begins: it reads _last_result.
ReadResult ==
    /\ SlotStage("export") = "running" /\ worker["export"].call.read = Unread
    /\ worker' = [worker EXCEPT !["export"].call.read = kept]
    /\ UNCHANGED <<pageVars, which, kept, shown, good, died>>

WriteEnds(outcome) ==
    /\ SlotStage("export") = "running" /\ worker["export"].call.read # Unread
    /\ CallEnds("export", outcome)
    /\ UNCHANGED <<pageVars, which, kept, shown, good, died>>

OnExportOutcome(outcome) ==
    /\ page.window = "open"
    /\ OutcomeHandled("export", outcome)
    /\ UNCHANGED <<pageVars, which, kept, shown, good, died>>

OnExportFinished ==
    /\ page.window = "open"
    /\ FinishedHandled("export")
    /\ UNCHANGED <<pageVars, which, kept, shown, good, died>>

-----------------------------------------------------------------------------
ExportingUser == ClickStart \/ ClickStop \/ CloseIt \/ ClickExport

PageSignal ==
    \/ \E n \in Call : OnSucceeded(n) \/ OnUnsuccessful(n) \/ OnRunFinished(n)
    \/ PageWaits

RunStep(n) == RunEnds(n) \/ RunDies(n) \/ \E kind \in Outcome : RunAnswers(n, kind)

\* The export's call and the signals of its worker come one after the other.
ExportStep ==
    \/ ReadResult \/ OnExportFinished
    \/ \E o \in {"succeeded", "failed"} : WriteEnds(o) \/ OnExportOutcome(o)

ExportingNext ==
    \/ ExportingUser \/ PageSignal \/ ExportStep
    \/ \E n \in Call : RunStep(n)

\* Signals are delivered while the window is open; services return, files are
\* written. The two queues of signals do not hold each other up.
ExportingFair ==
    /\ WF_exportVars(PageSignal) /\ WF_exportVars(ExportStep)
    /\ \A n \in Call : WF_exportVars(RunStep(n))

ExportingSpec == ExportingInit /\ [][ExportingNext]_exportVars /\ ExportingFair

-----------------------------------------------------------------------------
(* Properties *)

ExportingTypeOK ==
    /\ PageTypeOK
    /\ DOMAIN worker = Slot
    /\ worker["export"] \in {Nobody} \union
                            [stage : {"running", "succeeded", "failed", "told"},
                             call : [asked : Call, read : Call \union {Unread}]]
    /\ which \in {"network", "logs"} /\ good \subseteq Call
    /\ kept \in Call \union {None} /\ shown \in Call \union {None} /\ died \subseteq Call

\* A run starts when the signals of the one before it have all been handled.
OneRunAtATime ==
    /\ \A n \in Call : (n > runs => thread[n] = "none") /\ (n < runs => thread[n] = "ended")
    /\ page.worker \in {None, runs}
    /\ page.worker = None => signals = << >> /\ (runs # 0 => thread[runs] = "ended")
    /\ \A i \in DOMAIN signals :
          /\ signals[i].run = runs /\ thread[runs] \in {"answered", "ended"}
          /\ signals[i].kind = "finished" => i = Len(signals) /\ thread[runs] = "ended"

\* What is told as succeeded has succeeded, and the page keeps no run that is newer
\* than the last.
SuccessIsTold ==
    /\ \A i \in DOMAIN signals : signals[i].kind = "succeeded" => signals[i].run \in good
    /\ kept # None => kept <= runs

\* A file holds the result of one run that succeeded, never of one that failed or
\* was cancelled: on the logs page that of the click, although an analysis may
\* end while it is written, on the network page that of the click or a newer
\* one. What the page keeps is the newest result it was told of, and the rows
\* it shows are of that run.
ExportIsSound ==
    /\ kept # None => kept \in good
    /\ shown \in {None, kept}
    /\ LET export == worker["export"]
       IN  export # Nobody /\ export.call.read # Unread =>
             /\ export.call.read \in good
             /\ export.call.asked <= export.call.read /\ export.call.read <= kept
             /\ which = "logs" => export.call.read = export.call.asked

\* The button is off while a run has no outcome, and on again, at the latest, when
\* "finished" is all that is left of it, unless the run died: no outcome of it
\* comes, the button stays off and no run follows. A scan does not die.
ButtonAgrees ==
    /\ (\A n \in died : n = runs /\ thread[n] # "starting") /\ (which = "network" => died = {})
    /\ \A n \in Call : thread[n] = "starting" \/ n \in died => ~ page.canRun
    /\ \A i \in DOMAIN signals : signals[i].kind # "finished" => signals[i].run \notin died
    /\ \/ page.worker = None
       \/ thread[page.worker] # "starting" /\ \A i \in DOMAIN signals : signals[i].kind = "finished"
       => page.canRun \/ died # {}

ExportingInv ==
    ExportingTypeOK /\ OneRunAtATime /\ SuccessIsTold /\ ExportIsSound /\ ButtonAgrees

\* Every run and every export ends with the page able to start the next one,
\* unless the window closes, or an analysis died: then the page has forgotten its
\* worker all the same, and exports go on.
EveryCallAnswered ==
    /\ []<>((page.worker = None /\ (page.canRun \/ died # {})) \/ page.window # "open")
    /\ []<>(Free("export") \/ page.window # "open")

=============================================================================
