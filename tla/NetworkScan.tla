----------------------------- MODULE NetworkScan -----------------------------
(* The network page: a WorkerPage whose worker is a ScanWorker, which calls
   NetworkScanService.scan, which sweeps the hosts of a network with FanOut. *)

EXTENDS FanOut, WorkerPage

VARIABLE result       \* what the page shows and keeps of its scans

poolVars == <<future, fan>>
scanVars == <<pageVars, poolVars, result>>

ScanTypeOK ==
    /\ FanTypeOK /\ PageTypeOK
    /\ result \in [last : Call \cup {None}, shown : Call \cup {None}]

(* last: the scan in _last_result, which the export buttons write to a file;
   shown: the scan whose hosts are in the table. *)
ScanInit ==
    /\ FanInit /\ PageInit
    /\ result = [last |-> None, shown |-> None]

-----------------------------------------------------------------------------
(* The page *)

ClickScan ==
    /\ ClickRun
    /\ result' = [result EXCEPT !.shown = None]
    /\ UNCHANGED poolVars

CancelScan == ClickCancel /\ UNCHANGED <<poolVars, result>>
ClosePage == Close /\ UNCHANGED <<poolVars, result>>

OnScanDone(n) ==
    /\ OutcomeArrives(n, {"succeeded"})
    /\ result' = [last |-> n, shown |-> n]
    /\ UNCHANGED poolVars

OnScanFailed(n) ==
    /\ OutcomeArrives(n, {"failed", "cancelled"})
    /\ UNCHANGED <<poolVars, result>>

OnFinished(n) == WorkerDone(n) /\ UNCHANGED <<poolVars, result>>

PageStep ==
    \/ \E n \in Call : OnScanDone(n) \/ OnScanFailed(n) \/ OnFinished(n)
    \/ WaitReturns /\ UNCHANGED <<poolVars, result>>

User == ClickScan \/ CancelScan \/ ClosePage

-----------------------------------------------------------------------------
(* ScanWorker.run around NetworkScanService.scan *)

\* Invalid network, public range without authorization, too many hosts; or the activity
\* log cannot be written.
ScanRefused(n) ==
    /\ Answer(n, "starting", "failed")
    /\ UNCHANGED <<poolVars, result>>

\* token.raise_if_cancelled()
ScanCancelledEarly(n) ==
    /\ token[n]
    /\ Answer(n, "starting", "cancelled")
    /\ UNCHANGED <<poolVars, result>>

ScanBegins(n) ==
    /\ thread[n] = "starting" /\ ~ token[n]
    /\ BeginFan(n)
    /\ thread' = [thread EXCEPT ![n] = "busy"]
    /\ UNCHANGED <<signals, page, runs, result>>

FanningOut(n) ==
    /\ FanStep(n)
    /\ UNCHANGED <<workerVars, page, runs, result>>

(* What follows the fan-out (MAC addresses, sorting, activity, event) does not
   wait. A scan that was cancelled in the fan-out succeeds, with the results it
   has. *)
ScanSucceeds(n) ==
    /\ fan[n].stage = "returned" /\ ~ fan[n].raised
    /\ Answer(n, "busy", "succeeded")
    /\ UNCHANGED <<poolVars, result>>

\* Bug: the worker catches only the exceptions it knows.
ScanDies(n) ==
    /\ fan[n].stage = "returned"
    /\ DieSilently(n, "busy")
    /\ UNCHANGED <<poolVars, result>>

\* A check has raised, or the activity log cannot be written; ScanWorker catches every
\* exception.
ScanRaises(n) ==
    /\ fan[n].stage = "returned"
    /\ Answer(n, "busy", "failed")
    /\ UNCHANGED <<poolVars, result>>

ThreadEnds(n) == EndThread(n) /\ UNCHANGED <<poolVars, result>>

WorkerStep(n) ==
    \/ ScanRefused(n) \/ ScanCancelledEarly(n) \/ ScanBegins(n)
    \/ FanningOut(n)
    \/ ScanSucceeds(n) \/ ScanRaises(n) \/ ThreadEnds(n)

CheckStep(n) ==
    /\ PoolStep(n)
    /\ UNCHANGED <<workerVars, page, runs, result>>

ScanNext ==
    \/ User \/ PageStep
    \/ \E n \in Call : WorkerStep(n) \/ CheckStep(n)

ScanSpec == ScanInit /\ [][ScanNext]_scanVars

(* Threads run, checks return (a ping has a timeout), and the event loop
   delivers signals. Nothing is assumed of the user. *)
ScanFair ==
    /\ WF_scanVars(PageStep)
    /\ \A n \in Call : WF_scanVars(WorkerStep(n)) /\ WF_scanVars(CheckStep(n))

-----------------------------------------------------------------------------
(* Properties *)

Alive(n) == thread[n] \notin {"none", "ended"}
Pending(n) == \E i \in DOMAIN signals : signals[i].run = n

\* The page never loses a worker: a thread that runs, or whose signals are
\* still queued, is the one the page holds, and it is the newest.
OneWorker ==
    \A n \in Call : Alive(n) \/ Pending(n) => page.worker = n /\ n = runs

\* A page without a worker has nothing queued and can start one.
Resting ==
    /\ page.worker = None /\ signals = << >>
    /\ page.canRun /\ ~ page.canCancel

\* Its worker has not answered yet.
Working(n) ==
    /\ thread[n] \in {"starting", "busy"} /\ signals = << >>
    /\ ~ page.canRun

Message(n, k) == [kind |-> k, run |-> n]

\* Its worker has answered, and the page has not seen the outcome.
Answered(n, k) ==
    /\ \/ thread[n] = "answered" /\ signals = <<Message(n, k)>>
       \/ thread[n] = "ended" /\ signals = <<Message(n, k), Message(n, "finished")>>
    /\ k = "succeeded" => fan[n].stage = "returned" /\ ~ fan[n].raised
    /\ ~ page.canRun

\* The page has seen the outcome, and holds its worker until it has finished.
Seen(n) ==
    /\ \/ thread[n] = "answered" /\ signals = << >>
       \/ thread[n] = "ended" /\ signals = <<Message(n, "finished")>>
    /\ page.canRun /\ ~ page.canCancel

\* The page, its worker and the signals between them are always in one of these
\* phases: no signal is lost, sent twice, or of a run the page has forgotten.
RunPhase ==
    \/ Resting
    \/ \E n \in Call :
         /\ page.worker = n /\ n = runs
         /\ Working(n) \/ Seen(n) \/ \E k \in Outcome : Answered(n, k)

\* The table never shows an older scan than the last one started, and what it
\* shows has ended: none of its checks runs on, and it lists every host unless
\* it was cancelled, by this page.
ShownIsSettled ==
    result.shown # None =>
        /\ result.shown = runs /\ result.last = runs
        /\ fan[runs].stage = "returned" /\ ~ fan[runs].raised
        /\ In(runs, "running") = {}
        /\ fan[runs].results = Item \/ token[runs]

ScanInv ==
    /\ ScanTypeOK /\ FanInv
    /\ RunPhase /\ OneWorker /\ ShownIsSettled

\* Every scan that is started ends with the page able to start another one,
\* whether it succeeds, fails, raises or is cancelled, unless the window closes.
EveryScanAnswered ==
    []<>((page.worker = None /\ page.canRun) \/ page.window # "open")

=============================================================================
