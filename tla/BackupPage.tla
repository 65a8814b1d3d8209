----------------------------- MODULE BackupPage -----------------------------
(* The backups page: a WorkerPage whose worker is a BackupWorker. Its
   constructor keeps the verification mode in _verify, while run() asks for
   _verify_mode: the arguments of run_backup cannot be evaluated, and the
   AttributeError is none of the exceptions run() catches. So the thread ends
   without having called the service and without an outcome. *)

EXTENDS WorkerPage

RunRaises(n) == DieSilently(n, "starting")

BackupWorkerStep(n) == RunRaises(n) \/ EndThread(n)

BackupPageStep ==
    \/ \E n \in Call : OutcomeArrives(n, Outcome) \/ WorkerDone(n)
    \/ WaitReturns

BackupPageNext ==
    \/ ClickRun \/ ClickCancel \/ Close
    \/ BackupPageStep
    \/ \E n \in Call : BackupWorkerStep(n)

\* Threads run and the event loop delivers signals; the user may do anything.
BackupPageSpec ==
    /\ PageInit /\ [][BackupPageNext]_pageVars
    /\ WF_pageVars(BackupPageStep)
    /\ \A n \in Call : WF_pageVars(BackupWorkerStep(n))

\* docs/user-guide.md:75, "then Run backup. Copies land in a fresh timestamped
\* folder": a run that is started ends with an outcome, after which the page can
\* start another one, unless the window closes.
EveryBackupAnswered ==
    \A n \in Call :
        page.worker = n ~> \/ page.worker = None /\ page.canRun
                           \/ page.window # "open"

=============================================================================
