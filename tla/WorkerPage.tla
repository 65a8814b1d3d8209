----------------------------- MODULE WorkerPage -----------------------------
(* A page that runs one cancellable worker thread at a time, as NetworkView and
   BackupView do. The page and the worker meet in two places: the token, and
   the signals of the worker, which Qt queues and delivers to the page one by
   one, in the order in which the thread emitted them. The page starts a new
   worker only when it has forgotten the last one, which happens at "finished",
   after the result has enabled the run button again.

   Handlers run one at a time, in the UI thread: each is one action. *)

EXTENDS CancelToken, FiniteSets, Integers, Sequences

CONSTANT None         \* Python's None, as the page's worker

VARIABLES thread,     \* thread[n]: the worker thread of the n-th run
          signals,    \* signals emitted and not yet delivered
          page,       \* the page's worker and buttons, and its window
          runs        \* how many runs were started (bounds the model)

(* Runs are numbered in the order of their clicks. *)
ASSUME PageAssumption ==
    /\ IsFiniteSet(Call) /\ Call = 1 .. Cardinality(Call)
    /\ None \notin Call

workerVars == <<thread, signals>>
pageVars == <<token, thread, signals, page, runs>>

(* starting: before the service is called; busy: inside it; answered: its
   outcome was emitted; ended: "finished" was. *)
ThreadStage == {"none", "starting", "busy", "answered", "ended"}
Outcome == {"succeeded", "failed", "cancelled"}
Signal == [kind : Outcome \cup {"finished"}, run : Call]

PageTypeOK ==
    /\ token \in [Call -> BOOLEAN]
    /\ thread \in [Call -> ThreadStage]
    /\ signals \in Seq(Signal)
    /\ page \in [worker : Call \cup {None}, canRun : BOOLEAN,
                 canCancel : BOOLEAN, window : {"open", "closing", "closed"}]
    /\ runs \in Nat

PageInit ==
    /\ TokenInit
    /\ thread = [n \in Call |-> "none"]
    /\ signals = << >>
    /\ page = [worker |-> None, canRun |-> TRUE, canCancel |-> FALSE,
               window |-> "open"]
    /\ runs = 0

-----------------------------------------------------------------------------
(* The page *)

StartWorker(n) ==
    /\ runs' = n
    /\ thread' = [thread EXCEPT ![n] = "starting"]
    /\ page' = [page EXCEPT !.worker = n, !.canRun = FALSE, !.canCancel = TRUE]
    /\ UNCHANGED <<token, signals>>

\* A click on an empty form only shows an error.
ClickRun ==
    /\ page.window = "open" /\ page.canRun
    /\ page.worker = None
    /\ runs + 1 \in Call
    /\ StartWorker(runs + 1)

ClickCancel ==
    /\ page.window = "open" /\ page.canCancel
    /\ page.worker # None
    /\ CancelCall(page.worker)
    /\ page' = [page EXCEPT !.canCancel = FALSE]
    /\ UNCHANGED <<thread, signals, runs>>

Delivered(n, kinds) ==
    /\ page.window = "open"
    /\ signals # << >>
    /\ Head(signals).run = n /\ Head(signals).kind \in kinds
    /\ signals' = Tail(signals)
    /\ UNCHANGED <<token, thread, runs>>

\* Bug: the page forgets its worker when the outcome arrives, not when the
\* thread has finished.
OutcomeForgets(n, kinds) ==
    /\ Delivered(n, kinds)
    /\ page' = [page EXCEPT !.worker = None, !.canRun = TRUE, !.canCancel = FALSE]

\* What the slots of succeeded, failed and cancelled do to the buttons.
OutcomeArrives(n, kinds) ==
    /\ Delivered(n, kinds)
    /\ page' = [page EXCEPT !.canRun = TRUE, !.canCancel = FALSE]

(* The slot of finished reads self._worker when it runs, not when it was
   connected: whichever worker the page holds by now is forgotten. *)
WorkerDone(n) ==
    /\ Delivered(n, {"finished"})
    /\ page' = [page EXCEPT !.worker = None]

\* closeEvent: a running worker is cancelled and waited for, while no signal is
\* handled; the wait may time out.
Close ==
    /\ page.window = "open"
    /\ IF page.worker # None /\ thread[page.worker] # "ended"
       THEN /\ CancelCall(page.worker)
            /\ page' = [page EXCEPT !.window = "closing"]
       ELSE /\ page' = [page EXCEPT !.window = "closed"]
            /\ UNCHANGED token
    /\ UNCHANGED <<thread, signals, runs>>

WaitReturns ==
    /\ page.window = "closing"
    /\ page' = [page EXCEPT !.window = "closed"]
    /\ UNCHANGED <<token, thread, signals, runs>>

-----------------------------------------------------------------------------
(* The worker thread *)

\* The service has returned or raised, and run() emits the outcome.
Answer(n, from, kind) ==
    /\ thread[n] = from
    /\ thread' = [thread EXCEPT ![n] = "answered"]
    /\ signals' = Append(signals, [kind |-> kind, run |-> n])
    /\ UNCHANGED <<token, page, runs>>

(* An exception that run() does not catch is printed by Qt's binding and ends
   the thread: no outcome is emitted. *)
DieSilently(n, from) ==
    /\ thread[n] = from
    /\ thread' = [thread EXCEPT ![n] = "answered"]
    /\ UNCHANGED <<token, signals, page, runs>>

EndThread(n) ==
    /\ thread[n] = "answered"
    /\ thread' = [thread EXCEPT ![n] = "ended"]
    /\ signals' = Append(signals, [kind |-> "finished", run |-> n])
    /\ UNCHANGED <<token, page, runs>>

=============================================================================
