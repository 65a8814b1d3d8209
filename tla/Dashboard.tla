------------------------------ MODULE Dashboard ------------------------------
(***************************************************************************)
(* The dashboard and its MetricsPoller: a thread that collects, emits the  *)
(* result and waits on an event for its interval.  The page starts it when *)
(* it is shown and when Pause is released; it stops it, and waits for its  *)
(* end, when it is hidden or paused.  The event is set by stop() and never *)
(* cleared, and run() tests it first.  A result that arrives may be due to *)
(* be recorded as a snapshot.                                              *)
(***************************************************************************)
EXTENDS Integers

CONSTANT SnapshotInterval   \* in units of polling

ASSUME DashboardAssumption == SnapshotInterval \in Nat \ {0}

VARIABLES
    board,      \* the page: visible, paused, blocked in wait_stopped()
    poller,     \* the thread: off, testing, collecting, waiting; and its event
    results,    \* results emitted and not yet handled
    snapshot    \* time since the last one was recorded, or Never

Never == SnapshotInterval      \* _last_snapshot is None: one is due

dashboardVars == <<board, poller, results, snapshot>>

DashboardInit ==
    /\ board = [visible |-> FALSE, paused |-> FALSE, blocked |-> FALSE,
                overdue |-> FALSE]
    /\ poller = [stage |-> "off", stop |-> FALSE]
    /\ results = 0
    /\ snapshot = Never

-----------------------------------------------------------------------------
(* The page *)

\* _start_polling, of a page in state b
StartPolling(b) ==
    poller' = IF ~ b.paused /\ poller.stage = "off"
              THEN [poller EXCEPT !.stage = "testing"] ELSE poller

\* Bug: the page does not wait for the thread.
StopWithoutWait(b) ==
    /\ poller' = [poller EXCEPT !.stop = poller.stage # "off"]
    /\ board' = b

\* _stop_polling; wait_stopped blocks the event loop for up to five seconds.
StopPolling(b) ==
    IF poller.stage = "off" THEN board' = b /\ UNCHANGED poller
    ELSE /\ poller' = [poller EXCEPT !.stop = TRUE]
         /\ board' = [b EXCEPT !.blocked = TRUE]

ShowBoard ==
    /\ ~ board.visible /\ ~ board.blocked
    /\ board' = [board EXCEPT !.visible = TRUE]
    /\ StartPolling(board)
    /\ UNCHANGED <<results, snapshot>>

\* Another page, or the end: shutdown() does the same.
HideBoard ==
    /\ board.visible /\ ~ board.blocked
    /\ StopPolling([board EXCEPT !.visible = FALSE])
    /\ UNCHANGED <<results, snapshot>>

PauseBoard ==
    /\ board.visible /\ ~ board.blocked /\ ~ board.paused
    /\ StopPolling([board EXCEPT !.paused = TRUE])
    /\ UNCHANGED <<results, snapshot>>

ResumeBoard ==
    /\ board.visible /\ ~ board.blocked /\ board.paused
    /\ board' = [board EXCEPT !.paused = FALSE]
    /\ StartPolling(board')
    /\ UNCHANGED <<results, snapshot>>

StopWaitEnds ==
    /\ board.blocked
    /\ board' = [board EXCEPT !.blocked = FALSE, !.overdue = poller.stage # "off"]
    /\ UNCHANGED <<poller, results, snapshot>>

\* Bug: the time of a snapshot is taken whether or not it was due.
PollRestartsInterval ==
    /\ results > 0 /\ ~ board.blocked
    /\ results' = results - 1
    /\ snapshot' = IF snapshot >= SnapshotInterval THEN 0 ELSE 1
    /\ UNCHANGED <<board, poller>>

\* _on_poll_result and _maybe_record_snapshot
PollHandled ==
    /\ results > 0 /\ ~ board.blocked
    /\ results' = results - 1
    /\ snapshot' = IF snapshot >= SnapshotInterval THEN 0 ELSE snapshot
    /\ UNCHANGED <<board, poller>>

\* A snapshot is due, and the store fails: the slot raises, and the next poll tries again.
SnapshotFails ==
    /\ results > 0 /\ ~ board.blocked
    /\ snapshot >= SnapshotInterval
    /\ results' = results - 1
    /\ UNCHANGED <<board, poller, snapshot>>

-----------------------------------------------------------------------------
(* The thread *)

PollerTests ==
    /\ poller.stage = "testing"
    /\ poller' = [poller EXCEPT !.stage = IF poller.stop THEN "off" ELSE "collecting"]
    /\ UNCHANGED <<board, results, snapshot>>

\* A failure is emitted as well, and shown as a message only. (The bound on the
\* queue is the page's, which handles results faster than they come.)
PollerCollects(ok) ==
    /\ poller.stage = "collecting" /\ results < 2
    /\ poller' = [poller EXCEPT !.stage = "waiting"]
    /\ results' = IF ok THEN results + 1 ELSE results
    /\ UNCHANGED <<board, snapshot>>

\* The interval is over, or the event was set.
PollerWakes ==
    /\ poller.stage = "waiting"
    /\ poller' = [poller EXCEPT !.stage = "testing"]
    /\ snapshot' = IF snapshot < SnapshotInterval THEN snapshot + 1 ELSE snapshot
    /\ UNCHANGED <<board, results>>

PollerStep == PollerTests \/ PollerWakes \/ \E ok \in BOOLEAN : PollerCollects(ok)
BoardStep == StopWaitEnds \/ PollHandled \/ SnapshotFails

DashboardNext ==
    \/ ShowBoard \/ HideBoard \/ PauseBoard \/ ResumeBoard
    \/ BoardStep \/ PollerStep

\* The thread runs, the event loop turns, and neither collecting nor recording fails
\* every time.
DashboardFair ==
    /\ WF_dashboardVars(PollerStep) /\ SF_dashboardVars(PollerCollects(TRUE))
    /\ WF_dashboardVars(BoardStep) /\ SF_dashboardVars(PollHandled)

DashboardSpec == DashboardInit /\ [][DashboardNext]_dashboardVars /\ DashboardFair

-----------------------------------------------------------------------------
(* Properties *)

DashboardTypeOK ==
    /\ board \in [visible : BOOLEAN, paused : BOOLEAN, blocked : BOOLEAN, overdue : BOOLEAN]
    /\ poller \in [stage : {"off", "testing", "collecting", "waiting"}, stop : BOOLEAN]
    /\ results \in 0 .. 2
    /\ snapshot \in 0 .. SnapshotInterval

\* While the page waits for the thread's end, the thread has been told.
WaitsForStopped == board.blocked => poller.stop

\* Nothing is collected for a page that is paused or not shown, except by a
\* thread whose end was waited for in vain, and that one ends at its next test.
FrozenWhenPaused ==
    (board.paused \/ ~ board.visible) /\ ~ board.blocked /\ poller.stage # "off"
        => board.overdue /\ poller.stop

DashboardInv == DashboardTypeOK /\ WaitsForStopped /\ FrozenWhenPaused

\* As long as the poller was never stopped, a page that is shown goes on to
\* record a snapshot at every interval, although collecting and recording may fail.
SnapshotsRecorded ==
    <>[](board.visible /\ ~ board.paused /\ ~ poller.stop) => []<>(snapshot = 0)

\* docs/user-guide.md:20, "Pause freezes live collection", with a button that then
\* says Resume: on a page that stays shown and is not paused, collecting goes on.
PollingResumes ==
    <>[](board.visible /\ ~ board.paused) => []<>(poller.stage = "collecting")

=============================================================================
