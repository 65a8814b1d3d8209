--------------------------- MODULE MonitoringPage ---------------------------
(***************************************************************************)
(* The monitoring page: a table of devices, a history chart for the device *)
(* and range chosen above it, and the disk volumes.  Three workers serve   *)
(* it: a round of checks, the loading of a history, and the disk check.    *)
(* Rows are selected by position and read again when a dialog opens; while *)
(* the dialog is open, timers and signals go on.  Other processes on the   *)
(* same database add, rename and delete devices.                           *)
(***************************************************************************)
EXTENDS DeviceTable, OneShot, Sequences

CONSTANTS
    MaxChange   \* bound: changes of the device table

ASSUME MonitoringAssumption ==
    {"round", "history", "disk"} \subseteq Slot /\ MaxChange \in Nat

VARIABLES
    view,       \* what the page shows
    dialog,     \* the open dialog with its copy of a row, or Nobody
    changes     \* changes so far, and whether one was made since the table was filled, by
                \* another process or by a call that then failed (history)

monitoringVars == <<devices, worker, view, dialog, changes>>

NoChart == 0
Selected == IF view.combo = 0 THEN 0 ELSE view.rows[view.combo].id

MonitoringInit ==
    /\ DevicesInit /\ OneShotInit
    /\ view = [visible |-> FALSE, auto |-> TRUE, ticking |-> FALSE,
               rows |-> << >>, combo |-> 0,
               diskButton |-> TRUE, chart |-> NoChart]
    /\ dialog = Nobody
    /\ changes = [count |-> 0, unseen |-> TRUE]

-----------------------------------------------------------------------------
(* What the handlers have in common, on workers W and view v. *)

Begin(W, s, call) ==
    IF W[s] = Nobody
    THEN [W EXCEPT ![s] = [stage |-> "running", call |-> call]] ELSE W

\* _load_history: a request made while one is under way is dropped.
LoadHistory(W, v) ==
    IF v.combo = 0 THEN W
    ELSE Begin(W, "history", v.rows[v.combo].id)

\* refresh_devices, the combo box: cleared, filled, and set to the name it had;
\* a box that is filled selects its first entry.
Refilled(v, rows) ==
    LET first == IF rows = << >> THEN 0 ELSE 1
        same == IF v.combo = 0 THEN {}
                ELSE {i \in DOMAIN rows : rows[i].name = v.rows[v.combo].name}
    IN  [v EXCEPT !.rows = rows,
                  !.combo = IF same = {} THEN first ELSE CHOOSE i \in same : TRUE]

\* Bug: the history is loaded only when the combo box has changed.
RefreshOnChange(W, v, rows) ==
    LET w == Refilled(v, rows)
    IN  /\ view' = w
        /\ worker' = IF w.combo = v.combo /\ v.chart # NoChart THEN W
                     ELSE LoadHistory(W, w)
        /\ changes' = [changes EXCEPT !.unseen = FALSE]

Refresh(W, v, rows) ==
    /\ view' = Refilled(v, rows)
    /\ worker' = LoadHistory(W, Refilled(v, rows))
    /\ changes' = [changes EXCEPT !.unseen = FALSE]

CheckDisks(W, v) ==
    IF W["disk"] = Nobody
    THEN [W |-> Begin(W, "disk", Nobody), v |-> [v EXCEPT !.diskButton = FALSE]]
    ELSE [W |-> W, v |-> v]

-----------------------------------------------------------------------------
(* The page is shown and hidden; timer and buttons *)

Usable == view.visible /\ dialog = Nobody

Show ==
    /\ ~ view.visible
    /\ LET disks == CheckDisks(worker, [view EXCEPT !.visible = TRUE, !.ticking = @ \/ view.auto])
       IN  Refresh(disks.W, disks.v, DeviceRows)
    /\ UNCHANGED <<devices, dialog>>

Hide ==
    /\ Usable
    /\ view' = [view EXCEPT !.visible = FALSE, !.ticking = FALSE]
    /\ UNCHANGED <<devices, worker, dialog, changes>>

\* Only showing the page starts the timer, not the box.
ToggleAuto ==
    /\ Usable
    /\ view' = [view EXCEPT !.auto = ~ @]
    /\ UNCHANGED <<devices, worker, dialog, changes>>

CheckNow ==
    /\ StartCall("round", Nobody)
    /\ UNCHANGED <<devices, view, dialog, changes>>

AutoRound == view.ticking /\ view.auto /\ CheckNow
ClickCheck == Usable /\ CheckNow

ClickDisks ==
    /\ Usable /\ view.diskButton /\ Free("disk")
    /\ view' = CheckDisks(worker, view).v
    /\ worker' = CheckDisks(worker, view).W
    /\ UNCHANGED <<devices, dialog, changes>>

\* The combo box of devices is connected to nothing.
SelectDevice(i) ==
    /\ Usable /\ i \in DOMAIN view.rows
    /\ view' = [view EXCEPT !.combo = i]
    /\ UNCHANGED <<devices, worker, dialog, changes>>

\* Another time range; which one is left out.
SelectRange ==
    /\ Usable
    /\ worker' = LoadHistory(worker, view)
    /\ UNCHANGED <<devices, view, dialog, changes>>

-----------------------------------------------------------------------------
(* Signals of the workers *)

RoundDone ==
    /\ SlotStage("round") = "succeeded"
    /\ Refresh([worker EXCEPT !["round"].stage = "told"], view, DeviceRows)
    /\ UNCHANGED <<devices, dialog>>

RoundFailed ==
    /\ OutcomeHandled("round", "failed")
    /\ UNCHANGED <<devices, view, dialog, changes>>

HistoryLoaded ==
    /\ OutcomeHandled("history", "succeeded")
    /\ view' = [view EXCEPT !.chart = worker["history"].call]
    /\ UNCHANGED <<devices, dialog, changes>>

HistoryFailed ==
    /\ OutcomeHandled("history", "failed")
    /\ UNCHANGED <<devices, view, dialog, changes>>

\* Bug: a disk check that fails leaves the button disabled.
DisksCheckedOnly ==
    /\ \E o \in {"succeeded", "failed"} :
         /\ OutcomeHandled("disk", o)
         /\ view' = [view EXCEPT !.diskButton = o = "succeeded"]
    /\ UNCHANGED <<devices, dialog, changes>>

DisksChecked ==
    /\ \E o \in {"succeeded", "failed"} : OutcomeHandled("disk", o)
    /\ view' = [view EXCEPT !.diskButton = TRUE]
    /\ UNCHANGED <<devices, dialog, changes>>

WorkerGone(s) ==
    /\ FinishedHandled(s)
    /\ UNCHANGED <<devices, view, dialog, changes>>

CallReturns(s, outcome) ==
    /\ CallEnds(s, outcome)
    /\ UNCHANGED <<devices, view, dialog, changes>>

-----------------------------------------------------------------------------
(* Dialogs *)

Counted(unseen) ==
    /\ changes.count < MaxChange
    /\ changes' = [count |-> changes.count + 1, unseen |-> unseen]

\* _selected_row: the position of the selected row, in rows read again.
OpenDialog(kind, i) ==
    /\ Usable /\ i \in DOMAIN view.rows
    /\ i \in DOMAIN DeviceRows
    /\ dialog' = [kind |-> kind, row |-> DeviceRows[i]]
    /\ UNCHANGED <<devices, worker, view, changes>>

OpenAdd ==
    /\ Usable
    /\ dialog' = [kind |-> "add", row |-> Nobody]
    /\ UNCHANGED <<devices, worker, view, changes>>

Open(kind) == dialog # Nobody /\ dialog.kind = kind /\ dialog' = Nobody

\* Cancelled, or accepted with values that the service refuses.
CloseDialog ==
    /\ dialog # Nobody /\ dialog' = Nobody
    /\ UNCHANGED <<devices, worker, view, changes>>

Changed ==
    /\ changes.count < MaxChange
    /\ view' = Refilled(view, DeviceRows')
    /\ worker' = LoadHistory(worker, view')
    /\ changes' = [count |-> changes.count + 1, unseen |-> FALSE]

\* The change is committed, but not recorded: what the activity log raises is none of
\* the errors that the slots catch, and the table is not filled again.
Unrecorded == Counted(TRUE) /\ UNCHANGED <<worker, view>>

AcceptAdd(n) == Open("add") /\ InsertRow(n) /\ (Changed \/ Unrecorded)
AcceptEdit(n) == Open("edit") /\ UpdateRow(dialog.row.id, n) /\ (Changed \/ Unrecorded)

\* Bug: the table is not filled again.
ConfirmDeleteOnly ==
    /\ Open("delete")
    /\ DeleteRow(dialog.row.id) /\ Counted(FALSE)
    /\ UNCHANGED <<worker, view>>

\* A device that another process has deleted meanwhile is no error.
ConfirmDelete ==
    /\ Open("delete")
    /\ \/ DeleteRow(dialog.row.id) /\ (Changed \/ Unrecorded)
       \/ dialog.row.id \notin Stored /\ UNCHANGED devices /\ Changed

Elsewhere ==
    /\ \/ \E n \in DeviceName : InsertRow(n)
       \/ \E d \in Stored : DeleteRow(d)
       \/ \E d \in Stored, n \in DeviceName : devices[d] # n /\ UpdateRow(d, n)
    /\ Counted(TRUE)
    /\ UNCHANGED <<worker, view, dialog>>

-----------------------------------------------------------------------------
MonitoringUser ==
    \/ Show \/ Hide \/ ToggleAuto \/ ClickCheck \/ ClickDisks
    \/ \E i \in DOMAIN view.rows : SelectDevice(i) \/ OpenDialog("edit", i) \/ OpenDialog("delete", i)
    \/ SelectRange \/ OpenAdd \/ CloseDialog \/ ConfirmDelete
    \/ \E n \in DeviceName : AcceptAdd(n) \/ AcceptEdit(n)

\* A slot's call and the signals of its worker come one after the other.
RoundStep ==
    \/ \E o \in {"succeeded", "failed"} : CallReturns("round", o)
    \/ RoundDone \/ RoundFailed \/ WorkerGone("round")

HistoryStep ==
    \/ \E o \in {"succeeded", "failed"} : CallReturns("history", o)
    \/ HistoryLoaded \/ HistoryFailed \/ WorkerGone("history")

DiskStep ==
    \/ \E o \in {"succeeded", "failed"} : CallReturns("disk", o)
    \/ DisksChecked \/ WorkerGone("disk")

MonitoringNext ==
    \/ MonitoringUser \/ AutoRound \/ Elsewhere
    \/ RoundStep \/ HistoryStep \/ DiskStep

(* The timer fires, signals are delivered, calls return (pings have timeouts),
   and neither a round nor a load fails every time. *)
MonitoringFair ==
    /\ WF_monitoringVars(AutoRound)
    /\ WF_monitoringVars(RoundStep) /\ SF_monitoringVars(CallReturns("round", "succeeded"))
    /\ WF_monitoringVars(HistoryStep) /\ SF_monitoringVars(CallReturns("history", "succeeded"))
    /\ WF_monitoringVars(DiskStep)

MonitoringSpec == MonitoringInit /\ [][MonitoringNext]_monitoringVars /\ MonitoringFair

-----------------------------------------------------------------------------
(* Properties *)

Row == [id : DeviceId, name : DeviceName]
Stage == {"running", "succeeded", "failed", "told"}

MonitoringTypeOK ==
    /\ DeviceTypeOK /\ DOMAIN worker = Slot
    /\ worker["history"] \in [stage : Stage, call : DeviceId] \union {Nobody}
    /\ view \in [visible : BOOLEAN, auto : BOOLEAN, ticking : BOOLEAN,
                 rows : Seq(Row), combo : Nat,
                 diskButton : BOOLEAN, chart : DeviceId \union {NoChart}]
    /\ dialog \in [kind : {"add", "edit", "delete"}, row : Row \union {Nobody}]
                    \union {Nobody}
    /\ changes \in [count : 0 .. MaxChange, unseen : BOOLEAN]

\* Rows are chosen by position in one list and read by position in another. As
\* long as no other process, and no call that then failed, has changed the devices since
\* the table was filled, the two lists agree, so that a dialog is about the row that was clicked,
\* whatever dialogs, timers and signals did before.
PositionsAgree ==
    /\ view.combo \in 0 .. Len(view.rows)
    /\ ~ changes.unseen => view.rows = DeviceRows

MonitoringInv == MonitoringTypeOK /\ NamesDiffer /\ PositionsAgree

\* A request for a history is dropped while another one is under way, and the
\* choice of a device loads nothing: still, on a page that stays shown with its
\* timer and the box, the chart comes to show the chosen device.
ChartConverges ==
    \A d \in DeviceId :
        <>[](view.ticking /\ view.auto /\ Selected = d) => <>[](view.chart = d)

\* The page never stops checking: with the timer and the box there is always
\* another round, and the button of the disk check is enabled again.
KeepsChecking ==
    /\ <>[](view.ticking /\ view.auto) => []<>(SlotStage("round") = "running")
    /\ []<>view.diskButton

=============================================================================
