# ITOps Hub: a TLA+ verification project

ITOps Hub is a desktop application (PySide6) with an optional REST API
(FastAPI) over one SQLite database. It monitors devices, raises alerts, takes
backups, scans networks, analyses logs and records system snapshots. All of it
runs on threads: a scheduler with a pool of four, a pool per monitoring round
and per scan, one worker thread per page action, the API's thread pool. The
threads share the database, one session per operation, and hardly any locks.
That is where this project looks: which promises of the services survive when
their sessions, copies of rows, cancellations, failures and crashes interleave.

Paths below are relative to `src/app/`.

## 1. Inventory

| Component | Code | State it keeps | Operations | What is hard |
|---|---|---|---|---|
| Alerts | `services/alert_service.py`, `AlertRepository` | table `alerts` | raise, resolve, acknowledge | each call is two sessions; several threads raise and resolve the same condition |
| Connectivity monitor | `services/monitor_service.py`, `DeviceRepository`, `MonitoringResultRepository` | tables `devices`, `monitoring_results` | CRUD, `check_device`, `run_round`, status and history views | a check runs on a copy of a row that may be renamed, deleted or replaced meanwhile; late checks |
| Scheduler | `services/scheduler_service.py` | due times, stop event, thread, pool | start, stop, tick | timed join, restart, jobs longer than their interval, exceptions in a tick |
| Backup | `services/backup_service.py`, `domain/cancellation.py` | directories, table `backup_jobs` | `run_backup`, cancel | same-second runs, failures halfway, late cancellation, crash |
| Disk monitoring | `services/disk_service.py` | none (uses alerts) | `evaluate` | readings and levels are old when alerts are maintained |
| Network scan | `services/network_scan_service.py` | last scan (in the API) | `scan` | fan-out over a pool, cancellation, one failing host |
| Settings | `services/settings_service.py`, `config/settings.py`, `ui/views/settings_view.py` | one row, one cache per process, a form | get, update, import, export | two processes, lost updates, forms and tables that are older than the cache |
| Retention, container | `application/container.py`, `services/snapshot_service.py` | tables | `apply_retention`, build, close | prunes while others insert |
| Pages and workers | `ui/views`, `ui/workers` | worker references, enabled buttons, selected rows | signals from worker threads, timers, dialogs | outcomes that arrive for a page that has moved on; rows known by position |
| Main window | `ui/main_window`, `ui/widgets/toast.py`, `domain/events.py` | pages, toasts, subscriptions | publish, toast, close | alerts cross threads; closing waits for threads one by one |
| Log analysis | `services/log_analysis_service.py`, `domain/loganalysis.py` | none | `analyze` | a file that grows between three readings; lines out of order |
| Export, reports | `services/export_service.py`, `report_service.py` | files | export | a free name is chosen, and opened later |
| REST API | `api/app_factory.py` | last scan, container | HTTP handlers | requests overlap between the sessions of a handler |
| System I/O | `infrastructure/system`, `infrastructure/network` | none | ping, ARP, metrics | pure I/O: a nondeterministic input here |

Interaction: the scheduler's loop lists devices and profiles and submits
`check_device`, `run_backup`, snapshot and retention jobs to its pool;
`check_device` stores a result and calls `AlertService`; `DiskService` calls
`AlertService`; pages and API handlers call the same services from threads of
their own; every service publishes on the event bus, which pages receive as
queued Qt signals. All share the tables. What should be true of each:

- *alerts*: at most one open alert per (type, source); resolving closes the
  condition that cleared; alerts are never lost or reopened;
- *monitor*: results belong to an existing device; recoveries follow outages;
  a lasting outage is reported, one that is over is closed; the status shown
  comes to agree with the network;
- *scheduler*: one loop at a time; due jobs run soon and again and again; none
  runs next to itself;
- *backup*: a new directory per run, nobody else's folder touched; a job that
  says VERIFIED says so of a folder that matches its manifest; a cancelled
  backup leaves nothing;
- *disk*: a volume that stays above a threshold has an open alert, one that
  stays below has none;
- *settings*: what is stored validates; no window loses its own update; forms
  and tables show the list they change;
- *scan*, *pages*: no result of an old run shown as the new one, no button
  disabled for ever, dialogs about the row that was clicked;
- *main window*: closing leaves no thread behind; every alert is shown;
- *API*: the answers that clients get are consistent with each other;
- *logs*, *exports*: a summary counts every line of the file, once unless the line
  was being written; no export spoils another one.

The hazards, each at its line, are in `PROJECT.json` with the properties that
cover them.

## 2. Modules

```
AlertInbox            abstract: how many alerts are open per condition
  ^ implements (INSTANCE, PROPERTY ImplementsInbox)
AlertService          raise / resolve / acknowledge as database sessions
  ^ EXTENDS, composes                 AlertServiceProofs
MonitorService        devices, checks, alert maintenance
                                      MonitorServiceProofs
DiskService           evaluations of the volumes, alert maintenance
                                      DiskServiceProofs
AlertsPage            the operator's list of alerts
                                      PageProofs
Sweep                 abstract: what a fan-out over a pool promises
  ^ implements (INSTANCE, PROPERTY ImplementsSweep)
FanOut                scan's and run_round's use of a thread pool
                                      NetworkScanProofs
WorkerPage            a page, its worker thread, Qt's queued signals
  ^ EXTENDS, composes                 (CancelToken is shared with FanOut)
NetworkScan           the network page on top of FanOut
                                      NetworkScanProofs
BackupPage            the backups page
OneShot               slots of workers that a page keeps in attributes
  ^ EXTENDS
ExportingPage         network and logs page with an export, on WorkerPage too
                                      PageProofs
MonitoringPage        three workers, timer, dialogs, on DeviceTable too
                                      StoreProofs
Dashboard             the page and its poller
                                      PageProofs
Shell                 the main window: closing, event bus, toasts
                                      PageProofs
DeviceTable           the devices as their users see them
  ^ EXTENDS                           StoreProofs
RestApi               concurrent requests
                                      StoreProofs
ResultTable           the results of a device in two orders, with retention
                                      StoreProofs
SettingsStore         one document, a cache per window, form and profile table
                                      StoreProofs
ExportFiles           names and files of concurrent exports
                                      StoreProofs
LogAnalysis           a log that is read three times while it grows
                                      StoreProofs
SchedulerService      start, stop, loop, pool       SchedulerServiceProofs
BackupService         run_backup for several runs   BackupServiceProofs
MC*                   instances for TLC: symmetry, small schedules and sizes
```

A definition introduced by the comment "Bug:" is a mutant: the form an action
would take after a plausible mistake. None of them is part of a specification;
they show that the properties tell the mistake from the code.

### AlertInbox and AlertService

`alerts` is the table; a row's position is its primary key (nothing deletes alerts). A
condition is a (type, source) pair. `raise_alert` is `RaiseFind` (find an open row,
decide) and then `RaiseInsert`; `resolve_alerts` is `ResolveFind` and then
`ResolveAcknowledge`; between them the call is kept in `call[w]` and every other thread
may run. `Acknowledge` is the operator's single conditional UPDATE. `CallFails` is a
session that raises: it ends the call of its thread, and what an earlier session
committed stays. `Crash` loses all calls in progress and keeps committed rows. The field
`by` of a row is history: the thread that inserted it.

What the code really promises is weaker than its docstring: the open alerts
of a condition never outnumber the *threads* (`AlertInbox` with
`Limit = Cardinality(Worker)`), because open alerts of a condition come from
different threads (`OpenRaisersDistinct`). With one thread that is the
documented rule (`DedupRule`); with two it is not.

### MonitorService

`devices[d]` and `latest[d]` are the row with id `d` and the newest result stored
under that id. `Submit` is a tick or a round that copies an enabled row into a
pool's queue; `Take`, `Ping`, `Store` and `MaintainAlerts` are `check_device`.
`Store` fails on the foreign key when the id has gone, which ends the check
before any alert is touched. `NewId` is how SQLite chooses ids for an `INTEGER
PRIMARY KEY`: one more than the largest in use, so deleting the last device
frees its id. The field `made` is history that tells such devices apart.
`_maintain_alerts` uses the actions of `AlertService` as they are, so the
composition is checked and proved to implement the inbox too. `CheckFails` is a
session of a check that raises: the check ends where it is, as its round or the
scheduler does not repeat it. `RecoveryIsAnnounced` says that a check which closes the
alert of an outage announces the recovery, whoever closes, renames or deletes what
meanwhile; only its own failure or a crash loses the announcement.

Abstractions: an observation is one of the three states (the latency threshold
is in what `link` says); bus events are left out, and the activity log, in which a
check records nothing, and rounds and the operator's actions after all else; validation
of names and ranges is the type of the inputs. The scheduler's pool and the
pool of a round are one set of threads.

### DiskService and AlertsPage

`DiskService` is `evaluate` in three moments: `ReadDrives`, `Classify` with the
thresholds the settings have then, and `Maintain` for each volume, whose two
sessions are those of `AlertService`. Usage and thresholds change at any time,
and several threads evaluate (two windows on one database, or a page and a
report). `EvaluationFails` ends an evaluation whose session raises, and leaves the
volumes that follow alone. A level of warning and one of critical raise the same condition.

`AlertsPage` is the operator. `records` are the rows on the screen; the timer,
the box and every acknowledgement fill them again, and the selected row is a
position in them. `ClosesWhatIsShown` says that the operator never closes an alert
that took the place of the one that was on the screen.

### ResultTable

The rows of one device. A check takes its timestamp when the ping has returned
(`PingReturns`) and stores the row later (`StoreRow`), so ids and timestamps give two
orders. `Latest` is what `latest_for_devices` finds, `Failures` what
`consecutive_failures` counts, and a page shows both: after overlapping checks
they may contradict each other. `LoneCheckSettles`, a part of `ResultInv`, is what is left:
one check that nothing overlaps puts both right. `PruneBegins` and `PruneDeletes` are the
retention job, with its cutoff computed before the delete.

### SettingsStore

`stored` is the row, `cache[w]` the settings of a window. `update` is `Save` (merge,
validate, write) and `Saved` (replace the cache, record the activity, then the rest of
the handler), or `SavedUnrecorded`: the activity cannot be recorded, and the exception
ends the handler before it fills the form or the table again. The history variable
`behind` says which of the two was left so. Any file that validates may be imported,
also one in which two profiles have one name; `NamedApart` says that the program itself
never gives a name twice. The pages on top are the form (`form`, `edited`,
`FormChanges`), the import of a file and the table of profiles (`table`), whose rows are
positions in the cached list. Thresholds are in tenths of a percent, because the form
cuts off what is behind the decimal point. That one window overwrites what another has
stored is allowed by the properties, as by the code; that it loses its own update, or
stores a document that does not validate, is not.

### DeviceTable and RestApi

`DeviceTable` has the sessions of `DeviceRepository` with the ids SQLite chooses.
`RestApi` has the handlers that change devices, alerts and the last scan, each as
the sessions it is made of, for any number of requests at a time. A delete is two
look-ups (`DeleteLooks`), the committed DELETE (`DeleteDevice`), and the record of the
activity with the answer (`AnswerRecorded`). `RequestFails` is a session that raises,
at any of these places: the answer is a 500, and what was committed stays.
`AnswersInv` relates the answers to each other and to the table: an id that was
answered as created once more than requests have deleted it is there; a request that
has deleted (`deleted`, history) is answered 200 or 500, one answered 200 has deleted,
one answered 404 has not. `ResultsInv` says that
who has seen a scan answered gets that one or a later one; the order in which scans
were kept is the history variable `assigned`.

### SchedulerService

Time is discrete and relative. `rem[j]` counts down to job `j`'s due time; a
tick has an `age`, the time since it read the clock, because `tick_once` reads
`monotonic()` once and compares and sets all due times with that reading.
`Order` is the order in which a tick visits the jobs. `joining` is the time
left to a `stop()` in its join; `StopReturns` drops the thread whether or not it
ended, as the code does. `TimePasses` may not overtake what the program does
at once, and lets a tick grow as old as `MaxTick`. `late` is history: how long a
job has been due while the loop could have served it.

The application constructs a scheduler but at this commit does not call
`start()`; the model is of the service and its contract, as the tests use it.

### BackupService

`disk[d]` is the folder in directory `d` (a stamp and a counter), with the
copied files and the manifest. The steps of `run_backup` are the stages of
`run[r]`: choose a name (`Begin`), `MakeDir`, `AddJob`, `ListSource`, `CopyFile` for
each file, `WriteManifest`, `Verify`, `Conclude`; or `StopCopying` and
`RemovePartial` on cancellation, `FileSystemFails` and `SaveFailure` on an
`OSError`, `Escape` on an exception of any other kind. Meanwhile `SourceChanges`,
`Cancel`, `CopyAltered` and `Crash`. A content has a size, and two contents may
have the same, so that verification by size and by hash differ. `manifest.json`
may be one of the source's own files. Folders may be there from the start.

Abstractions: `_verify` is one step (an alteration falls before or after it),
as is the copy of one file; the layout check and the empty source are inputs.
`Crash` is of the whole process.

### Sweep and FanOut

`scan` and `run_round` use a thread pool in the same way, and `FanOut` is that way:
`BeginFan` submits a check per item, `StartCheck` and `FinishCheck` are the
pool's, `Collect` is one turn of the loop over `as_completed` (a result is
appended, the token stops the loop, or `future.result()` raises), `ShutdownPool`
and `ReturnFan` are `shutdown(wait=True, cancel_futures=True)` and what follows.
`Call` may have any number of calls in progress, each with a pool of its own. What
they promise their callers is `Sweep`: an answer lists items that were checked,
all of them unless the caller cancelled; it fails only if a check raised; and
when it is given, no check of the call goes on. A token that fires after the
last result makes a complete result a cancelled one, which `Sweep` allows; lines
163-164 of the service, for a scan cancelled by something else, are never
reached (`CancelledByToken`).

Abstractions: what a check observes; the order of the pool's queue and of
`as_completed` is any order, as the results are sorted afterwards; progress.

### WorkerPage, NetworkScan and BackupPage

A page starts a `QThread` worker, keeps a reference to it and changes its buttons
when the worker's signals arrive. Signals are emitted by the worker's thread and
delivered later by the event loop, in order: `signals` is that queue. The worker
emits its outcome and ends; Qt then emits `finished`. So there are two moments:
the outcome enables the run button, and only `finished` makes the page forget the
worker. A click in between does nothing, which is what keeps the slot of
`finished` right: it forgets whatever worker the page holds when it runs.
`RunPhase` lists the phases of a run, and is the inductive invariant.

`NetworkScan` puts `scan` on the thread: refused (`ValueError`), cancelled before it
starts, fanned out, raised by a check. `result` is the scan in the page's table
and the one it keeps for exports. `Close` is the main window's: a running worker
is cancelled and waited for, for up to 15 seconds, while nothing is delivered.

`BackupPage` is the same page with `BackupWorker`, whose `run()` raises before it
calls the service.

### OneShot, ExportingPage and MonitoringPage

`OneShot` is a worker in an attribute of its page, a *slot*: running, its outcome
emitted, its outcome handled, gone. `ExportingPage` is the network and the logs
page (`which`) with the worker of `WorkerPage` and a slot for exports; the first
reads the result in the exporting thread, the second with the click. `RunDies` is what
an error of the database does to an analysis, whose worker does not catch it: no
outcome is emitted, and the button stays off (`died`, history). `ButtonAgrees`, a part of
`ExportingInv`, and `EveryCallAnswered` say that nothing else leaves it off.

`MonitoringPage` has three slots. `view` is what is on the screen; a refresh
(`Refresh`) fills the table and the combo box again and asks for a history, which is
dropped while another one is loaded. `dialog` holds the copy of a row that a dialog
was opened with; timers and signals go on meanwhile. `Elsewhere` is another process
on the same database. `Unrecorded` is a change by a dialog that is committed and whose
activity cannot be recorded: the table is not filled again. `changes.unseen` says that
one of the two came in between.

### Shell and Dashboard

`Shell` is the main window seen from its threads. `CloseWindow`, `ShutdownPage` and
`Closed` are `closeEvent`, in which each page's thread is waited for and no signal is
handled; `Quit` is the end of `exec()`, after the signals that were queued. An alert
is published over a copied list of subscribers, emitted by the publishing thread
and shown as a toast by the event loop. `Dashboard` is the page with its poller:
`poller.stop` is the event that `stop()` sets and nothing clears. `SnapshotFails` is a
snapshot that the database does not take, which the next poll tries again.

### ExportFiles and LogAnalysis

An export looks for a free name (`NextCandidate`, `TakeName`), opens the file later
(`OpenFile`), writes, and records it, or raises although the file is written
(`RecordFails`). `files` says whose rows a file holds.

`LogAnalysis` reads a file that grows, by parts of lines (`WritePart`) and by their
ends (`EndLine`). `SampleLine` and `Detect` choose the parser, `ReadLine` and
`EndOfFile` are the loop with its buffer and the places where the token is looked
at, `TimestampStats` reads everything again; `AnalysisFails` ends it at any time. A line
is a record of what parsers can tell apart: its format, level and time, where a
timestamp may be in the form of one and name no date (`Undated`). What a reading gets
next is `Readable`: a line that has ended; or what there is of the last one, which
counts as a line; or the rest of a line that was read in part, which counts as another
one and may look like any line. `Sorted` lists the timestamps in the order of time.
`Bursts` and `Gaps` are `_detect_anomalies`; the means are compared by multiplication.

Abstractions: what the rest of a line looks like does not depend on what was read of
it; a file that is truncated or replaced by another one while it is read is not
modelled; chunks are counted in lines.

## 3. Runs

Several components share a run where none of their state is shared.
`MCServices`, `MCSafety` and `MCPages` declare the variables of all their
components and a variable `subject`, chosen in the initial state and never changed,
that says which of them moves; the others keep their initial values, so that the
states of the run are the sum of the components' states. Each component's
properties are then those of its own specification. Actions of a component that
is not the subject are disabled, so the fairness of all can be assumed together.

A name ending in `Inv` is the conjunction of a component's type invariant and of its
named parts; each is proved inductive, or proved from a stronger invariant, in section 5.

Deadlock is checked except where the environment has a bounded number of events
(the monitor, the disks, the components of `MCSafety`): when they are used up,
nothing remains to be done; and in the runs of pages, whose windows close.

| Run | Bounds | Shows |
|---|---|---|
| `MonitorService_checks` (141,000 states) | 2 threads; 1 id, 2 names, 3 events | `AlertInv`, `MonitorInv`, `RecoveryIsAnnounced`, `AlertsOnlyClose`, `ImplementsInbox`, `StatusConverges`, `OutageClears`, `OutageReported` |
| `AlertService_dedup` | 2 threads, 1 condition, 2 rows | `DedupRule` is violated |
| `MonitorService_rename` | 1 thread, 2 names | `EveryOutageClears` is violated |
| `Services_checks` (133,000), scan | 2 scans, 2 hosts, 1 pool thread | `ScanInv`, `ImplementsSweep`, `EveryScanAnswered` |
| disks | 2 threads, 1 volume, 3 events | `DiskInv`, `DiskClears`, `DiskReported` |
| `Safety_checks` (2,633,000), scheduler | 3 jobs, 2 loop threads | `SchedulerInv`, `PromptlySubmitted` |
| settings | 2 windows, 2 updates | `SettingsInv`, `LastWriterAgrees`, `PagesCurrent` |
| alerts page | 2 threads, 3 rows of which 2 are listed | `ClosesWhatIsShown` |
| results | 2 threads, 3 results, 3 days | `ResultInv`, `PruneKeepsRecent` |
| API | 3 requests, 2 ids, 2 names, 1 alert | `AnswersInv`, `ResultsInv` |
| exports | 3 exports, 2 stems, 2 seconds | `ExportFilesInv` |
| logs | 3 lines, chunks and samples of 2, lines in two parts | `EachLineIsCounted`, `AnomaliesAreReal` |
| `SchedulerService_liveness` | 2 jobs, 2 loop threads, join no longer than a tick | `EveryJobRuns`, `StopEndsEveryLoop` |
| `SchedulerService_overlap` | 2 pool threads | `NoSelfOverlap` is violated |
| `BackupPage_run` | 2 runs of the page | `EveryBackupAnswered` is violated |
| `BackupService_runs` | 2 runs, 1 second, 1 alteration or change | `BackupInv`, `OthersUntouched` |
| `BackupService_manifest` | 1 run of a source that has a `manifest.json` | `CopiesKept` is violated |
| `Pages_checks` (88,000), exporting | 2 runs of either page | `ExportingInv`, `EveryCallAnswered` |
| monitoring | 2 ids, 2 names, 1 change | `MonitoringInv`, `ChartConverges`, `KeepsChecking` |
| main window | 3 pages, 2 alerts, 1 toast | `ShellInv`, `AlertIsShown` |
| dashboard | a snapshot every 3 polls | `DashboardInv`, `SnapshotsRecorded` |
| `Dashboard_pause` | the same | `PollingResumes` is violated |

Why the bounds are enough. Every invariant and action property above is proved for all
values of the constants, so that for safety the runs only have to be large enough to
find what is wrong before a proof is tried. For liveness they have to hold the
interesting cases, and each property has a mutant that TLC finds within them. *Alerts*:
a duplicate needs two threads between find and insert. *Monitor*: three events are
enough to add a device, change its link, and rename or delete it, or to delete it and
add another one under its id, with two checks in flight; a check that fails and a crash
are events, too. `MaxAlerts` is 8, as liveness must not profit from a row that found no
room. *Disk*: three events move usage and thresholds across each other, in between of
two evaluations of one volume; what an evaluation does to one volume does not depend on
the others. *Scheduler*: a device with an interval shorter than a tick period, a
snapshot longer, a profile longer still, a tick that takes time and a restart;
`Patience`, the bound of `PromptlySubmitted`, is the least for which it holds. In the
liveness run both jobs stay enabled: what is disabled need not run. *Backup*: both runs
begin before there is a row of either (`MaxJob` is 1 and counts when a run begins), as
they must to compete for the names `stamp` and `stamp-1`, which is the only way two runs
meet; a run after a crash meets folders that are there already, as they may be in the
initial state. *Scan*: with two hosts that share a pool thread one check is collected or
runs and one waits when a cancellation arrives; a second scan is what a lost worker or a
stale result needs. *Settings*: a lost update takes two windows and one update each; one
of the files to import has two profiles of one name. *Results*: two overlapping checks
and a lone one, before and after a prune. *API*: create, delete and create again under
one id. *Exports*: two that meet and one that comes later. *Logs*: one full chunk and a
rest, in a file that grows by lines and by one part of each (`MaxPart` is 1: a line that
is read in three pieces or more is left to the proof). *Pages*: one outcome that is
queued while the next request is made; one device in the table, and one change that
inserts a second before it, renames it or deletes it; two alerts, of which the second
takes the place of the first.

### Fairness

Safety is stated of specifications without fairness. The liveness runs assume

- weak fairness of each pool thread's next step: threads run, a ping and a
  file operation return (pings have a timeout);
- strong fairness of `Submit(d)` in the monitor: the auto-check timer and the
  scheduler go on submitting every enabled device. It is strong only because
  the model bounds the queue (`MaxQueue`), which the program does not;
- weak fairness of time, of the scheduler's loop, of the pool and of the end of
  jobs; strong fairness of `List`: the database does not fail at every tick
  for ever, although it may at any one;
- weak fairness of a page's event loop, its worker threads and the checks of a
  scan: a ping has a timeout and signals are delivered while the window is open;
- weak fairness of an evaluation of the disks that has begun; that evaluations go
  on to be made is a premise of `DiskClears` and `DiskReported`, as no timer makes
  them;
- weak fairness of the auto-check timer, and strong fairness of the success of
  rounds, of history loads, of the poller's collecting and of the recording of
  snapshots: the database and psutil do not fail every time, although they may at any
  one;
- none of the operator, the network, failures, cancellation or crashes.

## 4. Disagreements between the code and its documents

The runs that expect a violation each show one; `PROJECT.json` quotes the line.

1. Two threads that raise one condition both insert an alert
   (`alert_service.py:40`; the docstring says at most one).
2. A device renamed or deleted during an outage leaves an alert that nothing
   resolves (`monitor_service.py:165`; the change log says auto-resolve).
3. A job longer than its interval runs next to itself (`scheduler_service.py:96`;
   the docstring says never).
4. The poller of the dashboard is never started again after it was stopped once:
   the event that ends its loop stays set (`ui/workers/metrics_poller.py:30`). After
   Pause and Resume, or after another page was shown, nothing is collected and no
   snapshot is recorded (the change log lists pause/resume).
5. The worker of the backups page reads `self._verify_mode`, its constructor
   sets `self._verify` (`ui/views/backup_view.py:58`): no backup can be run from
   the page, and its run button stays disabled (the user guide says *Run backup*).
6. The manifest overwrites the copy of a source file `manifest.json`
   (`backup_service.py:198`): SUCCESS without verification, and a failure with it.

Seen while reading and modelling, without a run.

*Backups.* A cancel after the last file gives a CANCELLED job with a complete
backup left (`backup_service.py:104`;
`tests/integration/test_backup_scheduler.py:93` says "partial backup must be
removed on cancel", `docs/user-guide.md:79` "removes only the partial copy"); the
page shows such a run as completed (`backup_view.py:287`). A folder whose name is
longer than a profile's may be makes `_on_add_profile` raise.

*Devices and results.* A check in flight stores its result under a reused device id
(`monitor_service.py:120`), so that the history of a new device may begin with a result
of a deleted one (`docs/api.md:51`). Renaming a device to a name that is taken, or
creating two of one name at a time over the API, ends in an `IntegrityError` (a 500).
Two concurrent `DELETE`s of a device may both be answered as having deleted it; one
whose activity cannot be recorded is answered 500 and has. A history is cut to the
oldest 5000 rows of its range, not the newest (`repositories.py:350-360`).

*Scheduler.* `CHANGELOG.md:90` says the scheduler is started and stopped with the
application, which never calls `start()`; `docs/user-guide.md:50` says it
checks each device on its own interval, but intervals below the 30 second tick
are rounded up to it; `docs/data-model.md:74` speaks of keeping audit logs 90
days, but retention prunes snapshots and monitoring results only. `docs/api.md:8`
speaks of the embedded API, and nothing calls `start_embedded_api`.

*Alerts.* The severity of a disk alert stays a warning when usage becomes critical
while it is open (`alert_service.py:40`).

*Exports.* `export_service.py:4-5` and line 149 say that previous files are never
overwritten; two exports of one stem in one second may take the same name. Without
the alternative that `ExportsKeepApart` has for that case TLC finds it violated. The
comment at `network_view.py:226-227` says not to show stale data as current;
after a scan that failed or was cancelled the export buttons still export the
previous one. A failed export of the logs page sets a label that is not visible
(`logs_view.py:279-281`). An analysis ended by an error of the database leaves the analyze
button of that page disabled, as its worker catches only errors of files and values
(`logs_view.py:51-56`). An export whose activity cannot be recorded fails, and its file
is there. The API's list of reports takes 50 rows before it filters.

*Pages.* Choosing a device in the monitoring page loads nothing until the next
refresh (`docs/user-guide.md:51`), and checking *Auto check* on the page does not start its
timer (line 49); another process that changes devices makes a dialog open for
another row than the one that was clicked. The settings form cuts thresholds to
whole percents and stores them with any save. An imported file that is not an
object ends in an `AttributeError`. The theme chosen with the button in the window is
not stored. `SystemView.shutdown` says it is called when the window closes, and
`closeEvent` does not call it; a round that ends during the closing starts the
loading of a history after its page was shut down, which is the exception in
`CloseWaitsForThreads`.

*Logs.* A line that is being written when a reading comes to it is counted as it is, and
its rest as another line. The token is not looked at when the last chunk was full, nor while
timestamps are read; errors without a time raise the mean of the minutes; a burst in
the only minute with errors is never reported, as it is its own mean.

## 5. Proofs

All theorems are proved for every value of the constants that satisfies the
named assumptions, which TLC evaluates in the runs.

| Theorem | States |
|---|---|
| `AlertInvariant` | `AlertSpec => []AlertInv` |
| `AlertsOnlyCloseAlways` | `AlertSpec => AlertsOnlyClose` |
| `AlertServiceImplementsInbox` | `AlertSpec => ImplementsInbox` |
| `SingleThreadDedup` | with one thread, `AlertSpec => []DedupRule` |
| `MonitorInvariant` | `MonitorSpec => []MonitorInv` |
| `MonitorImplementsAlertService`, `MonitorImplementsInbox` | the composition implements both specifications |
| `RecoveriesAreAnnounced` | `MonitorSpec => RecoveryIsAnnounced` |
| `DiskInvariant` | `DiskSpec => []DiskInv` |
| `DiskImplementsAlertService`, `DiskImplementsInbox` | disk monitoring implements both specifications |
| `SchedulerInvariant` | if `MaxTick < JoinTimeout`, `SchedulerSpec => []SchedulerInv` |
| `SchedulerSubmitsPromptly` | under the same condition, `SchedulerSpec => []PromptlySubmitted` |
| `FanOutInvariant`, `FanOutImplementsSweep` | `FanSpec => []FanInv`, `FanSpec => ImplementsSweep` |
| `NetworkScanInvariant`, `NetworkScanImplementsSweep` | `ScanSpec => []ScanInv`, `ScanSpec => ImplementsSweep` |
| `BackupInvariant` | `BackupSpec => []BackupInv` |
| `OthersUntouchedAlways` | `BackupSpec => OthersUntouched` |
| `DashboardInvariant`, `ShellInvariant`, `ExportingInvariant` | `DashboardSpec => []DashboardInv`, `ShellSpec => []ShellInv`, `ExportingSpec => []ExportingInv` |
| `AlertsPageClosesWhatIsShown` | `AlertsPageSpec => ClosesWhatIsShown` |
| `MonitoringInvariant` | `MonitoringSpec => []MonitoringInv` |
| `AnswersInvariant`, `ResultsInvariant` | `ApiSpec => []AnswersInv`, `ApiSpec => []ResultsInv` |
| `ResultInvariant`, `PruningInvariant` | `ResultSpec => []ResultInv`, `ResultSpec => []PruneKeepsRecent` |
| `SettingsInvariant`, `LastWriterInvariant`, `PagesInvariant` | `SettingsSpec => []SettingsInv`, `[]LastWriterAgrees`, `[]PagesCurrent` |
| `ExportFilesInvariant` | `ExportFilesSpec => []ExportFilesInv` |
| `LogCountsInvariant`, `LogAnomaliesInvariant` | `LogSpec => []EachLineIsCounted`, `[]AnomaliesAreReal` |

These are all the invariants and action properties that a passing run checks, and both
refinements.

*Alerts.* That open alerts of a condition have different raisers is not
inductive: a step of `RaiseInsert` needs to know that the inserting thread has
none open, so the invariant carries `InsertIsOwnFirst`, which holds because a
thread is in one call at a time and nothing reopens a row. The bound of the
inbox is then a counting argument: a map from the open rows of a condition to
their raisers is injective, so they are no more than the threads.

*Monitor.* `RecoveredAfterOutage`, a part of `MonitorInv`, needs to know why a thread is
about to raise a recovery: `RecoveryHasOutage` says that the outage was closed, and
`CallMatchesCheck` that the call a thread is in belongs to its check.
`RecoveryIsAnnounced`, the converse, is about steps: a check leaves the stages between the
closing and the announcement only with a recovery that is open, or by failing. The steps
of the alert calls are steps of `AlertService`, so its invariant is used and not
proved again.

*Disk.* `CallMatchesLevel` says that a thread resolves a volume only for a level of
*ok* that its evaluation saw and raises one only for another level, although the level
may be old; and that the call is of the volume the evaluation is at. That follows
from the order of the sessions alone. The rest is `AlertService`'s invariant and
refinement, used through `DiskStepIsAlertStep`.

*Scheduler.* `LoopOwned` depends on time: `stop()` may drop the thread only when
it is dead, or when the time of the join is up. `JoinOutlastsTick` carries the
argument: while `stop()` waits the event is set, so the loop leaves at the end of
its tick; a tick in progress is at least as old as the wait is long; it ends
before the wait does if `MaxTick < JoinTimeout`. Without that assumption the
invariant is false, and `SchedulerService_liveness` checks what is left:
a last stop ends every loop.

That a due job is submitted within `Patience` needs a bound on its wait in every stage
of the loop, which is `WaitBounded`: while the loop sleeps, a tick and the part of the
period that is over; in a tick, a period and a tick and the age of this one. Jobs
that the tick has passed over are the subtle ones: the tick compares with the clock it
read when it began, so they became due, or were enabled, after that, and have waited no
longer than the tick is old. `OnTime` adds that a job that has waited is due by as much.

*Backup.* `OneWriter` holds because `mkdir` is atomic and fails on an existing
directory, and because only its holder removes one. `OwnJob` keeps every run on
its own row. `WrittenManifest` carries what verification established to the
moment the job is saved, and `VerifiedHolds` is then stable because nobody comes
to hold the directory of a concluded job: it exists.

*Fan-out.* `FanInv` is a statement about each call on its own, so a step of one
call needs an argument for that call only. It says that a loop that ended by
itself has all results (`CompleteOrStopped`), that the flags are what their names
say, and that nothing is left in the pool (`PoolEmptied`); returning is then one of
the three answers of `Sweep`.

*Network page.* That the page never loses a worker (`OneWorker`) needs to know what
is in the queue and what the run button says, in every phase of a run: that is
`RunPhase`. Its two gaps, between the outcome and its delivery and between the
outcome and `finished`, are the cases of the proof. `ShownIsSettled` follows from
`FanInv` when the outcome is delivered and is kept because a call that has
returned never changes.

*Dashboard, main window, exporting pages.* `DashboardInv` is inductive as it is: a page
that stopped its poller waits for it, or has waited as long as it does.
`ShellInv` falls into two parts that share no variable, the closing (`PageFlowInv`) and
the alerts (`AlertFlowInv`). For the alerts the argument is about the sequence of
those shown, those on the screen and those in the bridge's queue: each step moves a
head or drops one, so an alert that is in it once stays in it once (`HeadMoves`).
`ExportingInv` needs both workers of a page at once: what an export was asked for
(`asked`), what it has read (`read`), and that what the page keeps is the result of a
run that succeeded, no older than what was asked for or read. `ButtonAgrees` follows the
outcome of a run from the thread through the queue to the button; a run that died has
none, and the page starts no other, so that it is the last.

*Alerts page.* `ListingOK` says that a row on the screen is an alert of the table that
has the flag it shows or was closed since. It is kept because alerts only close, which
`AlertServiceProofs` has proved; that the list is a list of alerts at all is the lemma
about the page's query, newest first and cut at the limit (`ListedAreRows`).

*Monitoring page.* Rows are positions in a list that is sorted by name. That the
position of a device and the device at a position are inverse (`PlacesNumberDevices`,
`RowsListDevices`) is a counting argument: the names are unique, so that the places
number the devices. `PageFlowOK` then says that the rows of the view are those of the
table unless another process changed it since.

*API.* `AnswersCore` counts: for each id, the requests that have created it are no more
than those that have deleted it, and one if the device is there, whatever they were told
since (`Creators`, `Deleters`). A handler that inserts adds to the left and stores; one
that deletes adds to the right; one that fails adds to neither. An id that is given
again is free when it is given (`FreshIdIsFree`). For `ResultsInv`, `ResultsCore` says
that each scan is kept once, that the one served is the last one kept, and that what a
request saw when it began had been kept by then.

*Results.* That a lone check settles what is shown is not inductive: `ResultInv` adds that
ids differ, and that a check that nothing overlapped has the newest time when it is
about to store its row (`LoneCheckIsNewest`) and both the largest id and the newest
time when it has stored it (`LastIsNewest`), until all results are pruned.

*Settings.* `WindowOK` is what holds of one window whatever the others do, and
`OthersKeepOK` is the argument why: a step of one window changes nothing of another
except what is stored, and then it is the last writer itself. That the program gives no
name twice is the pigeonhole argument for the number that is added to a name
(`FreshNameIsFree`): as long as there are fewer profiles than numbers, one is free, also
in a list that was imported with a name given twice.

*Exports.* `FilesCore` says of an export that has opened its file that the file is as it
left it, or that another export took the same name; names are compared with the files
that were whole when the export began (`before`).

*Logs.* `LogCore` says that the counts are those of the pieces read before those in the
buffer, which are the last (`CountedSoFar`), and that each line up to where the reading
is was read once, whole, or in parts (`LinesTaken`); a later one, only in parts. That a
chunk adds what it holds is `CountsAdd`, about disjoint parts of an interval; that the
levels add up to the total is that every piece has one. The second reading meets every
line that was read whole, as lines that have ended stay as they are (`StampedTo`). For
the gaps, `SortedPlace` numbers the timestamps (`PlacesNumberStamps`), so that the
sorted list has all of them in order (`SortedIsInOrder`), and a pair of neighbours in it
is a gap of the set and conversely (`GapsAreReal`). That not every minute is a burst is
shown for the minute with the fewest errors: errors of different minutes are different
lines (`PartsFit`), so it has no more than the mean.

Assumptions. They are the named ASSUMEs of the modules: finite sets of threads,
devices, requests and calls; marks such as `Absent` that are not among the values;
bounds that are numbers; rows of a type. Three say something of the program:
`MaxTick < JoinTimeout` (a premise of two theorems, not an ASSUME), warning
thresholds that are not above critical ones (`DiskAssumption`, which validation
ensures), and at least one item to check (`FanAssumption`: a network has a host, and a
round of no devices returns at once).

Only model-checked: all liveness (fairness and ENABLED are out of the prover's
reach) and everything that expects a violation. The counts of sets and lists that the
theorems are about are cardinalities; folds and recursion, whose results for every
input need an induction the prover cannot do, are used in no definition that a
theorem depends on.

## 6. Limits and plan

Not modelled, with the reason in `PROJECT.json`: the contents of the activity log
(append-only, and nothing modelled reads it), the sources of metrics and pings (their
answers are inputs), migrations, datasets and formats of reports, the patterns of log
parsers, widgets and themes, authentication and the parsing of requests.

A session that raises is modelled where something was committed before it or waits for
it: in the calls of alerts, checks and evaluations, the scheduler's listing, backups,
requests of the API, updates of settings, changes of devices, snapshots, and the workers
of pages. The activity log is such a session: `ActivityLogService.record` lets the
errors of the database through, after what it records is committed, and the actions
named `...Fails`, `...Unrecorded`, `ScanRaises`, `RunDies` and `Escape` include it. Not
modelled is that a page fails to read what it shows: it goes on showing what it did.

One database session is one atomic step, except where a read and the write that
depends on it are apart in the code. SQLite begins no transaction at a SELECT, so
that is right for sessions of one statement; a session that selects and then
writes is modelled as two steps where something may come in between (the deletion
of a device). The very first `save_raw` of two processes at once may also raise an
`IntegrityError`, which is left out. The files that are read and written do not
disappear. Events on the bus other than alerts have no effect that is modelled;
nothing subscribes to the change of settings.

Next, in this order:

1. Fewer premises: what `SchedulerInv` keeps when a tick outlasts the join.
2. Lemmas that several proofs repeat (heads of queues, finite intervals, the least
   number of a set) in a form that all of them cite.
3. What the liveness properties rest on: that the steps which fairness is assumed of
   are enabled as long as they are needed cannot be stated with ENABLED here; their
   guards can, as invariants.
