\* The dashboard after Pause and Resume: its poller is never started again.
CONSTANT SnapshotInterval = 3
SPECIFICATION DashboardSpec
PROPERTY PollingResumes
CHECK_DEADLOCK FALSE
