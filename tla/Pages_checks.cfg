\* Two runs of a page with an export; a device, a second one and one change of the
\* table; three pages and two alerts; and the dashboard's poller.
CONSTANTS
    Call <- TwoRuns
    None = None
    Slot = {"round", "history", "disk", "export"}
    Nobody = Nobody
    DeviceId = {1, 2}
    DeviceName = {1, 2}
    NoRow = NoRow
    MaxChange = 1
    ShutdownPages <- Order
    OtherPages = {"system"}
    ChainPages = {"monitoring"}
    Alert = {1, 2}
    MaxVisible = 1
    SnapshotInterval = 3
SPECIFICATION PagesSpec
INVARIANT MonitoringInv
INVARIANT ExportingInv
INVARIANT ShellInv
INVARIANT DashboardInv
PROPERTY ChartConverges
PROPERTY KeepsChecking
PROPERTY EveryCallAnswered
PROPERTY AlertIsShown
PROPERTY SnapshotsRecorded
CHECK_DEADLOCK FALSE
