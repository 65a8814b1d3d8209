\* Three jobs, restarts, and ticks shorter than the wait for them; two windows and
\* two updates; two threads, one condition, two rows listed; two checks and three
\* results; three requests; three exports; a log of three lines, each written to at most once before
\* it ends.
CONSTANTS
    device = device
    snapshot = snapshot
    profile = profile
    l1 = l1
    l2 = l2
    NoLoop = NoLoop
    Loop = {l1, l2}
    Order <- Schedule
    Listed = {device, profile}
    Interval <- Intervals
    TickPeriod = 2
    JoinTimeout = 2
    MaxTick = 1
    PoolSize = 1
    MaxQueue = 0
    Window = {w1, w2}
    Nothing = Nothing
    Corrupt = Corrupt
    Field <- Edits
    Document <- Files
    BaseName = {"a"}
    MaxUpdate = 2
    Worker = {t1, t2}
    Key = {k1}
    MaxAlerts = 3
    ListLimit = 2
    Checker = {c1, c2}
    Retention = 1
    MaxTime = 2
    MaxResult = 3
    DeviceId = {1, 2}
    DeviceName = {1, 2}
    NoRow = NoRow
    Request = {r1, r2, r3}
    AlertId = {a1}
    Absent = Absent
    Export = {e1, e2, e3}
    Stem = {"alerts", "disk-usage"}
    Unnamed = Unnamed
    MaxSecond = 1
    LogLine <- Lines
    ChunkLines = 2
    SampleLines = 2
    LongGap = 1
    ManyErrors = 2
    BurstErrors = 1
    BurstExcess = 1
    MaxLine = 3
    MaxPart = 1
SPECIFICATION SafetySpec
INVARIANT SchedulerInv
INVARIANT PromptlySubmitted
INVARIANT SettingsInv
INVARIANT LastWriterAgrees
INVARIANT PagesCurrent
INVARIANT ResultInv
INVARIANT PruneKeepsRecent
INVARIANT AnswersInv
INVARIANT ResultsInv
INVARIANT ExportFilesInv
INVARIANT EachLineIsCounted
INVARIANT AnomaliesAreReal
PROPERTY ClosesWhatIsShown
CHECK_DEADLOCK FALSE
