\* Two scans, two hosts that share a pool thread; two threads that evaluate one
\* volume, with three environment events.
CONSTANTS
    Call <- TwoScans
    Item = {h1, h2}
    PoolSize = 1
    None = None
    Worker = {w1, w2}
    Key = {"c"}
    MaxAlerts = 8
    Drive = {"c"}
    Percent <- UsageCases
    Limits <- LimitCases
    MaxDiskEvent = 3
SPECIFICATION ServicesSpec
INVARIANT ScanInv
INVARIANT DiskInv
PROPERTY ImplementsSweep
PROPERTY EveryScanAnswered
PROPERTY DiskClears
PROPERTY DiskReported
CHECK_DEADLOCK FALSE
