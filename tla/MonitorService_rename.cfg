\* One thread, two names: a device renamed while its offline alert is open.
CONSTANTS
    Worker = {w1}
    Key <- DeviceKeys
    MaxAlerts = 8
    Name = {n1, n2}
    Host = {h1}
    NoRow = NoRow
    MaxDevice = 1
    MaxQueue = 1
    MaxEvent = 4
SPECIFICATION MonitorFairSpec
PROPERTY EveryOutageClears
CHECK_DEADLOCK FALSE
