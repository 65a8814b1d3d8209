\* Two threads; a device id that is reused, two names, three environment events.
CONSTANTS
    Worker = {w1, w2}
    Key <- DeviceKeys
    MaxAlerts = 8
    Name = {n1, n2}
    Host = {h1}
    NoRow = NoRow
    MaxDevice = 1
    MaxQueue = 1
    MaxEvent = 3
SPECIFICATION MonitorFairSpec
INVARIANT AlertInv
INVARIANT MonitorInv
PROPERTY AlertsOnlyClose
PROPERTY RecoveryIsAnnounced
PROPERTY ImplementsInbox
PROPERTY StatusConverges
PROPERTY OutageClears
PROPERTY OutageReported
CHECK_DEADLOCK FALSE
