\* Two threads, one condition: the dedup rule of the documentation.
CONSTANTS
    Worker = {w1, w2}
    Key = {k1}
    MaxAlerts = 2
SPECIFICATION AlertSpec
INVARIANT DedupRule
