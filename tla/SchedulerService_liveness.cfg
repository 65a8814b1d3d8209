\* Two jobs that stay enabled, restarts, and ticks as long as the wait for them.
SPECIFICATION SchedulerFairSpec
CONSTANTS
  device = device
  snapshot = snapshot
  profile = profile
  l1 = l1
  l2 = l2
  NoLoop = NoLoop
  Loop = {l1, l2}
  Order <- TwoJobs
  Listed = {}
  Interval <- TwoIntervals
  TickPeriod = 2
  JoinTimeout = 1
  MaxTick = 1
  PoolSize = 1
  MaxQueue = 0
PROPERTY EveryJobRuns
PROPERTY StopEndsEveryLoop
