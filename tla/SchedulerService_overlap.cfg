\* Two jobs, one longer than its interval, two pool threads.
SPECIFICATION SchedulerSpec
CONSTANTS
  device = device
  snapshot = snapshot
  profile = profile
  l1 = l1
  l2 = l2
  NoLoop = NoLoop
  Loop = {l1}
  Order <- TwoJobs
  Listed = {device, profile}
  Interval <- TwoIntervals
  TickPeriod = 2
  JoinTimeout = 2
  MaxTick = 1
  PoolSize = 2
  MaxQueue = 1
INVARIANT NoSelfOverlap
