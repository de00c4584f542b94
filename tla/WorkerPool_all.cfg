\* Every interleaving, with failing tasks, a crash and a shutdown.
SPECIFICATION FairSpec
CONSTANTS
  Task = {t1, t2, t3}
  PoolSize = 2
  Faults = {"fail", "crash"}
  MaxCrashes = 1
  NoTask = NoTask
INVARIANT OnePlacePerTask
PROPERTY EveryTaskSettles ShutdownEnds
CHECK_DEADLOCK FALSE
