\* A job with two attempts on two worker processes that may each run two of its
\* executions at a time, with every fault.
SPECIFICATION FairSpec
CONSTANTS
  Job = {j1}
  WorkerProc = {w1, w2}
  Concurrency = 2
  MaxAttempts = 2
  Faults = {"throw", "timeout", "stall", "crash", "redis"}
  MaxCrashes = 1
  NoWorker = NoWorker
INVARIANT KeysAgree
PROPERTY SettledIsFinal EveryJobSettles
CHECK_DEADLOCK FALSE
