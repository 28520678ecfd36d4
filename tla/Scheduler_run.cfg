SPECIFICATION Spec
CONSTANTS
    Threads = {t1, t2}
    Task = {k1, k2}
    Delay = {0, 1, 2}
    MaxTime = 2
INVARIANTS TakenOnce DrainComplete
PROPERTIES StopAbandons EveryTaskRuns StopReturns
CHECK_DEADLOCK FALSE
