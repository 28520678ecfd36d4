SPECIFICATION Spec
CONSTANTS
    Threads = {t1, t2}
    Task = {k1, k2}
    Delay = {1, 2}
    MaxTime = 3
INVARIANTS NeverEarly
CHECK_DEADLOCK FALSE
