\* Two threads, two reasons, a handler that warns again, with no limit and two.
SPECIFICATION FairSpec
CONSTANTS
    t1 = t1
    t2 = t2
    k1 = k1
    k2 = k2
    Threads = {t1, t2}
    Keys = {k1, k2}
    Intervals = {0, 1, 2}
    MaxTime = 2
    MaxWarnings = 4
INVARIANTS
    Conserved RateLimited
PROPERTIES
    EveryCallReturns
\* All the warnings have been given.
CHECK_DEADLOCK FALSE
