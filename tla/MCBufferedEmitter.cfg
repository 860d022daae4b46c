\* Every safety property: both kinds of sink, with and without linger, two
\* flush() callers, a close() caller and a sink that closes the client,
\* or may kill the worker.
SPECIFICATION Spec
CONSTANTS
    MaxBuffer = 2
    BatchSize = 2
    MaxOffers = 4
    SinkMayKill = TRUE
    Worker = Worker
    f1 = f1
    f2 = f2
    c1 = c1
    c2 = c2
    Flushers = {f1, f2}
    Closers = {c1}
SYMMETRY Threads
INVARIANTS
    TypeOK Conservation RetentionBound FifoAtMostOnce NobodySleepsOnWork
    FlushTruth CloseSettles SinkClosedLast
PROPERTIES
    KeepsPromise
\* Everybody may be done: the client is closed and the worker ended.
CHECK_DEADLOCK FALSE
