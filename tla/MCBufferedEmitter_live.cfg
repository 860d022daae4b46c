\* Liveness: of close() with any sink, of the rest with a sink whose calls end.
SPECIFICATION FairSpec
CONSTANTS
    MaxBuffer = 2
    BatchSize = 2
    MaxOffers = 3
    SinkMayKill = TRUE
    Worker = Worker
    f1 = f1
    f2 = f2
    c1 = c1
    c2 = c2
    Flushers = {f1}
    Closers = {c1}
PROPERTIES
    CloseReturns Progress
\* Everybody may be done: the client is closed and the worker ended.
CHECK_DEADLOCK FALSE
