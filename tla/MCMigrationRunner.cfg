\* Any two calls, with and without the lock, on any database.  Two versions: one
\* that is harmless, and after it one that is destructive; both grant.
SPECIFICATION FairSpec
CONSTANTS
    Sessions = {s1, s2}
    NoOne = NoOne
    MaxVersion = 2
    Destructive = {2}
    Granting = {1, 2}
    Calls <- AllCalls
INVARIANTS
    HistoryTrue AppliedInSequence NoCollision ReviewedWhole
PROPERTIES
    EveryCallEnds
\* Every call has ended.
CHECK_DEADLOCK FALSE
