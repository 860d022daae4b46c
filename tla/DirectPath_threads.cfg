\* Two threads write over one connection.
SPECIFICATION Spec
CONSTANTS
    Writers = {w1, w2}
    MaxCalls = 1
    MaxBatch = 1
INVARIANTS
    WrittenIsStored
CHECK_DEADLOCK FALSE
