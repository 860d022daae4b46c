\* One thread writes, as a BufferedEmitter's worker does, while another closes.
SPECIFICATION Spec
CONSTANTS
    Writers = {w1}
    MaxCalls = 3
    MaxBatch = 2
INVARIANTS
    EveryRecordCounted CountersTrue NoOpenTransaction
\* Every call has been made.
CHECK_DEADLOCK FALSE
