\* A cap of two dials, intervals of no and of three ticks, and enough emits and
\* time for the dials of two windows.
SPECIFICATION Spec
CONSTANTS
    MaxDials = 2
    Intervals = {0, 3}
    MaxEmits = 7
    MaxClock = 6
INVARIANTS
    ChurnBound BackoffJust
PROPERTIES
    FailedDialSpaced ConnectionsKept
\* The bounds on the clock and the emits end every behaviour.
CHECK_DEADLOCK FALSE
