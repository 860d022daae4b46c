\* Overlapping invocations, against the README: "async": true is safe.
SPECIFICATION Spec
CONSTANTS
    Hooks = {h1, h2}
    Overlap = TRUE
    MaxTokens = 2
    MaxGeneration = 0
SYMMETRY Invocations
INVARIANTS
    ReportedOnce
\* Every invocation has run.
CHECK_DEADLOCK FALSE
