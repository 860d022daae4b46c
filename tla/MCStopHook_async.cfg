\* Invocations that overlap, as "async": true lets them.
SPECIFICATION Spec
CONSTANTS
    Hooks = {h1, h2, h3}
    Overlap = TRUE
    MaxTokens = 2
    MaxGeneration = 0
SYMMETRY Invocations
INVARIANTS
    NeverLost
\* Every invocation has run.
CHECK_DEADLOCK FALSE
