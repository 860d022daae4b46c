\* Invocations one after the other, as a synchronous Stop hook runs.
SPECIFICATION Spec
CONSTANTS
    Hooks = {h1, h2, h3, h4}
    Overlap = FALSE
    MaxTokens = 3
    MaxGeneration = 1
SYMMETRY Invocations
INVARIANTS
    NeverLost ReportedOnce
PROPERTIES
    BaselineRewoundOnlyByReplacement
\* Every invocation has run.
CHECK_DEADLOCK FALSE
