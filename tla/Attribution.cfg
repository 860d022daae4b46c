\* Two iterations of the orchestrator, or one session stamped by hand, or one call, or one
\* message of another producer.
SPECIFICATION Spec
CONSTANTS
    MaxIterations = 2
    MaxTokens = 4
INVARIANTS
    PhaseIsOneLane AttributedToItsIteration RefusedIffUnusable TurnsRecorded WireAgrees
\* The producer has made its records.
CHECK_DEADLOCK FALSE
