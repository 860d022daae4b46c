----------------------------- MODULE MCStopHook -----------------------------
\* Small instances of the Stop hook for TLC.
EXTENDS StopHook, TLC

\* Invocations are interchangeable.
Invocations == Permutations(Hooks)
=============================================================================
