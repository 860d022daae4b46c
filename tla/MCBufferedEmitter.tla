------------------------ MODULE MCBufferedEmitter ------------------------
\* Small instances of the buffering client for TLC.
EXTENDS BufferedEmitter, TLC

CONSTANTS f1, f2, c1, c2

\* flush() and close() callers are interchangeable.
Threads == Permutations({f1, f2}) \cup Permutations({c1, c2})
==========================================================================
