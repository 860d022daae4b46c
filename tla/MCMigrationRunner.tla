------------------------- MODULE MCMigrationRunner -------------------------
\* Small instances of the migration runner for TLC.
EXTENDS MigrationRunner

\* Every apply, of an old and of a new release, and the status of both.
AllCalls ==
    {c \in CallType :
        /\ c.ships \in {MaxVersion - 1, MaxVersion}
        /\ c.kind = "apply" => c.verify
        /\ c.kind = "status" => ~c.allow /\ ~c.role /\ ~c.verify}
=============================================================================
