-------------------------- MODULE MigrationRunner --------------------------
(***************************************************************************)
(* The migration runner of src/src/tokenweir/migrations/__init__.py:       *)
(* several calls of apply() and status(), possibly of different releases,  *)
(* over one database.                                                      *)
(*                                                                         *)
(* Postgres is external: a session-level advisory lock, released when the  *)
(* session ends; transactions whose writes appear at commit; CREATE TABLE  *)
(* IF NOT EXISTS, which looks first and fails if the table appears         *)
(* meanwhile; a primary key on the version.  A call may fail at any        *)
(* statement, and its process may be killed at any step.                   *)
(***************************************************************************)
EXTENDS Integers, FiniteSets, FiniteSetsExt

CONSTANTS
    Sessions,       \* the calls, each on a connection of its own
    NoOne,          \* no session
    MaxVersion,     \* the newest version any release ships
    Destructive,    \* the versions whose SQL has a DROP, TRUNCATE or DELETE
    Granting,       \* the versions that grant to the reader role
    Calls           \* the arguments considered: see CallType

Versions == 1..MaxVersion

\* ships: the newest version of the release.  locking, verify, allow: the
\* arguments advisory_lock, verify_checksums and allow_destructive.
\* role: whether reader_role is given.  autocommit: the connection's mode.
CallType == [kind : {"apply", "status"}, ships : Versions, locking : BOOLEAN,
             verify : BOOLEAN, allow : BOOLEAN, role : BOOLEAN, autocommit : BOOLEAN]

\* Versions are contiguous from 1, as discover() insists.
ASSUME VersionsAssumption ==
    /\ MaxVersion \in Nat \ {0}
    /\ Destructive \subseteq Versions /\ Granting \subseteq Versions
    /\ Calls \subseteq CallType

\* The lock has a value for being free.
ASSUME SessionsAssumption == NoOne \notin Sessions

VARIABLES
    \* the database
    table,          \* whether schema_migrations exists
    checksum,       \* of each version: "absent", "null" (adopted), "ours", "edited"
    objects,        \* the versions whose objects exist
    granted,        \* the versions whose grants were issued
    holder,         \* the session that holds the advisory lock
    \* each call
    call,           \* its arguments
    pc,
    inError,        \* whether its transaction is in the error state
    todo,           \* outstanding: the versions it has still to apply
    outcome,        \* "none", "returned", "refused", "failed" or "collided"
    did             \* applied: the versions it has applied

database == <<table, checksum, objects, granted>>
locals == <<pc, inError, todo, outcome, did>>
vars == <<database, holder, call, locals>>

Recorded == {v \in Versions : checksum[v] # "absent"}

\* A new database, or one that this library or the gateway migrated up to some
\* version; a file may have been edited since.
Init ==
    /\ checksum \in [Versions -> {"absent", "null", "ours", "edited"}]
    /\ \E k \in 0..MaxVersion : Recorded = 1..k
    /\ table \in BOOLEAN /\ (Recorded # {} => table)
    /\ objects = Recorded
    /\ granted = {}
    /\ holder = NoOne
    /\ call \in [Sessions -> Calls]
    /\ pc = [s \in Sessions |-> "start"]
    /\ inError = [s \in Sessions |-> FALSE]
    /\ todo = [s \in Sessions |-> {}]
    /\ outcome = [s \in Sessions |-> "none"]
    /\ did = [s \in Sessions |-> {}]

Goto(s, l) == pc' = [pc EXCEPT ![s] = l]

\* The call leaves its body with this outcome, for the unlock on the way out.
Leave(s, how) ==
    /\ outcome' = [outcome EXCEPT ![s] = how]
    /\ Goto(s, "unlock")

-----------------------------------------------------------------------------
(* the advisory lock *)

\* Mutant: apply() does not look at the connection's mode.
NeverRefusesMode(s) == FALSE

\* apply() refuses an autocommit connection before anything else.
RefusesMode(s) == call[s].kind = "apply" /\ call[s].autocommit

\* Mutant: only the writer takes the lock.
OnlyApplyLocks(s) == call[s].locking /\ call[s].kind = "apply"

TakesLock(s) == call[s].locking

Begin(s) ==
    /\ pc[s] = "start"
    /\ IF RefusesMode(s)
       THEN Goto(s, "over") /\ outcome' = [outcome EXCEPT ![s] = "refused"]
       ELSE Goto(s, IF TakesLock(s) THEN "lock" ELSE "look") /\ UNCHANGED outcome
    /\ UNCHANGED <<database, holder, call, inError, todo, did>>

AcquireLock(s) ==
    /\ pc[s] = "lock"
    /\ holder = NoOne
    /\ holder' = s
    /\ Goto(s, "look")
    /\ UNCHANGED <<database, call, inError, todo, outcome, did>>

\* Mutant: the lock is released only after a call that returned.
UnlocksAfterSuccess(s) == outcome[s] = "returned" /\ ~inError[s]

\* pg_advisory_unlock is refused in a transaction in the error state.
Unlocks(s) == ~inError[s]

\* The finally block of _advisory_lock: a failure to unlock is only logged.
ReleaseLock(s) ==
    /\ pc[s] = "unlock"
    /\ holder' = IF holder = s /\ Unlocks(s) THEN NoOne ELSE holder
    /\ Goto(s, "over")
    /\ UNCHANGED <<database, call, inError, todo, outcome, did>>

\* The caller closes the connection after the call: the session ends.
CloseConnection(s) ==
    /\ pc[s] = "over"
    /\ Goto(s, "closed")
    /\ holder' = IF holder = s THEN NoOne ELSE holder
    /\ UNCHANGED <<database, call, inError, todo, outcome, did>>

-----------------------------------------------------------------------------
(* applied_versions, _ensure_state_table *)

\* IF NOT EXISTS: is the table there?
LookForTable(s) ==
    /\ pc[s] = "look"
    /\ Goto(s, IF table THEN "read" ELSE "create")
    /\ UNCHANGED <<database, holder, call, inError, todo, outcome, did>>

\* It was not there.  The catalog makes a second creator wait for the first.
CreateTable(s) ==
    /\ pc[s] = "create"
    /\ ~table
    /\ \A t \in Sessions : pc[t] # "created"
    /\ table' = call[s].autocommit
    /\ Goto(s, IF call[s].autocommit THEN "read" ELSE "created")
    /\ UNCHANGED <<checksum, objects, granted, holder, call, inError, todo, outcome,
                   did>>

\* Somebody created it since: duplicate key in the catalog.
CreateTableCollides(s) ==
    /\ pc[s] = "create"
    /\ table
    /\ inError' = [inError EXCEPT ![s] = ~call[s].autocommit]
    /\ Leave(s, "collided")
    /\ UNCHANGED <<database, holder, call, todo, did>>

\* Nothing here rolls back.
StatementFails(s) ==
    /\ pc[s] \in {"look", "create", "created", "read"}
    /\ inError' = [inError EXCEPT ![s] = ~call[s].autocommit]
    /\ Leave(s, "failed")
    /\ UNCHANGED <<database, holder, call, todo, did>>

-----------------------------------------------------------------------------
(* _check_applied and the refusals of apply *)

\* _check_applied: the database is ahead of the release, or a file was edited.
Drifted(s) ==
    \/ ~(Recorded \subseteq 1..call[s].ships)
    \/ call[s].verify /\ \E v \in Recorded : checksum[v] = "edited"

Outstanding(s) == (1..call[s].ships) \ Recorded

\* Mutant: only the next migration is looked at.
NextOffends(s) ==
    ~call[s].allow /\ Outstanding(s) # {} /\ Min(Outstanding(s)) \in Destructive

\* One of the outstanding migrations is destructive and that was not allowed.
Offends(s) == ~call[s].allow /\ Outstanding(s) \cap Destructive # {}

\* The read, its commit, and everything apply() decides from it.
ReadApplied(s) ==
    /\ pc[s] \in {"read", "created"}
    /\ table' = TRUE
    /\ IF Drifted(s)
       THEN Leave(s, "refused") /\ UNCHANGED todo
       ELSE IF call[s].kind = "status" \/ Outstanding(s) = {}
       THEN Leave(s, "returned") /\ UNCHANGED todo
       ELSE IF Offends(s)
       THEN Leave(s, "refused") /\ UNCHANGED todo
       ELSE /\ todo' = [todo EXCEPT ![s] = Outstanding(s)]
            /\ Goto(s, "next")
            /\ UNCHANGED outcome
    /\ UNCHANGED <<checksum, objects, granted, holder, call, inError, did>>

-----------------------------------------------------------------------------
(* the loop of apply: one transaction per migration *)

NextVersion(s) == Min(todo[s])

\* Mutant: ON CONFLICT DO NOTHING.
ConflictsIgnored(v) == FALSE

\* The primary key of schema_migrations refuses the row.
Conflicts(v) == v \in Recorded

\* The DDL and the row; another transaction with the same row makes it wait.
Migrate(s) ==
    /\ pc[s] = "next"
    /\ \A t \in Sessions : pc[t] = "commit" => NextVersion(t) # NextVersion(s)
    /\ IF Conflicts(NextVersion(s))
       THEN Leave(s, "collided")
       ELSE Goto(s, "commit") /\ UNCHANGED outcome
    /\ objects' = IF call[s].autocommit THEN objects \cup {NextVersion(s)} ELSE objects
    /\ UNCHANGED <<table, checksum, granted, holder, call, inError, todo, did>>

\* The migration fails, and is rolled back.
MigrationFails(s) ==
    /\ pc[s] = "commit"
    /\ Leave(s, "failed")
    /\ UNCHANGED <<database, holder, call, inError, todo, did>>

\* set_config(..., is_local => true) precedes each migration in its transaction; on an
\* autocommit connection that transaction is the setting's own.
RoleInScope(s) == call[s].role /\ ~call[s].autocommit

Committed(s) ==
    LET v == NextVersion(s) IN
    /\ checksum' = [checksum EXCEPT ![v] = "ours"]
    /\ objects' = objects \cup {v}
    /\ granted' = IF v \in Granting /\ RoleInScope(s) THEN granted \cup {v} ELSE granted
    /\ did' = [did EXCEPT ![s] = @ \cup {v}]
    /\ todo' = [todo EXCEPT ![s] = @ \ {v}]

CommitMigration(s) ==
    /\ pc[s] = "commit"
    /\ Committed(s)
    /\ IF todo[s] = {NextVersion(s)}
       THEN Leave(s, "returned")
       ELSE Goto(s, "next") /\ UNCHANGED outcome
    /\ UNCHANGED <<table, holder, call, inError>>

\* The process is killed or the connection lost, perhaps during the commit.
Crash(s) ==
    /\ pc[s] \notin {"start", "over", "closed"}
    /\ \/ pc[s] = "commit" /\ Committed(s)
       \/ UNCHANGED <<checksum, objects, granted, did, todo>>
    /\ holder' = IF holder = s THEN NoOne ELSE holder
    /\ outcome' = [outcome EXCEPT ![s] = "failed"]
    /\ Goto(s, "closed")
    /\ UNCHANGED <<table, call, inError>>

-----------------------------------------------------------------------------

Lock(s) == Begin(s) \/ AcquireLock(s) \/ ReleaseLock(s)
Read(s) == LookForTable(s) \/ CreateTable(s) \/ CreateTableCollides(s) \/ ReadApplied(s)
Loop(s) == Migrate(s) \/ CommitMigration(s)
Fault(s) == StatementFails(s) \/ MigrationFails(s) \/ Crash(s)

Next == \E s \in Sessions :
    Lock(s) \/ Read(s) \/ Loop(s) \/ Fault(s) \/ CloseConnection(s)

Spec == Init /\ [][Next]_vars
-----------------------------------------------------------------------------
(* Properties *)

\* Every variable has its type.
TypeOK ==
    /\ table \in BOOLEAN
    /\ checksum \in [Versions -> {"absent", "null", "ours", "edited"}]
    /\ objects \subseteq Versions /\ granted \subseteq Granting
    /\ holder \in Sessions \cup {NoOne}
    /\ call \in [Sessions -> Calls]
    /\ pc \in [Sessions -> {"start", "lock", "look", "create", "created", "read", "next",
                            "commit", "unlock", "over", "closed"}]
    /\ inError \in [Sessions -> BOOLEAN]
    /\ todo \in [Sessions -> SUBSET Versions] /\ did \in [Sessions -> SUBSET Versions]
    /\ outcome \in [Sessions -> {"none", "returned", "refused", "failed", "collided"}]

\* "Recorded as applied" and "actually applied" cannot disagree, at whatever
\* statement a call fails or its process is killed.
RecordTruth == objects = Recorded

\* What is applied is a prefix of the shipped order, whatever the calls and
\* releases that race: a gap would never be noticed by a later refusal.
AppliedInOrder == \E k \in 0..MaxVersion : Recorded = 1..k

\* No version is applied by two calls, with or without the lock.
AppliedOnce ==
    \A s, t \in Sessions : s # t => did[s] \cap did[t] = {}

\* When every entry point takes the lock, no call dies of a race with another
\* one, not even two readers that meet a new database (FR-012).
NoCollision ==
    (\A s \in Sessions : call[s].locking) => \A s \in Sessions : outcome[s] # "collided"

\* A destructive migration is never applied without the operator's word, and the
\* refusal comes before anything else is applied.
ReviewedWhole ==
    \A s \in Sessions :
        /\ did[s] \cap Destructive # {} => call[s].allow
        /\ outcome[s] = "refused" => did[s] = {}

\* A granting migration that a call with a reader role recorded has issued its
\* grant: it will never run again, so the grant would be lost for good (FR-030).
GrantNotLost ==
    \A s \in Sessions : call[s].role => did[s] \cap Granting \subseteq granted

\* The state table tells what was done: objects made and grants issued, of these
\* versions and of no other, through every failure and kill.
HistoryTrue == TypeOK /\ RecordTruth /\ GrantNotLost

\* Each version once, and none before the ones in front of it.
AppliedInSequence == AppliedInOrder /\ AppliedOnce

-----------------------------------------------------------------------------
(* Liveness *)

\* The server executes the statements of a live session, and the connection of a
\* call that failed inside a transaction is closed at last, as main() does.
Fairness ==
    \A s \in Sessions :
        /\ WF_vars(Lock(s) \/ Read(s) \/ Loop(s))
        /\ WF_vars(inError[s] /\ CloseConnection(s))

FairSpec == Spec /\ Fairness

\* Every call ends, even the one that waits for the lock of a call that failed.
EveryCallEnds == \A s \in Sessions : <>(pc[s] \in {"over", "closed"})
=============================================================================
