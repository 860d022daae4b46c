----------------------------- MODULE DirectPath -----------------------------
(***************************************************************************)
(* The broker-less path: DirectSink of src/src/tokenweir/sink.py over      *)
(* PostgresSource of src/src/tokenweir/postgres.py.                        *)
(*                                                                         *)
(* Threads call emit_batch, another closes the sink.  The sink's lock      *)
(* guards its flag and its counters and is not held during a write; the    *)
(* source has no lock.  The connection is external: its operations are     *)
(* atomic, it has one transaction at a time, whoever's rows are in it, and *)
(* it may fail at any operation.  A batch is named by its caller and the   *)
(* number of the call.                                                     *)
(***************************************************************************)
EXTENDS Integers, FiniteSets

CONSTANTS
    Writers,        \* the threads that call emit_batch
    MaxCalls,       \* bound on the calls of each
    MaxBatch        \* bound on the records of a batch

\* The bounds are positive, and the threads are finitely many.
ASSUME BoundsAssumption ==
    /\ MaxCalls \in Nat \ {0} /\ MaxBatch \in Nat \ {0}
    /\ IsFiniteSet(Writers)

VARIABLES
    ownsSource,     \* _owns_source; the source owns its connection
    closed,         \* _closed of the sink
    closePc,        \* where close() is
    written, dropped,
    \* the connection
    open,           \* whether it can still be used
    transaction,    \* the batches whose rows are in the open transaction
    aborted,        \* whether the transaction is in the error state
    stored,         \* the batches the server committed
    \* locals of each writer
    pc, calls,
    good,           \* how many records the batch has
    kind,           \* "storable", "unmappable" (rows_for refuses a record), or
                    \* "autocommit" (the connection's attribute was flipped)
    \* history
    offered,        \* records offered, all told
    undrained,      \* those of them pulled from an iterable that then raised
    acknowledged,   \* the batches counted as written
    refused,        \* the batches counted as dropped
    unsure          \* the batches whose commit failed after the server's part

sink == <<ownsSource, closed, closePc, written, dropped>>
connection == <<open, transaction, aborted, stored>>
locals == <<pc, calls, good, kind>>
history == <<offered, undrained, acknowledged, refused, unsure>>
vars == <<sink, connection, locals, history>>

Batch(w) == <<w, calls[w]>>

Init ==
    /\ ownsSource \in BOOLEAN
    /\ closed = FALSE /\ closePc = "out"
    /\ written = 0 /\ dropped = 0
    /\ open = TRUE /\ transaction = {} /\ aborted = FALSE /\ stored = {}
    /\ pc = [w \in Writers |-> "idle"]
    /\ calls = [w \in Writers |-> 0]
    /\ good = [w \in Writers |-> 0]
    /\ kind = [w \in Writers |-> "storable"]
    /\ offered = 0 /\ undrained = 0
    /\ acknowledged = {} /\ refused = {} /\ unsure = {}

Goto(w, l) == pc' = [pc EXCEPT ![w] = l]

-----------------------------------------------------------------------------
(* DirectSink.emit_batch; emit is a batch of one *)

\* Mutant: the values that are not records are not counted.
FilterSilently(n) == UNCHANGED dropped

\* Values that are not records are filtered out and counted.
Filter(n) == dropped' = dropped + n

Kinds == {"storable", "unmappable", "autocommit"}

EmitBatch(w) ==
    /\ pc[w] = "idle" /\ calls[w] < MaxCalls
    /\ calls' = [calls EXCEPT ![w] = @ + 1]
    /\ \E n \in 0..MaxBatch, bad \in 0..1 :
        /\ good' = [good EXCEPT ![w] = n]
        /\ offered' = offered + n + bad
        /\ Filter(bad)
        /\ Goto(w, IF n = 0 THEN "idle" ELSE "check")
    /\ \E k \in Kinds : kind' = [kind EXCEPT ![w] = k]
    /\ UNCHANGED <<ownsSource, closed, closePc, written, connection,
                   undrained, acknowledged, refused, unsure>>

\* The iterable raises while it is drained: a warning is logged, and no counter moves.
DrainRaises(w) ==
    /\ pc[w] = "idle" /\ calls[w] < MaxCalls
    /\ calls' = [calls EXCEPT ![w] = @ + 1]
    /\ \E n \in 0..MaxBatch :
        /\ offered' = offered + n
        /\ undrained' = undrained + n
    /\ UNCHANGED <<ownsSource, closed, closePc, written, dropped, connection,
                   pc, good, kind, acknowledged, refused, unsure>>

CheckClosed(w) ==
    /\ pc[w] = "check"
    /\ Goto(w, IF closed THEN "drop" ELSE "map")
    /\ UNCHANGED <<sink, connection, calls, good, kind, history>>

\* The write returned.
CountWritten(w) ==
    /\ pc[w] = "written"
    /\ written' = written + good[w]
    /\ acknowledged' = acknowledged \cup {Batch(w)}
    /\ Goto(w, "idle")
    /\ UNCHANGED <<ownsSource, closed, closePc, dropped, connection,
                   calls, good, kind, offered, undrained, refused, unsure>>

\* The write raised, or the sink is closed.
CountDropped(w) ==
    /\ pc[w] = "drop"
    /\ dropped' = dropped + good[w]
    /\ refused' = refused \cup {Batch(w)}
    /\ Goto(w, "idle")
    /\ UNCHANGED <<ownsSource, closed, closePc, written, connection,
                   calls, good, kind, offered, undrained, acknowledged, unsure>>

-----------------------------------------------------------------------------
(* PostgresSource.write *)

\* Mutant: autocommit is looked at in the constructor only.
WithoutAutocommitCheck(w) == IF kind[w] = "unmappable" THEN "drop" ELSE "execute"

\* _reject_autocommit and rows_for look at the connection and at the whole batch
\* before a statement is sent.
AfterMap(w) == IF kind[w] = "storable" THEN "execute" ELSE "drop"

MapRows(w) ==
    /\ pc[w] = "map"
    /\ Goto(w, AfterMap(w))
    /\ UNCHANGED <<sink, connection, calls, good, kind, history>>

\* executemany: the rows are in the transaction, or the statement fails part of
\* the way, which only autocommit makes durable.
Execute(w) ==
    /\ pc[w] = "execute"
    /\ \/ /\ open /\ ~aborted
          /\ transaction' = transaction \cup {Batch(w)}
          /\ Goto(w, "commit")
          /\ UNCHANGED <<open, aborted, stored>>
       \/ /\ open' \in {open, FALSE}
          /\ aborted' = open'
          /\ transaction' = IF open' THEN transaction ELSE {}
          /\ stored' = IF open /\ kind[w] = "autocommit"
                       THEN stored \cup {Batch(w)} ELSE stored
          /\ Goto(w, "rollback")
    /\ UNCHANGED <<sink, calls, good, kind, history>>

\* A commit ends the transaction, and keeps nothing of an aborted one.
Commit(w) ==
    /\ pc[w] = "commit"
    /\ open
    /\ stored' = IF aborted THEN stored ELSE stored \cup transaction
    /\ transaction' = {} /\ aborted' = FALSE
    /\ Goto(w, "written")
    /\ UNCHANGED <<sink, open, calls, good, kind, history>>

\* The server refuses, or the connection breaks before or after it commits.
CommitFails(w) ==
    /\ pc[w] = "commit"
    /\ \/ open' \in {open, FALSE} /\ UNCHANGED <<stored, unsure>>
       \/ /\ open /\ ~aborted
          /\ stored' = stored \cup transaction
          /\ unsure' = unsure \cup transaction
          /\ open' = FALSE
    /\ transaction' = {} /\ aborted' = FALSE
    /\ Goto(w, "rollback")
    /\ UNCHANGED <<sink, calls, good, kind, offered, undrained, acknowledged, refused>>

\* Mutant: the transaction is left as the failure left it.
NoRollback == UNCHANGED <<transaction, aborted>>

\* rollback(), whose own failure is ignored.
RollbackConnection == transaction' = {} /\ aborted' = FALSE

Reraise == "drop"

Rollback(w) ==
    /\ pc[w] = "rollback"
    /\ RollbackConnection
    /\ Goto(w, Reraise)
    /\ UNCHANGED <<sink, open, stored, calls, good, kind, history>>

-----------------------------------------------------------------------------
(* DirectSink.close, PostgresSource.close *)

Close ==
    /\ closePc = "out"
    /\ closed' = TRUE
    /\ closePc' = IF ownsSource THEN "source" ELSE "done"
    /\ UNCHANGED <<ownsSource, written, dropped, connection, locals, history>>

\* The server discards the transaction of a connection that is closed.
CloseSource ==
    /\ closePc = "source"
    /\ closePc' = "done"
    /\ open' = FALSE /\ transaction' = {} /\ aborted' = FALSE
    /\ UNCHANGED <<ownsSource, closed, written, dropped, stored, locals, history>>

Write(w) == MapRows(w) \/ Execute(w) \/ Commit(w) \/ CommitFails(w) \/ Rollback(w)

Next ==
    \/ \E w \in Writers :
        \/ EmitBatch(w) \/ DrainRaises(w) \/ CheckClosed(w)
        \/ Write(w) \/ CountWritten(w) \/ CountDropped(w)
    \/ Close \/ CloseSource

Spec == Init /\ [][Next]_vars
-----------------------------------------------------------------------------
(* Properties *)

Batches == Writers \X (1..MaxCalls)

\* Every variable has its type.
TypeOK ==
    /\ ownsSource \in BOOLEAN /\ closed \in BOOLEAN
    /\ closePc \in {"out", "source", "done"}
    /\ written \in Nat /\ dropped \in Nat /\ offered \in Nat /\ undrained \in Nat
    /\ open \in BOOLEAN /\ aborted \in BOOLEAN
    /\ pc \in [Writers -> {"idle", "check", "map", "execute", "commit", "rollback",
                           "written", "drop"}]
    /\ calls \in [Writers -> 0..MaxCalls]
    /\ good \in [Writers -> 0..MaxBatch]
    /\ kind \in [Writers -> Kinds]
    /\ transaction \subseteq Batches /\ stored \subseteq Batches
    /\ acknowledged \subseteq Batches /\ refused \subseteq Batches
    /\ unsure \subseteq Batches

InHand(w) == IF pc[w] = "idle" THEN 0 ELSE good[w]

\* The records in the hands of callers, each named by its caller and a number.
RecordsInHand == UNION {{w} \X (1..InHand(w)) : w \in Writers}

\* Every record that emit_batch drained from its iterable is counted once, as
\* written or as dropped, or is in the hands of a caller, whatever fails after that
\* and whenever the sink is closed.  What it had pulled when the iterable raised is
\* lost, and is in neither counter: that is the one failure they do not show, though
\* the class says "Failures are counted".
EveryRecordCounted ==
    offered = written + dropped + undrained + Cardinality(RecordsInHand)

\* A batch counted as written is in the store: neither a commit that kept nothing
\* nor a close() racing the write is ever counted as a success.
WrittenIsStored == acknowledged \subseteq stored

\* A batch counted as dropped is not in the store, but for a commit whose answer
\* was lost: a batch is never stored in part or behind its caller's back.
DroppedIsLost == refused \cap stored \subseteq unsure

\* With one thread that writes, the two counters are the truth about the store.
CountersTrue == TypeOK /\ WrittenIsStored /\ DroppedIsLost

\* No write leaves a transaction open on the connection, where the next one would
\* commit the rows that failed, or fail for the error that went before.
NoOpenTransaction ==
    (\A w \in Writers : pc[w] \notin {"commit", "rollback"}) =>
        transaction = {} /\ ~aborted
=============================================================================
