# Verification of tokenweir

This directory holds TLA+ specifications of tokenweir, the TLC configurations that
model-check them, and TLAPS proofs about them. Every definition is translated from the
Python source; `PROJECT.json` says which lines each one stands for. Paths below are
relative to the repository (`src/` in `PROJECT.json`).

## The system

tokenweir meters the use of language models. A caller hands a *usage record* to a
*sink*; records travel through an in-process buffer, over AMQP or straight into Postgres,
and are read there through a daily view. Metering must never fail or delay the metered
call, so losses are counted rather than raised; the hard part is that the counters, the
buffer, the connections and the files tell the truth while threads, processes and servers
fail under them.

| Component | State it keeps | Operations | Talks to |
|---|---|---|---|
| `emitter.py` BufferedEmitter | buffer, in-flight count, flags `closed`, `stopping`, `worker_alive`, counters, one condition variable, one daemon worker | `emit`, `emit_batch`, `flush`, `close`, the worker's loop, an exit hook | a sink, called by the worker only |
| `amqp.py` AMQPSink | channel and connection, backoff deadline, dial window, counters | `emit`, `close`, re-dial, invalidate | pika and a broker |
| `claude_code.py` Stop hook | a baseline file per transcript | one process per turn: scan, subtract, emit, write the baseline | the host, a transcript file, a BufferedEmitter over a transport |
| `sink.py` DirectSink | closed flag, counters | `emit`, `emit_batch`, `close` | a source |
| `postgres.py` PostgresSource | a connection with one transaction | `write`, `close` | Postgres |
| `migrations/__init__.py` runner | table `schema_migrations`, an advisory lock | `apply`, `pending`, `applied_versions`, `status` | Postgres, other runners |
| `migrations/__main__.py` | none | a command line around the runner and `reconcile` | the runner |
| `reconcile.py` | none of its own; the live schema | `plan`, `apply` | Postgres catalogues; other tools change them |
| `_ratelimit.py` RateLimitedWarner | a window and a suppressed count per key | `warn`, `suppressed` | logging, from any thread |
| `contract.py` | none (an immutable record) | construction and validation, `to_dict`, `from_dict`, `from_json`, the published schema | producers and consumers in any language |
| `orchestrator.py` | none | `phase_label`, `normalize_phase`, `attribution_env` | the hook, through the environment |
| `source.py` | none (a protocol, an in-memory list) | `write`, `close` | - |
| `migrations/sql/` | the schema, pricing and the daily view | SQL | - |
| `parity.py` | none | an offline measurement | transcripts |

What is hard in it:

- *one condition, three kinds of waiters* (emitter): `emit` wakes one waiter, and the
  worker and the flushers wait on the same condition;
- *a close that gives up* (emitter, hook): `close()` abandons the buffer while the worker
  may be inside the sink, taking a batch, or about to count one;
- *time that passes inside a call* (AMQP): a dial blocks, and backoff and window are
  computed from clocks read before and after it;
- *two files, no transaction* (hook): the record goes to the store, the baseline to a file,
  and the host may kill the process between them or run another hook meanwhile;
- *one connection, one transaction* (direct path): a commit may fail after the server
  committed, and two threads share the transaction;
- *many runners, one database* (migrations): creation of the state table races, and a
  failed transaction cannot even unlock;
- *a plan that goes stale* (reconciliation): it is read, derived again and executed in
  three transactions, with other tools in between;
- *a clock read before the lock* (warner), and a log handler that comes back into it;
- *one text, two readers* (attribution): the orchestrator writes an environment block, the
  hook reads it, and the contract judges it; each has its own idea of a blank.

## What makes each component correct

| Component | Safety | Liveness |
|---|---|---|
| BufferedEmitter | implements a bounded queue; every accepted record in exactly one place; handed over in order and at most once; retention bounded; no lost wakeup; `flush` and `close` mean what they say; the sink used by one thread, and not after its close | records settle, `flush` returns, `close` returns whatever the sink does, the sink is closed at last |
| AMQPSink | dials bounded per interval; backoff only for its stated reason and no longer than an interval; no connection leaked | - |
| Stop hook | no token lost; none reported twice without a documented cause; the baseline never rewound by an accident | - |
| Direct path | counters agree with the store, and show every record but those of an iterable that raised; no transaction left open | - |
| Migration runner | record and objects agree; applied in order and once; no collision under the lock; refusals come first; no grant lost | every call ends |
| Reconciliation | a plan goes in whole or not at all; what runs is what was read; nothing removed, no value invented; and if the database is left alone meanwhile, a plan without a manual discrepancy runs and leaves nothing to do, no price is changed and no grant lost in silence | - |
| RateLimitedWarner | lines of one reason an interval apart; a warning held back only after such a line; counts kept under their reason, told once, and lost only with a line whose logger raised | every call returns |
| Attribution, contract | one label per occurrence; the hook reads what was exported; a record carries its own iteration's attribution; no turn lost over a label, and over an application id only if it is a blank the hook does not know; schema and reader agree | - |

## Modules

| Module | Models | Used by |
|---|---|---|
| `BufferedEmitter` | `emitter.py` | `MCBufferedEmitter`, `BufferedEmitterProofs` |
| `Delivery` | what `BufferedEmitter` promises: a bounded queue | `BufferedEmitter` |
| `AMQPSink` | `amqp.py` | `AMQPSinkProofs` |
| `StopHook` | `run()` of `claude_code.py` with its emitter | `MCStopHook`, `StopHookProofs` |
| `DirectPath` | `sink.py` over `postgres.py` | `DirectPathProofs` |
| `MigrationRunner` | `migrations/__init__.py` | `MCMigrationRunner`, `MigrationRunnerProofs` |
| `Reconcile` | `reconcile.py`, and the `reconcile` command | `ReconcileProofs` |
| `Warner` | `_ratelimit.py` | `WarnerProofs` |
| `Contract` | `contract.py` | `Taxonomy` |
| `Taxonomy` | the phase labels of `orchestrator.py` | `Attribution` |
| `Attribution` | `attribution_env`, the hook's reading of it, the guarded seam of `sink.py`, the consumer | `AttributionProofs` |
| `...Proofs` | the proofs about the module of that name | - |

A property a run checks is often a conjunction of named parts that say one thing together:
`NobodySleepsOnWork` of `NoLostWakeup`, `NoStrandedFlusher` and `LingerCutShort`; `Progress` of
`EveryRecordSettles`, `FlushTerminates` and `CloseReleasesSink`; `BackoffJust`, `ConnectionsKept`,
`CountersTrue`, `HistoryTrue`, `AppliedInSequence`, `PlanKept`, `NothingLost`, `RateLimited`,
`PhaseIsOneLane`, `TurnsRecorded` and `WireAgrees` likewise. The parts are where the statements
are, each with its comment, and this text speaks of the parts. A module's `TypeOK` is checked on its own
or as a conjunct of one of these.

Definitions named as mutants in their comment are not part of a specification: each is
the form a plausible bug would give the definition that follows it, and shows that a
property can be violated by the code.

### BufferedEmitter

Every `with self._condition` block is one action. `waiting` is the wait set of the
condition: `Notify` removes any one waiter from it, `NotifyAll` all of them, and a thread
outside it that is at a wait takes its next step when it gets the lock. So a spurious
choice of the notified waiter, and a notification that comes before the wait, are both
explored. A record is the ordinal of its acceptance. `pc` is the worker's place: `next`,
`idle` and `linger` are `_next_batch`; `call` is inside the sink; `count_ok` and `count_fail`
are `_count_delivered` and `_count_failed`, separate locked blocks after the call; `post` is the
end of a batch in `_run`; `finally` and `close_sink` its `finally` block. A sink has `emit_batch`
or not (`emitBatch`), so a call carries the batch or one record. The sink may hang, return,
raise, kill the worker with a BaseException, or call `close()` on the client. `batch` is
what the worker has not counted yet; when a BaseException ends the worker it keeps the
records lost with it. Left out: logging, argument types, `stats()`'s snapshot (one locked
read).

`Delivery` says the same of the client without threads, wakeups or timeouts: a bounded
queue whose front is settled in order, and whose back is given up only once it is closed.
`BufferedEmitter!Promise` instantiates it with the worker's batch and the buffer as the
queue; `KeepsPromise`, that the client implements it, is checked as a property. The
queue's capacity is the buffer and one batch.

### AMQPSink

`emit` is atomic but for the two calls that block in the driver: it is split at the dial and
at the publish, and the clock may tick at any time. One thread uses a sink, as its
documentation demands, so nothing else interleaves. `kind` distinguishes sinks built by
`from_url` from those given an owned or a borrowed channel. `WindowOver`, `CapReached` and
`CountDial` are `_may_dial`; `JudgeConnection` and `Invalidate` are `_invalidate`.
History variables keep the times of the last dials, the fate of the last connections and
the number of connections opened and closed. Left out: JSON encoding, URL redaction.

### StopHook

An invocation is a process that goes through `run()` with an action per read of a file,
call of the emitter, read of a counter, and write. Its emitter is cut down to the one record
it carries (`worker`), with the abandon-or-in-flight choice of `close()`; the full emitter is
`BufferedEmitter`. A transcript is a generation and a number of tokens, a record the range
of tokens it reports: the four token fields and the cost fields move together. `degraded`
is the stand-in sink for a transport that could not be built. The transport stores a record or
counts it as dropped; when the answer to its commit is lost it does both, and the tokens are
reported again. `excused` remembers that this, or one of the causes the code documents, has occurred.

### DirectPath

Writers go through `emit_batch` and `write` with an action per lock region and per call of the
connection; `DrainRaises` is the call whose iterable raises before anything is handed on.
`undrained` remembers what it had pulled, which is in neither counter. The connection is external: one transaction, shared by whoever uses it, an
error state, a commit that may fail before or after the server's part, a rollback whose
failure is ignored.

### MigrationRunner

A session is one call of `apply` or `status`, of an older or the newest release, with or
without lock, checksum verification, permission for destructive migrations and a reader
role. `LookForTable` and `CreateTable` are two steps because CREATE TABLE IF NOT EXISTS is not
atomic; a transaction's effect appears at its commit. `Crash` is a process killed or a
connection lost, with the commit done or not.

### Reconcile

The database is a record of two tables and the view, each with its kind, columns, key,
indexes and constraints, and the facts about its rows on which the comparison decides (is
there a null, a second row of a model, a lone row of a subscription, a negative cost). A
table has one column of each kind that `_compare_columns` tells apart: an identity, a back-filled
one, a required one, one with a constant default, one with `now()`, a nullable one, one of
the gateway's own. `held` is where the values in a column's older rows come from; the
whole point of the module is that nobody makes them up. `PlanOf` is `_plan`, with an operator per
function it calls. `Plan` prints a plan; `Apply` takes it, or none, as the command does with
`--apply`; `Derive` is the second comparison and the refusals; `Execute` runs one statement, and
`Commit` ends the transaction. `Edit` is one committed change by another tool or a writer: it
waits for the locks of the executing transaction, and comes at any other moment. A connection in
autocommit mode would commit each statement as it runs (`Execute`); that `plan` and `apply` refuse one
(`Transactional`) is what `AppliedAsRead` rests on. `ran` remembers the statements a call executed, `quiet`
that nobody has changed anything since its comparison. `Runs` and `Effect` are Postgres: when a statement fails, and what it does. A comparison is one read of the
database; the catalogue queries of `_snapshot` run in one READ COMMITTED transaction, and
a change between two of them is like one just before or just after, since nothing is done
with the plan before it is complete.

### Warner

`warn` is split where it reads the clock, where it holds the lock, and where it logs. A
thread may be inside one call and, from the log handler, inside another; the logger writes the line
or raises. History variables count what happened, what each line told, when lines passed,
and what went with a line whose logger raised: its own occurrence (`muted`) and the count it was
to report (`mislaid`).

### Contract, Taxonomy, Attribution

A value is its type and, where a rule looks at it, its content; a text is a sequence of
tokens, and the characters on which Python's and the contract's notion of a blank differ have tokens
of their own (`NEL`, `BOM`). `Contract` is the record's validation, its wire form, its reader and its
published schema, with one or two fields of each kind. `Taxonomy` is the parser of phases. In
`Attribution` an orchestrator starts sessions, each inheriting its block over the
orchestrator's environment, and their hooks run later; or a person sets the
variables by hand; or an application calls `emit_usage` with what it likes; or a producer in
another language writes a message. Every path ends in the record a consumer rebuilds. The
reference against which labels are judged (`Says`) is what a person means: a name of the kind, the
occurrence after it or, as an ordinal, before it, with gaps of any length. It reads the text as it
was written, and shares nothing with the parser, which reads a collapsed and lowercased one.

## Runs

| Run | Instance | Shows |
|---|---|---|
| `emitter_safety` | buffer 2, batch 2, 4 records, 2 flushers, 1 closer, a sink that fails, kills or closes | all safety properties of the client, and that it implements `Delivery` |
| `emitter_live` | buffer 2, batch 2, 3 records, 1 flusher, 1 closer and a sink that may close | `close` returns though the sink never does; with a sink whose calls end, records settle, flush ends, close ends the worker |
| `amqp_reconnect` | cap 2, interval 0 or 3, 7 emits, clock to 6 | churn, backoff, connections |
| `hook_turns` | 4 invocations in sequence, 3 tokens, 1 replacement | nothing lost, nothing doubled without a cause |
| `hook_async` | 3 overlapping invocations, 2 tokens, no replacement | nothing lost when they overlap |
| `hook_twice` | 2 overlapping invocations | tokens reported twice |
| `direct_write` | 1 writer, 3 batches of up to 2 records, a close | counters and store agree |
| `direct_threads` | 2 writers, one batch each | a counted batch that is not stored |
| `migrate` | 2 calls, 2 versions, the second destructive, both granting | every safety property of the runner, and every call ends |
| `reconcile` | the gateway's database or tokenweir's, either mode of the connection, 3 steps: changes by others and calls with or without a plan | what a plan promises and what its execution may never do |
| `warner` | 2 threads, each re-entered once, 2 reasons, interval 0, 1 or 2, clock to 2, 4 warnings, a logger that may raise | spacing, counts, and every call returns |
| `attribution` | 2 iterations, or one of each other producer; texts of up to 4 tokens | from the environment to the consumer's record |

Why the bounds are enough. *Emitter*: four records over a buffer and a batch of two fill
the buffer while a full batch is in flight, leave a partial batch to linger over, and one
record to be refused; two flushers are needed for a notification that wakes the wrong waiter,
and a third would be in the same place as one of the two. *AMQP*: seven emits let four
dials begin (twice the cap) with a publish and a failure between them, and the clock runs over
two intervals, so the edge between two windows falls inside the run; with six emits the case
`ChurnBound` speaks of never occurs. *Hook*: four invocations give a report, an accident, a
recovery and the turn after it; three tokens let each of three turns add one. Overlapping ones
are checked with three: two that race and one that reads what they left. *Direct path*: three
batches give a failure between two successes. *Migrations*: two calls for any race of two,
and for one that waits on another; two versions give a harmless one in front of a
destructive one (`ReviewedWhole`), a failure after a success, an older release that knows only
the first, and a gap (the second recorded without the first). *Reconciliation*: one change makes
each difference the comparison can see, on either of two databases; two make every pair,
also one before the plan is read and one in the gap before it is executed. The three steps are two
changes and a call, a change before, between or during two calls, or three calls. *Warner*: a thread late for the
lock needs another that overtook it; four warnings give a line, two held back, and the line that
tells of them; a thread, its own re-entry and another thread are every way of waiting for
the lock; with an interval of two a time can fall strictly inside it, with one a second line can follow. *Attribution*: two
iterations for a block that could survive into the next; a session's hook may run after it. Four
tokens spell every form the parser reads and leave one to spoil it (`2nd`, space, `review` and a
sign); `Examples` are checked at their own length, every way of writing a phase with gaps
of up to three tokens. The run has 214,351 distinct states.

Symmetry is used only in runs that check invariants or action properties, over
interchangeable threads and invocations. Deadlock is not checked in any run: each
of these systems ends (the client is closed, the invocations have run, the bounds on calls
and clock are reached); what must not stop is stated as liveness or as an invariant on
sleeping threads.

Bounds that are part of the guards are named: `MaxOffers`, `MaxEmits`, `MaxClock`, `MaxTokens`,
`MaxGeneration`, `MaxCalls`, `MaxBatch`, `MaxVersion`, `MaxSteps`, `MaxTime`, `MaxWarnings`,
`MaxIterations`.

### Fairness

`BufferedEmitter!Fairness`: the worker is scheduled when it can run, a flusher that was
notified and sees its predicate true returns, the timeout of `close()` fires. Nothing is
assumed of the sink, of the application, nor that a `flush` has a timeout; `CloseReturns` is checked
from that alone. `SinkFair` adds that a call of the sink ends, in any way, and stands as the premise of each
part of `Progress`: a client over a sink that hangs can settle nothing. `MigrationRunner!Fairness`: the
server executes the statements of a live session, and the connection of a call that failed
inside a transaction is closed at last, as `main()` does in its `finally`. Waiting for the lock
needs weak fairness only, since each call takes it once. `Warner!FairSpec` schedules every call that can
take a step; the clock may stand still, and a lock released again and again need not favour anyone,
since each thread asks for it a bounded number of times.

## Where the code and its documentation disagree

Two, with a run that shows each:

1. README.md:557 says `"async": true` is safe to add; two overlapping hooks report the same
   tokens twice (`hook_twice`). None is lost over a transcript that is not replaced (`hook_async`;
   `NothingIsLost`). If it is replaced while they overlap, one can be: the invocation that sees
   the new file anchors the baseline in it, and one that still remembers the old file's baseline
   advances it past tokens that no record reports. No run lists this case, since its states take longer than a run may.
2. `PostgresSource.write` says an insert that had not fully succeeded would have raised; when
   two threads share a source, the failure of one silently empties the other's commit
   (`direct_threads`). A single writer, such as the worker of a BufferedEmitter, is safe.
Four that a property states as an exception, and that the runs of that property reach:

- `DirectSink` says that failures are counted, and its comment (sink.py:264) calls an iterable that
  raises while it is drained "one drop event"; no counter moves. `EveryRecordCounted` has a term,
  `undrained`, for what was pulled from it, and is what holds of every other failure.
- `_ratelimit.py` says that nothing is hidden, since the next line reports the count; the count is
  gone before the line is logged, and a logger that raises takes it along. `Conserved` has terms for
  these lines and their counts, `muted` and `mislaid`, and says that nothing else is lost.
- FR-024 of the Stop hook says that `app_id` must be non-blank. `_env` in `claude_code.py` judges a blank
  by `str.strip()`, the contract by its own class: a `TOKENWEIR_APP_ID` made only of a byte order
  mark has every record of the hook refused. `LostForItsIdAlone`, a part of `TurnsRecorded`, says so, and
  that no other inherited value of the model costs a turn its record. `TOKENWEIR_ENDPOINT`, which goes
  the same way, is one of the fields that stand for each other in `Contract`.
- The docstring of `apply` in `reconcile.py` says that a schema change between comparison and
  execution "produces an error and a rollback". Some go through: an index dropped
  there is not made again, a view replaced there is dropped, a default set there is overwritten, a lone
  subscription row inserted there becomes a price, and a role granted the view there loses it without a
  word. So `RateCardStillPrices`, `Converges`, `Retryable`, `PromiseKept`, `LegacyReconciles` and `GrantLossTold`
  speak of a database that was left alone since the comparison (`quiet`); `NothingRemoved`,
  `AppliedAsRead` and `NoInventedValue` do not.

Smaller ones, read off the same models:

- `EmitterStats.dropped` is "every record this client took responsibility for and did not
  deliver" (emitter.py:194); records left behind by a worker that a BaseException ended are in
  no counter. Hence the `~died` of `CloseSettles`, `FlushTruth` and `EveryRecordSettles`.
- `worker_alive` is not `False` after "any" `close()` (README.md:326): it stays `True` after one that timed
  out on a wedged sink.
- The window between the check of the closed flag and the write in `DirectSink.emit_batch`, which the
  comment there calls gone, remains, harmlessly: `EveryRecordCounted` and `WrittenIsStored` hold with a
  `close()` in it (`direct_write`).
- reconcile.py:1377 calls it the one promise of a plan that what it calls automatic can be
  executed. Three differences break it (`Unseen`): a relation of another table, or of
  another kind, that has the index's name; a rate card that is a view; a foreign key on the
  rate card's key. The statement then fails and nothing is changed.
- A role granted the view after the plan was read is not in the plan's signature; `apply` goes on,
  and names the role only in the plan it returns.
- A suppressed count is logged as of "the last" interval (`_ratelimit.py:118`); its
  occurrences may lie much further back.
- `normalize_phase` and `_parse_phase` "never raise"; a number of more than 4300 digits makes
  `int()` raise.
- `is_canonical_phase` accepts a label with a newline after it (`$` in its expression).

## Proofs

Every theorem holds for all values of the constants that satisfy the assumptions named in the
modules (sizes are natural numbers, or positive; sets of threads of which something is summed are
finite: `Writers`, `Threads`). What more a theorem assumes is in its statement, and in the
table's last column.

| Module | Theorem | States | Assumes |
|---|---|---|---|
| `BufferedEmitterProofs` | `TypeCorrect` | `TypeOK` | |
| | `RecordsConserved` | `Conservation` | |
| | `RetentionBounded` | `RetentionBound` | |
| | `SleepersHaveNothingToDo` | `NobodySleepsOnWork`, of `WorkerNeverSleepsOnWork`, `FlushersNotStranded`, `LingerNeverDelays` | |
| | `FlushTrue` | `FlushTruth` | |
| | `CloseAccounts` | `CloseSettles` | |
| | `SinkUsedByOneThread` | `SinkClosedLast` | |
| | `InOrderAtMostOnce` | `FifoAtMostOnce` | |
| | `PromiseKept` | `KeepsPromise`: the client implements `Delivery` | |
| `AMQPSinkProofs` | `BackoffIsJust` | `BackoffJust` | |
| | `ChurnIsBounded` | `ChurnBound` | |
| | `FailedDialsAreSpaced` | `FailedDialSpaced` | |
| | `ConnectionsAreKept` | `ConnectionsKept` | |
| `StopHookProofs` | `NothingIsLost` | `NeverLost` | no overlap, or no replacement |
| | `NothingIsReportedTwice` | `ReportedOnce` | no overlap |
| | `BaselineIsNotRewound` | `BaselineRewoundOnlyByReplacement` | no overlap |
| `DirectPathProofs` | `RecordsAreCounted` | `EveryRecordCounted` | |
| | `TransactionsAreEnded` | `NoOpenTransaction` | |
| | `CountersAreTrue` | `CountersTrue` | one writer |
| `MigrationRunnerProofs` | `HistoryIsTrue` | `HistoryTrue` | |
| | `Sequenced` | `AppliedInSequence` | |
| | `LockPreventsCollisions` | `NoCollision` | |
| | `ReviewedBeforeApplied` | `ReviewedWhole` | |
| `ReconcileProofs` | `Typed` | `TypeOK` | |
| | `NothingIsInvented` | `NoInventedValue` | |
| | `ReadIsApplied` | `AppliedAsRead` | |
| | `NothingGoesAway` | `NothingLost` | |
| | `StillPrices` | `RateCardStillPrices` | |
| | `PlansAreKept` | `PlanKept` | |
| `AttributionProofs` | `OneLane` | `PhaseIsOneLane`; with `SaysParsed` and `NormalizeTwice` for the taxonomy alone | |
| | `Attributed` | `AttributedToItsIteration` | |
| | `RefusedUnusable` | `RefusedIffUnusable` | |
| | `LossesKnown` | `TurnsRecorded` | |
| | `OneContract` | `WireAgrees` | |
| `WarnerProofs` | `LimitsTheRate` | `RateLimited` | |
| | `OccurrencesAccounted` | `Conserved` | |

The three assumptions of the last column are of the code's own kind: a host that runs one hook
after another, a transcript that is not replaced, a source used by one thread. Without the
second and third the properties are false: `hook_twice` and `direct_threads` find the counterexamples,
and the loss across a replacement is described above.

None of the properties is inductive alone. Each module has an invariant `IInv`, proved inductive
with one lemma for each conjunct and step (`Inductive`), from which its theorems follow. What each `IInv` adds is the
reason why the code is right:

*BufferedEmitter.* `Phase` says what the worker holds at each place of its code; without it a batch
could be counted that is not there. `Waits` holds the argument that `emit` may use `notify` and not
`notify_all`: when the worker sleeps idle, it is alone in the wait set, for a flusher waits
only while there is something to drain, and then the worker is not idle. So the one waiter
`notify` wakes is the worker. The same part says that a flusher in the wait set has a
living worker with something left to do. `Closing` says that a worker that ended without dying
left an empty buffer, and that nothing enters it afterwards. `Flushing` relates the
counters to what was accepted when a flush began. `Ordered` is the argument for the order: what was handed
over, what of the batch was not, and the buffer are one increasing sequence (`Line`), from which
steps take away or to whose end they add. `PromiseStep` takes the steps of the client one by one to a step of the
queue, `Accept`, `Settle`, `Shut`, `Abandon` or none; what it needs of sequences is that moving a
batch from the buffer to the worker leaves their concatenation as it was (`CutJoined`).

*AMQPSink.* `Excuses` says what the stored instants mean: the end of the backoff and of the dial window are
at most an interval after the last failure. `Windows` locates the remembered dials: those of the
current window are the last ones, and the code forgets all others, yet those `MaxDials` or more before
the window's first lie an interval earlier. That is the bound of twice the cap.

*StopHook.* `KeptIsStored` follows the record from the emitter's counters to the transport's: what
an invocation takes for kept has been stored. `Lossless` extends the property to the baselines that
invocations remember, which is where it fails for overlaps across a replacement. `Once`: records do not overlap, and the
baseline is past all of them, but for the one that the running invocation is about to pass.

*DirectPath.* `InHands` follows the batch of the one writer: what of it is in the transaction, and what the
store may hold. That every record is counted needs no such part and holds for any number of
threads: each step moves one batch between a caller's hands and one counter.

*MigrationRunner.* What a call computed before its loop may be stale when it is used. `Loops` says how
stale: it is an interval of versions with everything in front of it recorded. `Committing`: no two
transactions hold the next row, because the second statement waits for the first. `Exclusive`: with
every call locking, what is outstanding for the one inside is not recorded.

*Reconcile.* `Grown`: what the transaction sees has all that is committed, and perhaps more; every statement a plan
may contain (`Harmless`) keeps it so, and another tool changes only what the transaction has not
locked. `TrueValues` says where the older rows' values come from; it depends on the statements of a plan being those that
the comparison can derive, so the proof first shows of every rule of `PlanOf` which statements it may make
(`PlanType`). `Decided` keeps account of the plan: what was
executed and what is still to come are together the statements that were derived, and those that were read.
`Undisturbed`: while nobody else changes anything, the plan is the one of the committed
database, and `Restructured` follows the rate card through its statements. Plans are
flattened sequences; what `FlattenSeq` returns is proved from its definition (`FlattenIs`).

That a plan is kept has an invariant of its own, `KInv`, on top of that one, for while nobody else changes
anything. `Kept` says three things of the statements still to come. They are in an order in which none
undoes, or waits for, what a later one does (`InOrder`). Each finds what it asks of the database if those
before it are executed, but for what the comparison does not look at (`Ready`, `Unseen`). And every difference that is
left between the database and the schema is one that they remove (`Covered`). A fresh plan without a manual
step is such a list (`PlanReady`: one case to each kind of statement and each kind of difference). Executing
the first statement leaves such a list (`RestReady`, `RestCovered`), and a database covered by
no statements has an empty plan, under any baseline (`Finished`). `Told` is what `apply()` answers because of that.
`Keyless`, that what is not a table has no primary key, is needed for a view in the place of a table: the
comparison finds it by the key only. For the gateway's own database, `LegacyPlan` shows that the plan has
no manual step, is not empty, and that nothing is unseen.

*Warner.* `Windows`: the window of a reason ends an interval after its latest line, in the times
that were read, although calls may decide in another order than they read the clock.
`Accounts` is the conservation of occurrences; only a call that is logging carries a count.

*Attribution.* Most of the proof is about one text. What a text is collapsed to is a recursion over its
tokens; the proof describes it by a *layout* (`Lays`): the text cut into cells, each of one token that is no
separator or of one whole gap, whose ink is the collapsed text. Every text with ink in it has a layout
(`CollapseLays`, by a smallest counterexample over the prefixes) and only one (`LaysOnce`), so collapsing is
known by what it leaves. The reference `Says` reads places of the original text, the parser places of the
collapsed one; the cells carry one reading over to the other (`NameCells`, `NumberedParses`, and their
converses). `SaysParsed` is the sum of it: for a text of any length over any tokens, the phases that the reference
reads are those the parser finds. `NormalizeTwice`, that a normalized text is normalized to itself, is why
the two ends agree: what the orchestrator exports is read by the hook once more. The invariant itself
(`AlwaysFits`) is short. A waiting session's environment holds the texts exported for the session's own input, in all four
variables (`BlockFits`: a block leaves nothing of the environment under it), what was emitted for a session
is the record of that environment, and what was read is what the reader makes of a message. Of the
contract the proof shows that a record comes back from the wire as it was (`ReadBack`), that it is what the
schema describes (`RecordSchema`), and that what the schema describes is read (`SchemaRead`).

*Sums.* `EveryRecordCounted` and `Conserved` count what is in the hands of calls as the cardinality of a set,
so their proofs need only that a step adds one element to it or takes one away.

Every invariant and action property that a run checks and expects to hold is proved. Model-checked only
is liveness (`CloseReturns`, `Progress`, `EveryCallEnds`, `EveryCallReturns`): it rests on fairness and so on
ENABLED, and both are beyond the prover.

## Not modelled

- `migrations/sql/`: evaluated by Postgres. `Reconcile` has the schema's shape, not the daily view's
  arithmetic.
- `migrations/__main__.py` beyond the `reconcile` command: argument parsing, exit codes, and the
  redaction of a password, which is text.
- Text: the catalogue queries and the SQL of `reconcile.py`, the lexer of
  `destructive_statements`, the lines of a transcript, the encoding of a message, timestamps.
  They are modelled by what they decide.
- The time of a `flush` or `close` in seconds: a timeout is an action that may come at any moment.
- `source.py`: a protocol and a list. `parity.py`: an offline measurement.
- Interrupts (BaseException) inside a database write, and a broker that loses a message
  it was handed: the code promises nothing about either.

## Plan

Modelled, in the order of importance: BufferedEmitter with its proofs and its abstract
queue, AMQPSink, StopHook, DirectPath, MigrationRunner, Reconcile, Attribution, Warner.

What more could be modelled: BufferedEmitter composed with DirectPath and with AMQPSink, for the sum of
their counters (`StopHook` has the composition cut down to one record); `TokenTotals` with its four
fields apart; the daily view's join of usage and rates.
