-------------------------- MODULE BufferedEmitter --------------------------
(***************************************************************************)
(* The buffering client of src/src/tokenweir/emitter.py.                   *)
(*                                                                         *)
(* Any number of application threads offer records to a bounded buffer; a  *)
(* single worker thread drains it in batches into a sink; other threads    *)
(* flush() and close() the client.  All of them share one                  *)
(* threading.Condition, so every `with self._condition` block of the code  *)
(* is one atomic step here, and `waiting` is the condition's set of        *)
(* waiters that nobody has notified yet.  A thread that has been notified, *)
(* or whose timed wait expired, takes its next step when it gets the lock. *)
(*                                                                         *)
(* A record is the ordinal of its acceptance.  The sink is external: a     *)
(* call of it may last for ever, return, raise an Exception, raise a       *)
(* BaseException (which kills the worker), or call close() on the client.  *)
(***************************************************************************)
EXTENDS Integers, Sequences, FiniteSets

CONSTANTS
    MaxBuffer,      \* max_buffer
    BatchSize,      \* batch_size
    Worker,         \* the worker thread
    Flushers,       \* threads that call flush() once each
    Closers,        \* threads that call close() once each
    SinkMayKill,    \* whether the sink may raise a BaseException
    MaxOffers       \* bound on the records offered in one behaviour

\* What the constructor's validation guarantees of its arguments.
ASSUME ConfigAssumption ==
    /\ MaxBuffer \in Nat \ {0}
    /\ BatchSize \in Nat \ {0}
    /\ MaxOffers \in Nat
    /\ SinkMayKill \in BOOLEAN

\* Threads are distinct from each other.
ASSUME ThreadAssumption ==
    /\ Worker \notin Flushers
    /\ Worker \notin Closers

VARIABLES
    \* configuration resolved in __init__
    emitBatch,      \* whether the sink has emit_batch
    linger,         \* whether linger > 0
    \* state guarded by the condition
    buffer,         \* _buffer
    inFlight,       \* _in_flight
    flushWaiters,   \* the flush() calls _flush_waiters counts
    stopping,       \* _stopping
    closed,         \* _closed
    sinkClosed,     \* _sink_closed
    workerAlive,    \* _worker_alive
    accepted, delivered, failed,
    droppedBufferFull, droppedNotARecord, droppedClosed, droppedAtClose,
    waiting,        \* the condition's waiters not notified yet
    \* control and locals of the threads
    pc,             \* where the worker is
    batch,          \* the worker's batch: what it has not counted yet
    flushPc, closePc,
    \* history
    handed,         \* records whose sink call has ended, in order
    died,           \* a BaseException ended the worker
    flushFrom,      \* accepted when the flush began
    flushResult     \* what the flush returned

config == <<emitBatch, linger>>
counters == <<accepted, delivered, failed, droppedBufferFull,
              droppedNotARecord, droppedClosed, droppedAtClose>>
flushVars == <<flushWaiters, flushPc, flushFrom, flushResult>>
workerVars == <<pc, batch, inFlight, workerAlive, sinkClosed, handed, died>>
closeVars == <<closePc, stopping, closed>>
vars == <<config, buffer, waiting, counters, flushVars, workerVars, closeVars>>

InCall == {"call", "count_ok", "count_fail"}
WorkerPcs == {"next", "idle", "linger", "post", "finally",
              "close_sink", "in_close", "dead"} \cup InCall

Init ==
    /\ emitBatch \in BOOLEAN
    /\ linger \in BOOLEAN
    /\ buffer = <<>> /\ waiting = {}
    /\ accepted = 0 /\ delivered = 0 /\ failed = 0
    /\ droppedBufferFull = 0 /\ droppedNotARecord = 0
    /\ droppedClosed = 0 /\ droppedAtClose = 0
    /\ flushWaiters = {}
    /\ flushPc = [f \in Flushers |-> "out"]
    /\ flushFrom = [f \in Flushers |-> 0]
    /\ flushResult = [f \in Flushers |-> FALSE]
    /\ pc = "next" /\ batch = <<>> /\ inFlight = 0
    /\ workerAlive = TRUE /\ sinkClosed = FALSE
    /\ handed = <<>> /\ died = FALSE
    /\ closePc = [c \in Closers |-> "out"]
    /\ stopping = FALSE /\ closed = FALSE

-----------------------------------------------------------------------------
(* threading.Condition *)

\* notify(): wake one waiter, whichever it is.
Notify ==
    \/ waiting = {} /\ UNCHANGED waiting
    \/ \E t \in waiting : waiting' = waiting \ {t}

NotifyAll == waiting' = {}

-----------------------------------------------------------------------------
(* _offer, called by emit and, per record, by emit_batch *)

MayOffer ==
    accepted + droppedBufferFull + droppedNotARecord + droppedClosed < MaxOffers

\* Mutant: the bound is off by one.
HasRoomForOneMore == Len(buffer) <= MaxBuffer

HasRoom == Len(buffer) < MaxBuffer

\* Mutant: the notify() is missing.
TakeInSilently ==
    /\ accepted' = accepted + 1
    /\ buffer' = Append(buffer, accepted + 1)
    /\ UNCHANGED waiting

TakeIn ==
    /\ accepted' = accepted + 1
    /\ buffer' = Append(buffer, accepted + 1)
    /\ Notify

OfferNotARecord ==
    /\ MayOffer
    /\ droppedNotARecord' = droppedNotARecord + 1
    /\ UNCHANGED <<config, buffer, waiting, accepted, delivered, failed,
                   droppedBufferFull, droppedClosed, droppedAtClose,
                   flushVars, workerVars, closeVars>>

OfferClosed ==
    /\ MayOffer
    /\ closed
    /\ droppedClosed' = droppedClosed + 1
    /\ UNCHANGED <<config, buffer, waiting, accepted, delivered, failed,
                   droppedBufferFull, droppedNotARecord, droppedAtClose,
                   flushVars, workerVars, closeVars>>

OfferFull ==
    /\ MayOffer
    /\ ~closed
    /\ ~HasRoom
    /\ droppedBufferFull' = droppedBufferFull + 1
    /\ UNCHANGED <<config, buffer, waiting, accepted, delivered, failed,
                   droppedNotARecord, droppedClosed, droppedAtClose,
                   flushVars, workerVars, closeVars>>

OfferAccepted ==
    /\ MayOffer
    /\ ~closed
    /\ HasRoom
    /\ TakeIn
    /\ UNCHANGED <<config, delivered, failed, droppedBufferFull,
                   droppedNotARecord, droppedClosed, droppedAtClose,
                   flushVars, workerVars, closeVars>>

Offer == OfferNotARecord \/ OfferClosed \/ OfferFull \/ OfferAccepted

-----------------------------------------------------------------------------
(* _next_batch *)

\* The worker holds the lock at the head of the idle loop.
AtIdleLoop == pc = "next" \/ (pc = "idle" /\ Worker \notin waiting)

\* The condition of the linger loop, the deadline apart.
KeepLingering ==
    /\ Len(buffer) < BatchSize
    /\ ~stopping
    /\ flushWaiters = {}

WorkerWaits ==
    /\ AtIdleLoop
    /\ buffer = <<>> /\ ~stopping
    /\ pc' = "idle"
    /\ waiting' = waiting \cup {Worker}
    /\ UNCHANGED <<config, buffer, counters, flushVars, batch, inFlight,
                   workerAlive, sinkClosed, handed, died, closeVars>>

\* The batch is None: the client is closed and the buffer is empty.
WorkerStops ==
    /\ AtIdleLoop
    /\ buffer = <<>> /\ stopping
    /\ pc' = "finally"
    /\ UNCHANGED <<config, buffer, waiting, counters, flushVars, batch, inFlight,
                   workerAlive, sinkClosed, handed, died, closeVars>>

\* Enter the timed wait, or wait again after a notification that did not end it.
WorkerLingers ==
    /\ \/ AtIdleLoop /\ buffer # <<>> /\ linger
       \/ pc = "linger" /\ Worker \notin waiting
    /\ KeepLingering
    /\ pc' = "linger"
    /\ waiting' = waiting \cup {Worker}
    /\ UNCHANGED <<config, buffer, counters, flushVars, batch, inFlight,
                   workerAlive, sinkClosed, handed, died, closeVars>>

BatchLen == IF Len(buffer) < BatchSize THEN Len(buffer) ELSE BatchSize

\* Mutant: the slice deleted is one shorter than the slice taken.
RemainderPlusOne == SubSeq(buffer, BatchLen, Len(buffer))

Remainder == SubSeq(buffer, BatchLen + 1, Len(buffer))

\* Cut the batch off the buffer.  It is empty when close() abandoned the buffer
\* during the linger wait; _run then skips the delivery.
TakeBatch ==
    /\ batch' = SubSeq(buffer, 1, BatchLen)
    /\ buffer' = Remainder
    /\ inFlight' = BatchLen
    /\ pc' = IF BatchLen = 0 THEN "post" ELSE "call"

WorkerTakes ==
    /\ \/ AtIdleLoop /\ buffer # <<>> /\ (~linger \/ ~KeepLingering)
       \/ pc = "linger" /\ Worker \notin waiting /\ ~KeepLingering
    /\ TakeBatch
    /\ UNCHANGED <<config, waiting, counters, flushVars,
                   workerAlive, sinkClosed, handed, died, closeVars>>

\* The linger deadline passed.
LingerExpires ==
    /\ pc = "linger"
    /\ TakeBatch
    /\ waiting' = waiting \ {Worker}
    /\ UNCHANGED <<config, counters, flushVars,
                   workerAlive, sinkClosed, handed, died, closeVars>>

-----------------------------------------------------------------------------
(* _deliver and the loop of _run *)

\* How many records one sink call carries.
CallLen == IF emitBatch THEN Len(batch) ELSE 1

\* The call in progress ends by returning or raising an Exception.
SinkReturns ==
    /\ pc = "call"
    /\ pc' \in {"count_ok", "count_fail"}
    /\ handed' = handed \o SubSeq(batch, 1, CallLen)
    /\ UNCHANGED <<config, buffer, waiting, counters, flushVars, batch, inFlight,
                   workerAlive, sinkClosed, died, closeVars>>

\* The call raises a BaseException, which neither _deliver nor _run stops.
SinkKillsWorker ==
    /\ SinkMayKill
    /\ pc = "call"
    /\ pc' = "finally"
    /\ died' = TRUE
    /\ handed' = handed \o SubSeq(batch, 1, CallLen)
    /\ UNCHANGED <<config, buffer, waiting, counters, flushVars, batch, inFlight,
                   workerAlive, sinkClosed, closeVars>>

Shut == closed' = TRUE /\ stopping' = TRUE /\ NotifyAll

\* close() on the worker's own thread, from inside the sink: no join.
SinkCallsClose ==
    /\ pc = "call"
    /\ ~closed
    /\ Shut
    /\ UNCHANGED <<config, buffer, counters, flushVars, workerVars, closePc>>

\* _count_delivered or _count_failed, then the next record of the batch.
WorkerCounts ==
    /\ pc \in {"count_ok", "count_fail"}
    /\ delivered' = IF pc = "count_ok" THEN delivered + CallLen ELSE delivered
    /\ failed' = IF pc = "count_fail" THEN failed + CallLen ELSE failed
    /\ batch' = SubSeq(batch, CallLen + 1, Len(batch))
    /\ pc' = IF Len(batch) = CallLen THEN "post" ELSE "call"
    /\ UNCHANGED <<config, buffer, waiting, accepted, droppedBufferFull,
                   droppedNotARecord, droppedClosed, droppedAtClose, flushVars,
                   inFlight, workerAlive, sinkClosed, handed, died, closeVars>>

\* Mutant: _in_flight goes down by a full batch instead of to 0.
ReleaseFullBatch == inFlight' = inFlight - BatchSize /\ NotifyAll

\* Mutant: notify() instead of notify_all().
ReleaseNotifyingOne == inFlight' = 0 /\ Notify

\* Nothing is in flight any more; tell everybody who waits for that.
Release == inFlight' = 0 /\ NotifyAll

WorkerEndsBatch ==
    /\ pc = "post"
    /\ Release
    /\ pc' = "next"
    /\ UNCHANGED <<config, buffer, counters, flushVars, batch,
                   workerAlive, sinkClosed, handed, died, closeVars>>

\* The finally block of _run.
WorkerFinally ==
    /\ pc = "finally"
    /\ workerAlive' = FALSE
    /\ Release
    /\ pc' = "close_sink"
    /\ UNCHANGED <<config, buffer, counters, flushVars, batch,
                   sinkClosed, handed, died, closeVars>>

\* _close_sink: set the flag under the lock, then call the sink's close.
WorkerClosesSink ==
    /\ pc = "close_sink"
    /\ ~sinkClosed
    /\ sinkClosed' = TRUE
    /\ pc' = "in_close"
    /\ UNCHANGED <<config, buffer, waiting, counters, flushVars, batch, inFlight,
                   workerAlive, handed, died, closeVars>>

\* The sink's close returned or raised; from here is_alive() is false.
SinkCloseReturns ==
    /\ pc = "in_close"
    /\ pc' = "dead"
    /\ UNCHANGED <<config, buffer, waiting, counters, flushVars, batch, inFlight,
                   workerAlive, sinkClosed, handed, died, closeVars>>

-----------------------------------------------------------------------------
(* flush *)

\* Mutant: a batch in flight is overlooked.
EmptyBuffer == buffer = <<>>

\* What flush() returns.
Empty == buffer = <<>> /\ inFlight = 0

\* The predicate of its wait_for.
Drained == ~workerAlive \/ Empty

FlushReturns(f) ==
    /\ flushPc' = [flushPc EXCEPT ![f] = "done"]
    /\ flushResult' = [flushResult EXCEPT ![f] = Empty]
    /\ flushWaiters' = flushWaiters \ {f}

\* notify_all, then wait.
NotifyAllAndWait(f) == waiting' = {f}

FlushBegins(f) ==
    /\ flushPc[f] = "out"
    /\ flushFrom' = [flushFrom EXCEPT ![f] = accepted]
    /\ IF Drained
       THEN FlushReturns(f) /\ NotifyAll
       ELSE /\ flushPc' = [flushPc EXCEPT ![f] = "wait"]
            /\ flushWaiters' = flushWaiters \cup {f}
            /\ NotifyAllAndWait(f)
            /\ UNCHANGED flushResult
    /\ UNCHANGED <<config, buffer, counters, workerVars, closeVars>>

\* Woken: return, or wait again.
FlushWakes(f) ==
    /\ flushPc[f] = "wait" /\ f \notin waiting
    /\ IF Drained
       THEN FlushReturns(f) /\ UNCHANGED waiting
       ELSE /\ waiting' = waiting \cup {f}
            /\ UNCHANGED <<flushPc, flushWaiters, flushResult>>
    /\ UNCHANGED <<config, buffer, counters, flushFrom, workerVars, closeVars>>

FlushTimesOut(f) ==
    /\ flushPc[f] = "wait"
    /\ FlushReturns(f)
    /\ waiting' = waiting \ {f}
    /\ UNCHANGED <<config, buffer, counters, flushFrom, workerVars, closeVars>>

-----------------------------------------------------------------------------
(* close, also what _close_all_at_exit calls *)

CloseBegins(c) ==
    /\ closePc[c] = "out"
    /\ ~closed
    /\ Shut
    /\ closePc' = [closePc EXCEPT ![c] = "join"]
    /\ UNCHANGED <<config, buffer, counters, flushVars, workerVars>>

\* Somebody closed the client before: return at once.
CloseAgain(c) ==
    /\ closePc[c] = "out"
    /\ closed
    /\ closePc' = [closePc EXCEPT ![c] = "ignored"]
    /\ UNCHANGED <<config, buffer, waiting, counters, flushVars, workerVars,
                   stopping, closed>>

CloseJoins(c) ==
    /\ closePc[c] = "join"
    /\ pc = "dead"
    /\ closePc' = [closePc EXCEPT ![c] = "done"]
    /\ UNCHANGED <<config, buffer, waiting, counters, flushVars, workerVars,
                   stopping, closed>>

\* Mutant: join() without a timeout.
JoinNeverExpires == FALSE

JoinExpires == pc # "dead"

\* Mutant: a close() that timed out returns without touching the buffer.
ReturnAtOnce == "done"

AfterTimeout == "abandon"

\* join(timeout) expired and is_alive() is still true.
CloseTimesOut(c) ==
    /\ closePc[c] = "join"
    /\ JoinExpires
    /\ closePc' = [closePc EXCEPT ![c] = AfterTimeout]
    /\ UNCHANGED <<config, buffer, waiting, counters, flushVars, workerVars,
                   stopping, closed>>

\* Mutant: the newest record is spared.
AbandonAllButTheLast ==
    /\ droppedAtClose' = droppedAtClose + (IF buffer = <<>> THEN 0 ELSE Len(buffer) - 1)
    /\ buffer' = IF buffer = <<>> THEN <<>> ELSE <<buffer[Len(buffer)]>>
    /\ UNCHANGED sinkClosed

\* Mutant: the abandoned records are counted and left in the buffer.
AbandonKeeping ==
    /\ droppedAtClose' = droppedAtClose + Len(buffer)
    /\ UNCHANGED <<buffer, sinkClosed>>

\* Mutant: the caller of close() closes the sink itself.
AbandonClosingSink ==
    /\ droppedAtClose' = droppedAtClose + Len(buffer)
    /\ buffer' = <<>>
    /\ sinkClosed' = TRUE

Abandon ==
    /\ droppedAtClose' = droppedAtClose + Len(buffer)
    /\ buffer' = <<>>
    /\ UNCHANGED sinkClosed

CloseAbandons(c) ==
    /\ closePc[c] = "abandon"
    /\ Abandon
    /\ closePc' = [closePc EXCEPT ![c] = "done"]
    /\ UNCHANGED <<config, waiting, accepted, delivered, failed, droppedBufferFull,
                   droppedNotARecord, droppedClosed, flushVars, pc, batch, inFlight,
                   workerAlive, handed, died, stopping, closed>>

-----------------------------------------------------------------------------

\* Steps of the worker that need nothing but the lock.
WorkerStep ==
    \/ WorkerWaits \/ WorkerStops \/ WorkerLingers \/ WorkerTakes \/ LingerExpires
    \/ WorkerCounts \/ WorkerEndsBatch \/ WorkerFinally \/ WorkerClosesSink

SinkStep == SinkReturns \/ SinkKillsWorker \/ SinkCloseReturns

FlushStep(f) == FlushBegins(f) \/ FlushWakes(f) \/ FlushTimesOut(f)

CloseStep(c) ==
    \/ CloseBegins(c) \/ CloseAgain(c)
    \/ CloseJoins(c) \/ CloseTimesOut(c) \/ CloseAbandons(c)

Next ==
    \/ Offer
    \/ WorkerStep
    \/ SinkStep \/ SinkCallsClose
    \/ \E f \in Flushers : FlushStep(f)
    \/ \E c \in Closers : CloseStep(c)

Spec == Init /\ [][Next]_vars
-----------------------------------------------------------------------------
(* Properties *)

\* Every variable has its type.
TypeOK ==
    /\ emitBatch \in BOOLEAN /\ linger \in BOOLEAN
    /\ buffer \in Seq(Nat) /\ batch \in Seq(Nat) /\ handed \in Seq(Nat)
    /\ inFlight \in Nat
    /\ flushWaiters \subseteq Flushers
    /\ stopping \in BOOLEAN /\ closed \in BOOLEAN
    /\ sinkClosed \in BOOLEAN /\ workerAlive \in BOOLEAN
    /\ accepted \in Nat /\ delivered \in Nat /\ failed \in Nat
    /\ droppedBufferFull \in Nat /\ droppedNotARecord \in Nat
    /\ droppedClosed \in Nat /\ droppedAtClose \in Nat
    /\ waiting \subseteq Flushers \cup {Worker}
    /\ pc \in WorkerPcs
    /\ flushPc \in [Flushers -> {"out", "wait", "done"}]
    /\ closePc \in [Closers -> {"out", "join", "abandon", "done", "ignored"}]
    /\ died \in BOOLEAN
    /\ flushFrom \in [Flushers -> Nat]
    /\ flushResult \in [Flushers -> BOOLEAN]

\* The counters stats() reports account for every accepted record exactly once,
\* at every step of the delivery and whatever close() abandons concurrently with
\* the worker: an accepted record is counted delivered, failed or abandoned, or
\* it is in the buffer, or in the batch the worker holds.
Conservation ==
    accepted = delivered + failed + droppedAtClose + Len(buffer) + Len(batch)

\* The client never retains more than one full buffer and one full batch
\* (README: memory is bounded by max_buffer + batch_size), and _in_flight is
\* positive whenever a living worker holds records: the drained test of flush()
\* never overlooks a batch.
RetentionBound ==
    /\ Len(buffer) <= MaxBuffer
    /\ Len(batch) <= BatchSize
    /\ (workerAlive /\ inFlight = 0) => batch = <<>>

\* Records reach the sink in the order they were accepted, and no record reaches
\* it twice, whatever fails, lingers or is abandoned: what was handed over, what
\* the worker still has to hand over and the buffer are together increasing.
Unhanded ==
    IF pc \in {"count_ok", "count_fail"} \/ died
    THEN SubSeq(batch, CallLen + 1, Len(batch))
    ELSE batch

FifoAtMostOnce ==
    LET line == handed \o Unhanded \o buffer
    IN  \A i, j \in 1..Len(line) : i < j => line[i] < line[j]

\* A worker that sleeps without a timeout and that nobody has notified has
\* nothing to do.  emit() wakes only one waiter, and flush() waits on the same
\* condition: the wakeup must never have gone to a flusher instead.
NoLostWakeup ==
    (pc = "idle" /\ Worker \in waiting) => buffer = <<>> /\ ~stopping

\* A flusher that nobody has notified has something to wait for: a living worker
\* with records to deliver, or about to stop, which both end in a notify_all.
NoStrandedFlusher ==
    \A f \in Flushers :
        (flushPc[f] = "wait" /\ f \in waiting) =>
            workerAlive /\ (buffer # <<>> \/ inFlight # 0 \/ stopping)

\* Batching never delays a flush or a shutdown: a worker asleep in its linger
\* wait and not notified has no flush() waiting, no close(), and no full batch.
LingerCutShort ==
    (pc = "linger" /\ Worker \in waiting) => KeepLingering

\* One condition, shared by the worker and every flush() caller: whoever sleeps on it
\* without a wakeup on its way has nothing to do, whatever the order in which records,
\* batches, flushes, the end of the worker and close() come.
NobodySleepsOnWork == NoLostWakeup /\ NoStrandedFlusher /\ LingerCutShort

\* When flush() returns TRUE, every record accepted before the call has been
\* counted, as long as the sink did not kill the worker.
FlushTruth ==
    \A f \in Flushers :
        (flushPc[f] = "done" /\ flushResult[f] /\ ~died) =>
            delivered + failed + droppedAtClose >= flushFrom[f]

\* When close() has returned to the caller that closed the client, the buffer is
\* empty for good and each accepted record is counted or is in the sink call
\* the worker is still inside, unless the sink killed the worker.
CloseSettles ==
    \A c \in Closers :
        (closePc[c] = "done" /\ ~died) =>
            /\ buffer = <<>>
            /\ accepted = delivered + failed + droppedAtClose + Len(batch)
            /\ batch # <<>> => pc \in InCall

\* One thread uses the sink: it is never closed while the worker is inside a
\* sink call or can still enter one.
SinkClosedLast ==
    sinkClosed => pc \in {"in_close", "dead"} /\ ~workerAlive

-----------------------------------------------------------------------------
(* Refinement *)

\* The worker's batch and the buffer are one queue.
Promise == INSTANCE Delivery WITH
    Capacity <- MaxBuffer + BatchSize,
    queue <- batch \o buffer,
    abandoned <- droppedAtClose,
    shut <- closed

\* Batching, lingering, failures, timeouts and the death of the worker never show:
\* every step is a step of a bounded queue that settles its records in order and
\* once each, refuses records once closed, and gives none up before it is closed.
KeepsPromise == Promise!Spec

-----------------------------------------------------------------------------
(* Liveness *)

\* The operating system schedules every thread and every timer fires; nothing is
\* assumed of the sink, of the application, or of flush() timeouts.
Fairness ==
    /\ WF_vars(WorkerStep)
    /\ \A f \in Flushers : WF_vars(FlushWakes(f))
    /\ \A c \in Closers :
        WF_vars(CloseJoins(c) \/ CloseTimesOut(c) \/ CloseAbandons(c))

FairSpec == Spec /\ Fairness

\* The sink's calls end, by returning, raising or killing the worker.
SinkFair == WF_vars(SinkStep)

\* close() returns even when the sink never does.
CloseReturns ==
    \A c \in Closers :
        closePc[c] = "join" ~> closePc[c] = "done"

\* With a sink whose calls end, every accepted record is eventually counted,
\* unless the sink kills the worker: no record is left in the buffer because the
\* worker sleeps, lingers or stops too early.
EveryRecordSettles ==
    SinkFair =>
        \A n \in 1..MaxOffers :
            accepted >= n ~> (died \/ delivered + failed + droppedAtClose >= n)

\* With a sink whose calls end, a flush() without timeout returns, even when the
\* sink kills the worker under it.
FlushTerminates ==
    SinkFair =>
        \A f \in Flushers :
            flushPc[f] = "wait" ~> flushPc[f] = "done"

\* With a sink whose calls end, closing the client ends the worker, and the sink
\* is closed.
CloseReleasesSink ==
    SinkFair => (closed ~> (pc = "dead" /\ sinkClosed))

\* With a sink whose calls end, nothing waits for ever: each record is counted, each
\* flush() returns, and a client that is closed ends its worker and closes its sink.
Progress == EveryRecordSettles /\ FlushTerminates /\ CloseReleasesSink
=============================================================================
