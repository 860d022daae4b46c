----------------------- MODULE BufferedEmitterProofs -----------------------
(***************************************************************************)
(* Proofs about the buffering client, for every buffer bound, batch size,  *)
(* number of offers and set of flush() and close() callers.                *)
(*                                                                         *)
(* The inductive invariant adds to the properties what holds of the        *)
(* worker's locals at each point of its code (Phase), who can be in the    *)
(* condition's wait set (Waits), and what close() and flush() callers know *)
(* (Closing, Flushing).                                                    *)
(* The order of the records follows from Ordered, and that the client is   *)
(* a bounded queue from one lemma per step, PromiseStep.                   *)
(***************************************************************************)
EXTENDS BufferedEmitter, SequenceTheorems, TLAPS

Stopped == {"finally", "close_sink", "in_close", "dead"}

\* What the worker holds at each point of its code.
Phase ==
    /\ pc \in InCall => batch # <<>> /\ inFlight # 0 /\ ~died
    /\ pc \in {"next", "idle", "linger"} => batch = <<>> /\ inFlight = 0
    /\ pc = "post" => batch = <<>>
    /\ died => pc \in Stopped
    /\ (pc \in Stopped /\ ~died) => batch = <<>> /\ inFlight = 0
    /\ (pc = "finally" /\ died) => inFlight # 0
    /\ pc \in {"close_sink", "in_close", "dead"} => inFlight = 0
    /\ workerAlive <=> pc \notin {"close_sink", "in_close", "dead"}
    /\ sinkClosed <=> pc \in {"in_close", "dead"}

\* The buffer and the batch are bounded.
Bounds == Len(buffer) <= MaxBuffer /\ Len(batch) <= BatchSize

\* Who can be in the wait set, and what then holds.
Waits ==
    /\ Worker \in waiting => pc \in {"idle", "linger"}
    /\ (pc = "idle" /\ Worker \in waiting) =>
            buffer = <<>> /\ ~stopping /\ waiting = {Worker}
    /\ LingerCutShort
    /\ flushWaiters = {f \in Flushers : flushPc[f] = "wait"}
    /\ \A f \in Flushers :
        f \in waiting =>
            /\ flushPc[f] = "wait"
            /\ workerAlive
            /\ buffer # <<>> \/ inFlight # 0 \/ stopping

\* What close() has done.
Closing ==
    /\ stopping = closed
    /\ (pc \in Stopped /\ ~died) => closed /\ buffer = <<>>
    /\ (pc = "linger" /\ buffer = <<>>) => closed
    /\ \A c \in Closers :
        /\ closePc[c] \in {"join", "abandon", "done"} => closed
        /\ (closePc[c] = "done" /\ ~died) => buffer = <<>>

\* What flush() has promised.
Flushing ==
    \A f \in Flushers :
        /\ flushFrom[f] <= accepted
        /\ (flushPc[f] = "done" /\ flushResult[f] /\ ~died) =>
                delivered + failed + droppedAtClose >= flushFrom[f]

\* What was handed over, what the worker still has to hand over, and the buffer.
Line == handed \o Unhanded \o buffer

\* The records of the line are in the order of their acceptance.
Ordered ==
    /\ \A i, j \in 1..Len(Line) : i < j => Line[i] < Line[j]
    /\ \A i \in 1..Len(Line) : Line[i] <= accepted

IInv ==
    TypeOK /\ Conservation /\ Phase /\ Bounds /\ Waits /\ Closing /\ Flushing

-----------------------------------------------------------------------------
(* Sequences: cutting a prefix off, and what the worker's cuts do *)

\* Cutting a sequence after its first k elements.
LEMMA Cut ==
    ASSUME NEW s \in Seq(Nat), NEW k \in 0..Len(s)
    PROVE  /\ SubSeq(s, 1, k) \in Seq(Nat)
           /\ Len(SubSeq(s, 1, k)) = k
           /\ SubSeq(s, k + 1, Len(s)) \in Seq(Nat)
           /\ Len(SubSeq(s, k + 1, Len(s))) = Len(s) - k
<1>1. Len(s) \in Nat /\ k \in Int /\ k <= Len(s) /\ 0 <= k
  BY LenProperties
<1>2. \A i \in 1..Len(s) : s[i] \in Nat
  BY ElementOfSeq
<1>3. (\A i \in 1..k : s[i] \in Nat) /\ (\A i \in (k + 1)..Len(s) : s[i] \in Nat)
  BY <1>1, <1>2
<1>4. /\ SubSeq(s, 1, k) \in Seq(Nat)
      /\ Len(SubSeq(s, 1, k)) = IF 1 <= k THEN k - 1 + 1 ELSE 0
  BY <1>1, <1>3, SubSeqProperties, Z3
<1>5. /\ SubSeq(s, k + 1, Len(s)) \in Seq(Nat)
      /\ Len(SubSeq(s, k + 1, Len(s))) =
            IF k + 1 <= Len(s) THEN Len(s) - (k + 1) + 1 ELSE 0
  BY <1>1, <1>3, SubSeqProperties, Z3
<1> QED
  BY <1>1, <1>4, <1>5

\* _next_batch moves BatchLen records from the buffer to the batch.
LEMMA TakeFacts ==
    ASSUME TypeOK, TakeBatch
    PROVE  /\ BatchLen \in Nat /\ BatchLen <= BatchSize /\ BatchLen <= Len(buffer)
           /\ batch' \in Seq(Nat) /\ Len(batch') = BatchLen
           /\ buffer' \in Seq(Nat) /\ Len(buffer') = Len(buffer) - BatchLen
           /\ inFlight' = BatchLen
           /\ BatchLen = 0 => buffer = <<>> /\ pc' = "post"
           /\ BatchLen # 0 => pc' = "call"
<1>1. buffer \in Seq(Nat) /\ Len(buffer) \in Nat
  BY LenProperties DEF TypeOK
<1>2. BatchLen \in 0..Len(buffer) /\ BatchLen \in Nat /\ BatchLen <= BatchSize
  BY <1>1, ConfigAssumption DEF BatchLen
<1>3. BatchLen = 0 => buffer = <<>>
  BY <1>1, ConfigAssumption, EmptySeq DEF BatchLen
<1> QED
  BY <1>1, <1>2, <1>3, Cut DEF TakeBatch, Remainder

\* A sink call carries at least one record of the batch.
LEMMA CallFacts ==
    ASSUME TypeOK, batch # <<>>
    PROVE  /\ CallLen \in Nat /\ 1 <= CallLen /\ CallLen <= Len(batch)
           /\ Len(batch) \in Nat
           /\ SubSeq(batch, 1, CallLen) \in Seq(Nat)
           /\ SubSeq(batch, CallLen + 1, Len(batch)) \in Seq(Nat)
           /\ Len(SubSeq(batch, CallLen + 1, Len(batch))) = Len(batch) - CallLen
<1>1. batch \in Seq(Nat) /\ Len(batch) \in Nat /\ Len(batch) # 0
  BY LenProperties, EmptySeq DEF TypeOK
<1>2. CallLen \in 1..Len(batch) /\ CallLen \in 0..Len(batch)
  BY <1>1 DEF CallLen
<1> QED
  BY <1>1, <1>2, Cut

-----------------------------------------------------------------------------
(* Each part of the invariant is preserved *)

\* Every action keeps the types: those of what it changes, by its definition, and
\* the others because it leaves them alone.
LEMMA TypeStep ==
    ASSUME TypeOK, Phase, [Next]_vars
    PROVE  TypeOK'
<1> USE DEF TypeOK, vars, config, counters, flushVars, workerVars, closeVars
<1>1. CASE OfferNotARecord \/ OfferClosed \/ OfferFull
  <2>1. /\ droppedNotARecord' \in Nat /\ droppedClosed' \in Nat
        /\ droppedBufferFull' \in Nat
    <3> HIDE DEF TypeOK
    <3>1. /\ droppedNotARecord \in Nat /\ droppedClosed \in Nat
          /\ droppedBufferFull \in Nat
      BY DEF TypeOK
    <3> QED
      BY <1>1, <3>1 DEF OfferNotARecord, OfferClosed, OfferFull
  <2>2. UNCHANGED <<config, buffer, waiting, accepted, delivered, failed,
                    droppedAtClose, flushVars, workerVars, closeVars>>
    BY <1>1, Zenon DEF OfferNotARecord, OfferClosed, OfferFull
  <2> QED
    BY <2>1, <2>2
<1>2. CASE OfferAccepted
  <2>1. Append(buffer, accepted + 1) \in Seq(Nat)
    <3>1. buffer \in Seq(Nat) /\ accepted + 1 \in Nat
      OBVIOUS
    <3> QED
      BY <3>1, AppendProperties
  <2>2. /\ buffer' \in Seq(Nat) /\ accepted' \in Nat
        /\ waiting' \subseteq Flushers \cup {Worker}
    BY <1>2, <2>1 DEF OfferAccepted, TakeIn, Notify
  <2>3. UNCHANGED <<config, delivered, failed, droppedBufferFull,
                    droppedNotARecord, droppedClosed, droppedAtClose,
                    flushVars, workerVars, closeVars>>
    BY <1>2 DEF OfferAccepted
  <2> QED
    BY <2>2, <2>3
<1>3. CASE WorkerTakes \/ LingerExpires
  <2>1. TakeBatch
    BY <1>3 DEF WorkerTakes, LingerExpires
  <2>2. /\ batch' \in Seq(Nat) /\ buffer' \in Seq(Nat) /\ inFlight' \in Nat
        /\ pc' \in WorkerPcs
    BY <2>1, TakeFacts DEF TakeBatch, WorkerPcs, InCall
  <2>3. waiting' \subseteq Flushers \cup {Worker}
    BY <1>3 DEF WorkerTakes, LingerExpires
  <2>4. UNCHANGED <<config, counters, flushVars, workerAlive, sinkClosed, handed,
                    died, closeVars>>
    BY <1>3 DEF WorkerTakes, LingerExpires
  <2> QED
    BY <2>2, <2>3, <2>4
<1>4. CASE WorkerWaits \/ WorkerStops \/ WorkerLingers
  <2>1. pc' \in WorkerPcs /\ waiting' \subseteq Flushers \cup {Worker}
    BY <1>4 DEF WorkerWaits, WorkerStops, WorkerLingers, WorkerPcs
  <2>2. UNCHANGED <<config, buffer, counters, flushVars, batch, inFlight,
                    workerAlive, sinkClosed, handed, died, closeVars>>
    BY <1>4 DEF WorkerWaits, WorkerStops, WorkerLingers
  <2> QED
    BY <2>1, <2>2
<1>5. CASE WorkerCounts
  <2>1. batch # <<>>
    BY <1>5 DEF WorkerCounts, Phase, InCall
  <2>2. /\ batch' \in Seq(Nat) /\ delivered' \in Nat /\ failed' \in Nat
        /\ pc' \in WorkerPcs
    <3> HIDE DEF TypeOK
    <3>1. delivered \in Nat /\ failed \in Nat
      BY DEF TypeOK
    <3> QED
      BY <1>5, <2>1, <3>1, CallFacts DEF WorkerCounts, WorkerPcs, InCall
  <2>3. UNCHANGED <<config, buffer, waiting, accepted, droppedBufferFull,
                    droppedNotARecord, droppedClosed, droppedAtClose, flushVars,
                    inFlight, workerAlive, sinkClosed, handed, died, closeVars>>
    BY <1>5 DEF WorkerCounts
  <2> QED
    BY <2>2, <2>3
<1>6. CASE WorkerEndsBatch \/ WorkerFinally
  <2>1. /\ inFlight' \in Nat /\ waiting' \subseteq Flushers \cup {Worker}
        /\ pc' \in WorkerPcs
    BY <1>6 DEF WorkerEndsBatch, WorkerFinally, Release, NotifyAll, WorkerPcs
  <2>2. workerAlive' \in BOOLEAN
    BY <1>6 DEF WorkerEndsBatch, WorkerFinally
  <2>3. UNCHANGED <<config, buffer, counters, flushVars, batch,
                    sinkClosed, handed, died, closeVars>>
    BY <1>6 DEF WorkerEndsBatch, WorkerFinally
  <2> QED
    BY <2>1, <2>2, <2>3
<1>7. CASE WorkerClosesSink \/ SinkCloseReturns
  <2>1. pc' \in WorkerPcs
    BY <1>7 DEF WorkerClosesSink, SinkCloseReturns, WorkerPcs
  <2>2. sinkClosed' \in BOOLEAN
    BY <1>7 DEF WorkerClosesSink, SinkCloseReturns
  <2>3. UNCHANGED <<config, buffer, waiting, counters, flushVars, batch, inFlight,
                    workerAlive, handed, died, closeVars>>
    BY <1>7 DEF WorkerClosesSink, SinkCloseReturns
  <2> QED
    BY <2>1, <2>2, <2>3
<1>8. CASE SinkReturns \/ SinkKillsWorker
  <2>1. batch # <<>>
    BY <1>8 DEF SinkReturns, SinkKillsWorker, Phase, InCall
  <2>2. SubSeq(batch, 1, CallLen) \in Seq(Nat)
    BY <2>1, CallFacts
  <2>3. handed \o SubSeq(batch, 1, CallLen) \in Seq(Nat)
    BY <2>2, ConcatProperties
  <2>4. handed' \in Seq(Nat) /\ pc' \in WorkerPcs
    BY <1>8, <2>3 DEF SinkReturns, SinkKillsWorker, WorkerPcs, InCall
  <2>5. died' \in BOOLEAN
    BY <1>8 DEF SinkReturns, SinkKillsWorker
  <2>6. UNCHANGED <<config, buffer, waiting, counters, flushVars, batch, inFlight,
                    workerAlive, sinkClosed, closeVars>>
    BY <1>8 DEF SinkReturns, SinkKillsWorker
  <2> QED
    BY <2>4, <2>5, <2>6
<1>9. CASE SinkCallsClose
  <2>1. waiting' \subseteq Flushers \cup {Worker}
    BY <1>9 DEF SinkCallsClose, Shut, NotifyAll
  <2>2. closed' \in BOOLEAN /\ stopping' \in BOOLEAN
    BY <1>9 DEF SinkCallsClose, Shut
  <2>3. UNCHANGED <<config, buffer, counters, flushVars, workerVars, closePc>>
    BY <1>9 DEF SinkCallsClose
  <2> QED
    BY <2>1, <2>2, <2>3
<1>10. ASSUME NEW f \in Flushers, FlushStep(f)
       PROVE  TypeOK'
  <2> USE <1>10 DEF FlushStep, FlushBegins, FlushWakes, FlushTimesOut, FlushReturns,
                    NotifyAllAndWait, NotifyAll
  <2>1. /\ flushWaiters' \subseteq Flushers
        /\ waiting' \subseteq Flushers \cup {Worker}
    OBVIOUS
  <2>2. flushPc' \in [Flushers -> {"out", "wait", "done"}]
    OBVIOUS
  <2>3. flushFrom' \in [Flushers -> Nat]
    OBVIOUS
  <2>4. Empty \in BOOLEAN
    BY DEF Empty
  <2>5. flushResult' \in [Flushers -> BOOLEAN]
    BY <2>4
  <2>6. UNCHANGED <<config, buffer, counters, workerVars, closeVars>>
    OBVIOUS
  <2> QED
    BY <2>1, <2>2, <2>3, <2>5, <2>6
<1>11. ASSUME NEW c \in Closers, CloseStep(c)
       PROVE  TypeOK'
  <2> USE <1>11 DEF CloseStep, CloseBegins, CloseAgain, CloseJoins, CloseTimesOut,
                    CloseAbandons
  <2>1. closePc' \in [Closers -> {"out", "join", "abandon", "done", "ignored"}]
    BY DEF AfterTimeout
  <2>2. buffer' \in Seq(Nat) /\ waiting' \subseteq Flushers \cup {Worker}
    BY EmptySeq DEF Abandon, Shut, NotifyAll
  <2>3. droppedAtClose' \in Nat
    BY LenProperties DEF Abandon
  <2>4. closed' \in BOOLEAN /\ stopping' \in BOOLEAN
    BY DEF Shut
  <2>5. UNCHANGED <<config, accepted, delivered, failed, droppedBufferFull,
                    droppedNotARecord, droppedClosed, flushVars, workerVars>>
    BY DEF Abandon
  <2> QED
    BY <2>1, <2>2, <2>3, <2>4, <2>5
<1>12. CASE UNCHANGED vars
  BY <1>12
<1> QED
  BY <1>1, <1>2, <1>3, <1>4, <1>5, <1>6, <1>7, <1>8, <1>9, <1>10, <1>11, <1>12
     DEF Next, Offer, WorkerStep, SinkStep

\* No action loses or duplicates a record.
LEMMA ConservationStep ==
    ASSUME TypeOK, Phase, Conservation, [Next]_vars
    PROVE  Conservation'
<1> USE DEF Conservation, vars, config, counters, flushVars, workerVars, closeVars
<1>0. /\ accepted \in Nat /\ delivered \in Nat /\ failed \in Nat
      /\ droppedAtClose \in Nat /\ Len(buffer) \in Nat /\ Len(batch) \in Nat
  BY LenProperties DEF TypeOK
<1>1. CASE Offer
  <2>1. Len(Append(buffer, accepted + 1)) = Len(buffer) + 1
    BY <1>0, AppendProperties DEF TypeOK
  <2> QED
    BY SMTT(30), <1>0, <1>1, <2>1 DEF Offer, OfferNotARecord, OfferClosed, OfferFull,
                            OfferAccepted, TakeIn
<1>2. CASE WorkerTakes \/ LingerExpires
  <2>1. batch = <<>>
    BY <1>2 DEF WorkerTakes, LingerExpires, AtIdleLoop, Phase
  <2>2. Len(batch) = 0
    BY <2>1
  <2>3. TakeBatch
    BY <1>2 DEF WorkerTakes, LingerExpires
  <2> QED
    BY SMTT(30), <1>0, <1>2, <2>2, <2>3, TakeFacts DEF WorkerTakes, LingerExpires
<1>3. CASE WorkerWaits \/ WorkerStops \/ WorkerLingers
  BY <1>3 DEF WorkerWaits, WorkerStops, WorkerLingers
<1>4. CASE WorkerCounts
  <2>1. batch # <<>>
    BY <1>4 DEF WorkerCounts, Phase, InCall
  <2>2. Len(batch') = Len(batch) - CallLen
    BY <1>4, <2>1, CallFacts DEF WorkerCounts
  <2>3. CallLen \in Nat
    BY <2>1, CallFacts
  <2>4. delivered' + failed' = delivered + failed + CallLen
    BY <1>0, <1>4, <2>3 DEF WorkerCounts
  <2>5. accepted' = accepted /\ droppedAtClose' = droppedAtClose /\ buffer' = buffer
    BY <1>4 DEF WorkerCounts
  <2>6. delivered' \in Nat /\ failed' \in Nat
    BY <1>0, <1>4, <2>3 DEF WorkerCounts
  <2>7. accepted = (delivered' + failed') + droppedAtClose + Len(buffer)
                     + (Len(batch) - CallLen)
    BY <1>0, <2>3, <2>4
  <2> QED
    BY <2>2, <2>5, <2>7
<1>5. CASE WorkerEndsBatch \/ WorkerFinally \/ WorkerClosesSink
  BY <1>5 DEF WorkerEndsBatch, WorkerFinally, WorkerClosesSink, Release, NotifyAll
<1>6. CASE SinkReturns \/ SinkKillsWorker \/ SinkCloseReturns \/ SinkCallsClose
  BY <1>6 DEF SinkReturns, SinkKillsWorker, SinkCloseReturns, SinkCallsClose
<1>7. ASSUME NEW f \in Flushers, FlushStep(f)
      PROVE  Conservation'
  BY <1>7 DEF FlushStep, FlushBegins, FlushWakes, FlushTimesOut
<1>8. ASSUME NEW c \in Closers, CloseStep(c)
      PROVE  Conservation'
  <2>1. Len(<<>>) = 0
    OBVIOUS
  <2> QED
    BY <1>0, <1>8, <2>1 DEF CloseStep, CloseBegins, CloseAgain, CloseJoins,
                            CloseTimesOut, CloseAbandons, Abandon
<1>9. CASE UNCHANGED vars
  BY <1>9
<1> QED
  BY <1>1, <1>2, <1>3, <1>4, <1>5, <1>6, <1>7, <1>8, <1>9
     DEF Next, WorkerStep, SinkStep

\* The worker's locals at each point of its code.
LEMMA PhaseStep ==
    ASSUME TypeOK, Phase, Closing, [Next]_vars
    PROVE  Phase'
<1> USE DEF Phase, InCall, Stopped, vars, config, counters, flushVars, workerVars,
            closeVars
<1>1. CASE Offer
  BY <1>1 DEF Offer, OfferNotARecord, OfferClosed, OfferFull, OfferAccepted, TakeIn
<1>2. CASE WorkerTakes \/ LingerExpires
  <2>1. TakeBatch
    BY <1>2 DEF WorkerTakes, LingerExpires
  <2>2. pc \in {"next", "idle", "linger"}
    BY <1>2 DEF WorkerTakes, LingerExpires, AtIdleLoop
  <2>3. UNCHANGED <<workerAlive, sinkClosed, died>>
    BY <1>2 DEF WorkerTakes, LingerExpires
  <2>4. CASE BatchLen = 0
    <3>1. Len(batch') = 0 /\ batch' \in Seq(Nat) /\ pc' = "post"
      BY <2>1, <2>4, TakeFacts
    <3>2. batch' = <<>>
      BY <3>1, EmptySeq
    <3> QED
      BY <2>2, <2>3, <3>1, <3>2
  <2>5. CASE BatchLen # 0
    <3>1. Len(batch') # 0 /\ pc' = "call" /\ inFlight' # 0
      BY <2>1, <2>5, TakeFacts
    <3>2. batch' # <<>>
      BY <3>1
    <3> QED
      BY <2>2, <2>3, <3>1, <3>2
  <2> QED
    BY <2>4, <2>5
<1>3. CASE WorkerWaits \/ WorkerStops \/ WorkerLingers
  BY <1>3 DEF WorkerWaits, WorkerStops, WorkerLingers, AtIdleLoop
<1>4. CASE WorkerCounts
  <2>1. batch # <<>> /\ inFlight # 0 /\ ~died
    BY <1>4 DEF WorkerCounts
  <2>2. UNCHANGED <<inFlight, workerAlive, sinkClosed, died>>
    BY <1>4 DEF WorkerCounts
  <2>3. CASE Len(batch) = CallLen
    <3>1. Len(batch') = 0 /\ batch' \in Seq(Nat) /\ pc' = "post"
      BY <1>4, <2>1, <2>3, CallFacts DEF WorkerCounts
    <3>2. batch' = <<>>
      BY <3>1, EmptySeq
    <3> QED
      BY <1>4, <2>1, <2>2, <3>1, <3>2 DEF WorkerCounts
  <2>4. CASE Len(batch) # CallLen
    <3>1. Len(batch') # 0 /\ pc' = "call"
      BY <1>4, <2>1, <2>4, CallFacts DEF WorkerCounts
    <3>2. batch' # <<>>
      BY <3>1
    <3> QED
      BY <1>4, <2>1, <2>2, <3>1, <3>2 DEF WorkerCounts
  <2> QED
    BY <2>3, <2>4
<1>5. CASE WorkerEndsBatch
  BY <1>5 DEF WorkerEndsBatch, Release
<1>6. CASE WorkerFinally
  BY <1>6 DEF WorkerFinally, Release
<1>7. CASE WorkerClosesSink \/ SinkCloseReturns
  BY <1>7 DEF WorkerClosesSink, SinkCloseReturns
<1>8. CASE SinkReturns \/ SinkKillsWorker \/ SinkCallsClose
  BY <1>8 DEF SinkReturns, SinkKillsWorker, SinkCallsClose
<1>9. ASSUME NEW f \in Flushers, FlushStep(f)
      PROVE  Phase'
  BY <1>9 DEF FlushStep, FlushBegins, FlushWakes, FlushTimesOut
<1>10. ASSUME NEW c \in Closers, CloseStep(c)
       PROVE  Phase'
  BY <1>10 DEF CloseStep, CloseBegins, CloseAgain, CloseJoins, CloseTimesOut,
               CloseAbandons, Abandon
<1>11. CASE UNCHANGED vars
  BY <1>11
<1> QED
  BY <1>1, <1>2, <1>3, <1>4, <1>5, <1>6, <1>7, <1>8, <1>9, <1>10, <1>11
     DEF Next, WorkerStep, SinkStep

\* Neither the buffer nor the batch outgrows its bound.
LEMMA BoundsStep ==
    ASSUME TypeOK, Phase, Bounds, [Next]_vars
    PROVE  Bounds'
<1> USE DEF Bounds, vars, config, counters, flushVars, workerVars, closeVars
<1>0. Len(buffer) \in Nat /\ Len(batch) \in Nat /\ MaxBuffer \in Nat /\ BatchSize \in Nat
  BY LenProperties, ConfigAssumption DEF TypeOK
<1>1. CASE Offer
  <2>1. Len(Append(buffer, accepted + 1)) = Len(buffer) + 1
    BY AppendProperties DEF TypeOK
  <2> QED
    BY <1>0, <1>1, <2>1 DEF Offer, OfferNotARecord, OfferClosed, OfferFull,
                            OfferAccepted, TakeIn, HasRoom
<1>2. CASE WorkerTakes \/ LingerExpires
  <2>1. TakeBatch
    BY <1>2 DEF WorkerTakes, LingerExpires
  <2> QED
    BY <1>0, <2>1, TakeFacts
<1>3. CASE WorkerWaits \/ WorkerStops \/ WorkerLingers
  BY <1>3 DEF WorkerWaits, WorkerStops, WorkerLingers
<1>4. CASE WorkerCounts
  <2>1. batch # <<>>
    BY <1>4 DEF WorkerCounts, Phase, InCall
  <2>2. Len(batch') = Len(batch) - CallLen /\ CallLen \in Nat
    BY <1>4, <2>1, CallFacts DEF WorkerCounts
  <2>3. buffer' = buffer
    BY <1>4 DEF WorkerCounts
  <2> QED
    BY <1>0, <2>2, <2>3
<1>5. CASE WorkerEndsBatch \/ WorkerFinally \/ WorkerClosesSink
  BY <1>5 DEF WorkerEndsBatch, WorkerFinally, WorkerClosesSink
<1>6. CASE SinkReturns \/ SinkKillsWorker \/ SinkCloseReturns \/ SinkCallsClose
  BY <1>6 DEF SinkReturns, SinkKillsWorker, SinkCloseReturns, SinkCallsClose
<1>7. ASSUME NEW f \in Flushers, FlushStep(f)
      PROVE  Bounds'
  BY <1>7 DEF FlushStep, FlushBegins, FlushWakes, FlushTimesOut
<1>8. ASSUME NEW c \in Closers, CloseStep(c)
      PROVE  Bounds'
  <2>1. Len(<<>>) = 0
    OBVIOUS
  <2> QED
    BY <1>0, <1>8, <2>1 DEF CloseStep, CloseBegins, CloseAgain, CloseJoins,
                            CloseTimesOut, CloseAbandons, Abandon
<1>9. CASE UNCHANGED vars
  BY <1>9
<1> QED
  BY <1>1, <1>2, <1>3, <1>4, <1>5, <1>6, <1>7, <1>8, <1>9
     DEF Next, WorkerStep, SinkStep

\* What close() has done stays done.
LEMMA ClosingStep ==
    ASSUME TypeOK, Phase, Closing, [Next]_vars
    PROVE  Closing'
<1> USE DEF Closing, Stopped, vars, config, counters, flushVars, workerVars, closeVars
<1>1. CASE Offer
  <2>1. CASE OfferAccepted
    <3>1. ~closed /\ UNCHANGED <<pc, closeVars, died>>
      BY <2>1 DEF OfferAccepted
    <3>2. buffer' # <<>>
      BY <2>1, AppendProperties DEF OfferAccepted, TakeIn, TypeOK
    <3>3. \A c \in Closers : closePc[c] \notin {"join", "abandon", "done"}
      BY <3>1
    <3> QED
      BY <3>1, <3>2, <3>3
  <2>2. CASE OfferNotARecord \/ OfferClosed \/ OfferFull
    BY <2>2 DEF OfferNotARecord, OfferClosed, OfferFull
  <2> QED
    BY <1>1, <2>1, <2>2 DEF Offer
<1>2. CASE WorkerTakes \/ LingerExpires
  <2>1. TakeBatch
    BY <1>2 DEF WorkerTakes, LingerExpires
  <2>2. pc' \in {"post", "call"}
    BY <2>1 DEF TakeBatch
  <2>3. buffer = <<>> => buffer' = <<>>
    <3>1. buffer = <<>> => Len(buffer) = 0
      OBVIOUS
    <3>2. buffer = <<>> => Len(buffer') = 0 /\ buffer' \in Seq(Nat)
      BY <2>1, <3>1, TakeFacts
    <3> QED
      BY <3>2, EmptySeq
  <2>4. UNCHANGED <<closeVars, died>>
    BY <1>2 DEF WorkerTakes, LingerExpires
  <2> QED
    BY <2>2, <2>3, <2>4
<1>3. CASE WorkerWaits \/ WorkerStops
  BY <1>3 DEF WorkerWaits, WorkerStops
<1>4. CASE WorkerLingers
  BY <1>4 DEF WorkerLingers
<1>5. CASE WorkerCounts \/ WorkerEndsBatch \/ WorkerFinally \/ WorkerClosesSink
  BY <1>5 DEF WorkerCounts, WorkerEndsBatch, WorkerFinally, WorkerClosesSink
<1>6. CASE SinkReturns \/ SinkKillsWorker \/ SinkCloseReturns
  BY <1>6 DEF SinkReturns, SinkKillsWorker, SinkCloseReturns
<1>7. CASE SinkCallsClose
  BY <1>7 DEF SinkCallsClose, Shut
<1>8. ASSUME NEW f \in Flushers, FlushStep(f)
      PROVE  Closing'
  BY <1>8 DEF FlushStep, FlushBegins, FlushWakes, FlushTimesOut
<1>9. ASSUME NEW c \in Closers, CloseStep(c)
      PROVE  Closing'
  <2>1. CASE CloseBegins(c)
    BY <2>1 DEF CloseBegins, Shut, TypeOK
  <2>2. CASE CloseAgain(c) \/ CloseTimesOut(c)
    BY <2>2 DEF CloseAgain, CloseTimesOut, AfterTimeout, TypeOK
  <2>3. CASE CloseJoins(c)
    BY <2>3 DEF CloseJoins, TypeOK
  <2>4. CASE CloseAbandons(c)
    BY <2>4 DEF CloseAbandons, Abandon, TypeOK
  <2> QED
    BY <1>9, <2>1, <2>2, <2>3, <2>4 DEF CloseStep
<1>10. CASE UNCHANGED vars
  BY <1>10
<1> QED
  BY <1>1, <1>2, <1>3, <1>4, <1>5, <1>6, <1>7, <1>8, <1>9, <1>10
     DEF Next, WorkerStep, SinkStep

\* What flush() reported stays true: the counters only grow, and when it reports
\* TRUE nothing is left in the buffer or in the batch.
LEMMA FlushingStep ==
    ASSUME TypeOK, Conservation, Phase, Flushing, [Next]_vars
    PROVE  Flushing'
<1> USE DEF Flushing, vars, config, counters, flushVars, workerVars, closeVars
<1>0. /\ accepted \in Nat /\ delivered \in Nat /\ failed \in Nat
      /\ droppedAtClose \in Nat /\ Len(buffer) \in Nat /\ Len(batch) \in Nat
      /\ \A f \in Flushers : flushFrom[f] \in Nat
  BY LenProperties DEF TypeOK
<1>1. CASE Offer
  BY <1>0, <1>1 DEF Offer, OfferNotARecord, OfferClosed, OfferFull, OfferAccepted,
                    TakeIn
<1>2. CASE WorkerWaits \/ WorkerStops \/ WorkerLingers \/ WorkerTakes \/ LingerExpires
  BY <1>2 DEF WorkerWaits, WorkerStops, WorkerLingers, WorkerTakes, LingerExpires
<1>3. CASE WorkerCounts
  <2>1. batch # <<>>
    BY <1>3 DEF WorkerCounts, Phase, InCall
  <2>2. CallLen \in Nat
    BY <2>1, CallFacts
  <2>3. delivered' + failed' >= delivered + failed /\ delivered' \in Nat /\ failed' \in Nat
    BY <1>0, <1>3, <2>2 DEF WorkerCounts
  <2>4. /\ accepted' = accepted /\ droppedAtClose' = droppedAtClose
        /\ flushFrom' = flushFrom /\ flushPc' = flushPc /\ flushResult' = flushResult
        /\ died' = died
    BY <1>3 DEF WorkerCounts
  <2>5. delivered' + failed' + droppedAtClose >= delivered + failed + droppedAtClose
    BY <1>0, <2>3
  <2> QED
    BY <1>0, <2>3, <2>4, <2>5
<1>4. CASE WorkerEndsBatch \/ WorkerFinally \/ WorkerClosesSink
  BY <1>4 DEF WorkerEndsBatch, WorkerFinally, WorkerClosesSink
<1>5. CASE SinkReturns \/ SinkKillsWorker \/ SinkCloseReturns \/ SinkCallsClose
  BY <1>5 DEF SinkReturns, SinkKillsWorker, SinkCloseReturns, SinkCallsClose
<1>6. ASSUME NEW f \in Flushers, FlushStep(f)
      PROVE  Flushing'
  <2>1. (Empty /\ ~died) => delivered + failed + droppedAtClose = accepted
    <3>1. (Empty /\ ~died) => buffer = <<>> /\ batch = <<>>
      BY DEF Empty, Phase, InCall, Stopped, TypeOK, WorkerPcs
    <3>2. (Empty /\ ~died) => Len(buffer) = 0 /\ Len(batch) = 0
      BY <3>1
    <3> QED
      BY <1>0, <3>2 DEF Conservation
  <2>2. /\ accepted' = accepted /\ delivered' = delivered /\ failed' = failed
        /\ droppedAtClose' = droppedAtClose /\ died' = died
    BY <1>6 DEF FlushStep, FlushBegins, FlushWakes, FlushTimesOut
  <2>3. flushFrom'[f] <= accepted /\ flushFrom'[f] \in Nat
    BY <1>0, <1>6 DEF FlushStep, FlushBegins, FlushWakes, FlushTimesOut, TypeOK
  <2>4. (flushPc'[f] = "done" /\ flushResult'[f]) => Empty
    BY <1>6 DEF FlushStep, FlushBegins, FlushWakes, FlushTimesOut, FlushReturns, TypeOK
  <2>5. \A g \in Flushers \ {f} : /\ flushFrom'[g] = flushFrom[g]
                                  /\ flushPc'[g] = flushPc[g]
                                  /\ flushResult'[g] = flushResult[g]
    BY <1>6 DEF FlushStep, FlushBegins, FlushWakes, FlushTimesOut, FlushReturns, TypeOK
  <2>6. (flushPc'[f] = "done" /\ flushResult'[f] /\ ~died) =>
            delivered + failed + droppedAtClose >= flushFrom'[f]
    BY <1>0, <2>1, <2>3, <2>4
  <2> QED
    BY <2>2, <2>3, <2>5, <2>6
<1>7. ASSUME NEW c \in Closers, CloseStep(c)
      PROVE  Flushing'
  BY <1>0, <1>7 DEF CloseStep, CloseBegins, CloseAgain, CloseJoins, CloseTimesOut,
                    CloseAbandons, Abandon
<1>8. CASE UNCHANGED vars
  BY <1>8
<1> QED
  BY <1>1, <1>2, <1>3, <1>4, <1>5, <1>6, <1>7, <1>8 DEF Next, WorkerStep, SinkStep

\* The wait set.  The worker goes to sleep only when no flusher sleeps, so the
\* notify() of an emit reaches it; everybody who sleeps is woken by the
\* notify_all() of the step that ends what he waits for.
LEMMA WaitsStep ==
    ASSUME TypeOK, Phase, Closing, Waits, [Next]_vars
    PROVE  Waits'
<1> USE DEF Waits, LingerCutShort, KeepLingering, vars, config, counters, flushVars,
            workerVars, closeVars
<1>0. /\ waiting \subseteq Flushers \cup {Worker}
      /\ Len(buffer) \in Nat /\ BatchSize \in Nat
      /\ Worker \notin Flushers
      /\ flushWaiters \subseteq Flushers
  BY LenProperties, ConfigAssumption, ThreadAssumption DEF TypeOK
<1>1. CASE OfferNotARecord \/ OfferClosed \/ OfferFull
  BY <1>1 DEF OfferNotARecord, OfferClosed, OfferFull
<1>2. CASE OfferAccepted
  <2>1. /\ UNCHANGED <<pc, stopping, flushWaiters, flushPc, workerAlive, inFlight>>
        /\ Notify
    BY <1>2 DEF OfferAccepted, TakeIn
  <2>2. buffer' # <<>>
    BY <1>2, AppendProperties DEF OfferAccepted, TakeIn, TypeOK
  <2>3. waiting' \subseteq waiting
    BY <2>1 DEF Notify
  <2>4. (pc \in {"idle", "linger"} /\ Worker \in waiting) => waiting = {Worker}
    <3>1. (pc = "linger" /\ Worker \in waiting) => \A f \in Flushers : f \notin waiting
      BY <1>0
    <3> QED
      BY <1>0, <3>1
  <2>5. Worker \notin waiting'
    BY <2>1, <2>4 DEF Notify
  <2>6. \A f \in Flushers : f \in waiting' => flushPc'[f] = "wait" /\ workerAlive'
    BY <2>1, <2>3
  <2> QED
    BY <2>1, <2>2, <2>5, <2>6
<1>3. CASE WorkerWaits
  <2>1. pc \in {"next", "idle"} /\ buffer = <<>> /\ ~stopping
    BY <1>3 DEF WorkerWaits, AtIdleLoop
  <2>2. \A f \in Flushers : f \notin waiting
    BY <2>1 DEF Phase
  <2>3. waiting' = {Worker} /\ pc' = "idle"
    BY <1>0, <1>3, <2>2 DEF WorkerWaits
  <2>4. UNCHANGED <<buffer, stopping, flushWaiters, flushPc, workerAlive, inFlight>>
    BY <1>3 DEF WorkerWaits
  <2> QED
    BY <1>0, <2>1, <2>3, <2>4
<1>4. CASE WorkerStops
  BY <1>4 DEF WorkerStops, AtIdleLoop
<1>5. CASE WorkerLingers
  <2>1. waiting' = waiting \cup {Worker} /\ pc' = "linger" /\ KeepLingering
    BY <1>5 DEF WorkerLingers
  <2>2. UNCHANGED <<buffer, stopping, flushWaiters, flushPc, workerAlive, inFlight>>
    BY <1>5 DEF WorkerLingers
  <2> QED
    BY <1>0, <2>1, <2>2
<1>6. CASE WorkerTakes \/ LingerExpires
  <2>1. TakeBatch
    BY <1>6 DEF WorkerTakes, LingerExpires
  <2>2. UNCHANGED <<stopping, flushWaiters, flushPc, workerAlive>>
    BY <1>6 DEF WorkerTakes, LingerExpires
  <2>3. waiting' = waiting \ {Worker}
    BY <1>6 DEF WorkerTakes, LingerExpires, AtIdleLoop
  <2>4. pc' \in {"post", "call"}
    BY <2>1 DEF TakeBatch
  <2>5. pc \in {"next", "idle", "linger"}
    BY <1>6 DEF WorkerTakes, LingerExpires, AtIdleLoop
  <2>6. inFlight = 0
    BY <2>5 DEF Phase
  <2>7. buffer # <<>> => inFlight' # 0
    BY <2>1, TakeFacts
  <2> QED
    BY <1>0, <2>2, <2>3, <2>4, <2>6, <2>7
<1>7. CASE WorkerCounts
  <2>1. UNCHANGED <<waiting, buffer, stopping, flushWaiters, flushPc, workerAlive,
                    inFlight>>
    BY <1>7 DEF WorkerCounts
  <2>2. pc \notin {"idle", "linger"} /\ pc' \notin {"idle", "linger"}
    BY <1>7 DEF WorkerCounts
  <2> QED
    BY <2>1, <2>2
<1>8. CASE WorkerEndsBatch \/ WorkerFinally
  <2>1. waiting' = {} /\ UNCHANGED <<flushWaiters, flushPc>>
    BY <1>8 DEF WorkerEndsBatch, WorkerFinally, Release, NotifyAll
  <2> QED
    BY <2>1
<1>9. CASE WorkerClosesSink \/ SinkCloseReturns
  BY <1>9 DEF WorkerClosesSink, SinkCloseReturns
<1>10. CASE SinkReturns \/ SinkKillsWorker
  BY <1>10 DEF SinkReturns, SinkKillsWorker
<1>11. CASE SinkCallsClose
  <2>1. waiting' = {} /\ UNCHANGED <<flushWaiters, flushPc>>
    BY <1>11 DEF SinkCallsClose, Shut, NotifyAll
  <2> QED
    BY <2>1
<1>12. ASSUME NEW f \in Flushers, FlushStep(f)
       PROVE  Waits'
  <2> USE DEF FlushReturns
  <2>1. UNCHANGED <<pc, buffer, stopping, workerAlive, inFlight>>
    BY <1>12 DEF FlushStep, FlushBegins, FlushWakes, FlushTimesOut
  <2>2. CASE FlushBegins(f) /\ Drained
    <3>1. waiting' = {}
      BY <2>2 DEF FlushBegins, NotifyAll
    <3>2. flushWaiters' = {g \in Flushers : flushPc'[g] = "wait"}
      BY <2>2 DEF FlushBegins, TypeOK
    <3> QED
      BY <3>1, <3>2
  <2>3. CASE FlushBegins(f) /\ ~Drained
    <3>1. waiting' = {f} /\ flushPc'[f] = "wait"
      BY <2>3 DEF FlushBegins, NotifyAllAndWait, TypeOK
    <3>2. flushWaiters' = {g \in Flushers : flushPc'[g] = "wait"}
      BY <2>3 DEF FlushBegins, TypeOK
    <3>3. workerAlive /\ (buffer # <<>> \/ inFlight # 0)
      BY <2>3 DEF Drained, Empty
    <3> QED
      BY <1>0, <2>1, <3>1, <3>2, <3>3
  <2>4. CASE FlushWakes(f) /\ ~Drained
    <3>1. waiting' = waiting \cup {f} /\ UNCHANGED <<flushPc, flushWaiters>>
      BY <2>4 DEF FlushWakes
    <3>2. flushPc[f] = "wait" /\ f \in flushWaiters
      BY <2>4 DEF FlushWakes
    <3>3. workerAlive /\ (buffer # <<>> \/ inFlight # 0)
      BY <2>4 DEF Drained, Empty
    <3>4. pc = "idle" => Worker \notin waiting
      BY <3>3 DEF Phase
    <3> QED
      BY <1>0, <2>1, <3>1, <3>2, <3>3, <3>4
  <2>5. CASE (FlushWakes(f) /\ Drained) \/ FlushTimesOut(f)
    <3>1. waiting' = waiting \ {f} /\ flushPc[f] = "wait"
      BY <2>5 DEF FlushWakes, FlushTimesOut
    <3>2. /\ flushPc' = [flushPc EXCEPT ![f] = "done"]
          /\ flushWaiters' = flushWaiters \ {f}
      BY <2>5 DEF FlushWakes, FlushTimesOut
    <3>3. flushWaiters' = {g \in Flushers : flushPc'[g] = "wait"}
      BY <3>2 DEF TypeOK
    <3>4. (Worker \in waiting' <=> Worker \in waiting) /\ f \in flushWaiters
      BY <1>0, <3>1
    <3>5. (pc = "idle" /\ Worker \in waiting) => waiting' = {Worker}
      BY <1>0, <3>1
    <3>6. \A g \in Flushers : g \in waiting' => g \in waiting /\ flushPc'[g] = "wait"
      BY <3>1, <3>2 DEF TypeOK
    <3> QED
      BY <2>1, <3>3, <3>4, <3>5, <3>6
  <2> QED
    BY <1>12, <2>2, <2>3, <2>4, <2>5 DEF FlushStep
<1>13. ASSUME NEW c \in Closers, CloseStep(c)
       PROVE  Waits'
  <2>1. UNCHANGED <<pc, flushWaiters, flushPc, workerAlive, inFlight>>
    BY <1>13 DEF CloseStep, CloseBegins, CloseAgain, CloseJoins, CloseTimesOut,
                 CloseAbandons
  <2>2. CASE CloseBegins(c)
    <3>1. waiting' = {}
      BY <2>2 DEF CloseBegins, Shut, NotifyAll
    <3> QED
      BY <2>1, <3>1
  <2>3. CASE CloseAgain(c) \/ CloseJoins(c) \/ CloseTimesOut(c)
    BY <2>1, <2>3 DEF CloseAgain, CloseJoins, CloseTimesOut
  <2>4. CASE CloseAbandons(c)
    <3>1. stopping /\ stopping' /\ waiting' = waiting
      BY <2>4 DEF CloseAbandons, Closing
    <3> QED
      BY <2>1, <3>1
  <2> QED
    BY <1>13, <2>2, <2>3, <2>4 DEF CloseStep
<1>14. CASE UNCHANGED vars
  BY <1>14
<1> QED
  BY <1>1, <1>2, <1>3, <1>4, <1>5, <1>6, <1>7, <1>8, <1>9, <1>10, <1>11, <1>12,
     <1>13, <1>14
     DEF Next, Offer, WorkerStep, SinkStep

-----------------------------------------------------------------------------
(* The theorems *)

\* The inductive invariant holds in every reachable state.
THEOREM Inductive == Spec => []IInv
<1>1. Init => IInv
  <2> SUFFICES ASSUME Init PROVE IInv
    OBVIOUS
  <2>0. Len(<<>>) = 0 /\ <<>> \in Seq(Nat)
    BY EmptySeq
  <2>1. TypeOK
    BY <2>0 DEF Init, TypeOK, WorkerPcs
  <2>2. Conservation /\ Bounds
    BY <2>0, ConfigAssumption DEF Init, Conservation, Bounds
  <2>3. Phase /\ Closing
    BY DEF Init, Phase, Closing, InCall, Stopped
  <2>4. Waits
    BY DEF Init, Waits, LingerCutShort
  <2>5. Flushing
    BY DEF Init, Flushing
  <2> QED
    BY <2>1, <2>2, <2>3, <2>4, <2>5 DEF IInv
<1>2. IInv /\ [Next]_vars => IInv'
  BY TypeStep, ConservationStep, PhaseStep, BoundsStep, WaitsStep, ClosingStep,
     FlushingStep
     DEF IInv
<1> QED
  BY <1>1, <1>2, PTL DEF Spec

\* Every variable of the client keeps its type.
THEOREM TypeCorrect == Spec => []TypeOK
<1>1. IInv => TypeOK
  BY DEF IInv
<1> QED
  BY <1>1, Inductive, PTL

\* Every accepted record is in exactly one counter, in the buffer or in the batch.
THEOREM RecordsConserved == Spec => []Conservation
<1>1. IInv => Conservation
  BY DEF IInv
<1> QED
  BY <1>1, Inductive, PTL

\* The client's memory is bounded, and flush() never overlooks a batch.
THEOREM RetentionBounded == Spec => []RetentionBound
<1>1. IInv => RetentionBound
  BY DEF IInv, RetentionBound, Bounds, Phase, TypeOK, WorkerPcs, Stopped, InCall
<1> QED
  BY <1>1, Inductive, PTL

\* No wakeup of the worker is lost, with any number of flush() callers.
THEOREM WorkerNeverSleepsOnWork == Spec => []NoLostWakeup
<1>1. IInv => NoLostWakeup
  BY DEF IInv, Waits, NoLostWakeup
<1> QED
  BY <1>1, Inductive, PTL

\* No flusher sleeps without a reason.
THEOREM FlushersNotStranded == Spec => []NoStrandedFlusher
<1>1. IInv => NoStrandedFlusher
  BY DEF IInv, Waits, NoStrandedFlusher
<1> QED
  BY <1>1, Inductive, PTL

\* flush() and close() cut the linger wait short.
THEOREM LingerNeverDelays == Spec => []LingerCutShort
<1>1. IInv => LingerCutShort
  BY DEF IInv, Waits
<1> QED
  BY <1>1, Inductive, PTL

\* Whoever sleeps on the shared condition has nothing to do, with any number of emitters
\* and flush() and close() callers.
THEOREM SleepersHaveNothingToDo == Spec => []NobodySleepsOnWork
<1>1. NoLostWakeup /\ NoStrandedFlusher /\ LingerCutShort => NobodySleepsOnWork
  BY DEF NobodySleepsOnWork
<1> QED
  BY <1>1, WorkerNeverSleepsOnWork, FlushersNotStranded, LingerNeverDelays, PTL

\* A flush() that returned TRUE told the truth.
THEOREM FlushTrue == Spec => []FlushTruth
<1>1. IInv => FlushTruth
  BY DEF IInv, Flushing, FlushTruth
<1> QED
  BY <1>1, Inductive, PTL

\* After close() returned every record is accounted for.
THEOREM CloseAccounts == Spec => []CloseSettles
<1>1. IInv => CloseSettles
  <2> SUFFICES ASSUME IInv, NEW c \in Closers, closePc[c] = "done", ~died
               PROVE  /\ buffer = <<>>
                      /\ accepted = delivered + failed + droppedAtClose + Len(batch)
                      /\ batch # <<>> => pc \in InCall
    BY DEF CloseSettles
  <2>1. buffer = <<>>
    BY DEF IInv, Closing
  <2>2. Len(buffer) = 0
    BY <2>1
  <2>3. /\ delivered \in Nat /\ failed \in Nat /\ droppedAtClose \in Nat
        /\ Len(batch) \in Nat
    BY LenProperties DEF IInv, TypeOK
  <2>4. accepted = delivered + failed + droppedAtClose + Len(batch)
    BY <2>2, <2>3 DEF IInv, Conservation
  <2>5. batch # <<>> => pc \in InCall
    BY DEF IInv, Phase, TypeOK, WorkerPcs, Stopped, InCall
  <2> QED
    BY <2>1, <2>4, <2>5
<1> QED
  BY <1>1, Inductive, PTL

\* The sink is closed only after its last use.
THEOREM SinkUsedByOneThread == Spec => []SinkClosedLast
<1>1. IInv => SinkClosedLast
  BY DEF IInv, Phase, SinkClosedLast
<1> QED
  BY <1>1, Inductive, PTL

-----------------------------------------------------------------------------
(* The order of the records *)

\* The worker has a sequence to hand over.
LEMMA LineType ==
    ASSUME TypeOK
    PROVE  Unhanded \in Seq(Nat) /\ Line \in Seq(Nat)
<1>1. buffer \in Seq(Nat) /\ batch \in Seq(Nat) /\ handed \in Seq(Nat) /\ Len(batch) \in Nat
  BY LenProperties DEF TypeOK
<1>2. Unhanded \in Seq(Nat)
  <2>1. CASE batch = <<>>
    <3>1. CallLen \in {0, 1}
      BY <2>1, EmptySeq DEF CallLen
    <3>2. Len(batch) = 0
      BY <2>1
    <3>3. SubSeq(batch, CallLen + 1, Len(batch)) = <<>>
      BY <3>1, <3>2, SubSeqEmpty
    <3> QED
      BY <1>1, <3>3, EmptySeq DEF Unhanded
  <2>2. CASE batch # <<>>
    BY <1>1, <2>2, CallFacts DEF Unhanded
  <2> QED
    BY <2>1, <2>2
<1> QED
  BY <1>1, <1>2, ConcatProperties DEF Line

\* Concatenation is associative.
LEMMA Joined ==
    ASSUME NEW r \in Seq(Nat), NEW s \in Seq(Nat), NEW t \in Seq(Nat)
    PROVE  (r \o s) \o t = r \o (s \o t)
  OBVIOUS

\* Two pieces of a sequence, after anything, are the sequence after it.
LEMMA CutLine ==
    ASSUME NEW r \in Seq(Nat), NEW s \in Seq(Nat), NEW k \in 0..Len(s)
    PROVE  (r \o SubSeq(s, 1, k)) \o SubSeq(s, k + 1, Len(s)) = r \o s
<1>1. Len(s) \in Nat /\ 1 \in 1..(Len(s) + 1) /\ k \in (1 - 1)..Len(s) /\ Len(s) \in k..Len(s)
  BY LenProperties
<1>2. SubSeq(s, 1, k) \o SubSeq(s, k + 1, Len(s)) = SubSeq(s, 1, Len(s))
  BY <1>1, ConcatAdjacentSubSeq
<1>3. SubSeq(s, 1, Len(s)) = s
  BY SubSeqFull
<1>4. SubSeq(s, 1, k) \in Seq(Nat) /\ SubSeq(s, k + 1, Len(s)) \in Seq(Nat)
  BY Cut
<1>5. (r \o SubSeq(s, 1, k)) \o SubSeq(s, k + 1, Len(s))
            = r \o (SubSeq(s, 1, k) \o SubSeq(s, k + 1, Len(s)))
  <2> DEFINE t == SubSeq(s, 1, k)
             u == SubSeq(s, k + 1, Len(s))
  <2>1. t \in Seq(Nat) /\ u \in Seq(Nat)
    BY <1>4
  <2> HIDE DEF t, u
  <2>2. (r \o t) \o u = r \o (t \o u)
    BY <2>1, Joined
  <2> QED
    BY <2>2 DEF t, u
<1> QED
  BY <1>2, <1>3, <1>5

\* Adding to the buffer adds to the line.
LEMMA AppendLine ==
    ASSUME NEW r \in Seq(Nat), NEW s \in Seq(Nat), NEW x \in Nat
    PROVE  r \o Append(s, x) = Append(r \o s, x)
<1>1. Append(s, x) = s \o <<x>> /\ Append(r \o s, x) = (r \o s) \o <<x>> /\ <<x>> \in Seq(Nat)
  <2>1. r \o s \in Seq(Nat)
    BY ConcatProperties
  <2>2. <<x>> = Append(<<>>, x) /\ <<>> \in Seq(Nat)
    BY EmptySeq
  <2>3. <<x>> \in Seq(Nat)
    BY <2>2, AppendProperties
  <2> QED
    BY <2>1, <2>3, AppendIsConcat
<1> QED
  BY <1>1, Joined

\* The line stays, gets the next record at its end, or loses the buffer.
LEMMA LineMoves ==
    ASSUME TypeOK, Phase, TypeOK', [Next]_vars
    PROVE  \/ Line' = Line /\ accepted' = accepted
           \/ Line' = Append(Line, accepted + 1) /\ accepted' = accepted + 1
           \/ Line = Line' \o buffer /\ accepted' = accepted
<1> USE DEF vars, config, counters, flushVars, workerVars, closeVars
<1>0. /\ buffer \in Seq(Nat) /\ batch \in Seq(Nat) /\ handed \in Seq(Nat)
      /\ accepted \in Nat /\ Unhanded \in Seq(Nat) /\ handed \o Unhanded \in Seq(Nat)
  BY LineType, ConcatProperties DEF TypeOK
<1>1. CASE OfferAccepted
  <2>1. Unhanded' = Unhanded /\ handed' = handed
    BY <1>1 DEF OfferAccepted, Unhanded, CallLen
  <2>2. buffer' = Append(buffer, accepted + 1) /\ accepted' = accepted + 1
    BY <1>1 DEF OfferAccepted, TakeIn
  <2> QED
    BY SMTT(30), <1>0, <2>1, <2>2, AppendLine DEF Line
<1>2. CASE WorkerTakes \/ LingerExpires
  <2>1. TakeBatch /\ accepted' = accepted /\ handed' = handed /\ died' = died
    BY <1>2 DEF WorkerTakes, LingerExpires
  <2>2. batch = <<>> /\ ~died /\ pc \notin {"count_ok", "count_fail"}
    BY <1>2 DEF WorkerTakes, LingerExpires, AtIdleLoop, Phase, Stopped
  <2>3. Unhanded = <<>> /\ Unhanded' = batch'
    BY <2>1, <2>2 DEF Unhanded, TakeBatch
  <2>4. BatchLen \in 0..Len(buffer)
    <3>1. Len(buffer) \in Nat /\ BatchLen \in Nat /\ BatchLen <= Len(buffer)
      BY <1>0, <2>1, TakeFacts, LenProperties
    <3> HIDE DEF TypeOK
    <3> QED
      BY <3>1
  <2>5. (handed \o batch') \o buffer' = handed \o buffer
    BY <1>0, <2>1, <2>4, CutLine DEF TakeBatch, Remainder
  <2>6. handed \o Unhanded = handed
    BY <1>0, <2>3, ConcatEmptySeq
  <2> QED
    BY <2>1, <2>3, <2>5, <2>6 DEF Line
<1>3. CASE SinkReturns \/ SinkKillsWorker
  <2>1. /\ handed' = handed \o SubSeq(batch, 1, CallLen) /\ pc = "call" /\ ~died
        /\ UNCHANGED <<batch, buffer, accepted, emitBatch>>
        /\ pc' \in {"count_ok", "count_fail"} \/ died'
    BY <1>3 DEF SinkReturns, SinkKillsWorker, Phase, InCall
  <2>2. /\ Unhanded = batch
        /\ Unhanded' = SubSeq(batch, CallLen + 1, Len(batch))
    BY <2>1 DEF Unhanded, CallLen
  <2>3. CallLen \in 0..Len(batch)
    BY <2>1, CallFacts DEF Phase, InCall
  <2>4. handed' \o Unhanded' = handed \o Unhanded
    BY <1>0, <2>1, <2>2, <2>3, CutLine
  <2> QED
    BY <2>1, <2>4 DEF Line
<1>4. CASE WorkerCounts
  <2>1. /\ Unhanded = SubSeq(batch, CallLen + 1, Len(batch))
        /\ batch' = SubSeq(batch, CallLen + 1, Len(batch))
        /\ pc' \in {"post", "call"} /\ ~died'
    BY <1>4 DEF WorkerCounts, Unhanded, Phase, InCall
  <2>2. Unhanded' = Unhanded
    BY <2>1 DEF Unhanded
  <2>3. UNCHANGED <<handed, buffer, accepted>>
    BY <1>4 DEF WorkerCounts
  <2> QED
    BY <2>2, <2>3 DEF Line
<1>5. CASE \/ OfferNotARecord \/ OfferClosed \/ OfferFull
           \/ WorkerWaits \/ WorkerStops \/ WorkerLingers \/ WorkerEndsBatch
           \/ WorkerFinally \/ WorkerClosesSink \/ SinkCloseReturns \/ SinkCallsClose
           \/ UNCHANGED vars
  <2>1. UNCHANGED <<handed, buffer, accepted, batch, emitBatch, died>>
    BY <1>5
    DEF OfferNotARecord, OfferClosed, OfferFull, WorkerWaits, WorkerStops, WorkerLingers,
        WorkerEndsBatch, WorkerFinally, WorkerClosesSink, SinkCloseReturns, SinkCallsClose
  <2>2. pc' \in {"count_ok", "count_fail"} <=> pc \in {"count_ok", "count_fail"}
    BY <1>5
    DEF OfferNotARecord, OfferClosed, OfferFull, WorkerWaits, WorkerStops, WorkerLingers,
        WorkerEndsBatch, WorkerFinally, WorkerClosesSink, SinkCloseReturns, SinkCallsClose,
        AtIdleLoop
  <2> QED
    BY <2>1, <2>2 DEF Line, Unhanded, CallLen
<1>6. ASSUME NEW f \in Flushers, FlushStep(f)
      PROVE  Line' = Line /\ accepted' = accepted
  <2>1. UNCHANGED <<handed, buffer, accepted, batch, emitBatch, died, pc>>
    BY <1>6 DEF FlushStep, FlushBegins, FlushWakes, FlushTimesOut
  <2> QED
    BY <2>1 DEF Line, Unhanded, CallLen
<1>7. ASSUME NEW c \in Closers, CloseStep(c)
      PROVE  \/ Line' = Line /\ accepted' = accepted
             \/ Line = Line' \o buffer /\ accepted' = accepted
  <2>1. UNCHANGED <<handed, accepted, batch, emitBatch, died, pc>>
    BY <1>7 DEF CloseStep, CloseBegins, CloseAgain, CloseJoins, CloseTimesOut,
                CloseAbandons, Abandon
  <2>2. Unhanded' = Unhanded
    BY <2>1 DEF Unhanded, CallLen
  <2>3. buffer' = buffer \/ buffer' = <<>>
    BY <1>7 DEF CloseStep, CloseBegins, CloseAgain, CloseJoins, CloseTimesOut,
                CloseAbandons, Abandon
  <2>4. (handed \o Unhanded) \o <<>> = handed \o Unhanded
    BY <1>0, ConcatEmptySeq
  <2> QED
    BY <2>1, <2>2, <2>3, <2>4 DEF Line
<1> QED
  BY <1>1, <1>2, <1>3, <1>4, <1>5, <1>6, <1>7 DEF Next, Offer, WorkerStep, SinkStep

\* So the line stays in order.
LEMMA OrderedStep ==
    ASSUME TypeOK, Phase, Ordered, TypeOK', [Next]_vars
    PROVE  Ordered'
<1>1. Line \in Seq(Nat) /\ Len(Line) \in Nat /\ accepted \in Nat
  BY LineType, LenProperties DEF TypeOK
<1>2. Line' \in Seq(Nat) /\ Len(Line') \in Nat
  <2>1. (Line \in Seq(Nat))'
    BY LineType, PTL
  <2> QED
    BY <2>1, LenProperties
<1>3. CASE Line' = Line /\ accepted' = accepted
  BY <1>3 DEF Ordered
<1>4. CASE Line' = Append(Line, accepted + 1) /\ accepted' = accepted + 1
  <2>1. /\ Len(Line') = Len(Line) + 1
        /\ \A i \in 1..Len(Line) : Line'[i] = Line[i]
        /\ Line'[Len(Line) + 1] = accepted + 1
    BY <1>1, <1>4, AppendProperties
  <2>2. \A i \in 1..Len(Line) : Line[i] \in Nat /\ Line[i] <= accepted
    BY <1>1, ElementOfSeq DEF Ordered
  <2> QED
    BY <1>1, <1>4, <2>1, <2>2 DEF Ordered
<1>5. CASE Line = Line' \o buffer /\ accepted' = accepted
  <2>1. /\ Len(buffer) \in Nat /\ Len(Line) = Len(Line') + Len(buffer)
        /\ \A i \in 1..Len(Line') : Line[i] = Line'[i]
    BY <1>2, <1>5, ConcatProperties, LenProperties DEF TypeOK
  <2> QED
    BY SMTT(30), <1>1, <1>2, <1>5, <2>1 DEF Ordered
<1> QED
  BY <1>3, <1>4, <1>5, LineMoves

\* Whatever fails, lingers or is abandoned: the records reach the sink in the order in
\* which they were accepted, and none of them twice.
THEOREM InOrderAtMostOnce == Spec => []FifoAtMostOnce
<1>1. Init => Ordered
  <2> SUFFICES ASSUME Init PROVE Ordered
    OBVIOUS
  <2>1. Unhanded = <<>> /\ handed = <<>> /\ buffer = <<>>
    BY DEF Init, Unhanded
  <2>2. Line = <<>>
    BY <2>1, EmptySeq, ConcatEmptySeq DEF Line
  <2>3. Len(Line) = 0
    BY <2>2, EmptySeq
  <2> QED
    BY <2>3 DEF Ordered
<1>2. IInv /\ IInv' /\ Ordered /\ [Next]_vars => Ordered'
  BY OrderedStep DEF IInv
<1>3. Ordered => FifoAtMostOnce
  BY DEF Ordered, Line, FifoAtMostOnce
<1> QED
  BY <1>1, <1>2, <1>3, Inductive, PTL DEF Spec

-----------------------------------------------------------------------------
(* The client keeps its promise: the refinement of Delivery *)

\* What is left of a joined sequence when the start of its first part is cut off.
LEMMA CutJoined ==
    ASSUME NEW s \in Seq(Nat), NEW t \in Seq(Nat), NEW k \in 0..Len(s)
    PROVE  SubSeq(s \o t, k + 1, Len(s \o t)) = SubSeq(s, k + 1, Len(s)) \o t
<1> DEFINE front == SubSeq(s, 1, k)
           rest == SubSeq(s, k + 1, Len(s))
           tail == rest \o t
<1>1. /\ front \in Seq(Nat) /\ Len(front) = k /\ k \in Nat
      /\ rest \in Seq(Nat) /\ front \o rest = s
  <2>1. 1 \in 1..(Len(s) + 1) /\ k \in (1 - 1)..Len(s) /\ Len(s) \in k..Len(s) /\ k \in Nat
    BY LenProperties
  <2>2. SubSeq(s, 1, k) \o SubSeq(s, k + 1, Len(s)) = SubSeq(s, 1, Len(s))
    BY <2>1, ConcatAdjacentSubSeq
  <2> QED
    BY <2>1, <2>2, SubSeqFull, Cut
<1> HIDE DEF front, rest
<1>2. tail \in Seq(Nat) /\ Len(tail) \in Nat
  BY <1>1, ConcatProperties, LenProperties
<1>3. s \o t = front \o tail
  <2>1. (front \o rest) \o t = front \o (rest \o t)
    <3>1. front \in Seq(Nat) /\ rest \in Seq(Nat)
      BY <1>1
    <3> HIDE DEF tail
    <3> QED
      BY ZenonT(60), <3>1, Joined
  <2> QED
    BY <1>1, <2>1
<1> HIDE DEF tail
<1>4. Len(s \o t) = k + Len(tail)
  BY <1>1, <1>2, <1>3, ConcatProperties
<1>5. SubSeq(front \o tail, k + 1, k + Len(tail)) = tail
  <2> DEFINE n == Len(tail)
  <2>1. CASE n = 0
    <3>1. SubSeq(front \o tail, k + 1, k + n) = <<>>
      BY <1>1, <2>1, SubSeqEmpty
    <3>2. tail = <<>>
      BY <1>2, <2>1, EmptySeq
    <3> QED
      BY <3>1, <3>2
  <2>2. CASE n # 0
    <3> HIDE DEF n
    <3> DEFINE from == k + 1
               to == k + n
    <3>1. n \in Nat /\ from \in (k + 1)..(k + n) /\ to \in (k + 1)..(k + n)
      BY <1>1, <1>2, <2>2 DEF n
    <3>2. from - k = 1 /\ to - k = n
      BY <1>1, <3>1
    <3> HIDE DEF from, to
    <3>3. /\ from \in (Len(front) + 1)..(Len(front) + Len(tail))
          /\ to \in (Len(front) + 1)..(Len(front) + Len(tail))
      BY <1>1, <3>1 DEF n
    <3>4. SubSeq(front \o tail, from, to)
            = SubSeq(tail, from - Len(front), to - Len(front))
      BY ZenonT(60), <1>1, <1>2, <3>3, SubSeqOfConcat2
    <3>5. SubSeq(tail, 1, n) = tail
      BY <1>2, SubSeqFull DEF n
    <3> QED
      BY <1>1, <3>2, <3>4, <3>5 DEF n, from, to
  <2> QED
    BY <2>1, <2>2
<1> QED
  BY <1>3, <1>4, <1>5 DEF tail, rest

\* The first part of a joined sequence.
LEMMA FrontJoined ==
    ASSUME NEW s \in Seq(Nat), NEW t \in Seq(Nat)
    PROVE  SubSeq(s \o t, 1, Len(s)) = s
<1>1. Len(s) \in Nat
  BY LenProperties
<1>2. CASE s = <<>>
  <2>1. Len(s) = 0
    BY <1>2, EmptySeq
  <2> QED
    BY <1>2, <2>1, SubSeqEmpty
<1>3. CASE s # <<>>
  <2>1. Len(s) \in 1..Len(s) /\ 1 \in 1..Len(s)
    BY <1>1, <1>3, EmptySeq
  <2>2. SubSeq(s \o t, 1, Len(s)) = SubSeq(s, 1, Len(s))
    BY <2>1, SubSeqOfConcat1
  <2> QED
    BY <2>2, SubSeqFull
<1> QED
  BY <1>2, <1>3

\* Every step is a step of the abstract queue, or none of its business.
LEMMA PromiseStep ==
    ASSUME IInv, IInv', [Next]_vars
    PROVE  [Promise!Next]_(Promise!vars)
<1> USE DEF vars, config, counters, flushVars, workerVars, closeVars
<1>0. /\ buffer \in Seq(Nat) /\ batch \in Seq(Nat) /\ batch \o buffer \in Seq(Nat)
      /\ Len(buffer) \in Nat /\ Len(batch) \in Nat /\ Len(batch \o buffer) = Len(batch) + Len(buffer)
      /\ accepted \in Nat /\ droppedAtClose \in Nat
  BY ConcatProperties, LenProperties DEF IInv, TypeOK
<1>1. ASSUME batch' \o buffer' = batch \o buffer,
             UNCHANGED <<accepted, delivered, failed, droppedAtClose, closed>>
      PROVE  [Promise!Next]_(Promise!vars)
  BY <1>1 DEF Promise!vars
<1>2. CASE OfferAccepted
  <2>1. /\ ~closed /\ accepted' = accepted + 1 /\ batch' = batch
        /\ buffer' = Append(buffer, accepted + 1)
        /\ UNCHANGED <<delivered, failed, droppedAtClose, closed>>
    BY <1>2 DEF OfferAccepted, TakeIn
  <2>2. batch' \o buffer' = Append(batch \o buffer, accepted + 1)
    BY <1>0, <2>1, AppendLine
  <2>3. Len(batch \o buffer) < MaxBuffer + BatchSize
    <3> DEFINE n == Len(batch)
               m == Len(buffer)
    <3>1. n <= BatchSize /\ m < MaxBuffer /\ n \in Nat /\ m \in Nat
          /\ Len(batch \o buffer) = n + m
      BY <1>0, <1>2 DEF IInv, Bounds, OfferAccepted, HasRoom
    <3> HIDE DEF n, m
    <3> QED
      BY <3>1, ConfigAssumption
  <2>4. Promise!Accept
    BY <2>1, <2>2, <2>3 DEF Promise!Accept
  <2> QED
    BY <2>4 DEF Promise!Next
<1>3. CASE WorkerTakes \/ LingerExpires
  <2>1. TakeBatch /\ UNCHANGED <<accepted, delivered, failed, droppedAtClose, closed>>
    BY <1>3 DEF WorkerTakes, LingerExpires
  <2>2. batch = <<>>
    BY <1>3 DEF WorkerTakes, LingerExpires, AtIdleLoop, IInv, Phase
  <2>3. BatchLen \in 0..Len(buffer)
    <3>1. BatchLen \in Nat /\ BatchLen <= Len(buffer)
      BY <2>1, TakeFacts DEF IInv
    <3> QED
      BY <1>0, <3>1
  <2>4. batch' \o buffer' = (<<>> \o SubSeq(buffer, 1, BatchLen)) \o buffer'
    <3>1. batch' = SubSeq(buffer, 1, BatchLen) /\ batch' \in Seq(Nat)
      BY <2>1, TakeFacts DEF TakeBatch, IInv
    <3> QED
      BY <3>1, ConcatEmptySeq
  <2>5. batch' \o buffer' = <<>> \o buffer
    BY <1>0, <2>1, <2>3, <2>4, EmptySeq, CutLine DEF TakeBatch, Remainder
  <2> QED
    BY <1>1, <2>1, <2>2, <2>5
<1>4. CASE WorkerCounts
  <2>1. /\ batch' = SubSeq(batch, CallLen + 1, Len(batch)) /\ buffer' = buffer
        /\ UNCHANGED <<accepted, droppedAtClose, closed>>
        /\ \/ delivered' = delivered + CallLen /\ UNCHANGED failed
           \/ failed' = failed + CallLen /\ UNCHANGED delivered
    BY <1>4 DEF WorkerCounts
  <2>2. /\ CallLen \in Nat /\ 1 <= CallLen /\ CallLen <= Len(batch)
    BY <1>4, CallFacts DEF WorkerCounts, IInv, Phase, InCall
  <2> DEFINE n == CallLen
             m == Len(batch)
  <2>3. n \in 0..m /\ n \in 1..Len(batch \o buffer)
    <3> HIDE DEF n, m
    <3>1. n \in Nat /\ 1 <= n /\ n <= m /\ m \in Nat /\ Len(batch \o buffer) = m + Len(buffer)
      BY <1>0, <2>2 DEF n, m
    <3> QED
      BY <1>0, <3>1
  <2>4. batch' \o buffer' = SubSeq(batch \o buffer, n + 1, Len(batch \o buffer))
    BY <1>0, <2>1, <2>3, CutJoined
  <2>5. Promise!Settle
    BY <2>1, <2>3, <2>4 DEF Promise!Settle
  <2> QED
    BY <2>5 DEF Promise!Next
<1>5. CASE SinkCallsClose \/ \E c \in Closers : CloseBegins(c)
  <2>1. /\ closed' = TRUE
        /\ UNCHANGED <<batch, buffer, accepted, delivered, failed, droppedAtClose>>
    BY <1>5 DEF SinkCallsClose, CloseBegins, Shut
  <2>2. Promise!Shut
    BY <2>1 DEF Promise!Shut
  <2> QED
    BY <2>2 DEF Promise!Next
<1>6. CASE \E c \in Closers : CloseAbandons(c)
  <2>1. /\ closed /\ buffer' = <<>> /\ batch' = batch
        /\ droppedAtClose' = droppedAtClose + Len(buffer)
        /\ UNCHANGED <<accepted, delivered, failed, closed>>
    BY <1>6 DEF CloseAbandons, Abandon, IInv, Closing
  <2>2. batch' \o buffer' = SubSeq(batch \o buffer, 1, Len(batch))
    <3>1. batch' \o buffer' = batch
      BY <1>0, <2>1, ConcatEmptySeq
    <3> QED
      BY <1>0, <3>1, FrontJoined
  <2> DEFINE n == Len(batch)
             m == Len(buffer)
             l == Len(batch \o buffer)
  <2>3. n \in 0..l /\ droppedAtClose + m = droppedAtClose + l - n
    <3>1. n \in Nat /\ m \in Nat /\ l = n + m /\ droppedAtClose \in Nat
      BY <1>0
    <3> HIDE DEF n, m, l
    <3> QED
      BY <3>1
  <2>4. Promise!Abandon
    BY <2>1, <2>2, <2>3 DEF Promise!Abandon
  <2> QED
    BY <2>4 DEF Promise!Next
<1>7. CASE \/ OfferNotARecord \/ OfferClosed \/ OfferFull
           \/ WorkerWaits \/ WorkerStops \/ WorkerLingers \/ WorkerEndsBatch
           \/ WorkerFinally \/ WorkerClosesSink \/ SinkStep \/ UNCHANGED vars
  <2>1. UNCHANGED <<batch, buffer, accepted, delivered, failed, droppedAtClose, closed>>
    BY <1>7
    DEF OfferNotARecord, OfferClosed, OfferFull, WorkerWaits, WorkerStops, WorkerLingers,
        WorkerEndsBatch, WorkerFinally, WorkerClosesSink, SinkStep, SinkReturns,
        SinkKillsWorker, SinkCloseReturns
  <2> QED
    BY <1>1, <2>1
<1>8. CASE \E f \in Flushers : FlushStep(f)
  <2>1. UNCHANGED <<batch, buffer, accepted, delivered, failed, droppedAtClose, closed>>
    BY <1>8 DEF FlushStep, FlushBegins, FlushWakes, FlushTimesOut
  <2> QED
    BY <1>1, <2>1
<1>9. CASE \E c \in Closers : CloseAgain(c) \/ CloseJoins(c) \/ CloseTimesOut(c)
  <2>1. UNCHANGED <<batch, buffer, accepted, delivered, failed, droppedAtClose, closed>>
    BY <1>9 DEF CloseAgain, CloseJoins, CloseTimesOut
  <2> QED
    BY <1>1, <2>1
<1> QED
  BY <1>2, <1>3, <1>4, <1>5, <1>6, <1>7, <1>8, <1>9
     DEF Next, Offer, WorkerStep, CloseStep

\* Every behaviour of the client is one of a bounded queue that settles its records in
\* order and once each, refuses records once it is closed, and gives none up before.
THEOREM PromiseKept == Spec => KeepsPromise
<1>1. Init => Promise!Init
  <2>1. <<>> \o <<>> = <<>>
    BY EmptySeq, ConcatEmptySeq
  <2> QED
    BY <2>1 DEF Init, Promise!Init
<1>2. IInv /\ IInv' /\ [Next]_vars => [Promise!Next]_(Promise!vars)
  BY PromiseStep
<1> QED
  BY <1>1, <1>2, Inductive, PTL DEF Spec, KeepsPromise, Promise!Spec
=============================================================================
