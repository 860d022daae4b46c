-------------------------- MODULE DirectPathProofs --------------------------
(***************************************************************************)
(* Proofs about the broker-less path.  That every record is counted once,  *)
(* and that no write leaves a transaction open, holds for any number of    *)
(* writing threads.  That the counters are the truth about the store holds *)
(* for one thread, with any number of calls of any size, and is false for  *)
(* two: a run of DirectPath finds that.                                    *)
(*                                                                         *)
(* The inductive invariant of one thread, InHands, follows the batch in    *)
(* its hands by where the thread is: what of it is in the transaction, and *)
(* what the store may already hold.                                        *)
(***************************************************************************)
EXTENDS DirectPath, FiniteSetTheorems, TLAPS

\* Every call has a number.
Numbered ==
    \A w \in Writers : pc[w] # "idle" => calls[w] \in 1..MaxCalls

\* The batch in a thread's hands has not been counted, and is where it should be.
InHands ==
    \A w \in Writers :
        /\ \A b \in stored \cup unsure \cup acknowledged \cup refused : b[2] <= calls[w]
        /\ pc[w] # "idle" => Batch(w) \notin acknowledged \cup refused
        /\ pc[w] \in {"check", "map", "execute", "commit"} => Batch(w) \notin stored
        /\ pc[w] = "execute" => kind[w] = "storable"
        /\ pc[w] = "commit" => /\ transaction \subseteq {Batch(w)}
                               /\ open => Batch(w) \in transaction /\ ~aborted
        /\ pc[w] = "rollback" => transaction = {}
        /\ pc[w] \in {"rollback", "drop"} => (Batch(w) \in stored => Batch(w) \in unsure)
        /\ pc[w] = "written" => Batch(w) \in stored

IInv == TypeOK /\ Numbered /\ EveryRecordCounted /\ NoOpenTransaction

OneThreadInv == IInv /\ WrittenIsStored /\ DroppedIsLost /\ InHands

-----------------------------------------------------------------------------
(* The records in the hands of the callers *)

\* The numbered records of one thread are as many as it has in hand.
LEMMA NumberedRecords ==
    ASSUME NEW w, NEW n \in Nat
    PROVE  IsFiniteSet({w} \X (1..n)) /\ Cardinality({w} \X (1..n)) = n
<1>1. IsFiniteSet({w}) /\ Cardinality({w}) = 1
  BY FS_Singleton
<1>2. IsFiniteSet(1..n) /\ Cardinality(1..n) = n
  BY FS_Interval
<1>3. /\ IsFiniteSet({w} \X (1..n))
      /\ Cardinality({w} \X (1..n)) = Cardinality({w}) * Cardinality(1..n)
  BY <1>1, <1>2, FS_Product
<1> QED
  BY <1>1, <1>2, <1>3

\* The records in hand that are not thread w's.
OfTheOthers(w) == UNION {{v} \X (1..InHand(v)) : v \in Writers \ {w}}

\* What is in hand is what any one thread has and what the others have.
OneAndTheOthers ==
    \A w \in Writers :
        /\ Cardinality(OfTheOthers(w)) \in Nat
        /\ Cardinality(RecordsInHand) = Cardinality(OfTheOthers(w)) + InHand(w)

LEMMA InHandSplits == TypeOK => OneAndTheOthers
<1> SUFFICES ASSUME TypeOK, NEW w \in Writers
             PROVE  /\ Cardinality(OfTheOthers(w)) \in Nat
                    /\ Cardinality(RecordsInHand) = Cardinality(OfTheOthers(w)) + InHand(w)
  BY DEF OneAndTheOthers
<1> DEFINE own == {w} \X (1..InHand(w))
<1>1. \A v \in Writers : InHand(v) \in Nat
  BY BoundsAssumption DEF TypeOK, InHand
<1>2. IsFiniteSet(own) /\ Cardinality(own) = InHand(w)
  BY <1>1, NumberedRecords
<1>3. IsFiniteSet(OfTheOthers(w))
  <2>1. OfTheOthers(w) \subseteq Writers \X (1..MaxBatch)
    BY BoundsAssumption DEF OfTheOthers, TypeOK, InHand
  <2>2. IsFiniteSet(1..MaxBatch)
    BY BoundsAssumption, FS_Interval
  <2>3. IsFiniteSet(Writers \X (1..MaxBatch))
    BY <2>2, BoundsAssumption, FS_Product
  <2> QED
    BY <2>1, <2>3, FS_Subset
<1>4. RecordsInHand = OfTheOthers(w) \cup own /\ OfTheOthers(w) \cap own = {}
  BY DEF RecordsInHand, OfTheOthers
<1>5. /\ Cardinality(OfTheOthers(w)) \in Nat
      /\ Cardinality(OfTheOthers(w) \cup own)
            = Cardinality(OfTheOthers(w)) + Cardinality(own) - 0
  <2> HIDE DEF own
  <2> QED
    BY <1>2, <1>3, <1>4, FS_Union, FS_CardinalityType, FS_EmptySet
<1> QED
  BY <1>1, <1>2, <1>4, <1>5

\* When one thread's part changes, the number in hand changes by as much.
LEMMA InHandMoves ==
    ASSUME TypeOK, TypeOK', NEW w \in Writers,
           \A v \in Writers \ {w} : InHand(v)' = InHand(v)
    PROVE  /\ Cardinality(RecordsInHand) \in Nat
           /\ Cardinality(RecordsInHand)' \in Nat
           /\ Cardinality(RecordsInHand) + InHand(w)'
                = Cardinality(RecordsInHand)' + InHand(w)
<1>1. OfTheOthers(w)' = OfTheOthers(w)
  BY DEF OfTheOthers
<1>2. /\ Cardinality(OfTheOthers(w)') \in Nat
      /\ Cardinality(RecordsInHand)' = Cardinality(OfTheOthers(w)') + InHand(w)'
  <2>1. OneAndTheOthers'
    BY InHandSplits, PTL
  <2> QED
    BY <2>1 DEF OneAndTheOthers
<1>3. /\ Cardinality(OfTheOthers(w)) \in Nat
      /\ Cardinality(RecordsInHand) = Cardinality(OfTheOthers(w)) + InHand(w)
  BY InHandSplits DEF OneAndTheOthers
<1>4. InHand(w) \in Nat /\ InHand(w)' \in Nat
  BY BoundsAssumption DEF TypeOK, InHand
<1> QED
  BY <1>1, <1>2, <1>3, <1>4

\* When no thread's part changes, neither does the number in hand.
LEMMA InHandStays ==
    ASSUME \A v \in Writers : InHand(v)' = InHand(v)
    PROVE  Cardinality(RecordsInHand)' = Cardinality(RecordsInHand)
  BY DEF RecordsInHand

-----------------------------------------------------------------------------
(* Each part of the invariant is preserved *)

\* A step of a writing thread.
WriterStep(w) ==
    \/ EmitBatch(w) \/ DrainRaises(w) \/ CheckClosed(w)
    \/ Write(w) \/ CountWritten(w) \/ CountDropped(w)

\* Every action keeps the types, and a thread's steps are its own.
LEMMA TypeStep ==
    ASSUME TypeOK, Numbered, Next
    PROVE  TypeOK' /\ Numbered'
<1> USE BoundsAssumption DEF TypeOK, Numbered, Goto, locals, connection, sink, history
<1>1. ASSUME NEW w \in Writers, EmitBatch(w)
      PROVE  TypeOK' /\ Numbered'
  BY <1>1 DEF EmitBatch, Filter
<1>7. ASSUME NEW w \in Writers, DrainRaises(w)
      PROVE  TypeOK' /\ Numbered'
  BY <1>7 DEF DrainRaises
<1>2. ASSUME NEW w \in Writers, CheckClosed(w) \/ MapRows(w)
      PROVE  TypeOK' /\ Numbered'
  BY <1>2 DEF CheckClosed, MapRows, AfterMap
<1>3. ASSUME NEW w \in Writers, Execute(w)
      PROVE  TypeOK' /\ Numbered'
  <2>1. Batch(w) \in Batches
    BY <1>3 DEF Execute, Batch, Batches
  <2> QED
    BY <1>3, <2>1 DEF Execute
<1>4. ASSUME NEW w \in Writers, Commit(w) \/ CommitFails(w) \/ Rollback(w)
      PROVE  TypeOK' /\ Numbered'
  BY <1>4 DEF Commit, CommitFails, Rollback, RollbackConnection, Reraise
<1>5. ASSUME NEW w \in Writers, CountWritten(w) \/ CountDropped(w)
      PROVE  TypeOK' /\ Numbered'
  <2>1. Batch(w) \in Batches
    BY <1>5 DEF CountWritten, CountDropped, Batch, Batches
  <2> QED
    BY <1>5, <2>1 DEF CountWritten, CountDropped
<1>6. CASE Close \/ CloseSource
  BY <1>6 DEF Close, CloseSource
<1> QED
  BY <1>1, <1>2, <1>3, <1>4, <1>5, <1>6, <1>7 DEF Next, Write

\* No step of any thread leaves a transaction behind.
LEMMA TransactionStep ==
    ASSUME TypeOK, NoOpenTransaction, Next
    PROVE  NoOpenTransaction'
<1> USE DEF TypeOK, NoOpenTransaction, Goto, locals, connection, sink, history
<1>1. ASSUME NEW w \in Writers,
             EmitBatch(w) \/ DrainRaises(w) \/ CheckClosed(w) \/ MapRows(w)
      PROVE  NoOpenTransaction'
  <2>1. \A v \in Writers :
            pc[v] \in {"commit", "rollback"} => pc'[v] \in {"commit", "rollback"}
    BY <1>1 DEF EmitBatch, DrainRaises, CheckClosed, MapRows, AfterMap
  <2>2. transaction' = transaction /\ (aborted' <=> aborted)
    BY <1>1 DEF EmitBatch, DrainRaises, CheckClosed, MapRows
  <2> QED
    BY <2>1, <2>2
<1>2. ASSUME NEW w \in Writers, Execute(w)
      PROVE  NoOpenTransaction'
  BY <1>2 DEF Execute
<1>3. ASSUME NEW w \in Writers, Commit(w) \/ CommitFails(w) \/ Rollback(w)
      PROVE  NoOpenTransaction'
  BY <1>3 DEF Commit, CommitFails, Rollback, RollbackConnection
<1>4. ASSUME NEW w \in Writers, CountWritten(w) \/ CountDropped(w)
      PROVE  NoOpenTransaction'
  <2>1. \A v \in Writers :
            pc[v] \in {"commit", "rollback"} => pc'[v] \in {"commit", "rollback"}
    BY <1>4 DEF CountWritten, CountDropped
  <2>2. transaction' = transaction /\ (aborted' <=> aborted)
    BY <1>4 DEF CountWritten, CountDropped
  <2> QED
    BY <2>1, <2>2
<1>5. CASE Close \/ CloseSource
  BY <1>5 DEF Close, CloseSource
<1> QED
  BY <1>1, <1>2, <1>3, <1>4, <1>5 DEF Next, Write

\* What is offered, counted and held moves together.
LEMMA CountStep ==
    ASSUME TypeOK, Numbered, EveryRecordCounted, Next
    PROVE  EveryRecordCounted'
<1>1. TypeOK'
  BY TypeStep
<1>2. ASSUME NEW w \in Writers, WriterStep(w)
      PROVE  EveryRecordCounted'
  <2> DEFINE sum == Cardinality(RecordsInHand)
  <2>1. \A v \in Writers \ {w} : InHand(v)' = InHand(v)
    BY <1>2
    DEF WriterStep, EmitBatch, DrainRaises, CheckClosed, Write, MapRows, Execute, Commit, CommitFails,
        Rollback, CountWritten, CountDropped, Goto, InHand, TypeOK
  <2>2. sum \in Nat /\ sum' \in Nat /\ sum + InHand(w)' = sum' + InHand(w)
    BY <1>1, <2>1, InHandMoves
  <2>3. /\ InHand(w) \in Nat /\ InHand(w)' \in Nat
    BY <1>1, BoundsAssumption DEF TypeOK, InHand
  <2>4. /\ written \in Nat /\ dropped \in Nat /\ offered \in Nat /\ undrained \in Nat
        /\ written' \in Nat /\ dropped' \in Nat /\ offered' \in Nat /\ undrained' \in Nat
    BY <1>1 DEF TypeOK
  <2>5. offered' + written + dropped + undrained + InHand(w)
            = offered + written' + dropped' + undrained' + InHand(w)'
    <3> USE BoundsAssumption DEF TypeOK, InHand, Goto, history, sink
    <3>1. CASE EmitBatch(w)
      BY <3>1, <2>3, <2>4 DEF EmitBatch, Filter
    <3>4. CASE DrainRaises(w)
      BY <3>4, <2>3, <2>4 DEF DrainRaises
    <3>2. CASE CheckClosed(w) \/ Write(w)
      BY <3>2, <2>3
      DEF CheckClosed, Write, MapRows, AfterMap, Execute, Commit, CommitFails, Rollback,
          Reraise
    <3>3. CASE CountWritten(w) \/ CountDropped(w)
      BY <3>3, <2>3 DEF CountWritten, CountDropped
    <3> QED
      BY <1>2, <3>1, <3>2, <3>3, <3>4 DEF WriterStep
  <2>6. offered = written + dropped + undrained + sum
    BY DEF EveryRecordCounted
  <2> DEFINE held == InHand(w)
             heldThen == InHand(w)'
             sumNow == sum
             sumThen == sum'
             offeredThen == offered'
             writtenThen == written'
             droppedThen == dropped'
             undrainedThen == undrained'
  <2> HIDE DEF held, heldThen, sumNow, sumThen, offeredThen, writtenThen, droppedThen,
               undrainedThen
  <2>7. /\ sumNow \in Nat /\ sumThen \in Nat /\ sumNow + heldThen = sumThen + held
        /\ held \in Nat /\ heldThen \in Nat
        /\ offeredThen + written + dropped + undrained + held
                = offered + writtenThen + droppedThen + undrainedThen + heldThen
        /\ offered = written + dropped + undrained + sumNow
    BY <2>2, <2>3, <2>5, <2>6
    DEF held, heldThen, sumNow, sumThen, offeredThen, writtenThen, droppedThen, undrainedThen
  <2>8. /\ offeredThen \in Nat /\ writtenThen \in Nat
        /\ droppedThen \in Nat /\ undrainedThen \in Nat
    BY <2>4 DEF offeredThen, writtenThen, droppedThen, undrainedThen
  <2> HIDE DEF sum
  <2>9. offeredThen = writtenThen + droppedThen + undrainedThen + sumThen
    BY <2>4, <2>7, <2>8
  <2> QED
    BY <2>9 DEF EveryRecordCounted, offeredThen, writtenThen, droppedThen, undrainedThen,
                sumThen, sum
<1>3. CASE Close \/ CloseSource
  <2>1. UNCHANGED <<written, dropped, offered, undrained>> /\ \A v \in Writers : InHand(v)' = InHand(v)
    BY <1>3 DEF Close, CloseSource, InHand, locals, history
  <2> QED
    BY <2>1, InHandStays DEF EveryRecordCounted
<1> QED
  BY <1>2, <1>3 DEF Next, WriterStep

-----------------------------------------------------------------------------
(* One thread: the counters and the store *)

\* A batch has a thread and a number.
LEMMA OnesOwnBatches ==
    ASSUME NEW w, Writers = {w}, TypeOK
    PROVE  \A b \in stored \cup unsure \cup acknowledged \cup refused \cup transaction :
                b = <<w, b[2]>> /\ b[2] \in Nat
  BY BoundsAssumption DEF TypeOK, Batches

\* What the only thread does keeps its batch where it should be.
LEMMA OneThreadStep ==
    ASSUME NEW w, Writers = {w}, TypeOK, Numbered, NoOpenTransaction,
           WrittenIsStored, DroppedIsLost, InHands, TypeOK', Next
    PROVE  WrittenIsStored' /\ DroppedIsLost' /\ InHands'
<1> DEFINE known == stored \cup unsure \cup acknowledged \cup refused
<1>1. /\ pc[w] \in {"idle", "check", "map", "execute", "commit", "rollback", "written", "drop"}
      /\ DOMAIN pc = {w} /\ pc = [v \in {w} |-> pc[v]]
      /\ DOMAIN kind = {w} /\ kind = [v \in {w} |-> kind[v]]
      /\ DOMAIN calls = {w} /\ calls = [v \in {w} |-> calls[v]]
      /\ calls[w] \in Nat /\ Batch(w) = <<w, calls[w]>>
      /\ pc[w] \notin {"commit", "rollback"} => transaction = {} /\ ~aborted
  <2>1. pc[w] \in {"idle", "check", "map", "execute", "commit", "rollback", "written", "drop"}
    BY DEF TypeOK
  <2>2. DOMAIN pc = {w} /\ pc = [v \in {w} |-> pc[v]]
    BY DEF TypeOK
  <2>3. DOMAIN kind = {w} /\ kind = [v \in {w} |-> kind[v]]
    BY DEF TypeOK
  <2>4. DOMAIN calls = {w} /\ calls = [v \in {w} |-> calls[v]] /\ calls[w] \in Nat
    BY BoundsAssumption DEF TypeOK
  <2>5. pc[w] \notin {"commit", "rollback"} => transaction = {} /\ ~aborted
    BY DEF NoOpenTransaction
  <2> QED
    BY <2>1, <2>2, <2>3, <2>4, <2>5 DEF Batch
<1>2. \A b \in known : b = <<w, b[2]>> /\ b[2] \in Nat
  BY OnesOwnBatches
<1>3. CASE EmitBatch(w)
  <2>1. /\ calls'[w] = calls[w] + 1 /\ Batch(w)' = <<w, calls[w] + 1>>
        /\ pc'[w] \in {"idle", "check"}
        /\ UNCHANGED <<stored, unsure, acknowledged, refused, transaction, open, aborted>>
    BY <1>1, <1>3 DEF EmitBatch, Goto, Batch, connection
  <2>2. \A b \in known : b[2] <= calls[w]
    BY DEF InHands
  <2>3. /\ \A b \in known : b[2] <= calls[w] + 1
        /\ <<w, calls[w] + 1>> \notin known
    BY <1>1, <1>2, <2>2
  <2>4. InHands'
    BY <2>1, <2>3 DEF InHands
  <2> QED
    BY <2>1, <2>4 DEF WrittenIsStored, DroppedIsLost
<1>13. CASE DrainRaises(w)
  <2>1. /\ calls'[w] = calls[w] + 1 /\ pc'[w] = "idle"
        /\ UNCHANGED <<stored, unsure, acknowledged, refused, transaction, open, aborted>>
    BY <1>1, <1>13 DEF DrainRaises, connection
  <2>2. \A b \in known : b[2] <= calls[w]
    BY DEF InHands
  <2>3. \A b \in known : b[2] <= calls[w] + 1
    BY <1>1, <1>2, <2>2
  <2>4. InHands'
    BY <2>1, <2>3 DEF InHands
  <2> QED
    BY <2>1, <2>4 DEF WrittenIsStored, DroppedIsLost
<1>4. CASE CheckClosed(w)
  <2>1. /\ pc[w] = "check" /\ pc'[w] \in {"drop", "map"}
        /\ Batch(w)' = Batch(w) /\ calls' = calls
        /\ UNCHANGED <<stored, unsure, acknowledged, refused, transaction>>
    BY <1>1, <1>4 DEF CheckClosed, Goto, Batch, connection, history
  <2> QED
    BY <2>1 DEF InHands, WrittenIsStored, DroppedIsLost
<1>5. CASE MapRows(w)
  <2>1. /\ pc[w] = "map" /\ pc'[w] \in {"drop", "execute"}
        /\ pc'[w] = "execute" => kind'[w] = "storable"
        /\ Batch(w)' = Batch(w) /\ calls' = calls
        /\ UNCHANGED <<stored, unsure, acknowledged, refused, transaction>>
    BY <1>1, <1>5 DEF MapRows, AfterMap, Goto, Batch, connection, history
  <2> QED
    BY <2>1 DEF InHands, WrittenIsStored, DroppedIsLost
<1>6. CASE Execute(w)
  <2>1. /\ pc[w] = "execute" /\ kind[w] = "storable" /\ transaction = {} /\ ~aborted
        /\ Batch(w)' = Batch(w) /\ calls' = calls
        /\ UNCHANGED <<stored, unsure, acknowledged, refused>>
    BY <1>1, <1>6 DEF Execute, InHands, Batch, history
  <2>2. \/ /\ pc'[w] = "commit" /\ transaction' = {Batch(w)} /\ ~aborted'
        \/ /\ pc'[w] = "rollback" /\ transaction' = {}
    BY <1>1, <1>6, <2>1 DEF Execute, Goto
  <2> QED
    BY <2>1, <2>2 DEF InHands, WrittenIsStored, DroppedIsLost
<1>7. CASE Commit(w)
  <2>1. /\ pc[w] = "commit" /\ pc'[w] = "written"
        /\ stored' = stored \cup {Batch(w)}
        /\ Batch(w)' = Batch(w) /\ calls' = calls
        /\ UNCHANGED <<unsure, acknowledged, refused>>
    BY <1>1, <1>7 DEF Commit, InHands, Goto, Batch, history
  <2>2. Batch(w)[2] <= calls[w]
    BY <1>1
  <2> QED
    BY <2>1, <2>2 DEF InHands, WrittenIsStored, DroppedIsLost
<1>8. CASE CommitFails(w)
  <2>1. /\ pc[w] = "commit" /\ pc'[w] = "rollback" /\ transaction' = {}
        /\ Batch(w)' = Batch(w) /\ calls' = calls
        /\ UNCHANGED <<acknowledged, refused>>
    BY <1>1, <1>8 DEF CommitFails, Goto, Batch
  <2>2. /\ transaction \subseteq {Batch(w)}
        /\ \/ UNCHANGED <<stored, unsure>>
           \/ stored' = stored \cup transaction /\ unsure' = unsure \cup transaction
    BY <1>8, <2>1 DEF CommitFails, InHands
  <2>3. Batch(w)[2] <= calls[w]
    BY <1>1
  <2> QED
    BY <2>1, <2>2, <2>3 DEF InHands, WrittenIsStored, DroppedIsLost
<1>9. CASE Rollback(w)
  <2>1. /\ pc[w] = "rollback" /\ pc'[w] = "drop"
        /\ Batch(w)' = Batch(w) /\ calls' = calls
        /\ UNCHANGED <<stored, unsure, acknowledged, refused>>
    BY <1>1, <1>9 DEF Rollback, Reraise, Goto, Batch, history
  <2> QED
    BY <2>1 DEF InHands, WrittenIsStored, DroppedIsLost
<1>10. CASE CountWritten(w)
  <2>1. /\ pc[w] = "written" /\ pc'[w] = "idle"
        /\ acknowledged' = acknowledged \cup {Batch(w)}
        /\ Batch(w)' = Batch(w) /\ calls' = calls
        /\ UNCHANGED <<stored, unsure, refused>>
    BY <1>1, <1>10 DEF CountWritten, Goto, Batch, connection
  <2>2. Batch(w)[2] <= calls[w]
    BY <1>1
  <2> QED
    BY <2>1, <2>2 DEF InHands, WrittenIsStored, DroppedIsLost
<1>11. CASE CountDropped(w)
  <2>1. /\ pc[w] = "drop" /\ pc'[w] = "idle"
        /\ refused' = refused \cup {Batch(w)}
        /\ Batch(w)' = Batch(w) /\ calls' = calls
        /\ UNCHANGED <<stored, unsure, acknowledged>>
    BY <1>1, <1>11 DEF CountDropped, Goto, Batch, connection
  <2>2. Batch(w)[2] <= calls[w]
    BY <1>1
  <2> QED
    BY <2>1, <2>2 DEF InHands, WrittenIsStored, DroppedIsLost
<1>12. CASE Close \/ CloseSource
  <2>1. /\ UNCHANGED <<pc, calls, kind, stored, unsure, acknowledged, refused>>
        /\ \/ transaction' = {} /\ ~open'
           \/ UNCHANGED <<transaction, open>> /\ (aborted' <=> aborted)
    BY <1>12 DEF Close, CloseSource, locals, history, connection
  <2> QED
    BY <2>1 DEF InHands, WrittenIsStored, DroppedIsLost, Batch
<1> QED
  BY <1>3, <1>4, <1>5, <1>6, <1>7, <1>8, <1>9, <1>10, <1>11, <1>12, <1>13
  DEF Next, Write

-----------------------------------------------------------------------------
(* The theorems *)

LEMMA Initially == Init => IInv
<1> SUFFICES ASSUME Init PROVE IInv
  OBVIOUS
<1>1. TypeOK /\ Numbered /\ NoOpenTransaction
  <2>1. 0 \in 0..MaxCalls /\ 0 \in 0..MaxBatch
    BY BoundsAssumption
  <2>2. TypeOK
    BY <2>1 DEF Init, TypeOK, Kinds
  <2> QED
    BY <2>2 DEF Init, Numbered, NoOpenTransaction
<1>2. EveryRecordCounted
  <2>1. RecordsInHand = {}
    BY DEF Init, RecordsInHand, InHand
  <2> QED
    BY <2>1, FS_EmptySet DEF Init, EveryRecordCounted
<1> QED
  BY <1>1, <1>2 DEF IInv

LEMMA Step == IInv /\ [Next]_vars => IInv'
<1> SUFFICES ASSUME IInv, [Next]_vars PROVE IInv'
  OBVIOUS
<1>1. CASE Next
  BY <1>1, TypeStep, TransactionStep, CountStep DEF IInv
<1>2. CASE UNCHANGED vars
  <2>1. \A v \in Writers : InHand(v)' = InHand(v)
    BY <1>2 DEF vars, locals, InHand
  <2>2. EveryRecordCounted'
    BY <1>2, <2>1, InHandStays DEF vars, sink, history, EveryRecordCounted, IInv
  <2>3. TypeOK' /\ Numbered' /\ NoOpenTransaction'
    BY <1>2 DEF vars, sink, connection, locals, history, IInv, TypeOK, Numbered,
                NoOpenTransaction, Batches
  <2> QED
    BY <2>2, <2>3 DEF IInv
<1> QED
  BY <1>1, <1>2

\* The invariant of any number of threads.
THEOREM Inductive == Spec => []IInv
  BY Initially, Step, PTL DEF Spec

\* DirectSink: every record that emit_batch drains is counted exactly once, as
\* written or as dropped, or is in the hands of a call that has not returned,
\* however many threads write, whatever fails after the drain and whenever close()
\* comes.  Records of an iterable that raised are an account of their own, undrained:
\* the code counts them nowhere.
THEOREM RecordsAreCounted == Spec => []EveryRecordCounted
<1>1. IInv => EveryRecordCounted
  BY DEF IInv
<1> QED
  BY <1>1, Inductive, PTL

\* PostgresSource.write: when no thread is between its statement and the end of
\* its transaction, the connection has no open transaction and no error state.
THEOREM TransactionsAreEnded == Spec => []NoOpenTransaction
<1>1. IInv => NoOpenTransaction
  BY DEF IInv
<1> QED
  BY <1>1, Inductive, PTL

\* With one thread that writes and any thread that closes, what is counted as
\* written is stored, and what is counted as dropped is not, but for a commit whose
\* answer was lost.
THEOREM CountersAreTrue ==
    ASSUME NEW CONSTANT w, Writers = {w}
    PROVE  Spec => []CountersTrue
<1>1. Init => OneThreadInv
  <2>1. ASSUME Init PROVE WrittenIsStored /\ DroppedIsLost /\ InHands
    BY <2>1 DEF Init, WrittenIsStored, DroppedIsLost, InHands
  <2> QED
    BY <2>1, Initially DEF OneThreadInv
<1>2. OneThreadInv /\ [Next]_vars => OneThreadInv'
  <2> SUFFICES ASSUME OneThreadInv, [Next]_vars PROVE OneThreadInv'
    OBVIOUS
  <2>1. IInv'
    BY Step DEF OneThreadInv
  <2>2. CASE Next
    <3>1. WrittenIsStored' /\ DroppedIsLost' /\ InHands'
      BY <2>1, <2>2, OneThreadStep DEF OneThreadInv, IInv
    <3> QED
      BY <2>1, <3>1 DEF OneThreadInv
  <2>3. CASE UNCHANGED vars
    BY <2>1, <2>3 DEF OneThreadInv, WrittenIsStored, DroppedIsLost, InHands, Batch,
                      vars, connection, locals, history
  <2> QED
    BY <2>2, <2>3
<1>3. OneThreadInv => CountersTrue
  BY DEF OneThreadInv, IInv, CountersTrue
<1> QED
  BY <1>1, <1>2, <1>3, PTL DEF Spec
=============================================================================
