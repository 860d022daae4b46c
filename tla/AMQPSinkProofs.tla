--------------------------- MODULE AMQPSinkProofs ---------------------------
(***************************************************************************)
(* Proofs about the AMQP adapter, for any cap on the dials, any backoff    *)
(* interval, any number of records and any passing of time.                *)
(*                                                                         *)
(* Two parts of the inductive invariant carry the weight.  Excuses says    *)
(* what the stored instants mean: when the sink may next dial, and when    *)
(* its dial window ends, are never later than one interval after the last  *)
(* failure.  Windows locates the remembered dials in the dial windows,     *)
(* which the code forgets as soon as they are over.                        *)
(***************************************************************************)
EXTENDS AMQPSink, SequenceTheorems, TLAPS

\* Where emit() is tells what the sink holds.
Places ==
    /\ pc = "dialing" => CanReconnect /\ ~channel /\ ~closed
    /\ pc = "publishing" => channel /\ ~closed
    /\ lastFault <= now
    /\ kind = "owned" => channel
    /\ kind = "borrowed" => released = 0

\* The two reasons to wait, and until when.
Excuses ==
    /\ CanReconnect /\ (channel \/ pc # "idle") => nextReconnectAt <= now
    /\ CanReconnect /\ ~channel /\ pc = "idle" =>
        /\ nextReconnectAt <= now \/ nextReconnectAt = lastFault + interval
        /\ dialWindowEnds <= lastFault + interval
    /\ dialWindowEnds <= now + interval
    /\ lastDial = "failed" => ~channel /\ nextReconnectAt = lastFault + interval

\* The count of barren connections is borne out by the last of them.
Barren ==
    /\ Len(fates) <= 2
    /\ consecutiveUnproductive >= 1 => Len(fates) >= 1 /\ fates[Len(fates)] = "barren"

\* The dials of the current window are the last of those remembered, and all that
\* lie MaxDials or more before its first are an interval older than it.
Windows ==
    interval # 0 =>
        /\ Len(dials) <= 2 * MaxDials
        /\ dialsInWindow <= Len(dials)
        /\ dialsInWindow = 0 => Len(dials) = 0 /\ dialWindowEnds = 0
        /\ \A i, j \in 1..Len(dials) : i <= j => dials[i] <= dials[j]
        /\ \A i \in 1..Len(dials) : dials[i] <= now
        /\ dialsInWindow > 0 =>
            dials[Len(dials) - dialsInWindow + 1] + interval = dialWindowEnds
        /\ \A i \in 1..Len(dials) :
            i + MaxDials <= Len(dials) - dialsInWindow + 1 =>
                dials[i] + 2 * interval <= dialWindowEnds

IInv ==
    /\ TypeOK /\ Places /\ Excuses /\ Barren /\ Windows
    /\ BackoffEarned /\ NoConnectionLeak
-----------------------------------------------------------------------------
(* Sequences of which only the end is kept *)

\* r is q with x after it, but for its first element when there were n already.
KeptOf(r, q, x, n) ==
    /\ Len(q) = n => /\ Len(r) = n /\ r[n] = x
                     /\ \A i \in 1..(n - 1) : r[i] = q[i + 1]
    /\ Len(q) # n => /\ Len(r) = Len(q) + 1 /\ r[Len(q) + 1] = x
                     /\ \A i \in 1..Len(q) : r[i] = q[i]

\* What is kept of a sequence with one more element, and where.
LEMMA LastOfAppend ==
    ASSUME NEW T, NEW q \in Seq(T), NEW x \in T, NEW n \in Nat \ {0}, Len(q) <= n
    PROVE  /\ LastOf(n, Append(q, x)) \in Seq(T)
           /\ KeptOf(LastOf(n, Append(q, x)), q, x, n)
<1> USE DEF KeptOf
<1> DEFINE a == Append(q, x)
<1>1. /\ a \in Seq(T) /\ Len(a) = Len(q) + 1 /\ Len(q) \in Nat
      /\ \A i \in 1..Len(q) : a[i] = q[i]
      /\ a[Len(a)] = x
  OBVIOUS
<1>2. CASE Len(q) = n
  <2>1. LastOf(n, a) = SubSeq(a, 2, Len(a))
    BY <1>1, <1>2 DEF LastOf
  <2>2. /\ SubSeq(a, 2, Len(a)) \in Seq(T)
        /\ Len(SubSeq(a, 2, Len(a))) = n
        /\ \A i \in 1..n : SubSeq(a, 2, Len(a))[i] = a[i + 1]
    BY <1>1, <1>2
  <2> QED
    BY <1>1, <1>2, <2>1, <2>2
<1>3. CASE Len(q) # n
  <2>1. LastOf(n, a) = a
    BY <1>1, <1>3 DEF LastOf
  <2> QED
    BY <1>1, <1>3, <2>1
<1> QED
  BY <1>2, <1>3

-----------------------------------------------------------------------------
(* Each part of the invariant is preserved *)

\* Every action keeps the types.
LEMMA TypeStep ==
    ASSUME TypeOK, Barren, Windows, Next
    PROVE  TypeOK'
<1> USE DEF TypeOK
<1> USE CapAssumption
<1>1. CASE Drop
  BY <1>1 DEF Drop, setup, backoff, window, history
<1>2. CASE EmitDials
  <2>1. dials' \in Seq(Nat)
    <3>1. LastOf(2 * MaxDials, Append(dials, now)) \in Seq(Nat)
      BY SMTT(30) DEF LastOf
    <3> QED
      BY <1>2, <3>1 DEF EmitDials
  <2>2. dialWindowEnds' \in Nat /\ dialsInWindow' \in 0..MaxDials
    BY <1>2 DEF EmitDials, CountDial, CapReached, WindowOver, window
  <2> QED
    BY <1>2, <2>1, <2>2 DEF EmitDials, setup, counts, backoff
<1>3. CASE DialSucceeds
  BY <1>3 DEF DialSucceeds, setup, counts, backoff, window
<1>4. CASE DialFails
  BY <1>4 DEF DialFails, RefusedDial, BackoffAfterDial, setup, window
<1>5. CASE EmitPublishes
  BY <1>5 DEF EmitPublishes, setup, counts, backoff, window, history
<1>6. CASE PublishSucceeds
  BY <1>6 DEF PublishSucceeds, setup, backoff, window, history
<1>7. CASE PublishFails
  <2>1. fates' \in Seq({"productive", "barren"})
    <3> DEFINE fate == IF connectionPublishes # 0 THEN "productive" ELSE "barren"
    <3>1. LastOf(2, Append(fates, fate)) \in Seq({"productive", "barren"})
      <4>1. fate \in {"productive", "barren"}
        OBVIOUS
      <4>2. Append(fates, fate) \in Seq({"productive", "barren"})
        BY <4>1
      <4> QED
        BY <4>2 DEF LastOf
    <3> QED
      BY <1>7, <3>1 DEF PublishFails, Invalidate
  <2>2. /\ consecutiveUnproductive' \in Nat /\ nextReconnectAt' \in Nat
        /\ backoffMessage' \in {"redial", "publishable"}
    BY <1>7 DEF PublishFails, Invalidate, Invalidates, JudgeConnection, setup, backoff
  <2>3. released' \in Nat /\ connectionPublishes' \in Nat
    BY <1>7 DEF PublishFails, Invalidate, Invalidates, setup
  <2>4. channel' \in BOOLEAN
    BY <1>7 DEF PublishFails, Invalidate, Invalidates, setup
  <2> QED
    BY <1>7, <2>1, <2>2, <2>3, <2>4 DEF PublishFails, setup, window
<1>8. CASE Close
  BY <1>8 DEF Close, setup, counts, backoff, window
<1>9. CASE Tick
  BY <1>9 DEF Tick, setup, counts, backoff, window, history
<1> QED
  BY <1>1, <1>2, <1>3, <1>4, <1>5, <1>6, <1>7, <1>8, <1>9
  DEF Next, Emit, Driver, EmitNotARecord, EmitClosed, EmitNoChannel, EmitBackingOff,
      EmitCapped

\* Where emit() is, what it holds and what it excuses itself with.
LEMMA PlaceStep ==
    ASSUME TypeOK, Places, Excuses, Next
    PROVE  Places' /\ Excuses'
<1> USE DEF TypeOK, Places, Excuses, CanReconnect
<1> USE CapAssumption
<1>1. CASE Drop
  BY <1>1 DEF Drop, setup, backoff, window, history
<1>2. CASE EmitDials
  BY <1>2 DEF EmitDials, NeedsDial, MayEmit, BackingOff, CountDial, setup, counts, backoff,
              window
<1>3. CASE DialSucceeds
  BY <1>3 DEF DialSucceeds, setup, counts, backoff, window
<1>4. CASE DialFails
  BY <1>4 DEF DialFails, RefusedDial, BackoffAfterDial, setup, window
<1>5. CASE EmitPublishes
  BY <1>5 DEF EmitPublishes, MayEmit, setup, counts, backoff, window, history
<1>6. CASE PublishSucceeds
  BY <1>6 DEF PublishSucceeds, setup, backoff, window, history
<1>7. CASE PublishFails
  <2>1. channel /\ ~closed /\ lastDial # "failed"
    BY <1>7 DEF PublishFails
  <2>2. kind' = kind /\ (channel' \/ kind = "url")
    BY <1>7, <2>1 DEF PublishFails, Invalidate, Invalidates, setup
  <2>3. released' = released \/ kind = "url"
    BY <1>7 DEF PublishFails, Invalidate, Invalidates, setup
  <2>4. pc' = "idle" /\ now' = now /\ lastFault' = now
    BY <1>7 DEF PublishFails
  <2>5. Places'
    BY <2>2, <2>3, <2>4
  <2>6. CASE CanReconnect
    BY <1>7, <2>1, <2>6
    DEF PublishFails, Invalidate, Invalidates, JudgeConnection, setup, window, backoff
  <2>7. CASE ~CanReconnect
    BY <1>7, <2>1, <2>7 DEF PublishFails, Invalidate, Invalidates, setup, window, backoff
  <2> QED
    BY <2>5, <2>6, <2>7
<1>8. CASE Close
  BY <1>8 DEF Close, OwnsConnection, setup, counts, backoff, window
<1>9. CASE Tick
  BY <1>9 DEF Tick, setup, counts, backoff, window, history
<1> QED
  BY <1>1, <1>2, <1>3, <1>4, <1>5, <1>6, <1>7, <1>8, <1>9
  DEF Next, Emit, Driver, EmitNotARecord, EmitClosed, EmitNoChannel, EmitBackingOff,
      EmitCapped


\* The count of barren connections in a row tells the fates of the last two.
LEMMA BarrenStep ==
    ASSUME TypeOK, Barren, Next
    PROVE  /\ Barren'
           /\ PublishFails /\ Invalidates /\ consecutiveUnproductive' > 1
                => fates' = <<"barren", "barren">>
<1>1. CASE PublishFails /\ Invalidates
  <2> DEFINE fate == IF connectionPublishes # 0 THEN "productive" ELSE "barren"
             Fates == {"productive", "barren"}
  <2>1. fates' = LastOf(2, Append(fates, fate)) /\ fate \in Fates
    BY <1>1 DEF PublishFails, Invalidate
  <2>2. /\ consecutiveUnproductive \in Nat
        /\ consecutiveUnproductive' =
            IF fate = "productive" THEN 0 ELSE consecutiveUnproductive + 1
    BY <1>1 DEF PublishFails, Invalidate, JudgeConnection, TypeOK
  <2>3. fates \in Seq(Fates)
    BY DEF TypeOK
  <2> DEFINE F == Len(fates)
             R == Len(fates')
  <2>4. F \in Nat /\ F <= 2
    BY <2>3, LenProperties DEF Barren
  <2> HIDE DEF fate, Fates
  <2>5. /\ F = 2 => R = 2 /\ fates'[2] = fate /\ fates'[1] = fates[2]
        /\ F # 2 => /\ R = F + 1 /\ fates'[F + 1] = fate
                    /\ \A i \in 1..F : fates'[i] = fates[i]
        /\ fates' \in Seq(Fates)
    <3>1. 2 \in Nat \ {0} /\ Len(fates) <= 2
      BY <2>4
    <3>2. fates' \in Seq(Fates) /\ KeptOf(fates', fates, fate, 2)
      BY <2>1, <2>3, <3>1, LastOfAppend
    <3> QED
      BY <3>2 DEF KeptOf
  <2>6. consecutiveUnproductive >= 1 => F >= 1 /\ fates[F] = "barren"
    BY DEF Barren
  <2> HIDE DEF F, R
  <2>7. F \in {0, 1, 2} /\ R \in {1, 2} /\ fates'[R] = fate
    BY <2>4, <2>5
  <2>8. Barren'
    <3>1. R <= 2 /\ (consecutiveUnproductive' >= 1 => R >= 1 /\ fates'[R] = "barren")
      BY <2>2, <2>7 DEF fate
    <3> QED
      BY <3>1 DEF Barren, R
  <2>9. ASSUME consecutiveUnproductive' > 1
        PROVE  fates' = <<"barren", "barren">>
    <3>1. consecutiveUnproductive >= 1 /\ fate = "barren"
      BY <2>2, <2>9 DEF fate
    <3>2. R = 2 /\ fates'[1] = "barren" /\ fates'[2] = "barren"
      BY <2>4, <2>5, <2>6, <2>7, <3>1
    <3>3. Len(fates') = 2
      BY <3>2 DEF R
    <3> QED
      BY <2>5, <3>2, <3>3
  <2> QED
    BY <2>8, <2>9
<1>2. CASE ~(PublishFails /\ Invalidates)
  <2>1. fates' = fates /\ consecutiveUnproductive' = consecutiveUnproductive
    BY <1>2
    DEF Next, Emit, Driver, EmitNotARecord, EmitClosed, EmitNoChannel, EmitBackingOff,
        EmitCapped, Drop, EmitDials, EmitPublishes, DialSucceeds, DialFails,
        BackoffAfterDial, PublishSucceeds, PublishFails, Invalidate, Close, Tick, backoff,
        history
  <2> QED
    BY <1>2, <2>1 DEF Barren
<1> QED
  BY <1>1, <1>2

\* A dial is remembered at the end, in its window.
LEMMA DialStep ==
    ASSUME TypeOK, Windows, Excuses, EmitDials, interval # 0
    PROVE  Windows'
<1> DEFINE L == Len(dials)
           R == Len(dials')
           k == dialsInWindow
           M == MaxDials
           I == interval
           gone == IF L = 2 * M THEN 1 ELSE 0
<1>1. /\ L \in Nat /\ L <= 2 * M /\ M \in Nat \ {0} /\ I \in Nat \ {0} /\ now \in Nat
      /\ k \in 0..M /\ k <= L /\ dialWindowEnds \in Nat
      /\ \A i \in 1..L : dials[i] \in Nat /\ dials[i] <= now
      /\ \A i, j \in 1..L : i <= j => dials[i] <= dials[j]
      /\ k = 0 => L = 0 /\ dialWindowEnds = 0
      /\ k > 0 => dials[L - k + 1] + I = dialWindowEnds
      /\ \A i \in 1..L : i + M <= L - k + 1 => dials[i] + 2 * I <= dialWindowEnds
  BY CapAssumption, LenProperties DEF TypeOK, Windows
<1>2. dials' = LastOf(2 * M, Append(dials, now)) /\ now' = now /\ interval' = interval
  BY DEF EmitDials, setup
<1>3. /\ L = 2 * M => /\ R = 2 * M /\ dials'[2 * M] = now
                      /\ \A i \in 1..(2 * M - 1) : dials'[i] = dials[i + 1]
      /\ L # 2 * M => /\ R = L + 1 /\ dials'[L + 1] = now
                      /\ \A i \in 1..L : dials'[i] = dials[i]
  <2>1. dials \in Seq(Nat) /\ now \in Nat /\ 2 * M \in Nat \ {0} /\ Len(dials) <= 2 * M
    BY <1>1 DEF TypeOK
  <2>2. KeptOf(dials', dials, now, 2 * M)
    BY <1>2, <2>1, LastOfAppend
  <2> QED
    BY <2>2 DEF KeptOf
<1> HIDE DEF L, R
<1>4. /\ gone \in {0, 1} /\ R = L + 1 - gone /\ R <= 2 * M /\ dials'[R] = now
      /\ gone = 1 => L = 2 * M
      /\ \A i \in 1..(L - gone) : dials'[i] = dials[i + gone]
  <2>1. CASE L = 2 * M
    BY <1>1, <1>3, <2>1
  <2>2. CASE L # 2 * M
    BY <1>1, <1>3, <2>2
  <2> QED
    BY <2>1, <2>2
<1>5. L - gone >= 0 /\ R \in Nat \ {0}
  BY <1>1, <1>4
<1> HIDE DEF gone
<1>6. \A i \in 1..(L - gone) :
        i + gone \in 1..L /\ dials'[i] \in Nat /\ dials'[i] <= now
  BY <1>1, <1>4, <1>5
<1>7. \A i \in 1..R : dials'[i] \in Nat /\ dials'[i] <= now
  BY SMTT(30), <1>1, <1>4, <1>5, <1>6
<1>8. \A i, j \in 1..R : i <= j => dials'[i] <= dials'[j]
  <2> SUFFICES ASSUME NEW i \in 1..R, NEW j \in 1..R, i <= j
               PROVE  dials'[i] <= dials'[j]
    OBVIOUS
  <2>1. CASE j = L + 1 - gone
    BY <1>4, <1>7, <2>1
  <2>2. CASE j # L + 1 - gone
    <3>1. i \in 1..(L - gone) /\ j \in 1..(L - gone)
      BY <1>1, <1>4, <1>5, <2>2
    <3>2. i + gone \in 1..L /\ j + gone \in 1..L /\ i + gone <= j + gone
      BY <1>4, <1>6, <3>1
    <3>3. dials[i + gone] <= dials[j + gone]
      BY <1>1, <3>2
    <3> QED
      BY <1>4, <3>1, <3>3
  <2> QED
    BY <2>1, <2>2
<1>9. CASE WindowOver
  <2>1. dialWindowEnds' = now + I /\ dialsInWindow' = 1
    BY <1>9 DEF EmitDials, CountDial
  <2>2. ASSUME NEW i \in 1..R, i + M <= R
        PROVE  dials'[i] + 2 * I <= dialWindowEnds'
    <3>1. i \in 1..(L - gone) /\ i + gone <= L - k + 1 /\ k > 0
      BY <1>1, <1>4, <1>5, <2>2
    <3>2. i + gone \in 1..L /\ L - k + 1 \in 1..L
      BY <1>1, <1>6, <3>1
    <3>3. dials[i + gone] <= dials[L - k + 1] /\ dials[L - k + 1] + I <= now
      BY <1>1, <1>9, <3>1, <3>2 DEF WindowOver
    <3>4. dials'[i] = dials[i + gone] /\ dials[i + gone] \in Nat /\ dials[L - k + 1] \in Nat
      BY <1>1, <1>4, <3>1, <3>2
    <3> QED
      BY <1>1, <2>1, <3>3, <3>4
  <2>3. dials'[R] = now /\ R >= 1 /\ R \in Nat
    BY <1>1, <1>4, <1>5
  <2> QED
    BY <1>1, <1>2, <1>5, <1>4, <1>7, <1>8, <2>1, <2>2, <2>3 DEF Windows, R
<1>10. CASE ~WindowOver
  <2>1. dialWindowEnds' = dialWindowEnds /\ dialsInWindow' = k + 1 /\ k < M
    BY <1>1, <1>10 DEF EmitDials, CountDial, CapReached
  <2>2. k > 0
    BY <1>1, <1>10 DEF WindowOver
  <2>3. /\ R - (k + 1) + 1 = L - gone - k + 1
        /\ L - gone - k + 1 \in 1..(L - gone)
    BY <1>1, <1>4, <1>5, <2>1, <2>2
  <2>4. dials'[R - (k + 1) + 1] + I = dialWindowEnds
    BY <1>1, <1>4, <1>5, <2>2, <2>3
  <2>5. ASSUME NEW i \in 1..R, i + M <= R - (k + 1) + 1
        PROVE  dials'[i] + 2 * I <= dialWindowEnds
    <3>1. i \in 1..(L - gone) /\ i + gone \in 1..L /\ (i + gone) + M <= L - k + 1
      BY <1>1, <1>4, <1>5, <2>2, <2>3, <2>5
    <3> QED
      BY <1>1, <1>4, <3>1
  <2>6. k + 1 <= R /\ R <= 2 * M
    BY <1>1, <1>4, <1>5, <2>1
  <2> QED
    BY SMTT(30), <1>1, <1>2, <1>7, <1>8, <2>1, <2>2, <2>4, <2>5, <2>6 DEF Windows, R
<1> QED
  BY <1>9, <1>10

\* The remembered dials stay where the windows put them.
LEMMA WindowsStep ==
    ASSUME TypeOK, Windows, Excuses, Next
    PROVE  Windows'
<1>1. interval' = interval
  BY DEF Next, Emit, Driver, EmitNotARecord, EmitClosed, EmitNoChannel, EmitBackingOff,
         EmitCapped, Drop, EmitDials, EmitPublishes, DialSucceeds, DialFails,
         PublishSucceeds, PublishFails, Close, Tick, setup
<1>2. CASE EmitDials
  <2>1. CASE interval # 0
    BY <1>2, <2>1, DialStep
  <2> QED
    BY <1>1, <2>1 DEF Windows
<1>3. CASE ~EmitDials
  <2>1. dials' = dials /\ UNCHANGED window /\ now' >= now /\ now' \in Nat
    BY <1>3
    DEF Next, Emit, Driver, EmitNotARecord, EmitClosed, EmitNoChannel, EmitBackingOff,
        EmitCapped, Drop, EmitPublishes, DialSucceeds, DialFails, PublishSucceeds,
        PublishFails, Close, Tick, window, history, TypeOK
  <2>2. \A i \in 1..Len(dials) : dials[i] \in Nat
    BY LenProperties DEF TypeOK
  <2>3. interval # 0 => \A i \in 1..Len(dials) : dials[i] <= now'
    BY SMTT(30), <2>1, <2>2 DEF Windows, TypeOK
  <2> QED
    BY <1>1, <2>1, <2>3 DEF Windows, window
<1> QED
  BY <1>2, <1>3

\* The sink goes on having one of its two reasons.
LEMMA EarnedStep ==
    ASSUME TypeOK, Places, Excuses, Barren, BackoffEarned, Next
    PROVE  BackoffEarned'
<1> USE DEF TypeOK, BackoffEarned, BackingOff, CanReconnect
<1>1. CASE Drop
  BY <1>1 DEF Drop, setup, backoff, history
<1>2. CASE EmitDials \/ DialSucceeds \/ EmitPublishes
  BY <1>2 DEF EmitDials, DialSucceeds, EmitPublishes
<1>3. CASE DialFails
  BY <1>3 DEF DialFails, BackoffAfterDial
<1>4. CASE PublishSucceeds
  BY <1>4 DEF PublishSucceeds, Places
<1>5. CASE PublishFails
  <2>1. now' = now /\ kind' = kind
    BY <1>5 DEF PublishFails, setup
  <2>2. kind = "url" => nextReconnectAt <= now
    BY <1>5 DEF PublishFails, Excuses
  <2>3. CASE kind = "url" /\ consecutiveUnproductive' > 1
    <3>1. fates' = <<"barren", "barren">>
      BY <1>5, <2>3, BarrenStep DEF Invalidates
    <3>2. backoffMessage' = "publishable"
      BY <1>5, <2>3 DEF PublishFails, Invalidate, Invalidates, JudgeConnection
    <3> QED
      BY <3>1, <3>2
  <2>4. CASE kind = "url" /\ ~(consecutiveUnproductive' > 1)
    <3>1. nextReconnectAt' = nextReconnectAt
      BY <1>5, <2>4 DEF PublishFails, Invalidate, Invalidates, JudgeConnection
    <3> QED
      BY <2>1, <2>2, <2>4, <3>1
  <2>5. CASE kind # "url"
    BY <2>1, <2>5
  <2> QED
    BY <2>3, <2>4, <2>5
<1>6. CASE Close
  BY <1>6 DEF Close, setup, backoff
<1>7. CASE Tick
  BY <1>7 DEF Tick, setup, backoff, history
<1> QED
  BY <1>1, <1>2, <1>3, <1>4, <1>5, <1>6, <1>7
  DEF Next, Emit, Driver, EmitNotARecord, EmitClosed, EmitNoChannel, EmitBackingOff,
      EmitCapped

\* No step leaves a connection behind, and none touches a channel it cannot replace.
LEMMA LeakStep ==
    ASSUME TypeOK, Places, NoConnectionLeak, Next
    PROVE  NoConnectionLeak' /\ GivenChannelKept
<1> USE DEF TypeOK, Places, NoConnectionLeak, GivenChannelKept, OwnsConnection, CanReconnect
<1>1. CASE Drop
  BY <1>1 DEF Drop, setup, history
<1>2. CASE EmitDials
  BY <1>2 DEF EmitDials, setup
<1>3. CASE DialSucceeds
  BY <1>3 DEF DialSucceeds, setup
<1>4. CASE DialFails
  BY <1>4 DEF DialFails, RefusedDial, setup
<1>5. CASE EmitPublishes
  BY <1>5 DEF EmitPublishes, setup, history
<1>6. CASE PublishSucceeds
  BY <1>6 DEF PublishSucceeds, setup, history
<1>7. CASE PublishFails
  <2>1. CASE kind = "url"
    BY <1>7, <2>1 DEF PublishFails, Invalidate, Invalidates, setup
  <2>2. CASE kind # "url"
    BY <1>7, <2>2 DEF PublishFails, Invalidate, Invalidates, setup
  <2> QED
    BY <2>1, <2>2
<1>8. CASE Close
  BY <1>8 DEF Close, setup
<1>9. CASE Tick
  BY <1>9 DEF Tick, setup, history
<1> QED
  BY <1>1, <1>2, <1>3, <1>4, <1>5, <1>6, <1>7, <1>8, <1>9
  DEF Next, Emit, Driver, EmitNotARecord, EmitClosed, EmitNoChannel, EmitBackingOff,
      EmitCapped

-----------------------------------------------------------------------------
(* The theorems *)

\* What a stuttering step leaves alone.
LEMMA Stutter ==
    ASSUME IInv, UNCHANGED vars
    PROVE  IInv' /\ GivenChannelKept
<1> USE DEF IInv, vars, setup, counts, backoff, window, history
<1>1. TypeOK' /\ Places' /\ Excuses' /\ Barren'
  BY DEF TypeOK, Places, Excuses, Barren, CanReconnect
<1>2. Windows' /\ BackoffEarned' /\ NoConnectionLeak'
  BY DEF Windows, BackoffEarned, NoConnectionLeak, CanReconnect, OwnsConnection, BackingOff
<1>3. GivenChannelKept
  BY DEF GivenChannelKept, Places
<1> QED
  BY <1>1, <1>2, <1>3

\* The inductive invariant of the sink: what its instants and its counts mean.
THEOREM Inductive == Spec => []IInv
<1>1. Init => IInv
  <2> SUFFICES ASSUME Init PROVE IInv
    OBVIOUS
  <2> USE CapAssumption DEF Init, CanReconnect, OwnsConnection
  <2>1. TypeOK /\ Places
    <3>1. opened \in Nat /\ dials \in Seq(Nat) /\ fates \in Seq({"productive", "barren"})
      OBVIOUS
    <3>2. channel \in BOOLEAN /\ closed \in BOOLEAN
      OBVIOUS
    <3>3. kind \in {"url", "owned", "borrowed"} /\ interval \in Intervals
      OBVIOUS
    <3>4. /\ nextReconnectAt \in Nat /\ dialWindowEnds \in Nat /\ dialsInWindow \in 0..MaxDials
          /\ connectionPublishes \in Nat /\ consecutiveUnproductive \in Nat
          /\ published \in Nat /\ dropped \in Nat /\ now \in Nat /\ released \in Nat
          /\ lastFault \in Nat
      OBVIOUS
    <3>5. /\ backoffMessage \in {"redial", "publishable"}
          /\ pc \in {"idle", "dialing", "publishing"} /\ lastDial \in {"none", "ok", "failed"}
      OBVIOUS
    <3>6. TypeOK
      BY <3>1, <3>2, <3>3, <3>4, <3>5 DEF TypeOK
    <3>7. Places
      BY DEF Places
    <3> QED
      BY <3>6, <3>7
  <2>2. Excuses /\ Barren /\ Windows
    BY DEF Excuses, Barren, Windows
  <2>3. BackoffEarned /\ NoConnectionLeak
    BY DEF BackoffEarned, NoConnectionLeak, BackingOff
  <2> QED
    BY <2>1, <2>2, <2>3 DEF IInv
<1>2. IInv /\ [Next]_vars => IInv'
  <2> SUFFICES ASSUME IInv, [Next]_vars PROVE IInv'
    OBVIOUS
  <2>1. CASE Next
    BY <2>1, TypeStep, PlaceStep, BarrenStep, WindowsStep, EarnedStep, LeakStep DEF IInv
  <2>2. CASE UNCHANGED vars
    BY <2>2, Stutter
  <2> QED
    BY <2>1, <2>2
<1> QED
  BY <1>1, <1>2, PTL DEF Spec

\* The sink waits only for the reason it logs, and refuses a record for at most one
\* interval after the last failure it saw, by backoff or by cap.
THEOREM BackoffIsJust == Spec => []BackoffJust
<1>1. IInv => BackoffJust
  <2> SUFFICES ASSUME IInv PROVE BackoffJust
    OBVIOUS
  <2>1. RefusalBounded
    BY CapAssumption
    DEF IInv, TypeOK, Excuses, RefusalBounded, BackingOff, CapReached, WindowOver
  <2> QED
    BY <2>1 DEF IInv, BackoffJust
<1> QED
  BY <1>1, Inductive, PTL

\* Whatever becomes of the connections, the 2 * MaxDials last dials are spread over
\* an interval at least: the cap of a fixed window bounds any window by twice itself.
THEOREM ChurnIsBounded == Spec => []ChurnBound
<1>1. IInv => ChurnBound
  <2> SUFFICES ASSUME IInv, interval # 0, Len(dials) = 2 * MaxDials
               PROVE  dials[2 * MaxDials] - dials[1] >= interval
    BY DEF ChurnBound
  <2> DEFINE L == Len(dials)
             k == dialsInWindow
             M == MaxDials
  <2>1. /\ M \in Nat \ {0} /\ interval \in Nat /\ k \in 0..M /\ L = 2 * M
        /\ k = 0 => L = 0
        /\ k > 0 => dials[L - k + 1] + interval = dialWindowEnds
        /\ \A i, j \in 1..L : i <= j => dials[i] <= dials[j]
        /\ \A i \in 1..L :
            i + M <= L - k + 1 => dials[i] + 2 * interval <= dialWindowEnds
        /\ \A i \in 1..L : dials[i] \in Nat
    BY CapAssumption, LenProperties DEF IInv, TypeOK, Windows
  <2> HIDE DEF L
  <2>2. k > 0 /\ 1 \in 1..L /\ 2 * M \in 1..L /\ L - k + 1 \in 1..L
    BY <2>1
  <2>3. dials[1] + 2 * interval <= dialWindowEnds
    BY <2>1, <2>2
  <2>4. dials[L - k + 1] <= dials[2 * M]
    BY <2>1, <2>2
  <2>5. dials[1] \in Nat /\ dials[2 * M] \in Nat /\ dials[L - k + 1] \in Nat
    BY <2>1, <2>2
  <2> QED
    BY <2>1, <2>2, <2>3, <2>4, <2>5
<1> QED
  BY <1>1, Inductive, PTL

\* After a failed dial the next one waits an interval, counted from the failure.
THEOREM FailedDialsAreSpaced == Spec => FailedDialSpaced
<1>1. IInv /\ [Next]_vars => [(lastDial = "failed" /\ EmitDials) => now >= lastFault + interval]_vars
  BY CapAssumption DEF IInv, TypeOK, Excuses, EmitDials, BackingOff
<1> QED
  BY <1>1, Inductive, PTL DEF Spec, FailedDialSpaced

\* Every connection the sink opens is closed or held, none is left after close(), and
\* a channel it was given and cannot replace is never discarded.
THEOREM ConnectionsAreKept == Spec => ConnectionsKept
<1>1. IInv /\ [Next]_vars => [NoConnectionLeak' /\ GivenChannelKept]_vars
  BY LeakStep DEF IInv
<1> QED
  BY <1>1, Inductive, PTL DEF Spec, ConnectionsKept
=============================================================================
