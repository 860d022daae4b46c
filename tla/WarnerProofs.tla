---------------------------- MODULE WarnerProofs ----------------------------
(***************************************************************************)
(* Proofs about the rate-limited warner, for any number of threads, any    *)
(* reasons and any interval.                                               *)
(*                                                                         *)
(* A call decides by a time it read before it got the lock, so the calls   *)
(* of one reason may decide in another order than they read the clock.     *)
(* What makes the limit right all the same is Windows: the end of the      *)
(* window is an interval after the latest line, in the times that were     *)
(* read, and no line is later.  That every occurrence is in one account    *)
(* follows from Accounts: what happened was told, is counted, is in the    *)
(* hands of the calls under way, or went with a line whose logger raised.  *)
(***************************************************************************)
EXTENDS Warner, FiniteSetTheorems, FunctionTheorems, TLAPS

\* What the variables that hold no more than a call's place are.
Shapes ==
    /\ interval \in Intervals
    /\ nextAllowed \in [Keys -> Int] /\ suppressed \in [Keys -> Nat]
    /\ passed \in [Keys -> Seq(Nat)]
    /\ pc \in [Calls -> {"idle", "called", "timed", "logging"}]
    /\ now \in [Calls -> Nat] /\ count \in [Calls -> Nat]
    /\ key \in [Calls -> Keys \cup {None}]
    /\ \A c \in Calls : pc[c] # "idle" => key[c] \in Keys
    /\ lock = {}

\* The window of a reason is that of its latest line.
Windows ==
    \A k \in Keys :
        /\ interval = 0 => nextAllowed[k] = -1
        /\ nextAllowed[k] # -1 =>
            \E i \in DOMAIN passed[k] : nextAllowed[k] = passed[k][i] + interval
        /\ interval # 0 =>
            \A i \in DOMAIN passed[k] : passed[k][i] + interval <= nextAllowed[k]

IInv == TypeOK /\ Shapes /\ Windows /\ Unlimited /\ LinesSpaced

-----------------------------------------------------------------------------
(* Each part of the invariant is preserved *)

\* One step of one call, or of the clock.
LEMMA StepOfOne ==
    ASSUME Next
    PROVE  \/ Tick
           \/ \E c \in Calls : \/ ReadClock(c) \/ Suppress(c) \/ LetThrough(c) \/ Logged(c)
                               \/ \E k \in Keys : Call(c, k)
  BY DEF Next, Proceed

\* Every action keeps the shapes.
LEMMA ShapesStep ==
    ASSUME TypeOK, Shapes, Next
    PROVE  Shapes'
<1> USE DEF Shapes
<1>1. CASE Tick
  BY <1>1 DEF Tick, warner, locals, history
<1>2. ASSUME NEW c \in Calls, NEW k \in Keys, Call(c, k)
      PROVE  Shapes'
  BY <1>2 DEF Call, warner
<1>3. ASSUME NEW c \in Calls, ReadClock(c)
      PROVE  Shapes'
  <2>1. clock \in Nat
    BY TimesAssumption DEF TypeOK
  <2> QED
    BY <1>3, <2>1 DEF ReadClock, warner, history
<1>4. ASSUME NEW c \in Calls, Suppress(c)
      PROVE  Shapes'
  <2>1. suppressed' \in [Keys -> Nat]
    BY <1>4 DEF Suppress, Bucket
  <2> QED
    BY <1>4, <2>1 DEF Suppress, Return, history
<1>5. ASSUME NEW c \in Calls, LetThrough(c)
      PROVE  Shapes'
  <2>1. key[c] \in Keys /\ now[c] \in Nat /\ interval \in Nat
    BY <1>5, TimesAssumption DEF LetThrough
  <2>2. WindowFrom(key[c], now[c]) \in Int
    BY <2>1 DEF WindowFrom
  <2>3. /\ count' \in [Calls -> Nat] /\ suppressed' \in [Keys -> Nat]
        /\ nextAllowed' \in [Keys -> Int] /\ passed' \in [Keys -> Seq(Nat)]
    BY <1>5, <2>1, <2>2 DEF LetThrough, Bucket, CountLeft
  <2> QED
    BY <1>5, <2>3 DEF LetThrough, AfterDeciding
<1>6. ASSUME NEW c \in Calls, Logged(c)
      PROVE  Shapes'
  BY <1>6 DEF Logged, Return
<1> QED
  BY <1>1, <1>2, <1>3, <1>4, <1>5, <1>6, StepOfOne

\* A line that gets through opens the window that follows it, and nothing else moves
\* a window: so windows end an interval after the latest line.
LEMMA WindowsStep ==
    ASSUME TypeOK, Shapes, Windows, LinesSpaced, Next
    PROVE  Windows' /\ LinesSpaced'
<1>1. CASE \E c \in Calls : LetThrough(c)
  <2>1. PICK c \in Calls : LetThrough(c)
    BY <1>1
  <2> DEFINE b == key[c]
             t == now[c]
  <2>2. b \in Keys /\ t \in Nat /\ interval \in Nat /\ nextAllowed[b] \in Int
    BY <2>1, TimesAssumption DEF LetThrough, Shapes
  <2>3. /\ interval' = interval
        /\ nextAllowed'[b] = WindowFrom(b, t) /\ passed'[b] = Append(passed[b], t)
        /\ \A k \in Keys \ {b} : nextAllowed'[k] = nextAllowed[k] /\ passed'[k] = passed[k]
    BY <2>1, <2>2 DEF LetThrough, Bucket, Shapes
  <2>4. /\ passed[b] \in Seq(Nat)
        /\ DOMAIN passed[b] = 1..Len(passed[b]) /\ Len(passed[b]) \in Nat
        /\ \A i \in DOMAIN passed[b] : passed[b][i] \in Nat
    BY <2>2 DEF Shapes
  \* The new line is the last, and the others are as they were.
  <2>8. /\ DOMAIN passed'[b] = 1..(Len(passed[b]) + 1)
        /\ passed'[b][Len(passed[b]) + 1] = t
        /\ \A i \in DOMAIN passed[b] : passed'[b][i] = passed[b][i]
    BY <2>2, <2>3, <2>4
  <2>9. \A i, j \in DOMAIN passed'[b] :
            /\ i \in DOMAIN passed[b] \/ i = Len(passed[b]) + 1
            /\ i < j => i \in DOMAIN passed[b]
    <3> DEFINE n == Len(passed[b])
    <3>1. n \in Nat /\ DOMAIN passed[b] = 1..n /\ DOMAIN passed'[b] = 1..(n + 1)
      BY <2>4, <2>8
    <3> HIDE DEF n
    <3>2. \A i, j \in 1..(n + 1) : (i \in 1..n \/ i = n + 1) /\ (i < j => i \in 1..n)
      BY <3>1
    <3> QED
      BY <3>1, <3>2 DEF n
  <2>5. interval # 0 => \A i \in DOMAIN passed[b] : passed[b][i] + interval <= t
    <3> SUFFICES ASSUME interval # 0, NEW i \in DOMAIN passed[b]
                 PROVE  passed[b][i] + interval <= t
      OBVIOUS
    <3>1. passed[b][i] \in Nat /\ passed[b][i] + interval <= nextAllowed[b]
      BY <2>2, <2>4 DEF Windows
    <3>2. nextAllowed[b] # -1 => ~(t < nextAllowed[b])
      BY <2>1 DEF LetThrough, InWindow, Bucket
    <3> QED
      BY <2>2, <3>1, <3>2
  <2>6. Windows'
    <3> SUFFICES ASSUME NEW k \in Keys
                 PROVE  /\ interval = 0 => nextAllowed'[k] = -1
                        /\ nextAllowed'[k] # -1 =>
                            \E i \in DOMAIN passed'[k] :
                                nextAllowed'[k] = passed'[k][i] + interval
                        /\ interval # 0 =>
                            \A i \in DOMAIN passed'[k] :
                                passed'[k][i] + interval <= nextAllowed'[k]
      BY <2>3 DEF Windows
    <3>1. CASE k # b
      BY <2>3, <3>1 DEF Windows
    <3>2. CASE k = b /\ interval = 0
      BY <2>2, <2>3, <3>2 DEF Windows, WindowFrom
    <3>3. CASE k = b /\ interval # 0
      <4>1. nextAllowed'[k] = t + interval
        BY <2>2, <2>3, <3>3 DEF WindowFrom
      <4>2. Len(passed[b]) + 1 \in DOMAIN passed'[k]
        BY <2>4, <2>8, <3>3
      <4>3. ASSUME NEW i \in DOMAIN passed'[k]
            PROVE  passed'[k][i] + interval <= t + interval
        <5>1. CASE i = Len(passed[b]) + 1
          BY <2>2, <2>8, <3>3, <5>1
        <5>2. CASE i \in DOMAIN passed[b]
          <6>1. passed'[k][i] = passed[b][i] /\ passed[b][i] \in Nat
            BY <2>4, <2>8, <3>3, <5>2
          <6>2. passed[b][i] + interval <= t
            BY <2>5, <3>3, <5>2
          <6> QED
            BY <2>2, <6>1, <6>2
        <5> QED
          BY <2>9, <3>3, <5>1, <5>2
      <4> QED
        BY <2>8, <3>3, <4>1, <4>2, <4>3
    <3> QED
      BY <3>1, <3>2, <3>3
  <2>7. LinesSpaced'
    <3> SUFFICES ASSUME interval # 0, NEW k \in Keys,
                        NEW i \in DOMAIN passed'[k], NEW j \in DOMAIN passed'[k], i < j
                 PROVE  passed'[k][j] - passed'[k][i] >= interval
      BY <2>3 DEF LinesSpaced
    <3>1. CASE k # b
      BY <2>3, <3>1 DEF LinesSpaced
    <3>2. CASE k = b /\ j # Len(passed[b]) + 1
      <4>1. i \in DOMAIN passed[b] /\ j \in DOMAIN passed[b]
        BY <2>9, <3>2
      <4> QED
        BY <2>2, <2>8, <3>2, <4>1 DEF LinesSpaced
    <3>3. CASE k = b /\ j = Len(passed[b]) + 1
      <4>1. i \in DOMAIN passed[b]
        BY <2>9, <3>3
      <4>2. passed'[k][i] = passed[b][i] /\ passed[b][i] \in Nat /\ passed'[k][j] = t
        BY <2>4, <2>8, <3>3, <4>1
      <4>3. passed[b][i] + interval <= t
        BY <2>5, <4>1
      <4> QED
        BY <2>2, <4>2, <4>3
    <3> QED
      BY <3>1, <3>2, <3>3
  <2> QED
    BY <2>6, <2>7
<1>2. CASE ~\E c \in Calls : LetThrough(c)
  <2>1. UNCHANGED <<interval, nextAllowed, passed>>
    BY <1>2, StepOfOne
    DEF Tick, Call, ReadClock, Suppress, Logged, warner, history, locals
  <2> QED
    BY <2>1 DEF Windows, LinesSpaced
<1> QED
  BY <1>1, <1>2

\* The bounds of the type invariant, and no limit when the interval is 0.
LEMMA BoundsStep ==
    ASSUME TypeOK, Shapes, Windows, Unlimited, Next
    PROVE  TypeOK' /\ Unlimited'
<1>1. Shapes'
  BY ShapesStep
<1>2. clock' \in 0..MaxTime /\ clock <= clock' /\ clock \in Nat /\ MaxTime \in Nat
  <2>1. clock' = clock \/ (clock < MaxTime /\ clock' = clock + 1)
    BY StepOfOne DEF Tick, Call, ReadClock, Suppress, LetThrough, Logged
  <2>2. clock \in 0..MaxTime
    BY DEF TypeOK
  <2> QED
    BY <2>1, <2>2, TimesAssumption
<1>3. lock' \subseteq Calls /\ Cardinality(lock') <= 1
  BY <1>1, FS_EmptySet DEF Shapes
<1>4. \A c \in Calls : count'[c] \in Nat /\ now'[c] \in Nat
  BY <1>1 DEF Shapes
<1>5. \A k \in Keys : suppressed'[k] \in Nat
  BY <1>1 DEF Shapes
<1>6. \A c \in Calls : now'[c] <= clock'
  <2>1. \A c \in Calls : now[c] <= clock /\ now[c] \in Nat
    BY DEF TypeOK, Shapes
  <2>2. ASSUME NEW c \in Calls
        PROVE  now'[c] = now[c] \/ now'[c] = 0 \/ now'[c] = clock
    BY ZenonT(60), StepOfOne
    DEF Tick, Call, ReadClock, Suppress, LetThrough, Logged, Return, locals, Shapes
  <2> QED
    BY <1>2, <1>4, <2>1, <2>2
<1>7. interval' = interval /\ interval \in Nat
  BY StepOfOne, TimesAssumption
  DEF Tick, Call, ReadClock, Suppress, LetThrough, Logged, Shapes
<1>8. ASSUME NEW k \in Keys
      PROVE  \/ nextAllowed'[k] = nextAllowed[k]
             \/ interval # 0 /\ \E c \in Calls : nextAllowed'[k] = now[c] + interval
  BY ZenonT(60), StepOfOne
  DEF Tick, Call, ReadClock, Suppress, LetThrough, Logged, warner, Shapes, Bucket,
      WindowFrom
<1>9. ASSUME NEW k \in Keys
      PROVE  nextAllowed'[k] \in
                {-1} \cup (IF interval' = 0 THEN {} ELSE 0..(MaxTime + interval'))
  <2>1. CASE nextAllowed'[k] = nextAllowed[k]
    BY <1>7, <2>1 DEF TypeOK
  <2>2. CASE interval # 0 /\ \E c \in Calls : nextAllowed'[k] = now[c] + interval
    <3>1. PICK c \in Calls : nextAllowed'[k] = now[c] + interval
      BY <2>2
    <3>2. now[c] \in Nat /\ now[c] <= clock /\ clock <= MaxTime
      BY DEF TypeOK, Shapes
    <3> QED
      BY <1>2, <1>7, <2>2, <3>1, <3>2
  <2> QED
    BY <1>8, <2>1, <2>2
<1>10. TypeOK'
  BY <1>2, <1>3, <1>4, <1>5, <1>6, <1>9 DEF TypeOK
<1>11. Unlimited'
  <2> SUFFICES ASSUME interval = 0, NEW k \in Keys
               PROVE  suppressed'[k] = 0
    BY <1>7 DEF Unlimited
  <2>1. \A c \in Calls : ~Suppress(c)
    BY DEF Suppress, InWindow, Bucket, Windows, Shapes
  <2>2. suppressed'[k] = suppressed[k] \/ suppressed'[k] = 0
    BY <2>1, StepOfOne
    DEF Tick, Call, ReadClock, LetThrough, Logged, warner, Shapes, CountLeft
  <2> QED
    BY <2>2 DEF Unlimited
<1> QED
  BY <1>10, <1>11

-----------------------------------------------------------------------------
(* The theorems *)

\* The inductive invariant of the warner.
THEOREM Inductive == Spec => []IInv
<1>1. Init => IInv
  <2> SUFFICES ASSUME Init PROVE IInv
    OBVIOUS
  <2>1. TypeOK
    BY TimesAssumption, FS_EmptySet DEF Init, TypeOK, Zero
  <2>2. Shapes /\ Windows /\ Unlimited /\ LinesSpaced
    BY DEF Init, Shapes, Windows, Unlimited, LinesSpaced, Zero
  <2> QED
    BY <2>1, <2>2 DEF IInv
<1>2. IInv /\ [Next]_vars => IInv'
  <2> SUFFICES ASSUME IInv, [Next]_vars PROVE IInv'
    OBVIOUS
  <2>1. CASE Next
    BY <2>1, ShapesStep, WindowsStep, BoundsStep DEF IInv
  <2>2. CASE UNCHANGED vars
    BY <2>2
    DEF IInv, vars, warner, locals, history, TypeOK, Shapes, Windows, Unlimited, LinesSpaced
  <2> QED
    BY <2>1, <2>2
<1> QED
  BY <1>1, <1>2, PTL DEF Spec

\* However calls overtake each other between the clock and the lock, two lines of a
\* reason are an interval apart, nothing is held back without a line of its own reason
\* less than an interval before it, and with an interval of 0 nothing is held back.
THEOREM LimitsTheRate == Spec => []RateLimited
<1>1. IInv => RateLimited
  <2> SUFFICES ASSUME IInv PROVE HeldBackOnlyAfterALine
    BY DEF IInv, RateLimited
  <2> SUFFICES ASSUME NEW c \in Calls, pc[c] = "timed", InWindow(Bucket(key[c]), now[c])
               PROVE  \E i \in DOMAIN passed[key[c]] : now[c] - passed[key[c]][i] < interval
    BY DEF HeldBackOnlyAfterALine
  <2>1. key[c] \in Keys /\ now[c] \in Nat /\ interval \in Nat
    BY TimesAssumption DEF IInv, Shapes
  <2>2. nextAllowed[key[c]] # -1 /\ now[c] < nextAllowed[key[c]]
    BY DEF InWindow, Bucket
  <2>3. PICK i \in DOMAIN passed[key[c]] :
            nextAllowed[key[c]] = passed[key[c]][i] + interval
    BY <2>1, <2>2 DEF IInv, Windows
  <2>4. passed[key[c]][i] \in Nat
    BY <2>1 DEF IInv, Shapes
  <2> QED
    BY <2>1, <2>2, <2>3, <2>4
<1> QED
  BY <1>1, Inductive, PTL

-----------------------------------------------------------------------------
(* Every occurrence is accounted for *)

Accounts ==
    \A k \in Keys :
        occurred[k] = told[k] + suppressed[k] + Cardinality(OnTheWay(k))
                        + (muted[k] + mislaid[k])

\* A call that is not logging has taken nothing over.
AccountInv ==
    /\ occurred \in [Keys -> Nat] /\ told \in [Keys -> Nat]
    /\ muted \in [Keys -> Nat] /\ mislaid \in [Keys -> Nat]
    /\ \A c \in Calls : pc[c] # "logging" => count[c] = 0
    /\ Accounts

LEMMA CallsAreFinite == IsFiniteSet(Calls)
<1>1. IsFiniteSet({1, 2})
  <2>1. IsFiniteSet({1}) /\ {1, 2} = {1} \cup {2}
    BY FS_Singleton
  <2> QED
    BY <2>1, FS_AddElement
<1> QED
  BY <1>1, FS_Product, ThreadsAssumption DEF Calls

\* A call has in hand as many occurrences as it took over, and its own.
LEMMA NumberedOccurrences ==
    ASSUME NEW c, NEW n \in Nat
    PROVE  IsFiniteSet({c} \X (0..n)) /\ Cardinality({c} \X (0..n)) = n + 1
<1>1. IsFiniteSet({c}) /\ Cardinality({c}) = 1
  BY FS_Singleton
<1>2. IsFiniteSet(0..n) /\ Cardinality(0..n) = n + 1
  BY FS_Interval
<1>3. /\ IsFiniteSet({c} \X (0..n))
      /\ Cardinality({c} \X (0..n)) = Cardinality({c}) * Cardinality(0..n)
  BY <1>1, <1>2, FS_Product
<1> QED
  BY <1>1, <1>2, <1>3

\* What a call has in hand of the occurrences of a reason.
InHand(k, c) == IF c \in Pending(k) THEN count[c] + 1 ELSE 0

\* The occurrences on their way that are not in call c's hands.
WithTheOthers(k, c) == UNION {{x} \X (0..count[x]) : x \in Pending(k) \ {c}}

\* What is on its way is what any one call has and what the others have.
OneAndTheOthers ==
    \A k \in Keys, c \in Calls :
        /\ Cardinality(WithTheOthers(k, c)) \in Nat
        /\ Cardinality(OnTheWay(k)) = Cardinality(WithTheOthers(k, c)) + InHand(k, c)

LEMMA OnTheWaySplits == Shapes => OneAndTheOthers
<1> SUFFICES ASSUME Shapes, NEW k \in Keys, NEW c \in Calls
             PROVE  /\ Cardinality(WithTheOthers(k, c)) \in Nat
                    /\ Cardinality(OnTheWay(k))
                         = Cardinality(WithTheOthers(k, c)) + InHand(k, c)
  BY DEF OneAndTheOthers
<1> DEFINE others == Pending(k) \ {c}
           own == {c} \X (0..count[c])
<1>1. \A x \in Calls : /\ count[x] \in Nat /\ IsFiniteSet({x} \X (0..count[x]))
                       /\ Cardinality({x} \X (0..count[x])) = count[x] + 1
  BY NumberedOccurrences DEF Shapes
<1>2. IsFiniteSet(WithTheOthers(k, c))
  <2> DEFINE parts == {{x} \X (0..count[x]) : x \in others}
             part == [x \in others |-> {x} \X (0..count[x])]
  <2>1. others \subseteq Calls
    BY DEF Pending
  <2>2. IsFiniteSet(others)
    BY <2>1, CallsAreFinite, FS_Subset
  <2>3. part \in Surjection(others, parts)
    BY Fun_IsSurj
  <2>4. \A p \in parts : IsFiniteSet(p)
    BY <1>1, <2>1
  <2> HIDE DEF parts, part, others
  <2>5. IsFiniteSet(parts)
    BY <2>2, <2>3, FS_Surjection
  <2>6. IsFiniteSet(UNION parts)
    BY <2>4, <2>5, FS_UNION
  <2> QED
    BY <2>6 DEF WithTheOthers, parts, others
<1>3. Cardinality(WithTheOthers(k, c)) \in Nat
  BY <1>2, FS_CardinalityType
<1>4. CASE c \in Pending(k)
  <2>1. OnTheWay(k) = WithTheOthers(k, c) \cup own /\ WithTheOthers(k, c) \cap own = {}
    BY <1>4 DEF OnTheWay, WithTheOthers
  <2>2. IsFiniteSet(own) /\ Cardinality(own) = count[c] + 1 /\ count[c] \in Nat
    BY <1>1
  <2> HIDE DEF own
  <2>3. Cardinality(OnTheWay(k)) = Cardinality(WithTheOthers(k, c)) + Cardinality(own) - 0
    BY <1>2, <2>1, <2>2, FS_Union, FS_EmptySet
  <2> QED
    BY <1>3, <1>4, <2>2, <2>3 DEF InHand
<1>5. CASE c \notin Pending(k)
  <2>1. OnTheWay(k) = WithTheOthers(k, c)
    BY <1>5 DEF OnTheWay, WithTheOthers
  <2> QED
    BY <1>3, <1>5, <2>1 DEF InHand
<1> QED
  BY <1>3, <1>4, <1>5

\* One call moves, and its reason is k before or after: what was on its way is what the
\* others have, and what it has.
LEMMA OneMoves ==
    ASSUME Shapes, Shapes', NEW c \in Calls,
           \A x \in Calls \ {c} : UNCHANGED <<pc[x], key[x], count[x]>>,
           NEW k \in Keys
    PROVE  \E n \in Nat : /\ Cardinality(OnTheWay(k)) = n + InHand(k, c)
                          /\ Cardinality(OnTheWay(k)') = n + InHand(k, c)'
<1>1. WithTheOthers(k, c)' = WithTheOthers(k, c)
  BY DEF WithTheOthers, Pending
<1>2. /\ Cardinality(WithTheOthers(k, c)) \in Nat
      /\ Cardinality(OnTheWay(k)) = Cardinality(WithTheOthers(k, c)) + InHand(k, c)
  BY OnTheWaySplits DEF OneAndTheOthers
<1>3. OneAndTheOthers'
  BY OnTheWaySplits, PTL
<1>4. Cardinality(OnTheWay(k)') = Cardinality(WithTheOthers(k, c)') + InHand(k, c)'
  BY <1>3 DEF OneAndTheOthers
<1> QED
  BY <1>1, <1>2, <1>4

\* No call moves.
LEMMA NoneMoves ==
    ASSUME UNCHANGED count, NEW k \in Keys, UNCHANGED Pending(k)
    PROVE  OnTheWay(k)' = OnTheWay(k)
  BY DEF OnTheWay

\* A step of one call: the other calls, and the other reasons, are left alone.
LEMMA AccountsStep ==
    ASSUME Shapes, Shapes', AccountInv, Next
    PROVE  AccountInv'
<1>0. /\ suppressed \in [Keys -> Nat] /\ occurred \in [Keys -> Nat] /\ told \in [Keys -> Nat]
      /\ pc \in [Calls -> {"idle", "called", "timed", "logging"}]
      /\ count \in [Calls -> Nat] /\ key \in [Calls -> Keys \cup {None}]
      /\ \A c \in Calls : pc[c] # "idle" => key[c] \in Keys
      /\ \A c \in Calls : pc[c] # "logging" => count[c] = 0
      /\ suppressed' \in [Keys -> Nat] /\ count' \in [Calls -> Nat]
      /\ muted \in [Keys -> Nat] /\ mislaid \in [Keys -> Nat]
  BY DEF Shapes, AccountInv
\* What moves from one account to another adds up, for the reason it is about and for
\* every other.
<1>1. ASSUME NEW c \in Calls,
             \A x \in Calls \ {c} : UNCHANGED <<pc[x], key[x], count[x]>>,
             \A k \in Keys :
                /\ occurred'[k] \in Nat /\ told'[k] \in Nat /\ (muted[k] + mislaid[k])' \in Nat
                /\ occurred'[k] + told[k] + suppressed[k] + InHand(k, c)
                        + (muted[k] + mislaid[k]) =
                     occurred[k] + told'[k] + suppressed'[k] + InHand(k, c)'
                        + (muted[k] + mislaid[k])'
      PROVE  Accounts'
  <2> SUFFICES ASSUME NEW k \in Keys
               PROVE  occurred'[k] = told'[k] + suppressed'[k] + Cardinality(OnTheWay(k)')
                                        + (muted[k] + mislaid[k])'
    BY DEF Accounts
  <2>1. PICK n \in Nat : /\ Cardinality(OnTheWay(k)) = n + InHand(k, c)
                         /\ Cardinality(OnTheWay(k)') = n + InHand(k, c)'
    BY <1>1, OneMoves
  <2> DEFINE held == InHand(k, c)
             heldThen == InHand(k, c)'
             occurredThen == occurred'[k]
             toldThen == told'[k]
             suppressedThen == suppressed'[k]
             gone == muted[k] + mislaid[k]
             goneThen == (muted[k] + mislaid[k])'
  <2>2. /\ held \in Nat /\ heldThen \in Nat
        /\ occurred[k] \in Nat /\ told[k] \in Nat /\ suppressed[k] \in Nat
        /\ suppressedThen \in Nat /\ occurredThen \in Nat /\ toldThen \in Nat
        /\ gone \in Nat /\ goneThen \in Nat
    BY <1>0, <1>1 DEF InHand
  <2>3. /\ occurred[k] = told[k] + suppressed[k] + (n + held) + gone
        /\ occurredThen + told[k] + suppressed[k] + held + gone =
             occurred[k] + toldThen + suppressedThen + heldThen + goneThen
        /\ Cardinality(OnTheWay(k)') = n + heldThen
    BY <1>1, <2>1 DEF AccountInv, Accounts
  <2> HIDE DEF held, heldThen, occurredThen, toldThen, suppressedThen, gone, goneThen
  <2>4. occurredThen + occurred[k]
            = occurred[k] + toldThen + suppressedThen + heldThen + n + goneThen
    BY <2>2, <2>3
  <2>5. occurredThen = toldThen + suppressedThen + (n + heldThen) + goneThen
    BY <2>2, <2>4
  <2> QED
    BY <2>3, <2>5 DEF occurredThen, toldThen, suppressedThen, goneThen
<1>2. CASE Tick
  <2>1. UNCHANGED <<warner, locals, occurred, told, muted, mislaid>>
    BY <1>2 DEF Tick, history
  <2>2. /\ UNCHANGED <<pc, key, now, count>>
        /\ UNCHANGED <<occurred, told, suppressed, muted, mislaid>>
    BY <2>1 DEF warner, locals
  <2>3. \A k \in Keys : Pending(k)' = Pending(k)
    BY <2>2 DEF Pending
  <2>4. \A k \in Keys : OnTheWay(k)' = OnTheWay(k)
    BY <2>2, <2>3, NoneMoves
  <2> QED
    BY <2>2, <2>3, <2>4 DEF AccountInv, Accounts
<1>3. ASSUME NEW c \in Calls, NEW k \in Keys, Call(c, k)
      PROVE  AccountInv'
  <2>1. /\ pc[c] = "idle" /\ pc' = [pc EXCEPT ![c] = "called"] /\ key' = [key EXCEPT ![c] = k]
        /\ occurred' = [occurred EXCEPT ![k] = @ + 1]
        /\ UNCHANGED <<suppressed, count, told, muted, mislaid>>
    BY <1>3 DEF Call, warner
  <2>2. Accounts'
    <3>1. \A x \in Calls \ {c} : UNCHANGED <<pc[x], key[x], count[x]>>
      BY <1>0, <2>1
    <3>2. ASSUME NEW q \in Keys
          PROVE  /\ occurred'[q] \in Nat /\ told'[q] \in Nat /\ (muted[q] + mislaid[q])' \in Nat
                 /\ occurred'[q] + told[q] + suppressed[q] + InHand(q, c)
                        + (muted[q] + mislaid[q]) =
                      occurred[q] + told'[q] + suppressed'[q] + InHand(q, c)'
                        + (muted[q] + mislaid[q])'
      <4>1. InHand(q, c) = 0
        BY <2>1 DEF Pending, InHand
      <4>2. InHand(q, c)' = IF q = k THEN 1 ELSE 0
        BY <1>0, <2>1 DEF Pending, InHand
      <4>3. occurred'[q] = occurred[q] + (IF q = k THEN 1 ELSE 0)
        BY <1>0, <2>1
      <4> QED
        BY <1>0, <2>1, <4>1, <4>2, <4>3
    <3> QED
      BY <1>1, <3>1, <3>2
  <2>3. occurred' \in [Keys -> Nat] /\ told' \in [Keys -> Nat]
        /\ \A x \in Calls : pc'[x] # "logging" => count'[x] = 0
    BY <1>0, <2>1
  <2> QED
    BY <1>0, <2>1, <2>2, <2>3 DEF AccountInv
<1>4. ASSUME NEW c \in Calls, ReadClock(c)
      PROVE  AccountInv'
  <2>1. /\ pc[c] = "called" /\ pc' = [pc EXCEPT ![c] = "timed"]
        /\ UNCHANGED <<suppressed, key, count, occurred, told, muted, mislaid>>
    BY <1>4 DEF ReadClock, warner, history
  <2>2. Accounts'
    <3>1. \A k \in Keys : Pending(k)' = Pending(k)
      BY <1>0, <2>1 DEF Pending
    <3>2. \A k \in Keys : OnTheWay(k)' = OnTheWay(k)
      BY <2>1, <3>1, NoneMoves
    <3> QED
      BY <2>1, <3>1, <3>2 DEF AccountInv, Accounts
  <2>3. \A x \in Calls : pc'[x] # "logging" => count'[x] = 0
    BY <1>0, <2>1
  <2> QED
    BY <1>0, <2>1, <2>2, <2>3 DEF AccountInv
<1>5. ASSUME NEW c \in Calls, Suppress(c)
      PROVE  AccountInv'
  <2>1. /\ pc[c] = "timed" /\ pc' = [pc EXCEPT ![c] = "idle"]
        /\ key' = [key EXCEPT ![c] = None] /\ count' = [count EXCEPT ![c] = 0]
        /\ suppressed' = [suppressed EXCEPT ![key[c]] = @ + 1]
        /\ UNCHANGED <<occurred, told, muted, mislaid>> /\ key[c] \in Keys
    BY <1>0, <1>5 DEF Suppress, Return, Bucket, history
  <2>2. Accounts'
    <3>1. \A x \in Calls \ {c} : UNCHANGED <<pc[x], key[x], count[x]>>
      BY <1>0, <2>1
    <3>2. ASSUME NEW q \in Keys
          PROVE  /\ occurred'[q] \in Nat /\ told'[q] \in Nat /\ (muted[q] + mislaid[q])' \in Nat
                 /\ occurred'[q] + told[q] + suppressed[q] + InHand(q, c)
                        + (muted[q] + mislaid[q]) =
                      occurred[q] + told'[q] + suppressed'[q] + InHand(q, c)'
                        + (muted[q] + mislaid[q])'
      <4>1. InHand(q, c) = IF q = key[c] THEN 1 ELSE 0
        BY <1>0, <2>1 DEF Pending, InHand
      <4>2. InHand(q, c)' = 0
        BY <1>0, <2>1 DEF Pending, InHand
      <4>3. suppressed'[q] = suppressed[q] + (IF q = key[c] THEN 1 ELSE 0)
        BY <1>0, <2>1
      <4> QED
        BY <1>0, <2>1, <4>1, <4>2, <4>3
    <3> QED
      BY <1>1, <3>1, <3>2
  <2>3. \A x \in Calls : pc'[x] # "logging" => count'[x] = 0
    BY <1>0, <2>1
  <2> QED
    BY <1>0, <2>1, <2>2, <2>3 DEF AccountInv
<1>6. ASSUME NEW c \in Calls, LetThrough(c)
      PROVE  AccountInv'
  <2>1. /\ pc[c] = "timed" /\ pc' = [pc EXCEPT ![c] = "logging"]
        /\ count' = [count EXCEPT ![c] = suppressed[key[c]]]
        /\ suppressed' = [suppressed EXCEPT ![key[c]] = 0]
        /\ UNCHANGED <<key, occurred, told, muted, mislaid>> /\ key[c] \in Keys
    BY <1>0, <1>6 DEF LetThrough, Bucket, CountLeft
  <2>2. Accounts'
    <3>1. \A x \in Calls \ {c} : UNCHANGED <<pc[x], key[x], count[x]>>
      BY <1>0, <2>1
    <3>2. ASSUME NEW q \in Keys
          PROVE  /\ occurred'[q] \in Nat /\ told'[q] \in Nat /\ (muted[q] + mislaid[q])' \in Nat
                 /\ occurred'[q] + told[q] + suppressed[q] + InHand(q, c)
                        + (muted[q] + mislaid[q]) =
                      occurred[q] + told'[q] + suppressed'[q] + InHand(q, c)'
                        + (muted[q] + mislaid[q])'
      <4>1. InHand(q, c) = IF q = key[c] THEN 1 ELSE 0
        BY <1>0, <2>1 DEF Pending, InHand
      <4>2. InHand(q, c)' = IF q = key[c] THEN suppressed[q] + 1 ELSE 0
        BY <1>0, <2>1 DEF Pending, InHand
      <4>3. suppressed'[q] = IF q = key[c] THEN 0 ELSE suppressed[q]
        BY <1>0, <2>1
      <4> QED
        BY <1>0, <2>1, <4>1, <4>2, <4>3
    <3> QED
      BY <1>1, <3>1, <3>2
  <2>3. \A x \in Calls : pc'[x] # "logging" => count'[x] = 0
    BY <1>0, <2>1
  <2> QED
    BY <1>0, <2>1, <2>2, <2>3 DEF AccountInv
<1>7. ASSUME NEW c \in Calls, Logged(c)
      PROVE  AccountInv'
  <2>1. /\ pc[c] = "logging" /\ pc' = [pc EXCEPT ![c] = "idle"]
        /\ key' = [key EXCEPT ![c] = None] /\ count' = [count EXCEPT ![c] = 0]
        /\ UNCHANGED <<occurred, suppressed>> /\ key[c] \in Keys
    BY <1>0, <1>7 DEF Logged, Return
  \* The line takes them to one account, or the logger to two others.
  <2>5. /\ told' \in [Keys -> Nat] /\ muted' \in [Keys -> Nat] /\ mislaid' \in [Keys -> Nat]
        /\ \A q \in Keys :
            told'[q] + (muted'[q] + mislaid'[q]) =
                told[q] + (muted[q] + mislaid[q])
                    + (IF q = key[c] THEN 1 + count[c] ELSE 0)
    <3>1. CASE LineWritten(c)
      BY <1>0, <2>1, <3>1 DEF LineWritten
    <3>2. CASE LoggerRaises(c)
      BY <1>0, <2>1, <3>2 DEF LoggerRaises
    <3> QED
      BY <1>7, <3>1, <3>2 DEF Logged
  <2>2. Accounts'
    <3>1. \A x \in Calls \ {c} : UNCHANGED <<pc[x], key[x], count[x]>>
      BY <1>0, <2>1
    <3>2. ASSUME NEW q \in Keys
          PROVE  /\ occurred'[q] \in Nat /\ told'[q] \in Nat /\ (muted[q] + mislaid[q])' \in Nat
                 /\ occurred'[q] + told[q] + suppressed[q] + InHand(q, c)
                        + (muted[q] + mislaid[q]) =
                      occurred[q] + told'[q] + suppressed'[q] + InHand(q, c)'
                        + (muted[q] + mislaid[q])'
      <4>1. InHand(q, c) = IF q = key[c] THEN count[c] + 1 ELSE 0
        BY <1>0, <2>1 DEF Pending, InHand
      <4>2. InHand(q, c)' = 0
        BY <1>0, <2>1 DEF Pending, InHand
      <4>3. /\ count[c] \in Nat /\ told'[q] \in Nat /\ told[q] \in Nat
            /\ muted'[q] \in Nat /\ mislaid'[q] \in Nat
            /\ muted[q] \in Nat /\ mislaid[q] \in Nat
            /\ occurred[q] \in Nat /\ suppressed[q] \in Nat
        BY <1>0, <2>5
      <4>4. told'[q] + (muted'[q] + mislaid'[q]) =
                told[q] + (muted[q] + mislaid[q])
                    + (IF q = key[c] THEN 1 + count[c] ELSE 0)
        BY <2>5
      <4> QED
        BY <2>1, <4>1, <4>2, <4>3, <4>4
    <3> QED
      BY <1>1, <3>1, <3>2
  <2>3. \A x \in Calls : pc'[x] # "logging" => count'[x] = 0
    BY <1>0, <2>1
  <2> QED
    BY <1>0, <2>1, <2>2, <2>3, <2>5 DEF AccountInv
<1> QED
  BY <1>2, <1>3, <1>4, <1>5, <1>6, <1>7, StepOfOne

\* No count goes to another cause, is reported twice or disappears on its way: every
\* occurrence of a reason is in a line of that reason, held back under it, in the hands
\* of a call, or went with a line whose logger raised.
THEOREM OccurrencesAccounted == Spec => []Conserved
<1>1. Init => AccountInv
  <2> SUFFICES ASSUME Init PROVE AccountInv
    OBVIOUS
  <2>1. \A k \in Keys : Pending(k) = {}
    BY DEF Init, Pending
  <2>2. \A k \in Keys : OnTheWay(k) = {}
    BY <2>1 DEF OnTheWay
  <2>3. \A k \in Keys : /\ occurred[k] = 0 /\ told[k] = 0 /\ suppressed[k] = 0
                         /\ muted[k] = 0 /\ mislaid[k] = 0
    BY DEF Init, Zero
  <2>4. Accounts
    BY <2>2, <2>3, FS_EmptySet DEF Accounts
  <2> QED
    BY <2>4 DEF Init, AccountInv, Zero
<1>2. IInv /\ IInv' /\ AccountInv /\ [Next]_vars => AccountInv'
  <2>1. ASSUME IInv, IInv', AccountInv, Next PROVE AccountInv'
    BY <2>1, AccountsStep DEF IInv
  <2>2. ASSUME AccountInv, UNCHANGED vars PROVE AccountInv'
    <3>1. UNCHANGED <<pc, key, count, occurred, told, suppressed, muted, mislaid>>
      BY <2>2 DEF vars, warner, locals, history
    <3>2. \A k \in Keys : Pending(k)' = Pending(k)
      BY <3>1 DEF Pending
    <3>3. \A k \in Keys : OnTheWay(k)' = OnTheWay(k)
      BY <3>1, <3>2, NoneMoves
    <3> QED
      BY <2>2, <3>1, <3>2, <3>3 DEF AccountInv, Accounts
  <2> QED
    BY <2>1, <2>2
<1>3. AccountInv => Conserved
  BY DEF AccountInv, Accounts, Conserved
<1> QED
  BY <1>1, <1>2, <1>3, Inductive, PTL DEF Spec
=============================================================================
