----------------------- MODULE MigrationRunnerProofs -----------------------
(***************************************************************************)
(* Proofs about the migration runner, for any number of calls with any     *)
(* arguments, any number of versions, and any of them destructive or       *)
(* granting.                                                               *)
(*                                                                         *)
(* What is still outstanding for a call was computed before its loop and   *)
(* may be stale.  The inductive invariant says how stale it can be: it is  *)
(* an interval of versions with everything in front of it recorded, Loops, *)
(* and the row that a call is about to commit is nobody else's,            *)
(* Committing.                                                             *)
(***************************************************************************)
EXTENDS MigrationRunner, TLAPS

Early == {"start", "lock", "look", "create", "created", "read"}
Looping == {"next", "commit"}
Locked == {"look", "create", "created", "read", "next", "commit", "unlock"}

\* No apply() goes on over an autocommit connection.
Modes ==
    \A s \in Sessions : pc[s] \in Locked \cup {"lock"} => ~RefusesMode(s)

\* What a call knows in its loop.
Loops ==
    \A s \in Sessions : pc[s] \in Looping =>
        /\ ~call[s].autocommit
        /\ \E m, n \in Versions :
            m <= n /\ todo[s] = m..n /\ 1..(m - 1) \subseteq Recorded
        /\ todo[s] \cap Destructive # {} => call[s].allow

\* The one transaction that holds the next row.
Committing ==
    \A s \in Sessions : pc[s] = "commit" =>
        /\ NextVersion(s) \notin Recorded
        /\ \A t \in Sessions : pc[t] = "commit" => t = s

\* What calls have done, and how they ended.
Deeds ==
    \A s \in Sessions :
        /\ did[s] \subseteq Recorded
        /\ pc[s] \in Early => did[s] = {}
        /\ pc[s] \in Early \cup Looping => outcome[s] = "none"

\* When every call takes the lock, one at a time is inside, and it sees what it needs.
Exclusive ==
    (\A s \in Sessions : call[s].locking) =>
        \A s \in Sessions :
            /\ pc[s] \in Locked => holder = s
            /\ pc[s] = "create" => ~table
            /\ pc[s] \in Looping => todo[s] \cap Recorded = {}
            /\ outcome[s] # "collided"

IInv ==
    /\ HistoryTrue /\ AppliedInSequence /\ ReviewedWhole
    /\ Modes /\ Loops /\ Committing /\ Deeds /\ Exclusive

-----------------------------------------------------------------------------
(* The versions *)

\* The least of an interval is its lower end.
LEMMA MinOfInterval ==
    ASSUME NEW m \in Versions, NEW n \in Versions, m <= n
    PROVE  Min(m..n) = m
<1> DEFINE Least(x) == x \in m..n /\ \A y \in m..n : x <= y
<1>1. m \in Int /\ n \in Int
  BY VersionsAssumption DEF Versions
<1>2. Least(m)
  BY <1>1
<1>3. \A x : Least(x) => x = m
  BY <1>1
<1> QED
  BY <1>2, <1>3 DEF Min

\* What a call is about to apply is the front of what it has to do.
LEMMA NextFacts ==
    ASSUME TypeOK, Loops, NEW s \in Sessions, pc[s] \in Looping
    PROVE  /\ NextVersion(s) \in Versions /\ NextVersion(s) \in todo[s]
           /\ 1..(NextVersion(s) - 1) \subseteq Recorded
           /\ \E n \in Versions : NextVersion(s) <= n /\ todo[s] = NextVersion(s)..n
<1>1. PICK m \in Versions, n \in Versions :
            m <= n /\ todo[s] = m..n /\ 1..(m - 1) \subseteq Recorded
  BY DEF Loops
<1>2. NextVersion(s) = m
  BY <1>1, MinOfInterval DEF NextVersion
<1> QED
  BY <1>1, <1>2, VersionsAssumption DEF Versions

\* What is outstanding when a call reads is everything after a prefix.
LEMMA OutstandingFacts ==
    ASSUME TypeOK, AppliedInOrder, NEW s \in Sessions, ~Drifted(s), Outstanding(s) # {}
    PROVE  /\ Outstanding(s) \subseteq Versions
           /\ Outstanding(s) \cap Recorded = {}
           /\ \E m, n \in Versions :
                m <= n /\ Outstanding(s) = m..n /\ 1..(m - 1) \subseteq Recorded
<1>1. PICK k \in 0..MaxVersion : Recorded = 1..k
  BY DEF AppliedInOrder
<1>2. call[s].ships \in Versions
  BY VersionsAssumption DEF TypeOK, CallType
<1>3. k <= call[s].ships
  BY <1>1, <1>2, VersionsAssumption DEF Drifted, Versions
<1>4. Outstanding(s) = (k + 1)..call[s].ships
  BY <1>1, <1>2, VersionsAssumption DEF Outstanding, Versions
<1>5. k + 1 \in Versions /\ k + 1 <= call[s].ships
  BY <1>2, <1>4, VersionsAssumption DEF Versions
<1>6. 1..((k + 1) - 1) \subseteq Recorded
  BY <1>1
<1>7. Outstanding(s) \subseteq Versions /\ Outstanding(s) \cap Recorded = {}
  BY <1>2, VersionsAssumption DEF Versions, Outstanding
<1> QED
  BY <1>2, <1>4, <1>5, <1>6, <1>7

\* A commit records the version that comes next, and no other.
LEMMA CommitFacts ==
    ASSUME TypeOK, AppliedInOrder, Loops, Committing,
           NEW s \in Sessions, pc[s] = "commit", Committed(s)
    PROVE  /\ Recorded' = Recorded \cup {NextVersion(s)}
           /\ AppliedInOrder'
<1>1. NextVersion(s) \in Versions /\ 1..(NextVersion(s) - 1) \subseteq Recorded
  BY NextFacts DEF Looping
<1>2. Recorded' = Recorded \cup {NextVersion(s)}
  BY <1>1 DEF Committed, Recorded, TypeOK
<1>3. PICK k \in 0..MaxVersion : Recorded = 1..k
  BY DEF AppliedInOrder
<1>4. NextVersion(s) \notin Recorded
  BY DEF Committing
<1>5. NextVersion(s) = k + 1 /\ k + 1 \in 0..MaxVersion
  <2> DEFINE v == NextVersion(s)
  <2>1. v \in 1..MaxVersion /\ v \notin 1..k /\ 1..(v - 1) \subseteq 1..k
    BY <1>1, <1>3, <1>4 DEF Versions
  <2>2. v > k
    BY <2>1, VersionsAssumption
  <2>3. v = 1 \/ v - 1 \in 1..k
    <3> HIDE DEF v
    <3> QED
      BY <2>1, VersionsAssumption
  <2> QED
    BY <2>1, <2>2, <2>3, VersionsAssumption
<1>6. Recorded' = 1..(k + 1)
  BY <1>2, <1>3, <1>5
<1> QED
  BY <1>2, <1>5, <1>6 DEF AppliedInOrder

-----------------------------------------------------------------------------
(* Each part of the invariant is preserved *)

\* Every action keeps the types.
LEMMA TypeStep ==
    ASSUME TypeOK, Loops, NEW s \in Sessions,
           Lock(s) \/ Read(s) \/ Loop(s) \/ Fault(s) \/ CloseConnection(s)
    PROVE  TypeOK'
<1> USE DEF TypeOK, Goto, Leave, database, locals
<1>1. CASE Begin(s)
  BY <1>1 DEF Begin
<1>2. CASE AcquireLock(s)
  BY <1>2 DEF AcquireLock
<1>3. CASE ReleaseLock(s)
  BY <1>3 DEF ReleaseLock
<1>4. CASE CloseConnection(s)
  BY <1>4 DEF CloseConnection
<1>5. CASE LookForTable(s)
  BY <1>5 DEF LookForTable
<1>6. CASE CreateTable(s)
  <2>1. call[s].autocommit \in BOOLEAN
    BY VersionsAssumption DEF CallType
  <2> QED
    BY <1>6, <2>1 DEF CreateTable
<1>7. CASE CreateTableCollides(s)
  BY <1>7 DEF CreateTableCollides
<1>8. CASE StatementFails(s)
  BY <1>8 DEF StatementFails
<1>9. CASE ReadApplied(s)
  <2>1. Outstanding(s) \subseteq Versions
    BY VersionsAssumption DEF Outstanding, Versions, CallType
  <2> QED
    BY <1>9, <2>1 DEF ReadApplied
<1>10. CASE Migrate(s)
  <2>1. objects' \subseteq Versions
    BY <1>10, NextFacts DEF Migrate, Looping
  <2> QED
    BY <1>10, <2>1 DEF Migrate
<1>11. CASE MigrationFails(s)
  BY <1>11 DEF MigrationFails
<1>12. ASSUME pc[s] = "commit", Committed(s)
       PROVE  /\ checksum' \in [Versions -> {"absent", "null", "ours", "edited"}]
              /\ objects' \subseteq Versions /\ granted' \subseteq Granting
              /\ todo' \in [Sessions -> SUBSET Versions]
              /\ did' \in [Sessions -> SUBSET Versions]
  <2>1. NextVersion(s) \in Versions
    BY <1>12, NextFacts DEF Looping
  <2> QED
    BY <1>12, <2>1 DEF Committed
<1>13. CASE CommitMigration(s)
  BY <1>12, <1>13 DEF CommitMigration
<1>14. CASE Crash(s)
  BY <1>12, <1>14 DEF Crash
<1> QED
  BY <1>1, <1>2, <1>3, <1>4, <1>5, <1>6, <1>7, <1>8, <1>9, <1>10, <1>11, <1>13, <1>14
  DEF Lock, Read, Loop, Fault

\* A step commits the next row of one call, or leaves the history alone.
LEMMA StepKinds ==
    ASSUME TypeOK, Loops, NEW s \in Sessions,
           Lock(s) \/ Read(s) \/ Loop(s) \/ Fault(s) \/ CloseConnection(s)
    PROVE  /\ UNCHANGED call
           /\ \A t \in Sessions : t # s =>
                /\ pc'[t] = pc[t] /\ outcome'[t] = outcome[t]
                /\ todo'[t] = todo[t] /\ did'[t] = did[t]
           /\ \/ pc[s] = "commit" /\ Committed(s) /\ pc'[s] \in {"next", "unlock", "closed"}
              \/ UNCHANGED <<checksum, objects, granted, did>>
<1> USE DEF TypeOK, Goto, Leave, database, locals
<1>1. CASE Lock(s) \/ CloseConnection(s)
  BY <1>1 DEF Lock, Begin, AcquireLock, ReleaseLock, CloseConnection
<1>2. CASE Read(s) \/ StatementFails(s) \/ MigrationFails(s)
  BY <1>2 DEF Read, LookForTable, CreateTable, CreateTableCollides, ReadApplied,
              StatementFails, MigrationFails
<1>3. CASE Migrate(s)
  BY <1>3 DEF Migrate, Loops, Looping
<1>4. CASE CommitMigration(s)
  BY <1>4 DEF CommitMigration, Committed
<1>5. CASE Crash(s)
  BY <1>5 DEF Crash, Committed
<1> QED
  BY <1>1, <1>2, <1>3, <1>4, <1>5 DEF Loop, Fault

\* What a commit changes.
LEMMA CommittedFacts ==
    ASSUME TypeOK, NEW s \in Sessions, Committed(s)
    PROVE  /\ objects' = objects \cup {NextVersion(s)}
           /\ did'[s] = did[s] \cup {NextVersion(s)}
           /\ todo'[s] = todo[s] \ {NextVersion(s)}
           /\ \A t \in Sessions : t # s => did'[t] = did[t] /\ todo'[t] = todo[t]
           /\ granted \subseteq granted'
           /\ NextVersion(s) \in Granting /\ call[s].role /\ ~call[s].autocommit =>
                NextVersion(s) \in granted'
  BY DEF TypeOK, Committed, RoleInScope

\* The state table goes on telling the truth.
LEMMA HistoryStep ==
    ASSUME HistoryTrue, AppliedInSequence, Loops, Committing, Deeds, NEW s \in Sessions,
           Lock(s) \/ Read(s) \/ Loop(s) \/ Fault(s) \/ CloseConnection(s)
    PROVE  HistoryTrue' /\ AppliedInSequence'
<1>1. TypeOK /\ RecordTruth /\ GrantNotLost /\ AppliedInOrder /\ AppliedOnce
  BY DEF HistoryTrue, AppliedInSequence
<1>2. TypeOK'
  BY <1>1, TypeStep
<1>3. UNCHANGED call
  BY <1>1, StepKinds
<1>4. CASE pc[s] = "commit" /\ Committed(s)
  <2>1. Recorded' = Recorded \cup {NextVersion(s)} /\ AppliedInOrder'
    BY <1>1, <1>4, CommitFacts
  <2>2. RecordTruth'
    BY <1>1, <1>4, <2>1, CommittedFacts DEF RecordTruth
  <2>6. ~call[s].autocommit
    BY <1>4 DEF Loops, Looping
  <2>3. GrantNotLost'
    BY <1>1, <1>3, <1>4, <2>6, CommittedFacts DEF GrantNotLost
  <2>4. NextVersion(s) \notin Recorded
    BY <1>4 DEF Committing
  <2>5. AppliedOnce'
    BY <1>1, <1>4, <2>4, CommittedFacts DEF AppliedOnce, Deeds
  <2> QED
    BY <1>2, <2>1, <2>2, <2>3, <2>5 DEF HistoryTrue, AppliedInSequence
<1>5. CASE UNCHANGED <<checksum, objects, granted, did>>
  <2>1. Recorded' = Recorded
    BY <1>5 DEF Recorded
  <2> QED
    BY <1>1, <1>2, <1>3, <1>5, <2>1
    DEF HistoryTrue, AppliedInSequence, RecordTruth, GrantNotLost, AppliedInOrder, AppliedOnce
<1> QED
  BY <1>1, <1>4, <1>5, StepKinds

\* Recorded versions stay recorded.
LEMMA RecordedGrows ==
    ASSUME TypeOK, AppliedInOrder, Loops, Committing, NEW s \in Sessions,
           Lock(s) \/ Read(s) \/ Loop(s) \/ Fault(s) \/ CloseConnection(s)
    PROVE  Recorded \subseteq Recorded'
<1>1. CASE pc[s] = "commit" /\ Committed(s)
  BY <1>1, CommitFacts
<1>2. CASE UNCHANGED checksum
  BY <1>2 DEF Recorded
<1> QED
  BY <1>1, <1>2, StepKinds

\* apply() has looked at the connection before it does anything.
LEMMA ModesStep ==
    ASSUME TypeOK, Modes, NEW s \in Sessions,
           Lock(s) \/ Read(s) \/ Loop(s) \/ Fault(s) \/ CloseConnection(s)
    PROVE  Modes'
<1> USE DEF TypeOK, Modes, RefusesMode, Locked, Goto, Leave
<1>1. CASE Lock(s) \/ CloseConnection(s)
  BY <1>1 DEF Lock, Begin, AcquireLock, ReleaseLock, CloseConnection
<1>2. CASE Read(s) \/ Loop(s)
  BY <1>2 DEF Read, LookForTable, CreateTable, CreateTableCollides, ReadApplied,
              Loop, Migrate, CommitMigration
<1>3. CASE Fault(s)
  BY <1>3 DEF Fault, StatementFails, MigrationFails, Crash
<1> QED
  BY <1>1, <1>2, <1>3

\* What a call has still to do stays an interval behind what is recorded.
LEMMA LoopsStep ==
    ASSUME TypeOK, AppliedInOrder, Modes, Loops, Committing, NEW s \in Sessions,
           Lock(s) \/ Read(s) \/ Loop(s) \/ Fault(s) \/ CloseConnection(s)
    PROVE  Loops'
<1>1. Recorded \subseteq Recorded'
  BY RecordedGrows
<1>2. UNCHANGED call
  BY StepKinds
<1> SUFFICES ASSUME NEW t \in Sessions, pc'[t] \in Looping
             PROVE  /\ ~call[t].autocommit
                    /\ \E m, n \in Versions :
                        m <= n /\ todo'[t] = m..n /\ 1..(m - 1) \subseteq Recorded'
                    /\ todo'[t] \cap Destructive # {} => call[t].allow
  BY <1>2 DEF Loops
<1>3. CASE pc[t] \in Looping /\ todo'[t] = todo[t]
  BY <1>1, <1>3 DEF Loops
<1>4. CASE t = s /\ CommitMigration(s)
  <2>1. pc[s] = "commit" /\ Committed(s) /\ todo[s] # {NextVersion(s)}
    BY <1>4 DEF CommitMigration, Leave, Goto, Looping, TypeOK
  <2>2. PICK n \in Versions : NextVersion(s) <= n /\ todo[s] = NextVersion(s)..n
    BY <2>1, NextFacts DEF Looping
  <2>3. /\ NextVersion(s) \in Versions /\ 1..(NextVersion(s) - 1) \subseteq Recorded
        /\ Recorded' = Recorded \cup {NextVersion(s)}
    BY <2>1, NextFacts, CommitFacts DEF Looping
  <2>4. NextVersion(s) + 1 <= n /\ NextVersion(s) + 1 \in Versions
    BY <2>1, <2>2, <2>3, VersionsAssumption DEF Versions
  <2>5. todo'[s] = (NextVersion(s) + 1)..n
    <3>1. todo'[s] = (NextVersion(s)..n) \ {NextVersion(s)}
      BY <2>1, <2>2, CommittedFacts
    <3>2. NextVersion(s) \in Int /\ n \in Int
      BY <2>3, VersionsAssumption DEF Versions
    <3> QED
      BY <3>1, <3>2
  <2>6. 1..((NextVersion(s) + 1) - 1) \subseteq Recorded'
    BY <2>3, VersionsAssumption DEF Versions
  <2>7. todo'[s] \subseteq todo[s]
    BY <2>1, CommittedFacts
  <2>8. ~call[s].autocommit /\ (todo'[s] \cap Destructive # {} => call[s].allow)
    BY <2>1, <2>7 DEF Loops, Looping
  <2> QED
    BY <1>4, <2>2, <2>4, <2>5, <2>6, <2>8
<1>5. CASE t = s /\ ReadApplied(s)
  <2>1. /\ ~Drifted(s) /\ Outstanding(s) # {} /\ ~Offends(s)
        /\ todo'[s] = Outstanding(s) /\ call[s].kind # "status"
    BY <1>5 DEF ReadApplied, Leave, Goto, Looping, TypeOK
  <2>2. ~call[s].autocommit
    <3>1. call[s].kind = "apply" /\ pc[s] \in Locked
      BY <1>5, <2>1, VersionsAssumption DEF ReadApplied, Locked, TypeOK, CallType
    <3> QED
      BY <3>1 DEF Modes, RefusesMode
  <2>3. \E m, n \in Versions :
            m <= n /\ todo'[s] = m..n /\ 1..(m - 1) \subseteq Recorded
    BY <2>1, OutstandingFacts
  <2> QED
    BY <1>1, <1>5, <2>1, <2>2, <2>3 DEF Offends
<1>6. CASE Migrate(s) \/ Crash(s) \/ t # s
  BY <1>3, <1>6, StepKinds DEF Migrate, Crash, Goto, Looping, TypeOK
<1>7. CASE t = s /\ (\/ Lock(s) \/ CloseConnection(s) \/ LookForTable(s)
                     \/ CreateTable(s) \/ CreateTableCollides(s)
                     \/ StatementFails(s) \/ MigrationFails(s))
  BY <1>7
  DEF Lock, Begin, AcquireLock, ReleaseLock, CloseConnection, LookForTable, CreateTable,
      CreateTableCollides, StatementFails, MigrationFails, Goto, Leave, Looping, TypeOK
<1> QED
  BY <1>4, <1>5, <1>6, <1>7 DEF Read, Loop, Fault

\* No two transactions hold the same next row.
LEMMA CommittingStep ==
    ASSUME TypeOK, AppliedInOrder, Loops, Committing, NEW s \in Sessions,
           Lock(s) \/ Read(s) \/ Loop(s) \/ Fault(s) \/ CloseConnection(s)
    PROVE  Committing'
<1>1. \A t \in Sessions : t # s => pc'[t] = pc[t] /\ todo'[t] = todo[t]
  BY StepKinds
<1>2. CASE pc[s] = "commit" /\ pc'[s] # "commit"
  <2>1. \A t \in Sessions : pc'[t] # "commit"
    BY <1>1, <1>2 DEF Committing
  <2> QED
    BY <2>1 DEF Committing
<1>3. CASE pc[s] # "commit" /\ pc'[s] # "commit"
  <2>1. Recorded' = Recorded
    BY <1>3, StepKinds DEF Recorded
  <2>2. \A t \in Sessions : pc'[t] = "commit" => t # s /\ NextVersion(t)' = NextVersion(t)
    BY <1>1, <1>3 DEF NextVersion
  <2> QED
    BY <1>1, <1>3, <2>1, <2>2 DEF Committing
<1>4. CASE Migrate(s) /\ pc'[s] = "commit"
  <2>1. /\ NextVersion(s) \notin Recorded /\ pc[s] = "next"
        /\ \A t \in Sessions : pc[t] = "commit" => NextVersion(t) # NextVersion(s)
        /\ Recorded' = Recorded /\ todo' = todo
    BY <1>4 DEF Migrate, Conflicts, Leave, Goto, TypeOK, Recorded
  <2>2. ASSUME NEW t \in Sessions, pc[t] = "commit"
        PROVE  FALSE
    <3>1. NextVersion(t) \notin Recorded
      BY <2>2 DEF Committing
    <3>2. /\ NextVersion(t) \in Versions /\ 1..(NextVersion(t) - 1) \subseteq Recorded
          /\ NextVersion(s) \in Versions /\ 1..(NextVersion(s) - 1) \subseteq Recorded
      BY <2>1, <2>2, NextFacts DEF Looping
    <3>3. NextVersion(t) = NextVersion(s)
      BY <2>1, <3>1, <3>2, VersionsAssumption DEF Versions
    <3> QED
      BY <2>1, <2>2, <3>3
  <2>3. \A t \in Sessions : pc'[t] = "commit" => t = s
    BY <1>1, <2>2
  <2> QED
    BY <2>1, <2>3 DEF Committing, NextVersion
<1>5. pc'[s] = "commit" => Migrate(s)
  BY DEF Lock, Begin, AcquireLock, ReleaseLock, CloseConnection, Read, LookForTable,
         CreateTable, CreateTableCollides, ReadApplied, Fault, StatementFails,
         MigrationFails, Crash, Loop, CommitMigration, Goto, Leave, TypeOK
<1> QED
  BY <1>2, <1>3, <1>4, <1>5

\* What a call has done is recorded, and it ends once.
LEMMA DeedsStep ==
    ASSUME TypeOK, AppliedInOrder, Loops, Committing, Deeds, NEW s \in Sessions,
           Lock(s) \/ Read(s) \/ Loop(s) \/ Fault(s) \/ CloseConnection(s)
    PROVE  Deeds'
<1>1. Recorded \subseteq Recorded'
  BY RecordedGrows
<1>2. \A t \in Sessions : did'[t] \subseteq Recorded'
  <2>1. CASE pc[s] = "commit" /\ Committed(s)
    BY <1>1, <2>1, CommitFacts, CommittedFacts DEF Deeds
  <2>2. CASE UNCHANGED did
    BY <1>1, <2>2 DEF Deeds
  <2> QED
    BY <2>1, <2>2, StepKinds
<1>3. /\ pc'[s] \in Early => pc[s] \in Early /\ UNCHANGED did /\ outcome'[s] = "none"
      /\ pc'[s] \in Looping => outcome'[s] = "none"
  <2> USE DEF TypeOK, Goto, Leave, Early, Looping, Deeds
  <2>1. CASE Lock(s) \/ CloseConnection(s)
    BY <2>1 DEF Lock, Begin, AcquireLock, ReleaseLock, CloseConnection
  <2>2. CASE Read(s)
    BY <2>2 DEF Read, LookForTable, CreateTable, CreateTableCollides, ReadApplied
  <2>3. CASE Loop(s)
    BY <2>3 DEF Loop, Migrate, CommitMigration
  <2>4. CASE Fault(s)
    BY <2>4 DEF Fault, StatementFails, MigrationFails, Crash
  <2> QED
    BY <2>1, <2>2, <2>3, <2>4
<1> QED
  BY <1>2, <1>3, StepKinds DEF Deeds

\* Nothing destructive is applied without the word, and a refusal applies nothing.
LEMMA ReviewedStep ==
    ASSUME TypeOK, Loops, Deeds, ReviewedWhole, NEW s \in Sessions,
           Lock(s) \/ Read(s) \/ Loop(s) \/ Fault(s) \/ CloseConnection(s)
    PROVE  ReviewedWhole'
<1>1. CASE pc[s] = "commit" /\ Committed(s)
  <2>1. NextVersion(s) \in todo[s] /\ outcome[s] = "none"
    BY <1>1, NextFacts DEF Looping, Deeds
  <2>2. did'[s] \cap Destructive # {} => call[s].allow
    BY <1>1, <2>1, CommittedFacts DEF Loops, Looping, ReviewedWhole
  <2>3. outcome'[s] # "refused"
    BY <1>1, <2>1
    DEF Lock, Begin, AcquireLock, ReleaseLock, CloseConnection, Read, LookForTable,
        CreateTable, CreateTableCollides, ReadApplied, Fault, StatementFails,
        MigrationFails, Crash, Loop, Migrate, CommitMigration, Goto, Leave, TypeOK
  <2> QED
    BY <2>2, <2>3, StepKinds DEF ReviewedWhole
<1>2. CASE UNCHANGED did
  <2>1. outcome'[s] = "refused" => outcome[s] = "refused" \/ pc[s] \in Early
    BY DEF Lock, Begin, AcquireLock, ReleaseLock, CloseConnection, Read, LookForTable,
           CreateTable, CreateTableCollides, ReadApplied, Fault, StatementFails,
           MigrationFails, Crash, Loop, Migrate, CommitMigration, Goto, Leave, TypeOK,
           Early
  <2> QED
    BY <1>2, <2>1, StepKinds DEF ReviewedWhole, Deeds
<1> QED
  BY <1>1, <1>2, StepKinds

\* Under the lock, a call alone sees and changes the state table.
LEMMA ExclusiveStep ==
    ASSUME TypeOK, AppliedInOrder, Modes, Loops, Committing, Deeds, Exclusive,
           NEW s \in Sessions,
           Lock(s) \/ Read(s) \/ Loop(s) \/ Fault(s) \/ CloseConnection(s)
    PROVE  Exclusive'
<1>1. UNCHANGED call
  BY StepKinds
<1> SUFFICES ASSUME \A t \in Sessions : call[t].locking
             PROVE  \A t \in Sessions :
                        /\ pc'[t] \in Locked => holder' = t
                        /\ pc'[t] = "create" => ~table'
                        /\ pc'[t] \in Looping => todo'[t] \cap Recorded' = {}
                        /\ outcome'[t] # "collided"
  BY <1>1 DEF Exclusive
<1>2. \A t \in Sessions :
        /\ pc[t] \in Locked => holder = t
        /\ pc[t] = "create" => ~table
        /\ pc[t] \in Looping => todo[t] \cap Recorded = {}
        /\ outcome[t] # "collided"
  BY DEF Exclusive
<1>3. \A t \in Sessions : t # s /\ pc[s] \in Locked => pc[t] \notin Locked
  BY <1>2
<1>4. /\ pc'[s] \in Locked => holder' = s
      /\ \A t \in Sessions : t # s /\ holder = t => holder' = t
  <2> USE DEF Goto, Leave, TypeOK, Locked, database, locals
  <2>1. CASE Lock(s) \/ CloseConnection(s)
    BY <1>2, <2>1, SessionsAssumption
    DEF Lock, Begin, AcquireLock, ReleaseLock, CloseConnection, TakesLock
  <2>2. CASE Read(s)
    BY <1>2, <2>2 DEF Read, LookForTable, CreateTable, CreateTableCollides, ReadApplied
  <2>3. CASE Loop(s)
    BY <1>2, <2>3 DEF Loop, Migrate, CommitMigration
  <2>4. CASE Fault(s)
    BY <1>2, <2>4 DEF Fault, StatementFails, MigrationFails, Crash
  <2> QED
    BY <2>1, <2>2, <2>3, <2>4
<1>5. /\ pc'[s] = "create" => ~table'
      /\ outcome'[s] # "collided"
  <2>1. Migrate(s) => ~Conflicts(NextVersion(s))
    BY <1>2, NextFacts DEF Migrate, Conflicts, Looping
  <2> QED
    BY <1>2, <2>1 DEF Lock, Begin, AcquireLock, ReleaseLock, CloseConnection, Read,
           LookForTable, CreateTable, CreateTableCollides, ReadApplied, Fault,
           StatementFails, MigrationFails, Crash, Loop, Migrate, CommitMigration, Goto,
           Leave, TypeOK, database, locals
<1>6. pc[s] \in Locked \/ UNCHANGED <<table, checksum>>
  BY DEF Lock, Begin, AcquireLock, ReleaseLock, CloseConnection, Read, LookForTable,
           CreateTable, CreateTableCollides, ReadApplied, Fault, StatementFails,
           MigrationFails, Crash, Loop, Migrate, CommitMigration, Goto, Leave, TypeOK,
           Locked, database, locals
<1>7. pc'[s] \in Looping => todo'[s] \cap Recorded' = {}
  <2>1. CASE pc[s] = "commit" /\ Committed(s)
    <3>1. Recorded' = Recorded \cup {NextVersion(s)} /\ todo'[s] = todo[s] \ {NextVersion(s)}
      BY <2>1, CommitFacts, CommittedFacts
    <3> QED
      BY <1>2, <2>1, <3>1 DEF Looping
  <2>2. CASE UNCHANGED checksum
    <3>1. Recorded' = Recorded
      BY <2>2 DEF Recorded
    <3>2. ASSUME pc'[s] \in Looping
          PROVE  \/ todo'[s] = Outstanding(s)
                 \/ pc[s] \in Looping /\ todo'[s] \subseteq todo[s]
      <4> USE <3>2 DEF Goto, Leave, TypeOK, Looping
      <4>1. CASE Lock(s) \/ CloseConnection(s)
        BY <4>1 DEF Lock, Begin, AcquireLock, ReleaseLock, CloseConnection
      <4>2. CASE Read(s)
        BY <4>2 DEF Read, LookForTable, CreateTable, CreateTableCollides, ReadApplied
      <4>3. CASE Migrate(s)
        BY <4>3 DEF Migrate
      <4>4. CASE CommitMigration(s)
        BY <4>4, CommittedFacts DEF CommitMigration
      <4>5. CASE Fault(s)
        BY <4>5 DEF Fault, StatementFails, MigrationFails, Crash
      <4> QED
        BY <4>1, <4>2, <4>3, <4>4, <4>5 DEF Loop
    <3>3. Outstanding(s) \cap Recorded = {}
      BY DEF Outstanding
    <3> QED
      BY <1>2, <3>1, <3>2, <3>3
  <2> QED
    BY <2>1, <2>2, StepKinds
<1>8. ASSUME NEW t \in Sessions, t # s
      PROVE  /\ pc'[t] \in Locked => holder' = t
             /\ pc'[t] = "create" => ~table'
             /\ pc'[t] \in Looping => todo'[t] \cap Recorded' = {}
             /\ outcome'[t] # "collided"
  <2>1. pc'[t] = pc[t] /\ todo'[t] = todo[t] /\ outcome'[t] = outcome[t]
    BY <1>8, StepKinds
  <2>2. CASE pc[t] \notin Locked
    BY <1>2, <2>1, <2>2 DEF Locked, Looping
  <2>3. CASE pc[t] \in Locked
    <3>1. table' = table /\ Recorded' = Recorded
      BY <1>3, <1>6, <1>8, <2>3 DEF Recorded
    <3> QED
      BY <1>2, <1>4, <1>8, <2>1, <2>3, <3>1
  <2> QED
    BY <2>2, <2>3
<1> QED
  BY <1>4, <1>5, <1>7, <1>8

-----------------------------------------------------------------------------
(* The theorems *)

\* The invariant holds at first, whatever the release that left the database.
LEMMA IInvInit == Init => IInv
<1> SUFFICES ASSUME Init PROVE IInv
  OBVIOUS
<1> USE DEF Init
<1>1. TypeOK
  BY DEF TypeOK, Recorded
<1>2. HistoryTrue
  BY <1>1 DEF HistoryTrue, RecordTruth, GrantNotLost
<1>3. AppliedInSequence
  BY DEF AppliedInSequence, AppliedInOrder, AppliedOnce
<1>4. ReviewedWhole /\ Modes /\ Loops /\ Committing /\ Deeds /\ Exclusive
  BY DEF ReviewedWhole, Modes, Loops, Committing, Deeds, Exclusive, Early, Looping, Locked
<1> QED
  BY <1>2, <1>3, <1>4 DEF IInv

\* Every step keeps it.
LEMMA IInvStep == IInv /\ [Next]_vars => IInv'
<1> SUFFICES ASSUME IInv, [Next]_vars PROVE IInv'
  OBVIOUS
<1> USE DEF IInv, HistoryTrue, AppliedInSequence
<1>1. ASSUME NEW s \in Sessions,
             Lock(s) \/ Read(s) \/ Loop(s) \/ Fault(s) \/ CloseConnection(s)
      PROVE  IInv'
  <2>1. HistoryTrue' /\ AppliedInSequence'
    BY <1>1, HistoryStep
  <2>2. ReviewedWhole'
    BY <1>1, ReviewedStep
  <2>3. Modes' /\ Loops'
    BY <1>1, ModesStep, LoopsStep
  <2>4. Committing' /\ Deeds'
    BY <1>1, CommittingStep, DeedsStep
  <2>5. Exclusive'
    BY <1>1, ExclusiveStep
  <2> QED
    BY <2>1, <2>2, <2>3, <2>4, <2>5
<1>2. CASE UNCHANGED vars
  BY <1>2
  DEF vars, database, locals, TypeOK, RecordTruth, GrantNotLost, AppliedInOrder,
      AppliedOnce, ReviewedWhole, Modes, Loops, Committing, Deeds, Exclusive, Recorded,
      RefusesMode, NextVersion
<1> QED
  BY <1>1, <1>2 DEF Next

\* The inductive invariant of the runner: how stale a call's list can be.
THEOREM Inductive == Spec => []IInv
BY IInvInit, IInvStep, PTL DEF Spec

\* The state table and the schema agree through every failure and every kill, and
\* no grant that a recorded migration owed to the reader role is lost.
THEOREM HistoryIsTrue == Spec => []HistoryTrue
<1>1. IInv => HistoryTrue
  BY DEF IInv
<1> QED
  BY <1>1, Inductive, PTL

\* However many calls of however many releases race, with or without the lock,
\* what is applied is a prefix of the shipped order and no version is applied twice.
THEOREM Sequenced == Spec => []AppliedInSequence
<1>1. IInv => AppliedInSequence
  BY DEF IInv
<1> QED
  BY <1>1, Inductive, PTL

\* With the lock, no call ever dies of a race with another one.
THEOREM LockPreventsCollisions == Spec => []NoCollision
<1>1. IInv => NoCollision
  BY DEF IInv, Exclusive, NoCollision
<1> QED
  BY <1>1, Inductive, PTL

\* Nothing destructive is applied without the operator's word, even by a call whose
\* list was computed before another release's call went through; and a call that
\* refused applied nothing at all.
THEOREM ReviewedBeforeApplied == Spec => []ReviewedWhole
<1>1. IInv => ReviewedWhole
  BY DEF IInv
<1> QED
  BY <1>1, Inductive, PTL
=============================================================================
