--------------------------- MODULE StopHookProofs ---------------------------
(***************************************************************************)
(* Proofs about the Stop hook, for any number of invocations, tokens and   *)
(* replacements of the transcript.                                         *)
(*                                                                         *)
(* That no token is lost is proved for invocations that run one after the  *)
(* other, whatever happens to the file, and for invocations that overlap   *)
(* over a file that is not replaced.  It is false of invocations that      *)
(* overlap while the file is replaced: one re-anchors the baseline in the  *)
(* new file, and one that remembers the old file's baseline then advances  *)
(* it past tokens that nobody reported.                                    *)
(***************************************************************************)
EXTENDS StopHook, FiniteSetTheorems, TLAPS

\* Where the baseline has been read, and where the record is in the emitter's hands.
AfterRead == {"delta", "emit", "close", "ask1", "ask2", "write", "replace"}
Emitted == {"close", "ask1", "ask2"}

\* Invocations that do not overlap run one at a time.
OneAtATime ==
    ~Overlap => \A g, h \in Hooks : Running(g) /\ Running(h) => g = h

\* The worker runs only behind an invocation, and past its close() only after a timeout.
PlaceOf(h) ==
    /\ ~Running(h) => worker[h] \in {"none", "gone"}
    /\ pc[h] \in {"out", "scanned", "delta", "emit"} => worker[h] = "none"
    /\ pc[h] \in Emitted => worker[h] # "none"
    /\ worker[h] \in {"none", "buffered", "sending"} => ~delivered[h] /\ ~drops[h]
    /\ worker[h] \in {"buffered", "sending", "returned"} /\ ~excused => pc[h] = "close"
    /\ pc[h] \in {"emit"} \cup Emitted => Reports(h) /\ (configured => choice[h] # "none")
    /\ pc[h] \in {"write", "replace"} => Reanchors(h) \/ Reports(h)

\* What an invocation takes for kept is in the store: the emitter counted it as
\* delivered, so the transport had stored it or counted it as dropped by then.
KeptIsStored(h) ==
    /\ (worker[h] = "returned" \/ delivered[h]) /\ choice[h] = "transport" =>
            Record(h) \in stored \/ drops[h]
    /\ pc[h] = "ask2" /\ kept[h] => delivered[h]
    /\ pc[h] \in {"write", "replace"} /\ Reports(h) /\ configured => Record(h) \in stored

Places == \A h \in Hooks : PlaceOf(h) /\ KeptIsStored(h)

\* Nothing is read that has not been there.
Scans ==
    /\ written.gen <= transcript.gen
    /\ written.gen = transcript.gen => baseline <= transcript.total
    /\ \A h \in Hooks :
        Running(h) =>
            /\ scan[h].gen <= transcript.gen
            /\ scan[h].gen = transcript.gen => scan[h].total <= transcript.total

\* One at a time, an invocation's baseline is the one in the file, and a whole
\* transcript of the file it describes is never shorter.
Current ==
    ~Overlap =>
        \A h \in Hooks :
            /\ pc[h] \in AfterRead => base[h] = baseline \/ (excused /\ base[h] = 0)
            /\ Running(h) /\ scan[h].readable /\ scan[h].gen = written.gen =>
                    baseline <= scan[h].total

\* The tokens of a generation after a, up to b, have been reported.
Reported(g, a, b) ==
    \A t \in 1..MaxTokens : a < t /\ t <= b => Reporting(g, t) # {}

\* Neither the baseline nor one that an invocation remembers is past a token that
\* was not reported.
Lossless ==
    (~Overlap \/ MaxGeneration = 0) /\ configured =>
        /\ Reported(written.gen, written.anchor, baseline)
        /\ \A h \in Hooks :
            pc[h] \in AfterRead => Reported(written.gen, written.anchor, base[h])

\* The invocation's record is stored, and the invocation will find that out.
Carries(h) ==
    /\ pc[h] \in Emitted \cup {"write", "replace"}
    /\ choice[h] = "transport" /\ ~drops[h]
    /\ \/ worker[h] = "returned" /\ pc[h] = "close"
       \/ worker[h] = "done" /\ delivered[h]
    /\ pc[h] = "ask2" => kept[h]

\* Records do not overlap, and the baseline is past all of them, but for the one of
\* the invocation that is about to advance it.
Once ==
    ~Overlap /\ ~excused /\ transcript.gen = 0 =>
        /\ \A r \in stored :
            r.to <= baseline \/ \E h \in Hooks : Carries(h) /\ r = Record(h)
        /\ \A r, s \in stored : r # s => r.to <= s.from \/ s.to <= r.from

IInv ==
    /\ TypeOK /\ OneAtATime /\ Places /\ Scans /\ Current
    /\ Lossless /\ Once

-----------------------------------------------------------------------------
(* What a step of one invocation touches *)

\* The locals of an invocation, after a step that is not its own.
Untouched(g) ==
    /\ pc'[g] = pc[g] /\ scan'[g] = scan[g] /\ base'[g] = base[g]
    /\ choice'[g] = choice[g] /\ worker'[g] = worker[g]
    /\ (delivered'[g] <=> delivered[g]) /\ (drops'[g] <=> drops[g])
    /\ (kept'[g] <=> kept[g])

\* A step of an invocation leaves the locals of the others alone.
LEMMA OthersUntouched ==
    ASSUME TypeOK, NEW h \in Hooks, HookStep(h) \/ WorkerStep(h), NEW g \in Hooks \ {h}
    PROVE  Untouched(g)
<1> USE DEF TypeOK, Untouched, Goto, Ends, sinkVars, locals
<1>1. CASE WorkerStep(h)
  BY <1>1 DEF WorkerStep, WorkerTakes, SinkStores, SinkDrops, SinkRaises, WorkerCounts
<1>2. CASE Scan(h) \/ ReadBaseline(h) \/ NothingToReport(h) \/ Reanchor(h)
  BY <1>2 DEF Scan, ReadBaseline, NothingToReport, Reanchor
<1>3. CASE SelectSink(h) \/ EmitUsage(h) \/ CloseJoins(h) \/ CloseTimesOut(h)
  BY <1>3 DEF SelectSink, EmitUsage, CloseJoins, CloseTimesOut
<1>4. CASE AskFirst(h) \/ AskSecond(h)
  BY <1>4 DEF AskFirst, AskSecond
<1>5. CASE WriteTemporary(h) \/ WriteFails(h) \/ ReplaceBaseline(h) \/ Kill(h)
  BY <1>5 DEF WriteTemporary, WriteFails, ReplaceBaseline, Kill
<1> QED
  BY <1>1, <1>2, <1>3, <1>4, <1>5 DEF HookStep

\* A step of the session leaves all of them alone.
LEMMA SessionUntouched ==
    ASSUME Grow \/ ReplaceTranscript, NEW g \in Hooks
    PROVE  Untouched(g)
  BY DEF Grow, ReplaceTranscript, Untouched, sinkVars

\* The end of an invocation, as its locals show it.
Ended(h) ==
    /\ pc'[h] = "exit" /\ worker'[h] = "gone"
    /\ scan'[h] = NoScan /\ base'[h] = 0 /\ choice'[h] = "none"
    /\ ~delivered'[h] /\ ~drops'[h] /\ ~kept'[h]

LEMMA EndsEnds ==
    ASSUME TypeOK, NEW h \in Hooks, Ends(h)
    PROVE  Ended(h)
  BY DEF TypeOK, Ends, Ended, Goto

-----------------------------------------------------------------------------
(* Each part of the invariant is preserved *)

\* Every action keeps the types.
LEMMA TypeStep ==
    ASSUME TypeOK, Next
    PROVE  TypeOK'
<1> USE BoundsAssumption DEF TypeOK, files, sinkVars, locals, Goto
<1>1. CASE Grow
  BY <1>1 DEF Grow
<1>2. CASE ReplaceTranscript
  BY <1>2 DEF ReplaceTranscript
<1>3. ASSUME NEW h \in Hooks, WorkerStep(h)
      PROVE  TypeOK'
  <2>1. Record(h) \in [gen : 0..MaxGeneration, from : 0..MaxTokens, to : 0..MaxTokens, by : Hooks]
    BY DEF Record
  <2> QED
    BY ZenonT(60), <1>3, <2>1
    DEF WorkerStep, WorkerTakes, SinkStores, SinkDrops, SinkRaises, WorkerCounts
<1>4. ASSUME NEW h \in Hooks, Scan(h)
      PROVE  TypeOK'
  <2> DEFINE Scanned == [gen : 0..MaxGeneration, total : 0..MaxTokens, readable : BOOLEAN]
  <2>1. PICK n \in 0..transcript.total, whole \in BOOLEAN :
            scan' = [scan EXCEPT ![h] = [gen |-> transcript.gen, total |-> n,
                                         readable |-> whole]]
    <3>1. transcript.total \in 0..transcript.total
      OBVIOUS
    <3> QED
      BY <1>4, <3>1 DEF Scan
  <2>2. [gen |-> transcript.gen, total |-> n, readable |-> whole] \in Scanned
    OBVIOUS
  <2>3. scan' \in [Hooks -> Scanned]
    <3> HIDE DEF Scanned
    <3> QED
      BY <2>1, <2>2 DEF Scanned
  <2>4. pc' = [pc EXCEPT ![h] = "scanned"] /\ UNCHANGED <<files, sinkVars, base, kept, excused>>
    BY <1>4 DEF Scan
  <2> QED
    BY <2>3, <2>4
<1>5. ASSUME NEW h \in Hooks, ReadBaseline(h) \/ Reanchor(h) \/ SelectSink(h)
      PROVE  TypeOK'
  <2>1. CASE ReadBaseline(h)
    <3>1. base' \in [Hooks -> 0..MaxTokens]
      BY <2>1 DEF ReadBaseline
    <3>2. excused' \in BOOLEAN
      BY <2>1 DEF ReadBaseline
    <3> QED
      BY <2>1, <3>1, <3>2 DEF ReadBaseline
  <2>2. CASE Reanchor(h)
    BY <2>2 DEF Reanchor
  <2>3. CASE SelectSink(h)
    BY <2>3 DEF SelectSink
  <2> QED
    BY <1>5, <2>1, <2>2, <2>3
<1>6. ASSUME NEW h \in Hooks, Ends(h)
      PROVE  /\ pc' \in [Hooks -> {"out", "scanned", "delta", "emit", "close", "ask1",
                                   "ask2", "write", "replace", "exit"}]
             /\ scan' \in [Hooks -> [gen : 0..MaxGeneration, total : 0..MaxTokens,
                                     readable : BOOLEAN]]
             /\ base' \in [Hooks -> 0..MaxTokens]
             /\ choice' \in [Hooks -> {"transport", "degraded", "none"}]
             /\ worker' \in [Hooks -> {"none", "buffered", "sending", "returned", "done", "gone"}]
             /\ delivered' \in [Hooks -> BOOLEAN] /\ drops' \in [Hooks -> BOOLEAN]
             /\ kept' \in [Hooks -> BOOLEAN]
  <2>1. 0 \in 0..MaxTokens /\ 0 \in 0..MaxGeneration
    OBVIOUS
  <2>2. NoScan \in [gen : 0..MaxGeneration, total : 0..MaxTokens, readable : BOOLEAN]
    BY <2>1 DEF NoScan
  <2> QED
    BY <1>6, <2>1, <2>2 DEF Ends
<1>7. ASSUME NEW h \in Hooks, NothingToReport(h) \/ WriteFails(h) \/ Kill(h)
      PROVE  TypeOK'
  BY <1>6, <1>7 DEF NothingToReport, WriteFails, Kill
<1>8. ASSUME NEW h \in Hooks, EmitUsage(h) \/ AskSecond(h)
      PROVE  TypeOK'
  BY <1>6, <1>8 DEF EmitUsage, AskSecond
<1>9. ASSUME NEW h \in Hooks, CloseJoins(h) \/ CloseTimesOut(h) \/ AskFirst(h)
      PROVE  TypeOK'
  BY ZenonT(60), <1>9 DEF CloseJoins, CloseTimesOut, AskFirst, Answer
<1>10. ASSUME NEW h \in Hooks, WriteTemporary(h)
      PROVE  TypeOK'
  BY <1>10 DEF WriteTemporary, WriteAside
<1>11. ASSUME NEW h \in Hooks, ReplaceBaseline(h)
      PROVE  TypeOK'
  <2>1. /\ baseline' \in 0..MaxTokens
        /\ written' \in [gen : 0..MaxGeneration, anchor : 0..MaxTokens]
    BY <1>11 DEF ReplaceBaseline, Remember
  <2> QED
    BY <1>6, <1>11, <2>1 DEF ReplaceBaseline
<1> QED
  BY <1>1, <1>2, <1>3, <1>4, <1>5, <1>7, <1>8, <1>9, <1>10, <1>11 DEF Next, HookStep

\* Invocations that do not overlap start when none is running.
LEMMA OneAtATimeStep ==
    ASSUME TypeOK, OneAtATime, Next
    PROVE  OneAtATime'
<1>1. CASE Grow \/ ReplaceTranscript
  BY <1>1, SessionUntouched DEF OneAtATime, Running, Untouched
<1>2. ASSUME NEW h \in Hooks, HookStep(h) \/ WorkerStep(h)
      PROVE  OneAtATime'
  <2>1. \A g \in Hooks \ {h} : pc'[g] = pc[g]
    BY <1>2, OthersUntouched DEF Untouched
  <2>2. Scan(h) \/ (Running(h)' => Running(h))
    BY <1>2
    DEF HookStep, WorkerStep, Running, WorkerTakes, SinkStores, SinkDrops, SinkRaises,
        WorkerCounts, ReadBaseline, NothingToReport, Reanchor, SelectSink, EmitUsage,
        CloseJoins, CloseTimesOut, AskFirst, AskSecond, WriteTemporary, WriteFails,
        ReplaceBaseline, Kill
  <2>3. Scan(h) => Overlap \/ \A g \in Hooks : ~Running(g)
    BY DEF Scan
  <2> QED
    BY <2>1, <2>2, <2>3 DEF OneAtATime, Running
<1> QED
  BY <1>1, <1>2 DEF Next

\* The store only grows, an excuse stays one, and the environment does not change.
LEMMA Lasting ==
    ASSUME Next
    PROVE  /\ stored \subseteq stored' /\ (excused => excused')
           /\ (configured' <=> configured)
<1> USE DEF files, sinkVars
<1>1. CASE Grow \/ ReplaceTranscript
  BY <1>1 DEF Grow, ReplaceTranscript
<1>2. ASSUME NEW h \in Hooks, HookStep(h) \/ WorkerStep(h)
      PROVE  /\ stored \subseteq stored' /\ (excused => excused')
             /\ (configured' <=> configured)
  BY <1>2
  DEF HookStep, WorkerStep, WorkerTakes, SinkStores, SinkDrops, SinkRaises,
      WorkerCounts, Scan, ReadBaseline, NothingToReport, Reanchor, SelectSink, EmitUsage,
      CloseJoins, CloseTimesOut, AskFirst, AskSecond, WriteTemporary, WriteFails,
      ReplaceBaseline, Kill
<1> QED
  BY <1>1, <1>2 DEF Next

\* An invocation stays where it was while others run.
LEMMA PlaceStays ==
    ASSUME NEW g \in Hooks, Untouched(g), PlaceOf(g), KeptIsStored(g), Next
    PROVE  PlaceOf(g)' /\ KeptIsStored(g)'
<1>1. /\ stored \subseteq stored' /\ (excused => excused') /\ (configured' <=> configured)
  BY Lasting
<1>2. /\ Running(g)' <=> Running(g)
      /\ Reports(g)' <=> Reports(g)
      /\ Reanchors(g)' <=> Reanchors(g)
      /\ Record(g)' = Record(g)
  BY DEF Untouched, Running, Reports, Reanchors, Record
<1>3. PlaceOf(g)'
  BY <1>1, <1>2 DEF Untouched, PlaceOf
<1>4. KeptIsStored(g)'
  BY <1>1, <1>2 DEF Untouched, KeptIsStored
<1> QED
  BY <1>3, <1>4

\* Every step of an invocation and of its worker leads to a place it should be in.
LEMMA PlaceStep ==
    ASSUME TypeOK, NEW h \in Hooks, PlaceOf(h), KeptIsStored(h), HookStep(h) \/ WorkerStep(h)
    PROVE  PlaceOf(h)' /\ KeptIsStored(h)'
<1> USE DEF Goto, Emitted
<1>0. Ended(h) => PlaceOf(h)' /\ KeptIsStored(h)'
  BY DEF Ended, PlaceOf, KeptIsStored, Running
<1>1. CASE WorkerTakes(h)
  BY <1>1
  DEF WorkerTakes, PlaceOf, KeptIsStored, TypeOK, files, Running, Reports, Reanchors, Record
<1>2. CASE SinkStores(h)
  BY <1>2
  DEF SinkStores, PlaceOf, KeptIsStored, TypeOK, files, Running, Reports, Reanchors, Record
<1>3. CASE SinkDrops(h) \/ SinkRaises(h)
  BY <1>3
  DEF SinkDrops, SinkRaises, PlaceOf, KeptIsStored, TypeOK, files, Running, Reports,
      Reanchors, Record
<1>4. CASE WorkerCounts(h)
  BY <1>4
  DEF WorkerCounts, PlaceOf, KeptIsStored, TypeOK, files, Running, Reports, Reanchors, Record
<1>5. CASE Scan(h) \/ ReadBaseline(h)
  BY <1>5
  DEF Scan, ReadBaseline, PlaceOf, KeptIsStored, TypeOK, files, sinkVars, Running, Reports,
      Reanchors, Record
<1>6. CASE NothingToReport(h) \/ WriteFails(h) \/ ReplaceBaseline(h) \/ Kill(h)
  BY <1>0, <1>6, EndsEnds DEF NothingToReport, WriteFails, ReplaceBaseline, Kill
<1>7. CASE Reanchor(h) \/ SelectSink(h)
  BY <1>7
  DEF Reanchor, SelectSink, PlaceOf, KeptIsStored, TypeOK, files, sinkVars, Running,
      Reports, Reanchors, Record
<1>8. CASE EmitUsage(h)
  <2>1. CASE Ends(h)
    BY <1>0, <2>1, EndsEnds
  <2>2. CASE ~Ends(h)
    BY <1>8, <2>2
    DEF EmitUsage, PlaceOf, KeptIsStored, TypeOK, files, Running, Reports, Reanchors, Record
  <2> QED
    BY <2>1, <2>2
<1>9. CASE CloseJoins(h) \/ CloseTimesOut(h)
  BY <1>9
  DEF CloseJoins, CloseTimesOut, PlaceOf, KeptIsStored, TypeOK, files, sinkVars, Running,
      Reports, Reanchors, Record
<1>10. CASE AskFirst(h)
  BY <1>10
  DEF AskFirst, FirstQuestion, Answer, PlaceOf, KeptIsStored, TypeOK, files, sinkVars,
      Running, Reports, Reanchors, Record
<1>11. CASE AskSecond(h)
  <2>1. CASE Kept(h)
    <3>1. delivered[h] /\ ~drops[h] /\ choice[h] # "degraded"
      BY <1>11, <2>1
      DEF AskSecond, Kept, Answer, SecondQuestion, FirstQuestion, KeptIsStored
    <3>2. configured => Record(h) \in stored
      BY <1>11, <3>1 DEF AskSecond, PlaceOf, KeptIsStored, TypeOK
    <3> QED
      BY <1>11, <2>1, <3>1, <3>2
      DEF AskSecond, PlaceOf, KeptIsStored, TypeOK, files, locals, Running, Reports,
          Reanchors, Record
  <2>2. CASE ~Kept(h)
    BY <1>0, <1>11, <2>2, EndsEnds DEF AskSecond
  <2> QED
    BY <2>1, <2>2
<1>12. CASE WriteTemporary(h)
  BY <1>12
  DEF WriteTemporary, WriteAside, PlaceOf, KeptIsStored, TypeOK, sinkVars, Running,
      Reports, Reanchors, Record
<1> QED
  BY <1>1, <1>2, <1>3, <1>4, <1>5, <1>6, <1>7, <1>8, <1>9, <1>10, <1>11, <1>12
  DEF HookStep, WorkerStep

LEMMA PlacesStep ==
    ASSUME TypeOK, Places, Next
    PROVE  Places'
<1>1. ASSUME NEW g \in Hooks PROVE PlaceOf(g)' /\ KeptIsStored(g)'
  <2>1. CASE Grow \/ ReplaceTranscript
    BY <2>1, SessionUntouched, PlaceStays DEF Places
  <2>2. CASE HookStep(g) \/ WorkerStep(g)
    BY <2>2, PlaceStep DEF Places
  <2>3. ASSUME NEW h \in Hooks \ {g}, HookStep(h) \/ WorkerStep(h)
        PROVE  PlaceOf(g)' /\ KeptIsStored(g)'
    BY <2>3, OthersUntouched, PlaceStays DEF Places
  <2> QED
    BY <2>1, <2>2, <2>3 DEF Next
<1> QED
  BY <1>1 DEF Places

\* The file only grows, or is replaced by a later one; what invocations read of it,
\* and what they write of it, was there.
LEMMA ScansStep ==
    ASSUME TypeOK, Places, Scans, Next
    PROVE  Scans'
<1>1. /\ transcript \in [gen : Nat, total : Nat] /\ written.gen \in Nat /\ baseline \in Nat
      /\ \A h \in Hooks : scan[h].gen \in Nat /\ scan[h].total \in Nat
  BY BoundsAssumption DEF TypeOK
<1>2. CASE Grow \/ ReplaceTranscript
  <2>1. /\ UNCHANGED <<written, baseline, pc, scan>>
        /\ \/ transcript'.gen = transcript.gen /\ transcript'.total = transcript.total + 1
           \/ transcript'.gen = transcript.gen + 1
    BY <1>1, <1>2 DEF Grow, ReplaceTranscript
  <2> QED
    BY <1>1, <2>1 DEF Scans, Running
<1>3. ASSUME NEW h \in Hooks, HookStep(h) \/ WorkerStep(h)
      PROVE  Scans'
  <2>1. transcript' = transcript
    BY <1>3
    DEF HookStep, WorkerStep, WorkerTakes, SinkStores, SinkDrops, SinkRaises,
        WorkerCounts, Scan, ReadBaseline, NothingToReport, Reanchor, SelectSink, EmitUsage,
        CloseJoins, CloseTimesOut, AskFirst, AskSecond, WriteTemporary, WriteFails,
        ReplaceBaseline, Kill, files
  <2>2. \A g \in Hooks \ {h} : pc'[g] = pc[g] /\ scan'[g] = scan[g]
    BY <1>3, OthersUntouched DEF Untouched
  <2>3. CASE Scan(h)
    <3>1. scan'[h].gen = transcript.gen /\ scan'[h].total <= transcript.total
      BY <1>1, <2>3 DEF Scan, TypeOK
    <3>2. UNCHANGED <<written, baseline>>
      BY <2>3 DEF Scan, files
    <3> QED
      BY <1>1, <2>1, <2>2, <3>1, <3>2 DEF Scans, Running
  <2>4. CASE ~Scan(h)
    <3>1. Running(h)' => Running(h) /\ scan'[h] = scan[h]
      BY <1>3, <2>4, EndsEnds
      DEF HookStep, WorkerStep, WorkerTakes, SinkStores, SinkDrops, SinkRaises,
          WorkerCounts, ReadBaseline, NothingToReport, Reanchor, SelectSink, EmitUsage,
          CloseJoins, CloseTimesOut, AskFirst, AskSecond, WriteTemporary, WriteFails,
          ReplaceBaseline, Kill, Running, Ended, locals
    <3>2. \/ UNCHANGED <<written, baseline>>
          \/ /\ pc[h] = "replace" /\ baseline' = scan[h].total
             /\ written'.gen = scan[h].gen
      BY <1>3, <2>4
      DEF HookStep, WorkerStep, WorkerTakes, SinkStores, SinkDrops, SinkRaises,
          WorkerCounts, ReadBaseline, NothingToReport, Reanchor, SelectSink, EmitUsage,
          CloseJoins, CloseTimesOut, AskFirst, AskSecond, WriteTemporary, WriteAside,
          WriteFails, ReplaceBaseline, Remember, Kill, files
    <3>3. pc[h] = "replace" =>
            /\ scan[h].gen <= transcript.gen
            /\ scan[h].gen = transcript.gen => scan[h].total <= transcript.total
      BY DEF Scans, Running
    <3>4. /\ written'.gen <= transcript.gen
          /\ written'.gen = transcript.gen => baseline' <= transcript.total
      BY <3>2, <3>3 DEF Scans
    <3>5. \A g \in Hooks :
            Running(g)' => /\ scan'[g].gen <= transcript.gen
                           /\ scan'[g].gen = transcript.gen =>
                                scan'[g].total <= transcript.total
      BY <2>2, <3>1 DEF Scans, Running
    <3> QED
      BY <2>1, <3>4, <3>5 DEF Scans
  <2> QED
    BY <2>3, <2>4
<1> QED
  BY <1>2, <1>3 DEF Next

\* The baseline file changes in one way.
LEMMA BaselineMoves ==
    ASSUME TypeOK, Next, baseline' # baseline \/ written' # written
    PROVE  \E h \in Hooks : ReplaceBaseline(h)
  BY DEF Next, Grow, ReplaceTranscript,
      HookStep, WorkerStep, WorkerTakes, SinkStores, SinkDrops, SinkRaises,
      WorkerCounts, Scan, ReadBaseline, NothingToReport, Reanchor, SelectSink, EmitUsage,
      CloseJoins, CloseTimesOut, AskFirst, AskSecond, WriteTemporary, WriteAside,
      WriteFails, Kill, files

\* One at a time, no invocation acts on a baseline or on a file that has moved on.
LEMMA CurrentStep ==
    ASSUME TypeOK, OneAtATime, Scans, Current, Next
    PROVE  Current'
<1> SUFFICES ASSUME ~Overlap, NEW g \in Hooks
             PROVE  /\ pc'[g] \in AfterRead =>
                            base'[g] = baseline' \/ (excused' /\ base'[g] = 0)
                    /\ Running(g)' /\ scan'[g].readable /\ scan'[g].gen = written'.gen =>
                            baseline' <= scan'[g].total
  BY DEF Current
<1>1. excused => excused'
  BY Lasting
<1>2. CASE \E h \in Hooks : ReplaceBaseline(h)
  <2>1. PICK h \in Hooks : ReplaceBaseline(h)
    BY <1>2
  <2>2. Ended(h) /\ Running(h)
    BY <2>1, EndsEnds DEF ReplaceBaseline, Running
  <2>3. CASE g = h
    BY <2>2, <2>3 DEF Ended, Running, AfterRead
  <2>4. CASE g # h
    <3>1. ~Running(g)
      BY <2>2, <2>4 DEF OneAtATime
    <3>2. pc'[g] = pc[g]
      BY <2>1, <2>4, OthersUntouched DEF Untouched, HookStep
    <3> QED
      BY <3>1, <3>2 DEF Running, AfterRead
  <2> QED
    BY <2>3, <2>4
<1>3. CASE ~\E h \in Hooks : ReplaceBaseline(h)
  <2>1. UNCHANGED <<baseline, written>>
    BY <1>3, BaselineMoves
  <2>2. CASE Untouched(g)
    BY <1>1, <2>1, <2>2 DEF Untouched, Current, Running
  <2>3. CASE Scan(g)
    <3>1. /\ pc'[g] = "scanned" /\ scan'[g].gen = transcript.gen
          /\ scan'[g].readable => scan'[g].total = transcript.total
      BY <2>3 DEF Scan, Goto, TypeOK
    <3> QED
      BY <2>1, <3>1 DEF Scans, AfterRead
  <2>4. CASE ReadBaseline(g)
    <3>1. /\ Running(g) /\ scan'[g] = scan[g]
          /\ base'[g] = baseline \/ (excused' /\ base'[g] = 0)
      BY <2>4 DEF ReadBaseline, Running, TypeOK
    <3> QED
      BY <2>1, <3>1 DEF Current
  <2>5. CASE (HookStep(g) \/ WorkerStep(g)) /\ ~Scan(g) /\ ~ReadBaseline(g)
    <3>1. \/ Ended(g)
          \/ /\ UNCHANGED <<scan, base>> /\ (Running(g)' => Running(g))
             /\ pc'[g] \in AfterRead => pc[g] \in AfterRead
      BY <1>3, <2>5, EndsEnds
      DEF HookStep, WorkerStep, WorkerTakes, SinkStores, SinkDrops, SinkRaises,
          WorkerCounts, NothingToReport, Reanchor, SelectSink, EmitUsage,
          CloseJoins, CloseTimesOut, AskFirst, AskSecond, WriteTemporary, WriteFails,
          Kill, Running, AfterRead, locals
    <3>2. ASSUME Ended(g) PROVE pc'[g] \notin AfterRead /\ ~Running(g)'
      BY <3>2 DEF Ended, AfterRead, Running
    <3> QED
      BY <1>1, <2>1, <3>1, <3>2 DEF Current
  <2> QED
    BY <2>2, <2>3, <2>4, <2>5, SessionUntouched, OthersUntouched DEF Next
<1> QED
  BY <1>2, <1>3

\* What has been reported stays reported, and is added to by the next record.
LEMMA ReportedLasts ==
    ASSUME NEW g, NEW a, NEW b, stored \subseteq stored', Reported(g, a, b)
    PROVE  \A t \in 1..MaxTokens : a < t /\ t <= b => Reporting(g, t)' # {}
  BY DEF Reported, Reporting

LEMMA ReportedJoins ==
    ASSUME NEW g, NEW a \in Nat, NEW b \in Nat, NEW c \in Nat, Reported(g, a, b),
           NEW r \in stored, r.gen = g, r.from = b, r.to = c
    PROVE  Reported(g, a, c)
<1> SUFFICES ASSUME NEW t \in 1..MaxTokens, a < t, t <= c
             PROVE  Reporting(g, t) # {}
  BY DEF Reported
<1>1. CASE t <= b
  BY <1>1 DEF Reported
<1>2. CASE ~(t <= b)
  <2>1. r \in Reporting(g, t)
    BY <1>2, BoundsAssumption DEF Reporting
  <2> QED
    BY <2>1
<1> QED
  BY <1>1, <1>2

\* The baseline advances as far as the records go, or is put where a file absorbs it.
LEMMA LosslessStep ==
    ASSUME TypeOK, OneAtATime, Places, Lossless, TypeOK', Next
    PROVE  Lossless'
<1> SUFFICES ASSUME ~Overlap \/ MaxGeneration = 0, configured'
             PROVE  /\ Reported(written.gen, written.anchor, baseline)'
                    /\ \A h \in Hooks :
                        pc'[h] \in AfterRead =>
                            Reported(written.gen, written.anchor, base[h])'
  BY DEF Lossless
<1>1. stored \subseteq stored' /\ configured
  BY Lasting
<1>2. /\ Reported(written.gen, written.anchor, baseline)
      /\ \A h \in Hooks :
            pc[h] \in AfterRead => Reported(written.gen, written.anchor, base[h])
  BY <1>1 DEF Lossless
<1>3. /\ written.gen \in Nat /\ written.anchor \in Nat /\ baseline \in Nat
      /\ \A h \in Hooks : base[h] \in Nat /\ scan[h].total \in Nat
  BY BoundsAssumption DEF TypeOK
<1>4. CASE \E h \in Hooks : ReplaceBaseline(h)
  <2>1. PICK h \in Hooks : ReplaceBaseline(h)
    BY <1>4
  <2>2. /\ pc[h] = "replace" /\ baseline' = scan[h].total /\ stored' = stored
        /\ Ended(h) /\ Running(h)
    BY <2>1, EndsEnds DEF ReplaceBaseline, Remember, Running
  <2>3. Reports(h) => Record(h) \in stored
    BY <1>1, <2>2 DEF Places, KeptIsStored
  <2>4. Reported(written.gen, written.anchor, base[h])
    BY <1>2, <2>2 DEF AfterRead
  <2>5. Reports(h) \/ scan[h].total < base[h]
    BY <2>2 DEF Places, PlaceOf, Reanchors
  <2>6. \A g \in Hooks \ {h} : pc'[g] = pc[g] /\ base'[g] = base[g]
    BY <2>1, OthersUntouched DEF HookStep, Untouched
  <2>7. CASE scan[h].gen = written.gen
    <3>1. written' = written
      BY <2>1, <2>7 DEF ReplaceBaseline
    <3>2. Reported(written.gen, written.anchor, scan[h].total)
      <4>1. CASE Reports(h)
        <5>1. /\ Record(h).gen = written.gen /\ Record(h).from = base[h]
              /\ Record(h).to = scan[h].total
          BY <2>7 DEF Record
        <5> QED
          BY <1>3, <2>3, <2>4, <4>1, <5>1, ReportedJoins
      <4>2. CASE scan[h].total < base[h]
        BY <1>3, <2>4, <4>2 DEF Reported
      <4> QED
        BY <2>5, <4>1, <4>2
    <3>3. Reported(written.gen, written.anchor, baseline)'
      BY <2>2, <3>1, <3>2 DEF Reported, Reporting
    <3>4. ASSUME NEW g \in Hooks, pc'[g] \in AfterRead
          PROVE  Reported(written.gen, written.anchor, base[g])'
      <4>1. g # h
        BY <2>2, <3>4 DEF Ended, AfterRead
      <4>2. Reported(written.gen, written.anchor, base[g])
        BY <1>2, <2>6, <3>4, <4>1
      <4> QED
        BY <2>2, <2>6, <3>1, <4>1, <4>2 DEF Reported, Reporting
    <3> QED
      BY <3>3, <3>4
  <2>8. CASE scan[h].gen # written.gen
    <3>1. ~Overlap
      BY <2>8 DEF TypeOK
    <3>2. \A g \in Hooks : pc'[g] \notin AfterRead
      BY <2>2, <2>6, <3>1 DEF OneAtATime, Running, AfterRead, Ended
    <3>3. /\ written'.gen = scan[h].gen
          /\ written'.anchor = IF Reports(h) THEN base[h] ELSE scan[h].total
      BY <2>1, <2>8 DEF ReplaceBaseline
    <3>4. Reported(scan[h].gen, written'.anchor, scan[h].total)
      <4>1. CASE Reports(h)
        <5>1. /\ Record(h).gen = scan[h].gen /\ Record(h).from = base[h]
              /\ Record(h).to = scan[h].total
          BY DEF Record
        <5>2. Reported(scan[h].gen, base[h], base[h])
          BY <1>3 DEF Reported
        <5> QED
          BY <1>3, <2>3, <3>3, <4>1, <5>1, <5>2, ReportedJoins
      <4>2. CASE ~Reports(h)
        BY <1>3, <3>3, <4>2 DEF Reported
      <4> QED
        BY <4>1, <4>2
    <3> QED
      BY <2>2, <3>2, <3>3, <3>4 DEF Reported, Reporting
  <2> QED
    BY <2>7, <2>8
<1>5. CASE ~\E h \in Hooks : ReplaceBaseline(h)
  <2>1. UNCHANGED <<baseline, written>>
    BY <1>5, BaselineMoves
  <2>2. Reported(written.gen, written.anchor, baseline)'
    BY <1>1, <1>2, <2>1 DEF Reported, Reporting
  <2>3. ASSUME NEW g \in Hooks, pc'[g] \in AfterRead
        PROVE  Reported(written.gen, written.anchor, base[g])'
    <3>1. \/ pc[g] \in AfterRead /\ base'[g] = base[g]
          \/ base'[g] = baseline
          \/ base'[g] = 0
      <4>1. CASE Untouched(g)
        BY <2>3, <4>1 DEF Untouched
      <4>2. CASE Scan(g)
        BY <2>3, <4>2 DEF Scan, Goto, TypeOK, AfterRead
      <4>3. CASE ReadBaseline(g)
        BY <4>3 DEF ReadBaseline, TypeOK
      <4>4. CASE (HookStep(g) \/ WorkerStep(g)) /\ ~Scan(g) /\ ~ReadBaseline(g)
        <5>1. \/ Ended(g)
              \/ base' = base /\ (pc'[g] \in AfterRead => pc[g] \in AfterRead)
          BY <1>5, <4>4, EndsEnds
          DEF HookStep, WorkerStep, WorkerTakes, SinkStores, SinkDrops, SinkRaises,
              WorkerCounts, NothingToReport, Reanchor, SelectSink, EmitUsage,
              CloseJoins, CloseTimesOut, AskFirst, AskSecond, WriteTemporary, WriteFails,
              Kill, AfterRead, locals
        <5> QED
          BY <2>3, <5>1 DEF Ended, AfterRead
      <4> QED
        BY <4>1, <4>2, <4>3, <4>4, SessionUntouched, OthersUntouched DEF Next
    <3>2. Reported(written.gen, written.anchor, base'[g])
      <4>1. Reported(written.gen, written.anchor, 0)
        BY <1>3 DEF Reported
      <4> QED
        BY <1>2, <3>1, <4>1
    <3> QED
      BY <1>1, <2>1, <3>2 DEF Reported, Reporting
  <2> QED
    BY <2>2, <2>3
<1> QED
  BY <1>4, <1>5

\* An invocation whose record is stored, and that meets none of the documented causes,
\* goes on to advance the baseline.
LEMMA CarriesOn ==
    ASSUME TypeOK, Places, Next, ~excused', NEW g \in Hooks, Carries(g), ~ReplaceBaseline(g)
    PROVE  Carries(g)' /\ Record(g)' = Record(g)
<1>1. CASE Untouched(g)
  BY <1>1 DEF Untouched, Carries, Record
<1>2. CASE WorkerStep(g)
  BY <1>2
  DEF WorkerStep, WorkerTakes, SinkStores, SinkDrops, SinkRaises, WorkerCounts, Carries,
      Record, TypeOK, Emitted
<1>3. CASE CloseJoins(g) \/ WriteTemporary(g)
  BY <1>3
  DEF CloseJoins, WriteTemporary, Carries, Record, TypeOK, Goto, Emitted, sinkVars
<1>4. CASE AskFirst(g)
  BY <1>4
  DEF AskFirst, FirstQuestion, Answer, Carries, Record, TypeOK, Goto, Emitted, sinkVars
<1>5. CASE AskSecond(g)
  <2>1. Kept(g)
    BY <1>5 DEF AskSecond, Kept, Answer, SecondQuestion, FirstQuestion, Carries
  <2> QED
    BY <1>5, <2>1 DEF AskSecond, Carries, Record, TypeOK, Goto, Emitted, locals
<1>6. CASE \/ Scan(g) \/ ReadBaseline(g) \/ NothingToReport(g) \/ Reanchor(g)
           \/ SelectSink(g) \/ EmitUsage(g)
  BY <1>6
  DEF Scan, ReadBaseline, NothingToReport, Reanchor, SelectSink, EmitUsage, Carries, Emitted
<1>7. CASE CloseTimesOut(g) \/ WriteFails(g) \/ Kill(g)
  BY <1>7 DEF CloseTimesOut, WriteFails, Kill
<1> QED
  BY <1>1, <1>2, <1>3, <1>4, <1>5, <1>6, <1>7, SessionUntouched, OthersUntouched
  DEF Next, HookStep

\* The store changes in one way, but for a record that was counted as dropped as well.
LEMMA StoreGrows ==
    ASSUME Next, stored' # stored, ~excused'
    PROVE  \E h \in Hooks : /\ SinkStores(h) /\ choice[h] = "transport"
                            /\ stored' = stored \cup {Record(h)}
  BY DEF Next, Grow, ReplaceTranscript,
      HookStep, WorkerStep, WorkerTakes, SinkStores, SinkDrops, SinkRaises,
      WorkerCounts, Scan, ReadBaseline, NothingToReport, Reanchor, SelectSink, EmitUsage,
      CloseJoins, CloseTimesOut, AskFirst, AskSecond, WriteTemporary,
      WriteFails, ReplaceBaseline, Kill, sinkVars

\* A record starts at the baseline, past all the others, and the baseline is moved
\* past it before the next one starts.
LEMMA OnceStep ==
    ASSUME TypeOK, OneAtATime, Places, Scans, Current, Once, TypeOK', Next
    PROVE  Once'
<1> SUFFICES ASSUME ~Overlap, ~excused', transcript'.gen = 0
             PROVE  /\ \A r \in stored' :
                        r.to <= baseline' \/ \E h \in Hooks : Carries(h)' /\ r = Record(h)'
                    /\ \A r, s \in stored' : r # s => r.to <= s.from \/ s.to <= r.from
  BY DEF Once
<1>1. ~excused /\ transcript.gen = 0 /\ written.gen = 0
  <2>1. transcript.gen \in Nat /\ written.gen \in Nat /\ written.gen <= transcript.gen
    BY BoundsAssumption DEF TypeOK, Scans
  <2>2. transcript'.gen = transcript.gen \/ transcript'.gen = transcript.gen + 1
    BY DEF Next, Grow, ReplaceTranscript,
      HookStep, WorkerStep, WorkerTakes, SinkStores, SinkDrops, SinkRaises,
      WorkerCounts, Scan, ReadBaseline, NothingToReport, Reanchor, SelectSink, EmitUsage,
      CloseJoins, CloseTimesOut, AskFirst, AskSecond, WriteTemporary,
      WriteFails, ReplaceBaseline, Kill, files, TypeOK
  <2> QED
    BY <2>1, <2>2, Lasting
<1>2. /\ \A r \in stored :
            r.to <= baseline \/ \E h \in Hooks : Carries(h) /\ r = Record(h)
      /\ \A r, s \in stored : r # s => r.to <= s.from \/ s.to <= r.from
  BY <1>1 DEF Once
<1>3. /\ baseline \in Nat /\ \A h \in Hooks : scan[h].total \in Nat /\ base[h] \in Nat
      /\ \A r \in stored : r.to \in Nat /\ r.from \in Nat
  BY BoundsAssumption DEF TypeOK
<1>4. CASE stored' # stored
  <2>1. PICK h \in Hooks : /\ SinkStores(h) /\ choice[h] = "transport"
                           /\ stored' = stored \cup {Record(h)}
    BY <1>4, StoreGrows
  <2>2. /\ worker[h] = "sending" /\ pc[h] = "close" /\ ~drops[h] /\ Running(h)
    BY <1>1, <2>1 DEF SinkStores, Places, PlaceOf, Running
  <2>3. \A g \in Hooks : ~Carries(g)
    <3>1. \A g \in Hooks : Carries(g) => Running(g)
      BY DEF Carries, Running, Emitted
    <3>2. ~Carries(h)
      BY <2>2 DEF Carries
    <3> QED
      BY <2>2, <3>1, <3>2 DEF OneAtATime
  <2>4. base[h] = baseline
    BY <1>1, <2>2 DEF Current, AfterRead
  <2>5. baseline' = baseline /\ Record(h)' = Record(h)
    BY <2>1 DEF SinkStores, files, Record
  <2>6. Carries(h)'
    BY <2>1, <2>2 DEF SinkStores, Carries, TypeOK, Emitted
  <2>7. Record(h).from = base[h]
    BY DEF Record
  <2> QED
    BY <1>2, <2>1, <2>3, <2>4, <2>5, <2>6, <2>7
<1>5. CASE stored' = stored /\ \E h \in Hooks : ReplaceBaseline(h)
  <2>1. PICK h \in Hooks : ReplaceBaseline(h)
    BY <1>5
  <2>2. /\ pc[h] = "replace" /\ baseline' = scan[h].total /\ Running(h)
    BY <2>1 DEF ReplaceBaseline, Remember, Running
  <2>3. base[h] = baseline
    BY <1>1, <2>2 DEF Current, AfterRead
  <2>4. scan[h].gen = 0
    BY <1>1, <2>2, BoundsAssumption DEF Scans, TypeOK
  <2>5. baseline <= scan[h].total
    <3>1. CASE Reports(h)
      BY <1>3, <2>3, <3>1 DEF Reports
    <3>2. CASE Reanchors(h)
      BY <1>1, <2>2, <2>4, <3>2 DEF Reanchors, Current
    <3> QED
      BY <2>2, <3>1, <3>2 DEF Places, PlaceOf
  <2>6. \A g \in Hooks : Carries(g) => g = h
    BY <2>2 DEF OneAtATime, Carries, Running, Emitted
  <2>7. Record(h).to = scan[h].total
    BY DEF Record
  <2>8. \A r \in stored : r.to <= scan[h].total
    BY <1>2, <1>3, <2>5, <2>6, <2>7
  <2> QED
    BY <1>2, <1>5, <2>2, <2>8
<1>6. CASE stored' = stored /\ ~\E h \in Hooks : ReplaceBaseline(h)
  <2>1. baseline' = baseline
    BY <1>6, BaselineMoves
  <2>2. \A g \in Hooks : Carries(g) => Carries(g)' /\ Record(g)' = Record(g)
    BY <1>6, CarriesOn
  <2> QED
    BY <1>2, <1>6, <2>1, <2>2
<1> QED
  BY <1>4, <1>5, <1>6

-----------------------------------------------------------------------------
(* The theorems *)

LEMMA Initially == Init => IInv
<1> SUFFICES ASSUME Init PROVE IInv
  OBVIOUS
<1>1. TypeOK
  <2>1. 0 \in 0..MaxTokens /\ 0 \in 0..MaxGeneration
    BY BoundsAssumption
  <2>2. NoScan \in [gen : 0..MaxGeneration, total : 0..MaxTokens, readable : BOOLEAN]
    BY <2>1 DEF NoScan
  <2> QED
    BY <2>1, <2>2 DEF Init, TypeOK
<1>2. \A h \in Hooks : ~Running(h) /\ pc[h] = "out"
  BY DEF Init, Running
<1>3. OneAtATime /\ Places
  BY <1>2 DEF Init, OneAtATime, Places, PlaceOf, KeptIsStored, Emitted
<1>4. Scans /\ Current
  BY <1>2 DEF Init, Scans, Current, AfterRead
<1>5. Lossless /\ Once
  <2>1. Reported(0, 0, 0)
    BY BoundsAssumption DEF Reported
  <2> QED
    BY <1>2, <2>1 DEF Init, Lossless, Once, AfterRead
<1> QED
  BY <1>1, <1>3, <1>4, <1>5 DEF IInv

\* The inductive invariant of the hook.
THEOREM Inductive == Spec => []IInv
<1>1. IInv /\ [Next]_vars => IInv'
  <2> SUFFICES ASSUME IInv, [Next]_vars PROVE IInv'
    OBVIOUS
  <2>1. CASE Next
    BY <2>1, TypeStep, OneAtATimeStep, PlacesStep, ScansStep, CurrentStep, LosslessStep,
       OnceStep DEF IInv
  <2>2. CASE UNCHANGED vars
    <3>1. TypeOK' /\ OneAtATime' /\ Scans' /\ Current'
      BY <2>2 DEF IInv, vars, files, sinkVars, TypeOK, OneAtATime, Running, Scans, Current
    <3>2. Places'
      BY <2>2
      DEF IInv, vars, files, sinkVars, Places, PlaceOf, KeptIsStored, Running, Reports,
          Reanchors, Record
    <3>3. Lossless' /\ Once'
      BY <2>2
      DEF IInv, vars, files, sinkVars, Lossless, Reported, Reporting, Once, Carries, Record
    <3> QED
      BY <3>1, <3>2, <3>3 DEF IInv
  <2> QED
    BY <2>1, <2>2
<1> QED
  BY <1>1, Initially, PTL DEF Spec

\* Of invocations that run one after the other, whatever happens to the transcript,
\* and of invocations that overlap over a transcript that is not replaced: every
\* token the baseline has passed is in a record the transport stored, through kills,
\* failed writes, timeouts, drops and unreadable files.
THEOREM NothingIsLost ==
    ASSUME ~Overlap \/ MaxGeneration = 0
    PROVE  Spec => []NeverLost
<1>1. IInv => NeverLost
  BY DEF IInv, Lossless, NeverLost, Reported
<1> QED
  BY <1>1, Inductive, PTL

\* Of invocations that run one after the other: where no documented cause has
\* occurred, no token of the transcript is reported by two records.
THEOREM NothingIsReportedTwice ==
    ASSUME ~Overlap
    PROVE  Spec => []ReportedOnce
<1>1. IInv => ReportedOnce
  <2> SUFFICES ASSUME IInv, ~excused, transcript.gen = 0, NEW t \in 1..MaxTokens
               PROVE  Cardinality(Reporting(0, t)) <= 1
    BY DEF ReportedOnce
  <2>1. \A r, s \in Reporting(0, t) : r = s
    <3>1. \A r \in stored : r.from \in Nat /\ r.to \in Nat
      BY BoundsAssumption DEF IInv, TypeOK
    <3> QED
      BY <3>1, BoundsAssumption DEF IInv, Once, Reporting
  <2>2. CASE Reporting(0, t) = {}
    BY <2>2, FS_EmptySet
  <2>3. CASE Reporting(0, t) # {}
    <3>1. PICK r : Reporting(0, t) = {r}
      BY <2>1, <2>3
    <3>2. Cardinality({r}) = 1
      BY FS_Singleton
    <3> QED
      BY <3>1, <3>2
  <2> QED
    BY <2>2, <2>3
<1> QED
  BY <1>1, Inductive, PTL

\* Of invocations that run one after the other: while the baseline file can be read,
\* the baseline moves backwards only for a whole transcript of another file.
THEOREM BaselineIsNotRewound ==
    ASSUME ~Overlap
    PROVE  Spec => BaselineRewoundOnlyByReplacement
<1>1. IInv /\ [Next]_vars =>
        [baseline' < baseline =>
            \E h \in Hooks :
                /\ pc[h] = "replace"
                /\ \/ base[h] # baseline
                   \/ scan[h].readable /\ scan[h].gen # written.gen]_vars
  <2> SUFFICES ASSUME IInv, Next, baseline' < baseline
               PROVE  \E h \in Hooks :
                        /\ pc[h] = "replace"
                        /\ \/ base[h] # baseline
                           \/ scan[h].readable /\ scan[h].gen # written.gen
    OBVIOUS
  <2>1. baseline \in Nat /\ \A h \in Hooks : scan[h].total \in Nat /\ base[h] \in Nat
    BY BoundsAssumption DEF IInv, TypeOK
  <2>2. PICK h \in Hooks : ReplaceBaseline(h)
    <3>1. baseline' # baseline
      BY <2>1
    <3> QED
      BY <3>1, BaselineMoves DEF IInv
  <2>3. pc[h] = "replace" /\ baseline' = scan[h].total /\ Running(h)
    BY <2>2 DEF ReplaceBaseline, Remember, Running
  <2>4. Reanchors(h) \/ Reports(h)
    BY <2>3 DEF IInv, Places, PlaceOf
  <2>5. ASSUME base[h] = baseline
        PROVE  scan[h].readable /\ scan[h].gen # written.gen
    <3>1. Reanchors(h)
      BY <2>1, <2>3, <2>4, <2>5 DEF Reports
    <3> QED
      BY <2>1, <2>3, <2>5, <3>1 DEF Reanchors, IInv, Current
  <2> QED
    BY <2>3, <2>5
<1> QED
  BY <1>1, Inductive, PTL DEF BaselineRewoundOnlyByReplacement, Spec
=============================================================================
