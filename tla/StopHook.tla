------------------------------ MODULE StopHook ------------------------------
(***************************************************************************)
(* The Claude Code Stop hook of src/src/tokenweir/claude_code.py: each     *)
(* invocation is a process that adds up a transcript, subtracts the        *)
(* baseline remembered from earlier invocations, emits one record through  *)
(* a BufferedEmitter, and advances the baseline only if the record was     *)
(* kept.                                                                   *)
(*                                                                         *)
(* A transcript is a generation (the file at the path may be replaced) and *)
(* a number of tokens, numbered 1..total; a record reports the tokens      *)
(* after `from` up to `to`.  The four token fields of the code move        *)
(* together here.  The transport is external and truthful: it stores a     *)
(* record or counts it as dropped, and both when the answer to its commit  *)
(* is lost.  The host may kill an invocation at any step.                  *)
(***************************************************************************)
EXTENDS Integers, FiniteSets

CONSTANTS
    Hooks,          \* the invocations
    Overlap,        \* whether invocations may run at the same time
    MaxTokens,      \* bound on the tokens of a transcript
    MaxGeneration   \* bound on the replacements of the transcript

\* The bounds are numbers.
ASSUME BoundsAssumption ==
    MaxTokens \in Nat /\ MaxGeneration \in Nat /\ Overlap \in BOOLEAN

VARIABLES
    transcript,     \* [gen, total]: the file at transcript_path
    baseline,       \* the number in the baseline file; 0 when absent
    configured,     \* whether the environment names a transport
    stored,         \* the records the transport stored
    \* locals of each invocation
    pc,
    scan,           \* [gen, total, readable]: what scan_transcript returned
    base,           \* what read_baseline returned
    choice,         \* the sink: "transport", "degraded" or "none"
    worker,         \* the emitter's worker and the one record it carries
    delivered,      \* EmitterStats.delivered
    drops,          \* the transport's drop counter
    kept,
    \* history
    written,        \* [gen, anchor]: which file the baseline describes, and the
                    \* tokens of it that a transition absorbed
    excused         \* a documented cause of a re-report has occurred

files == <<transcript, baseline, configured, written>>
sinkVars == <<stored, choice, worker, delivered, drops>>
locals == <<scan, base, choice, worker, delivered, drops, kept>>
vars == <<files, sinkVars, pc, scan, base, kept, excused>>

NoScan == [gen |-> 0, total |-> 0, readable |-> FALSE]

Running(h) == pc[h] \notin {"out", "exit"}

Init ==
    /\ transcript = [gen |-> 0, total |-> 0]
    /\ baseline = 0
    /\ configured \in BOOLEAN
    /\ stored = {}
    /\ pc = [h \in Hooks |-> "out"]
    /\ scan = [h \in Hooks |-> NoScan]
    /\ base = [h \in Hooks |-> 0]
    /\ choice = [h \in Hooks |-> "none"]
    /\ worker = [h \in Hooks |-> "none"]
    /\ delivered = [h \in Hooks |-> FALSE]
    /\ drops = [h \in Hooks |-> FALSE]
    /\ kept = [h \in Hooks |-> FALSE]
    /\ written = [gen |-> 0, anchor |-> 0]
    /\ excused = FALSE

Goto(h, l) == pc' = [pc EXCEPT ![h] = l]

\* The process ends; its daemon worker and its variables end with it.
Ends(h) ==
    /\ Goto(h, "exit")
    /\ worker' = [worker EXCEPT ![h] = "gone"]
    /\ scan' = [scan EXCEPT ![h] = NoScan]
    /\ base' = [base EXCEPT ![h] = 0]
    /\ choice' = [choice EXCEPT ![h] = "none"]
    /\ delivered' = [delivered EXCEPT ![h] = FALSE]
    /\ drops' = [drops EXCEPT ![h] = FALSE]
    /\ kept' = [kept EXCEPT ![h] = FALSE]

-----------------------------------------------------------------------------
(* The session, outside the hook *)

Grow ==
    /\ transcript.total < MaxTokens
    /\ transcript' = [transcript EXCEPT !.total = @ + 1]
    /\ UNCHANGED <<baseline, configured, written, sinkVars, pc, scan, base, kept,
                   excused>>

\* Another file appears at the path, with any content.
ReplaceTranscript ==
    /\ transcript.gen < MaxGeneration
    /\ \E n \in 0..MaxTokens :
        transcript' = [gen |-> transcript.gen + 1, total |-> n]
    /\ UNCHANGED <<baseline, configured, written, sinkVars, pc, scan, base, kept,
                   excused>>

-----------------------------------------------------------------------------
(* run: the delta *)

\* The whole file, or what was read of it before an error.
Scan(h) ==
    /\ pc[h] = "out"
    /\ Overlap \/ \A g \in Hooks : ~Running(g)
    /\ \/ scan' = [scan EXCEPT ![h] = [gen |-> transcript.gen,
                                       total |-> transcript.total,
                                       readable |-> TRUE]]
       \/ \E n \in 0..transcript.total :
            scan' = [scan EXCEPT ![h] = [gen |-> transcript.gen,
                                         total |-> n,
                                         readable |-> FALSE]]
    /\ Goto(h, "scanned")
    /\ UNCHANGED <<files, sinkVars, base, kept, excused>>

\* The baseline, or 0 when the file cannot be read.
ReadBaseline(h) ==
    /\ pc[h] = "scanned"
    /\ \/ base' = [base EXCEPT ![h] = baseline] /\ UNCHANGED excused
       \/ base' = [base EXCEPT ![h] = 0] /\ excused' = TRUE
    /\ Goto(h, "delta")
    /\ UNCHANGED <<files, sinkVars, scan, kept>>

\* turn_delta is None for a transcript that was read to its end.
Reanchors(h) == scan[h].total < base[h] /\ scan[h].readable

Reports(h) == scan[h].total > base[h]

\* Nothing to do: no new tokens, or a transcript that could not be read.
NothingToReport(h) ==
    /\ pc[h] = "delta"
    /\ ~Reanchors(h) /\ ~Reports(h)
    /\ Ends(h)
    /\ UNCHANGED <<files, stored, excused>>

Reanchor(h) ==
    /\ pc[h] = "delta"
    /\ Reanchors(h)
    /\ Goto(h, "write")
    /\ UNCHANGED <<files, sinkVars, scan, base, kept, excused>>

-----------------------------------------------------------------------------
(* run: select_sink, emit_usage, the emitter *)

\* Mutant: the record carries the cumulative totals, not the turn's.
CumulativeRecord(h) == [gen |-> scan[h].gen, from |-> 0, to |-> scan[h].total, by |-> h]

\* The record of the invocation: the tokens since the baseline.
Record(h) == [gen |-> scan[h].gen, from |-> base[h], to |-> scan[h].total, by |-> h]

\* A configured transport may fail to be constructed.
SelectSink(h) ==
    /\ pc[h] = "delta"
    /\ Reports(h)
    /\ \E c \in IF configured THEN {"transport", "degraded"} ELSE {"none"} :
        choice' = [choice EXCEPT ![h] = c]
    /\ Goto(h, "emit")
    /\ UNCHANGED <<files, stored, worker, delivered, drops, scan, base, kept, excused>>

\* emit_usage: the record goes into the emitter, or build_record refuses it.
EmitUsage(h) ==
    /\ pc[h] = "emit"
    /\ \/ /\ worker' = [worker EXCEPT ![h] = "buffered"]
          /\ Goto(h, "close")
          /\ UNCHANGED <<choice, delivered, drops, scan, base, kept>>
       \/ Ends(h)
    /\ UNCHANGED <<files, stored, excused>>

WorkerTakes(h) ==
    /\ worker[h] = "buffered"
    /\ worker' = [worker EXCEPT ![h] = "sending"]
    /\ UNCHANGED <<files, stored, choice, delivered, drops, pc, scan, base, kept, excused>>

\* The sink takes the record.  Only a real transport stores it.
SinkStores(h) ==
    /\ worker[h] = "sending"
    /\ stored' = IF choice[h] = "transport" THEN stored \cup {Record(h)} ELSE stored
    /\ worker' = [worker EXCEPT ![h] = "returned"]
    /\ UNCHANGED <<files, choice, delivered, drops, pc, scan, base, kept, excused>>

\* A conforming transport counts the loss, then returns as if nothing happened.  When it
\* was the answer that was lost, the record is stored all the same.
SinkDrops(h) ==
    /\ worker[h] = "sending"
    /\ choice[h] = "transport"
    /\ \/ UNCHANGED <<stored, excused>>
       \/ stored' = stored \cup {Record(h)} /\ excused' = TRUE
    /\ drops' = [drops EXCEPT ![h] = TRUE]
    /\ worker' = [worker EXCEPT ![h] = "returned"]
    /\ UNCHANGED <<files, choice, delivered, pc, scan, base, kept>>

SinkRaises(h) ==
    /\ worker[h] = "sending"
    /\ choice[h] = "transport"
    /\ worker' = [worker EXCEPT ![h] = "done"]
    /\ UNCHANGED <<files, stored, choice, delivered, drops, pc, scan, base, kept, excused>>

WorkerCounts(h) ==
    /\ worker[h] = "returned"
    /\ delivered' = [delivered EXCEPT ![h] = TRUE]
    /\ worker' = [worker EXCEPT ![h] = "done"]
    /\ UNCHANGED <<files, stored, choice, drops, pc, scan, base, kept, excused>>

CloseJoins(h) ==
    /\ pc[h] = "close"
    /\ worker[h] = "done"
    /\ Goto(h, "ask1")
    /\ UNCHANGED <<files, sinkVars, scan, base, kept, excused>>

\* close() abandons what the worker has not taken; the worker may still be
\* inside the sink.
CloseTimesOut(h) ==
    /\ pc[h] = "close"
    /\ worker[h] # "done"
    /\ worker' = [worker EXCEPT ![h] = IF @ = "buffered" THEN "done" ELSE @]
    /\ excused' = TRUE
    /\ Goto(h, "ask1")
    /\ UNCHANGED <<files, stored, choice, delivered, drops, scan, base, kept>>

-----------------------------------------------------------------------------
(* run: was the record kept? *)

\* Mutant: the drop counter is read before the emitter's counters.
DropsFirst == "drops"

\* run() reads the emitter's counters before the transport's.
FirstQuestion == "delivered"
SecondQuestion == IF FirstQuestion = "delivered" THEN "drops" ELSE "delivered"

Answer(h, question) ==
    IF question = "delivered" THEN delivered[h] ELSE ~drops[h]

AskFirst(h) ==
    /\ pc[h] = "ask1"
    /\ kept' = [kept EXCEPT ![h] = Answer(h, FirstQuestion)]
    /\ Goto(h, "ask2")
    /\ UNCHANGED <<files, sinkVars, scan, base, excused>>

\* Mutant: a degraded transport counts as an unconfigured one.
KeptByStandIn(h) == kept[h] /\ Answer(h, SecondQuestion)

Kept(h) == kept[h] /\ Answer(h, SecondQuestion) /\ choice[h] # "degraded"

AskSecond(h) ==
    /\ pc[h] = "ask2"
    /\ IF Kept(h) THEN Goto(h, "write") /\ UNCHANGED locals ELSE Ends(h)
    /\ UNCHANGED <<files, stored, excused>>

-----------------------------------------------------------------------------
(* write_baseline *)

\* Mutant: the baseline is written in place, and truncated first.
TruncateInPlace == baseline' = 0

\* The temporary file leaves the baseline alone.
WriteAside == UNCHANGED baseline

WriteTemporary(h) ==
    /\ pc[h] = "write"
    /\ WriteAside
    /\ Goto(h, "replace")
    /\ UNCHANGED <<transcript, configured, written, sinkVars, scan, base, kept, excused>>

WriteFails(h) ==
    /\ pc[h] \in {"write", "replace"}
    /\ excused' = TRUE
    /\ Ends(h)
    /\ UNCHANGED <<files, stored>>

Remember(h) == scan[h].total

\* os.replace.
ReplaceBaseline(h) ==
    /\ pc[h] = "replace"
    /\ baseline' = Remember(h)
    /\ written' =
        IF scan[h].gen = written.gen
        THEN written
        ELSE [gen |-> scan[h].gen,
              anchor |-> IF Reports(h) THEN base[h] ELSE scan[h].total]
    /\ Ends(h)
    /\ UNCHANGED <<transcript, configured, stored, excused>>

\* The host's hook timeout.
Kill(h) ==
    /\ Running(h)
    /\ excused' = TRUE
    /\ Ends(h)
    /\ UNCHANGED <<files, stored>>

-----------------------------------------------------------------------------

HookStep(h) ==
    \/ Scan(h) \/ ReadBaseline(h) \/ NothingToReport(h) \/ Reanchor(h)
    \/ SelectSink(h) \/ EmitUsage(h)
    \/ CloseJoins(h) \/ CloseTimesOut(h) \/ AskFirst(h) \/ AskSecond(h)
    \/ WriteTemporary(h) \/ WriteFails(h) \/ ReplaceBaseline(h)
    \/ Kill(h)

WorkerStep(h) ==
    WorkerTakes(h) \/ SinkStores(h) \/ SinkDrops(h) \/ SinkRaises(h) \/ WorkerCounts(h)

Next ==
    \/ Grow \/ ReplaceTranscript
    \/ \E h \in Hooks : HookStep(h) \/ WorkerStep(h)

Spec == Init /\ [][Next]_vars

-----------------------------------------------------------------------------
(* Properties *)

\* Every variable has its type.
TypeOK ==
    /\ transcript \in [gen : 0..MaxGeneration, total : 0..MaxTokens]
    /\ baseline \in 0..MaxTokens
    /\ configured \in BOOLEAN
    /\ stored \subseteq [gen : 0..MaxGeneration, from : 0..MaxTokens,
                         to : 0..MaxTokens, by : Hooks]
    /\ pc \in [Hooks -> {"out", "scanned", "delta", "emit", "close", "ask1", "ask2",
                         "write", "replace", "exit"}]
    /\ scan \in [Hooks -> [gen : 0..MaxGeneration, total : 0..MaxTokens,
                           readable : BOOLEAN]]
    /\ base \in [Hooks -> 0..MaxTokens]
    /\ choice \in [Hooks -> {"transport", "degraded", "none"}]
    /\ worker \in [Hooks -> {"none", "buffered", "sending", "returned", "done", "gone"}]
    /\ delivered \in [Hooks -> BOOLEAN] /\ drops \in [Hooks -> BOOLEAN]
    /\ kept \in [Hooks -> BOOLEAN]
    /\ written \in [gen : 0..MaxGeneration, anchor : 0..MaxTokens]
    /\ excused \in BOOLEAN

\* The records that report token t of generation g.
Reporting(g, t) == {r \in stored : r.gen = g /\ r.from < t /\ t <= r.to}

\* Every variable has its type, and no token is lost: every token the baseline has
\* passed, but for those a transition to another file absorbed, is in a record the
\* transport stored.  Kills, failed writes, timeouts, drops and unreadable files may
\* delay a token or report it twice, and never lose it; nor do overlapping invocations
\* over a transcript that is not replaced meanwhile.
NeverLost ==
    /\ TypeOK
    /\ configured =>
        \A t \in 1..MaxTokens :
            (written.anchor < t /\ t <= baseline) => Reporting(written.gen, t) # {}

\* Apart from the documented causes (a kill, a baseline that could not be read or
\* written, a close() that timed out), from a record that was stored though the transport
\* counted it as dropped, and from a replaced file, no token is reported by two records.
ReportedOnce ==
    (~excused /\ transcript.gen = 0) =>
        \A t \in 1..MaxTokens : Cardinality(Reporting(0, t)) <= 1

\* While the baseline file can be read, the baseline moves backwards only when a
\* whole transcript was read and it is not the file the baseline describes: a kill
\* in the middle of the write, or a transcript that could not be read to its end,
\* never rewinds it (FR-014, FR-016).
BaselineRewoundOnlyByReplacement ==
    [][baseline' < baseline =>
        \E h \in Hooks :
            /\ pc[h] = "replace"
            /\ \/ base[h] # baseline
               \/ scan[h].readable /\ scan[h].gen # written.gen]_vars
=============================================================================
