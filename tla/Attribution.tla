---------------------------- MODULE Attribution ----------------------------
(***************************************************************************)
(* A turn's attribution, from the orchestrator to the record a consumer    *)
(* reads: attribution_env (orchestrator.py) exports the block, a Claude    *)
(* Code session inherits it, the Stop hook (claude_code.py) reads it onto  *)
(* a record and emits it through the guarded seam (sink.py), and a         *)
(* consumer rebuilds the record from the wire (contract.py).  Records of   *)
(* an application that calls the seam itself, and messages of a producer   *)
(* that is not this library, reach the same seam and the same reader.      *)
(***************************************************************************)
EXTENDS Taxonomy, FiniteSets

CONSTANTS
    MaxIterations,  \* bound on the orchestrator's iterations
    MaxTokens       \* bound on the length of the texts made of any tokens

ASSUME BoundsAssumption == MaxIterations \in Nat /\ MaxTokens \in Nat

ATTRIBUTION_ENV == {"MADO_ISSUE_KEY", "MADO_PHASE", "MADO_STREAM_ID", "MADO_PRICING_MODE"}

VARIABLES
    producer,   \* who makes this behaviour's records
    env,        \* the orchestrator's own environment, which its sessions inherit
    iteration,
    refused,    \* history: the inputs attribution_env raised on
    sessions,   \* the sessions whose Stop hook has yet to run: environment and intent
    emitted,    \* what emit_usage was called for: intent, what the sink took, the answer
    read        \* the messages the consumer read: what was sent, what it got

vars == <<producer, env, iteration, refused, sessions, emitted, read>>

Producers == {"orchestrator", "person", "application", "elsewhere"}

\* Unset, and set to a blank, to a blank that str.strip() does not know, or to a name.
AppIds == {<<>>, <<" ", "NEL">>, <<"BOM">>, <<"app">>}

Init ==
    /\ producer \in Producers
    /\ \E id \in IF producer = "person" THEN AppIds ELSE {<<>>} :
        env = [v \in ATTRIBUTION_ENV \cup {"TOKENWEIR_APP_ID"} |->
                    IF v = "TOKENWEIR_APP_ID" THEN id ELSE <<>>]
    /\ iteration = 0
    /\ refused = {}
    /\ sessions = {}
    /\ emitted = {}
    /\ read = {}

-----------------------------------------------------------------------------
\* The orchestrator's end.

\* PhaseKind.coerce
KindOf(v) ==
    IF Is("member", v) THEN {v[2]}
    ELSE IF Is("str", v) /\ IsKind(Lower(Collapse(Text(v))))
    THEN {KindByWord(Lower(Collapse(Text(v))))}
    ELSE {}

PhaseLabel(kind, occurrence) ==
    CASE occurrence = None -> {<<k>> : k \in KindOf(kind)}
      [] Is("int", occurrence) /\ occurrence[2] >= 1 ->
            {LabelOf(k, occurrence[2]) : k \in KindOf(kind)}
      [] OTHER -> {}

\* Mutants of the producer's end.
BlankByStrip(v) ==
    CASE v = None -> {<<>>}
      [] Is("str", v) /\ Strip(Text(v)) # <<>> -> {Strip(Text(v))}
      [] OTHER -> {}
OnlyWhatIsKnown(issue, phase, stream, mode) ==
    LET block == [MADO_ISSUE_KEY |-> issue, MADO_PHASE |-> phase,
                  MADO_STREAM_ID |-> stream, MADO_PRICING_MODE |-> mode]
    IN  Restrict(block, {v \in DOMAIN block : block[v] # <<>>})

\* What is exported for an issue key or a stream id.
RequiredText(v) ==
    CASE v = None -> {<<>>}
      [] Is("str", v) /\ ~IsBlank(Text(v)) -> {Strip(Text(v))}
      [] OTHER -> {}

PhaseText(v) ==
    CASE v = None -> {<<>>}
      [] Is("member", v) -> {<<v[2]>>}
      [] Is("label", v) -> PhaseLabel(v[2], v[3])
      [] /\ Is("str", v) /\ Collapse(Text(v)) # <<>>
         /\ ~ParsePhase(Lower(Collapse(Text(v)))).bad_occurrence -> {NormalizePhase(Text(v))}
      [] OTHER -> {}

ModeText(v) ==
    IF ~Coercible(v) THEN {} ELSE {IF v = None THEN <<>> ELSE <<v[2]>>}

\* All four variables, in every block.
Block(issue, phase, stream, mode) ==
    [MADO_ISSUE_KEY |-> issue, MADO_PHASE |-> phase,
     MADO_STREAM_ID |-> stream, MADO_PRICING_MODE |-> mode]

AttributionEnv(input) ==
    {Block(i, p, s, m) : i \in RequiredText(input.issue_key), p \in PhaseText(input.phase),
                         s \in RequiredText(input.stream_id), m \in ModeText(input.pricing_mode)}

-----------------------------------------------------------------------------
\* The hook's end.

\* _env: unset and blank alike are None.
Env(e, name) == IF Strip(e[name]) = <<>> THEN None ELSE Str(Strip(e[name]))

\* Mutant: an unknown mode is handed to the record as it is.
ModeAsGiven(e) ==
    LET declared == Env(e, "MADO_PRICING_MODE")
    IN  IF declared = None THEN Member("subscription") ELSE declared

ModeFromEnv(e) ==
    LET declared == Env(e, "MADO_PRICING_MODE")
    IN  IF declared # None /\ Coercible(declared) THEN Coerce(declared) ELSE Member("subscription")

PhaseFromEnv(e) ==
    LET written == Env(e, "MADO_PHASE")
        phase == NormalizePhase(Text(written))
    IN  IF written = None \/ phase = <<>> THEN None ELSE Str(phase)

BuildFields(e) ==
    LET id == Env(e, "TOKENWEIR_APP_ID")
    IN  [request_id |-> Str(<<"message">>),
         app_id |-> IF id = None THEN Str(<<"claude-code">>) ELSE id,
         input_tokens |-> Num(1),
         workload |-> Env(e, "MADO_ISSUE_KEY"),
         queue |-> PhaseFromEnv(e),
         parent_request_id |-> Env(e, "MADO_STREAM_ID"),
         pricing_mode |-> ModeFromEnv(e)]

-----------------------------------------------------------------------------
\* The seam.  Fields come as a mapping, or as something else.
BuildRecord(fields, overrides) ==
    IF fields.mapping THEN UsageRecord(Over(overrides, fields.data)) ELSE {}

\* What the sink is handed, and what the caller is answered.  An object that is not a
\* record is refused before the sink sees it.
EmitRecord(object, raises) ==
    IF object = {} THEN [sink |-> {}, answer |-> {}]
    ELSE [sink |-> object, answer |-> IF raises THEN {} ELSE object]
EmitUsage(fields, overrides, raises) == EmitRecord(BuildRecord(fields, overrides), raises)

-----------------------------------------------------------------------------
\* What the actors may write.  An input differs from an ordinary one in one value.
Ordinary == [issue_key |-> Str(<<"KEY">>), phase |-> Str(<<"fix", "-", "2">>),
             stream_id |-> Str(<<"STREAM">>), pricing_mode |-> Member("subscription")]
Texts == {None, Str(<<"KEY", " ", "2">>), Str(<<" ", "KEY">>), Str(<<" ">>), Str(<<>>),
          Str(<<"BOM">>), Str(<<"NEL">>), Str(<<"BOM", "KEY">>), Num(5)}
Labels == {Member("fix"), Str(<<"bug", " ", "fix">>), Str(<<"deploy">>), None} \X
          {None, Num(0), Num(1), Num(11), Num(-1), <<"bool", 1>>, Float(2, 1)}
PhaseArguments ==
    {None, Member("review"), Num(2)} \cup {Str(s) : s \in
        {<<"REVIEW", "_", "1">>, <<"1", "st", " ", "review">>, <<"review", "-", "01">>,
         <<"bug", "-", "fix">>, <<"review", "-", "0">>, <<"0", "th", " ", "fix">>, <<"_">>,
         <<" ">>, <<>>, <<"NEL">>, <<"BOM">>, <<"deploy", "_", "2">>, <<"review", " ", "-", "3">>,
         <<"11", "st", " ", "fix">>}}
    \cup {<<"label", l[1], l[2]>> : l \in Labels}    \* phase_label(l[1], l[2])
ModeArguments == {None, Member("api_metered"), Str(<<"api_metered">>), Str(<<"gold">>), Num(1)}

Inputs ==
    {[Ordinary EXCEPT !.issue_key = v] : v \in Texts}
    \cup {[Ordinary EXCEPT !.stream_id = v] : v \in Texts}
    \cup {[Ordinary EXCEPT !.phase = v] : v \in PhaseArguments}
    \cup {[Ordinary EXCEPT !.pricing_mode = v] : v \in ModeArguments}

\* The phases a person writes: every short text of these tokens, and every way of
\* writing a phase.
Tokens == {"review", "REVIEW", "fix", "bug", "deploy", "0", "1", "01", "11", "st", "th",
           " ", "_", "-"}
Spellings ==
    {s \in BoundedSeq(Tokens, MaxTokens) : Sane(s)}
    \cup UNION {Examples(p[1], p[2]) : p \in Phases}
TypedModes == {<<>>, <<" ">>, <<"api_metered">>, <<" ", "api_metered">>, <<"gold">>}
WithPhase(s) == [Ordinary EXCEPT !.phase = Str(s), !.pricing_mode = Str(<<"subscription">>)]
WithKey(v, m) == [Ordinary EXCEPT !.issue_key = v, !.pricing_mode = Str(m)]
TypedKeys == {v \in Texts : Is("str", v)}
Typed ==
    {WithPhase(s) : s \in Spellings} \cup {WithKey(v, m) : v \in TypedKeys, m \in TypedModes}

\* The phase a value names, by the reference.
Asked(v) ==
    CASE Is("member", v) -> {<<v[2], -1>>}
      [] Is("str", v) -> Says(Text(v))
      [] Is("label", v) -> {<<"fix", IF v[3] = None THEN -1 ELSE v[3][2]>>}
      [] OTHER -> {}

\* Fields and documents that differ from ordinary ones in at most two keys.
Base == Over([request_id |-> Str(<<"message">>), app_id |-> Str(<<"claude-code">>)], Defaults)
Keys == {"request_id", "app_id", "workload", "input_tokens", "latency_ms", "pricing_mode",
         "schema_version", "sink"}
Values == {None, Str(<<"subscription">>), Str(<<" ">>), Str(<<"BOM">>), Str(<<>>), Num(0), Num(1),
           Num(2), Num(-1), Float(1, 1), Float(3, 2), <<"bool", 1>>, <<"list">>}
Absent == <<"absent">>
Altered(d, k, v) ==
    IF v = Absent THEN Restrict(d, DOMAIN d \ {k}) ELSE Over([f \in {k} |-> v], d)
Documents ==
    UNION {{Altered(Altered(Base, k, v), l, w) : v, w \in Values \cup {Absent}} : k, l \in Keys}

-----------------------------------------------------------------------------
\* One iteration: the block, and the session started in it.  An input that attribution_env,
\* or the phase_label call in it, raises on exports nothing and starts nothing.
Iterate ==
    /\ producer = "orchestrator"
    /\ iteration < MaxIterations
    /\ iteration' = iteration + 1
    /\ \E input \in Inputs :
        \/ /\ AttributionEnv(input) = {}
           /\ refused' = refused \cup {input}
           /\ UNCHANGED <<env, sessions>>
        \/ \E block \in AttributionEnv(input) :
            /\ env' = Over(block, env)
            /\ sessions' = sessions \cup {[env |-> env', input |-> input]}
            /\ UNCHANGED refused
    /\ UNCHANGED <<producer, emitted, read>>

\* A person stamps the environment by hand, whatever the producer would have said.
Stamp ==
    /\ producer = "person"
    /\ iteration = 0
    /\ iteration' = 1
    /\ \E input \in Typed :
        /\ env' = Over(Block(Text(input.issue_key), Text(input.phase), Text(input.stream_id),
                             Text(input.pricing_mode)), env)
        /\ sessions' = {[env |-> env', input |-> input]}
    /\ UNCHANGED <<producer, refused, emitted, read>>

\* A call of emit_usage, on behalf of the sessions in by.
Call(by, fields, overrides, raises) ==
    LET out == EmitUsage(fields, overrides, raises)
    IN  [by |-> by, raised |-> raises, sink |-> out.sink, answer |-> out.answer]

\* The Stop hook of a session, which may come after the next iteration has begun.
Hook(s, raises) ==
    /\ s \in sessions
    /\ sessions' = sessions \ {s}
    /\ LET fields == [mapping |-> TRUE, data |-> BuildFields(s.env)]
       IN  emitted' = emitted \cup {Call({s}, fields, <<>>, raises)}
    /\ UNCHANGED <<producer, env, iteration, refused, read>>

\* An application stamps a value it learned late over the fields it had.
ApplicationCalls ==
    /\ producer = "application"
    /\ emitted = {}
    /\ \E mapping, raises \in BOOLEAN, d \in Documents,
          overrides \in {<<>>, [latency_ms |-> Num(1)], [pricing_mode |-> Member("subscription")]} :
        emitted' = {Call({}, [mapping |-> mapping, data |-> d], overrides, raises)}
    /\ UNCHANGED <<producer, env, iteration, refused, sessions, read>>

Reads(message, from) ==
    /\ read' = read \cup {[message |-> message, from |-> from, got |-> FromJson(message)]}
    /\ UNCHANGED <<producer, env, iteration, refused, sessions, emitted>>

\* A consumer reads a record this library put on the wire, or a message of another's.
Consume ==
    \E e \in emitted :
        /\ e.answer # {}
        /\ Reads([object |-> TRUE, data |-> ToDict(CHOOSE r \in e.answer : TRUE)], e.answer)
ConsumeForeign ==
    /\ producer = "elsewhere"
    /\ read = {}
    /\ \E object \in BOOLEAN, d \in Documents : Reads([object |-> object, data |-> d], {})

Next ==
    \/ Iterate
    \/ Stamp
    \/ \E s \in sessions, raises \in BOOLEAN : Hook(s, raises)
    \/ ApplicationCalls
    \/ Consume
    \/ ConsumeForeign

Spec == Init /\ [][Next]_vars

-----------------------------------------------------------------------------
Sent == UNION {e.sink : e \in emitted}

\* Type correctness: what the sink holds is a record the constructor makes.
TypeOK ==
    /\ producer \in Producers
    /\ iteration \in 0..MaxIterations \cup {1}
    /\ \A s \in sessions : DOMAIN s.env = DOMAIN env
    /\ \A e \in emitted : e.answer \subseteq e.sink
    /\ \A r \in Sent : DOMAIN r = Fields /\ \A f \in Fields : Valid(f, r[f])

-----------------------------------------------------------------------------
\* The safety properties.

\* The queue of a record, for the phase that was written or asked for.
InItsLane(phase, queue) ==
    LET asked == {p \in Asked(phase) : p[2] # 0}
        nothing == phase = None \/ Collapse(Text(phase)) = <<>>
    IN  /\ asked # {} => \E p \in asked : queue = Str(LabelOf(p[1], p[2]))
        /\ asked = {} /\ nothing => queue = None
        /\ asked = {} /\ ~nothing =>
                queue = Str(Collapse(Text(phase))) /\ ~IsCanonical(Text(queue))

\* A phase is one lane whatever its spelling, and no other text gets into the lane: a
\* record is given the label of a phase exactly when what was written, or asked for,
\* names that phase.  A text that names none, or an occurrence that cannot be, is kept
\* up to its separators and is never taken for a label (orchestrator.py, normalize_phase;
\* claude_code.py, attribution_from_env).
OneLanePerPhase ==
    \A e \in emitted : \A s \in e.by, r \in e.sink :
        InItsLane(s.input.phase, r.queue)

\* The two ends of the contract are one reading of a phase: what a person may write is
\* either refused by the producer, when it is empty or its occurrence cannot be, or
\* exported as something that the hook reads as it would have read the original.
SameAtBothEnds ==
    \A s \in sessions :
        LET written == s.input.phase
            exported == PhaseText(written)
        IN  producer = "person" =>
                IF exported = {}
                THEN \/ \A i \in DOMAIN Text(written) : Text(written)[i] \in Separators
                     \/ \E p \in Asked(written) : p[2] = 0
                ELSE \A t \in exported :
                        /\ PhaseFromEnv(s.env) # None
                        /\ PhaseFromEnv([s.env EXCEPT !["MADO_PHASE"] = t]) = PhaseFromEnv(s.env)

\* A phase is one lane, from whoever writes it to the record, through both ends.
PhaseIsOneLane == OneLanePerPhase /\ SameAtBothEnds

\* A record carries the attribution of the iteration that started its session, and
\* nothing an earlier iteration left behind: what the iteration did not know is unknown
\* on the record (orchestrator.py, attribution_env: all four variables, every call).
AttributedToItsIteration ==
    \A e \in emitted : \A s \in e.by, r \in e.sink :
        producer = "orchestrator" =>
            LET meant(v) == IF v = None THEN None ELSE Str(Strip(Text(v)))
                mode == s.input.pricing_mode
            IN  /\ r.workload = meant(s.input.issue_key)
                /\ r.parent_request_id = meant(s.input.stream_id)
                /\ r.queue = None <=> s.input.phase = None
                /\ r.pricing_mode = Member(IF mode = None THEN "subscription" ELSE mode[2])

\* The producer hears of every value that is given and unusable, and only of those: a
\* value of another type, a text with nothing to see in it for Python or for the schema,
\* a phase with no words or with an impossible occurrence, a mode that is none.
Usable(input) ==
    LET text(v) == v = None \/ (Is("str", v) /\ \E i \in DOMAIN Text(v) : Text(v)[i] \notin Blanks)
        phase == input.phase
    IN  /\ text(input.issue_key) /\ text(input.stream_id)
        /\ \A p \in Asked(phase) : p[2] # 0
        /\ CASE Is("str", phase) -> \E i \in DOMAIN Text(phase) :
                                        Text(phase)[i] \notin Separators
             [] Is("label", phase) -> /\ phase[2] \in {Member("fix"), Str(<<"bug", " ", "fix">>)}
                                      /\ phase[3] \in {None, Num(1), Num(11)}
             [] OTHER -> phase = None \/ Is("member", phase)
        /\ input.pricing_mode \in {None, Member("subscription"), Member("api_metered"),
                                   Str(<<"api_metered">>)}
RefusedIffUnusable ==
    producer = "orchestrator" =>
        /\ \A input \in refused : ~Usable(input)
        /\ \A s \in sessions : Usable(s.input)

\* A blank that str.strip() leaves: text for the hook, blank for the contract.
UnseenBlank(id) == IsBlank(id) /\ \E i \in DOMAIN id : id[i] \notin PySpace

\* A label, a mode or a key nobody knows costs a record its canonical form, never the
\* record: a hook hands one to its sink whatever it inherits (claude_code.py,
\* build_fields), unless TOKENWEIR_APP_ID is such a blank, and then it hands none.
LostForItsIdAlone ==
    \A e \in emitted : \A s \in e.by :
        e.sink = {} <=> UnseenBlank(s.env["TOKENWEIR_APP_ID"])

\* emit_usage answers with the record when the sink took it and returned, and only then;
\* and a record is all the sink is ever handed (sink.py, emit_usage).
AnswersTruly ==
    \A e \in emitted :
        /\ \A r \in e.sink : r # None /\ DOMAIN r = Fields
        /\ e.answer = IF e.raised THEN {} ELSE e.sink

\* A turn is lost for its blank application id and for nothing else it inherits, and no
\* record is claimed that was not taken.
TurnsRecorded == TypeOK /\ LostForItsIdAlone /\ AnswersTruly

\* What this library writes it reads back, the same record.
OwnRecordsRead ==
    \A m \in read : m.from # {} => m.got = m.from

\* A reader takes a document for what it says: a field it knows is what was written, with
\* the version the document carries and not its own, and a field that is missing has its
\* default.  Keys it does not know are ignored (contract.py, from_dict).
Denotes(v, w) ==
    \/ v = w
    \/ Is("float", w) /\ Is("int", v) /\ v[2] * w[3] = w[2]
    \/ Is("member", v) /\ w = Str(<<v[2]>>)
ReadAsWritten ==
    \A m \in read : \A r \in m.got : \A f \in Fields :
        Denotes(r[f], Over(m.message.data, Defaults)[f])

\* The published schema is never looser than the reader: a document that validates is
\* read (contract.py, FR-019).
SchemaNeverLooser ==
    \A m \in read : m.message.object /\ Validates(m.message.data) => m.got # {}

\* And a record of this version that this library makes validates, whoever's fields or
\* document it was made of.
RecordsValidate ==
    \A r \in Sent \cup UNION {m.got : m \in read} :
        r.schema_version = Num(SCHEMA_VERSION) => Validates(ToDict(r))

\* The writer, the reader and the published schema are one contract.
WireAgrees == OwnRecordsRead /\ ReadAsWritten /\ SchemaNeverLooser /\ RecordsValidate
=============================================================================
