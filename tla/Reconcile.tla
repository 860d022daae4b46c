----------------------------- MODULE Reconcile -----------------------------
(***************************************************************************)
(* Reconciliation of a live schema, src/src/tokenweir/reconcile.py:        *)
(* plan() compares the catalog with the schema the migrations produce;     *)
(* apply() compares again, refuses, or executes the plan in one            *)
(* transaction.  Other tools change the database at any moment.            *)
(*                                                                         *)
(* Postgres is external: a statement locks its relation to the end of the  *)
(* transaction, sees what others committed before it, and fails as the     *)
(* catalog and the rows make it fail.  A table has one column of each kind *)
(* the comparison tells apart; a comparison is one read of the database.   *)
(***************************************************************************)
EXTENDS Integers, Sequences, FiniteSets, SequencesExt

CONSTANTS
    MaxSteps        \* bound on the changes other tools make and the calls of apply()

\* The bounds are numbers.
ASSUME BoundsAssumption == MaxSteps \in Nat

Tables == {"gateway_usage", "model_pricing_rates"}
Relations == Tables \cup {"gateway_usage_daily"}

\* held: where the values in the older rows come from; "rows" is from whoever
\* wrote them.
Held == {"rows", "null", "now", "constant", "one", "date", "always"}
Defaults == {"none", "constant", "now", "one", "date", "always", "other"}
Column == [type : {"ours", "other"}, notNull : BOOLEAN, default : Defaults,
           identity : BOOLEAN, generated : BOOLEAN, nulls : BOOLEAN, held : Held]
Order == <<"id", "schema_version", "request_id", "input_tokens", "latency_ms", "ts",
           "extra", "model", "effective_from", "cache_cost", "pricing_mode">>
Names == Range(Order)

\* An index or a constraint: compared by its shape or definition, never by name.
Object == [name : {"ts_idx", "costs_check", "own"}, shape : {"ts", "costs", "other"}]

Required(default) ==
    [type |-> "ours", notNull |-> TRUE, default |-> default, identity |-> FALSE,
     generated |-> FALSE, nulls |-> FALSE, held |-> "rows"]
Optional == [Required("none") EXCEPT !.notNull = FALSE, !.nulls = TRUE]
TsIndex == [name |-> "ts_idx", shape |-> "ts"]
CostsCheck == [name |-> "costs_check", shape |-> "costs"]

ShapesOf(O) == {o.shape : o \in O}
NamesOf(O) == {o.name : o \in O}

\* The schema the migrations build, with rows in it.  Facts about rows: twice, a
\* model has two; solo, a model's only one is a subscription's; bad, a cost is
\* negative.  Facts about neighbours: referenced, a foreign key is on the key of
\* the table; dependents and granted, of the view; taken, another relation has the
\* name of the index.
Reference ==
    [gateway_usage |->
       [kind |-> "table", key |-> "ours", indexes |-> {TsIndex}, checks |-> {},
        cols |-> [id |-> [Required("none") EXCEPT !.identity = TRUE],
                  schema_version |-> Required("none"),
                  request_id |-> Required("none"),
                  input_tokens |-> Required("constant"),
                  latency_ms |-> Optional,
                  ts |-> Required("now")]],
     model_pricing_rates |->
       [kind |-> "table", key |-> "ours", indexes |-> {}, checks |-> {CostsCheck},
        cols |-> [model |-> Required("none"),
                  effective_from |-> Required("none"),
                  cache_cost |-> Optional],
        twice |-> FALSE, solo |-> FALSE, bad |-> FALSE, referenced |-> FALSE],
     gateway_usage_daily |->
       [kind |-> "view", shape |-> "ours", dependents |-> FALSE, granted |-> FALSE],
     taken |-> FALSE]

Without(f, x) == [y \in DOMAIN f \ {x} |-> f[y]]
With(f, x, v) == [y \in DOMAIN f \cup {x} |-> IF y = x THEN v ELSE f[y]]

\* The database the gateway made: an id from a sequence, no schema_version, a
\* current-valued rate card keyed (model, pricing_mode), a view of other columns.
Legacy ==
    [Reference EXCEPT
        !.gateway_usage.cols =
            With(Without(@, "schema_version"), "id", Required("other")),
        !.model_pricing_rates.cols =
            With(Without(@, "effective_from"), "pricing_mode", Required("none")),
        !.model_pricing_rates.key = "legacy",
        !.model_pricing_rates.checks = {},
        !.gateway_usage_daily.shape = "other"]

-----------------------------------------------------------------------------
(* what other tools do *)

\* The shapes a column may be given.
Shapes(c) ==
    LET ours == IF c \in DOMAIN Reference.gateway_usage.cols
                THEN Reference.gateway_usage.cols[c]
                ELSE IF c \in DOMAIN Reference.model_pricing_rates.cols
                     THEN Reference.model_pricing_rates.cols[c]
                     ELSE Required("none")
    IN {ours,
        [ours EXCEPT !.type = "other"],
        [ours EXCEPT !.notNull = TRUE, !.nulls = FALSE],
        [ours EXCEPT !.notNull = FALSE, !.nulls = FALSE],
        [ours EXCEPT !.notNull = FALSE, !.nulls = TRUE],
        [ours EXCEPT !.default = IF ours.default = "none" THEN "other" ELSE "none"],
        [Required("none") EXCEPT !.identity = TRUE],
        [ours EXCEPT !.generated = TRUE, !.default = "other"]}

ColumnsOf(t) ==
    IF t = "gateway_usage" THEN (DOMAIN Reference[t].cols \cup {"extra"}) \ {"id"}
    ELSE DOMAIN Reference[t].cols \cup {"pricing_mode"}

\* In place of the table, nothing, or a view over a table kept elsewhere.
Absent(T) == [T EXCEPT !.kind = "absent", !.cols = << >>, !.key = "none",
                       !.indexes = {}, !.checks = {}]
AsView(T) == [T EXCEPT !.kind = "view", !.key = "none", !.indexes = {}, !.checks = {},
                       !.cols = [c \in DOMAIN @ |-> [@[c] EXCEPT !.notNull = FALSE,
                                                                !.default = "none"]]]

\* The columns of a key, and those the rollup reads.
KeyOf(k) == CASE k = "legacy" -> {"model", "pricing_mode"}
              [] k = "ours" -> {"model", "effective_from"}
              [] k = "none" -> {}
Reads == [gateway_usage |-> {"input_tokens", "ts"},
          model_pricing_rates |-> {"model", "effective_from", "cache_cost"}]

\* DROP COLUMN takes the key, the indexes and the constraints over it along.
DropColumn(R, c) ==
    [R EXCEPT !.cols = Without(@, c),
              !.key = IF c \in {"model", "effective_from", "pricing_mode"} THEN "none" ELSE @,
              !.indexes = IF c = "ts" THEN {} ELSE @,
              !.checks = IF c = "cache_cost" THEN {} ELSE @]

\* What one change can make of the view, of the columns of a table, and of the rest of
\* each table.
ViewEdits(V) ==
    {[kind |-> k, shape |-> s, dependents |-> FALSE, granted |-> FALSE] :
        k \in {"view", "table"}, s \in {"ours", "other"}}
    \cup {[V EXCEPT !.kind = "absent", !.dependents = FALSE, !.granted = FALSE],
          [V EXCEPT !.dependents = TRUE], [V EXCEPT !.granted = TRUE]}
ColumnEdits(r, R) ==
    {DropColumn(R, c) : c \in ColumnsOf(r)}
    \cup UNION {{[R EXCEPT !.cols = With(@, c, s)] : s \in Shapes(c)} : c \in ColumnsOf(r)}
UsageEdits(R) ==
    {[R EXCEPT !.indexes = i] :
        i \in {{}, {TsIndex}, {[TsIndex EXCEPT !.name = "own"]},
               {[TsIndex EXCEPT !.shape = "other"]}}}
CardEdits(R) ==
    {[R EXCEPT !.twice = ~@], [R EXCEPT !.solo = ~@],
     [R EXCEPT !.bad = ~@, !.checks = {}], [R EXCEPT !.referenced = TRUE],
     [R EXCEPT !.checks = {}],
     [R EXCEPT !.checks = {[CostsCheck EXCEPT !.name = "own"]}],
     [R EXCEPT !.checks = {[CostsCheck EXCEPT !.shape = "other"]}]}

EditsOf(d, r) ==
    LET R == d[r] IN
    CASE r = "gateway_usage_daily" -> ViewEdits(R)
      [] r \in Tables /\ R.kind # "table" -> {Reference[r]}
      [] r \in Tables /\ R.kind = "table" ->
           {Absent(R), AsView(R), [R EXCEPT !.key = "none"]} \cup ColumnEdits(r, R)
           \cup (IF r = "gateway_usage" THEN UsageEdits(R) ELSE CardEdits(R))

\* What Postgres keeps true of any database.
Sane(d) ==
    LET U == d["gateway_usage"] IN
    LET R == d["model_pricing_rates"] IN
    LET V == d["gateway_usage_daily"] IN
    /\ \A t \in Tables :
         /\ \A c \in DOMAIN d[t].cols :
              LET C == d[t].cols[c] IN
              /\ C.notNull => ~C.nulls
              /\ C.identity => C.notNull /\ C.default = "none"
         /\ V.kind = "view" /\ V.shape = "ours" =>
              \A c \in Reads[t] : c \in DOMAIN d[t].cols /\ d[t].cols[c].type = "ours"
    /\ \A c \in KeyOf(R.key) : c \in DOMAIN R.cols /\ R.cols[c].notNull
    /\ TsIndex.shape \in ShapesOf(U.indexes) => "ts" \in DOMAIN U.cols
    /\ CostsCheck.shape \in ShapesOf(R.checks) => "cache_cost" \in DOMAIN R.cols /\ ~R.bad
    /\ R.solo => "pricing_mode" \in DOMAIN R.cols
    /\ R.referenced => R.key # "none"
    /\ V.kind # "view" => ~V.dependents /\ ~V.granted
    /\ d.taken => TsIndex.name \notin NamesOf(U.indexes)

-----------------------------------------------------------------------------
(* the comparison *)

Statement == [op : {"add column", "drop column", "drop default", "set default", "set not null",
                    "drop key", "add key", "create index", "add check", "drop view",
                    "create view"},
              on : Relations, column : Names \cup {""}, default : Defaults]
St(op, r, c, default) == [op |-> op, on |-> r, column |-> c, default |-> default]

\* A discrepancy only a person can resolve, and one that statements resolve.
Manual(r, what) == [on |-> r, what |-> what, resolution |-> "manual", statements |-> << >>]
Automatic(r, what, statements) ==
    [on |-> r, what |-> what, resolution |-> "automatic", statements |-> statements]

\* Mutant: nothing is said of what the rows would hold.
AddAnyway(r, c, C) == Automatic(r, c, <<St("add column", r, c, C.default)>>)

\* BACKFILL_VALUES: older rows were written under version 1 of the record.
BackFilled(r, c) == r = "gateway_usage" /\ c = "schema_version"

\* A column that is missing: added only with values that are known of older rows.
AddColumn(r, c, C) ==
    CASE C.default \notin {"none", "constant"} -> Manual(r, c)
      [] C.default = "constant" \/ (C.default = "none" /\ ~C.notNull) ->
           Automatic(r, c, <<St("add column", r, c, C.default)>>)
      [] C.default = "none" /\ C.notNull /\ BackFilled(r, c) ->
           Automatic(r, c, <<St("add column", r, c, "one"),
                             St("drop default", r, c, "none")>>)
      [] OTHER -> Manual(r, c)

\* Mutant: NOT NULL is set without a look at the rows.
NullabilityUnprobed(r, c, C, F) ==
    IF C.notNull /\ ~F.notNull
    THEN <<Automatic(r, c, <<St("set not null", r, c, "none")>>)>>
    ELSE IF F.notNull /\ ~C.notNull THEN <<Manual(r, c)>> ELSE << >>

Nullability(r, c, C, F) ==
    CASE C.notNull /\ ~F.notNull /\ ~F.nulls ->
           <<Automatic(r, c, <<St("set not null", r, c, "none")>>)>>
      [] C.notNull = F.notNull -> << >>
      [] OTHER -> <<Manual(r, c)>>

Default(r, c, C, F) ==
    IF F.default = C.default THEN << >>
    ELSE <<Automatic(r, c, <<IF C.default = "none"
                             THEN St("drop default", r, c, "none")
                             ELSE St("set default", r, c, C.default)>>)>>

\* A column that is there: what it is before what it holds.
CompareColumn(r, c, C, F) ==
    IF \/ F.generated # C.generated \/ F.identity # C.identity \/ F.type # C.type
    THEN <<Manual(r, c)>>
    ELSE Nullability(r, c, C, F) \o Default(r, c, C, F)

\* Mutant: a column that is not of the schema is removed.
DropExtra(r, c, F) == <<Automatic(r, c, <<St("drop column", r, c, "none")>>)>>

\* A column of the gateway's own is kept.  It blocks where the writer inserts.
CompareExtra(r, c, F) ==
    IF F.notNull /\ F.default = "none" /\ ~F.identity /\ r = "gateway_usage"
    THEN <<Manual(r, c)>> ELSE << >>

\* The discrepancies of the columns in S, in the order of the table.
Each(Op(_), S) ==
    FlattenSeq([i \in DOMAIN Order |-> IF Order[i] \in S THEN Op(Order[i]) ELSE << >>])

CompareColumns(d, r, skip) ==
    LET reference == Reference[r].cols IN
    LET live == d[r].cols IN
    LET compared == DOMAIN reference \ (skip \cup {"id"}) IN
    LET Of(c) == IF c \in DOMAIN live THEN CompareColumn(r, c, reference[c], live[c])
                 ELSE <<AddColumn(r, c, reference[c])>> IN
    LET Extra(c) == CompareExtra(r, c, live[c]) IN
    Each(Of, compared) \o Each(Extra, DOMAIN live \ (DOMAIN reference \cup {"id"}))

\* Mutant: a lone rate of a subscription is taken for a rate like any other.
SoloIsFine(R) == FALSE

\* The one-row case: what it costs a subscriber would become the price of the API.
Unpriceable(R) == "pricing_mode" \in DOMAIN R.cols /\ R.solo

\* The rate card without effective_from: one change, or the reason there is none.
RateCard(R, baseline) ==
    LET r == "model_pricing_rates" IN
    IF \/ "model" \notin DOMAIN R.cols
       \/ R.twice
       \/ Unpriceable(R)
       \/ baseline = "none"
       \/ R.cols["model"].nulls
    THEN Manual(r, "card")
    ELSE Automatic(r, "card",
           <<St("add column", r, "effective_from", baseline),
             St("drop default", r, "effective_from", "none")>>
           \o (IF R.key = "none" THEN << >> ELSE <<St("drop key", r, "", "none")>>)
           \o <<St("add key", r, "", "none")>>)

\* An index of another shape that has the name: CREATE INDEX would fail.
CompareIndexes(r, reference, live) ==
    IF ShapesOf(reference) \subseteq ShapesOf(live) THEN << >>
    ELSE IF TsIndex.name \in NamesOf(live) THEN <<Manual(r, "index")>>
    ELSE <<Automatic(r, "index", <<St("create index", r, "", "none")>>)>>

\* Mutant: the rows are not asked whether they satisfy the constraint.
ChecksUnprobed(r, reference, R) ==
    IF ShapesOf(reference) \subseteq ShapesOf(R.checks) THEN << >>
    ELSE IF "cache_cost" \notin DOMAIN R.cols \/ CostsCheck.name \in NamesOf(R.checks)
    THEN <<Manual(r, "check")>>
    ELSE <<Automatic(r, "check", <<St("add check", r, "", "none")>>)>>

\* A constraint is added when its columns are there and the rows satisfy it.
CompareConstraints(r, reference, R) ==
    IF ShapesOf(reference) \subseteq ShapesOf(R.checks) THEN << >>
    ELSE IF \/ "cache_cost" \notin DOMAIN R.cols
            \/ CostsCheck.name \in NamesOf(R.checks)
            \/ R.bad
    THEN <<Manual(r, "check")>>
    ELSE <<Automatic(r, "check", <<St("add check", r, "", "none")>>)>>

CompareTable(d, r, baseline) ==
    LET R == d[r] IN
    LET restructured == r = "model_pricing_rates" /\ "effective_from" \notin DOMAIN R.cols IN
    IF R.kind = "absent" THEN <<Manual(r, "absent")>>
    ELSE (IF restructured THEN <<RateCard(R, baseline)>> ELSE << >>)
         \o CompareColumns(d, r, IF restructured THEN {"effective_from"} ELSE {})
         \o (IF restructured \/ R.key = Reference[r].key THEN << >>
             ELSE <<Manual(r, "key")>>)
         \o CompareIndexes(r, Reference[r].indexes, R.indexes)
         \o CompareConstraints(r, Reference[r].checks, R)

\* A view is replaced unless something is built on it: DROP VIEW would fail.
CompareView(V) ==
    LET r == "gateway_usage_daily" IN
    LET create == St("create view", r, "", "none") IN
    CASE V.kind = "absent" -> <<Automatic(r, "absent", <<create>>)>>
      [] V.kind = "table" -> <<Manual(r, "kind")>>
      [] V.kind = "view" /\ V.shape = "ours" -> << >>
      [] V.kind = "view" /\ V.shape # "ours" /\ V.dependents -> <<Manual(r, "view")>>
      [] OTHER -> <<Automatic(r, "view", <<St("drop view", r, "", "none"), create>>)>>

\* DROP VIEW discards the grants: the roles that hold one are named.
Grantees(V) ==
    IF V.kind = "view" /\ V.shape # "ours" /\ ~V.dependents /\ V.granted
    THEN {"grants"} ELSE {}

\* _plan: the tables, then the view that reads them.
PlanOf(d, b) ==
    [discrepancies |-> CompareTable(d, "gateway_usage", b)
                         \o CompareTable(d, "model_pricing_rates", b)
                         \o CompareView(d["gateway_usage_daily"]),
     observations |-> Grantees(d["gateway_usage_daily"]),
     baseline |-> b]

IsEmpty(p) == p.discrepancies = << >>
HasManual(p) == \E i \in DOMAIN p.discrepancies : p.discrepancies[i].resolution = "manual"
StatementsOf(p) ==
    FlattenSeq([i \in DOMAIN p.discrepancies |-> p.discrepancies[i].statements])

-----------------------------------------------------------------------------
(* Postgres executing a statement *)

\* A column is there to be altered: of a table, neither an identity nor generated.
Alterable(R, c) ==
    /\ R.kind = "table" /\ c \in DOMAIN R.cols
    /\ ~R.cols[c].identity /\ ~R.cols[c].generated

\* Whether the statement succeeds.  A plan has no "drop column"; it is Postgres's answer
\* to one, for a plan that had.
Runs(d, s) ==
    LET R == d[s.on] IN
    CASE s.op = "add column" ->
           R.kind = "table" /\ s.column \notin DOMAIN R.cols
      [] s.op \in {"drop default", "set default"} -> Alterable(R, s.column)
      [] s.op = "set not null" ->
           R.kind = "table" /\ s.column \in DOMAIN R.cols /\ ~R.cols[s.column].nulls
      [] s.op = "drop column" -> R.kind = "table" /\ s.column \in DOMAIN R.cols
      [] s.op = "drop key" -> R.key # "none" /\ ~R.referenced
      [] s.op = "add key" ->
           /\ R.kind = "table" /\ R.key = "none" /\ ~R.twice
           /\ \A c \in KeyOf("ours") : c \in DOMAIN R.cols /\ ~R.cols[c].nulls
      [] s.op = "create index" ->
           /\ R.kind = "table" /\ "ts" \in DOMAIN R.cols /\ ~d.taken
           /\ TsIndex.name \notin NamesOf(R.indexes)
      [] s.op = "add check" ->
           /\ R.kind = "table" /\ "cache_cost" \in DOMAIN R.cols /\ ~R.bad
           /\ CostsCheck.name \notin NamesOf(R.checks)
      [] s.op = "drop view" -> R.kind = "view" /\ ~R.dependents
      [] s.op = "create view" ->
           /\ R.kind = "absent" \/ (R.kind = "view" /\ R.shape = "ours")
           /\ \A t \in Tables : \A c \in Reads[t] :
                c \in DOMAIN d[t].cols /\ d[t].cols[c].type = "ours"

Added(r, s) ==
    [Reference[r].cols[s.column] EXCEPT
        !.default = s.default, !.nulls = s.default = "none",
        !.held = IF s.default = "none" THEN "null" ELSE s.default]

Effect(d, s) ==
    LET r == s.on IN
    LET c == s.column IN
    CASE s.op = "add column" -> [d EXCEPT ![r].cols = With(@, c, Added(r, s))]
      [] s.op = "drop column" -> [d EXCEPT ![r] = DropColumn(@, c)]
      [] s.op \in {"drop default", "set default"} -> [d EXCEPT ![r].cols[c].default = s.default]
      [] s.op = "set not null" -> [d EXCEPT ![r].cols[c].notNull = TRUE]
      [] s.op = "drop key" -> [d EXCEPT ![r].key = "none"]
      [] s.op = "add key" -> 
           [d EXCEPT ![r].key = "ours",
                     ![r].cols = [x \in DOMAIN @ |-> IF x \in KeyOf("ours")
                                                     THEN [@[x] EXCEPT !.notNull = TRUE]
                                                     ELSE @[x]]]
      [] s.op = "create index" -> [d EXCEPT ![r].indexes = @ \cup {TsIndex}]
      [] s.op = "add check" -> [d EXCEPT ![r].checks = @ \cup {CostsCheck}]
      [] s.op = "drop view" -> [d EXCEPT ![r] = [@ EXCEPT !.kind = "absent", !.granted = FALSE]]
      [] s.op = "create view" -> [d EXCEPT ![r] = [@ EXCEPT !.kind = "view", !.shape = "ours"]]

\* What a statement locks: the relation it is on, and for a view what it reads.
Locks(s) == IF s.op = "create view" THEN Relations ELSE {s.on}

-----------------------------------------------------------------------------
(* plan(), apply() and the command *)

NoPlan == [discrepancies |-> << >>, observations |-> {}, baseline |-> "no plan"]

VARIABLES
    db,         \* what is committed
    pc,         \* "idle", "derive" or "execute"
    read,       \* the plan that was printed and read, or NoPlan
    given,      \* the plan handed to apply(), or NoPlan
    baseline,   \* the baseline apply() works with
    current,    \* what apply() derived
    todo,       \* the statements of it that are still to run
    work,       \* the relations its transaction has locked, as it sees them
    ran,        \* the statements that the last call of apply() executed
    result,     \* "none", "stale", "manual", "empty", "applied", "error", "lost"
    autocommit, \* the mode of the connection
    quiet,      \* whether no other tool changed anything since apply() compared
    edits, calls

apply == <<given, baseline, current, todo, work, ran, result>>
vars == <<db, pc, read, apply, autocommit, quiet, edits, calls>>

Init ==
    /\ db \in {Reference, Legacy}
    /\ pc = "idle"
    /\ read = NoPlan /\ given = NoPlan /\ current = NoPlan
    /\ baseline = "none"
    /\ todo = << >> /\ work = << >> /\ ran = << >>
    /\ result = "none"
    /\ autocommit \in BOOLEAN
    /\ quiet = FALSE
    /\ edits = 0 /\ calls = 0

\* What the connection sees: its own changes, and of the rest what is committed.
Seen == [x \in DOMAIN db |-> IF x \in DOMAIN work THEN work[x] ELSE db[x]]

\* Another tool, or a writer, changes one relation and commits.  (Between calls, only
\* while there is a call to come.)
Edit ==
    /\ edits + calls < (IF pc = "idle" THEN MaxSteps - 1 ELSE MaxSteps)
    /\ \/ \E r \in Relations \ DOMAIN work : \E e \in EditsOf(db, r) : db' = [db EXCEPT ![r] = e]
       \/ TsIndex \notin Seen["gateway_usage"].indexes /\ db' = [db EXCEPT !.taken = ~@]
    /\ db' # db /\ Sane(db')
    /\ edits' = edits + 1
    /\ quiet' = FALSE
    /\ UNCHANGED <<pc, read, apply, autocommit, calls>>

Baselines == {"none", "date", "always", "infinity"}

\* Mutant: nobody asks for the mode of the connection.
AnyConnection == TRUE

\* _require_transactional: plan() and apply() refuse a connection in autocommit mode,
\* where "every statement would commit as it ran".
Transactional == ~autocommit

\* plan(): 'infinity' is refused; nothing is changed; the plan is printed and read.
Plan(b) ==
    /\ pc = "idle" /\ edits + calls < MaxSteps
    /\ Transactional /\ b # "infinity"
    /\ read = NoPlan
    /\ read' = PlanOf(db, b)
    /\ UNCHANGED <<db, pc, apply, autocommit, quiet, edits, calls>>

\* apply() refuses a baseline that is not that of the plan before it compares.
Accepts(p, b) ==
    Transactional /\ b # "infinity" /\ (p = NoPlan \/ b \in {"none", p.baseline})

\* apply(), without a plan or with the one that was read, as the command calls it
\* when it is given --apply.
Apply(p, b) ==
    /\ pc = "idle" /\ edits + calls < MaxSteps
    /\ Accepts(p, b)
    /\ calls' = calls + 1
    /\ given' = p
    /\ baseline' = IF p = NoPlan THEN b ELSE p.baseline
    /\ read' = NoPlan /\ current' = NoPlan
    /\ pc' = "derive" /\ result' = "none" /\ ran' = << >>
    /\ UNCHANGED <<db, todo, work, autocommit, quiet, edits>>

\* Mutant: two plans are the same if they are of one size.
StaleBySize(p, q) == Len(p.discrepancies) # Len(q.discrepancies)

\* The signature: the discrepancies and their statements, not the observations.
Stale(p, q) == p.discrepancies # q.discrepancies

\* apply() compares again, in a transaction it rolls back, and decides.
Derive ==
    /\ pc = "derive"
    /\ current' = PlanOf(db, baseline)
    /\ quiet' = TRUE
    /\ LET Ends(how) == pc' = "idle" /\ result' = how /\ UNCHANGED todo IN
       IF given # NoPlan /\ Stale(given, current') THEN Ends("stale")
       ELSE IF HasManual(current') THEN Ends("manual")
       ELSE IF IsEmpty(current') THEN Ends("empty")
       ELSE pc' = "execute" /\ todo' = StatementsOf(current') /\ UNCHANGED result
    /\ UNCHANGED <<db, read, given, baseline, work, ran, autocommit, edits, calls>>

\* The transaction is over; its locks are released.
Close(how) ==
    /\ pc' = "idle" /\ result' = how
    /\ work' = << >> /\ todo' = << >>

\* One statement.  What it does stays in the transaction; where every statement commits
\* as it runs, it is there for everybody.
Execute ==
    /\ pc = "execute" /\ todo # << >>
    /\ IF Runs(Seen, Head(todo))
       THEN /\ IF autocommit
               THEN db' = Effect(Seen, Head(todo)) /\ UNCHANGED work
               ELSE /\ work' = [r \in DOMAIN work \cup Locks(Head(todo)) |->
                                  Effect(Seen, Head(todo))[r]]
                    /\ UNCHANGED db
            /\ todo' = Tail(todo)
            /\ ran' = Append(ran, Head(todo))
            /\ UNCHANGED <<pc, result>>
       ELSE Close("error") /\ UNCHANGED <<db, ran>>
    /\ UNCHANGED <<read, given, baseline, current, autocommit, quiet, edits, calls>>

Commit ==
    /\ pc = "execute" /\ todo = << >>
    /\ db' = Seen
    /\ Close("applied")
    /\ UNCHANGED <<read, given, baseline, current, ran, autocommit, quiet, edits, calls>>

\* The connection is lost.  A commit that was under way may have been done.
Lose ==
    /\ pc = "execute"
    /\ Close("lost")
    /\ db' \in {db} \cup (IF todo = << >> THEN {Seen} ELSE {})
    /\ UNCHANGED <<read, given, baseline, current, ran, autocommit, quiet, edits, calls>>

Next ==
    \/ Edit
    \/ \E b \in Baselines :
         \/ Plan(b)
         \/ Apply(NoPlan, b)
         \/ read # NoPlan /\ Apply(read, b)
    \/ Derive \/ Execute \/ Commit \/ Lose

Spec == Init /\ [][Next]_vars

-----------------------------------------------------------------------------
(* properties *)

\* Everything has its type, and no state of the database is one that Postgres would
\* not hold, inside the transaction or out of it.
TypeOK ==
    /\ Sane(db) /\ Sane(Seen)
    /\ \A t \in Tables : \A c \in DOMAIN Seen[t].cols :
         c \in Names /\ Seen[t].cols[c] \in Column
    /\ \A t \in Tables : Seen[t].indexes \cup Seen[t].checks \subseteq Object
    /\ \A i \in DOMAIN todo : todo[i] \in Statement
    /\ pc \in {"idle", "derive", "execute"}
    /\ pc # "execute" => work = << >> /\ todo = << >>
    /\ baseline \in Baselines \cup {"no plan"}

\* The differences the comparison does not look at: the name of the index is held by
\* something that is not an index of its table; the rate card is a view; a foreign
\* key is on the key the restructure would drop.
Unseen(d) ==
    LET R == d["model_pricing_rates"] IN
    \/ d.taken
    \/ R.kind = "view" /\ "effective_from" \notin DOMAIN R.cols
    \/ R.referenced /\ "effective_from" \notin DOMAIN R.cols

\* The one promise a plan makes (comment in _compare_indexes): a plan without a manual
\* discrepancy can be executed on the database it was derived from.  It is kept but
\* for the three differences above.
PromiseKept == result = "error" /\ quiet => Unseen(db)

\* A reconciled database has nothing left to reconcile, whatever baseline the next call
\* is given, so that apply() in a deploy script does nothing the second time.
Converges ==
    result = "applied" /\ quiet =>
        \A b \in Baselines \ {"infinity"} : IsEmpty(PlanOf(db, b))

\* A call whose connection was lost can be made again: the plan is the one it had, to the
\* last statement, or there is nothing left of it.
Retryable ==
    result = "lost" /\ quiet =>
        PlanOf(db, baseline) = current \/ IsEmpty(PlanOf(db, baseline))

\* No value of an older row is made up: a back-fill is a constant of the schema, the
\* version that wrote the row, or the date the operator gave.
NoInventedValue ==
    \A t \in Tables : \A c \in DOMAIN Seen[t].cols :
        /\ Seen[t].cols[c].held # "now"
        /\ Seen[t].cols[c].held = "one" => BackFilled(t, c)
        /\ Seen[t].cols[c].held \in {"date", "always"} => c = "effective_from"

\* Nothing is deleted, whatever other tools do in between: a column keeps what its
\* rows hold, and tables, indexes and constraints stay.
NothingRemoved ==
    Commit \/ Lose =>
        \A t \in Tables :
            /\ db'[t].kind = db[t].kind
            /\ db[t].indexes \subseteq db'[t].indexes
            /\ db[t].checks \subseteq db'[t].checks
            /\ \A c \in DOMAIN db[t].cols :
                 /\ c \in DOMAIN db'[t].cols
                 /\ db'[t].cols[c].held = db[t].cols[c].held

\* A rate card that apply() restructured, and that was left alone since it compared, still
\* prices each model: one row to a model, none of them a lone subscription's, each in
\* force from a date that comes.  (Rows another tool adds in between nobody looks at.)
RateCardStillPrices ==
    [][Commit /\ quiet /\ "effective_from" \notin DOMAIN db["model_pricing_rates"].cols =>
        LET R == db'["model_pricing_rates"] IN
        /\ ~R.twice /\ ~R.solo
        /\ R.key = "ours"
        /\ R.cols["effective_from"].held \in {"date", "always"}]_vars

\* All of a plan goes into the database, or none of it, and it is the plan that was read:
\* through a statement that fails, a connection that is lost and whatever other tools do,
\* no step of apply() changes what is committed, or returns that it did, but one that has
\* executed every statement of the plan derived last, each once and in order, and they are
\* those of the plan apply() was given, with its baseline.
AppliedAsRead ==
    [][(Derive \/ Execute \/ Commit \/ Lose) /\ (db' # db \/ result' = "applied") =>
        /\ ran' = StatementsOf(current)
        /\ given # NoPlan =>
             ran' = StatementsOf(given) /\ current.baseline = given.baseline]_vars

\* The database this module is for can be reconciled: nothing in it needs a decision
\* but the baseline, and no statement of its plan fails.
LegacyReconciles ==
    db = Legacy /\ quiet /\ pc = "idle" /\ baseline \in {"date", "always"} =>
        result \in {"stale", "lost"}

\* What a plan says holds while the database is left alone: it runs, it is the last one, it
\* can be tried again, and the database the module is for has one.
PlanKept == TypeOK /\ PromiseKept /\ Converges /\ Retryable /\ LegacyReconciles

\* A grant that goes with the view is named in the plan that apply() returns, if the
\* database was left alone since apply() compared.  (One that is given after the
\* comparison goes without a word.)
GrantLossTold ==
    Commit /\ quiet /\ db["gateway_usage_daily"].granted
        /\ ~db'["gateway_usage_daily"].granted => current.observations # {}

\* Nothing goes away unseen: no column, value, table, index or constraint at all, whatever
\* other tools do, and of the grants there were at the comparison none without a word to
\* the operator.
NothingLost == [][NothingRemoved /\ GrantLossTold]_vars
=============================================================================
