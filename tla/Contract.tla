------------------------------ MODULE Contract ------------------------------
(***************************************************************************)
(* The usage record of src/src/tokenweir/contract.py: what the constructor *)
(* accepts, what goes on the wire and comes back from it, and what the     *)
(* published JSON Schema says of it.                                       *)
(*                                                                         *)
(* A value is a tuple that starts with its type.  A record has one or two  *)
(* fields of each family the code's loops treat alike: endpoint, model and *)
(* status are as app_id, ts as workload, and the other counts as           *)
(* input_tokens.  An operation that may raise ValueError or TypeError      *)
(* gives the set of its results: one, or none.                             *)
(***************************************************************************)
EXTENDS Integers, Sequences, Functions

\* The dictionary f, and g where f has no entry.
Over(f, g) == [x \in DOMAIN f \cup DOMAIN g |-> IF x \in DOMAIN f THEN f[x] ELSE g[x]]

None == <<"None">>
Str(text) == <<"str">> \o text          \* a sequence of tokens
Num(n) == <<"int", n>>
Float(n, d) == <<"float", n, d>>        \* n / d
Member(name) == <<"member", name>>      \* of an Enum of str
Is(type, v) == v[1] = type
Text(v) == Tail(v)

\* What Python's str.strip() and \s take for white space; NEL is U+0085.
PySpace == {" ", "NEL"}

\* What the contract takes for blank: Python's white space and ECMA-262's, BOM being
\* U+FEFF.
Blanks == PySpace \cup {"BOM"}
IsBlank(text) == \A i \in DOMAIN text : text[i] \in Blanks

REQUIRED_FIELDS == {"request_id", "app_id"}
OPTIONAL_STR_FIELDS == {"workload", "queue", "parent_request_id"}
TOKEN_COUNT_FIELDS == {"input_tokens"}
WIRE_INTEGER_FIELDS == TOKEN_COUNT_FIELDS \cup {"latency_ms", "schema_version"}
SCHEMA_VERSION == 1
Modes == {"api_metered", "subscription"}

Defaults ==
    [f \in OPTIONAL_STR_FIELDS \cup TOKEN_COUNT_FIELDS
           \cup {"latency_ms", "pricing_mode", "schema_version"} |->
        CASE f \in TOKEN_COUNT_FIELDS -> Num(0)
          [] f = "schema_version"     -> Num(SCHEMA_VERSION)
          [] OTHER                    -> None]
Fields == REQUIRED_FIELDS \cup DOMAIN Defaults

-----------------------------------------------------------------------------
Coercible(v) == v = None \/ \E m \in Modes : v \in {Member(m), Str(<<m>>)}
Coerce(v) == IF v = None THEN None ELSE Member(v[2])

NonNegativeInt(v) == Is("int", v) /\ v[2] >= 0
Valid(f, v) ==
    CASE f \in REQUIRED_FIELDS     -> Is("str", v) /\ ~IsBlank(Text(v))
      [] f \in OPTIONAL_STR_FIELDS -> v = None \/ Is("str", v)
      [] f \in TOKEN_COUNT_FIELDS  -> NonNegativeInt(v)
      [] f = "latency_ms"          -> v = None \/ NonNegativeInt(v)
      [] f = "pricing_mode"        -> Coercible(v)
      [] f = "schema_version"      -> Is("int", v) /\ v[2] >= 1

\* UsageRecord(**kwargs)
UsageRecord(kwargs) ==
    LET given == Over(kwargs, Defaults)
    IN  IF /\ DOMAIN given = Fields
           /\ \A f \in Fields : Valid(f, given[f])
        THEN {[given EXCEPT !["pricing_mode"] = Coerce(@)]}
        ELSE {}

ToDict(record) ==
    [record EXCEPT !["pricing_mode"] = IF @ = None THEN None ELSE Str(<<@[2]>>)]

\* Mutant: no normalization.
WireAsGiven(v) == v

\* 100.0 on the wire is the integer 100; 100.5 is left for the constructor to refuse.
WireInteger(v) == IF Is("float", v) /\ v[2] % v[3] = 0 THEN Num(v[2] \div v[3]) ELSE v

FromDict(data) ==
    LET known == Restrict(data, DOMAIN data \cap Fields)
    IN  UsageRecord([f \in DOMAIN known |->
            IF f \in WIRE_INTEGER_FIELDS THEN WireInteger(known[f]) ELSE known[f]])

\* A message is JSON of some kind: an object, or not.
FromJson(message) == IF message.object THEN FromDict(message.data) ELSE {}

-----------------------------------------------------------------------------
\* The published schema.  Its "integer" is any number with no fraction.
SchemaInteger(v) == Is("int", v) \/ (Is("float", v) /\ v[2] % v[3] = 0)
SchemaAtLeast(v, n) == SchemaInteger(v) /\ WireInteger(v)[2] >= n
SchemaProperty(f, v) ==
    CASE f \in REQUIRED_FIELDS     -> Is("str", v) /\ Text(v) # <<>> /\ ~IsBlank(Text(v))
      [] f \in OPTIONAL_STR_FIELDS -> Is("str", v) \/ v = None
      [] f \in TOKEN_COUNT_FIELDS  -> SchemaAtLeast(v, 0)
      [] f = "latency_ms"          -> SchemaAtLeast(v, 0) \/ v = None
      [] f = "pricing_mode"        -> v \in {Str(<<m>>) : m \in Modes} \cup {None}
      [] f = "schema_version"      -> SchemaInteger(v) /\ WireInteger(v) = Num(SCHEMA_VERSION)
      [] OTHER                     -> TRUE
SchemaRequired == {"schema_version"} \cup REQUIRED_FIELDS

\* usage_record_json_schema(), applied to a document
Validates(data) ==
    /\ SchemaRequired \subseteq DOMAIN data
    /\ \A f \in DOMAIN data : SchemaProperty(f, data[f])
=============================================================================
