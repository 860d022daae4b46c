--------------------------- MODULE ReconcileProofs ---------------------------
(***************************************************************************)
(* Proofs about the reconciliation, for any number of changes by other     *)
(* tools and any number of calls.                                          *)
(***************************************************************************)
EXTENDS Reconcile, SequenceTheorems, FiniteSetTheorems, WellFoundedInduction, TLAPS

\* Some number is the least of any set of numbers.
LEMMA LeastNumber ==
    ASSUME NEW T, T \subseteq Nat, T # {}
    PROVE  \E n \in T : \A m \in T : n <= m
<1>1. PICK n \in T : \A m \in T : ~(<<m, n>> \in OpToRel(<, Nat))
  BY NatLessThanWellFounded, WFMin
<1>2. \A m \in T : ~(m < n)
  BY <1>1 DEF OpToRel
<1> QED
  BY <1>2

-----------------------------------------------------------------------------
(* Flattened sequences *)

\* Concatenation is associative.
LEMMA Joined ==
    ASSUME NEW D, NEW r \in Seq(D), NEW s \in Seq(D), NEW t \in Seq(D)
    PROVE  (r \o s) \o t = r \o (s \o t)
  OBVIOUS

\* The entries of a concatenation.
LEMMA Entries ==
    ASSUME NEW D, NEW r \in Seq(D), NEW s \in Seq(D)
    PROVE  /\ r \o s \in Seq(D) /\ Len(r \o s) = Len(r) + Len(s)
           /\ \A i \in 1..Len(r) : (r \o s)[i] = r[i]
           /\ \A i \in (Len(r) + 1)..(Len(r) + Len(s)) : (r \o s)[i] = s[i - Len(r)]
  OBVIOUS

\* Sequences of one and of two.
LEMMA Single ==
    ASSUME NEW D, NEW x \in D
    PROVE  <<x>> \in Seq(D)
  OBVIOUS

\* A sequence of two.
LEMMA Pair ==
    ASSUME NEW D, NEW x \in D, NEW y \in D
    PROVE  <<x, y>> \in Seq(D)
  OBVIOUS

\* A function on the first numbers is a sequence.
LEMMA Tabled ==
    ASSUME NEW D, NEW n \in Nat, NEW f \in [1..n -> D]
    PROVE  f \in Seq(D) /\ Len(f) = n
  OBVIOUS

\* f[i] is what the first i members of ss make.
Joins(f, ss, n, D) ==
    /\ f \in [1..n -> Seq(D)]
    /\ f[1] = ss[1]
    /\ \A i \in 2..n : f[i] = f[i - 1] \o ss[i]

\* There is such an f: it is made of one member after the other.
LEMMA JoinsExists ==
    ASSUME NEW D, NEW ss \in Seq(Seq(D)), NEW n \in 1..Len(ss)
    PROVE  \E f : Joins(f, ss, n, D)
<1> DEFINE Failing == {k \in 1..Len(ss) : ~\E f : Joins(f, ss, k, D)}
<1>1. ASSUME NEW k \in Failing, \A m \in Failing : k <= m
      PROVE  FALSE
  <2>1. k \in 1..Len(ss) /\ ss[k] \in Seq(D)
    OBVIOUS
  <2>2. CASE k = 1
    <3> DEFINE f == [i \in 1..1 |-> ss[1]]
    <3>1. Joins(f, ss, 1, D)
      BY <2>1, <2>2 DEF Joins
    <3> QED
      BY <2>2, <3>1
  <2>3. CASE k # 1
    <3>1. k - 1 \in 1..Len(ss) /\ ~(k <= k - 1)
      BY <2>1, <2>3
    <3>2. PICK g : Joins(g, ss, k - 1, D)
      BY <1>1, <3>1
    <3> DEFINE f == [i \in 1..k |-> IF i = k THEN g[k - 1] \o ss[k] ELSE g[i]]
    <3>3. g[k - 1] \in Seq(D)
      BY <3>1, <3>2 DEF Joins
    <3>4. g[k - 1] \o ss[k] \in Seq(D)
      BY <2>1, <3>3
    <3>5. f \in [1..k -> Seq(D)]
      BY <2>1, <2>3, <3>2, <3>4 DEF Joins
    <3>6. f[1] = ss[1]
      BY <2>1, <2>3, <3>2 DEF Joins
    <3>7. ASSUME NEW i \in 2..k
          PROVE  f[i] = f[i - 1] \o ss[i]
      <4>1. i \in 1..k /\ i - 1 \in 1..k /\ i - 1 # k
        BY <2>1, <2>3
      <4>2. f[i - 1] = g[i - 1]
        BY <4>1
      <4>3. CASE i = k
        BY <4>1, <4>2, <4>3
      <4>4. CASE i # k
        <5>1. i \in 2..(k - 1) /\ f[i] = g[i]
          BY <2>1, <4>1, <4>4
        <5> HIDE DEF f
        <5> QED
          BY <3>2, <4>2, <5>1 DEF Joins
      <4> QED
        BY <4>3, <4>4
    <3>8. Joins(f, ss, k, D)
      <4> HIDE DEF f
      <4> QED
        BY <3>5, <3>6, <3>7 DEF Joins
    <3> QED
      BY <3>8
  <2> QED
    BY <2>2, <2>3
<1>2. Failing = {}
  <2>1. Failing \subseteq Nat
    OBVIOUS
  <2> HIDE DEF Failing
  <2> QED
    BY <1>1, <2>1, LeastNumber
<1> QED
  BY <1>2

\* Flattening is one of those joins, whichever way it is defined.
LEMMA FlattenIs ==
    ASSUME NEW D, NEW ss \in Seq(Seq(D)), Len(ss) # 0
    PROVE  \E f : Joins(f, ss, Len(ss), D) /\ FlattenSeq(ss) = f[Len(ss)]
<1> DEFINE n == Len(ss)
           Flattens(f) == f = [i \in 1..n |-> IF i = 1 THEN ss[i] ELSE f[i - 1] \o ss[i]]
           f == CHOOSE f : Flattens(f)
<1>1. n \in Nat \ {0} /\ n \in 1..n
  OBVIOUS
<1>2. PICK g : Joins(g, ss, n, D)
  BY <1>1, JoinsExists
<1>3. Flattens(g)
  <2>1. ASSUME NEW i \in 1..n
        PROVE  g[i] = IF i = 1 THEN ss[i] ELSE g[i - 1] \o ss[i]
    <3>1. i = 1 \/ i \in 2..n
      BY <1>1
    <3> HIDE DEF n
    <3> QED
      BY <1>2, <3>1 DEF Joins
  <2>2. g = [i \in 1..n |-> g[i]]
    BY <1>2 DEF Joins
  <2> QED
    BY <2>1, <2>2
<1>4. Flattens(f)
  BY <1>3
<1>5. FlattenSeq(ss) = f[n]
  BY <1>1 DEF FlattenSeq
<1> DEFINE Failing == {k \in 1..n : f[k] # g[k]}
<1>6. ASSUME NEW i \in 1..n
      PROVE  f[i] = IF i = 1 THEN ss[i] ELSE f[i - 1] \o ss[i]
  <2> HIDE DEF f, n
  <2> QED
    BY <1>4
<1>7. ASSUME NEW i \in Failing, \A m \in Failing : i <= m
      PROVE  FALSE
  <2> HIDE DEF f
  <2>1. i \in 1..n
    OBVIOUS
  <2>2. CASE i = 1
    BY <1>2, <1>6, <2>2 DEF Joins
  <2>3. CASE i # 1
    <3>1. i - 1 \in 1..n /\ ~(i <= i - 1) /\ i \in 2..n
      BY <1>1, <2>1, <2>3
    <3>2. f[i - 1] = g[i - 1]
      BY <1>7, <3>1
    <3> QED
      BY <1>2, <1>6, <2>3, <3>1, <3>2 DEF Joins
  <2> QED
    BY <2>2, <2>3
<1>8. Failing = {}
  <2> HIDE DEF f, n
  <2>1. Failing \subseteq Nat
    BY <1>1
  <2> HIDE DEF Failing
  <2> QED
    BY <1>7, <2>1, LeastNumber
<1>9. f[n] = g[n]
  BY <1>1, <1>8
<1> QED
  BY <1>2, <1>5, <1>9

\* What has the type of the members' members has it when it is flattened.
LEMMA FlattenType ==
    ASSUME NEW D, NEW ss \in Seq(Seq(D))
    PROVE  FlattenSeq(ss) \in Seq(D)
<1>1. CASE Len(ss) = 0
  <2>1. FlattenSeq(ss) = ss /\ ss = << >>
    BY <1>1 DEF FlattenSeq
  <2> QED
    BY <2>1
<1>2. CASE Len(ss) # 0
  <2>1. PICK f : Joins(f, ss, Len(ss), D) /\ FlattenSeq(ss) = f[Len(ss)]
    BY <1>2, FlattenIs
  <2>2. Len(ss) \in 1..Len(ss)
    BY <1>2
  <2> QED
    BY <2>1, <2>2 DEF Joins
<1> QED
  BY <1>1, <1>2

\* Of one member, it is the member.
LEMMA FlattenOne ==
    ASSUME NEW D, NEW s \in Seq(D)
    PROVE  FlattenSeq(<<s>>) = s
<1>1. <<s>> \in Seq(Seq(D)) /\ Len(<<s>>) = 1 /\ <<s>>[1] = s
  OBVIOUS
<1> DEFINE ss == <<s>>
<1>2. ss \in Seq(Seq(D)) /\ Len(ss) = 1 /\ ss[1] = s
  BY <1>1
<1> HIDE DEF ss
<1>3. PICK f : Joins(f, ss, Len(ss), D) /\ FlattenSeq(ss) = f[Len(ss)]
  <2>1. Len(ss) # 0
    BY <1>2
  <2> QED
    BY <1>2, <2>1, FlattenIs
<1>4. FlattenSeq(ss) = s
  BY <1>2, <1>3 DEF Joins
<1> QED
  BY <1>4 DEF ss

\* One after the other is what they are flattened to, one after the other.
LEMMA FlattenConcat ==
    ASSUME NEW D, NEW a \in Seq(Seq(D)), NEW b \in Seq(Seq(D))
    PROVE  FlattenSeq(a \o b) = FlattenSeq(a) \o FlattenSeq(b)
<1> DEFINE m == Len(a)
           n == Len(b)
           ab == a \o b
<1>1. FlattenSeq(a) \in Seq(D) /\ FlattenSeq(b) \in Seq(D)
  BY FlattenType
<1>2. CASE m = 0
  <2>1. a = << >> /\ FlattenSeq(a) = << >> /\ ab = b
    BY <1>2 DEF FlattenSeq
  <2>2. << >> \o FlattenSeq(b) = FlattenSeq(b)
    BY <1>1, ConcatEmptySeq
  <2> QED
    BY <2>1, <2>2
<1>3. CASE n = 0
  <2>1. b = << >> /\ FlattenSeq(b) = << >> /\ ab = a
    BY <1>3 DEF FlattenSeq
  <2>2. FlattenSeq(a) \o << >> = FlattenSeq(a)
    BY <1>1, ConcatEmptySeq
  <2> QED
    BY <2>1, <2>2
<1>4. CASE m # 0 /\ n # 0
  <2>1. /\ m \in Nat \ {0} /\ n \in Nat \ {0} /\ ab \in Seq(Seq(D)) /\ Len(ab) = m + n
        /\ \A i \in 1..m : ab[i] = a[i]
        /\ \A j \in 1..n : ab[m + j] = b[j] /\ b[j] \in Seq(D)
    BY <1>4
  <2>2. PICK f : Joins(f, ab, m + n, D) /\ FlattenSeq(ab) = f[m + n]
    <3> HIDE DEF m, n, ab
    <3>1. Len(ab) # 0
      BY <2>1
    <3> QED
      BY <2>1, <3>1, FlattenIs
  <2>3. PICK g : Joins(g, a, m, D) /\ FlattenSeq(a) = g[m]
    BY <1>4, FlattenIs
  <2>4. PICK h : Joins(h, b, n, D) /\ FlattenSeq(b) = h[n]
    BY <1>4, FlattenIs
  <2> HIDE DEF m, n, ab
  <2> DEFINE F == {i \in 1..m : f[i] # g[i]}
             G == {j \in 1..n : f[m + j] # g[m] \o h[j]}
  <2>5. F = {}
    <3>1. ASSUME NEW i \in F, \A k \in F : i <= k
          PROVE  FALSE
      <4>1. CASE i = 1
        BY <2>1, <2>2, <2>3, <4>1 DEF Joins
      <4>2. CASE i # 1
        <5>1. i \in 2..m /\ i \in 2..(m + n) /\ i - 1 \in 1..m /\ ~(i <= i - 1)
          BY SMTT(30), <2>1, <4>2
        <5>2. f[i - 1] = g[i - 1]
          BY <3>1, <5>1
        <5>3. f[i] = f[i - 1] \o ab[i] /\ g[i] = g[i - 1] \o a[i]
          BY <2>2, <2>3, <5>1 DEF Joins
        <5> QED
          BY <2>1, <5>2, <5>3
      <4> QED
        BY <4>1, <4>2
    <3>2. F \subseteq Nat
      BY <2>1
    <3> HIDE DEF F
    <3> QED
      BY <3>1, <3>2, LeastNumber
  <2>6. f[m] = g[m] /\ g[m] \in Seq(D)
    <3>1. m \in 1..m
      BY <2>1
    <3> QED
      BY <2>3, <2>5, <3>1 DEF Joins
  <2>7. G = {}
    <3>1. ASSUME NEW j \in G, \A k \in G : j <= k
          PROVE  FALSE
      <4>1. f[m + j] = f[(m + j) - 1] \o b[j]
        <5>1. m + j \in 2..(m + n)
          BY <2>1
        <5> QED
          BY <2>1, <2>2, <5>1 DEF Joins
      <4>2. CASE j = 1
        <5>1. (m + j) - 1 = m /\ h[1] = b[1]
          BY <2>1, <2>4, <4>2 DEF Joins
        <5> QED
          BY <2>6, <4>1, <4>2, <5>1
      <4>3. CASE j # 1
        <5>1. /\ j \in 2..n /\ j - 1 \in 1..n /\ ~(j <= j - 1)
              /\ (m + j) - 1 = m + (j - 1)
          BY <2>1, <4>3
        <5>2. f[m + (j - 1)] = g[m] \o h[j - 1]
          BY <3>1, <5>1
        <5>3. h[j] = h[j - 1] \o b[j] /\ h[j - 1] \in Seq(D) /\ b[j] \in Seq(D)
          BY <2>1, <2>4, <5>1 DEF Joins
        <5>4. (g[m] \o h[j - 1]) \o b[j] = g[m] \o (h[j - 1] \o b[j])
          <6> DEFINE x == g[m]
                     y == h[j - 1]
                     z == b[j]
          <6>1. x \in Seq(D) /\ y \in Seq(D) /\ z \in Seq(D)
            BY <2>6, <5>3
          <6> HIDE DEF x, y, z
          <6>2. (x \o y) \o z = x \o (y \o z)
            BY SMTT(30), <6>1
          <6> QED
            BY <6>2 DEF x, y, z
        <5> QED
          BY <4>1, <5>1, <5>2, <5>3, <5>4
      <4> QED
        BY <4>2, <4>3
    <3>2. G \subseteq Nat
      <4>1. 1..n \subseteq Nat
        BY <2>1
      <4> HIDE DEF m, n, ab
      <4>2. \A j \in G : j \in 1..n
        OBVIOUS
      <4> QED
        BY <4>1, <4>2
    <3> HIDE DEF G
    <3> QED
      BY <3>1, <3>2, LeastNumber
  <2>8. n \in 1..n
    BY <2>1
  <2>9. f[m + n] = g[m] \o h[n]
    BY <2>7, <2>8
  <2> QED
    BY <2>2, <2>3, <2>4, <2>9 DEF ab
<1> QED
  BY <1>2, <1>3, <1>4

-----------------------------------------------------------------------------
(* Types *)

\* The columns of a table.
IsColumns(C) == DOMAIN C \subseteq Names /\ C \in [DOMAIN C -> Column]

Whats == Names \cup {"card", "absent", "key", "index", "check", "kind", "view"}
Kinds == {"table", "view", "absent"}
Keys == {"ours", "legacy", "none"}

IsUsage(R) ==
    /\ R = [kind |-> R.kind, key |-> R.key, indexes |-> R.indexes, checks |-> R.checks,
            cols |-> R.cols]
    /\ R.kind \in Kinds /\ R.key \in Keys /\ IsColumns(R.cols)
    /\ R.indexes \subseteq Object /\ R.checks \subseteq Object

IsCard(R) ==
    /\ R = [kind |-> R.kind, key |-> R.key, indexes |-> R.indexes, checks |-> R.checks,
            cols |-> R.cols, twice |-> R.twice, solo |-> R.solo, bad |-> R.bad,
            referenced |-> R.referenced]
    /\ R.kind \in Kinds /\ R.key \in Keys /\ IsColumns(R.cols)
    /\ R.indexes \subseteq Object /\ R.checks \subseteq Object
    /\ {R.twice, R.solo, R.bad, R.referenced} \subseteq BOOLEAN

IsView(V) ==
    /\ V = [kind |-> V.kind, shape |-> V.shape, dependents |-> V.dependents,
            granted |-> V.granted]
    /\ V.kind \in Kinds /\ V.shape \in {"ours", "other"}
    /\ {V.dependents, V.granted} \subseteq BOOLEAN

IsDatabase(d) ==
    /\ d = [gateway_usage |-> d.gateway_usage,
            model_pricing_rates |-> d.model_pricing_rates,
            gateway_usage_daily |-> d.gateway_usage_daily, taken |-> d.taken]
    /\ IsUsage(d.gateway_usage) /\ IsCard(d.model_pricing_rates)
    /\ IsView(d.gateway_usage_daily) /\ d.taken \in BOOLEAN

-----------------------------------------------------------------------------
(* The reference schema *)

\* The columns by name.
LEMMA NamesAre ==
    /\ DOMAIN Order = 1..11 /\ \A i \in 1..11 : Order[i] \in Names
    /\ Names = {"id", "schema_version", "request_id", "input_tokens", "latency_ms", "ts",
                "extra", "model", "effective_from", "cache_cost", "pricing_mode"}
  BY DEF Names, Order, Range

UsageNames == {"id", "schema_version", "request_id", "input_tokens", "latency_ms", "ts"}
CardNames == {"model", "effective_from", "cache_cost"}

\* The schema is a database, of these columns.
LEMMA ReferenceIs ==
    /\ IsDatabase(Reference)
    /\ DOMAIN Reference["gateway_usage"].cols = UsageNames
    /\ DOMAIN Reference["model_pricing_rates"].cols = CardNames
<1>1. Required("none") \in Column /\ Required("constant") \in Column
      /\ Required("now") \in Column /\ Optional \in Column
      /\ [Required("none") EXCEPT !.identity = TRUE] \in Column
  BY DEF Required, Optional, Column, Defaults, Held
<1> DEFINE U == Reference.gateway_usage
           R == Reference.model_pricing_rates
           V == Reference.gateway_usage_daily
<1>2. DOMAIN U.cols = UsageNames /\ DOMAIN R.cols = CardNames
  BY DEF Reference, UsageNames, CardNames
<1>3. IsColumns(U.cols)
  <2>1. /\ U.cols["id"] = [Required("none") EXCEPT !.identity = TRUE]
        /\ U.cols["schema_version"] = Required("none")
        /\ U.cols["request_id"] = Required("none")
        /\ U.cols["input_tokens"] = Required("constant")
        /\ U.cols["latency_ms"] = Optional /\ U.cols["ts"] = Required("now")
    BY DEF Reference
  <2>2. U.cols = [c \in UsageNames |-> U.cols[c]]
    BY DEF Reference, UsageNames
  <2> HIDE DEF U
  <2>3. \A c \in UsageNames : U.cols[c] \in Column /\ c \in Names
    BY <1>1, <2>1, NamesAre DEF UsageNames
  <2> QED
    BY <1>2, <2>2, <2>3 DEF IsColumns
<1>4. IsColumns(R.cols)
  BY <1>1, <1>2, NamesAre DEF Reference, IsColumns, CardNames
<1>5. IsUsage(U)
  <2>1. TsIndex \in Object
    BY DEF TsIndex, Object
  <2>2. /\ U = [kind |-> "table", key |-> "ours", indexes |-> {TsIndex}, checks |-> {},
                cols |-> U.cols]
    BY DEF Reference
  <2> HIDE DEF U
  <2> QED
    BY <1>3, <2>1, <2>2 DEF IsUsage, Kinds, Keys
<1>6. IsCard(R)
  <2>1. CostsCheck \in Object
    BY DEF CostsCheck, Object
  <2>2. /\ R = [kind |-> "table", key |-> "ours", indexes |-> {}, checks |-> {CostsCheck},
                cols |-> R.cols, twice |-> FALSE, solo |-> FALSE, bad |-> FALSE,
                referenced |-> FALSE]
    BY DEF Reference
  <2> HIDE DEF R
  <2>3. /\ R.kind = "table" /\ R.key = "ours" /\ R.indexes = {} /\ R.checks = {CostsCheck}
        /\ R.twice = FALSE /\ R.solo = FALSE /\ R.bad = FALSE /\ R.referenced = FALSE
    BY <2>2
  <2>4. R = [kind |-> R.kind, key |-> R.key, indexes |-> R.indexes, checks |-> R.checks,
             cols |-> R.cols, twice |-> R.twice, solo |-> R.solo, bad |-> R.bad,
             referenced |-> R.referenced]
    BY <2>2, <2>3
  <2>5. R.kind \in Kinds /\ R.key \in Keys
    BY <2>3 DEF Kinds, Keys
  <2>6. R.indexes \subseteq Object /\ R.checks \subseteq Object
    BY <2>1, <2>3
  <2>7. {R.twice, R.solo, R.bad, R.referenced} \subseteq BOOLEAN
    BY <2>3
  <2> QED
    BY <1>4, <2>4, <2>5, <2>6, <2>7 DEF IsCard
<1>7. IsView(V)
  BY DEF Reference, IsView, Kinds
<1>8. IsDatabase(Reference)
  BY <1>5, <1>6, <1>7 DEF Reference, IsDatabase
<1> QED
  BY <1>2, <1>8

\* A column of the schema other than the id: only the time of a record has a default
\* that differs between rows.
LEMMA ReferenceColumn ==
    ASSUME NEW t \in Tables, NEW c \in DOMAIN Reference[t].cols \ {"id"}
    PROVE  LET C == Reference[t].cols[c] IN
           /\ C \in Column /\ c \in Names
           /\ C.type = "ours" /\ ~C.identity /\ ~C.generated /\ C.held = "rows"
           /\ C.notNull => ~C.nulls
           /\ C.default \in {"none", "constant", "now"}
<1> DEFINE Fine(C) == /\ C.type = "ours" /\ ~C.identity /\ ~C.generated /\ C.held = "rows"
                      /\ C.notNull => ~C.nulls
                      /\ C.default \in {"none", "constant", "now"}
<1>1. Fine(Required("none")) /\ Fine(Required("constant")) /\ Fine(Required("now"))
      /\ Fine(Optional)
  BY DEF Required, Optional
<1>2. CASE t = "gateway_usage"
  <2>1. c \in UsageNames \ {"id"}
    BY <1>2, ReferenceIs
  <2>2. Fine(Reference[t].cols[c])
    <3> HIDE DEF Fine
    <3> QED
      BY <1>1, <1>2, <2>1 DEF Reference, UsageNames
  <2>3. IsColumns(Reference[t].cols)
    BY <1>2, ReferenceIs DEF IsDatabase, IsUsage
  <2> QED
    BY <2>2, <2>3 DEF IsColumns
<1>3. CASE t = "model_pricing_rates"
  <2>1. c \in CardNames
    BY <1>3, ReferenceIs
  <2>2. Fine(Reference[t].cols[c])
    <3> HIDE DEF Fine
    <3> QED
      BY <1>1, <1>3, <2>1 DEF Reference, CardNames
  <2>3. IsColumns(Reference[t].cols)
    BY <1>3, ReferenceIs DEF IsDatabase, IsCard
  <2> QED
    BY <2>2, <2>3 DEF IsColumns
<1> QED
  BY <1>2, <1>3 DEF Tables

-----------------------------------------------------------------------------
(* What a plan can hold *)

\* What is known of the rows that were there before the column: that it is a constant
\* of the schema, that nothing is, the version that wrote them, or the date given.
Known(s) ==
    \/ s.default = "constant"
    \/ s.default = "none" /\ ~Reference[s.on].cols[s.column].notNull
    \/ s.default = "one" /\ BackFilled(s.on, s.column)
    \/ s.default \in {"date", "always"} /\ s.column = "effective_from"

\* A statement that removes nothing and makes nothing up.
Harmless ==
    {s \in Statement :
        /\ s.op # "drop column"
        /\ s.op \in {"add column", "drop default", "set default", "set not null"} =>
             s.on \in Tables /\ s.column \in DOMAIN Reference[s.on].cols \ {"id"}
        /\ s.op = "add column" => Known(s)
        /\ s.op \in {"drop key", "add key", "add check"} => s.on = "model_pricing_rates"
        /\ s.op = "create index" => s.on = "gateway_usage"
        /\ s.op \in {"drop view", "create view"} => s.on = "gateway_usage_daily"}

\* A view that is there, is another, and has nothing built on it.
Replaceable(d) ==
    LET V == d["gateway_usage_daily"] IN
    V.kind = "view" /\ V.shape # "ours" /\ ~V.dependents

Planned(d) == {s \in Harmless : s.op = "drop view" => Replaceable(d)}
LeavesKey(d) == {s \in Planned(d) : s.op \notin {"drop key", "add key"}}

Discrepancies(X) ==
    [on : Relations, what : Whats, resolution : {"manual", "automatic"}, statements : Seq(X)]

\* What is found in a column that is compared, and in one that is missing.
LEMMA ColumnFindings ==
    ASSUME NEW d, NEW t \in Tables, NEW c \in DOMAIN Reference[t].cols \ {"id"},
           NEW F \in Column
    PROVE  /\ CompareColumn(t, c, Reference[t].cols[c], F) \in Seq(Discrepancies(LeavesKey(d)))
           /\ AddColumn(t, c, Reference[t].cols[c]) \in Discrepancies(LeavesKey(d))
<1> DEFINE C == Reference[t].cols[c]
           X == LeavesKey(d)
           D == Discrepancies(X)
<1>1. /\ C \in Column /\ c \in Names /\ C.default \in {"none", "constant", "now"}
  BY ReferenceColumn
<1>2. t \in Relations /\ c \in Whats
  BY <1>1 DEF Relations, Whats
<1>3. Manual(t, c) \in D
  BY <1>2 DEF Manual, Discrepancies
<1>4. ASSUME NEW st \in Seq(X)
      PROVE  Automatic(t, c, st) \in D
  BY <1>2 DEF Automatic, Discrepancies
<1>5. ASSUME NEW op \in {"drop default", "set default", "set not null"}, NEW v \in Defaults
      PROVE  St(op, t, c, v) \in X
  BY <1>1, <1>2 DEF St, LeavesKey, Planned, Harmless, Statement
<1>6. ASSUME NEW v \in Defaults, Known(St("add column", t, c, v))
      PROVE  St("add column", t, c, v) \in X
  BY <1>1, <1>2, <1>6 DEF St, LeavesKey, Planned, Harmless, Statement
<1>7. {"none", "constant", "one"} \subseteq Defaults /\ C.default \in Defaults
  BY <1>1 DEF Defaults
<1> HIDE DEF X, D
<1>8. AddColumn(t, c, C) \in D
  <2>1. CASE C.default \notin {"none", "constant"}
    BY <1>3, <2>1 DEF AddColumn
  <2>2. CASE C.default = "constant" \/ (C.default = "none" /\ ~C.notNull)
    <3>1. Known(St("add column", t, c, C.default))
      BY <2>2 DEF Known, St
    <3>2. <<St("add column", t, c, C.default)>> \in Seq(X)
      BY <1>6, <1>7, <3>1, Single
    <3>3. AddColumn(t, c, C) = Automatic(t, c, <<St("add column", t, c, C.default)>>)
      BY <1>1, <2>2 DEF AddColumn
    <3> QED
      BY <1>4, <3>2, <3>3
  <2>3. CASE C.default = "none" /\ C.notNull /\ BackFilled(t, c)
    <3>1. Known(St("add column", t, c, "one"))
      BY <2>3 DEF Known, St
    <3>2. <<St("add column", t, c, "one"), St("drop default", t, c, "none")>> \in Seq(X)
      <4>1. St("add column", t, c, "one") \in X /\ St("drop default", t, c, "none") \in X
        BY <1>5, <1>6, <1>7, <3>1
      <4> QED
        BY <4>1, Pair
    <3>3. AddColumn(t, c, C) =
            Automatic(t, c, <<St("add column", t, c, "one"), St("drop default", t, c, "none")>>)
      BY <2>3 DEF AddColumn
    <3> QED
      BY <1>4, <3>2, <3>3
  <2>4. CASE C.default = "none" /\ C.notNull /\ ~BackFilled(t, c)
    BY <1>3, <2>4 DEF AddColumn
  <2> QED
    BY <2>1, <2>2, <2>3, <2>4
<1>9. Nullability(t, c, C, F) \in Seq(D)
  <2>1. <<St("set not null", t, c, "none")>> \in Seq(X)
    BY <1>5, <1>7, Single
  <2>2. <<Automatic(t, c, <<St("set not null", t, c, "none")>>)>> \in Seq(D)
    BY <1>4, <2>1, Single
  <2>3. <<Manual(t, c)>> \in Seq(D) /\ << >> \in Seq(D)
    BY <1>3
  <2> QED
    BY <2>2, <2>3 DEF Nullability
<1>10. Default(t, c, C, F) \in Seq(D)
  <2>1. St("drop default", t, c, "none") \in X /\ St("set default", t, c, C.default) \in X
    BY <1>5, <1>7
  <2>2. /\ <<Automatic(t, c, <<St("drop default", t, c, "none")>>)>> \in Seq(D)
        /\ <<Automatic(t, c, <<St("set default", t, c, C.default)>>)>> \in Seq(D)
    BY <1>4, <2>1, Single
  <2>3. << >> \in Seq(D)
    OBVIOUS
  <2> QED
    BY <2>2, <2>3 DEF Default
<1>11. CompareColumn(t, c, C, F) \in Seq(D)
  BY <1>3, <1>9, <1>10 DEF CompareColumn
<1> QED
  BY <1>8, <1>11 DEF D, X

\* The columns of a table of the database are columns.
LEMMA TablesHaveColumns ==
    ASSUME NEW d, IsDatabase(d), NEW t \in Tables
    PROVE  /\ IsColumns(d[t].cols) /\ IsColumns(Reference[t].cols)
           /\ d[t].kind \in Kinds /\ d[t].key \in Keys
           /\ d[t].indexes \subseteq Object /\ d[t].checks \subseteq Object
<1>1. IsColumns(d[t].cols) /\ d[t].kind \in Kinds /\ d[t].key \in Keys
      /\ d[t].indexes \subseteq Object /\ d[t].checks \subseteq Object
  BY DEF IsDatabase, IsUsage, IsCard, Tables
<1>2. IsColumns(Reference[t].cols)
  BY ReferenceIs DEF IsDatabase, IsUsage, IsCard, Tables
<1> QED
  BY <1>1, <1>2

\* What is found in the columns of a table.
LEMMA ColumnsFindings ==
    ASSUME NEW d, IsDatabase(d), NEW t \in Tables, NEW skip
    PROVE  CompareColumns(d, t, skip) \in Seq(Discrepancies(LeavesKey(d)))
<1> DEFINE D == Discrepancies(LeavesKey(d))
           reference == Reference[t].cols
           live == d[t].cols
           compared == DOMAIN reference \ (skip \cup {"id"})
           extra == DOMAIN live \ (DOMAIN reference \cup {"id"})
           Of(c) == IF c \in DOMAIN live THEN CompareColumn(t, c, reference[c], live[c])
                    ELSE <<AddColumn(t, c, reference[c])>>
           Extra(c) == CompareExtra(t, c, live[c])
           ofs == [i \in DOMAIN Order |-> IF Order[i] \in compared THEN Of(Order[i]) ELSE << >>]
           extras == [i \in DOMAIN Order |-> IF Order[i] \in extra THEN Extra(Order[i]) ELSE << >>]
<1>1. \A c \in compared : Of(c) \in Seq(D)
  <2> SUFFICES ASSUME NEW c \in compared
               PROVE  Of(c) \in Seq(D)
    OBVIOUS
  <2>1. CASE c \in DOMAIN live
    <3>1. live[c] \in Column
      BY <2>1, TablesHaveColumns DEF IsColumns
    <3> QED
      BY <2>1, <3>1, ColumnFindings
  <2>2. CASE c \notin DOMAIN live
    <3>1. Optional \in Column
      BY DEF Optional, Required, Column, Defaults, Held
    <3>2. AddColumn(t, c, reference[c]) \in D
      BY <3>1, ColumnFindings
    <3> HIDE DEF D
    <3>3. <<AddColumn(t, c, reference[c])>> \in Seq(D)
      BY <3>2, Single
    <3> QED
      BY <2>2, <3>3
  <2> QED
    BY <2>1, <2>2
<1>2. \A c \in extra : Extra(c) \in Seq(D)
  <2> SUFFICES ASSUME NEW c \in extra
               PROVE  CompareExtra(t, c, live[c]) \in Seq(D)
    OBVIOUS
  <2>1. t \in Relations /\ c \in Whats
    BY TablesHaveColumns DEF Relations, Whats, IsColumns
  <2>2. Manual(t, c) \in D
    BY <2>1 DEF Manual, Discrepancies
  <2> HIDE DEF D
  <2>3. <<Manual(t, c)>> \in Seq(D) /\ << >> \in Seq(D)
    BY <2>2, Single
  <2> QED
    BY <2>3 DEF CompareExtra
<1>3. ofs \in Seq(Seq(D)) /\ extras \in Seq(Seq(D))
  <2>1. << >> \in Seq(D)
    OBVIOUS
  <2> HIDE DEF D, Of, Extra, compared, extra
  <2>2. ofs \in [1..11 -> Seq(D)] /\ extras \in [1..11 -> Seq(D)]
    BY <1>1, <1>2, <2>1, NamesAre
  <2> HIDE DEF ofs, extras
  <2> QED
    BY <2>2, Tabled
<1>4. CompareColumns(d, t, skip) = FlattenSeq(ofs) \o FlattenSeq(extras)
  BY DEF CompareColumns, Each
<1>5. FlattenSeq(ofs) \in Seq(D) /\ FlattenSeq(extras) \in Seq(D)
  <2> HIDE DEF ofs, extras, D
  <2> QED
    BY <1>3, FlattenType
<1> HIDE DEF ofs, extras, D
<1>6. FlattenSeq(ofs) \o FlattenSeq(extras) \in Seq(D)
  BY <1>5
<1> QED
  BY <1>4, <1>6 DEF D

\* The statements of the restructure.
LEMMA CardStatements ==
    ASSUME NEW d, NEW b \in {"date", "always"}
    PROVE  LET r == "model_pricing_rates" IN
           {St("add column", r, "effective_from", b),
            St("drop default", r, "effective_from", "none"),
            St("drop key", r, "", "none"), St("add key", r, "", "none")} \subseteq Planned(d)
<1> DEFINE r == "model_pricing_rates"
<1>1. r \in Relations /\ r \in Tables
      /\ "effective_from" \in DOMAIN Reference[r].cols \ {"id"} /\ "effective_from" \in Names
  BY ReferenceIs, NamesAre DEF Relations, Tables, CardNames
<1>2. St("add column", r, "effective_from", b) \in Planned(d)
  BY <1>1 DEF Planned, Harmless, Statement, St, Defaults, Known
<1>3. St("drop default", r, "effective_from", "none") \in Planned(d)
  BY <1>1 DEF Planned, Harmless, Statement, St, Defaults
<1>4. St("drop key", r, "", "none") \in Planned(d) /\ St("add key", r, "", "none") \in Planned(d)
  BY <1>1 DEF Planned, Harmless, Statement, St, Defaults
<1> QED
  BY <1>2, <1>3, <1>4

\* What is found in the rate card that is to be restructured.
LEMMA CardFinding ==
    ASSUME NEW d, IsDatabase(d), NEW b \in {"none", "date", "always"}
    PROVE  RateCard(d["model_pricing_rates"], b) \in Discrepancies(Planned(d))
<1> DEFINE r == "model_pricing_rates"
           R == d[r]
           X == Planned(d)
           add == St("add column", r, "effective_from", b)
           undefault == St("drop default", r, "effective_from", "none")
           drop == St("drop key", r, "", "none")
           key == St("add key", r, "", "none")
<1>1. r \in Relations /\ "card" \in Whats
  BY DEF Relations, Whats, Tables
<1>3. CASE RateCard(R, b) = Manual(r, "card")
  BY <1>1, <1>3 DEF Manual, Discrepancies
<1>4. CASE RateCard(R, b) # Manual(r, "card")
  <2>1. b \in {"date", "always"}
    BY <1>4 DEF RateCard
  <2>2. add \in X /\ undefault \in X /\ drop \in X /\ key \in X
    BY <2>1, CardStatements
  <2> DEFINE dropped == IF R.key = "none" THEN << >> ELSE <<drop>>
             all == <<add, undefault>> \o dropped \o <<key>>
  <2>3. RateCard(R, b) = Automatic(r, "card", all)
    BY <1>4 DEF RateCard
  <2> HIDE DEF add, undefault, drop, key, X
  <2>4. all \in Seq(X)
    <3>1. <<add, undefault>> \in Seq(X)
      BY <2>2, Pair
    <3>2. dropped \in Seq(X) /\ <<key>> \in Seq(X)
      BY <2>2, Single
    <3> HIDE DEF dropped
    <3> QED
      BY <3>1, <3>2
  <2> HIDE DEF all
  <2>5. Automatic(r, "card", all) \in Discrepancies(X)
    BY <1>1, <2>4 DEF Automatic, Discrepancies
  <2> QED
    BY <2>3, <2>5 DEF X
<1> QED
  BY <1>3, <1>4

\* What is found in the indexes, the constraints, the key and the view.
LEMMA OtherFindings ==
    ASSUME NEW d, IsDatabase(d), NEW t \in Tables
    PROVE  LET D == Discrepancies(LeavesKey(d)) IN
           /\ CompareIndexes(t, Reference[t].indexes, d[t].indexes) \in Seq(D)
           /\ CompareConstraints(t, Reference[t].checks, d[t]) \in Seq(D)
           /\ <<Manual(t, "absent")>> \in Seq(D) /\ <<Manual(t, "key")>> \in Seq(D)
           /\ CompareView(d["gateway_usage_daily"]) \in Seq(D)
<1> DEFINE X == LeavesKey(d)
           D == Discrepancies(X)
           V == d["gateway_usage_daily"]
           v == "gateway_usage_daily"
<1>1. t \in Relations /\ v \in Relations
  BY DEF Relations
<1>2. ASSUME NEW r \in Relations, NEW w \in Whats
      PROVE  <<Manual(r, w)>> \in Seq(D)
  <2>1. Manual(r, w) \in D
    BY DEF Manual, Discrepancies
  <2> HIDE DEF D
  <2> QED
    BY <2>1, Single
<1>3. ASSUME NEW r \in Relations, NEW w \in Whats, NEW st \in Seq(X)
      PROVE  <<Automatic(r, w, st)>> \in Seq(D)
  <2>1. Automatic(r, w, st) \in D
    BY DEF Automatic, Discrepancies
  <2> HIDE DEF D
  <2> QED
    BY <2>1, Single
<1>4. {"absent", "key", "index", "check", "kind", "view"} \subseteq Whats
  BY DEF Whats
<1>5. << >> \in Seq(D)
  OBVIOUS
<1> HIDE DEF D
<1>6. CompareIndexes(t, Reference[t].indexes, d[t].indexes) \in Seq(D)
  <2>1. CASE t = "gateway_usage"
    <3>1. St("create index", t, "", "none") \in X
      BY <1>1, <2>1 DEF LeavesKey, Planned, Harmless, Statement, St, Defaults
    <3>2. <<St("create index", t, "", "none")>> \in Seq(X)
      BY <3>1, Single
    <3> QED
      BY <1>1, <1>2, <1>3, <1>4, <1>5, <3>2 DEF CompareIndexes
  <2>2. CASE t = "model_pricing_rates"
    <3>1. Reference[t].indexes = {}
      BY <2>2 DEF Reference
    <3> QED
      BY <1>5, <3>1 DEF CompareIndexes, ShapesOf
  <2> QED
    BY <2>1, <2>2 DEF Tables
<1>7. CompareConstraints(t, Reference[t].checks, d[t]) \in Seq(D)
  <2>1. CASE t = "model_pricing_rates"
    <3>1. St("add check", t, "", "none") \in X
      BY <1>1, <2>1 DEF LeavesKey, Planned, Harmless, Statement, St, Defaults
    <3>2. <<St("add check", t, "", "none")>> \in Seq(X)
      BY <3>1, Single
    <3> QED
      BY <1>1, <1>2, <1>3, <1>4, <1>5, <3>2 DEF CompareConstraints
  <2>2. CASE t = "gateway_usage"
    <3>1. Reference[t].checks = {}
      BY <2>2 DEF Reference
    <3> QED
      BY <1>5, <3>1 DEF CompareConstraints, ShapesOf
  <2> QED
    BY <2>1, <2>2 DEF Tables
<1>8. CompareView(V) \in Seq(D)
  <2> DEFINE create == St("create view", v, "", "none")
             drop == St("drop view", v, "", "none")
  <2>1. create \in X /\ (Replaceable(d) => drop \in X)
    BY <1>1 DEF LeavesKey, Planned, Harmless, Statement, St, Defaults
  <2>2. <<create>> \in Seq(X)
    BY <2>1, Single
  <2>3. V.kind \in Kinds
    BY DEF IsDatabase, IsView
  <2>4. CASE V.kind = "view" /\ V.shape # "ours" /\ ~V.dependents
    <3>1. <<drop, create>> \in Seq(X)
      BY <2>1, <2>4, Pair DEF Replaceable
    <3>2. CompareView(V) = <<Automatic(v, "view", <<drop, create>>)>>
      BY <2>4 DEF CompareView
    <3> QED
      BY <1>1, <1>3, <1>4, <3>1, <3>2
  <2>5. CASE V.kind = "view" /\ V.shape # "ours" /\ V.dependents
    <3>1. CompareView(V) = <<Manual(v, "view")>>
      BY <2>5 DEF CompareView
    <3> QED
      BY <1>1, <1>2, <1>4, <3>1
  <2>6. CASE V.kind = "view" /\ V.shape = "ours"
    BY <1>5, <2>6 DEF CompareView
  <2>7. CASE V.kind = "table"
    <3>1. CompareView(V) = <<Manual(v, "kind")>>
      BY <2>7 DEF CompareView
    <3> QED
      BY <1>1, <1>2, <1>4, <3>1
  <2>8. CASE V.kind = "absent"
    <3>1. CompareView(V) = <<Automatic(v, "absent", <<create>>)>>
      BY <2>8 DEF CompareView
    <3> QED
      BY <1>1, <1>3, <1>4, <2>2, <3>1
  <2> QED
    BY <2>3, <2>4, <2>5, <2>6, <2>7, <2>8 DEF Kinds
<1> QED
  BY <1>1, <1>2, <1>4, <1>6, <1>7, <1>8 DEF D

\* The statements of a sequence of discrepancies.
StatementsIn(q) == FlattenSeq([i \in DOMAIN q |-> q[i].statements])

\* They are statements.
LEMMA StatementsType ==
    ASSUME NEW X, NEW q \in Seq(Discrepancies(X))
    PROVE  /\ [i \in DOMAIN q |-> q[i].statements] \in Seq(Seq(X))
           /\ StatementsIn(q) \in Seq(X)
<1> DEFINE ss == [i \in DOMAIN q |-> q[i].statements]
<1>1. ss \in [1..Len(q) -> Seq(X)]
  <2>1. \A i \in 1..Len(q) : q[i] \in Discrepancies(X)
    OBVIOUS
  <2>2. DOMAIN q = 1..Len(q)
    OBVIOUS
  <2> QED
    BY <2>1, <2>2 DEF Discrepancies
<1>2. Len(q) \in Nat
  OBVIOUS
<1> HIDE DEF ss
<1>3. ss \in Seq(Seq(X))
  BY <1>1, <1>2, Tabled
<1>4. FlattenSeq(ss) \in Seq(X)
  BY <1>3, FlattenType
<1> QED
  BY <1>3, <1>4 DEF ss, StatementsIn

\* Those of one sequence after another are those of the one after those of the other.
LEMMA StatementsConcat ==
    ASSUME NEW X, NEW p \in Seq(Discrepancies(X)), NEW q \in Seq(Discrepancies(X))
    PROVE  StatementsIn(p \o q) = StatementsIn(p) \o StatementsIn(q)
<1> DEFINE Of(s) == [i \in DOMAIN s |-> s[i].statements]
           m == Len(p)
           n == Len(q)
<1>1. p \o q \in Seq(Discrepancies(X))
  OBVIOUS
<1>2. /\ Of(p) \in Seq(Seq(X)) /\ Of(q) \in Seq(Seq(X)) /\ Of(p \o q) \in Seq(Seq(X))
  BY <1>1, StatementsType
<1>3. Of(p \o q) = Of(p) \o Of(q)
  <2>1. /\ m \in Nat /\ n \in Nat /\ Len(p \o q) = m + n
        /\ \A i \in 1..m : (p \o q)[i] = p[i]
        /\ \A i \in (m + 1)..(m + n) : (p \o q)[i] = q[i - m]
    OBVIOUS
  <2>2. Len(Of(p)) = m /\ Len(Of(q)) = n /\ Len(Of(p \o q)) = m + n
    BY <1>1, <1>2, <2>1
  <2>3. /\ Len(Of(p) \o Of(q)) = m + n /\ Of(p) \o Of(q) \in Seq(Seq(X))
        /\ \A i \in 1..m : (Of(p) \o Of(q))[i] = Of(p)[i]
        /\ \A i \in (m + 1)..(m + n) : (Of(p) \o Of(q))[i] = Of(q)[i - m]
    <3> DEFINE a == Of(p)
               b == Of(q)
               Y == Seq(X)
    <3>1. a \in Seq(Y) /\ b \in Seq(Y) /\ Len(a) = m /\ Len(b) = n
      BY <1>2, <2>2
    <3> HIDE DEF a, b, m, n, Y
    <3>2. /\ Len(a \o b) = m + n /\ a \o b \in Seq(Y)
          /\ \A i \in 1..m : (a \o b)[i] = a[i]
          /\ \A i \in (m + 1)..(m + n) : (a \o b)[i] = b[i - m]
      BY SMTT(30), <2>1, <3>1, Entries
    <3> QED
      BY <3>2 DEF a, b, Y
  <2>4. /\ \A i \in 1..(m + n) : Of(p \o q)[i] = (p \o q)[i].statements
        /\ \A i \in 1..m : Of(p)[i] = p[i].statements
        /\ \A i \in 1..n : Of(q)[i] = q[i].statements
    BY <1>1, <2>1
  <2>5. ASSUME NEW i \in 1..(m + n)
        PROVE  Of(p \o q)[i] = (Of(p) \o Of(q))[i]
    <3> HIDE DEF m, n, Of
    <3>1. CASE i <= m
      <4>1. i \in 1..m
        BY <2>1, <3>1
      <4> QED
        BY ZenonT(60), <2>1, <2>3, <2>4, <4>1
    <3>2. CASE ~(i <= m)
      <4>1. i \in (m + 1)..(m + n) /\ i - m \in 1..n
        BY <2>1, <3>2
      <4> QED
        BY <2>1, <2>3, <2>4, <4>1
    <3> QED
      BY <3>1, <3>2
  <2> DEFINE x == Of(p \o q)
             y == Of(p) \o Of(q)
  <2>6. x \in Seq(Seq(X)) /\ y \in Seq(Seq(X)) /\ Len(x) = Len(y)
        /\ \A i \in 1..Len(x) : x[i] = y[i]
    <3> HIDE DEF m, n, Of
    <3> QED
      BY <1>2, <2>2, <2>3, <2>5
  <2> HIDE DEF x, y
  <2>7. x = y
    BY <2>6
  <2> QED
    BY <2>7 DEF x, y
<1>4. FlattenSeq(Of(p) \o Of(q)) = FlattenSeq(Of(p)) \o FlattenSeq(Of(q))
  <2> DEFINE a == Of(p)
             b == Of(q)
  <2>1. a \in Seq(Seq(X)) /\ b \in Seq(Seq(X))
    BY <1>2
  <2> HIDE DEF a, b
  <2>2. FlattenSeq(a \o b) = FlattenSeq(a) \o FlattenSeq(b)
    BY <2>1, FlattenConcat
  <2> QED
    BY <2>2 DEF a, b
<1> QED
  BY <1>3, <1>4 DEF StatementsIn

\* A discrepancy of fewer statements is one of more.
LEMMA FindingsGrow ==
    ASSUME NEW d, NEW q \in Seq(Discrepancies(LeavesKey(d)))
    PROVE  q \in Seq(Discrepancies(Planned(d)))
<1> DEFINE D == Discrepancies(LeavesKey(d))
           E == Discrepancies(Planned(d))
<1>1. LeavesKey(d) \subseteq Planned(d)
  BY DEF LeavesKey
<1>2. D \subseteq E
  BY <1>1 DEF Discrepancies
<1>3. q \in Seq(D)
  OBVIOUS
<1> HIDE DEF D, E
<1>4. q \in Seq(E)
  BY <1>2, <1>3
<1> QED
  BY <1>4 DEF E

\* What is found in a table: but for a rate card to be restructured, nothing that
\* touches a key.
LEMMA TableFindings ==
    ASSUME NEW d, IsDatabase(d), NEW t \in Tables, NEW b \in {"none", "date", "always"}
    PROVE  \E Q \in Seq(Discrepancies(LeavesKey(d))) :
             IF /\ t = "model_pricing_rates" /\ d[t].kind # "absent"
                /\ "effective_from" \notin DOMAIN d[t].cols
             THEN CompareTable(d, t, b) = <<RateCard(d[t], b)>> \o Q
             ELSE CompareTable(d, t, b) = Q
<1> DEFINE D == Discrepancies(LeavesKey(d))
           R == d[t]
           restructured == t = "model_pricing_rates" /\ "effective_from" \notin DOMAIN R.cols
           columns == CompareColumns(d, t, IF restructured THEN {"effective_from"} ELSE {})
           key == IF restructured \/ R.key = Reference[t].key THEN << >>
                  ELSE <<Manual(t, "key")>>
           indexes == CompareIndexes(t, Reference[t].indexes, R.indexes)
           checks == CompareConstraints(t, Reference[t].checks, R)
           card == RateCard(R, b)
<1>1. /\ indexes \in Seq(D) /\ checks \in Seq(D) /\ key \in Seq(D)
      /\ <<Manual(t, "absent")>> \in Seq(D)
  <2>1. << >> \in Seq(D)
    OBVIOUS
  <2> QED
    BY <2>1, OtherFindings
<1>2. columns \in Seq(D)
  BY ColumnsFindings
<1>3. CASE R.kind = "absent"
  <2>1. CompareTable(d, t, b) = <<Manual(t, "absent")>>
    BY <1>3 DEF CompareTable
  <2> QED
    BY <1>1, <1>3, <2>1
<1>4. CASE R.kind # "absent"
  <2> DEFINE Q == columns \o key \o indexes \o checks
  <2>1. CompareTable(d, t, b) =
            (IF restructured THEN <<card>> ELSE << >>) \o columns \o key \o indexes \o checks
    BY <1>4 DEF CompareTable
  <2> DEFINE E == Discrepancies(Planned(d))
  <2>2. /\ columns \in Seq(E) /\ key \in Seq(E) /\ indexes \in Seq(E) /\ checks \in Seq(E)
    BY <1>1, <1>2, FindingsGrow
  <2>3. restructured => card \in E
    BY CardFinding
  <2> HIDE DEF E, D, columns, key, indexes, checks, card
  <2>4. Q \in Seq(D)
    BY <1>1, <1>2
  <2>5. CASE restructured
    <3>1. <<card>> \in Seq(E)
      BY <2>3, <2>5, Single
    <3> DEFINE one == <<card>>
    <3>2. one \in Seq(E)
      BY <3>1
    <3> HIDE DEF one, restructured
    <3>3. ((one \o columns) \o key) \o indexes \o checks = one \o Q
      <4>1. columns \o key \in Seq(E) /\ (columns \o key) \o indexes \in Seq(E)
        BY <2>2
      <4>2. (one \o columns) \o key = one \o (columns \o key)
        BY SMTT(60), <2>2, <3>2
      <4>3. (one \o (columns \o key)) \o indexes = one \o ((columns \o key) \o indexes)
        BY SMTT(60), <2>2, <3>2, <4>1
      <4>4. (one \o ((columns \o key) \o indexes)) \o checks
              = one \o (((columns \o key) \o indexes) \o checks)
        BY SMTT(60), <2>2, <3>2, <4>1
      <4> QED
        BY <4>2, <4>3, <4>4
    <3> QED
      BY <1>4, <2>1, <2>4, <2>5, <3>3 DEF one, D, restructured, card
  <2>6. CASE ~restructured
    <3>1. << >> \o columns = columns
      BY <1>2
    <3> QED
      BY <2>1, <2>4, <2>6, <3>1 DEF D
  <2> QED
    BY <2>5, <2>6
<1> QED
  BY <1>3, <1>4

\* The parts of a plan.
LEMMA PlanParts ==
    ASSUME NEW d, IsDatabase(d), NEW b \in {"none", "date", "always"}
    PROVE  LET U == CompareTable(d, "gateway_usage", b)
               C == CompareTable(d, "model_pricing_rates", b)
               V == CompareView(d["gateway_usage_daily"])
               D == Discrepancies(Planned(d))
               R == d["model_pricing_rates"]
           IN
           /\ PlanOf(d, b).discrepancies = (U \o C) \o V /\ PlanOf(d, b).baseline = b
           /\ U \in Seq(Discrepancies(LeavesKey(d))) /\ V \in Seq(Discrepancies(LeavesKey(d)))
           /\ U \in Seq(D) /\ C \in Seq(D) /\ V \in Seq(D)
           /\ R.kind # "absent" /\ "effective_from" \notin DOMAIN R.cols =>
                \E Q \in Seq(Discrepancies(LeavesKey(d))) : C = <<RateCard(R, b)>> \o Q
<1> DEFINE u == "gateway_usage"
           r == "model_pricing_rates"
           U == CompareTable(d, u, b)
           C == CompareTable(d, r, b)
           V == CompareView(d["gateway_usage_daily"])
           K == Discrepancies(LeavesKey(d))
           D == Discrepancies(Planned(d))
           R == d[r]
           card == RateCard(R, b)
           restructured == R.kind # "absent" /\ "effective_from" \notin DOMAIN R.cols
<1>1. u \in Tables /\ r \in Tables /\ u # r
  BY DEF Tables
<1>2. U \in Seq(K)
  <2>1. \E Q \in Seq(K) : U = Q
    BY <1>1, TableFindings
  <2> QED
    BY <2>1
<1>3. \E Q \in Seq(K) : C = IF restructured THEN <<card>> \o Q ELSE Q
  <2>1. \E Q \in Seq(K) : IF restructured THEN C = <<card>> \o Q ELSE C = Q
    BY <1>1, TableFindings
  <2> HIDE DEF restructured, C, K, card
  <2> QED
    BY <2>1
<1>4. V \in Seq(K)
  BY <1>1, OtherFindings
<1>5. U \in Seq(D) /\ V \in Seq(D)
  BY <1>2, <1>4, FindingsGrow
<1>6. C \in Seq(D)
  <2>1. PICK Q \in Seq(K) : C = IF restructured THEN <<card>> \o Q ELSE Q
    BY <1>3
  <2>2. Q \in Seq(D)
    BY FindingsGrow
  <2>3. card \in D
    BY CardFinding
  <2> HIDE DEF D, card, C, restructured
  <2>4. <<card>> \in Seq(D)
    BY <2>3, Single
  <2> DEFINE one == <<card>>
  <2> HIDE DEF one
  <2>5. one \o Q \in Seq(D)
    BY <2>2, <2>4 DEF one
  <2> QED
    BY <2>1, <2>2, <2>5 DEF one
<1>7. PlanOf(d, b).discrepancies = (U \o C) \o V /\ PlanOf(d, b).baseline = b
  BY DEF PlanOf
<1> HIDE DEF U, C, V, K, D, card
<1>8. restructured => \E Q \in Seq(K) : C = <<card>> \o Q
  BY <1>3
<1> QED
  BY <1>2, <1>4, <1>5, <1>6, <1>7, <1>8 DEF U, C, V, K, D, card

\* A plan is of discrepancies, and executes only statements that may be planned.
LEMMA PlanType ==
    ASSUME NEW d, IsDatabase(d), NEW b \in {"none", "date", "always"}
    PROVE  /\ PlanOf(d, b).discrepancies \in Seq(Discrepancies(Planned(d)))
           /\ StatementsOf(PlanOf(d, b)) \in Seq(Planned(d))
<1> DEFINE U == CompareTable(d, "gateway_usage", b)
           C == CompareTable(d, "model_pricing_rates", b)
           V == CompareView(d["gateway_usage_daily"])
           D == Discrepancies(Planned(d))
           p == PlanOf(d, b)
<1>1. p.discrepancies = (U \o C) \o V /\ U \in Seq(D) /\ C \in Seq(D) /\ V \in Seq(D)
  BY PlanParts
<1>2. p.discrepancies \in Seq(D)
  <2> HIDE DEF U, C, V, D
  <2> QED
    BY <1>1
<1>3. StatementsIn(p.discrepancies) \in Seq(Planned(d))
  <2> HIDE DEF p
  <2> QED
    BY <1>2, StatementsType
<1> QED
  BY <1>2, <1>3 DEF StatementsOf, StatementsIn

\* The key is added, and not touched after that.
KeyIsAdded(q) ==
    \E i \in DOMAIN q :
        /\ q[i] = St("add key", "model_pricing_rates", "", "none")
        /\ \A j \in DOMAIN q : j > i => q[j].op \notin {"drop key", "add key"}

\* The restructure, when it can be done: a date for the column, and the key replaced
\* once, after it was dropped.
LEMMA Restructure ==
    ASSUME NEW d, IsDatabase(d), NEW b \in {"none", "date", "always"},
           "effective_from" \notin DOMAIN d["model_pricing_rates"].cols,
           ~HasManual(PlanOf(d, b))
    PROVE  LET r == "model_pricing_rates" IN
           /\ ~d[r].twice /\ ~Unpriceable(d[r]) /\ b \in {"date", "always"}
           /\ \E i \in DOMAIN StatementsOf(PlanOf(d, b)) :
                StatementsOf(PlanOf(d, b))[i] = St("add column", r, "effective_from", b)
           /\ KeyIsAdded(StatementsOf(PlanOf(d, b)))
<1> DEFINE r == "model_pricing_rates"
           R == d[r]
           U == CompareTable(d, "gateway_usage", b)
           C == CompareTable(d, r, b)
           V == CompareView(d["gateway_usage_daily"])
           K == Discrepancies(LeavesKey(d))
           D == Discrepancies(Planned(d))
           card == RateCard(R, b)
           p == PlanOf(d, b)
           X == Planned(d)
<1>1. /\ p.discrepancies = (U \o C) \o V
      /\ U \in Seq(K) /\ V \in Seq(K)
      /\ U \in Seq(D) /\ C \in Seq(D) /\ V \in Seq(D)
      /\ R.kind # "absent" => \E Q \in Seq(K) : C = <<card>> \o Q
  BY PlanParts
<1>2. ASSUME NEW i \in 1..Len(C)
      PROVE  C[i].resolution # "manual"
  <2> DEFINE j == Len(U) + i
             all == (U \o C) \o V
  <2> HIDE DEF U, C, V, D, p
  <2>1. j \in 1..Len(all) /\ all[j] = C[i] /\ all \in Seq(D)
    BY <1>1
  <2>2. j \in DOMAIN p.discrepancies /\ p.discrepancies[j] = C[i]
    BY <1>1, <2>1
  <2>3. ~HasManual(p)
    BY DEF p
  <2> QED
    BY <2>2, <2>3 DEF HasManual
<1>3. R.kind # "absent"
  <2> SUFFICES ASSUME R.kind = "absent"
               PROVE  FALSE
    OBVIOUS
  <2>1. C = <<Manual(r, "absent")>>
    BY DEF CompareTable
  <2>2. Len(C) = 1 /\ C[1] = Manual(r, "absent")
    <3> HIDE DEF C
    <3> QED
      BY <2>1
  <2>3. 1 \in 1..Len(C)
    BY <2>2
  <2>4. C[1].resolution = "manual"
    BY <2>2 DEF Manual
  <2> QED
    BY <1>2, <2>3, <2>4
<1>4. PICK Q \in Seq(K) : C = <<card>> \o Q
  BY <1>1, <1>3
<1>5. Len(C) \in Nat /\ 1 \in 1..Len(C) /\ C[1] = card
  <2> HIDE DEF C, card, K
  <2> QED
    BY <1>4
<1>6. card # Manual(r, "card")
  BY <1>2, <1>5 DEF Manual
<1>7. ~R.twice /\ ~Unpriceable(R) /\ b \in {"date", "always"}
  BY <1>6 DEF RateCard
<1> DEFINE add == St("add column", r, "effective_from", b)
           undefault == St("drop default", r, "effective_from", "none")
           dropped == IF R.key = "none" THEN << >> ELSE <<St("drop key", r, "", "none")>>
           key == St("add key", r, "", "none")
           first == <<add, undefault>> \o dropped
<1>8. card.statements = first \o <<key>>
  BY <1>6 DEF RateCard, Automatic
<1>9. card \in D
  BY CardFinding
<1>10. add \in X /\ undefault \in X /\ St("drop key", r, "", "none") \in X /\ key \in X
  BY <1>7, CardStatements
<1>11. first \in Seq(X) /\ Len(first) \in Nat /\ first[1] = add /\ 1 \in 1..Len(first)
  <2> HIDE DEF add, undefault, X
  <2> DEFINE two == <<add, undefault>>
  <2>1. two \in Seq(X)
    BY <1>10, Pair
  <2>2. Len(two) = 2 /\ two[1] = add
    OBVIOUS
  <2>3. dropped \in Seq(X)
    <3>1. << >> \in Seq(X)
      OBVIOUS
    <3> QED
      BY <1>10, <3>1, Single
  <2> HIDE DEF two, dropped
  <2>4. /\ two \o dropped \in Seq(X) /\ (two \o dropped)[1] = two[1]
        /\ Len(two \o dropped) = 2 + Len(dropped) /\ Len(dropped) \in Nat
    <3>1. 1 \in 1..Len(two) /\ Len(dropped) \in Nat
      BY <2>2, <2>3
    <3> QED
      <4>1. two \o dropped \in Seq(X)
        BY <2>1, <2>3, Entries
      <4>2. Len(two \o dropped) = Len(two) + Len(dropped)
        BY <2>1, <2>3, Entries
      <4>3. (two \o dropped)[1] = two[1]
        BY <2>1, <2>3, <3>1, Entries
      <4> QED
        BY <2>2, <3>1, <4>1, <4>2, <4>3
  <2> QED
    BY <2>2, <2>4 DEF two
<1>12. /\ StatementsIn(p.discrepancies) = (StatementsIn(U) \o StatementsIn(C)) \o StatementsIn(V)
       /\ StatementsIn(C) = card.statements \o StatementsIn(Q)
  <2>1. Q \in Seq(D)
    BY FindingsGrow
  <2> DEFINE one == <<card>>
  <2> HIDE DEF U, C, V, D, K, p, card, X
  <2>2. one \in Seq(D)
    BY <1>9, Single
  <2>3. U \o C \in Seq(D)
    BY <1>1
  <2>4. StatementsIn((U \o C) \o V) = StatementsIn(U \o C) \o StatementsIn(V)
        /\ StatementsIn(U \o C) = StatementsIn(U) \o StatementsIn(C)
    BY <1>1, <2>3, StatementsConcat DEF D
  <2>5. StatementsIn(one) = card.statements
    <3>1. card.statements \in Seq(X)
      BY <1>9 DEF D, Discrepancies, X
    <3>2. [i \in DOMAIN one |-> one[i].statements] = <<card.statements>>
      OBVIOUS
    <3> QED
      BY <3>1, <3>2, FlattenOne DEF StatementsIn
  <2> HIDE DEF one
  <2>6. StatementsIn(one \o Q) = StatementsIn(one) \o StatementsIn(Q)
    BY <2>1, <2>2, StatementsConcat DEF D
  <2> QED
    BY <1>1, <1>4, <2>4, <2>5, <2>6 DEF one
<1> DEFINE u == StatementsIn(U)
           q == StatementsIn(Q)
           v == StatementsIn(V)
           one == <<key>>
           A == u \o first
           B == q \o v
<1>13. u \in Seq(LeavesKey(d)) /\ q \in Seq(LeavesKey(d)) /\ v \in Seq(LeavesKey(d))
  BY <1>1, <1>4, StatementsType
<1>14. LeavesKey(d) \subseteq X
  BY DEF LeavesKey
<1>15. StatementsOf(p) = (u \o ((first \o one) \o q)) \o v
  BY <1>8, <1>12 DEF StatementsOf, StatementsIn
<1>16. one \in Seq(X)
  BY <1>10, Single
<1> HIDE DEF u, q, v, one, first, X, p, add, key
<1>17. /\ u \in Seq(X) /\ q \in Seq(X) /\ v \in Seq(X) /\ first \in Seq(X)
       /\ A \in Seq(X)
       /\ B \in Seq(LeavesKey(d)) /\ B \in Seq(X)
  BY <1>11, <1>13, <1>14
<1>18. (u \o ((first \o one) \o q)) \o v = (A \o one) \o B
  <2>1. first \o one \in Seq(X) /\ A \o one \in Seq(X)
    BY <1>16, <1>17
  <2>2. u \o ((first \o one) \o q) = (u \o (first \o one)) \o q
    BY SMTT(60), <1>17, <2>1
  <2>3. u \o (first \o one) = A \o one
    BY SMTT(60), <1>16, <1>17
  <2>4. ((A \o one) \o q) \o v = (A \o one) \o B
    BY SMTT(60), <1>17, <2>1
  <2> QED
    BY <2>2, <2>3, <2>4
<1> DEFINE all == (A \o one) \o B
           k == Len(A) + 1
<1>19. all[Len(u) + 1] = add /\ Len(u) + 1 \in DOMAIN all
  <2>1. Len(u) + 1 \in 1..Len(A) /\ A[Len(u) + 1] = add
    BY <1>11, <1>17
  <2> HIDE DEF A, B
  <2> QED
    BY <1>16, <1>17, <2>1
<1>20. KeyIsAdded(all)
  <2>1. A \in Seq(X) /\ Len(one) = 1 /\ one[1] = key
    BY <1>17 DEF one
  <2> HIDE DEF A, B
  <2>2. /\ k \in DOMAIN all /\ all[k] = key
        /\ \A j \in DOMAIN all : j > k => all[j] \in LeavesKey(d)
    <3> DEFINE ao == A \o one
               n == Len(B)
    <3>1. ao \in Seq(X) /\ Len(ao) = k /\ ao[k] = key /\ k \in Nat \ {0} /\ n \in Nat
      <4>1. ao \in Seq(X) /\ Len(ao) = Len(A) + Len(one)
        BY <1>16, <1>17, Entries
      <4>2. Len(A) \in Nat /\ n \in Nat
        BY <1>17
      <4>3. k \in (Len(A) + 1)..(Len(A) + Len(one)) /\ k - Len(A) = 1
        BY <2>1, <4>2
      <4>4. ao[k] = one[k - Len(A)]
        <5> HIDE DEF k
        <5> QED
          BY <1>16, <1>17, <4>3, Entries
      <4>5. ao[k] = key
        BY <2>1, <4>3, <4>4
      <4>6. Len(ao) = k /\ k \in Nat \ {0}
        <5> HIDE DEF ao
        <5> QED
          BY <2>1, <4>1, <4>2
      <4> QED
        BY <4>1, <4>2, <4>5, <4>6
    <3>2. \A j \in 1..n : B[j] \in LeavesKey(d)
      BY <1>17
    <3> HIDE DEF ao, k, n
    <3>3. /\ ao \o B \in Seq(X) /\ Len(ao \o B) = k + Len(B)
          /\ \A j \in 1..k : (ao \o B)[j] = ao[j]
          /\ \A j \in (k + 1)..(k + Len(B)) : (ao \o B)[j] = B[j - k]
      <4>1. /\ ao \o B \in Seq(X) /\ Len(ao \o B) = Len(ao) + Len(B)
            /\ \A j \in 1..Len(ao) : (ao \o B)[j] = ao[j]
            /\ \A j \in (Len(ao) + 1)..(Len(ao) + Len(B)) : (ao \o B)[j] = B[j - Len(ao)]
        <5>1. ao \in Seq(X) /\ B \in Seq(X)
          BY <1>17, <3>1
        <5> QED
          BY <5>1, Entries
      <4> QED
        BY <3>1, <4>1
    <3>4. DOMAIN (ao \o B) = 1..(k + n) /\ k \in 1..(k + n)
      BY <3>1, <3>3 DEF n
    <3>5. ASSUME NEW j \in 1..(k + n), j > k
          PROVE  (ao \o B)[j] \in LeavesKey(d)
      <4>1. j \in (k + 1)..(k + n) /\ j - k \in 1..n
        BY <3>1, <3>5
      <4> QED
        BY <3>2, <3>3, <4>1 DEF n
    <3>6. (ao \o B)[k] = key
      BY <3>1, <3>3
    <3> QED
      BY <3>4, <3>5, <3>6 DEF ao
  <2> QED
    BY <2>2 DEF KeyIsAdded, LeavesKey, key
<1> QED
  BY <1>7, <1>15, <1>18, <1>19, <1>20 DEF p, add

-----------------------------------------------------------------------------
(* The inductive invariant *)

\* e has all that d has: its tables, columns, values, indexes and constraints, and what
\* is known of the rows.
Grown(d, e) ==
    /\ \A t \in Tables :
         /\ e[t].kind = d[t].kind
         /\ d[t].indexes \subseteq e[t].indexes /\ e[t].indexes \subseteq d[t].indexes \cup {TsIndex}
         /\ d[t].checks \subseteq e[t].checks
         /\ \A c \in DOMAIN d[t].cols :
              /\ c \in DOMAIN e[t].cols
              /\ e[t].cols[c].held = d[t].cols[c].held
              /\ e[t].cols[c].type = d[t].cols[c].type
    /\ LET R == d["model_pricing_rates"] IN
       LET S == e["model_pricing_rates"] IN
       S.twice = R.twice /\ S.solo = R.solo /\ S.bad = R.bad /\ S.referenced = R.referenced
    /\ e["taken"] = d["taken"]

\* The values of the older rows come from where they may.
TrueValue(t, c, C) ==
    /\ C.held # "now"
    /\ C.held = "one" => BackFilled(t, c)
    /\ C.held \in {"date", "always"} => c = "effective_from"
TrueValues(d) == \A t \in Tables : \A c \in DOMAIN d[t].cols : TrueValue(t, c, d[t].cols[c])

Given == {"none", "date", "always"}

Types ==
    /\ IsDatabase(db) /\ IsDatabase(Seen)
    /\ DOMAIN work \subseteq Relations
    /\ todo \in Seq(Harmless)
    /\ pc \in {"idle", "derive", "execute"}
    /\ pc # "execute" => work = << >> /\ todo = << >>
    /\ baseline \in Given
    /\ read # NoPlan => read.baseline \in Given
    /\ given # NoPlan => given.baseline = baseline
    /\ quiet \in BOOLEAN
    /\ ran \in Seq(Harmless)
    /\ pc # "idle" => ~autocommit

\* What the database is, committed and as the transaction sees it.
Databases ==
    /\ Sane(db) /\ Sane(Seen)
    /\ TrueValues(db) /\ TrueValues(Seen)
    /\ Grown(db, Seen)

\* A view that the transaction made is over relations it has locked.
ViewLocked ==
    "gateway_usage_daily" \in DOMAIN work =>
        Seen["gateway_usage_daily"].kind # "view" \/ DOMAIN work = Relations

\* What is executed, or was, is what was given and what was derived, each statement once.
Decided ==
    /\ pc # "idle" => result = "none"
    /\ pc = "derive" => ran = << >>
    /\ pc = "execute" => ran \o todo = StatementsOf(current)
    /\ result = "applied" => ran = StatementsOf(current)
    /\ pc = "execute" \/ result = "applied" =>
        /\ current.baseline = baseline
        /\ given # NoPlan => current.discrepancies = given.discrepancies

\* The date is given to the rate card and its key replaced, or it is still to be done.
Restructured ==
    LET R == Seen["model_pricing_rates"] IN
    /\ \/ \E i \in DOMAIN todo :
            todo[i] = St("add column", "model_pricing_rates", "effective_from", baseline)
       \/ /\ "effective_from" \in DOMAIN R.cols
          /\ R.cols["effective_from"].held \in {"date", "always"}
    /\ \/ KeyIsAdded(todo)
       \/ R.key = "ours" /\ \A i \in DOMAIN todo : todo[i].op \notin {"drop key", "add key"}

\* While no other tool changes anything, the plan is that of what is committed.
Undisturbed ==
    pc = "execute" /\ quiet =>
        /\ current = PlanOf(db, baseline) /\ ~HasManual(current)
        /\ todo \in Seq(Planned(db))
        /\ Seen["gateway_usage_daily"].granted # db["gateway_usage_daily"].granted =>
             Replaceable(db)
        /\ "effective_from" \notin DOMAIN db["model_pricing_rates"].cols => Restructured

IInv == Types /\ Databases /\ ViewLocked /\ Decided /\ Undisturbed

-----------------------------------------------------------------------------
(* What a statement does *)

\* The parts of Sane.
SaneColumns(R) ==
    \A c \in DOMAIN R.cols :
        /\ R.cols[c].notNull => ~R.cols[c].nulls
        /\ R.cols[c].identity => R.cols[c].notNull /\ R.cols[c].default = "none"
SaneUsage(U) == TsIndex.shape \in ShapesOf(U.indexes) => "ts" \in DOMAIN U.cols
SaneCard(R) ==
    /\ \A c \in KeyOf(R.key) : c \in DOMAIN R.cols /\ R.cols[c].notNull
    /\ CostsCheck.shape \in ShapesOf(R.checks) => "cache_cost" \in DOMAIN R.cols /\ ~R.bad
    /\ R.solo => "pricing_mode" \in DOMAIN R.cols
    /\ R.referenced => R.key # "none"
SaneView(V) == V.kind # "view" => ~V.dependents /\ ~V.granted
HasReads(d) ==
    \A t \in Tables : \A c \in Reads[t] : c \in DOMAIN d[t].cols /\ d[t].cols[c].type = "ours"
ViewReads(d) ==
    LET V == d["gateway_usage_daily"] IN V.kind = "view" /\ V.shape = "ours" => HasReads(d)
SaneTaken(d) == d.taken => TsIndex.name \notin NamesOf(d["gateway_usage"].indexes)

\* What Postgres keeps true, relation by relation.
LEMMA SaneIs ==
    ASSUME NEW d
    PROVE  Sane(d) <=> /\ \A t \in Tables : SaneColumns(d[t])
                       /\ SaneUsage(d["gateway_usage"])
                       /\ SaneCard(d["model_pricing_rates"])
                       /\ SaneView(d["gateway_usage_daily"])
                       /\ ViewReads(d)
                       /\ SaneTaken(d)
  BY DEF Sane, SaneColumns, SaneUsage, SaneCard, SaneView, ViewReads, HasReads, SaneTaken, Tables

\* A table of the database is put in the place of another.
IsTable(t, R) == IF t = "gateway_usage" THEN IsUsage(R) ELSE IsCard(R)

\* A table in the place of another: the rest of the database is as it was.
LEMMA TableReplaced ==
    ASSUME NEW d, IsDatabase(d), NEW t \in Tables, NEW R, IsTable(t, R)
    PROVE  LET e == [d EXCEPT ![t] = R] IN
           /\ IsDatabase(e) /\ e[t] = R /\ e.taken = d.taken /\ e["taken"] = d["taken"]
           /\ e["gateway_usage_daily"] = d["gateway_usage_daily"]
           /\ \A x \in Relations \ {t} : e[x] = d[x]
<1> DEFINE e == [d EXCEPT ![t] = R]
           F == {"gateway_usage", "model_pricing_rates", "gateway_usage_daily", "taken"}
<1>1. DOMAIN d = F /\ Tables \subseteq F /\ Relations \subseteq F
      /\ "gateway_usage_daily" \notin Tables /\ "taken" \notin Tables
  BY DEF IsDatabase, Tables, Relations
<1>2. /\ DOMAIN e = F /\ e[t] = R /\ \A x \in F \ {t} : e[x] = d[x]
  BY <1>1
<1>3. e = [x \in F |-> e[x]]
  BY <1>1
<1> HIDE DEF e
<1>4. e = [gateway_usage |-> e.gateway_usage, model_pricing_rates |-> e.model_pricing_rates,
           gateway_usage_daily |-> e.gateway_usage_daily, taken |-> e.taken]
  BY <1>3
<1>5. IsUsage(e.gateway_usage) /\ IsCard(e.model_pricing_rates)
  BY <1>1, <1>2 DEF IsDatabase, IsTable, Tables
<1>6. e.gateway_usage_daily = d.gateway_usage_daily /\ e.taken = d.taken
  BY <1>1, <1>2
<1>7. IsDatabase(e)
  BY <1>4, <1>5, <1>6 DEF IsDatabase
<1> QED
  BY <1>1, <1>2, <1>6, <1>7 DEF e

\* Columns are put in the place of others.
LEMMA ColumnsReplaced ==
    ASSUME NEW d, IsDatabase(d), NEW t \in Tables, NEW C, IsColumns(C)
    PROVE  LET R == d[t]
               S == [R EXCEPT !.cols = C] IN
           /\ IsTable(t, R) /\ IsTable(t, S)
           /\ S.cols = C /\ S.kind = R.kind /\ S.key = R.key
           /\ S.indexes = R.indexes /\ S.checks = R.checks
           /\ t = "model_pricing_rates" =>
                S.twice = R.twice /\ S.solo = R.solo /\ S.bad = R.bad
                /\ S.referenced = R.referenced
<1>1. CASE t = "gateway_usage"
  <2>1. IsUsage(d[t])
    BY <1>1 DEF IsDatabase
  <2> QED
    BY <1>1, <2>1 DEF IsTable, IsUsage
<1>2. CASE t = "model_pricing_rates"
  <2>1. IsCard(d[t])
    BY <1>2 DEF IsDatabase
  <2> QED
    BY <1>2, <2>1 DEF IsTable, IsCard
<1> QED
  BY <1>1, <1>2 DEF Tables

\* C2 has the columns of C, with what they hold, and maybe more.
Widened(C, C2) ==
    /\ IsColumns(C2)
    /\ \A c \in DOMAIN C :
         /\ c \in DOMAIN C2
         /\ C2[c].held = C[c].held /\ C2[c].type = C[c].type
         /\ C[c].notNull => C2[c].notNull
    /\ \A c \in DOMAIN C2 :
         /\ C2[c].notNull => ~C2[c].nulls
         /\ C2[c].identity => C2[c].notNull /\ C2[c].default = "none"

\* A database whose every table is grown and whose columns are sane reads what it read.
LEMMA ReadsGrow ==
    ASSUME NEW d, NEW e, Grown(d, e), HasReads(d)
    PROVE  HasReads(e)
<1>1. \A t \in Tables : Reads[t] \subseteq DOMAIN d[t].cols
  BY DEF HasReads
<1> QED
  BY <1>1 DEF HasReads, Grown

\* A table that has all it had, and is what Postgres keeps true of it.
LEMMA GrownTable ==
    ASSUME NEW d, IsDatabase(d), Sane(d), TrueValues(d), NEW t \in Tables, NEW S,
           IsTable(t, S), Widened(d[t].cols, S.cols),
           \A c \in DOMAIN S.cols : TrueValue(t, c, S.cols[c]),
           S.kind = d[t].kind,
           d[t].indexes \subseteq S.indexes, S.indexes \subseteq d[t].indexes \cup {TsIndex},
           d[t].checks \subseteq S.checks,
           t = "gateway_usage" => SaneUsage(S) /\ (d.taken => S.indexes = d[t].indexes),
           t = "model_pricing_rates" =>
              /\ SaneCard(S)
              /\ S.twice = d[t].twice /\ S.solo = d[t].solo /\ S.bad = d[t].bad
              /\ S.referenced = d[t].referenced
    PROVE  LET e == [d EXCEPT ![t] = S] IN
           IsDatabase(e) /\ Sane(e) /\ TrueValues(e) /\ Grown(d, e)
<1> DEFINE e == [d EXCEPT ![t] = S]
<1>1. /\ IsDatabase(e) /\ e[t] = S /\ e.taken = d.taken /\ e["taken"] = d["taken"]
      /\ e["gateway_usage_daily"] = d["gateway_usage_daily"]
      /\ \A x \in Relations \ {t} : e[x] = d[x]
  BY TableReplaced
<1> HIDE DEF e
<1>2. Tables \subseteq Relations /\ t \in {"gateway_usage", "model_pricing_rates"}
  BY DEF Relations, Tables
<1>3. Grown(d, e)
  BY <1>1, <1>2 DEF Grown, Widened, Tables
<1>4. TrueValues(e)
  BY <1>1, <1>2 DEF TrueValues
<1>5. /\ \A x \in Tables : SaneColumns(d[x])
      /\ SaneUsage(d["gateway_usage"]) /\ SaneTaken(d)
      /\ SaneCard(d["model_pricing_rates"])
      /\ SaneView(d["gateway_usage_daily"]) /\ ViewReads(d)
  BY SaneIs
<1>6. \A x \in Tables : SaneColumns(e[x])
  <2>1. SaneColumns(S)
    BY DEF SaneColumns, Widened
  <2> QED
    BY <1>1, <1>2, <1>5, <2>1
<1>7. SaneUsage(e["gateway_usage"]) /\ SaneTaken(e)
  <2>1. CASE t = "gateway_usage"
    BY <1>1, <1>5, <2>1 DEF SaneTaken
  <2>2. CASE t # "gateway_usage"
    BY <1>1, <1>5, <2>2 DEF SaneTaken, Relations, Tables
  <2> QED
    BY <2>1, <2>2
<1>8. SaneCard(e["model_pricing_rates"])
  BY <1>1, <1>2, <1>5 DEF Relations, Tables
<1>9. SaneView(e["gateway_usage_daily"]) /\ ViewReads(e)
  BY <1>1, <1>3, <1>5, ReadsGrow DEF ViewReads
<1>10. Sane(e)
  BY <1>6, <1>7, <1>8, <1>9, SaneIs
<1> QED
  BY <1>1, <1>3, <1>4, <1>10 DEF e

\* The columns of a table are widened, and nothing else.
LEMMA GrownColumns ==
    ASSUME NEW d, IsDatabase(d), Sane(d), TrueValues(d), NEW t \in Tables,
           NEW C, Widened(d[t].cols, C), \A c \in DOMAIN C : TrueValue(t, c, C[c])
    PROVE  LET e == [d EXCEPT ![t].cols = C] IN
           IsDatabase(e) /\ Sane(e) /\ TrueValues(e) /\ Grown(d, e)
<1> DEFINE R == d[t]
           S == [R EXCEPT !.cols = C]
<1>1. [d EXCEPT ![t].cols = C] = [d EXCEPT ![t] = S]
  OBVIOUS
<1>2. IsColumns(C)
  BY DEF Widened
<1>3. /\ IsTable(t, S)
      /\ S.cols = C /\ S.kind = R.kind /\ S.key = R.key
      /\ S.indexes = R.indexes /\ S.checks = R.checks
      /\ t = "model_pricing_rates" =>
           S.twice = R.twice /\ S.solo = R.solo /\ S.bad = R.bad
           /\ S.referenced = R.referenced
  BY <1>2, ColumnsReplaced
<1> HIDE DEF S
<1>4. t = "gateway_usage" => SaneUsage(S)
  <2>1. SaneUsage(d["gateway_usage"])
    BY SaneIs
  <2> QED
    BY <1>3, <2>1 DEF SaneUsage, Widened
<1>5. t = "model_pricing_rates" => SaneCard(S)
  <2>1. SaneCard(d["model_pricing_rates"])
    BY SaneIs
  <2> QED
    BY <1>3, <2>1 DEF SaneCard, Widened
<1> DEFINE e == [d EXCEPT ![t] = S]
<1>6. Widened(d[t].cols, S.cols) /\ \A c \in DOMAIN S.cols : TrueValue(t, c, S.cols[c])
  BY <1>3
<1>7. /\ d[t].indexes \subseteq S.indexes /\ S.indexes \subseteq d[t].indexes \cup {TsIndex}
      /\ d[t].checks \subseteq S.checks /\ S.kind = d[t].kind
      /\ d.taken => S.indexes = d[t].indexes
  BY <1>3
<1>8. IsDatabase(e) /\ Sane(e) /\ TrueValues(e) /\ Grown(d, e)
  BY <1>3, <1>4, <1>5, <1>6, <1>7, GrownTable
<1> QED
  BY <1>1, <1>8

\* The columns of a sane table with true values are their own widening.
LEMMA WidenedSame ==
    ASSUME NEW d, IsDatabase(d), Sane(d), TrueValues(d), NEW t \in Tables
    PROVE  /\ Widened(d[t].cols, d[t].cols)
           /\ \A c \in DOMAIN d[t].cols :
                TrueValue(t, c, d[t].cols[c]) /\ d[t].cols[c] \in Column
<1>1. IsColumns(d[t].cols)
  BY TablesHaveColumns
<1>2. SaneColumns(d[t])
  BY SaneIs
<1> QED
  BY <1>1, <1>2 DEF Widened, SaneColumns, TrueValues, IsColumns

\* A column is added.
LEMMA ColumnAdded ==
    ASSUME NEW d, IsDatabase(d), Sane(d), TrueValues(d), NEW s \in Harmless,
           s.op = "add column", Runs(d, s)
    PROVE  LET e == Effect(d, s) IN
           IsDatabase(e) /\ Sane(e) /\ TrueValues(e) /\ Grown(d, e)
<1> DEFINE t == s.on
           c == s.column
           C == d[t].cols
           A == Added(t, s)
           C2 == With(C, c, A)
           B == Reference[t].cols[c]
<1>1. /\ t \in Tables /\ c \in DOMAIN Reference[t].cols \ {"id"} /\ Known(s)
      /\ s.default \in Defaults
  BY DEF Harmless, Statement
<1>2. c \notin DOMAIN C
  BY DEF Runs
<1>3. Effect(d, s) = [d EXCEPT ![t].cols = C2]
  BY DEF Effect
<1>4. /\ B \in Column /\ c \in Names /\ B.type = "ours" /\ ~B.identity /\ B.held = "rows"
  BY <1>1, ReferenceColumn
<1>5. /\ A \in Column /\ ~A.identity /\ A.notNull = B.notNull
      /\ A.nulls = (s.default = "none")
      /\ A.held = IF s.default = "none" THEN "null" ELSE s.default
  <2>1. s.default \in {"constant", "none", "one", "date", "always"}
    BY <1>1 DEF Known
  <2> HIDE DEF B
  <2>2. A = [B EXCEPT !.default = s.default, !.nulls = s.default = "none",
                      !.held = IF s.default = "none" THEN "null" ELSE s.default]
    BY DEF Added, B
  <2> HIDE DEF A
  <2> QED
    BY <1>1, <1>4, <2>1, <2>2 DEF Column, Held
<1>6. (A.notNull => ~A.nulls) /\ TrueValue(t, c, A)
  <2>1. s.default = "none" => ~B.notNull
    BY <1>1 DEF Known
  <2>2. TrueValue(t, c, A)
    BY <1>1, <1>5 DEF Known, TrueValue
  <2> QED
    BY <1>5, <2>1, <2>2
<1>7. Widened(C, C) /\ \A x \in DOMAIN C : TrueValue(t, x, C[x]) /\ C[x] \in Column
  BY <1>1, WidenedSame
<1>8. /\ C2 = [x \in DOMAIN C2 |-> C2[x]] /\ DOMAIN C2 = DOMAIN C \cup {c}
      /\ C2[c] = A /\ \A x \in DOMAIN C : C2[x] = C[x]
  <2> HIDE DEF C, A
  <2> QED
    BY <1>2 DEF With
<1> HIDE DEF C2, A, C
<1>9. Widened(C, C2)
  BY <1>4, <1>5, <1>6, <1>7, <1>8 DEF Widened, IsColumns
<1>10. \A x \in DOMAIN C2 : TrueValue(t, x, C2[x])
  BY <1>6, <1>7, <1>8
<1>11. Widened(d[t].cols, C2)
  BY <1>9 DEF C
<1> DEFINE e == [d EXCEPT ![t].cols = C2]
<1>12. IsDatabase(e) /\ Sane(e) /\ TrueValues(e) /\ Grown(d, e)
  <2> HIDE DEF t
  <2> QED
    BY <1>1, <1>10, <1>11, GrownColumns
<1> QED
  BY <1>3, <1>12

\* A default is set or dropped, or NOT NULL is set.
LEMMA ColumnAltered ==
    ASSUME NEW d, IsDatabase(d), Sane(d), TrueValues(d), NEW s \in Harmless,
           s.op \in {"drop default", "set default", "set not null"}, Runs(d, s)
    PROVE  LET e == Effect(d, s) IN
           IsDatabase(e) /\ Sane(e) /\ TrueValues(e) /\ Grown(d, e)
<1> DEFINE t == s.on
           c == s.column
           C == d[t].cols
           A == IF s.op = "set not null" THEN [C[c] EXCEPT !.notNull = TRUE]
                ELSE [C[c] EXCEPT !.default = s.default]
           C2 == [C EXCEPT ![c] = A]
<1>1. t \in Tables /\ s.default \in Defaults
  BY DEF Harmless, Statement
<1>2. /\ c \in DOMAIN C
      /\ s.op = "set not null" => ~C[c].nulls
      /\ s.op # "set not null" => ~C[c].identity
  BY DEF Runs, Alterable
<1>3. Effect(d, s) = [d EXCEPT ![t].cols = C2]
  <2>1. CASE s.op = "set not null"
    BY <2>1 DEF Effect
  <2>2. CASE s.op # "set not null"
    BY <2>2 DEF Effect
  <2> QED
    BY <2>1, <2>2
<1>4. Widened(C, C) /\ \A x \in DOMAIN C : TrueValue(t, x, C[x]) /\ C[x] \in Column
  BY <1>1, WidenedSame
<1>5. IsColumns(C)
  BY <1>1, TablesHaveColumns
<1> HIDE DEF C
<1>6. C[c] \in Column /\ TrueValue(t, c, C[c])
      /\ (C[c].notNull => ~C[c].nulls)
      /\ (C[c].identity => C[c].notNull /\ C[c].default = "none")
  BY <1>2, <1>4 DEF Widened
<1>7. /\ A \in Column /\ A.held = C[c].held /\ A.type = C[c].type
      /\ (C[c].notNull => A.notNull) /\ (A.notNull => ~A.nulls)
      /\ (A.identity => A.notNull /\ A.default = "none")
  <2>1. CASE s.op = "set not null"
    BY <1>2, <1>6, <2>1 DEF Column
  <2>2. CASE s.op # "set not null"
    BY <1>1, <1>2, <1>6, <2>2 DEF Column
  <2> QED
    BY <2>1, <2>2
<1>8. /\ C2 = [x \in DOMAIN C2 |-> C2[x]] /\ DOMAIN C2 = DOMAIN C
      /\ C2[c] = A /\ \A x \in DOMAIN C \ {c} : C2[x] = C[x]
  <2> HIDE DEF A
  <2> QED
    BY <1>2, <1>5 DEF IsColumns
<1> HIDE DEF C2, A
<1>9. Widened(C, C2)
  BY ZenonT(60), <1>2, <1>4, <1>5, <1>7, <1>8 DEF Widened, IsColumns
<1>10. \A x \in DOMAIN C2 : TrueValue(t, x, C2[x])
  BY ZenonT(60), <1>4, <1>6, <1>7, <1>8 DEF TrueValue
<1>11. Widened(d[t].cols, C2)
  BY <1>9 DEF C
<1> DEFINE e == [d EXCEPT ![t].cols = C2]
<1>12. IsDatabase(e) /\ Sane(e) /\ TrueValues(e) /\ Grown(d, e)
  <2> HIDE DEF t
  <2> QED
    BY <1>1, <1>10, <1>11, GrownColumns
<1> QED
  BY <1>3, <1>12

\* The key is dropped or added.
LEMMA KeyChanged ==
    ASSUME NEW d, IsDatabase(d), Sane(d), TrueValues(d), NEW s \in Harmless,
           s.op \in {"drop key", "add key"}, Runs(d, s)
    PROVE  LET e == Effect(d, s) IN
           IsDatabase(e) /\ Sane(e) /\ TrueValues(e) /\ Grown(d, e)
<1> DEFINE t == "model_pricing_rates"
           R == d[t]
           C == R.cols
           ours == {"model", "effective_from"}
           C2 == IF s.op = "drop key" THEN C
                 ELSE [x \in DOMAIN C |-> IF x \in ours THEN [C[x] EXCEPT !.notNull = TRUE]
                                          ELSE C[x]]
           k == IF s.op = "drop key" THEN "none" ELSE "ours"
           S == [R EXCEPT !.key = k, !.cols = C2]
<1>1. t \in Tables /\ s.on = t /\ KeyOf("ours") = ours /\ KeyOf("none") = {}
  BY DEF Harmless, Tables, KeyOf
<1>2. IsCard(R) /\ DOMAIN R = {"kind", "key", "indexes", "checks", "cols", "twice", "solo",
                               "bad", "referenced"}
  BY DEF IsDatabase, IsCard
<1>3. DOMAIN d = {"gateway_usage", "model_pricing_rates", "gateway_usage_daily", "taken"}
  BY DEF IsDatabase
<1>4. Effect(d, s) = [d EXCEPT ![t] = S]
  <2>1. CASE s.op = "drop key"
    <3>1. Effect(d, s) = [d EXCEPT ![t].key = "none"]
      BY <1>1, <2>1 DEF Effect
    <3>2. S = [R EXCEPT !.key = "none"]
      BY <1>2, <2>1
    <3> QED
      BY <3>1, <3>2
  <2>2. CASE s.op = "add key"
    <3>1. Effect(d, s) = [d EXCEPT ![t].key = "ours", ![t].cols = C2]
      BY <1>1, <2>2 DEF Effect
    <3> HIDE DEF C2
    <3>2. [d EXCEPT ![t].key = "ours", ![t].cols = C2]
            = [d EXCEPT ![t] = [R EXCEPT !.key = "ours", !.cols = C2]]
      BY <1>3
    <3> QED
      BY <2>2, <3>1, <3>2
  <2> QED
    BY <2>1, <2>2
<1>5. Widened(C, C) /\ \A x \in DOMAIN C : TrueValue(t, x, C[x]) /\ C[x] \in Column
  BY <1>1, WidenedSame
<1>6. s.op = "add key" => \A x \in ours : x \in DOMAIN C /\ ~C[x].nulls
  BY <1>1 DEF Runs
<1>7. s.op = "drop key" => ~R.referenced
  BY <1>1 DEF Runs
<1>8. IsColumns(C)
  BY <1>2 DEF IsCard
<1>9. Widened(C, C2) /\ \A x \in DOMAIN C2 : TrueValue(t, x, C2[x])
  <2>1. CASE s.op = "drop key"
    BY <1>5, <2>1
  <2>2. CASE s.op = "add key"
    <3> HIDE DEF C
    <3>1. /\ C2 = [x \in DOMAIN C |-> C2[x]] /\ DOMAIN C2 = DOMAIN C
          /\ \A x \in DOMAIN C : C2[x] = IF x \in ours THEN [C[x] EXCEPT !.notNull = TRUE]
                                         ELSE C[x]
      BY <2>2
    <3> HIDE DEF C2
    <3>2. \A x \in DOMAIN C :
            /\ C2[x] \in Column /\ C2[x].held = C[x].held /\ C2[x].type = C[x].type
            /\ (C[x].notNull => C2[x].notNull) /\ (C2[x].notNull => ~C2[x].nulls)
            /\ (C2[x].identity => C2[x].notNull /\ C2[x].default = "none")
      <4> SUFFICES ASSUME NEW x \in DOMAIN C
                   PROVE  /\ C2[x] \in Column /\ C2[x].held = C[x].held /\ C2[x].type = C[x].type
                          /\ (C[x].notNull => C2[x].notNull) /\ (C2[x].notNull => ~C2[x].nulls)
                          /\ (C2[x].identity => C2[x].notNull /\ C2[x].default = "none")
        OBVIOUS
      <4>1. C[x] \in Column /\ (C[x].notNull => ~C[x].nulls)
            /\ (C[x].identity => C[x].notNull /\ C[x].default = "none")
        BY <1>5 DEF Widened
      <4>2. CASE x \in ours
        <5> DEFINE A == [C[x] EXCEPT !.notNull = TRUE]
        <5>1. /\ A \in Column /\ A.held = C[x].held /\ A.type = C[x].type
              /\ A.notNull = TRUE /\ A.nulls = C[x].nulls
              /\ A.identity = C[x].identity /\ A.default = C[x].default
          BY <4>1 DEF Column
        <5>2. C2[x] = A /\ ~C[x].nulls
          BY <1>6, <2>2, <3>1, <4>2
        <5> HIDE DEF A
        <5> QED
          BY <4>1, <5>1, <5>2
      <4>3. CASE x \notin ours
        BY <3>1, <4>1, <4>3
      <4> QED
        BY <4>2, <4>3
    <3> QED
      <4>1. IsColumns(C2)
        BY <1>8, <3>1, <3>2 DEF IsColumns
      <4>2. Widened(C, C2)
        BY <3>1, <3>2, <4>1 DEF Widened
      <4>3. \A x \in DOMAIN C2 : TrueValue(t, x, C2[x])
        BY <1>5, <3>1, <3>2 DEF TrueValue
      <4> QED
        BY <4>2, <4>3
  <2> QED
    BY <2>1, <2>2
<1>10. /\ S.key = k /\ S.cols = C2 /\ S.kind = R.kind /\ S.indexes = R.indexes
       /\ S.checks = R.checks /\ S.twice = R.twice /\ S.solo = R.solo /\ S.bad = R.bad
       /\ S.referenced = R.referenced
  <2> HIDE DEF R, C2, k
  <2> QED
    BY <1>2
<1>11. S = [kind |-> S.kind, key |-> S.key, indexes |-> S.indexes, checks |-> S.checks,
            cols |-> S.cols, twice |-> S.twice, solo |-> S.solo, bad |-> S.bad,
            referenced |-> S.referenced]
  <2> HIDE DEF R, C2, k
  <2>1. S = [x \in {"kind", "key", "indexes", "checks", "cols", "twice", "solo", "bad",
                   "referenced"} |-> S[x]]
    BY <1>2
  <2> HIDE DEF S
  <2> QED
    BY <2>1
<1>12. IsTable(t, S)
  <2>1. IsColumns(C2) /\ k \in Keys
    BY <1>9 DEF Widened, Keys
  <2> HIDE DEF S, C2, k, R
  <2>2. IsCard(S)
    BY <1>2, <1>10, <1>11, <2>1 DEF IsCard
  <2> QED
    BY <2>2 DEF IsTable
<1>13. SaneCard(S)
  <2>1. SaneCard(R)
    BY SaneIs
  <2>2. \A x \in KeyOf(k) : x \in DOMAIN C2 /\ C2[x].notNull
    <3>1. CASE s.op = "drop key"
      BY <1>1, <3>1
    <3>2. CASE s.op = "add key"
      <4>1. k = "ours" /\ \A x \in ours : x \in DOMAIN C
        BY <1>6, <3>2
      <4>2. \A x \in ours : x \in DOMAIN C2 /\ C2[x] = [C[x] EXCEPT !.notNull = TRUE]
        BY <3>2, <4>1
      <4>3. \A x \in ours : C[x] \in Column
        BY <1>5, <4>1
      <4> HIDE DEF C2, C
      <4> QED
        BY <1>1, <4>1, <4>2, <4>3 DEF Column
    <3> QED
      BY <3>1, <3>2
  <2>3. S.referenced => S.key # "none"
    <3>1. CASE s.op = "drop key"
      BY <1>7, <1>10, <3>1
    <3>2. CASE s.op = "add key"
      <4>1. k = "ours"
        BY <3>2
      <4> HIDE DEF k, S
      <4> QED
        BY <1>10, <4>1
    <3> QED
      BY <3>1, <3>2
  <2> HIDE DEF S, C2, k
  <2> QED
    BY <1>9, <1>10, <2>1, <2>2, <2>3 DEF SaneCard, Widened
<1> DEFINE e == [d EXCEPT ![t] = S]
<1>14. IsDatabase(e) /\ Sane(e) /\ TrueValues(e) /\ Grown(d, e)
  <2> HIDE DEF S, C2
  <2>1. Widened(d[t].cols, S.cols) /\ \A c \in DOMAIN S.cols : TrueValue(t, c, S.cols[c])
    BY <1>9, <1>10
  <2> QED
    BY <1>1, <1>10, <1>12, <1>13, <2>1, GrownTable
<1> QED
  BY <1>4, <1>14

\* The index is created.
LEMMA IndexCreated ==
    ASSUME NEW d, IsDatabase(d), Sane(d), TrueValues(d), NEW s \in Harmless,
           s.op = "create index", Runs(d, s)
    PROVE  LET e == Effect(d, s) IN
           IsDatabase(e) /\ Sane(e) /\ TrueValues(e) /\ Grown(d, e)
<1> DEFINE t == "gateway_usage"
           R == d[t]
           S == [R EXCEPT !.indexes = @ \cup {TsIndex}]
           e == [d EXCEPT ![t] = S]
<1>1. t \in Tables /\ s.on = t
  BY DEF Harmless, Tables
<1>2. Effect(d, s) = e
  BY <1>1 DEF Effect
<1>3. "ts" \in DOMAIN R.cols /\ ~d.taken
  BY <1>1 DEF Runs
<1>4. IsUsage(R) /\ TsIndex \in Object
  BY DEF IsDatabase, TsIndex, Object
<1>5. /\ DOMAIN R = {"kind", "key", "indexes", "checks", "cols"}
      /\ S = [x \in DOMAIN R |-> S[x]]
  BY <1>4 DEF IsUsage
<1>6. /\ S.key = R.key /\ S.cols = R.cols /\ S.kind = R.kind /\ S.checks = R.checks
      /\ S.indexes = R.indexes \cup {TsIndex}
  BY <1>5
<1> HIDE DEF S, R
<1>7. S = [kind |-> S.kind, key |-> S.key, indexes |-> S.indexes, checks |-> S.checks,
           cols |-> S.cols]
  BY <1>5
<1>8. IsTable(t, S) /\ SaneUsage(S)
  BY <1>3, <1>4, <1>6, <1>7 DEF IsTable, IsUsage, SaneUsage
<1>9. Widened(R.cols, R.cols) /\ \A c \in DOMAIN R.cols : TrueValue(t, c, R.cols[c])
  BY <1>1, WidenedSame DEF R
<1>10. IsDatabase(e) /\ Sane(e) /\ TrueValues(e) /\ Grown(d, e)
  BY <1>1, <1>3, <1>6, <1>8, <1>9, GrownTable DEF R
<1> QED
  BY <1>2, <1>10

\* The constraint is added.
LEMMA CheckAdded ==
    ASSUME NEW d, IsDatabase(d), Sane(d), TrueValues(d), NEW s \in Harmless,
           s.op = "add check", Runs(d, s)
    PROVE  LET e == Effect(d, s) IN
           IsDatabase(e) /\ Sane(e) /\ TrueValues(e) /\ Grown(d, e)
<1> DEFINE t == "model_pricing_rates"
           R == d[t]
           S == [R EXCEPT !.checks = @ \cup {CostsCheck}]
           e == [d EXCEPT ![t] = S]
<1>1. t \in Tables /\ s.on = t
  BY DEF Harmless, Tables
<1>2. Effect(d, s) = e
  BY <1>1 DEF Effect
<1>3. "cache_cost" \in DOMAIN R.cols /\ ~R.bad
  BY <1>1 DEF Runs
<1>4. IsCard(R) /\ CostsCheck \in Object
  BY DEF IsDatabase, CostsCheck, Object
<1>5. /\ DOMAIN R = {"kind", "key", "indexes", "checks", "cols", "twice", "solo", "bad",
                     "referenced"}
      /\ S = [x \in DOMAIN R |-> S[x]]
  BY <1>4 DEF IsCard
<1>6. /\ S.key = R.key /\ S.cols = R.cols /\ S.kind = R.kind /\ S.indexes = R.indexes
      /\ S.checks = R.checks \cup {CostsCheck} /\ S.twice = R.twice /\ S.solo = R.solo
      /\ S.bad = R.bad /\ S.referenced = R.referenced
  BY <1>5
<1> HIDE DEF S, R
<1>7. S = [kind |-> S.kind, key |-> S.key, indexes |-> S.indexes, checks |-> S.checks,
           cols |-> S.cols, twice |-> S.twice, solo |-> S.solo, bad |-> S.bad,
           referenced |-> S.referenced]
  BY <1>5
<1>8. IsTable(t, S)
  <2>1. IsCard(S)
    BY <1>4, <1>6, <1>7 DEF IsCard
  <2> QED
    BY <2>1 DEF IsTable
<1>9. SaneCard(S)
  <2>1. SaneCard(R)
    BY SaneIs DEF R
  <2> QED
    BY <1>3, <1>6, <2>1 DEF SaneCard
<1>10. Widened(R.cols, R.cols) /\ \A c \in DOMAIN R.cols : TrueValue(t, c, R.cols[c])
  BY <1>1, WidenedSame DEF R
<1>11. IsDatabase(e) /\ Sane(e) /\ TrueValues(e) /\ Grown(d, e)
  BY <1>1, <1>6, <1>8, <1>9, <1>10, GrownTable DEF R
<1> QED
  BY <1>2, <1>11

\* The view is dropped, or created over columns that are there.
LEMMA ViewChanged ==
    ASSUME NEW d, IsDatabase(d), Sane(d), TrueValues(d), NEW s \in Harmless,
           s.op \in {"drop view", "create view"}, Runs(d, s)
    PROVE  LET e == Effect(d, s) IN
           /\ IsDatabase(e) /\ Sane(e) /\ TrueValues(e) /\ Grown(d, e)
           /\ s.op = "drop view" => e["gateway_usage_daily"].kind # "view"
<1> DEFINE v == "gateway_usage_daily"
           V == d[v]
           W == IF s.op = "drop view" THEN [V EXCEPT !.kind = "absent", !.granted = FALSE]
                ELSE [V EXCEPT !.kind = "view", !.shape = "ours"]
           e == [d EXCEPT ![v] = W]
           F == {"gateway_usage", "model_pricing_rates", "gateway_usage_daily", "taken"}
<1>1. s.on = v /\ v \in F /\ Tables \subseteq F /\ v \notin Tables /\ DOMAIN d = F
  BY DEF Harmless, Tables, IsDatabase
<1>2. Effect(d, s) = e
  BY <1>1 DEF Effect
<1>3. IsView(V) /\ SaneView(V)
  BY SaneIs DEF IsDatabase
<1>4. /\ IsView(W) /\ W.dependents = V.dependents
      /\ s.op = "drop view" => W.kind = "absent" /\ W.granted = FALSE
      /\ s.op = "create view" => W.kind = "view"
  BY <1>3 DEF IsView, Kinds
<1>5. SaneView(W)
  <2>1. s.op = "drop view" => ~V.dependents
    BY <1>1 DEF Runs
  <2> HIDE DEF W
  <2> QED
    BY <1>4, <2>1 DEF SaneView
<1>6. s.op = "create view" => HasReads(d)
  BY <1>1 DEF Runs, HasReads
<1> HIDE DEF W
<1>7. DOMAIN e = F /\ e[v] = W /\ (\A x \in F \ {v} : e[x] = d[x]) /\ e = [x \in F |-> e[x]]
  BY <1>1
<1> HIDE DEF e
<1>8. IsDatabase(e)
  <2>1. e = [gateway_usage |-> e.gateway_usage, model_pricing_rates |-> e.model_pricing_rates,
             gateway_usage_daily |-> e.gateway_usage_daily, taken |-> e.taken]
    BY <1>7
  <2>2. /\ e.gateway_usage = d.gateway_usage /\ e.model_pricing_rates = d.model_pricing_rates
        /\ e.gateway_usage_daily = W /\ e.taken = d.taken
    BY <1>7
  <2> QED
    BY <1>4, <2>1, <2>2 DEF IsDatabase
<1>9. \A t \in Tables : e[t] = d[t]
  BY <1>1, <1>7
<1>10. TrueValues(e)
  BY <1>9 DEF TrueValues
<1>11. Grown(d, e)
  <2>1. e["model_pricing_rates"] = d["model_pricing_rates"] /\ e["taken"] = d["taken"]
    BY <1>7
  <2> QED
    BY <1>9, <2>1 DEF Grown
<1>12. Sane(e)
  <2>1. /\ e["gateway_usage"] = d["gateway_usage"] /\ e.taken = d.taken
        /\ e["model_pricing_rates"] = d["model_pricing_rates"]
    BY <1>7
  <2>2. ViewReads(e)
    <3>1. s.op = "create view" => HasReads(e)
      BY <1>6, <1>11, ReadsGrow
    <3> QED
      BY <1>4, <1>7, <3>1 DEF ViewReads
  <2>3. (\A t \in Tables : SaneColumns(e[t])) /\ SaneUsage(e["gateway_usage"])
        /\ SaneCard(e["model_pricing_rates"]) /\ SaneTaken(e)
    BY <1>9, <2>1, SaneIs DEF SaneTaken
  <2> QED
    BY <1>5, <1>7, <2>2, <2>3, SaneIs
<1> QED
  BY <1>2, <1>4, <1>7, <1>8, <1>10, <1>11, <1>12

\* Every statement of a plan keeps the database one, adds to it, and makes nothing up.
LEMMA StatementKeeps ==
    ASSUME NEW d, IsDatabase(d), Sane(d), TrueValues(d), NEW s \in Harmless, Runs(d, s)
    PROVE  LET e == Effect(d, s) IN
           /\ IsDatabase(e) /\ Sane(e) /\ TrueValues(e) /\ Grown(d, e)
           /\ s.op = "drop view" => e["gateway_usage_daily"].kind # "view"
<1>1. s.op \in {"add column", "drop default", "set default", "set not null", "drop key",
                "add key", "create index", "add check", "drop view", "create view"}
  BY DEF Harmless, Statement
<1> QED
  BY <1>1, ColumnAdded, ColumnAltered, KeyChanged, IndexCreated, CheckAdded, ViewChanged

-----------------------------------------------------------------------------
(* What other tools do *)

\* A table, field by field.
Fields(t) ==
    {"kind", "key", "indexes", "checks", "cols"}
    \cup (IF t = "gateway_usage" THEN {} ELSE {"twice", "solo", "bad", "referenced"})

\* The fields of a table, and their types.
LEMMA TableIs ==
    ASSUME NEW t \in Tables, NEW R
    PROVE  IsTable(t, R) <=>
             /\ R = [x \in Fields(t) |-> R[x]]
             /\ R.kind \in Kinds /\ R.key \in Keys /\ IsColumns(R.cols)
             /\ R.indexes \subseteq Object /\ R.checks \subseteq Object
             /\ t # "gateway_usage" => {R.twice, R.solo, R.bad, R.referenced} \subseteq BOOLEAN
<1>1. CASE t = "gateway_usage"
  <2>1. R = [kind |-> R.kind, key |-> R.key, indexes |-> R.indexes, checks |-> R.checks,
             cols |-> R.cols] <=> R = [x \in Fields(t) |-> R[x]]
    BY <1>1 DEF Fields
  <2> QED
    BY <1>1, <2>1 DEF IsTable, IsUsage
<1>2. CASE t # "gateway_usage"
  <2>1. R = [kind |-> R.kind, key |-> R.key, indexes |-> R.indexes, checks |-> R.checks,
             cols |-> R.cols, twice |-> R.twice, solo |-> R.solo, bad |-> R.bad,
             referenced |-> R.referenced] <=> R = [x \in Fields(t) |-> R[x]]
    BY <1>2 DEF Fields
  <2> QED
    BY <1>2, <2>1 DEF IsTable, IsCard
<1> QED
  BY <1>1, <1>2

\* Columns whose values come from where they may.
TrueColumns(t, C) == IsColumns(C) /\ \A c \in DOMAIN C : TrueValue(t, c, C[c])

\* A table with other columns, or none.
LEMMA OtherColumns ==
    ASSUME NEW t \in Tables, NEW R, IsTable(t, R), NEW S,
           S = [x \in Fields(t) |-> S[x]],
           S.kind \in Kinds, S.key \in Keys, TrueColumns(t, S.cols),
           S.indexes \subseteq Object, S.checks \subseteq Object,
           t # "gateway_usage" => {S.twice, S.solo, S.bad, S.referenced} \subseteq BOOLEAN
    PROVE  IsTable(t, S) /\ TrueColumns(t, S.cols)
  BY TableIs DEF TrueColumns

\* The shapes a column is given say nothing of where its values are from.
LEMMA ShapesType ==
    ASSUME NEW t \in Tables, NEW c \in ColumnsOf(t), NEW F \in Shapes(c)
    PROVE  c \in Names /\ F \in Column /\ F.held = "rows"
<1> DEFINE ours == IF c \in DOMAIN Reference.gateway_usage.cols
                   THEN Reference.gateway_usage.cols[c]
                   ELSE IF c \in DOMAIN Reference.model_pricing_rates.cols
                        THEN Reference.model_pricing_rates.cols[c]
                        ELSE Required("none")
<1>1. c \in Names /\ c # "id"
  <2>1. CASE t = "gateway_usage"
    BY <2>1, ReferenceIs, NamesAre DEF ColumnsOf, UsageNames
  <2>2. CASE t = "model_pricing_rates"
    BY <2>2, ReferenceIs, NamesAre DEF ColumnsOf, CardNames
  <2> QED
    BY <2>1, <2>2 DEF Tables
<1>2. Required("none") \in Column /\ Required("none").held = "rows"
  BY DEF Required, Column, Held, Defaults
<1>3. ours \in Column /\ ours.held = "rows"
  <2>1. c \in DOMAIN Reference["gateway_usage"].cols =>
            /\ Reference["gateway_usage"].cols[c] \in Column
            /\ Reference["gateway_usage"].cols[c].held = "rows"
    BY <1>1, ReferenceColumn DEF Tables
  <2>2. c \in DOMAIN Reference["model_pricing_rates"].cols =>
            /\ Reference["model_pricing_rates"].cols[c] \in Column
            /\ Reference["model_pricing_rates"].cols[c].held = "rows"
    BY <1>1, ReferenceColumn DEF Tables
  <2> QED
    BY <1>2, <2>1, <2>2
<1>4. F \in {ours,
             [ours EXCEPT !.type = "other"],
             [ours EXCEPT !.notNull = TRUE, !.nulls = FALSE],
             [ours EXCEPT !.notNull = FALSE, !.nulls = FALSE],
             [ours EXCEPT !.notNull = FALSE, !.nulls = TRUE],
             [ours EXCEPT !.default = IF ours.default = "none" THEN "other" ELSE "none"],
             [Required("none") EXCEPT !.identity = TRUE],
             [ours EXCEPT !.generated = TRUE, !.default = "other"]}
  BY DEF Shapes
<1> HIDE DEF ours
<1> DEFINE req == Required("none")
<1> HIDE DEF req
<1>5. req \in Column /\ req.held = "rows"
  BY <1>2 DEF req
<1>6. [req EXCEPT !.identity = TRUE] \in Column /\ [req EXCEPT !.identity = TRUE].held = "rows"
  BY <1>5 DEF Column
<1>7. F \in Column /\ F.held = "rows"
  BY ZenonT(60), <1>3, <1>4, <1>6 DEF Column, Defaults, req
<1> QED
  BY <1>1, <1>7

\* Columns that are there no longer, changed, or made absent.
LEMMA NoColumns ==
    ASSUME NEW t
    PROVE  TrueColumns(t, << >>)
  BY DEF TrueColumns, IsColumns

\* What another tool makes of a table is a table, of true values.
LEMMA EditedTable ==
    ASSUME NEW d, IsDatabase(d), TrueValues(d), NEW t \in Tables, NEW S \in EditsOf(d, t)
    PROVE  IsTable(t, S) /\ TrueColumns(t, S.cols)
<1> DEFINE R == d[t]
           C == R.cols
           Good(T) == IsTable(t, T) /\ TrueColumns(t, T.cols)
<1>1. IsTable(t, R) /\ TrueColumns(t, C)
  <2>1. IsTable(t, R)
    BY DEF IsDatabase, IsTable, Tables
  <2> QED
    BY <2>1, TableIs DEF TrueColumns, TrueValues
<1>2. /\ R = [x \in Fields(t) |-> R[x]] /\ DOMAIN R = Fields(t)
      /\ R.kind \in Kinds /\ R.key \in Keys
      /\ R.indexes \subseteq Object /\ R.checks \subseteq Object
      /\ t # "gateway_usage" => {R.twice, R.solo, R.bad, R.referenced} \subseteq BOOLEAN
  BY <1>1, TableIs
<1>3. {"kind", "key", "indexes", "checks", "cols"} \subseteq Fields(t)
  BY DEF Fields
<1>4. t # "gateway_usage_daily" /\ {"table", "view", "absent"} \subseteq Kinds
      /\ {"ours", "none"} \subseteq Keys
  BY DEF Tables, Kinds, Keys
<1>5. CASE R.kind # "table"
  <2>1. S = Reference[t]
    BY <1>4, <1>5 DEF EditsOf
  <2>2. IsTable(t, S)
    BY <2>1, ReferenceIs DEF IsDatabase, IsTable, Tables
  <2>3. TrueColumns(t, S.cols)
    <3>1. IsColumns(S.cols)
      BY <2>2, TableIs
    <3>2. \A c \in DOMAIN S.cols : S.cols[c].held = "rows"
      <4>1. \A c \in DOMAIN S.cols \ {"id"} : S.cols[c].held = "rows"
        BY <2>1, ReferenceColumn
      <4>2. "id" \in DOMAIN S.cols => S.cols["id"].held = "rows"
        BY <2>1, ReferenceIs DEF Tables, CardNames, Reference, Required
      <4> QED
        BY <4>1, <4>2
    <3> QED
      BY <3>1, <3>2 DEF TrueColumns, TrueValue
  <2> QED
    BY <2>2, <2>3
<1>6. ASSUME NEW C2, TrueColumns(t, C2)
      PROVE  Good([R EXCEPT !.cols = C2])
  <2> DEFINE T == [R EXCEPT !.cols = C2]
  <2>1. IsColumns(C2)
    BY <1>6 DEF TrueColumns
  <2>2. IsTable(t, T) /\ T.cols = C2
    BY <2>1, ColumnsReplaced
  <2> QED
    BY <1>6, <2>2
<1>7. ASSUME NEW c \in ColumnsOf(t)
      PROVE  Good(DropColumn(R, c))
  <2> DEFINE T == DropColumn(R, c)
  <2>1. TrueColumns(t, Without(C, c))
    <3> HIDE DEF C
    <3>1. /\ DOMAIN Without(C, c) = DOMAIN C \ {c}
          /\ Without(C, c) = [x \in DOMAIN C \ {c} |-> C[x]]
          /\ \A x \in DOMAIN C \ {c} : Without(C, c)[x] = C[x]
      BY DEF Without
    <3> QED
      BY <1>1, <3>1 DEF TrueColumns, IsColumns
  <2> DEFINE k == IF c \in {"model", "effective_from", "pricing_mode"} THEN "none" ELSE R.key
             i == IF c = "ts" THEN {} ELSE R.indexes
             ch == IF c = "cache_cost" THEN {} ELSE R.checks
  <2>2. T = [R EXCEPT !.cols = Without(C, c), !.key = k, !.indexes = i, !.checks = ch]
    <3> HIDE DEF R
    <3> QED
      BY <1>2, <1>3 DEF DropColumn
  <2>3. k \in Keys /\ i \subseteq Object /\ ch \subseteq Object
    BY <1>2, <1>4
  <2> HIDE DEF T, C, R, k, i, ch
  <2>4. T = [x \in Fields(t) |-> T[x]]
    BY <1>2, <2>2
  <2>5. /\ T.kind = R.kind /\ T.key = k /\ T.cols = Without(C, c)
        /\ T.indexes = i /\ T.checks = ch
        /\ t # "gateway_usage" => T.twice = R.twice /\ T.solo = R.solo /\ T.bad = R.bad
                                  /\ T.referenced = R.referenced
    BY <1>2, <1>3, <2>2 DEF Fields
  <2> QED
    BY <1>1, <1>2, <2>1, <2>3, <2>4, <2>5, OtherColumns DEF T
<1>8. ASSUME NEW c \in ColumnsOf(t), NEW F \in Shapes(c)
      PROVE  TrueColumns(t, With(C, c, F))
  <2>1. c \in Names /\ F \in Column /\ TrueValue(t, c, F)
    BY ShapesType DEF TrueValue
  <2> HIDE DEF C
  <2>2. /\ DOMAIN With(C, c, F) = DOMAIN C \cup {c}
        /\ With(C, c, F) = [x \in DOMAIN C \cup {c} |-> With(C, c, F)[x]]
        /\ With(C, c, F)[c] = F
        /\ \A x \in DOMAIN C \ {c} : With(C, c, F)[x] = C[x]
    BY DEF With
  <2> QED
    BY <1>1, <2>1, <2>2 DEF TrueColumns, IsColumns
<1>9. Good(Absent(R))
  <2> DEFINE T == Absent(R)
  <2>1. TrueColumns(t, << >>)
    BY NoColumns
  <2>2. T = [R EXCEPT !.kind = "absent", !.cols = << >>, !.key = "none", !.indexes = {},
                      !.checks = {}]
    BY DEF Absent
  <2> HIDE DEF T, R
  <2>3. T = [x \in Fields(t) |-> T[x]]
    BY <1>2, <2>2
  <2>4. /\ T.kind = "absent" /\ T.key = "none" /\ T.cols = << >>
        /\ T.indexes = {} /\ T.checks = {}
        /\ t # "gateway_usage" => T.twice = R.twice /\ T.solo = R.solo /\ T.bad = R.bad
                                  /\ T.referenced = R.referenced
    BY <1>2, <1>3, <2>2 DEF Fields
  <2> QED
    BY <1>1, <1>2, <1>4, <2>1, <2>3, <2>4, OtherColumns DEF T
<1>10. Good(AsView(R))
  <2> DEFINE T == AsView(R)
             C2 == [c \in DOMAIN C |-> [C[c] EXCEPT !.notNull = FALSE, !.default = "none"]]
  <2>1. TrueColumns(t, C2)
    <3> HIDE DEF C
    <3>1. \A c \in DOMAIN C : C[c] \in Column /\ TrueValue(t, c, C[c])
      BY <1>1 DEF TrueColumns, IsColumns
    <3>2. \A c \in DOMAIN C : C2[c] \in Column /\ C2[c].held = C[c].held
      BY <3>1 DEF Column, Defaults
    <3>3. C2 = [c \in DOMAIN C |-> C2[c]] /\ DOMAIN C2 = DOMAIN C /\ DOMAIN C \subseteq Names
      BY <1>1 DEF TrueColumns, IsColumns
    <3> HIDE DEF C2
    <3> QED
      BY <3>1, <3>2, <3>3 DEF TrueColumns, IsColumns, TrueValue
  <2>2. T = [R EXCEPT !.kind = "view", !.key = "none", !.indexes = {}, !.checks = {},
                      !.cols = C2]
    <3> HIDE DEF R
    <3> QED
      BY <1>2, <1>3 DEF AsView
  <2> HIDE DEF T, R, C2
  <2>3. T = [x \in Fields(t) |-> T[x]]
    BY <1>2, <2>2
  <2>4. /\ T.kind = "view" /\ T.key = "none" /\ T.cols = C2
        /\ T.indexes = {} /\ T.checks = {}
        /\ t # "gateway_usage" => T.twice = R.twice /\ T.solo = R.solo /\ T.bad = R.bad
                                  /\ T.referenced = R.referenced
    BY <1>2, <1>3, <2>2 DEF Fields
  <2> QED
    BY <1>1, <1>2, <1>4, <2>1, <2>3, <2>4, OtherColumns DEF T
<1>11. Good([R EXCEPT !.key = "none"])
  <2> DEFINE T == [R EXCEPT !.key = "none"]
  <2> HIDE DEF R
  <2>1. T = [x \in Fields(t) |-> T[x]]
    BY <1>2
  <2>2. /\ T.kind = R.kind /\ T.key = "none" /\ T.cols = R.cols
        /\ T.indexes = R.indexes /\ T.checks = R.checks
        /\ t # "gateway_usage" => T.twice = R.twice /\ T.solo = R.solo /\ T.bad = R.bad
                                  /\ T.referenced = R.referenced
    BY <1>2, <1>3 DEF Fields
  <2> HIDE DEF T
  <2> QED
    BY <1>1, <1>2, <1>4, <2>1, <2>2, OtherColumns DEF T
<1>12. ASSUME NEW i \in SUBSET Object, t = "gateway_usage"
      PROVE  Good([R EXCEPT !.indexes = i])
  <2> DEFINE T == [R EXCEPT !.indexes = i]
  <2> HIDE DEF R
  <2>1. T = [x \in Fields(t) |-> T[x]]
    BY <1>2
  <2>2. /\ T.kind = R.kind /\ T.key = R.key /\ T.cols = R.cols
        /\ T.indexes = i /\ T.checks = R.checks
    BY <1>2, <1>3
  <2> HIDE DEF T
  <2> QED
    BY <1>1, <1>2, <1>12, <2>1, <2>2, OtherColumns DEF T
<1>13. ASSUME NEW c \in SUBSET Object
      PROVE  Good([R EXCEPT !.checks = c])
  <2> DEFINE T == [R EXCEPT !.checks = c]
  <2> HIDE DEF R
  <2>1. T = [x \in Fields(t) |-> T[x]]
    BY <1>2
  <2>2. /\ T.kind = R.kind /\ T.key = R.key /\ T.cols = R.cols
        /\ T.indexes = R.indexes /\ T.checks = c
        /\ t # "gateway_usage" => T.twice = R.twice /\ T.solo = R.solo /\ T.bad = R.bad
                                  /\ T.referenced = R.referenced
    BY <1>2, <1>3 DEF Fields
  <2> HIDE DEF T
  <2> QED
    BY <1>1, <1>2, <2>1, <2>2, OtherColumns DEF T
<1>14. ASSUME t # "gateway_usage", NEW T,
             T \in {[R EXCEPT !.twice = ~@], [R EXCEPT !.solo = ~@],
                    [R EXCEPT !.bad = ~@, !.checks = {}], [R EXCEPT !.referenced = TRUE]}
      PROVE  Good(T)
  <2> HIDE DEF R
  <2>1. T = [x \in Fields(t) |-> T[x]]
    BY <1>2, <1>14
  <2>2. /\ T.kind = R.kind /\ T.key = R.key /\ T.cols = R.cols
        /\ T.indexes = R.indexes /\ T.checks \in {R.checks, {}}
        /\ {T.twice, T.solo, T.bad, T.referenced} \subseteq BOOLEAN
    BY <1>2, <1>14 DEF Fields
  <2>3. T.checks \subseteq Object
    BY <1>2, <2>2
  <2> QED
    BY <1>1, <1>2, <2>1, <2>2, <2>3, OtherColumns DEF R
<1> DEFINE P1 == {Absent(R), AsView(R), [R EXCEPT !.key = "none"]}
<1>15. CASE S \in P1
  <2> HIDE DEF R
  <2> QED
    BY <1>9, <1>10, <1>11, <1>15 DEF R
<1>16. CASE \E c \in ColumnsOf(t) : S = DropColumn(R, c)
  BY <1>7, <1>16
<1>17. CASE \E c \in ColumnsOf(t) : \E F \in Shapes(c) : S = [R EXCEPT !.cols = With(@, c, F)]
  <2>1. PICK c \in ColumnsOf(t) : \E F \in Shapes(c) : S = [R EXCEPT !.cols = With(@, c, F)]
    BY <1>17
  <2>2. PICK F \in Shapes(c) : S = [R EXCEPT !.cols = With(C, c, F)]
    BY <2>1
  <2> QED
    BY <1>6, <1>8, <2>2
<1>18. CASE t = "gateway_usage" /\ S \in UsageEdits(R)
  <2>1. {{}, {TsIndex}, {[TsIndex EXCEPT !.name = "own"]},
         {[TsIndex EXCEPT !.shape = "other"]}} \subseteq SUBSET Object
    BY DEF TsIndex, Object
  <2> QED
    BY <1>12, <1>18, <2>1 DEF UsageEdits
<1>19. CASE t # "gateway_usage" /\ S \in CardEdits(R)
  <2>1. {{}, {[CostsCheck EXCEPT !.name = "own"]},
         {[CostsCheck EXCEPT !.shape = "other"]}} \subseteq SUBSET Object
    BY DEF CostsCheck, Object
  <2>2. \/ S \in {[R EXCEPT !.twice = ~@], [R EXCEPT !.solo = ~@],
                 [R EXCEPT !.bad = ~@, !.checks = {}], [R EXCEPT !.referenced = TRUE]}
        \/ S = [R EXCEPT !.checks = {}]
        \/ S = [R EXCEPT !.checks = {[CostsCheck EXCEPT !.name = "own"]}]
        \/ S = [R EXCEPT !.checks = {[CostsCheck EXCEPT !.shape = "other"]}]
    <3> HIDE DEF R
    <3> QED
      BY <1>19 DEF CardEdits
  <2> HIDE DEF R, C
  <2> QED
    BY <1>13, <1>14, <1>19, <2>1, <2>2
<1>20. CASE R.kind = "table"
  <2>1. S \in P1 \cup ColumnEdits(t, R)
              \cup (IF t = "gateway_usage" THEN UsageEdits(R) ELSE CardEdits(R))
    BY <1>4, <1>20 DEF EditsOf
  <2>2. CASE S \in ColumnEdits(t, R)
    <3> HIDE DEF R
    <3> QED
      BY <1>16, <1>17, <2>2 DEF ColumnEdits
  <2> HIDE DEF P1, R
  <2> QED
    BY <1>15, <1>18, <1>19, <2>1, <2>2
<1> QED
  BY <1>5, <1>20

\* A relation of the database is put in the place of another.
IsRelation(r, R) == IF r = "gateway_usage_daily" THEN IsView(R) ELSE IsTable(r, R)

\* The rest of the database is as it was.
LEMMA RelationReplaced ==
    ASSUME NEW d, IsDatabase(d), NEW r \in Relations, NEW R, IsRelation(r, R)
    PROVE  LET e == [d EXCEPT ![r] = R] IN
           /\ IsDatabase(e) /\ e[r] = R /\ e["taken"] = d["taken"]
           /\ \A x \in Relations \ {r} : e[x] = d[x]
<1>1. CASE r \in Tables
  <2>1. r # "gateway_usage_daily"
    BY <1>1 DEF Tables
  <2> QED
    BY <1>1, <2>1, TableReplaced DEF IsRelation
<1>2. CASE r = "gateway_usage_daily"
  <2> DEFINE e == [d EXCEPT ![r] = R]
             F == {"gateway_usage", "model_pricing_rates", "gateway_usage_daily", "taken"}
  <2>1. DOMAIN d = F /\ Relations \subseteq F /\ r \in F /\ r # "taken"
    BY <1>2 DEF IsDatabase, Relations, Tables
  <2>2. /\ DOMAIN e = F /\ e[r] = R /\ (\A x \in F \ {r} : e[x] = d[x])
        /\ e = [x \in F |-> e[x]]
    BY <2>1
  <2> HIDE DEF e
  <2>3. e = [gateway_usage |-> e.gateway_usage, model_pricing_rates |-> e.model_pricing_rates,
             gateway_usage_daily |-> e.gateway_usage_daily, taken |-> e.taken]
    BY <2>2
  <2>4. /\ e.gateway_usage = d.gateway_usage /\ e.model_pricing_rates = d.model_pricing_rates
        /\ e.gateway_usage_daily = R /\ e.taken = d.taken
    BY <1>2, <2>2
  <2>5. IsDatabase(e)
    BY <1>2, <2>3, <2>4 DEF IsDatabase, IsRelation
  <2> QED
    BY <2>1, <2>2, <2>5 DEF e
<1> QED
  BY <1>1, <1>2 DEF Relations

\* What another tool makes of a relation is one, of true values.
LEMMA EditedRelation ==
    ASSUME NEW d, IsDatabase(d), TrueValues(d), NEW r \in Relations, NEW S \in EditsOf(d, r)
    PROVE  /\ IsRelation(r, S)
           /\ r \in Tables => \A c \in DOMAIN S.cols : TrueValue(r, c, S.cols[c])
<1>1. CASE r \in Tables
  <2>1. r # "gateway_usage_daily"
    BY <1>1 DEF Tables
  <2> QED
    BY <1>1, <2>1, EditedTable DEF IsRelation, TrueColumns
<1>2. CASE r = "gateway_usage_daily"
  <2>1. r \notin Tables
    BY <1>2 DEF Tables
  <2>2. S \in ViewEdits(d[r])
    BY <1>2, <2>1 DEF EditsOf
  <2>3. IsView(d[r])
    BY <1>2 DEF IsDatabase
  <2>4. IsView(S)
    <3> DEFINE V == d[r]
    <3> HIDE DEF V
    <3>1. S \in ViewEdits(V) /\ IsView(V)
      BY <2>2, <2>3 DEF V
    <3>2. CASE S \in {[kind |-> k, shape |-> s, dependents |-> FALSE, granted |-> FALSE] :
                        k \in {"view", "table"}, s \in {"ours", "other"}}
      <4>1. PICK k \in {"view", "table"}, s \in {"ours", "other"} :
              S = [kind |-> k, shape |-> s, dependents |-> FALSE, granted |-> FALSE]
        BY <3>2
      <4>2. S.kind = k /\ S.shape = s /\ S.dependents = FALSE /\ S.granted = FALSE
        BY <4>1
      <4> QED
        BY <4>1, <4>2 DEF IsView, Kinds
    <3>3. CASE S \in {[V EXCEPT !.kind = "absent", !.dependents = FALSE, !.granted = FALSE],
                     [V EXCEPT !.dependents = TRUE], [V EXCEPT !.granted = TRUE]}
      BY <3>1, <3>3 DEF IsView, Kinds
    <3> QED
      BY <3>1, <3>2, <3>3 DEF ViewEdits
  <2> QED
    BY <1>2, <2>1, <2>4 DEF IsRelation
<1> QED
  BY <1>1, <1>2 DEF Relations

\* A database has grown to itself.
LEMMA GrownSame ==
    ASSUME NEW d
    PROVE  Grown(d, d)
  BY DEF Grown

\* The domain of what the transaction sees.
LEMMA SeenIs ==
    ASSUME Types
    PROVE  /\ DOMAIN db = {"gateway_usage", "model_pricing_rates", "gateway_usage_daily", "taken"}
           /\ DOMAIN Seen = DOMAIN db
           /\ Relations \subseteq DOMAIN db /\ "taken" \in DOMAIN db /\ "taken" \notin Relations
           /\ Tables \subseteq Relations /\ "gateway_usage_daily" \in Relations
           /\ \A x \in DOMAIN db : Seen[x] = IF x \in DOMAIN work THEN work[x] ELSE db[x]
  BY DEF Types, IsDatabase, Seen, Relations, Tables

\* What another tool changes, it changes for the transaction as well, if it is free.
LEMMA EditKeeps ==
    ASSUME Types, Databases, ViewLocked, Edit
    PROVE  (IsDatabase(db) /\ IsDatabase(Seen) /\ Databases /\ ViewLocked)'
<1>1. /\ IsDatabase(db) /\ IsDatabase(Seen)
      /\ Sane(db) /\ Sane(Seen) /\ TrueValues(db) /\ TrueValues(Seen) /\ Grown(db, Seen)
  BY DEF Types, Databases
<1>2. Sane(db') /\ work' = work
  BY DEF Edit, apply
<1>3. /\ DOMAIN db = {"gateway_usage", "model_pricing_rates", "gateway_usage_daily", "taken"}
      /\ DOMAIN Seen = DOMAIN db
      /\ Relations \subseteq DOMAIN db /\ "taken" \in DOMAIN db /\ "taken" \notin Relations
      /\ Tables \subseteq Relations /\ "gateway_usage_daily" \in Relations
      /\ \A x \in DOMAIN db : Seen[x] = IF x \in DOMAIN work THEN work[x] ELSE db[x]
      /\ DOMAIN work \subseteq Relations
  BY SeenIs DEF Types
<1>4. Seen' = [x \in DOMAIN db' |-> IF x \in DOMAIN work THEN work[x] ELSE db'[x]]
  BY <1>2 DEF Seen
<1>5. ASSUME NEW r \in Relations \ DOMAIN work, NEW S \in EditsOf(db, r),
             db' = [db EXCEPT ![r] = S]
      PROVE  (IsDatabase(db) /\ IsDatabase(Seen) /\ Databases /\ ViewLocked)'
  <2>1. IsRelation(r, S) /\ (r \in Tables => \A c \in DOMAIN S.cols : TrueValue(r, c, S.cols[c]))
    BY <1>1, EditedRelation
  <2>2. /\ IsDatabase(db') /\ db'[r] = S /\ db'["taken"] = db["taken"]
        /\ \A x \in Relations \ {r} : db'[x] = db[x]
    <3> DEFINE e == [db EXCEPT ![r] = S]
    <3>1. /\ IsDatabase(e) /\ e[r] = S /\ e["taken"] = db["taken"]
          /\ \A x \in Relations \ {r} : e[x] = db[x]
      BY <1>1, <2>1, RelationReplaced
    <3>2. db' = e
      BY <1>5
    <3> HIDE DEF e
    <3> QED
      BY <3>1, <3>2
  <2>3. Seen' = [Seen EXCEPT ![r] = S]
    BY <1>3, <1>4, <1>5, <2>2 DEF Seen
  <2>4. /\ IsDatabase(Seen') /\ Seen'[r] = S /\ Seen'["taken"] = Seen["taken"]
        /\ \A x \in Relations \ {r} : Seen'[x] = Seen[x]
    <3> DEFINE d == Seen
               e == [d EXCEPT ![r] = S]
    <3>1. Seen' = e
      BY <2>3
    <3>2. IsDatabase(d)
      BY <1>1
    <3>3. r \in Relations
      OBVIOUS
    <3> HIDE DEF d
    <3>4. /\ IsDatabase(e) /\ e[r] = S /\ e["taken"] = d["taken"]
          /\ \A x \in Relations \ {r} : e[x] = d[x]
      BY ONLY <2>1, <3>2, <3>3, RelationReplaced
    <3> HIDE DEF e
    <3> QED
      BY <3>1, <3>4 DEF d
  <2> DEFINE d == db'
             e == Seen'
  <2>5. Grown(d, e)
    <3>1. \A x \in Relations : (d[x] = S /\ e[x] = S) \/ (d[x] = db[x] /\ e[x] = Seen[x])
      BY <2>2, <2>4
    <3>2. d["taken"] = db["taken"] /\ e["taken"] = Seen["taken"]
      BY <2>2, <2>4
    <3> HIDE DEF d, e
    <3>3. ASSUME NEW t \in Tables
          PROVE  /\ e[t].kind = d[t].kind
                 /\ d[t].indexes \subseteq e[t].indexes
                 /\ e[t].indexes \subseteq d[t].indexes \cup {TsIndex}
                 /\ d[t].checks \subseteq e[t].checks
                 /\ \A c \in DOMAIN d[t].cols :
                      /\ c \in DOMAIN e[t].cols
                      /\ e[t].cols[c].held = d[t].cols[c].held
                      /\ e[t].cols[c].type = d[t].cols[c].type
      <4>1. (d[t] = S /\ e[t] = S) \/ (d[t] = db[t] /\ e[t] = Seen[t])
        BY <1>3, <3>1
      <4> QED
        BY <1>1, <4>1 DEF Grown
    <3>4. LET R == d["model_pricing_rates"] IN
          LET T == e["model_pricing_rates"] IN
          T.twice = R.twice /\ T.solo = R.solo /\ T.bad = R.bad /\ T.referenced = R.referenced
      <4>1. "model_pricing_rates" \in Relations
        BY DEF Relations, Tables
      <4> QED
        BY <1>1, <3>1, <4>1 DEF Grown
    <3>5. e["taken"] = d["taken"]
      BY <1>1, <3>2 DEF Grown
    <3> QED
      BY <3>3, <3>4, <3>5 DEF Grown
  <2>6. TrueValues(d) /\ TrueValues(e)
    BY <1>1, <1>3, <2>1, <2>2, <2>4 DEF TrueValues
  <2>7. /\ \A t \in Tables : SaneColumns(d[t]) /\ SaneColumns(Seen[t])
        /\ SaneUsage(d["gateway_usage"]) /\ SaneUsage(Seen["gateway_usage"])
        /\ SaneCard(d["model_pricing_rates"]) /\ SaneCard(Seen["model_pricing_rates"])
        /\ SaneView(d["gateway_usage_daily"]) /\ SaneView(Seen["gateway_usage_daily"])
        /\ ViewReads(d) /\ ViewReads(Seen) /\ SaneTaken(d) /\ SaneTaken(Seen)
    BY <1>1, <1>2, SaneIs
  <2>8. \A x \in Relations : e[x] = d[x] \/ e[x] = Seen[x]
    BY <2>2, <2>4
  <2>9. /\ \A t \in Tables : SaneColumns(e[t])
        /\ SaneUsage(e["gateway_usage"]) /\ SaneCard(e["model_pricing_rates"])
        /\ SaneView(e["gateway_usage_daily"])
    <3> HIDE DEF d, e
    <3>1. "gateway_usage" \in Relations /\ "model_pricing_rates" \in Relations
      BY DEF Relations, Tables
    <3> QED
      BY <1>3, <2>7, <2>8, <3>1
  <2>10. ViewReads(e)
    <3>1. CASE "gateway_usage_daily" \in DOMAIN work
      <4>1. Seen["gateway_usage_daily"].kind # "view" /\ r # "gateway_usage_daily"
        BY <1>5, <3>1 DEF ViewLocked
      <4> QED
        BY <1>3, <2>4, <4>1 DEF ViewReads
    <3>2. CASE "gateway_usage_daily" \notin DOMAIN work
      <4>1. e["gateway_usage_daily"] = d["gateway_usage_daily"]
        BY <1>3, <2>2, <2>4, <3>2
      <4> QED
        BY <2>5, <2>7, <4>1, ReadsGrow DEF ViewReads
    <3> QED
      BY <3>1, <3>2
  <2>11. SaneTaken(e)
    <3>1. "gateway_usage" \in Relations /\ e.taken = Seen["taken"] /\ Seen["taken"] = d["taken"]
      BY <1>3, <2>2, <2>4 DEF Relations, Tables
    <3>2. e["gateway_usage"] = d["gateway_usage"] \/ e["gateway_usage"] = Seen["gateway_usage"]
      BY <2>8, <3>1
    <3> QED
      BY <2>7, <3>1, <3>2 DEF SaneTaken
  <2>12. Sane(e)
    BY <2>9, <2>10, <2>11, SaneIs
  <2>13. ViewLocked'
    <3>1. "gateway_usage_daily" \in DOMAIN work => Seen'["gateway_usage_daily"] = Seen["gateway_usage_daily"]
      BY <1>3, <1>5, <2>4
    <3> QED
      BY <1>2, <3>1 DEF ViewLocked
  <2> QED
    BY <1>2, <2>2, <2>4, <2>5, <2>6, <2>12, <2>13 DEF Databases
<1>6. ASSUME TsIndex \notin Seen["gateway_usage"].indexes, db' = [db EXCEPT !.taken = ~@]
      PROVE  (IsDatabase(db) /\ IsDatabase(Seen) /\ Databases /\ ViewLocked)'
  <2> DEFINE d == db'
             e == Seen'
             f == {"gateway_usage", "model_pricing_rates", "gateway_usage_daily", "taken"}
  <2>1. /\ DOMAIN d = f /\ (\A x \in Relations : d[x] = db[x]) /\ d["taken"] = ~db["taken"]
        /\ d = [x \in f |-> d[x]]
    BY <1>3, <1>6
  <2>2. /\ DOMAIN e = f /\ (\A x \in Relations : e[x] = Seen[x]) /\ e["taken"] = d["taken"]
        /\ e = [x \in f |-> e[x]]
    BY <1>3, <1>4, <2>1
  <2>3. /\ "gateway_usage" \in Relations /\ "model_pricing_rates" \in Relations
        /\ db["taken"] \in BOOLEAN
    BY <1>1 DEF Relations, Tables, IsDatabase
  <2> HIDE DEF d, e
  <2>4. IsDatabase(d) /\ IsDatabase(e)
    <3>1. d = [gateway_usage |-> d.gateway_usage, model_pricing_rates |-> d.model_pricing_rates,
               gateway_usage_daily |-> d.gateway_usage_daily, taken |-> d.taken]
      BY <2>1
    <3>2. e = [gateway_usage |-> e.gateway_usage, model_pricing_rates |-> e.model_pricing_rates,
               gateway_usage_daily |-> e.gateway_usage_daily, taken |-> e.taken]
      BY <2>2
    <3>3. /\ IsUsage(d.gateway_usage) /\ IsCard(d.model_pricing_rates)
          /\ IsView(d.gateway_usage_daily) /\ d.taken \in BOOLEAN
      BY <1>1, <1>3, <2>1, <2>3 DEF IsDatabase
    <3>4. /\ IsUsage(e.gateway_usage) /\ IsCard(e.model_pricing_rates)
          /\ IsView(e.gateway_usage_daily) /\ e.taken \in BOOLEAN
      BY <1>1, <1>3, <2>1, <2>2, <2>3 DEF IsDatabase
    <3>5. IsDatabase(d)
      BY <3>1, <3>3 DEF IsDatabase
    <3>6. IsDatabase(e)
      BY <3>2, <3>4 DEF IsDatabase
    <3> QED
      BY <3>5, <3>6
  <2>5. TrueValues(d) /\ TrueValues(e)
    BY <1>1, <1>3, <2>1, <2>2 DEF TrueValues
  <2>6. Grown(d, e)
    <3>1. Grown(db, Seen)
      BY <1>1
    <3>2. \A t \in Tables : d[t] = db[t] /\ e[t] = Seen[t]
      BY <1>3, <2>1, <2>2
    <3>3. /\ d["model_pricing_rates"] = db["model_pricing_rates"]
          /\ e["model_pricing_rates"] = Seen["model_pricing_rates"]
      BY <2>1, <2>2, <2>3
    <3> QED
      BY <2>2, <3>1, <3>2, <3>3 DEF Grown
  <2>7. Sane(d)
    BY <1>2 DEF d
  <2>8. Sane(e)
    <3>1. /\ \A t \in Tables : SaneColumns(Seen[t])
          /\ SaneUsage(Seen["gateway_usage"]) /\ SaneCard(Seen["model_pricing_rates"])
          /\ SaneView(Seen["gateway_usage_daily"]) /\ ViewReads(Seen)
      BY <1>1, SaneIs
    <3>2. SaneTaken(d)
      BY <2>7, SaneIs
    <3>3. (\A t \in Tables : SaneColumns(e[t])) /\ SaneUsage(e["gateway_usage"])
          /\ SaneCard(e["model_pricing_rates"]) /\ SaneView(e["gateway_usage_daily"])
      BY <1>3, <2>2, <2>3, <3>1
    <3>4. ViewReads(e)
      BY <1>3, <2>2, <3>1 DEF ViewReads, HasReads
    <3>5. SaneTaken(e)
      <4>1. e["gateway_usage"].indexes \subseteq d["gateway_usage"].indexes
        <5>1. /\ d["gateway_usage"] = db["gateway_usage"]
              /\ e["gateway_usage"] = Seen["gateway_usage"]
          BY <2>1, <2>2, <2>3
        <5>2. Seen["gateway_usage"].indexes \subseteq db["gateway_usage"].indexes \cup {TsIndex}
          BY <1>1 DEF Grown, Tables
        <5> QED
          BY <1>6, <5>1, <5>2
      <4>2. e.taken = d.taken
        BY <2>2
      <4> QED
        BY <3>2, <4>1, <4>2 DEF SaneTaken, NamesOf
    <3> QED
      BY <3>3, <3>4, <3>5, SaneIs
  <2>9. ViewLocked'
    BY <1>2, <1>3, <2>2 DEF ViewLocked, e
  <2> QED
    BY <2>4, <2>5, <2>6, <2>7, <2>8, <2>9 DEF Databases, d, e
<1> QED
  BY <1>5, <1>6 DEF Edit

-----------------------------------------------------------------------------
(* A statement is executed *)

\* What has grown twice has grown.
LEMMA GrownTwice ==
    ASSUME NEW d, NEW e, NEW f, Grown(d, e), Grown(e, f)
    PROVE  Grown(d, f)
<1>1. ASSUME NEW t \in Tables
      PROVE  /\ f[t].kind = d[t].kind
             /\ d[t].indexes \subseteq f[t].indexes
             /\ f[t].indexes \subseteq d[t].indexes \cup {TsIndex}
             /\ d[t].checks \subseteq f[t].checks
             /\ \A c \in DOMAIN d[t].cols :
                  /\ c \in DOMAIN f[t].cols
                  /\ f[t].cols[c].held = d[t].cols[c].held
                  /\ f[t].cols[c].type = d[t].cols[c].type
  BY DEF Grown
<1> QED
  BY <1>1 DEF Grown

\* What a statement leaves alone: the other relations, the grants unless it drops the view,
\* the key unless it is about it.
LEMMA StatementLeaves ==
    ASSUME NEW d, IsDatabase(d), NEW s \in Harmless
    PROVE  LET e == Effect(d, s)
               R == "model_pricing_rates" IN
           /\ \A x \in DOMAIN d \ {s.on} : e[x] = d[x]
           /\ s.op # "drop view" =>
                e["gateway_usage_daily"].granted = d["gateway_usage_daily"].granted
           /\ s.op \notin {"drop key", "add key"} => e[R].key = d[R].key
           /\ s.op = "add key" => e[R].key = "ours"
<1> DEFINE e == Effect(d, s)
           v == "gateway_usage_daily"
           r == "model_pricing_rates"
<1>1. s.op \in {"add column", "drop default", "set default", "set not null", "drop key",
                "add key", "create index", "add check", "drop view", "create view"}
  BY DEF Harmless, Statement
<1>2. /\ s.op \in {"add column", "drop default", "set default", "set not null", "drop key",
                  "add key", "create index", "add check"} => s.on \in Tables
      /\ s.op \in {"drop key", "add key", "add check"} => s.on = r
      /\ s.op = "create index" => s.on = "gateway_usage"
      /\ s.op \in {"drop view", "create view"} => s.on = v
  BY DEF Harmless, Tables
<1>3. /\ DOMAIN d = {"gateway_usage", "model_pricing_rates", "gateway_usage_daily", "taken"}
      /\ v \notin Tables /\ r \in Tables
  BY DEF IsDatabase, Tables
<1>4. \A x \in DOMAIN d \ {s.on} : e[x] = d[x]
  BY <1>1 DEF Effect
<1>5. /\ DOMAIN d[v] = {"kind", "shape", "dependents", "granted"}
      /\ DOMAIN d[r] = {"kind", "key", "indexes", "checks", "cols", "twice", "solo", "bad",
                        "referenced"}
  BY DEF IsDatabase, IsView, IsCard
<1>6. ASSUME s.op # "drop view"
      PROVE  e[v].granted = d[v].granted
  <2>1. CASE s.op = "create view"
    <3>1. e = [d EXCEPT ![v] = [@ EXCEPT !.kind = "view", !.shape = "ours"]]
      BY <1>2, <2>1 DEF Effect
    <3> QED
      BY <1>3, <1>5, <3>1
  <2>2. CASE s.op # "create view"
    <3>1. s.on # v
      BY <1>1, <1>2, <1>3, <1>6, <2>2
    <3> HIDE DEF e
    <3> QED
      BY <1>3, <1>4, <3>1
  <2> QED
    BY <2>1, <2>2
<1>7. ASSUME s.op \notin {"drop key", "add key"}
      PROVE  e[r].key = d[r].key
  <2>1. CASE s.on # r
    <3> HIDE DEF e
    <3> QED
      BY <1>3, <1>4, <2>1
  <2>2. CASE s.on = r
    <3>1. s.op \in {"add column", "drop default", "set default", "set not null", "add check"}
      BY <1>1, <1>2, <1>7, <2>2
    <3>2. CASE s.op = "add column"
      <4> DEFINE C == With(d[r].cols, s.column, Added(r, s))
      <4>1. e = [d EXCEPT ![r].cols = C]
        BY <2>2, <3>2 DEF Effect
      <4> HIDE DEF C, e
      <4> QED
        BY <1>3, <1>5, <4>1
    <3>3. CASE s.op \in {"drop default", "set default"}
      <4>1. e = [d EXCEPT ![r].cols[s.column].default = s.default]
        BY <2>2, <3>3 DEF Effect
      <4> QED
        BY <1>3, <1>5, <4>1
    <3>4. CASE s.op = "set not null"
      <4>1. e = [d EXCEPT ![r].cols[s.column].notNull = TRUE]
        BY <2>2, <3>4 DEF Effect
      <4> QED
        BY <1>3, <1>5, <4>1
    <3>5. CASE s.op = "add check"
      <4>1. e = [d EXCEPT ![r].checks = @ \cup {CostsCheck}]
        BY <2>2, <3>5 DEF Effect
      <4> QED
        BY <1>3, <1>5, <4>1
    <3> QED
      BY <3>1, <3>2, <3>3, <3>4, <3>5
  <2> QED
    BY <2>1, <2>2
<1>8. ASSUME s.op = "add key"
      PROVE  e[r].key = "ours"
  <2> DEFINE C == [x \in DOMAIN d[r].cols |-> IF x \in KeyOf("ours")
                                             THEN [d[r].cols[x] EXCEPT !.notNull = TRUE]
                                             ELSE d[r].cols[x]]
  <2>1. e = [d EXCEPT ![r].key = "ours", ![r].cols = C]
    BY <1>2, <1>3, <1>5, <1>8 DEF Effect
  <2> HIDE DEF e, C
  <2> QED
    BY <1>3, <1>5, <2>1
<1> QED
  BY <1>4, <1>6, <1>7, <1>8

\* The date that is given to the rows of the rate card.
LEMMA DateIsGiven ==
    ASSUME NEW d, IsDatabase(d), NEW b \in {"date", "always"}, NEW s,
           s = St("add column", "model_pricing_rates", "effective_from", b)
    PROVE  LET C == Effect(d, s)["model_pricing_rates"].cols IN
           "effective_from" \in DOMAIN C /\ C["effective_from"].held = b
<1> DEFINE r == "model_pricing_rates"
           c == "effective_from"
           A == Added(r, s)
           C == With(d[r].cols, c, A)
           e == Effect(d, s)
<1>1. s.op = "add column" /\ s.on = r /\ s.column = c /\ s.default = b
  BY DEF St
<1>2. r \in DOMAIN d /\ "cols" \in DOMAIN d[r]
  BY DEF IsDatabase, IsCard
<1>3. A.held = b
  <2> DEFINE B == Reference[r].cols[c]
  <2>1. B \in Column
    BY ReferenceColumn, ReferenceIs DEF Tables, CardNames
  <2> HIDE DEF B
  <2>2. A = [B EXCEPT !.default = s.default, !.nulls = s.default = "none",
                      !.held = IF s.default = "none" THEN "null" ELSE s.default]
    BY <1>1 DEF Added, B
  <2> HIDE DEF A
  <2> QED
    BY <1>1, <2>1, <2>2 DEF Column
<1> HIDE DEF A
<1>4. c \in DOMAIN C /\ C[c] = A
  BY DEF With
<1>5. e = [d EXCEPT ![r].cols = C]
  BY <1>1 DEF Effect, A
<1> HIDE DEF C, e
<1> QED
  BY <1>2, <1>3, <1>4, <1>5 DEF e

\* The transaction sees the effect of a statement it executed, and has locked its relation.
LEMMA SeenExecute ==
    ASSUME Types, Databases, Execute, Runs(Seen, Head(todo))
    PROVE  LET s == Head(todo) IN
           /\ s \in Harmless /\ Tail(todo) \in Seq(Harmless)
           /\ Seen' = Effect(Seen, s)
           /\ DOMAIN work' = DOMAIN work \cup Locks(s) /\ Locks(s) \subseteq Relations
           /\ s.on \in Locks(s)
           /\ todo' = Tail(todo) /\ ran' = Append(ran, s)
           /\ UNCHANGED <<pc, result, db, read, given, baseline, current, autocommit, quiet>>
<1> DEFINE s == Head(todo)
           d == Seen
           e == Effect(d, s)
           F == {"gateway_usage", "model_pricing_rates", "gateway_usage_daily", "taken"}
<1>1. s \in Harmless /\ Tail(todo) \in Seq(Harmless)
  BY HeadTailProperties DEF Types, Execute
<1>2. s.on \in Relations /\ Locks(s) \subseteq Relations /\ s.on \in Locks(s)
  BY <1>1 DEF Harmless, Statement, Locks
<1>3. /\ work' = [r \in DOMAIN work \cup Locks(s) |-> e[r]]
      /\ todo' = Tail(todo) /\ ran' = Append(ran, s)
      /\ UNCHANGED <<pc, result, db, read, given, baseline, current, autocommit, quiet>>
  <2>1. pc = "execute" /\ ~autocommit
    BY DEF Execute, Types
  <2> QED
    BY <2>1 DEF Execute
<1>4. /\ DOMAIN db = F /\ DOMAIN d = F /\ Relations \subseteq F
      /\ \A x \in F : d[x] = IF x \in DOMAIN work THEN work[x] ELSE db[x]
  BY SeenIs
<1>5. IsDatabase(d) /\ Sane(d) /\ TrueValues(d)
  BY DEF Types, Databases
<1>6. Runs(d, s)
  OBVIOUS
<1>7. Seen' = [x \in DOMAIN db' |-> IF x \in DOMAIN work' THEN work'[x] ELSE db'[x]]
  BY DEF Seen
<1> HIDE DEF d, s
<1>8. IsDatabase(e)
  BY <1>1, <1>5, <1>6, StatementKeeps
<1>9. \A x \in DOMAIN d \ {s.on} : e[x] = d[x]
  BY <1>1, <1>5, StatementLeaves
<1> HIDE DEF e
<1>10. DOMAIN e = F /\ e = [x \in F |-> e[x]]
  BY <1>8 DEF IsDatabase
<1>11. \A x \in F : (IF x \in DOMAIN work' THEN work'[x] ELSE db'[x]) = e[x]
  <2> TAKE x \in F
  <2>1. CASE x \in DOMAIN work \cup Locks(s)
    BY <1>3, <2>1
  <2>2. CASE x \notin DOMAIN work \cup Locks(s)
    <3>1. x # s.on /\ x \notin DOMAIN work' /\ x \notin DOMAIN work
      BY <1>2, <1>3, <2>2
    <3>2. e[x] = d[x] /\ d[x] = db[x]
      BY <1>4, <1>9, <3>1
    <3> QED
      BY <1>3, <3>1, <3>2
  <2> QED
    BY <2>1, <2>2
<1>12. Seen' = e
  <2>1. DOMAIN db' = F
    BY <1>3, <1>4
  <2>2. Seen' = [x \in F |-> e[x]]
    BY <1>7, <1>11, <2>1
  <2> QED
    BY <1>10, <2>2
<1> QED
  BY <1>1, <1>2, <1>3, <1>12 DEF s, d, e

\* Executing a statement keeps the databases what they are.
LEMMA RunKeeps ==
    ASSUME Types, Databases, ViewLocked, Execute, Runs(Seen, Head(todo))
    PROVE  (Types /\ Databases /\ ViewLocked)'
<1> DEFINE s == Head(todo)
           d == Seen
           e == Effect(d, s)
           v == "gateway_usage_daily"
<1>1. /\ s \in Harmless /\ Tail(todo) \in Seq(Harmless)
      /\ Seen' = e
      /\ DOMAIN work' = DOMAIN work \cup Locks(s) /\ Locks(s) \subseteq Relations
      /\ s.on \in Locks(s)
      /\ todo' = Tail(todo) /\ ran' = Append(ran, s)
      /\ UNCHANGED <<pc, result, db, read, given, baseline, current, autocommit, quiet>>
  BY SeenExecute
<1>2. IsDatabase(d) /\ Sane(d) /\ TrueValues(d) /\ Grown(db, d)
  BY DEF Types, Databases
<1>3. Runs(d, s) /\ pc = "execute"
  BY DEF Execute
<1>4. ViewLocked = (v \in DOMAIN work => d[v].kind # "view" \/ DOMAIN work = Relations)
  BY DEF ViewLocked
<1> HIDE DEF d, s
<1>5. /\ IsDatabase(e) /\ Sane(e) /\ TrueValues(e) /\ Grown(d, e)
      /\ s.op = "drop view" => e[v].kind # "view"
  BY <1>1, <1>2, <1>3, StatementKeeps
<1>6. \A x \in DOMAIN d \ {s.on} : e[x] = d[x]
  BY <1>1, <1>2, StatementLeaves
<1> HIDE DEF e
<1>7. Types'
  <2>1. IsDatabase(db') /\ IsDatabase(Seen')
    BY <1>1, <1>5 DEF Types
  <2>2. DOMAIN work' \subseteq Relations
    BY <1>1 DEF Types
  <2>3. ran' \in Seq(Harmless) /\ (pc' # "idle" => ~autocommit')
    BY <1>1 DEF Types
  <2> QED
    BY <1>1, <1>3, <2>1, <2>2, <2>3 DEF Types
<1>8. Databases'
  <2>1. Grown(db, e)
    BY <1>2, <1>5, GrownTwice
  <2>2. Sane(Seen') /\ TrueValues(Seen') /\ Grown(db', Seen')
    BY <1>1, <1>5, <2>1
  <2>3. Sane(db') /\ TrueValues(db')
    BY <1>1 DEF Databases
  <2> QED
    BY <2>2, <2>3 DEF Databases
<1>9. ViewLocked'
  <2>1. Seen'[v] = e[v]
    BY <1>1
  <2>2. CASE s.op = "create view"
    <3>1. DOMAIN work' = Relations
      BY <1>1, <2>2 DEF Locks, Types
    <3> QED
      BY <3>1 DEF ViewLocked
  <2>3. CASE s.op = "drop view"
    BY <1>5, <2>1, <2>3 DEF ViewLocked
  <2>4. CASE s.op \notin {"create view", "drop view"}
    <3>1. s.on # v
      <4>1. s.op \in {"add column", "drop default", "set default", "set not null", "drop key",
                      "add key", "create index", "add check"}
        BY <1>1, <2>4 DEF Harmless, Statement
      <4> QED
        BY <1>1, <4>1 DEF Harmless, Tables
    <3>2. v \in DOMAIN d
      BY <1>2 DEF IsDatabase
    <3>3. e[v] = d[v]
      BY <1>6, <3>1, <3>2
    <3>4. Locks(s) = {s.on}
      BY <2>4 DEF Locks
    <3>5. ASSUME v \in DOMAIN work'
          PROVE  e[v].kind # "view" \/ DOMAIN work' = Relations
      <4>1. v \in DOMAIN work
        BY <1>1, <3>1, <3>4, <3>5
      <4>2. d[v].kind # "view" \/ DOMAIN work = Relations
        BY <1>4, <4>1
      <4> QED
        BY <1>1, <3>3, <4>2
    <3> QED
      BY <2>1, <3>5 DEF ViewLocked
  <2> QED
    BY <2>2, <2>3, <2>4
<1> QED
  BY <1>7, <1>8, <1>9

\* While nobody else changes anything, what was to be done of the restructure is done or
\* still to be done.
LEMMA RunRestructures ==
    ASSUME IInv, Execute, Runs(Seen, Head(todo))
    PROVE  Undisturbed'
<1> DEFINE s == Head(todo)
           d == Seen
           e == Effect(d, s)
           v == "gateway_usage_daily"
           r == "model_pricing_rates"
           c == "effective_from"
           n == Len(todo)
           q == Tail(todo)
<1>1. /\ s \in Harmless
      /\ Seen' = e
      /\ todo' = q
      /\ UNCHANGED <<pc, result, db, read, given, baseline, current, quiet>>
  BY SeenExecute DEF IInv
<1>2. IsDatabase(d) /\ Sane(d) /\ TrueValues(d) /\ IsDatabase(db)
  BY DEF Types, Databases, IInv
<1>3. Runs(d, s) /\ pc = "execute" /\ todo # << >>
  BY DEF Execute
<1> SUFFICES ASSUME quiet
             PROVE  /\ current = PlanOf(db, baseline) /\ ~HasManual(current)
                    /\ q \in Seq(Planned(db))
                    /\ e[v].granted # db[v].granted => Replaceable(db)
                    /\ c \notin DOMAIN db[r].cols => Restructured'
  <2> HIDE DEF e, q
  <2> QED
    BY <1>1 DEF Undisturbed
<1>4. /\ current = PlanOf(db, baseline) /\ ~HasManual(current)
      /\ todo \in Seq(Planned(db))
      /\ d[v].granted # db[v].granted => Replaceable(db)
      /\ c \notin DOMAIN db[r].cols => Restructured
  BY <1>3 DEF Undisturbed, IInv
<1>5. /\ s \in Planned(db) /\ q \in Seq(Planned(db)) /\ todo[1] = s
      /\ n \in Nat \ {0} /\ DOMAIN todo = 1..n /\ DOMAIN q = 1..(n - 1)
      /\ \A i \in 1..(n - 1) : q[i] = todo[i + 1]
  <2> DEFINE X == Planned(db)
  <2> HIDE DEF X
  <2>1. todo \in Seq(X) /\ todo # << >>
    BY <1>3, <1>4 DEF X
  <2>2. s \in X /\ q \in Seq(X) /\ todo[1] = s /\ Len(q) = n - 1 /\ n \in Nat \ {0}
        /\ \A i \in 1..(n - 1) : q[i] = todo[i + 1]
    BY <2>1, HeadTailProperties, EmptySeq
  <2>3. DOMAIN todo = 1..n /\ DOMAIN q = 1..Len(q)
    BY <2>1, <2>2
  <2> QED
    BY <2>2, <2>3 DEF X
<1> HIDE DEF d, s
<1>6. /\ s.op # "drop view" => e[v].granted = d[v].granted
      /\ s.op \notin {"drop key", "add key"} => e[r].key = d[r].key
      /\ s.op = "add key" => e[r].key = "ours"
  BY <1>1, <1>2, StatementLeaves
<1>7. Grown(d, e)
  BY <1>1, <1>2, <1>3, StatementKeeps
<1>8. e[v].granted # db[v].granted => Replaceable(db)
  <2>1. s.op = "drop view" => Replaceable(db)
    BY <1>5 DEF Planned
  <2> HIDE DEF e
  <2> QED
    BY <1>4, <1>6, <2>1
<1>9. ASSUME c \notin DOMAIN db[r].cols
      PROVE  Restructured'
  <2>1. baseline \in {"date", "always"}
    <3>1. baseline \in {"none", "date", "always"}
      BY DEF IInv, Types, Given
    <3> QED
      BY <1>2, <1>4, <1>9, <3>1, Restructure
  <2>2. /\ \/ \E i \in 1..n : todo[i] = St("add column", r, c, baseline)
           \/ c \in DOMAIN d[r].cols /\ d[r].cols[c].held \in {"date", "always"}
        /\ \/ \E i \in 1..n : /\ todo[i] = St("add key", r, "", "none")
                              /\ \A j \in 1..n : j > i => todo[j].op \notin {"drop key", "add key"}
           \/ d[r].key = "ours" /\ \A i \in 1..n : todo[i].op \notin {"drop key", "add key"}
    BY <1>4, <1>5, <1>9 DEF Restructured, KeyIsAdded, d
  <2>3. \/ \E i \in 1..(n - 1) : q[i] = St("add column", r, c, baseline)
        \/ c \in DOMAIN e[r].cols /\ e[r].cols[c].held \in {"date", "always"}
    <3>1. CASE c \in DOMAIN d[r].cols /\ d[r].cols[c].held \in {"date", "always"}
      <4> HIDE DEF e
      <4> QED
        BY <1>7, <3>1 DEF Grown, Tables
    <3>2. CASE \E i \in 1..n : todo[i] = St("add column", r, c, baseline)
      <4>1. PICK i \in 1..n : todo[i] = St("add column", r, c, baseline)
        BY <3>2
      <4>2. CASE i = 1
        <5>1. s = St("add column", r, c, baseline)
          BY <1>5, <4>1, <4>2
        <5>2. c \in DOMAIN e[r].cols /\ e[r].cols[c].held = baseline
          BY <1>2, <2>1, <5>1, DateIsGiven
        <5> QED
          BY <2>1, <5>2
      <4>3. CASE i # 1
        <5> HIDE DEF n, q, e
        <5>1. i - 1 \in 1..(n - 1) /\ (i - 1) + 1 = i
          BY <1>5, <4>3
        <5>2. q[i - 1] = todo[i]
          BY <1>5, <5>1
        <5> QED
          BY <4>1, <5>1, <5>2
      <4> QED
        BY <4>2, <4>3
    <3> QED
      BY <2>2, <3>1, <3>2
  <2>4. \/ \E i \in 1..(n - 1) :
             /\ q[i] = St("add key", r, "", "none")
             /\ \A j \in 1..(n - 1) : j > i => q[j].op \notin {"drop key", "add key"}
        \/ e[r].key = "ours" /\ \A i \in 1..(n - 1) : q[i].op \notin {"drop key", "add key"}
    <3> HIDE DEF n, q, e
    <3>1. \A j \in 1..(n - 1) : j + 1 \in 1..n /\ q[j] = todo[j + 1]
      BY <1>5
    <3>0. n \in Nat /\ 1 \in 1..n /\ s = todo[1]
      BY <1>5
    <3>2. CASE d[r].key = "ours" /\ \A i \in 1..n : todo[i].op \notin {"drop key", "add key"}
      <4>1. s.op \notin {"drop key", "add key"}
        BY <3>0, <3>2
      <4> QED
        BY <1>6, <3>1, <3>2, <4>1
    <3>3. CASE \E i \in 1..n :
                 /\ todo[i] = St("add key", r, "", "none")
                 /\ \A j \in 1..n : j > i => todo[j].op \notin {"drop key", "add key"}
      <4>1. PICK i \in 1..n :
                 /\ todo[i] = St("add key", r, "", "none")
                 /\ \A j \in 1..n : j > i => todo[j].op \notin {"drop key", "add key"}
        BY <3>3
      <4>2. CASE i = 1
        <5>1. s.op = "add key"
          <6>1. todo[i] = St("add key", r, "", "none")
            BY <4>1
          <6>2. St("add key", r, "", "none").op = "add key"
            BY DEF St
          <6>3. todo[i].op = "add key"
            BY ONLY <6>1, <6>2
          <6> QED
            BY <3>0, <4>2, <6>3
        <5>2. \A j \in 1..(n - 1) : j + 1 > i
          BY <1>5, <4>2
        <5> QED
          BY <1>6, <3>1, <4>1, <5>1, <5>2
      <4>3. CASE i # 1
        <5>1. i - 1 \in 1..(n - 1) /\ (i - 1) + 1 = i
          BY <1>5, <4>3
        <5>2. q[i - 1] = St("add key", r, "", "none")
          BY <1>5, <4>1, <5>1
        <5>3. \A j \in 1..(n - 1) : j > i - 1 => j + 1 > i
          BY ONLY <3>0, i \in 1..n
        <5>4. \A j \in 1..(n - 1) : j > i - 1 => q[j].op \notin {"drop key", "add key"}
          BY <3>1, <4>1, <5>3
        <5> QED
          BY <5>1, <5>2, <5>4
      <4> QED
        BY <4>2, <4>3
    <3> QED
      BY <2>2, <3>2, <3>3
  <2> HIDE DEF n, q, e
  <2> QED
    BY <1>1, <1>5, <2>3, <2>4 DEF Restructured, KeyIsAdded
<1> QED
  BY <1>4, <1>5, <1>8, <1>9

-----------------------------------------------------------------------------
(* The invariant *)

\* Outside the transaction, what is seen is what is committed.
LEMMA SeenIdle ==
    ASSUME work = << >>, IsDatabase(db)
    PROVE  Seen = db
<1>1. db = [x \in DOMAIN db |-> db[x]]
  BY DEF IsDatabase
<1>2. DOMAIN work = {}
  OBVIOUS
<1> QED
  BY <1>1, <1>2 DEF Seen

\* The schema is a database Postgres holds, with the rows it was written with.
LEMMA ReferenceStarts == IsDatabase(Reference) /\ Sane(Reference) /\ TrueValues(Reference)
<1> DEFINE U == Reference["gateway_usage"]
           R == Reference["model_pricing_rates"]
           V == Reference["gateway_usage_daily"]
<1>1. IsDatabase(Reference)
  BY ReferenceIs
<1>2. /\ U.cols["id"] = [Required("none") EXCEPT !.identity = TRUE]
      /\ U.kind = "table" /\ U.indexes = {TsIndex}
      /\ R.key = "ours" /\ R.checks = {CostsCheck}
      /\ R.solo = FALSE /\ R.bad = FALSE /\ R.referenced = FALSE
      /\ V.kind = "view" /\ Reference.taken = FALSE
      /\ R.cols["model"] = Required("none") /\ R.cols["effective_from"] = Required("none")
      /\ R.cols["cache_cost"] = Optional
      /\ U.cols["input_tokens"] = Required("constant") /\ U.cols["ts"] = Required("now")
  BY DEF Reference
<1>3. DOMAIN U.cols = UsageNames /\ DOMAIN R.cols = CardNames
  BY ReferenceIs
<1>4. ASSUME NEW t \in Tables, NEW c \in DOMAIN Reference[t].cols
      PROVE  LET C == Reference[t].cols[c] IN
             C.held = "rows" /\ (C.notNull => ~C.nulls) /\ (C.identity => C.notNull /\ C.default = "none")
  <2>1. CASE c # "id"
    BY <2>1, ReferenceColumn
  <2>2. CASE c = "id"
    <3>1. t = "gateway_usage"
      BY <1>3, <2>2 DEF Tables, CardNames
    <3> QED
      BY <1>2, <2>2, <3>1 DEF Required
  <2> QED
    BY <2>1, <2>2
<1>5. TrueValues(Reference)
  BY <1>4 DEF TrueValues, TrueValue
<1>6. \A t \in Tables : SaneColumns(Reference[t])
  BY <1>4 DEF SaneColumns
<1>7. SaneUsage(U)
  BY <1>3 DEF SaneUsage, UsageNames
<1>8. SaneCard(R)
  <2>1. Required("none").notNull = TRUE
    BY DEF Required
  <2> HIDE DEF R
  <2> QED
    BY <1>2, <1>3, <2>1 DEF SaneCard, CardNames, KeyOf
<1>9. SaneView(V)
  BY <1>2 DEF SaneView
<1>10. HasReads(Reference)
  <2>1. /\ Required("none").type = "ours" /\ Required("constant").type = "ours"
        /\ Required("now").type = "ours" /\ Optional.type = "ours"
    BY DEF Required, Optional
  <2>2. /\ Reads["gateway_usage"] = {"input_tokens", "ts"}
        /\ Reads["model_pricing_rates"] = {"model", "effective_from", "cache_cost"}
    BY DEF Reads
  <2> HIDE DEF R, U
  <2>3. \A c \in Reads["gateway_usage"] : c \in DOMAIN U.cols /\ U.cols[c].type = "ours"
    BY <1>2, <1>3, <2>1, <2>2 DEF UsageNames
  <2>4. \A c \in Reads["model_pricing_rates"] : c \in DOMAIN R.cols /\ R.cols[c].type = "ours"
    BY <1>2, <1>3, <2>1, <2>2 DEF CardNames
  <2> QED
    BY <2>3, <2>4 DEF HasReads, Tables, U, R
<1>11. ViewReads(Reference) /\ SaneTaken(Reference)
  BY <1>2, <1>10 DEF ViewReads, SaneTaken
<1>12. Sane(Reference)
  BY <1>6, <1>7, <1>8, <1>9, <1>11, SaneIs
<1> QED
  BY <1>1, <1>5, <1>12

\* So is the database the gateway made.
LEMMA LegacyStarts == IsDatabase(Legacy) /\ Sane(Legacy) /\ TrueValues(Legacy)
<1> DEFINE U == Reference["gateway_usage"]
           R == Reference["model_pricing_rates"]
           V == Reference["gateway_usage_daily"]
           C == With(Without(U.cols, "schema_version"), "id", Required("other"))
           K == With(Without(R.cols, "effective_from"), "pricing_mode", Required("none"))
           U2 == [U EXCEPT !.cols = C]
           R2 == [R EXCEPT !.cols = K, !.key = "legacy", !.checks = {}]
           V2 == [V EXCEPT !.shape = "other"]
           F == {"gateway_usage", "model_pricing_rates", "gateway_usage_daily", "taken"}
<1>1. /\ IsUsage(U) /\ IsCard(R) /\ IsView(V)
      /\ DOMAIN U.cols = UsageNames /\ DOMAIN R.cols = CardNames
      /\ IsColumns(U.cols) /\ IsColumns(R.cols)
  BY ReferenceIs DEF IsDatabase, IsUsage, IsCard
<1>2. /\ U.indexes = {TsIndex}
      /\ R.solo = FALSE /\ R.bad = FALSE /\ R.referenced = FALSE
      /\ V.kind = "view" /\ Reference.taken = FALSE
      /\ R.cols["model"] = Required("none")
  BY DEF Reference
<1>3. DOMAIN Reference = F
  BY DEF Reference
<1>4. /\ Legacy = [gateway_usage |-> U2, model_pricing_rates |-> R2,
                   gateway_usage_daily |-> V2, taken |-> Reference["taken"]]
  <2>1. Reference = [x \in F |-> Reference[x]]
    BY DEF Reference
  <2>2. DOMAIN U = {"kind", "key", "indexes", "checks", "cols"}
        /\ DOMAIN R = {"kind", "key", "indexes", "checks", "cols", "twice", "solo", "bad",
                       "referenced"}
        /\ DOMAIN V = {"kind", "shape", "dependents", "granted"}
    BY <1>1 DEF IsUsage, IsCard, IsView
  <2>3. Legacy = [Reference EXCEPT !.gateway_usage.cols = C,
                                   !.model_pricing_rates.cols = K,
                                   !.model_pricing_rates.key = "legacy",
                                   !.model_pricing_rates.checks = {},
                                   !.gateway_usage_daily.shape = "other"]
    BY <1>3, <2>2 DEF Legacy
  <2> HIDE DEF C, K
  <2>4. DOMAIN Legacy = F /\ Legacy = [x \in F |-> Legacy[x]]
    BY <1>3, <2>3
  <2>5. Legacy["gateway_usage"] = U2
    BY <1>3, <2>3
  <2>6. Legacy["model_pricing_rates"] = R2
    BY <1>3, <2>2, <2>3
  <2>7. Legacy["gateway_usage_daily"] = V2 /\ Legacy["taken"] = Reference["taken"]
    BY <1>3, <2>3
  <2> HIDE DEF U2, R2, V2
  <2> QED
    BY <2>4, <2>5, <2>6, <2>7
<1>5. /\ Required("other") \in Column /\ Required("other").held = "rows"
      /\ Required("none") \in Column /\ Required("none").held = "rows"
      /\ Required("other").notNull /\ ~Required("other").nulls /\ ~Required("other").identity
      /\ Required("none").notNull /\ ~Required("none").nulls /\ ~Required("none").identity
  BY DEF Required, Column, Held, Defaults
<1>6. \A t \in Tables : \A c \in DOMAIN Reference[t].cols : 
        LET B == Reference[t].cols[c] IN
        TrueValue(t, c, B) /\ (B.notNull => ~B.nulls) /\ (B.identity => B.notNull /\ B.default = "none")
  BY ReferenceStarts, SaneIs DEF TrueValues, SaneColumns
<1> DEFINE Good(t, S) == /\ IsColumns(S)
                         /\ \A c \in DOMAIN S :
                              /\ TrueValue(t, c, S[c])
                              /\ S[c].notNull => ~S[c].nulls
                              /\ S[c].identity => S[c].notNull /\ S[c].default = "none"
<1>7. DOMAIN C = UsageNames \ {"schema_version"} /\ Good("gateway_usage", C)
  <2> DEFINE A == U.cols
             B == Required("other")
             W == Without(A, "schema_version")
  <2>1. \A c \in DOMAIN A : /\ TrueValue("gateway_usage", c, A[c])
                            /\ A[c].notNull => ~A[c].nulls
                            /\ A[c].identity => A[c].notNull /\ A[c].default = "none"
    BY <1>6 DEF Tables
  <2> HIDE DEF A, B
  <2>2. DOMAIN W = DOMAIN A \ {"schema_version"} /\ \A c \in DOMAIN W : W[c] = A[c]
    BY DEF Without
  <2> HIDE DEF W
  <2>3. /\ DOMAIN C = DOMAIN W \cup {"id"} /\ C["id"] = B
        /\ \A c \in DOMAIN C \ {"id"} : C[c] = W[c]
        /\ C = [c \in DOMAIN C |-> C[c]]
    BY DEF With, W, A, B
  <2>4. DOMAIN A = UsageNames /\ IsColumns(A) /\ B \in Column /\ B.held = "rows"
        /\ B.notNull /\ ~B.nulls /\ ~B.identity
    BY <1>1, <1>5 DEF A, B
  <2> HIDE DEF C
  <2>5. DOMAIN C = UsageNames \ {"schema_version"}
    BY <2>2, <2>3, <2>4 DEF UsageNames
  <2>6. IsColumns(C)
    BY <2>2, <2>3, <2>4 DEF IsColumns, UsageNames
  <2>7. \A c \in DOMAIN C : /\ TrueValue("gateway_usage", c, C[c])
                            /\ C[c].notNull => ~C[c].nulls
                            /\ C[c].identity => C[c].notNull /\ C[c].default = "none"
    BY <2>1, <2>2, <2>3, <2>4 DEF TrueValue
  <2> QED
    BY <2>5, <2>6, <2>7
<1>8. /\ DOMAIN K = {"model", "cache_cost", "pricing_mode"} /\ Good("model_pricing_rates", K)
      /\ K["model"] = Required("none") /\ K["pricing_mode"] = Required("none")
  <2> DEFINE A == R.cols
             B == Required("none")
             W == Without(A, "effective_from")
  <2>1. \A c \in DOMAIN A : /\ TrueValue("model_pricing_rates", c, A[c])
                            /\ A[c].notNull => ~A[c].nulls
                            /\ A[c].identity => A[c].notNull /\ A[c].default = "none"
    BY <1>6 DEF Tables
  <2>0. A["model"] = B
    BY <1>2
  <2> HIDE DEF A, B
  <2>2. DOMAIN W = DOMAIN A \ {"effective_from"} /\ \A c \in DOMAIN W : W[c] = A[c]
    BY DEF Without
  <2> HIDE DEF W
  <2>3. /\ DOMAIN K = DOMAIN W \cup {"pricing_mode"} /\ K["pricing_mode"] = B
        /\ \A c \in DOMAIN K \ {"pricing_mode"} : K[c] = W[c]
        /\ K = [c \in DOMAIN K |-> K[c]]
    BY DEF With, W, A, B
  <2>4. DOMAIN A = CardNames /\ IsColumns(A) /\ B \in Column /\ B.held = "rows"
        /\ B.notNull /\ ~B.nulls /\ ~B.identity
    BY <1>1, <1>5 DEF A, B
  <2> HIDE DEF K
  <2>5. DOMAIN K = {"model", "cache_cost", "pricing_mode"} /\ K["model"] = B
    BY <2>0, <2>2, <2>3, <2>4 DEF CardNames
  <2>6. IsColumns(K)
    BY <2>2, <2>3, <2>4, NamesAre DEF IsColumns
  <2>7. \A c \in DOMAIN K : /\ TrueValue("model_pricing_rates", c, K[c])
                            /\ K[c].notNull => ~K[c].nulls
                            /\ K[c].identity => K[c].notNull /\ K[c].default = "none"
    BY <2>1, <2>2, <2>3, <2>4 DEF TrueValue
  <2> QED
    BY <2>3, <2>5, <2>6, <2>7 DEF B
<1> HIDE DEF C, K, Good
<1>9. IsUsage(U2) /\ U2.cols = C /\ U2.indexes = {TsIndex}
  <2> HIDE DEF U
  <2> QED
    BY <1>1, <1>2, <1>7 DEF IsUsage, Good
<1>10. /\ IsCard(R2) /\ R2.cols = K /\ R2.key = "legacy" /\ R2.checks = {}
       /\ R2.solo = FALSE /\ R2.referenced = FALSE
  <2> HIDE DEF R
  <2>1. IsCard(R) /\ IsColumns(K)
    BY <1>1, <1>8 DEF Good
  <2>2. DOMAIN R = {"kind", "key", "indexes", "checks", "cols", "twice", "solo", "bad",
                    "referenced"}
    BY <2>1 DEF IsCard
  <2>3. /\ R2.cols = K /\ R2.key = "legacy" /\ R2.checks = {}
        /\ R2.kind = R.kind /\ R2.indexes = R.indexes /\ R2.twice = R.twice
        /\ R2.solo = R.solo /\ R2.bad = R.bad /\ R2.referenced = R.referenced
    BY <2>2
  <2>4. R2 = [x \in DOMAIN R |-> R2[x]]
    BY <2>2
  <2> HIDE DEF R2
  <2>5. R2 = [kind |-> R2.kind, key |-> R2.key, indexes |-> R2.indexes, checks |-> R2.checks,
              cols |-> R2.cols, twice |-> R2.twice, solo |-> R2.solo, bad |-> R2.bad,
              referenced |-> R2.referenced]
    BY <2>2, <2>4
  <2> QED
    BY <1>2, <2>1, <2>3, <2>5 DEF IsCard, Keys
<1>11. IsView(V2) /\ V2.kind = "view" /\ V2.shape = "other"
  <2> HIDE DEF V
  <2> QED
    BY <1>1, <1>2 DEF IsView
<1> HIDE DEF U2, R2, V2, U, R, V
<1>12. /\ Legacy["gateway_usage"] = U2 /\ Legacy["model_pricing_rates"] = R2
       /\ Legacy["gateway_usage_daily"] = V2 /\ Legacy.taken = FALSE
       /\ Legacy = [gateway_usage |-> Legacy.gateway_usage,
                    model_pricing_rates |-> Legacy.model_pricing_rates,
                    gateway_usage_daily |-> Legacy.gateway_usage_daily, taken |-> Legacy.taken]
  BY <1>2, <1>4
<1>13. IsDatabase(Legacy)
  BY <1>9, <1>10, <1>11, <1>12 DEF IsDatabase
<1>14. TrueValues(Legacy)
  BY <1>7, <1>8, <1>9, <1>10, <1>12 DEF TrueValues, Good, Tables
<1>15. \A t \in Tables : SaneColumns(Legacy[t])
  BY <1>7, <1>8, <1>9, <1>10, <1>12 DEF SaneColumns, Good, Tables
<1>16. SaneUsage(U2)
  BY <1>7, <1>9 DEF SaneUsage, UsageNames
<1>17. SaneCard(R2)
  BY <1>5, <1>8, <1>10 DEF SaneCard, KeyOf, ShapesOf
<1>18. SaneView(V2) /\ ViewReads(Legacy) /\ SaneTaken(Legacy)
  BY <1>11, <1>12 DEF SaneView, ViewReads, SaneTaken
<1>19. Sane(Legacy)
  BY <1>12, <1>15, <1>16, <1>17, <1>18, SaneIs
<1> QED
  BY <1>13, <1>14, <1>19

\* The parts of the invariant that are about the databases, in a state whose transaction
\* is over.
LEMMA Over ==
    ASSUME NEW d, IsDatabase(d), Sane(d), TrueValues(d), work' = << >>, db' = d
    PROVE  Seen' = d /\ IsDatabase(Seen') /\ Databases' /\ ViewLocked'
<1>1. d = [x \in DOMAIN d |-> d[x]] /\ DOMAIN << >> = {}
  BY DEF IsDatabase
<1>2. Seen' = d
  BY <1>1 DEF Seen
<1>3. Databases'
  BY <1>2, GrownSame DEF Databases
<1>4. ViewLocked'
  BY <1>1 DEF ViewLocked
<1> QED
  BY <1>2, <1>3, <1>4

\* The invariant holds at first.
LEMMA Starts == Init => IInv
<1> SUFFICES ASSUME Init
             PROVE  IInv
  OBVIOUS
<1>1. IsDatabase(db) /\ Sane(db) /\ TrueValues(db)
  BY ReferenceStarts, LegacyStarts DEF Init
<1>2. Seen = db
  BY <1>1, SeenIdle DEF Init
<1>3. Types
  <2>1. << >> \in Seq(Harmless) /\ DOMAIN << >> = {}
    BY EmptySeq
  <2> QED
    BY <1>1, <1>2, <2>1 DEF Init, Types, Given
<1>4. Databases
  BY <1>1, <1>2, GrownSame DEF Databases
<1>5. ViewLocked /\ Decided /\ Undisturbed
  BY DEF Init, ViewLocked, Decided, Undisturbed
<1> QED
  BY <1>3, <1>4, <1>5 DEF IInv

\* One statement more was executed, and one less is to be.
LEMMA OneMore ==
    ASSUME NEW p \in Seq(Harmless), NEW q \in Seq(Harmless), q # << >>
    PROVE  Append(p, Head(q)) \o Tail(q) = p \o q
<1>1. /\ Head(q) \in Harmless /\ Tail(q) \in Seq(Harmless)
      /\ Len(Tail(q)) = Len(q) - 1 /\ \A i \in 1 .. Len(Tail(q)) : Tail(q)[i] = q[i + 1]
      /\ Head(q) = q[1]
  BY HeadTailProperties
<1>2. /\ Append(p, Head(q)) \in Seq(Harmless) /\ Len(Append(p, Head(q))) = Len(p) + 1
      /\ \A i \in 1 .. Len(p) : Append(p, Head(q))[i] = p[i]
      /\ Append(p, Head(q))[Len(p) + 1] = Head(q)
  BY <1>1, AppendProperties
<1> QED
  BY <1>1, <1>2

\* When there is nothing left to be executed, all of the plan has been.
LEMMA RanAll ==
    ASSUME Types, Decided, pc = "execute", todo = << >>
    PROVE  ran = StatementsOf(current)
<1>1. ran \in Seq(Harmless) /\ ran \o todo = StatementsOf(current)
  BY DEF Types, Decided
<1>2. ran \o << >> = ran
  BY <1>1
<1> QED
  BY <1>1, <1>2

\* The transaction ends, and leaves what was committed or what it saw.
LEMMA CloseKeeps ==
    ASSUME IInv, pc = "execute", NEW how, Close(how), db' \in {db, Seen},
           how = "applied" => todo = << >>,
           UNCHANGED <<read, given, baseline, current, ran, autocommit, quiet>>
    PROVE  IInv'
<1>1. IsDatabase(db') /\ Sane(db') /\ TrueValues(db')
  BY DEF IInv, Types, Databases
<1>2. work' = << >> /\ todo' = << >> /\ pc' = "idle" /\ result' = how
  BY DEF Close
<1>3. IsDatabase(Seen') /\ Databases' /\ ViewLocked'
  BY <1>1, <1>2, Over
<1>4. Types'
  <2>1. << >> \in Seq(Harmless) /\ DOMAIN << >> = {}
    BY EmptySeq
  <2> QED
    BY <1>1, <1>2, <1>3, <2>1 DEF IInv, Types
<1>5. how = "applied" => ran = StatementsOf(current)
  BY RanAll DEF IInv
<1>6. Decided' /\ Undisturbed'
  BY <1>2, <1>5 DEF IInv, Decided, Undisturbed
<1> QED
  BY <1>3, <1>4, <1>6 DEF IInv

\* Printing a plan changes nothing the invariant is about.
LEMMA PlanKeeps ==
    ASSUME IInv, NEW b \in Baselines, Plan(b)
    PROVE  IInv'
<1>1. /\ UNCHANGED <<db, pc, given, baseline, current, todo, work, ran, result, autocommit, quiet>>
      /\ pc = "idle" /\ read' = PlanOf(db, b) /\ b \in Given
  BY DEF Plan, apply, Baselines, Given
<1>2. UNCHANGED Seen
  BY <1>1 DEF Seen
<1>3. read'.baseline \in Given
  BY <1>1 DEF PlanOf
<1>4. Types'
  <2>1. /\ IsDatabase(db') /\ IsDatabase(Seen') /\ DOMAIN work' \subseteq Relations
        /\ todo' \in Seq(Harmless) /\ pc' \in {"idle", "derive", "execute"}
        /\ work' = << >> /\ todo' = << >>
        /\ baseline' \in Given /\ quiet' \in BOOLEAN
        /\ ran' \in Seq(Harmless) /\ pc' = "idle"
    BY <1>1, <1>2 DEF IInv, Types
  <2>2. given' # NoPlan => given'.baseline = baseline'
    BY <1>1 DEF IInv, Types
  <2> QED
    BY <1>3, <2>1, <2>2 DEF Types
<1>5. Databases' /\ ViewLocked'
  BY <1>1, <1>2 DEF IInv, Databases, ViewLocked
<1>6. Decided' /\ Undisturbed'
  BY <1>1 DEF IInv, Decided, Undisturbed
<1> QED
  BY <1>4, <1>5, <1>6 DEF IInv

\* A call of apply() takes over the baseline of the plan it is given.
LEMMA ApplyKeeps ==
    ASSUME IInv, NEW b \in Baselines, NEW p \in {NoPlan, read}, Apply(p, b)
    PROVE  IInv'
<1>1. /\ UNCHANGED <<db, todo, work, autocommit, quiet>> /\ pc = "idle" /\ pc' = "derive"
      /\ ran' = << >> /\ ~autocommit
      /\ given' = p /\ baseline' = IF p = NoPlan THEN b ELSE p.baseline
      /\ read' = NoPlan /\ current' = NoPlan /\ result' = "none" /\ b # "infinity"
  BY DEF Apply, Accepts, Transactional
<1>2. UNCHANGED Seen
  BY <1>1 DEF Seen
<1>3. baseline' \in Given /\ (given' # NoPlan => given'.baseline = baseline')
  <2> HIDE DEF NoPlan
  <2> QED
    BY <1>1 DEF IInv, Types, Baselines, Given
<1>4. Types'
  <2>1. /\ IsDatabase(db') /\ IsDatabase(Seen') /\ DOMAIN work' \subseteq Relations
        /\ todo' \in Seq(Harmless) /\ work' = << >> /\ todo' = << >>
        /\ quiet' \in BOOLEAN
    BY <1>1, <1>2 DEF IInv, Types
  <2>2. /\ read' = NoPlan /\ pc' \in {"idle", "derive", "execute"} /\ ~autocommit'
        /\ ran' \in Seq(Harmless)
    BY <1>1, EmptySeq
  <2> HIDE DEF NoPlan
  <2> QED
    BY <1>3, <2>1, <2>2 DEF Types
<1>5. Databases' /\ ViewLocked'
  BY <1>1, <1>2 DEF IInv, Databases, ViewLocked
<1>6. Decided' /\ Undisturbed'
  BY <1>1 DEF IInv, Decided, Undisturbed
<1> QED
  BY <1>4, <1>5, <1>6 DEF IInv

\* apply() compares again, and what it starts to execute is the plan of the database.
LEMMA DeriveKeeps ==
    ASSUME IInv, Derive
    PROVE  IInv'
<1> DEFINE p == PlanOf(db, baseline)
           r == "model_pricing_rates"
<1>1. /\ UNCHANGED <<db, read, given, baseline, work, ran, autocommit>>
      /\ pc = "derive" /\ quiet' = TRUE /\ current' = p
  BY DEF Derive
<1>2. /\ work = << >> /\ todo = << >> /\ ran = << >> /\ ~autocommit /\ IsDatabase(db) /\ Sane(db) /\ TrueValues(db)
      /\ baseline \in Given
  BY <1>1 DEF IInv, Types, Databases, Decided
<1>3. p.baseline = baseline
  BY DEF PlanOf
<1>4. StatementsOf(p) \in Seq(Planned(db))
  BY <1>2, PlanType DEF Given
<1> HIDE DEF p
<1>5. \/ /\ pc' = "execute" /\ todo' = StatementsOf(p) /\ UNCHANGED result
         /\ given # NoPlan => given.discrepancies = p.discrepancies
         /\ ~HasManual(p)
      \/ /\ pc' = "idle" /\ todo' = todo /\ result' \in {"stale", "manual", "empty"}
  BY <1>1 DEF Derive, Stale
<1>6. work' = << >> /\ db' = db /\ Seen = db
  BY <1>1, <1>2, SeenIdle
<1>7. Seen' = db /\ IsDatabase(Seen') /\ Databases' /\ ViewLocked'
  BY <1>2, <1>6, Over
<1>8. todo' \in Seq(Harmless) /\ (pc' = "execute" => todo' \in Seq(Planned(db)))
  <2> DEFINE X == Planned(db)
  <2>1. X \subseteq Harmless
    BY DEF Planned
  <2> HIDE DEF X
  <2>2. StatementsOf(p) \in Seq(X)
    BY <1>4 DEF X
  <2> DEFINE y == StatementsOf(p)
  <2> HIDE DEF y
  <2>3. y \in Seq(X)
    BY <2>2 DEF y
  <2>4. y \in Seq(Harmless)
    BY <2>1, <2>3
  <2>5. << >> \in Seq(Harmless)
    BY EmptySeq
  <2>6. todo' = y \/ (pc' = "idle" /\ todo' = << >>)
    BY <1>2, <1>5 DEF y
  <2> QED
    BY <2>3, <2>4, <2>5, <2>6 DEF X
<1>9. Types'
  <2>1. pc' # "execute" => todo' = << >>
    BY <1>2, <1>5
  <2>2. pc' \in {"idle", "derive", "execute"} /\ IsDatabase(db') /\ DOMAIN work' \subseteq Relations
    BY <1>2, <1>5, <1>6
  <2>3. /\ read # NoPlan => read.baseline \in Given
        /\ given # NoPlan => given.baseline = baseline
        /\ ran \in Seq(Harmless)
    BY DEF IInv, Types
  <2> HIDE DEF NoPlan
  <2> QED
    BY <1>1, <1>2, <1>6, <1>7, <1>8, <2>1, <2>2, <2>3 DEF Types
<1>10. Decided'
  <2>1. << >> \o StatementsOf(p) = StatementsOf(p)
    BY <1>4
  <2>2. pc' = "execute" => ran' \o todo' = StatementsOf(current')
    BY <1>1, <1>2, <1>5, <2>1
  <2>3. pc' # "derive" /\ result' # "applied"
    BY <1>1, <1>5 DEF IInv, Decided
  <2> QED
    BY <1>1, <1>3, <1>5, <2>2, <2>3 DEF IInv, Decided
<1>11. Undisturbed'
  <2> SUFFICES ASSUME pc' = "execute"
               PROVE  /\ current' = PlanOf(db', baseline') /\ ~HasManual(current')
                      /\ todo' \in Seq(Planned(db'))
                      /\ Seen'["gateway_usage_daily"].granted # db'["gateway_usage_daily"].granted =>
                           Replaceable(db')
                      /\ "effective_from" \notin DOMAIN db'[r].cols => Restructured'
    BY DEF Undisturbed
  <2>1. current' = PlanOf(db', baseline') /\ ~HasManual(current')
    <3>1. ~HasManual(p)
      BY <1>5
    <3>2. current' = PlanOf(db', baseline')
      BY <1>1 DEF p
    <3> QED
      BY <1>1, <3>1, <3>2
  <2>2. todo' \in Seq(Planned(db')) /\ Seen' = db'
    BY <1>6, <1>7, <1>8
  <2>3. ASSUME "effective_from" \notin DOMAIN db[r].cols
        PROVE  Restructured'
    <3>1. /\ \E i \in DOMAIN StatementsOf(p) :
                StatementsOf(p)[i] = St("add column", r, "effective_from", baseline)
          /\ KeyIsAdded(StatementsOf(p))
      <4>1. ~HasManual(p)
        BY <1>5
      <4> QED
        BY <1>2, <2>3, <4>1, Restructure DEF Given, p
    <3>2. todo' = StatementsOf(p)
      BY <1>5
    <3> QED
      BY <1>1, <3>1, <3>2 DEF Restructured
  <2> QED
    BY <1>6, <2>1, <2>2, <2>3
<1> QED
  BY <1>7, <1>9, <1>10, <1>11 DEF IInv

\* The invariant, for any bounds.
THEOREM Inductive == Spec => []IInv
<1>1. Init => IInv
  BY Starts
<1>2. IInv /\ [Next]_vars => IInv'
  <2> SUFFICES ASSUME IInv, [Next]_vars
               PROVE  IInv'
    OBVIOUS
  <2>1. CASE Edit
    <3>1. /\ UNCHANGED <<pc, read, given, baseline, current, todo, work, ran, result, autocommit>>
          /\ quiet' = FALSE
      BY <2>1 DEF Edit, apply
    <3>2. (IsDatabase(db) /\ IsDatabase(Seen) /\ Databases /\ ViewLocked)'
      BY <2>1, EditKeeps DEF IInv
    <3>3. Types'
      BY <3>1, <3>2 DEF IInv, Types
    <3>4. Decided' /\ Undisturbed'
      BY <3>1 DEF IInv, Decided, Undisturbed
    <3> QED
      BY <3>2, <3>3, <3>4 DEF IInv
  <2>2. ASSUME NEW b \in Baselines, Plan(b)
        PROVE  IInv'
    BY <2>2, PlanKeeps
  <2>3. ASSUME NEW b \in Baselines, NEW p \in {NoPlan, read}, Apply(p, b)
        PROVE  IInv'
    BY <2>3, ApplyKeeps
  <2>4. CASE Derive
    BY <2>4, DeriveKeeps
  <2>5. CASE Execute /\ Runs(Seen, Head(todo))
    <3>1. (Types /\ Databases /\ ViewLocked)'
      BY <2>5, RunKeeps DEF IInv
    <3>2. Undisturbed'
      BY <2>5, RunRestructures
    <3>3. Decided'
      <4>1. /\ UNCHANGED <<pc, result, given, baseline, current>>
            /\ todo' = Tail(todo) /\ ran' = Append(ran, Head(todo))
        BY <2>5, SeenExecute DEF IInv
      <4>2. pc = "execute" /\ todo # << >> /\ ran \o todo = StatementsOf(current)
        BY <2>5 DEF Execute, IInv, Decided
      <4>3. ran \in Seq(Harmless) /\ todo \in Seq(Harmless)
        BY DEF IInv, Types
      <4>4. ran' \o todo' = StatementsOf(current')
        BY <4>1, <4>2, <4>3, OneMore
      <4>5. result' = "none"
        BY <4>1, <4>2 DEF IInv, Decided
      <4> QED
        BY <4>1, <4>2, <4>4, <4>5 DEF IInv, Decided
    <3> QED
      BY <3>1, <3>2, <3>3 DEF IInv
  <2>6. CASE Execute /\ ~Runs(Seen, Head(todo))
    <3>1. /\ Close("error") /\ pc = "execute"
          /\ UNCHANGED <<db, read, given, baseline, current, ran, autocommit, quiet>>
      BY <2>6 DEF Execute
    <3> QED
      BY <3>1, CloseKeeps
  <2>7. CASE Commit
    <3>1. Close("applied") /\ pc = "execute" /\ db' = Seen /\ todo = << >>
          /\ UNCHANGED <<read, given, baseline, current, ran, autocommit, quiet>>
      BY <2>7 DEF Commit
    <3> QED
      BY <3>1, CloseKeeps
  <2>8. CASE Lose
    <3>1. Close("lost") /\ pc = "execute" /\ db' \in {db, Seen}
          /\ UNCHANGED <<read, given, baseline, current, ran, autocommit, quiet>>
      BY <2>8 DEF Lose
    <3> QED
      BY <3>1, CloseKeeps
  <2>9. CASE UNCHANGED vars
    <3>1. UNCHANGED <<db, pc, read, given, baseline, current, todo, work, ran, result, autocommit, quiet>>
      BY <2>9 DEF vars, apply
    <3>2. UNCHANGED Seen
      BY <3>1 DEF Seen
    <3>3. Types' /\ Databases' /\ ViewLocked'
      BY <3>1, <3>2 DEF IInv, Types, Databases, ViewLocked
    <3>4. Decided'
      BY <3>1 DEF IInv, Decided
    <3>5. Undisturbed'
      BY <3>1, <3>2 DEF IInv, Undisturbed, Restructured
    <3> QED
      BY <3>3, <3>4, <3>5 DEF IInv
  <2> QED
    BY <2>1, <2>2, <2>3, <2>4, <2>5, <2>6, <2>7, <2>8, <2>9 DEF Next
<1> QED
  BY <1>1, <1>2, PTL DEF Spec

-----------------------------------------------------------------------------
(* The properties *)

\* The databases are ones that Postgres would hold, at any moment of a reconciliation
\* and whatever other tools do during it.
THEOREM Typed == Spec => []TypeOK
<1>1. IInv => TypeOK
  <2> SUFFICES ASSUME IInv
               PROVE  TypeOK
    OBVIOUS
  <2>1. IsDatabase(Seen) /\ Sane(db) /\ Sane(Seen)
    BY DEF IInv, Types, Databases
  <2>2. \A t \in Tables : IsColumns(Seen[t].cols)
    BY <2>1, TablesHaveColumns
  <2>3. \A t \in Tables : Seen[t].indexes \subseteq Object /\ Seen[t].checks \subseteq Object
    BY <2>1 DEF IsDatabase, IsUsage, IsCard, Tables
  <2>4. \A i \in DOMAIN todo : todo[i] \in Statement
    <3>1. todo \in Seq(Harmless) /\ Harmless \subseteq Statement
      BY DEF IInv, Types, Harmless
    <3> QED
      BY <3>1
  <2>5. baseline \in Baselines
    BY DEF IInv, Types, Given, Baselines
  <2>6. pc \in {"idle", "derive", "execute"} /\ (pc # "execute" => work = << >> /\ todo = << >>)
    BY DEF IInv, Types
  <2>7. \A t \in Tables : \A c \in DOMAIN Seen[t].cols : c \in Names /\ Seen[t].cols[c] \in Column
    BY <2>2 DEF IsColumns
  <2>8. \A t \in Tables : Seen[t].indexes \cup Seen[t].checks \subseteq Object
    BY <2>3
  <2> QED
    BY <2>1, <2>4, <2>5, <2>6, <2>7, <2>8 DEF TypeOK
<1> QED
  BY <1>1, Inductive, PTL

\* No value of an older row is made up, in any interleaving with other tools.
THEOREM NothingIsInvented == Spec => []NoInventedValue
<1>1. IInv => NoInventedValue
  BY DEF IInv, Databases, TrueValues, TrueValue, NoInventedValue
<1> QED
  BY <1>1, Inductive, PTL

\* All of a plan goes into the database or none of it, in any interleaving with other
\* tools, and it is the plan that was given, derived again: what commits each statement as
\* it runs is a connection that is refused.
THEOREM ReadIsApplied == Spec => AppliedAsRead
<1> DEFINE A == (Derive \/ Execute \/ Commit \/ Lose) /\ (db' # db \/ result' = "applied") =>
                  /\ ran' = StatementsOf(current)
                  /\ given # NoPlan =>
                       ran' = StatementsOf(given) /\ current.baseline = given.baseline
<1>1. IInv /\ [Next]_vars => [A]_vars
  <2> SUFFICES ASSUME IInv, Derive \/ Execute \/ Commit \/ Lose,
                      db' # db \/ result' = "applied"
               PROVE  /\ ran' = StatementsOf(current)
                      /\ given # NoPlan =>
                           ran' = StatementsOf(given) /\ current.baseline = given.baseline
    OBVIOUS
  <2>1. ASSUME Commit \/ Lose
        PROVE  pc = "execute" /\ todo = << >> /\ ran' = ran
    BY <2>1 DEF Commit, Lose, Close
  <2>2. ~Derive
    <3> SUFFICES ASSUME Derive
                 PROVE  db' = db /\ result' # "applied"
      OBVIOUS
    <3>1. db' = db /\ pc = "derive" /\ result' \in {"stale", "manual", "empty", result}
      BY DEF Derive
    <3>2. result = "none"
      BY <3>1 DEF IInv, Decided
    <3> QED
      BY <3>1, <3>2
  <2>3. ~Execute
    <3>1. pc = "execute" => ~autocommit /\ result = "none"
      BY DEF IInv, Types, Decided
    <3> QED
      BY <3>1 DEF Execute, Close
  <2>4. pc = "execute" /\ todo = << >> /\ ran' = ran
    BY <2>1, <2>2, <2>3
  <2>5. ran' = StatementsOf(current)
    BY <2>4, RanAll DEF IInv
  <2>6. ASSUME given # NoPlan
        PROVE  StatementsOf(given) = StatementsOf(current) /\ current.baseline = given.baseline
    <3>1. current.discrepancies = given.discrepancies
      BY <2>4, <2>6 DEF IInv, Decided
    <3>2. current.baseline = baseline /\ given.baseline = baseline
      BY <2>4, <2>6 DEF IInv, Decided, Types
    <3> QED
      BY <3>1, <3>2 DEF StatementsOf
  <2> QED
    BY <2>5, <2>6
<1> QED
  BY <1>1, Inductive, PTL DEF Spec, AppliedAsRead

\* A commit takes away no table, column, value, index or constraint, whatever other tools
\* do, and no grant but one the operator was told of, if none is given after the comparison.
THEOREM NothingGoesAway == Spec => NothingLost
<1>1. IInv /\ [Next]_vars => [NothingRemoved /\ GrantLossTold]_vars
  <2> SUFFICES ASSUME IInv
               PROVE  NothingRemoved /\ GrantLossTold
    OBVIOUS
  <2>1. NothingRemoved
    <3> SUFFICES ASSUME Commit \/ Lose, NEW t \in Tables
                 PROVE  /\ db'[t].kind = db[t].kind
                        /\ db[t].indexes \subseteq db'[t].indexes
                        /\ db[t].checks \subseteq db'[t].checks
                        /\ \A c \in DOMAIN db[t].cols :
                             /\ c \in DOMAIN db'[t].cols
                             /\ db'[t].cols[c].held = db[t].cols[c].held
      BY DEF NothingRemoved
    <3> DEFINE e == db'
    <3>1. e \in {db, Seen}
      BY DEF Commit, Lose
    <3>2. Grown(db, e)
      <4>1. Grown(db, db) /\ Grown(db, Seen)
        BY GrownSame DEF IInv, Databases
      <4> HIDE DEF e
      <4> QED
        BY <3>1, <4>1
    <3> HIDE DEF e
    <3>3. /\ e[t].kind = db[t].kind
          /\ db[t].indexes \subseteq e[t].indexes
          /\ db[t].checks \subseteq e[t].checks
          /\ \A c \in DOMAIN db[t].cols :
               /\ c \in DOMAIN e[t].cols
               /\ e[t].cols[c].held = db[t].cols[c].held
      BY <3>2 DEF Grown
    <3> QED
      BY <3>3 DEF e
  <2>2. GrantLossTold
    <3> DEFINE V == db["gateway_usage_daily"]
    <3> SUFFICES ASSUME Commit, quiet, V.granted, ~db'["gateway_usage_daily"].granted
                 PROVE  current.observations # {}
      BY DEF GrantLossTold
    <3>1. pc = "execute" /\ db' = Seen
      BY DEF Commit
    <3>2. current = PlanOf(db, baseline) /\ Replaceable(db)
      BY <3>1 DEF IInv, Undisturbed
    <3>3. current.observations = Grantees(V)
      BY <3>2 DEF PlanOf
    <3>4. Grantees(V) = {"grants"}
      BY <3>2 DEF Grantees, Replaceable
    <3> QED
      BY <3>3, <3>4
  <2> QED
    BY <2>1, <2>2
<1> QED
  BY <1>1, Inductive, PTL DEF Spec, NothingLost

\* Left alone since the comparison, the rate card still prices each model after the
\* restructure.
THEOREM StillPrices == Spec => RateCardStillPrices
<1> DEFINE r == "model_pricing_rates"
           c == "effective_from"
           A == Commit /\ quiet /\ c \notin DOMAIN db[r].cols =>
                  LET R == db'[r] IN
                  /\ ~R.twice /\ ~R.solo
                  /\ R.key = "ours"
                  /\ R.cols[c].held \in {"date", "always"}
<1>1. IInv /\ [Next]_vars => [A]_vars
  <2> SUFFICES ASSUME IInv, Commit, quiet, c \notin DOMAIN db[r].cols
               PROVE  /\ ~db'[r].twice /\ ~db'[r].solo
                      /\ db'[r].key = "ours"
                      /\ db'[r].cols[c].held \in {"date", "always"}
    OBVIOUS
  <2>1. pc = "execute" /\ todo = << >> /\ db' = Seen
    BY DEF Commit
  <2>2. /\ current = PlanOf(db, baseline) /\ ~HasManual(current)
        /\ Restructured
    BY <2>1 DEF IInv, Undisturbed
  <2>3. IsDatabase(db) /\ Sane(db) /\ baseline \in Given /\ Grown(db, Seen)
    BY DEF IInv, Types, Databases
  <2>4. ~db[r].twice /\ ~Unpriceable(db[r])
    BY <2>2, <2>3, Restructure DEF Given
  <2>5. ~db[r].solo
    <3>1. db[r].solo => "pricing_mode" \in DOMAIN db[r].cols
      BY <2>3, SaneIs DEF SaneCard
    <3> QED
      BY <2>4, <3>1 DEF Unpriceable
  <2>6. ~Seen[r].twice /\ ~Seen[r].solo
    BY <2>3, <2>4, <2>5 DEF Grown
  <2>7. Seen[r].key = "ours" /\ Seen[r].cols[c].held \in {"date", "always"}
    BY <2>1, <2>2 DEF Restructured, KeyIsAdded
  <2> QED
    BY <2>1, <2>6, <2>7
<1>2. [][A]_vars <=> RateCardStillPrices
  BY DEF RateCardStillPrices
<1> QED
  BY <1>1, <1>2, Inductive, PTL DEF Spec

-----------------------------------------------------------------------------
(* Statements in order *)

ColumnOps == {"add column", "drop default", "set default", "set not null"}

\* s may not come before t: they are one statement, or s needs what t does, or t would
\* undo what s does.
Clash(s, t) ==
    \/ s.op = t.op /\ s.on = t.on /\ (s.op \in ColumnOps => s.column = t.column)
    \/ /\ s.op \in {"drop default", "set default"} /\ t.op = "add column"
       /\ s.on = t.on /\ s.column = t.column
    \/ /\ s.op = "add key"
       /\ t.op = "drop key" \/ (t.op = "add column" /\ t.column \in KeyOf("ours"))
    \/ s.op = "create view" /\ t.op \in {"drop view", "add column"}

InOrder(q) == \A i, j \in DOMAIN q : i < j => ~Clash(q[i], q[j])

\* What is in a concatenation.
LEMMA RangeConcat ==
    ASSUME NEW D, NEW r \in Seq(D), NEW s \in Seq(D)
    PROVE  Range(r \o s) = Range(r) \cup Range(s)
<1>1. /\ r \o s \in Seq(D) /\ Len(r \o s) = Len(r) + Len(s)
      /\ \A i \in 1..Len(r) : (r \o s)[i] = r[i]
      /\ \A i \in (Len(r) + 1)..(Len(r) + Len(s)) : (r \o s)[i] = s[i - Len(r)]
  BY Entries
<1>2. /\ DOMAIN (r \o s) = 1..(Len(r) + Len(s)) /\ DOMAIN r = 1..Len(r) /\ DOMAIN s = 1..Len(s)
      /\ Len(r) \in Nat /\ Len(s) \in Nat
  BY <1>1
<1> DEFINE t == r \o s
           m == Len(r)
           n == Len(s)
<1>3. /\ m \in Nat /\ n \in Nat /\ DOMAIN t = 1..(m + n) /\ DOMAIN r = 1..m /\ DOMAIN s = 1..n
      /\ \A i \in 1..m : t[i] = r[i]
      /\ \A i \in (m + 1)..(m + n) : t[i] = s[i - m]
  BY <1>1, <1>2
<1> HIDE DEF t, m, n
<1>4. ASSUME NEW i \in 1..(m + n) PROVE t[i] \in Range(r) \cup Range(s)
  <2>1. CASE i <= m
    <3>1. i \in 1..m
      BY <1>3, <2>1
    <3> QED
      BY <1>3, <3>1 DEF Range
  <2>2. CASE ~(i <= m)
    <3>1. i \in (m + 1)..(m + n) /\ i - m \in 1..n
      BY <1>3, <2>2
    <3>2. t[i] = s[i - m]
      BY <1>3, <3>1
    <3> QED
      BY <1>3, <3>1, <3>2 DEF Range
  <2> QED
    BY <2>1, <2>2
<1>5. ASSUME NEW i \in 1..m PROVE r[i] \in Range(t)
  <2>1. i \in 1..(m + n) /\ t[i] = r[i]
    BY <1>3
  <2> QED
    BY <1>3, <2>1 DEF Range
<1>6. ASSUME NEW i \in 1..n PROVE s[i] \in Range(t)
  <2>1. m + i \in 1..(m + n) /\ m + i \in (m + 1)..(m + n) /\ (m + i) - m = i
    BY <1>3
  <2>2. t[m + i] = s[i]
    BY <1>3, <2>1
  <2> QED
    BY <1>3, <2>1, <2>2 DEF Range
<1>7. Range(t) = Range(r) \cup Range(s)
  <2>1. /\ Range(t) = {t[i] : i \in 1..(m + n)} /\ Range(r) = {r[i] : i \in 1..m}
        /\ Range(s) = {s[i] : i \in 1..n}
    BY <1>3 DEF Range
  <2>2. Range(t) \subseteq Range(r) \cup Range(s)
    BY <1>4, <2>1
  <2>3. Range(r) \subseteq Range(t)
    BY <1>5, <2>1
  <2>4. Range(s) \subseteq Range(t)
    BY <1>6, <2>1
  <2> QED
    BY <2>2, <2>3, <2>4
<1> QED
  BY <1>7 DEF t

\* What is in no statement, in one, and in two.
LEMMA RangeFew ==
    /\ Range(<< >>) = {}
    /\ \A x : Range(<<x>>) = {x}
    /\ \A x, y : Range(<<x, y>>) = {x, y}
<1>1. Range(<< >>) = {}
  BY DEF Range
<1>2. ASSUME NEW x PROVE Range(<<x>>) = {x}
  <2>1. DOMAIN <<x>> = {1} /\ <<x>>[1] = x
    OBVIOUS
  <2> QED
    BY <2>1 DEF Range
<1>3. ASSUME NEW x, NEW y PROVE Range(<<x, y>>) = {x, y}
  <2>1. DOMAIN <<x, y>> = {1, 2} /\ <<x, y>>[1] = x /\ <<x, y>>[2] = y
    OBVIOUS
  <2> QED
    BY <2>1 DEF Range
<1> QED
  BY <1>1, <1>2, <1>3

\* What has a type has it in each place.
LEMMA RangeType ==
    ASSUME NEW D, NEW q \in Seq(D)
    PROVE  Range(q) \subseteq D
  BY DEF Range

\* The first, and what comes after it.
LEMMA RangeTail ==
    ASSUME NEW D, NEW q \in Seq(D), q # << >>
    PROVE  /\ Tail(q) \in Seq(D)
           /\ Range(q) = {Head(q)} \cup Range(Tail(q))
           /\ InOrder(q) => InOrder(Tail(q)) /\ \A t \in Range(Tail(q)) : ~Clash(Head(q), t)
<1> DEFINE n == Len(q)
           u == Tail(q)
<1>1. /\ n \in Nat /\ n >= 1 /\ DOMAIN q = 1..n /\ u \in Seq(D)
      /\ DOMAIN u = 1..(n - 1) /\ \A i \in 1..(n - 1) : u[i] = q[i + 1]
      /\ Head(q) = q[1]
  OBVIOUS
<1> HIDE DEF n, u
<1>2. ASSUME NEW i \in 1..n PROVE q[i] = q[1] \/ q[i] \in Range(u)
  <2>1. i = 1 \/ (i - 1 \in 1..(n - 1) /\ (i - 1) + 1 = i)
    BY <1>1
  <2>2. i - 1 \in 1..(n - 1) => u[i - 1] = q[(i - 1) + 1]
    BY <1>1
  <2> QED
    BY <1>1, <2>1, <2>2 DEF Range
<1>3. ASSUME NEW i \in 1..(n - 1) PROVE u[i] \in Range(q)
  <2>1. i + 1 \in 1..n /\ u[i] = q[i + 1]
    BY <1>1
  <2> QED
    BY <1>1, <2>1 DEF Range
<1>4. q[1] \in Range(q)
  <2>1. 1 \in DOMAIN q
    BY <1>1
  <2> QED
    BY <2>1 DEF Range
<1>5. Range(q) = {Head(q)} \cup Range(u)
  BY <1>1, <1>2, <1>3, <1>4 DEF Range
<1>6. ASSUME InOrder(q) PROVE InOrder(u)
  <2> SUFFICES ASSUME NEW i \in 1..(n - 1), NEW j \in 1..(n - 1), i < j
               PROVE  ~Clash(u[i], u[j])
    BY <1>1 DEF InOrder
  <2>1. i + 1 \in 1..n /\ j + 1 \in 1..n /\ i + 1 < j + 1 /\ u[i] = q[i + 1] /\ u[j] = q[j + 1]
    BY <1>1
  <2> QED
    BY <1>1, <1>6, <2>1 DEF InOrder
<1>7. ASSUME InOrder(q), NEW t \in Range(u) PROVE ~Clash(Head(q), t)
  <2>1. PICK i \in 1..(n - 1) : t = u[i]
    BY <1>1 DEF Range
  <2>2. i + 1 \in 1..n /\ 1 \in 1..n /\ 1 < i + 1 /\ u[i] = q[i + 1]
    BY <1>1
  <2> QED
    BY <1>1, <1>7, <2>1, <2>2 DEF InOrder
<1> QED
  BY <1>1, <1>5, <1>6, <1>7 DEF u

\* Two sequences in order are in order one after the other, if nothing of the one clashes
\* with anything of the other.
LEMMA OrderConcat ==
    ASSUME NEW D, NEW r \in Seq(D), NEW s \in Seq(D), InOrder(r), InOrder(s),
           \A x \in Range(r) : \A y \in Range(s) : ~Clash(x, y)
    PROVE  InOrder(r \o s)
<1> DEFINE t == r \o s
           m == Len(r)
           n == Len(s)
<1>1. /\ m \in Nat /\ n \in Nat /\ DOMAIN t = 1..(m + n) /\ DOMAIN r = 1..m /\ DOMAIN s = 1..n
      /\ \A i \in 1..m : t[i] = r[i]
      /\ \A i \in (m + 1)..(m + n) : t[i] = s[i - m]
  <2>1. /\ r \o s \in Seq(D) /\ Len(r \o s) = Len(r) + Len(s)
        /\ \A i \in 1..Len(r) : (r \o s)[i] = r[i]
        /\ \A i \in (Len(r) + 1)..(Len(r) + Len(s)) : (r \o s)[i] = s[i - Len(r)]
    BY Entries
  <2> QED
    BY <2>1
<1> HIDE DEF t, m, n
<1>2. ASSUME NEW i \in 1..(m + n), NEW j \in 1..(m + n), i < j PROVE ~Clash(t[i], t[j])
  <2>1. CASE j <= m
    <3>1. i \in 1..m /\ j \in 1..m
      BY <1>1, <1>2, <2>1
    <3> QED
      BY <1>1, <1>2, <3>1 DEF InOrder
  <2>2. CASE i <= m /\ ~(j <= m)
    <3>1. i \in 1..m /\ j \in (m + 1)..(m + n) /\ j - m \in 1..n
      BY <1>1, <2>2
    <3>2. t[i] = r[i] /\ t[j] = s[j - m] /\ r[i] \in Range(r) /\ s[j - m] \in Range(s)
      BY <1>1, <3>1 DEF Range
    <3> QED
      BY <3>2
  <2>3. CASE ~(i <= m)
    <3>1. /\ i \in (m + 1)..(m + n) /\ i - m \in 1..n /\ j \in (m + 1)..(m + n) /\ j - m \in 1..n
          /\ i - m < j - m
      BY <1>1, <1>2, <2>3
    <3>2. t[i] = s[i - m] /\ t[j] = s[j - m]
      BY <1>1, <3>1
    <3> QED
      BY <1>1, <3>1, <3>2 DEF InOrder
  <2> QED
    BY <2>1, <2>2, <2>3
<1> QED
  BY <1>1, <1>2 DEF InOrder, t

\* No statement, and one, are in order.
LEMMA OrderFew ==
    /\ InOrder(<< >>)
    /\ \A x : InOrder(<<x>>)
    /\ \A x, y : ~Clash(x, y) => InOrder(<<x, y>>)
<1>1. InOrder(<< >>)
  BY DEF InOrder
<1>2. ASSUME NEW x PROVE InOrder(<<x>>)
  <2>1. \A i \in DOMAIN <<x>> : i = 1
    OBVIOUS
  <2> QED
    BY <2>1 DEF InOrder
<1>3. ASSUME NEW x, NEW y, ~Clash(x, y) PROVE InOrder(<<x, y>>)
  <2> DEFINE q == <<x, y>>
  <2>1. (\A i \in DOMAIN q : i \in {1, 2}) /\ q[1] = x /\ q[2] = y
    OBVIOUS
  <2> HIDE DEF q
  <2>2. ASSUME NEW i \in DOMAIN q, NEW j \in DOMAIN q, i < j PROVE ~Clash(q[i], q[j])
    <3>1. i = 1 /\ j = 2
      BY <2>1, <2>2
    <3> QED
      BY <1>3, <2>1, <3>1
  <2> QED
    BY <2>2 DEF InOrder, q
<1> QED
  BY <1>1, <1>2, <1>3

\* What one sequence after the other comes to, and in which order.
LEMMA JoinedRange ==
    ASSUME NEW D, NEW n \in Nat \ {0}, NEW f, NEW g \in [1..n -> Seq(D)], Joins(f, g, n, D)
    PROVE  /\ \A x : x \in Range(f[n]) <=> \E k \in 1..n : x \in Range(g[k])
           /\ /\ \A k \in 1..n : InOrder(g[k])
              /\ \A i \in 1..n : \A j \in 1..n : i < j =>
                   \A x \in Range(g[i]) : \A y \in Range(g[j]) : ~Clash(x, y)
              => InOrder(f[n])
<1> DEFINE Ordered == /\ \A k \in 1..n : InOrder(g[k])
                      /\ \A i \in 1..n : \A j \in 1..n : i < j =>
                           \A x \in Range(g[i]) : \A y \in Range(g[j]) : ~Clash(x, y)
           Good(i) == /\ \A x : x \in Range(f[i]) <=> \E k \in 1..i : x \in Range(g[k])
                      /\ Ordered => InOrder(f[i])
           Failing == {i \in 1..n : ~Good(i)}
<1>1. /\ f \in [1..n -> Seq(D)] /\ f[1] = g[1]
      /\ \A i \in 2..n : f[i] = f[i - 1] \o g[i]
  BY DEF Joins
<1>2. Good(1)
  <2>1. \A k : k \in 1..1 <=> k = 1
    OBVIOUS
  <2>2. 1 \in 1..n
    OBVIOUS
  <2> QED
    BY <1>1, <2>1, <2>2
<1>3. ASSUME NEW i \in 2..n, Good(i - 1)
      PROVE  Good(i)
  <2>1. /\ f[i - 1] \in Seq(D) /\ g[i] \in Seq(D) /\ f[i] = f[i - 1] \o g[i]
        /\ i \in 1..n /\ i - 1 \in 1..n
    <3>1. i \in 1..n /\ i - 1 \in 1..n
      OBVIOUS
    <3> QED
      BY <1>1, <3>1
  <2>2. Range(f[i]) = Range(f[i - 1]) \cup Range(g[i])
    <3>1. Range(f[i - 1] \o g[i]) = Range(f[i - 1]) \cup Range(g[i])
      BY <2>1, RangeConcat
    <3> QED
      BY <2>1, <3>1
  <2>3. \A k : k \in 1..i <=> k \in 1..(i - 1) \/ k = i
    OBVIOUS
  <2>4. \A x : x \in Range(f[i]) <=> \E k \in 1..i : x \in Range(g[k])
    BY <1>3, <2>2, <2>3
  <2>5. ASSUME Ordered PROVE InOrder(f[i])
    <3>1. InOrder(f[i - 1]) /\ InOrder(g[i])
      BY <1>3, <2>1, <2>5
    <3>2. ASSUME NEW x \in Range(f[i - 1]), NEW y \in Range(g[i]) PROVE ~Clash(x, y)
      <4>1. PICK k \in 1..(i - 1) : x \in Range(g[k])
        BY <1>3
      <4>2. k \in 1..n /\ k < i
        OBVIOUS
      <4> QED
        BY <2>1, <2>5, <4>1, <4>2
    <3>3. InOrder(f[i - 1] \o g[i])
      BY <2>1, <3>1, <3>2, OrderConcat
    <3> QED
      BY <2>1, <3>3
  <2> QED
    BY <2>4, <2>5
<1> HIDE DEF Good
<1>4. Failing = {}
  <2> SUFFICES ASSUME Failing # {}
               PROVE  FALSE
    OBVIOUS
  <2>1. PICK m \in Failing : \A k \in Failing : m <= k
    <3>1. Failing \subseteq Nat
      OBVIOUS
    <3> HIDE DEF Failing
    <3> QED
      BY <3>1, LeastNumber
  <2>2. m \in 1..n /\ ~Good(m)
    OBVIOUS
  <2>3. m # 1
    BY <1>2, <2>2
  <2>4. m \in 2..n /\ m - 1 \in 1..n /\ ~(m <= m - 1)
    BY <2>2, <2>3
  <2>5. Good(m - 1)
    BY <2>1, <2>4
  <2> QED
    BY <1>3, <2>2, <2>4, <2>5
<1>5. Good(n)
  BY <1>4
<1> QED
  BY <1>5 DEF Good

\* No manual discrepancy.
Clean(q) == \A x \in Range(q) : x.resolution # "manual"

\* No statement of a member may have to wait for one of a later member.
Orderly(ss, n) ==
    /\ \A k \in 1..n : InOrder(StatementsIn(ss[k]))
    /\ \A i \in 1..n : \A j \in 1..n : i < j =>
         \A x \in Range(StatementsIn(ss[i])) : \A y \in Range(StatementsIn(ss[j])) : ~Clash(x, y)

\* The discrepancies of the members together, and their statements.
LEMMA FindingsFlat ==
    ASSUME NEW X, NEW n \in Nat \ {0}, NEW ss \in [1..n -> Seq(Discrepancies(X))]
    PROVE  LET q == FlattenSeq(ss) IN
           /\ q \in Seq(Discrepancies(X))
           /\ \A x : x \in Range(q) <=> \E k \in 1..n : x \in Range(ss[k])
           /\ \A x : x \in Range(StatementsIn(q)) <=> \E k \in 1..n : x \in Range(StatementsIn(ss[k]))
           /\ Orderly(ss, n) => InOrder(StatementsIn(q))
<1> DEFINE D == Discrepancies(X)
           q == FlattenSeq(ss)
           Y == Seq(D)
<1>1. ss \in Seq(Y) /\ Len(ss) = n /\ Len(ss) # 0
  <2> HIDE DEF D, Y
  <2>1. ss \in [1..n -> Y]
    BY DEF D, Y
  <2>2. ss \in Seq(Y) /\ Len(ss) = n
    BY <2>1, Tabled
  <2> QED
    BY <2>2
<1>2. PICK f : Joins(f, ss, n, D) /\ q = f[n]
  <2>1. \E f : Joins(f, ss, Len(ss), D) /\ FlattenSeq(ss) = f[Len(ss)]
    BY <1>1, FlattenIs
  <2> QED
    BY <1>1, <2>1
<1>3. /\ f \in [1..n -> Seq(D)] /\ f[1] = ss[1]
      /\ \A i \in 2..n : f[i] = f[i - 1] \o ss[i]
  BY <1>2 DEF Joins
<1>4. \A x : x \in Range(f[n]) <=> \E k \in 1..n : x \in Range(ss[k])
  BY <1>2, JoinedRange
<1>5. n \in 1..n /\ f[n] \in Seq(D)
  BY <1>3
<1> DEFINE F == [i \in 1..n |-> StatementsIn(f[i])]
           g == [i \in 1..n |-> StatementsIn(ss[i])]
<1>6. g \in [1..n -> Seq(X)]
  <2>1. \A i \in 1..n : StatementsIn(ss[i]) \in Seq(X)
    BY StatementsType
  <2> QED
    BY <2>1
<1>7. F \in [1..n -> Seq(X)]
  <2>1. \A i \in 1..n : StatementsIn(f[i]) \in Seq(X)
    BY <1>3, StatementsType
  <2> QED
    BY <2>1
<1>8. F[1] = g[1]
  <2>1. 1 \in 1..n
    OBVIOUS
  <2> QED
    BY <1>3, <2>1
<1>9. ASSUME NEW i \in 2..n PROVE F[i] = F[i - 1] \o g[i]
  <2>1. i \in 1..n /\ i - 1 \in 1..n
    OBVIOUS
  <2>2. f[i - 1] \in Seq(D) /\ ss[i] \in Seq(D) /\ f[i] = f[i - 1] \o ss[i]
    BY <1>3, <2>1
  <2>3. StatementsIn(f[i - 1] \o ss[i]) = StatementsIn(f[i - 1]) \o StatementsIn(ss[i])
    BY <2>2, StatementsConcat
  <2>4. F[i] = StatementsIn(f[i]) /\ F[i - 1] = StatementsIn(f[i - 1]) /\ g[i] = StatementsIn(ss[i])
    BY <2>1
  <2> QED
    BY <2>2, <2>3, <2>4
<1>10. \A i \in 1..n : g[i] = StatementsIn(ss[i])
  OBVIOUS
<1>11. F[n] = StatementsIn(q)
  BY <1>2, <1>5
<1> HIDE DEF F, g
<1>12. Joins(F, g, n, X)
  BY <1>7, <1>8, <1>9 DEF Joins
<1>13. /\ \A x : x \in Range(F[n]) <=> \E k \in 1..n : x \in Range(g[k])
       /\ /\ \A k \in 1..n : InOrder(g[k])
          /\ \A i \in 1..n : \A j \in 1..n : i < j =>
               \A x \in Range(g[i]) : \A y \in Range(g[j]) : ~Clash(x, y)
          => InOrder(F[n])
  BY <1>6, <1>12, JoinedRange
<1> HIDE DEF q, D
<1>15. q \in Seq(D) /\ \A x : x \in Range(q) <=> \E k \in 1..n : x \in Range(ss[k])
  BY <1>2, <1>4, <1>5
<1>16. \A x : x \in Range(StatementsIn(q)) <=> \E k \in 1..n : x \in Range(StatementsIn(ss[k]))
  BY <1>10, <1>11, <1>13
<1>17. Orderly(ss, n) => InOrder(StatementsIn(q))
  BY <1>10, <1>11, <1>13 DEF Orderly
<1> QED
  BY <1>15, <1>16, <1>17 DEF q, D

\* The discrepancies of two sequences, one after the other.
LEMMA FindingsConcat ==
    ASSUME NEW X, NEW p \in Seq(Discrepancies(X)), NEW q \in Seq(Discrepancies(X))
    PROVE  /\ p \o q \in Seq(Discrepancies(X))
           /\ Clean(p \o q) <=> Clean(p) /\ Clean(q)
           /\ Range(StatementsIn(p \o q)) = Range(StatementsIn(p)) \cup Range(StatementsIn(q))
           /\ /\ InOrder(StatementsIn(p)) /\ InOrder(StatementsIn(q))
              /\ \A x \in Range(StatementsIn(p)) : \A y \in Range(StatementsIn(q)) : ~Clash(x, y)
              => InOrder(StatementsIn(p \o q))
<1> DEFINE D == Discrepancies(X)
<1>1. p \o q \in Seq(D) /\ Range(p \o q) = Range(p) \cup Range(q)
  <2> HIDE DEF D
  <2>1. p \in Seq(D) /\ q \in Seq(D)
    BY DEF D
  <2> QED
    BY <2>1, RangeConcat
<1>2. Clean(p \o q) <=> Clean(p) /\ Clean(q)
  BY <1>1 DEF Clean
<1>3. StatementsIn(p) \in Seq(X) /\ StatementsIn(q) \in Seq(X)
  BY StatementsType
<1>4. StatementsIn(p \o q) = StatementsIn(p) \o StatementsIn(q)
  BY StatementsConcat
<1>5. Range(StatementsIn(p \o q)) = Range(StatementsIn(p)) \cup Range(StatementsIn(q))
  BY <1>3, <1>4, RangeConcat
<1>6. /\ InOrder(StatementsIn(p)) /\ InOrder(StatementsIn(q))
      /\ \A x \in Range(StatementsIn(p)) : \A y \in Range(StatementsIn(q)) : ~Clash(x, y)
      => InOrder(StatementsIn(p) \o StatementsIn(q))
  BY <1>3, OrderConcat
<1> QED
  BY <1>1, <1>2, <1>4, <1>5, <1>6

\* The statements of no discrepancy, and of one.
LEMMA FindingsFew ==
    ASSUME NEW X
    PROVE  /\ StatementsIn(<< >>) = << >> /\ Clean(<< >>)
           /\ \A x \in Discrepancies(X) :
                StatementsIn(<<x>>) = x.statements /\ (Clean(<<x>>) <=> x.resolution # "manual")
<1>1. Clean(<< >>) /\ \A x : Clean(<<x>>) <=> x.resolution # "manual"
  BY RangeFew DEF Clean
<1>2. ASSUME NEW x \in Discrepancies(X) PROVE StatementsIn(<<x>>) = x.statements
  <2>1. x.statements \in Seq(X)
    BY DEF Discrepancies
  <2>2. [i \in DOMAIN <<x>> |-> <<x>>[i].statements] = <<x.statements>>
    OBVIOUS
  <2> QED
    BY <2>1, <2>2, FlattenOne DEF StatementsIn
<1>3. StatementsIn(<< >>) = << >>
  <2>1. << >> \in Seq(Discrepancies(X))
    OBVIOUS
  <2>2. [i \in DOMAIN << >> |-> << >>[i].statements] = << >>
    OBVIOUS
  <2>3. FlattenSeq(<< >>) = << >>
    BY DEF FlattenSeq
  <2> QED
    BY <2>2, <2>3 DEF StatementsIn
<1> QED
  BY <1>1, <1>2, <1>3

-----------------------------------------------------------------------------
(* What a statement asks, and what it leaves to be done *)

\* Statements of T add column c, and give it a default of its own.
Adds(T, t, c) == \E s \in T : s.op = "add column" /\ s.on = t /\ s.column = c
Defaulted(T, t, c) ==
    \E s \in T : s.op \in {"drop default", "set default"} /\ s.on = t /\ s.column = c

\* What a statement asks of database e, if the statements of T that come before it are
\* executed first.  ok: there is no difference the comparison does not look at.
ReadyTable(e, ok, s) == ok /\ s.on \in Tables => e[s.on].kind = "table"
ReadyColumn(e, T, s) ==
    LET C == e[s.on].cols IN
    LET c == s.column IN
    /\ s.op = "add column" => c \notin DOMAIN C
    /\ s.op \in {"drop default", "set default"} =>
         /\ s.default = Reference[s.on].cols[c].default
         /\ \/ c \in DOMAIN C /\ ~C[c].identity /\ ~C[c].generated
            \/ Adds(T, s.on, c)
    /\ s.op = "set not null" =>
         Reference[s.on].cols[c].notNull /\ c \in DOMAIN C /\ ~C[c].nulls
ReadyKey(e, T, ok, s) ==
    LET R == e["model_pricing_rates"] IN
    /\ s.op = "drop key" => R.key # "none" /\ (ok => ~R.referenced)
    /\ s.op = "add key" =>
         /\ ~R.twice
         /\ R.key = "none" \/ \E p \in T : p.op = "drop key"
         /\ \A k \in KeyOf("ours") :
              \/ k \in DOMAIN R.cols /\ ~R.cols[k].nulls
              \/ \E p \in T : /\ p.op = "add column" /\ p.on = "model_pricing_rates"
                              /\ p.column = k /\ p.default # "none"
ReadyObject(e, ok, s) ==
    LET U == e["gateway_usage"] IN
    LET R == e["model_pricing_rates"] IN
    /\ s.op = "create index" =>
         "ts" \in DOMAIN U.cols /\ (ok => ~e.taken) /\ TsIndex.name \notin NamesOf(U.indexes)
    /\ s.op = "add check" =>
         "cache_cost" \in DOMAIN R.cols /\ ~R.bad /\ CostsCheck.name \notin NamesOf(R.checks)
ReadyView(e, T, s) ==
    LET V == e["gateway_usage_daily"] IN
    /\ s.op = "drop view" => V.kind = "view" /\ ~V.dependents
    /\ s.op = "create view" =>
         /\ V.kind = "absent" \/ \E p \in T : p.op = "drop view"
         /\ \A t \in Tables : \A k \in Reads[t] :
              \/ k \in DOMAIN e[t].cols /\ e[t].cols[k].type = "ours"
              \/ Adds(T, t, k)
Ready(e, T, ok, s) ==
    /\ ReadyTable(e, ok, s) /\ ReadyColumn(e, T, s) /\ ReadyKey(e, T, ok, s)
    /\ ReadyObject(e, ok, s) /\ ReadyView(e, T, s)

\* The statements of T make column c of table t what it is in the schema.
CoveredColumn(e, T, t, c) ==
    LET C == Reference[t].cols[c] IN
    LET F == e[t].cols[c] IN
    IF c \in DOMAIN e[t].cols
    THEN /\ F.generated = C.generated /\ F.identity = C.identity /\ F.type = C.type
         /\ F.notNull = C.notNull
              \/ \E s \in T : s.op = "set not null" /\ s.on = t /\ s.column = c
         /\ F.default = C.default \/ Defaulted(T, t, c)
    ELSE \E p \in T : /\ p.op = "add column" /\ p.on = t /\ p.column = c
                      /\ p.default = C.default \/ Defaulted(T, t, c)

\* A column that is not of the schema, and that the writer need not know of.
Idle(F) == ~(F.notNull /\ F.default = "none" /\ ~F.identity)

\* The statements of T leave nothing to be reconciled.
CoveredTable(e, T, t) ==
    /\ e[t].kind # "absent"
    /\ \A c \in DOMAIN Reference[t].cols \ {"id"} : CoveredColumn(e, T, t, c)
    /\ t = "gateway_usage" =>
         \A c \in DOMAIN e[t].cols \ DOMAIN Reference[t].cols : Idle(e[t].cols[c])
CoveredKeys(e, T) ==
    /\ e["gateway_usage"].key = "ours"
    /\ \/ e["model_pricing_rates"].key = "ours" /\ \A s \in T : s.op # "drop key"
       \/ \E s \in T : s.op = "add key"
CoveredObjects(e, T) ==
    /\ "ts" \in ShapesOf(e["gateway_usage"].indexes) \/ \E s \in T : s.op = "create index"
    /\ "costs" \in ShapesOf(e["model_pricing_rates"].checks) \/ \E s \in T : s.op = "add check"
CoveredView(e, T) ==
    LET V == e["gateway_usage_daily"] IN
    \/ V.kind = "view" /\ V.shape = "ours" /\ \A s \in T : s.op # "drop view"
    \/ \E s \in T : s.op = "create view"
Covered(e, T) ==
    /\ \A t \in Tables : CoveredTable(e, T, t)
    /\ CoveredKeys(e, T) /\ CoveredObjects(e, T) /\ CoveredView(e, T)

\* A view has no key, and neither has what is not there.
Keyless(d) == \A t \in Tables : d[t].kind # "table" => d[t].key = "none"

\* While nobody else changes anything, what is left of the plan can be executed, and
\* leaves nothing to be reconciled.
Kept ==
    pc = "execute" /\ quiet =>
        /\ InOrder(todo)
        /\ \A s \in Range(todo) : Ready(Seen, Range(todo), ~Unseen(db), s)
        /\ Covered(Seen, Range(todo))

\* What apply() returned is still so while nobody else changes anything.
Told ==
    /\ result \in {"none", "stale", "manual", "empty", "applied", "error", "lost"}
    /\ pc = "idle" /\ quiet => result # "none"
    /\ quiet /\ result = "error" => Unseen(db)
    /\ quiet /\ result = "applied" => \A b \in Given : IsEmpty(PlanOf(db, b))
    /\ quiet /\ result = "empty" => IsEmpty(PlanOf(db, baseline))
    /\ quiet /\ result = "lost" =>
         PlanOf(db, baseline) = current \/ IsEmpty(PlanOf(db, baseline))
    /\ quiet /\ result = "manual" => HasManual(PlanOf(db, baseline))

\* What a statement does to the columns of a table, to the rest of the tables, and to the
\* view.
SetsDefault(s, t, c) ==
    s.op \in {"drop default", "set default"} /\ s.on = t /\ s.column = c
SetsNotNull(s, t, c) ==
    \/ s.op = "set not null" /\ s.on = t /\ s.column = c
    \/ s.op = "add key" /\ t = "model_pricing_rates" /\ c \in KeyOf("ours")
DoesColumns(d, e, s) ==
    \A t \in Tables :
        /\ DOMAIN e[t].cols =
             DOMAIN d[t].cols \cup (IF s.op = "add column" /\ s.on = t THEN {s.column} ELSE {})
        /\ s.op = "add column" /\ s.on = t => e[t].cols[s.column] = Added(t, s)
        /\ \A c \in DOMAIN d[t].cols :
             LET F == d[t].cols[c] IN
             LET G == e[t].cols[c] IN
             /\ G.type = F.type /\ G.identity = F.identity /\ G.generated = F.generated
             /\ G.nulls = F.nulls
             /\ G.default = IF SetsDefault(s, t, c) THEN s.default ELSE F.default
             /\ G.notNull = IF SetsNotNull(s, t, c) THEN TRUE ELSE F.notNull
DoesTables(d, e, s) ==
    LET U == d["gateway_usage"] IN
    LET R == d["model_pricing_rates"] IN
    LET V == e["gateway_usage"] IN
    LET S == e["model_pricing_rates"] IN
    /\ V.kind = U.kind /\ S.kind = R.kind
    /\ S.twice = R.twice /\ S.bad = R.bad /\ S.referenced = R.referenced
    /\ e["taken"] = d["taken"]
    /\ V.key = U.key
    /\ S.key = IF s.op = "drop key" THEN "none" ELSE IF s.op = "add key" THEN "ours" ELSE R.key
    /\ V.indexes = IF s.op = "create index" THEN U.indexes \cup {TsIndex} ELSE U.indexes
    /\ S.checks = IF s.op = "add check" THEN R.checks \cup {CostsCheck} ELSE R.checks
DoesView(d, e, s) ==
    LET V == d["gateway_usage_daily"] IN
    LET W == e["gateway_usage_daily"] IN
    /\ W.dependents = V.dependents
    /\ s.op \notin {"drop view", "create view"} => W = V
    /\ s.op = "drop view" => W.kind = "absent"
    /\ s.op = "create view" => W.kind = "view" /\ W.shape = "ours"
Does(d, e, s) == DoesColumns(d, e, s) /\ DoesTables(d, e, s) /\ DoesView(d, e, s)

\* The fields of a table, and of the database.
LEMMA TableFields ==
    ASSUME NEW d, IsDatabase(d), NEW t \in Tables
    PROVE  /\ t \in DOMAIN d /\ Tables \subseteq DOMAIN d
           /\ {"kind", "key", "indexes", "checks", "cols"} \subseteq DOMAIN d[t]
           /\ t = "model_pricing_rates" => {"twice", "bad", "referenced"} \subseteq DOMAIN d[t]
<1>1. t \in DOMAIN d /\ Tables \subseteq DOMAIN d
  BY DEF IsDatabase, Tables
<1>2. {"kind", "key", "indexes", "checks", "cols"} \subseteq DOMAIN d[t]
      /\ (t = "model_pricing_rates" => {"twice", "bad", "referenced"} \subseteq DOMAIN d[t])
  BY DEF IsDatabase, IsUsage, IsCard, Tables
<1> QED
  BY <1>1, <1>2

\* e is d with other columns in table t.
OnlyColumns(d, e, t) == \E C : e = [d EXCEPT ![t].cols = C]

\* A statement that changes the columns of a table does nothing else.
LEMMA ColumnsOnly ==
    ASSUME NEW d, IsDatabase(d), NEW s \in Harmless, NEW t \in Tables, NEW e,
           OnlyColumns(d, e, t), s.op \in ColumnOps
    PROVE  DoesTables(d, e, s) /\ DoesView(d, e, s)
<1>1. PICK C : e = [d EXCEPT ![t].cols = C]
  BY DEF OnlyColumns
<1>2. /\ DOMAIN d = {"gateway_usage", "model_pricing_rates", "gateway_usage_daily", "taken"}
      /\ Tables = {"gateway_usage", "model_pricing_rates"}
  BY DEF IsDatabase, Tables
<1>3. {"kind", "key", "indexes", "checks", "cols"} \subseteq DOMAIN d[t]
      /\ (t = "model_pricing_rates" => {"twice", "bad", "referenced"} \subseteq DOMAIN d[t])
  BY TableFields
<1> DEFINE R == d[t]
           S == [R EXCEPT !.cols = C]
<1>4. e[t] = S /\ \A x \in DOMAIN d \ {t} : e[x] = d[x]
  BY <1>1, <1>2
<1> HIDE DEF R
<1>5. /\ S.kind = R.kind /\ S.key = R.key /\ S.indexes = R.indexes /\ S.checks = R.checks
      /\ t = "model_pricing_rates" =>
           S.twice = R.twice /\ S.bad = R.bad /\ S.referenced = R.referenced
  BY <1>3 DEF R
<1> HIDE DEF S
<1>6. s.op \notin {"drop key", "add key", "create index", "add check", "drop view", "create view"}
  BY DEF ColumnOps
<1>7. DoesTables(d, e, s)
  BY <1>2, <1>4, <1>5, <1>6 DEF DoesTables, R
<1>8. DoesView(d, e, s)
  BY <1>2, <1>4, <1>6 DEF DoesView
<1> QED
  BY <1>7, <1>8

\* A column is added.
LEMMA AddDoes ==
    ASSUME NEW d, IsDatabase(d), NEW s \in Harmless, s.op = "add column", Runs(d, s)
    PROVE  Does(d, Effect(d, s), s)
<1> DEFINE t == s.on
           c == s.column
           C == d[t].cols
           A == Added(t, s)
           C2 == With(C, c, A)
           e == [d EXCEPT ![t].cols = C2]
<1>1. t \in Tables /\ c \notin DOMAIN C
  BY DEF Harmless, Runs
<1>2. Effect(d, s) = e
  BY DEF Effect
<1>3. /\ DOMAIN C2 = DOMAIN C \cup {c} /\ C2[c] = A /\ \A x \in DOMAIN C : C2[x] = C[x]
  <2> HIDE DEF C, A
  <2> QED
    BY <1>1 DEF With
<1> HIDE DEF C2, A
<1>4. DoesTables(d, e, s) /\ DoesView(d, e, s) /\ e[t].cols = C2 /\ \A x \in Tables \ {t} : e[x] = d[x]
  <2>1. s.op \in ColumnOps
    BY DEF ColumnOps
  <2>2. OnlyColumns(d, e, t)
    BY DEF OnlyColumns
  <2>3. e[t].cols = C2 /\ \A x \in Tables \ {t} : e[x] = d[x]
    <3>1. t \in Tables
      BY <1>1
    <3> HIDE DEF t
    <3>2. t \in DOMAIN d /\ Tables \subseteq DOMAIN d /\ "cols" \in DOMAIN d[t]
      BY <3>1, TableFields
    <3> QED
      BY <3>2
  <2>4. t \in Tables
    BY <1>1
  <2> HIDE DEF t, e
  <2>5. DoesTables(d, e, s) /\ DoesView(d, e, s)
    BY <2>1, <2>2, <2>4, ColumnsOnly
  <2> QED
    BY <2>3, <2>5
<1> HIDE DEF e
<1>5. \A x, y : ~SetsDefault(s, x, y) /\ ~SetsNotNull(s, x, y)
  BY DEF SetsDefault, SetsNotNull
<1>6. DoesColumns(d, e, s)
  <2> SUFFICES ASSUME NEW x \in Tables
               PROVE  /\ DOMAIN e[x].cols =
                           DOMAIN d[x].cols \cup (IF s.on = x THEN {s.column} ELSE {})
                      /\ s.on = x => e[x].cols[s.column] = Added(x, s)
                      /\ \A y \in DOMAIN d[x].cols : e[x].cols[y] = d[x].cols[y]
    BY <1>5 DEF DoesColumns
  <2>1. CASE x = t
    BY <1>3, <1>4, <2>1 DEF A
  <2>2. CASE x # t
    BY <1>4, <2>2
  <2> QED
    BY <2>1, <2>2
<1> QED
  BY <1>2, <1>4, <1>6 DEF Does

\* A default is set or dropped, or NOT NULL is set.
LEMMA AlterDoes ==
    ASSUME NEW d, IsDatabase(d), NEW s \in Harmless,
           s.op \in {"drop default", "set default", "set not null"}, Runs(d, s)
    PROVE  Does(d, Effect(d, s), s)
<1> DEFINE t == s.on
           c == s.column
           C == d[t].cols
           A == IF s.op = "set not null" THEN [C[c] EXCEPT !.notNull = TRUE]
                ELSE [C[c] EXCEPT !.default = s.default]
           C2 == [C EXCEPT ![c] = A]
           e == [d EXCEPT ![t].cols = C2]
<1>1. t \in Tables /\ c \in DOMAIN C
  BY DEF Harmless, Runs, Alterable
<1>2. Effect(d, s) = e
  <2>1. CASE s.op = "set not null"
    BY <2>1 DEF Effect
  <2>2. CASE s.op # "set not null"
    BY <2>2 DEF Effect
  <2> QED
    BY <2>1, <2>2
<1>3. C[c] \in Column
  BY <1>1, TablesHaveColumns DEF IsColumns
<1>4. /\ A.type = C[c].type /\ A.identity = C[c].identity /\ A.generated = C[c].generated
      /\ A.nulls = C[c].nulls
      /\ A.default = IF s.op = "set not null" THEN C[c].default ELSE s.default
      /\ A.notNull = IF s.op = "set not null" THEN TRUE ELSE C[c].notNull
  <2> DEFINE F == C[c]
  <2> HIDE DEF F
  <2>1. F \in Column
    BY <1>3 DEF F
  <2>2. A = IF s.op = "set not null" THEN [F EXCEPT !.notNull = TRUE]
            ELSE [F EXCEPT !.default = s.default]
    BY DEF F
  <2> HIDE DEF A
  <2>3. /\ A.type = F.type /\ A.identity = F.identity /\ A.generated = F.generated
        /\ A.nulls = F.nulls
        /\ A.default = IF s.op = "set not null" THEN F.default ELSE s.default
        /\ A.notNull = IF s.op = "set not null" THEN TRUE ELSE F.notNull
    BY <2>1, <2>2 DEF Column
  <2> QED
    BY <2>3 DEF F
<1>5. DOMAIN C2 = DOMAIN C /\ C2[c] = A /\ \A x \in DOMAIN C \ {c} : C2[x] = C[x]
  <2> HIDE DEF C, A
  <2> QED
    BY <1>1
<1> HIDE DEF C2, A
<1>6. DoesTables(d, e, s) /\ DoesView(d, e, s) /\ e[t].cols = C2 /\ \A x \in Tables \ {t} : e[x] = d[x]
  <2>1. s.op \in ColumnOps
    BY DEF ColumnOps
  <2>2. OnlyColumns(d, e, t)
    BY DEF OnlyColumns
  <2>3. e[t].cols = C2 /\ \A x \in Tables \ {t} : e[x] = d[x]
    <3>1. t \in Tables
      BY <1>1
    <3> HIDE DEF t
    <3>2. t \in DOMAIN d /\ Tables \subseteq DOMAIN d /\ "cols" \in DOMAIN d[t]
      BY <3>1, TableFields
    <3> QED
      BY <3>2
  <2>4. t \in Tables
    BY <1>1
  <2> HIDE DEF t, e
  <2>5. DoesTables(d, e, s) /\ DoesView(d, e, s)
    BY <2>1, <2>2, <2>4, ColumnsOnly
  <2> QED
    BY <2>3, <2>5
<1> HIDE DEF e
<1>7. \A x, y : /\ SetsDefault(s, x, y) <=> s.op # "set not null" /\ x = t /\ y = c
                /\ SetsNotNull(s, x, y) <=> s.op = "set not null" /\ x = t /\ y = c
  BY DEF SetsDefault, SetsNotNull
<1>8. DoesColumns(d, e, s)
  <2> SUFFICES ASSUME NEW x \in Tables
               PROVE  /\ DOMAIN e[x].cols = DOMAIN d[x].cols
                      /\ \A y \in DOMAIN d[x].cols :
                           LET F == d[x].cols[y] IN
                           LET G == e[x].cols[y] IN
                           /\ G.type = F.type /\ G.identity = F.identity
                           /\ G.generated = F.generated /\ G.nulls = F.nulls
                           /\ G.default = IF SetsDefault(s, x, y) THEN s.default ELSE F.default
                           /\ G.notNull = IF SetsNotNull(s, x, y) THEN TRUE ELSE F.notNull
    BY DEF DoesColumns
  <2>1. CASE x = t
    <3>1. DOMAIN e[x].cols = DOMAIN d[x].cols
      BY <1>5, <1>6, <2>1
    <3>2. ASSUME NEW y \in DOMAIN d[x].cols
          PROVE  LET F == d[x].cols[y] IN
                 LET G == e[x].cols[y] IN
                 /\ G.type = F.type /\ G.identity = F.identity
                 /\ G.generated = F.generated /\ G.nulls = F.nulls
                 /\ G.default = IF SetsDefault(s, x, y) THEN s.default ELSE F.default
                 /\ G.notNull = IF SetsNotNull(s, x, y) THEN TRUE ELSE F.notNull
      <4>1. CASE y = c
        BY <1>4, <1>5, <1>6, <1>7, <2>1, <4>1
      <4>2. CASE y # c
        BY <1>5, <1>6, <1>7, <2>1, <4>2
      <4> QED
        BY <4>1, <4>2
    <3> QED
      BY <3>1, <3>2
  <2>2. CASE x # t
    BY <1>6, <1>7, <2>2
  <2> QED
    BY <2>1, <2>2
<1> QED
  BY <1>2, <1>6, <1>8 DEF Does

\* A table whose columns are left alone.
LEMMA ColumnsStay ==
    ASSUME NEW d, NEW e, NEW s,
           s.op \notin ColumnOps \cup {"add key"},
           \A t \in Tables : e[t].cols = d[t].cols
    PROVE  DoesColumns(d, e, s)
<1>1. \A x, y : ~SetsDefault(s, x, y) /\ ~SetsNotNull(s, x, y)
  BY DEF SetsDefault, SetsNotNull, ColumnOps
<1>2. s.op # "add column"
  BY DEF ColumnOps
<1> QED
  BY <1>1, <1>2 DEF DoesColumns

\* The key is dropped or added.
LEMMA KeyDoes ==
    ASSUME NEW d, IsDatabase(d), NEW s \in Harmless, s.op \in {"drop key", "add key"}
    PROVE  Does(d, Effect(d, s), s)
<1> DEFINE t == "model_pricing_rates"
           R == d[t]
           C == R.cols
           ours == KeyOf("ours")
           C2 == IF s.op = "drop key" THEN C
                 ELSE [x \in DOMAIN C |-> IF x \in ours THEN [C[x] EXCEPT !.notNull = TRUE]
                                          ELSE C[x]]
           k == IF s.op = "drop key" THEN "none" ELSE "ours"
           S == [R EXCEPT !.key = k, !.cols = C2]
           e == Effect(d, s)
<1>1. t \in Tables /\ s.on = t
  BY DEF Harmless, Tables
<1>2. DOMAIN R = {"kind", "key", "indexes", "checks", "cols", "twice", "solo", "bad",
                  "referenced"}
  BY DEF IsDatabase, IsCard
<1>3. /\ DOMAIN d = {"gateway_usage", "model_pricing_rates", "gateway_usage_daily", "taken"}
      /\ Tables = {"gateway_usage", "model_pricing_rates"}
  BY DEF IsDatabase, Tables
<1>4. e = [d EXCEPT ![t] = S]
  <2>1. CASE s.op = "drop key"
    <3>1. e = [d EXCEPT ![t].key = "none"]
      BY <1>1, <2>1 DEF Effect
    <3>2. S = [R EXCEPT !.key = "none"]
      BY <1>2, <2>1
    <3> QED
      BY <3>1, <3>2
  <2>2. CASE s.op = "add key"
    <3>1. e = [d EXCEPT ![t].key = "ours", ![t].cols = C2]
      BY <1>1, <2>2 DEF Effect
    <3> HIDE DEF C2
    <3>2. [d EXCEPT ![t].key = "ours", ![t].cols = C2]
            = [d EXCEPT ![t] = [R EXCEPT !.key = "ours", !.cols = C2]]
      BY <1>3
    <3> QED
      BY <2>2, <3>1, <3>2
  <2> QED
    BY <2>1, <2>2
<1>5. IsColumns(C)
  BY DEF IsDatabase, IsCard
<1>6. /\ DOMAIN C2 = DOMAIN C
      /\ \A c \in DOMAIN C : C2[c] = IF s.op = "add key" /\ c \in ours
                                     THEN [C[c] EXCEPT !.notNull = TRUE] ELSE C[c]
  <2>1. CASE s.op = "drop key"
    BY <2>1
  <2>2. CASE s.op = "add key"
    <3> HIDE DEF C, ours
    <3> QED
      BY <2>2
  <2> QED
    BY <2>1, <2>2
<1>7. /\ S.key = k /\ S.cols = C2 /\ S.kind = R.kind /\ S.checks = R.checks
      /\ S.twice = R.twice /\ S.bad = R.bad /\ S.referenced = R.referenced
  <2> HIDE DEF R, C2, k
  <2> QED
    BY <1>2
<1> HIDE DEF S, C2, e
<1>8. e[t] = S /\ \A x \in DOMAIN d \ {t} : e[x] = d[x]
  BY <1>3, <1>4
<1>9. DoesTables(d, e, s)
  BY <1>3, <1>7, <1>8 DEF DoesTables
<1>10. DoesView(d, e, s)
  BY <1>3, <1>8 DEF DoesView
<1>11. DoesColumns(d, e, s)
  <2>1. \A x, y : ~SetsDefault(s, x, y)
    BY DEF SetsDefault
  <2>2. \A x, y : SetsNotNull(s, x, y) <=> s.op = "add key" /\ x = t /\ y \in ours
    BY DEF SetsNotNull
  <2> HIDE DEF ours
  <2>3. ASSUME NEW c \in DOMAIN C
        PROVE  LET F == C[c] IN
               LET G == C2[c] IN
               /\ G.type = F.type /\ G.identity = F.identity /\ G.generated = F.generated
               /\ G.nulls = F.nulls /\ G.default = F.default
               /\ G.notNull = IF SetsNotNull(s, t, c) THEN TRUE ELSE F.notNull
    <3> DEFINE F == C[c]
    <3>1. F \in Column
      BY <1>5 DEF IsColumns
    <3>2. C2[c] = IF s.op = "add key" /\ c \in ours THEN [F EXCEPT !.notNull = TRUE] ELSE F
      BY <1>6
    <3> HIDE DEF F
    <3>3. /\ C2[c].type = F.type /\ C2[c].identity = F.identity /\ C2[c].generated = F.generated
          /\ C2[c].nulls = F.nulls /\ C2[c].default = F.default
          /\ C2[c].notNull = IF s.op = "add key" /\ c \in ours THEN TRUE ELSE F.notNull
      BY <3>1, <3>2 DEF Column
    <3> QED
      BY <2>2, <3>3 DEF F
  <2> SUFFICES ASSUME NEW x \in Tables
               PROVE  /\ DOMAIN e[x].cols = DOMAIN d[x].cols
                      /\ \A y \in DOMAIN d[x].cols :
                           LET F == d[x].cols[y] IN
                           LET G == e[x].cols[y] IN
                           /\ G.type = F.type /\ G.identity = F.identity
                           /\ G.generated = F.generated /\ G.nulls = F.nulls
                           /\ G.default = F.default
                           /\ G.notNull = IF SetsNotNull(s, x, y) THEN TRUE ELSE F.notNull
    BY <2>1 DEF DoesColumns
  <2>4. CASE x = t
    BY <1>6, <1>7, <1>8, <2>3, <2>4
  <2>5. CASE x # t
    BY <1>3, <1>8, <2>2, <2>5
  <2> QED
    BY <2>4, <2>5
<1> QED
  BY <1>9, <1>10, <1>11 DEF Does, e

\* The index or the constraint is created.
LEMMA ObjectDoes ==
    ASSUME NEW d, IsDatabase(d), NEW s \in Harmless, s.op \in {"create index", "add check"}
    PROVE  Does(d, Effect(d, s), s)
<1> DEFINE t == s.on
           R == d[t]
           S == IF s.op = "create index" THEN [R EXCEPT !.indexes = @ \cup {TsIndex}]
                ELSE [R EXCEPT !.checks = @ \cup {CostsCheck}]
           e == Effect(d, s)
<1>1. /\ t \in Tables
      /\ s.op = "create index" => t = "gateway_usage"
      /\ s.op = "add check" => t = "model_pricing_rates"
  BY DEF Harmless, Tables
<1>2. e = [d EXCEPT ![t] = S]
  <2>1. CASE s.op = "create index"
    BY <2>1 DEF Effect
  <2>2. CASE s.op = "add check"
    BY <2>2 DEF Effect
  <2> QED
    BY <2>1, <2>2
<1>3. /\ DOMAIN d = {"gateway_usage", "model_pricing_rates", "gateway_usage_daily", "taken"}
      /\ Tables = {"gateway_usage", "model_pricing_rates"}
  BY DEF IsDatabase, Tables
<1>4. {"kind", "key", "indexes", "checks", "cols"} \subseteq DOMAIN R
      /\ (t = "model_pricing_rates" => {"twice", "bad", "referenced"} \subseteq DOMAIN R)
  <2>1. t \in Tables
    BY <1>1
  <2> HIDE DEF t
  <2> QED
    BY <2>1, TableFields
<1>5. /\ S.kind = R.kind /\ S.key = R.key /\ S.cols = R.cols
      /\ S.indexes = IF s.op = "create index" THEN R.indexes \cup {TsIndex} ELSE R.indexes
      /\ S.checks = IF s.op = "add check" THEN R.checks \cup {CostsCheck} ELSE R.checks
      /\ t = "model_pricing_rates" =>
           S.twice = R.twice /\ S.bad = R.bad /\ S.referenced = R.referenced
  <2> HIDE DEF R
  <2>1. CASE s.op = "create index"
    BY <1>4, <2>1
  <2>2. CASE s.op = "add check"
    BY <1>4, <2>2
  <2> QED
    BY <2>1, <2>2
<1> HIDE DEF S, e
<1>6. e[t] = S /\ \A x \in DOMAIN d \ {t} : e[x] = d[x]
  BY <1>1, <1>2, <1>3
<1>7. DoesTables(d, e, s)
  <2>1. CASE s.op = "create index"
    BY <1>1, <1>3, <1>5, <1>6, <2>1 DEF DoesTables
  <2>2. CASE s.op = "add check"
    BY <1>1, <1>3, <1>5, <1>6, <2>2 DEF DoesTables
  <2> QED
    BY <2>1, <2>2
<1>8. DoesView(d, e, s)
  BY <1>1, <1>3, <1>6 DEF DoesView
<1>9. DoesColumns(d, e, s)
  <2>1. \A x \in Tables : e[x].cols = d[x].cols
    BY <1>3, <1>5, <1>6
  <2>2. s.op \notin ColumnOps \cup {"add key"}
    BY DEF ColumnOps
  <2> QED
    BY <2>1, <2>2, ColumnsStay
<1> QED
  BY <1>7, <1>8, <1>9 DEF Does, e

\* The view is dropped or created.
LEMMA ViewDoes ==
    ASSUME NEW d, IsDatabase(d), NEW s \in Harmless, s.op \in {"drop view", "create view"}
    PROVE  Does(d, Effect(d, s), s)
<1> DEFINE v == "gateway_usage_daily"
           V == d[v]
           W == IF s.op = "drop view" THEN [V EXCEPT !.kind = "absent", !.granted = FALSE]
                ELSE [V EXCEPT !.kind = "view", !.shape = "ours"]
           e == Effect(d, s)
<1>1. s.on = v
  BY DEF Harmless
<1>2. e = [d EXCEPT ![v] = W]
  BY <1>1 DEF Effect
<1>3. /\ DOMAIN d = {"gateway_usage", "model_pricing_rates", "gateway_usage_daily", "taken"}
      /\ Tables = {"gateway_usage", "model_pricing_rates"}
      /\ DOMAIN V = {"kind", "shape", "dependents", "granted"}
  BY DEF IsDatabase, Tables, IsView
<1>4. /\ W.dependents = V.dependents
      /\ s.op = "drop view" => W.kind = "absent"
      /\ s.op = "create view" => W.kind = "view" /\ W.shape = "ours"
  <2> HIDE DEF V
  <2> QED
    BY <1>3
<1> HIDE DEF W, e
<1>5. e[v] = W /\ \A x \in DOMAIN d \ {v} : e[x] = d[x]
  BY <1>2, <1>3
<1>6. DoesTables(d, e, s)
  BY <1>3, <1>5 DEF DoesTables
<1>7. DoesView(d, e, s)
  BY <1>4, <1>5 DEF DoesView
<1>8. DoesColumns(d, e, s)
  <2>1. \A x \in Tables : e[x].cols = d[x].cols
    BY <1>3, <1>5
  <2>2. s.op \notin ColumnOps \cup {"add key"}
    BY DEF ColumnOps
  <2> QED
    BY <2>1, <2>2, ColumnsStay
<1> QED
  BY <1>6, <1>7, <1>8 DEF Does, e

\* What every statement of a plan does.
LEMMA StatementDoes ==
    ASSUME NEW d, IsDatabase(d), NEW s \in Harmless, Runs(d, s)
    PROVE  Does(d, Effect(d, s), s)
<1>1. s.op \in {"add column", "drop default", "set default", "set not null", "drop key",
                "add key", "create index", "add check", "drop view", "create view"}
  BY DEF Harmless, Statement
<1> QED
  BY <1>1, AddDoes, AlterDoes, KeyDoes, ObjectDoes, ViewDoes

-----------------------------------------------------------------------------
(* Executing the first of several statements *)

\* The column that is added is that of the schema, but for its default and its values.
LEMMA AddedIs ==
    ASSUME NEW s \in Harmless, s.op \in ColumnOps
    PROVE  LET A == Added(s.on, s) IN
           LET B == Reference[s.on].cols[s.column] IN
           /\ s.on \in Tables /\ s.column \in DOMAIN Reference[s.on].cols \ {"id"}
           /\ B.type = "ours" /\ ~B.identity /\ ~B.generated
           /\ A.type = B.type /\ A.identity = B.identity /\ A.generated = B.generated
           /\ A.notNull = B.notNull /\ A.default = s.default /\ A.nulls = (s.default = "none")
<1> DEFINE A == Added(s.on, s)
           B == Reference[s.on].cols[s.column]
<1>1. s.on \in Tables /\ s.column \in DOMAIN Reference[s.on].cols \ {"id"}
  BY DEF Harmless, ColumnOps
<1>2. B \in Column /\ B.type = "ours" /\ ~B.identity /\ ~B.generated
  BY <1>1, ReferenceColumn
<1>3. A = [B EXCEPT !.default = s.default, !.nulls = s.default = "none",
                    !.held = IF s.default = "none" THEN "null" ELSE s.default]
  BY DEF Added
<1> HIDE DEF A, B
<1>4. /\ A.type = B.type /\ A.identity = B.identity /\ A.generated = B.generated
      /\ A.notNull = B.notNull /\ A.default = s.default /\ A.nulls = (s.default = "none")
  BY <1>2, <1>3 DEF Column
<1> QED
  BY <1>1, <1>2, <1>4 DEF A, B

\* The first of the statements of T is s, and those of Q come after it.
First(s, Q, T) ==
    /\ s \in Harmless /\ Q \subseteq Harmless /\ T = {s} \cup Q
    /\ \A x \in Q : ~Clash(s, x)

\* The first statement runs, if there is no difference the comparison does not look at.
LEMMA FirstRuns ==
    ASSUME NEW e, NEW s, NEW Q, NEW T, First(s, Q, T), Ready(e, T, TRUE, s)
    PROVE  Runs(e, s)
<1>1. s.op \in {"add column", "drop default", "set default", "set not null", "drop key",
                "add key", "create index", "add check", "drop view", "create view"}
  BY DEF First, Harmless, Statement
<1>2. \A p \in T : p.op # s.op => p \in Q /\ ~Clash(s, p)
  BY DEF First
<1>3. s.on \in Tables => e[s.on].kind = "table"
  BY DEF Ready, ReadyTable
<1>4. ReadyColumn(e, T, s) /\ ReadyKey(e, T, TRUE, s) /\ ReadyObject(e, TRUE, s) /\ ReadyView(e, T, s)
  BY DEF Ready
<1>5. CASE s.op \in ColumnOps
  <2>1. s.on \in Tables
    BY <1>5 DEF First, Harmless, ColumnOps
  <2>2. CASE s.op = "add column"
    BY <1>3, <1>4, <2>1, <2>2 DEF Runs, ReadyColumn
  <2>3. CASE s.op = "set not null"
    BY <1>3, <1>4, <2>1, <2>3 DEF Runs, ReadyColumn
  <2>4. CASE s.op \in {"drop default", "set default"}
    <3>1. ~Adds(T, s.on, s.column)
      <4> SUFFICES ASSUME NEW p \in T, p.op = "add column", p.on = s.on, p.column = s.column
                   PROVE  FALSE
        BY DEF Adds
      <4>1. ~Clash(s, p)
        BY <1>2, <2>4
      <4> QED
        BY <2>4, <4>1 DEF Clash
    <3>2. Alterable(e[s.on], s.column)
      BY <1>3, <1>4, <2>1, <2>4, <3>1 DEF Alterable, ReadyColumn
    <3> QED
      BY <2>4, <3>2 DEF Runs
  <2> QED
    BY <1>5, <2>2, <2>3, <2>4 DEF ColumnOps
<1>6. CASE s.op = "drop key"
  <2>1. s.on = "model_pricing_rates"
    BY <1>6 DEF First, Harmless
  <2> QED
    BY <1>4, <1>6, <2>1 DEF Runs, ReadyKey
<1>7. CASE s.op = "add key"
  <2>1. s.on = "model_pricing_rates" /\ s.on \in Tables
    BY <1>7 DEF First, Harmless, Tables
  <2>2. \A p \in T : p.op # "drop key" /\ ~(p.op = "add column" /\ p.column \in KeyOf("ours"))
    BY <1>2, <1>7 DEF Clash
  <2>3. e[s.on].key = "none" /\ ~e[s.on].twice
        /\ \A c \in KeyOf("ours") : c \in DOMAIN e[s.on].cols /\ ~e[s.on].cols[c].nulls
    BY <1>4, <1>7, <2>1, <2>2 DEF ReadyKey
  <2> QED
    BY <1>3, <1>7, <2>1, <2>3 DEF Runs
<1>8. CASE s.op = "create index"
  <2>1. s.on = "gateway_usage" /\ s.on \in Tables
    BY <1>8 DEF First, Harmless, Tables
  <2> QED
    BY <1>3, <1>4, <1>8, <2>1 DEF Runs, ReadyObject
<1>9. CASE s.op = "add check"
  <2>1. s.on = "model_pricing_rates" /\ s.on \in Tables
    BY <1>9 DEF First, Harmless, Tables
  <2> QED
    BY <1>3, <1>4, <1>9, <2>1 DEF Runs, ReadyObject
<1>10. CASE s.op = "drop view"
  <2>1. s.on = "gateway_usage_daily"
    BY <1>10 DEF First, Harmless
  <2> QED
    BY <1>4, <1>10, <2>1 DEF Runs, ReadyView
<1>11. CASE s.op = "create view"
  <2>1. s.on = "gateway_usage_daily"
    BY <1>11 DEF First, Harmless
  <2>2. \A p \in T : p.op \notin {"drop view", "add column"}
    BY <1>2, <1>11 DEF Clash
  <2>3. \A t, c : ~Adds(T, t, c)
    BY <2>2 DEF Adds
  <2>4. /\ e[s.on].kind = "absent"
        /\ \A t \in Tables : \A c \in Reads[t] :
             c \in DOMAIN e[t].cols /\ e[t].cols[c].type = "ours"
    BY <1>4, <1>11, <2>1, <2>2, <2>3 DEF ReadyView
  <2> QED
    BY <1>11, <2>1, <2>4 DEF Runs
<1> QED
  BY <1>1, <1>5, <1>6, <1>7, <1>8, <1>9, <1>10, <1>11 DEF ColumnOps

\* What the other statements ask of the columns is still so.
LEMMA ColumnsReady ==
    ASSUME NEW e, NEW f, NEW s, NEW Q, NEW T, First(s, Q, T), Does(e, f, s), NEW x \in Q,
           ReadyColumn(e, T, x)
    PROVE  ReadyColumn(f, Q, x)
<1>1. CASE x.op \notin ColumnOps
  BY <1>1 DEF ReadyColumn, ColumnOps
<1>2. CASE x.op \in ColumnOps
  <2> DEFINE t == x.on
             c == x.column
  <2>1. t \in Tables /\ x \in Harmless
    BY <1>2, AddedIs DEF First
  <2>2. /\ DOMAIN f[t].cols =
             DOMAIN e[t].cols \cup (IF s.op = "add column" /\ s.on = t THEN {s.column} ELSE {})
        /\ s.op = "add column" /\ s.on = t => f[t].cols[s.column] = Added(t, s)
        /\ \A y \in DOMAIN e[t].cols :
             /\ f[t].cols[y].identity = e[t].cols[y].identity
             /\ f[t].cols[y].generated = e[t].cols[y].generated
             /\ f[t].cols[y].nulls = e[t].cols[y].nulls
    BY <2>1 DEF Does, DoesColumns
  <2>3. ~Clash(s, x) /\ T = {s} \cup Q /\ s \in Harmless
    BY DEF First
  <2>4. CASE x.op = "add column"
    <3>1. ~(s.op = "add column" /\ s.on = t /\ s.column = c)
      BY <2>3, <2>4 DEF Clash
    <3>2. c \notin DOMAIN e[t].cols
      BY <2>4 DEF ReadyColumn
    <3>3. c \notin DOMAIN f[t].cols
      BY <2>2, <3>1, <3>2
    <3> QED
      BY <2>4, <3>3 DEF ReadyColumn
  <2>5. CASE x.op = "set not null"
    <3>1. Reference[t].cols[c].notNull /\ c \in DOMAIN e[t].cols /\ ~e[t].cols[c].nulls
      BY <2>5 DEF ReadyColumn
    <3>2. c \in DOMAIN f[t].cols /\ ~f[t].cols[c].nulls
      BY <2>2, <3>1
    <3> QED
      BY <2>5, <3>1, <3>2 DEF ReadyColumn
  <2>6. CASE x.op \in {"drop default", "set default"}
    <3>1. /\ x.default = Reference[t].cols[c].default
          /\ \/ c \in DOMAIN e[t].cols /\ ~e[t].cols[c].identity /\ ~e[t].cols[c].generated
             \/ Adds(T, t, c)
      BY <2>6 DEF ReadyColumn
    <3>2. \/ c \in DOMAIN f[t].cols /\ ~f[t].cols[c].identity /\ ~f[t].cols[c].generated
          \/ Adds(Q, t, c)
      <4>1. CASE c \in DOMAIN e[t].cols /\ ~e[t].cols[c].identity /\ ~e[t].cols[c].generated
        BY <2>2, <4>1
      <4>2. CASE Adds(T, t, c)
        <5>1. PICK p \in T : p.op = "add column" /\ p.on = t /\ p.column = c
          BY <4>2 DEF Adds
        <5>2. CASE p \in Q
          BY <5>1, <5>2 DEF Adds
        <5>3. CASE p = s
          <6>1. s.op = "add column" /\ s.on = t /\ s.column = c
            BY <5>1, <5>3
          <6>2. ~Added(t, s).identity /\ ~Added(t, s).generated
            BY <2>3, <6>1, AddedIs DEF ColumnOps
          <6> QED
            BY <2>2, <6>1, <6>2
        <5> QED
          BY <2>3, <5>1, <5>2, <5>3
      <4> QED
        BY <3>1, <4>1, <4>2
    <3> QED
      BY <2>6, <3>1, <3>2 DEF ReadyColumn
  <2> QED
    BY <1>2, <2>4, <2>5, <2>6 DEF ColumnOps
<1> QED
  BY <1>1, <1>2

\* What the other statements ask of the key is still so.
LEMMA KeysReady ==
    ASSUME NEW e, NEW f, NEW s, NEW Q, NEW T, First(s, Q, T), Does(e, f, s), NEW x \in Q,
           NEW ok, ReadyKey(e, T, ok, x)
    PROVE  ReadyKey(f, Q, ok, x)
<1> DEFINE r == "model_pricing_rates"
           R == e[r]
           S == f[r]
<1>1. /\ S.twice = R.twice /\ S.referenced = R.referenced
      /\ S.key = IF s.op = "drop key" THEN "none" ELSE IF s.op = "add key" THEN "ours" ELSE R.key
  BY DEF Does, DoesTables
<1>2. ~Clash(s, x) /\ T = {s} \cup Q /\ s \in Harmless /\ x \in Harmless
  BY DEF First
<1>3. ASSUME x.op = "drop key"
      PROVE  S.key # "none" /\ (ok => ~S.referenced)
  <2>1. R.key # "none" /\ (ok => ~R.referenced)
    BY <1>3 DEF ReadyKey
  <2>2. s.op # "drop key"
    BY <1>2, <1>3 DEF Clash, Harmless, ColumnOps
  <2> HIDE DEF R, S
  <2> QED
    BY <1>1, <2>1, <2>2
<1>4. ASSUME x.op = "add key"
      PROVE  /\ ~S.twice
             /\ S.key = "none" \/ \E p \in Q : p.op = "drop key"
             /\ \A k \in KeyOf("ours") :
                  \/ k \in DOMAIN S.cols /\ ~S.cols[k].nulls
                  \/ \E p \in Q : /\ p.op = "add column" /\ p.on = r
                                  /\ p.column = k /\ p.default # "none"
  <2>1. /\ ~R.twice
        /\ R.key = "none" \/ \E p \in T : p.op = "drop key"
        /\ \A k \in KeyOf("ours") :
             \/ k \in DOMAIN R.cols /\ ~R.cols[k].nulls
             \/ \E p \in T : /\ p.op = "add column" /\ p.on = r
                             /\ p.column = k /\ p.default # "none"
    BY <1>4 DEF ReadyKey
  <2>2. s.op # "add key"
    BY <1>2, <1>4 DEF Clash, Harmless, ColumnOps
  <2>3. S.key = "none" \/ \E p \in Q : p.op = "drop key"
    <3>1. /\ R.key = "none" \/ \E p \in T : p.op = "drop key"
          /\ S.key = IF s.op = "drop key" THEN "none" ELSE R.key
      BY <1>1, <2>1, <2>2
    <3>2. T = {s} \cup Q
      BY <1>2
    <3> HIDE DEF R, S
    <3>3. CASE s.op = "drop key"
      BY <3>1, <3>3
    <3>4. CASE s.op # "drop key"
      BY <3>1, <3>2, <3>4
    <3> QED
      BY <3>3, <3>4
  <2>4. ASSUME NEW k \in KeyOf("ours")
        PROVE  \/ k \in DOMAIN S.cols /\ ~S.cols[k].nulls
               \/ \E p \in Q : /\ p.op = "add column" /\ p.on = r
                               /\ p.column = k /\ p.default # "none"
    <3>1. /\ DOMAIN S.cols =
               DOMAIN R.cols \cup (IF s.op = "add column" /\ s.on = r THEN {s.column} ELSE {})
          /\ s.op = "add column" /\ s.on = r => S.cols[s.column] = Added(r, s)
          /\ \A y \in DOMAIN R.cols : S.cols[y].nulls = R.cols[y].nulls
      <4>1. r \in Tables
        BY DEF Tables
      <4> QED
        BY <4>1 DEF Does, DoesColumns
    <3>2. CASE k \in DOMAIN R.cols /\ ~R.cols[k].nulls
      BY <3>1, <3>2
    <3>3. CASE \E p \in T : p.op = "add column" /\ p.on = r /\ p.column = k /\ p.default # "none"
      <4>1. PICK p \in T : p.op = "add column" /\ p.on = r /\ p.column = k /\ p.default # "none"
        BY <3>3
      <4>2. CASE p \in Q
        BY <4>1, <4>2
      <4>3. CASE p = s
        <5>1. s.op = "add column" /\ s.on = r /\ s.column = k /\ s.default # "none"
          BY <4>1, <4>3
        <5>2. Added(s.on, s).nulls = (s.default = "none")
          BY <1>2, <5>1, AddedIs DEF ColumnOps
        <5> QED
          BY <3>1, <5>1, <5>2
      <4> QED
        BY <1>2, <4>1, <4>2, <4>3
    <3> QED
      BY <2>1, <3>2, <3>3
  <2> QED
    BY <1>1, <2>1, <2>3, <2>4
<1> QED
  BY <1>3, <1>4 DEF ReadyKey

\* What the other statements ask of the index and the constraint is still so.
LEMMA ObjectsReady ==
    ASSUME NEW e, NEW f, NEW s, NEW Q, NEW T, First(s, Q, T), Does(e, f, s), NEW x \in Q,
           NEW ok, ReadyObject(e, ok, x), "taken" \in DOMAIN e
    PROVE  ReadyObject(f, ok, x)
<1> DEFINE U == e["gateway_usage"]
           R == e["model_pricing_rates"]
           V == f["gateway_usage"]
           S == f["model_pricing_rates"]
<1>1. /\ S.bad = R.bad /\ f["taken"] = e["taken"]
      /\ V.indexes = IF s.op = "create index" THEN U.indexes \cup {TsIndex} ELSE U.indexes
      /\ S.checks = IF s.op = "add check" THEN R.checks \cup {CostsCheck} ELSE R.checks
  BY DEF Does, DoesTables
<1>2. ~Clash(s, x) /\ s \in Harmless /\ x \in Harmless
  BY DEF First
<1>3. DOMAIN U.cols \subseteq DOMAIN V.cols /\ DOMAIN R.cols \subseteq DOMAIN S.cols
  BY DEF Does, DoesColumns, Tables
<1>4. ASSUME x.op = "create index"
      PROVE  "ts" \in DOMAIN V.cols /\ (ok => ~f.taken) /\ TsIndex.name \notin NamesOf(V.indexes)
  <2>1. "ts" \in DOMAIN U.cols /\ (ok => ~e.taken) /\ TsIndex.name \notin NamesOf(U.indexes)
    BY <1>4 DEF ReadyObject
  <2>2. s.op # "create index"
    BY <1>2, <1>4 DEF Clash, Harmless, ColumnOps
  <2>3. V.indexes = U.indexes
    BY <1>1, <2>2
  <2> HIDE DEF U, V
  <2> QED
    BY <1>1, <1>3, <2>1, <2>3
<1>5. ASSUME x.op = "add check"
      PROVE  "cache_cost" \in DOMAIN S.cols /\ ~S.bad /\ CostsCheck.name \notin NamesOf(S.checks)
  <2>1. "cache_cost" \in DOMAIN R.cols /\ ~R.bad /\ CostsCheck.name \notin NamesOf(R.checks)
    BY <1>5 DEF ReadyObject
  <2>2. s.op # "add check"
    BY <1>2, <1>5 DEF Clash, Harmless, ColumnOps
  <2>3. S.checks = R.checks
    BY <1>1, <2>2
  <2> HIDE DEF R, S
  <2> QED
    BY <1>1, <1>3, <2>1, <2>3
<1> QED
  BY <1>4, <1>5 DEF ReadyObject

\* What the statements ask of the view, and of what it reads, is still so.
LEMMA ViewReady ==
    ASSUME NEW e, NEW f, NEW s, NEW Q, NEW T, First(s, Q, T), Does(e, f, s), NEW x \in Q,
           ReadyView(e, T, x)
    PROVE  ReadyView(f, Q, x)
<1> DEFINE V == e["gateway_usage_daily"]
           W == f["gateway_usage_daily"]
<1>1. /\ W.dependents = V.dependents
      /\ s.op \notin {"drop view", "create view"} => W = V
      /\ s.op = "drop view" => W.kind = "absent"
      /\ s.op = "create view" => W.kind = "view" /\ W.shape = "ours"
  BY DEF Does, DoesView
<1>2. ~Clash(s, x) /\ T = {s} \cup Q /\ s \in Harmless /\ x \in Harmless
  BY DEF First
<1>3. ASSUME x.op = "drop view"
      PROVE  W.kind = "view" /\ ~W.dependents
  <2>1. V.kind = "view" /\ ~V.dependents
    BY <1>3 DEF ReadyView
  <2>2. s.op \notin {"drop view", "create view"}
    BY <1>2, <1>3 DEF Clash, Harmless, ColumnOps
  <2> QED
    BY <1>1, <2>1, <2>2
<1>4. ASSUME x.op = "create view"
      PROVE  /\ W.kind = "absent" \/ \E p \in Q : p.op = "drop view"
             /\ \A t \in Tables : \A k \in Reads[t] :
                  \/ k \in DOMAIN f[t].cols /\ f[t].cols[k].type = "ours"
                  \/ Adds(Q, t, k)
  <2>1. /\ V.kind = "absent" \/ \E p \in T : p.op = "drop view"
        /\ \A t \in Tables : \A k \in Reads[t] :
             \/ k \in DOMAIN e[t].cols /\ e[t].cols[k].type = "ours"
             \/ Adds(T, t, k)
    BY <1>4 DEF ReadyView
  <2>2. s.op # "create view"
    BY <1>2, <1>4 DEF Clash, Harmless, ColumnOps
  <2>3. W.kind = "absent" \/ \E p \in Q : p.op = "drop view"
    <3>1. CASE s.op = "drop view"
      BY <1>1, <3>1
    <3>2. CASE s.op # "drop view"
      <4>1. W = V
        BY <1>1, <2>2, <3>2
      <4> QED
        BY <1>2, <2>1, <3>2, <4>1
    <3> QED
      BY <3>1, <3>2
  <2>4. ASSUME NEW t \in Tables, NEW k \in Reads[t]
        PROVE  \/ k \in DOMAIN f[t].cols /\ f[t].cols[k].type = "ours"
               \/ Adds(Q, t, k)
    <3>1. /\ DOMAIN f[t].cols =
               DOMAIN e[t].cols \cup (IF s.op = "add column" /\ s.on = t THEN {s.column} ELSE {})
          /\ s.op = "add column" /\ s.on = t => f[t].cols[s.column] = Added(t, s)
          /\ \A y \in DOMAIN e[t].cols : f[t].cols[y].type = e[t].cols[y].type
      BY DEF Does, DoesColumns
    <3>2. CASE k \in DOMAIN e[t].cols /\ e[t].cols[k].type = "ours"
      BY <3>1, <3>2
    <3>3. CASE Adds(T, t, k)
      <4>1. PICK p \in T : p.op = "add column" /\ p.on = t /\ p.column = k
        BY <3>3 DEF Adds
      <4>2. CASE p \in Q
        BY <4>1, <4>2 DEF Adds
      <4>3. CASE p = s
        <5>1. s.op = "add column" /\ s.on = t /\ s.column = k
          BY <4>1, <4>3
        <5>2. Added(t, s).type = "ours"
          BY <1>2, <5>1, AddedIs DEF ColumnOps
        <5> QED
          BY <3>1, <5>1, <5>2
      <4> QED
        BY <1>2, <4>1, <4>2, <4>3
    <3> QED
      BY <2>1, <3>2, <3>3
  <2> QED
    BY <2>3, <2>4
<1> QED
  BY <1>3, <1>4 DEF ReadyView

\* What the other statements ask is still so.
LEMMA RestReady ==
    ASSUME NEW e, IsDatabase(e), NEW f, NEW s, NEW Q, NEW T, First(s, Q, T), Does(e, f, s),
           NEW x \in Q, NEW ok, Ready(e, T, ok, x)
    PROVE  Ready(f, Q, ok, x)
<1>1. "taken" \in DOMAIN e
  BY DEF IsDatabase
<1>2. ReadyTable(f, ok, x)
  <2>1. \A t \in Tables : f[t].kind = e[t].kind
    BY DEF Does, DoesTables, Tables
  <2> QED
    BY <2>1 DEF Ready, ReadyTable
<1>3. ReadyColumn(f, Q, x)
  BY ColumnsReady DEF Ready
<1>4. ReadyKey(f, Q, ok, x)
  BY KeysReady DEF Ready
<1>5. ReadyObject(f, ok, x)
  BY <1>1, ObjectsReady DEF Ready
<1>6. ReadyView(f, Q, x)
  BY ViewReady DEF Ready
<1> QED
  BY <1>2, <1>3, <1>4, <1>5, <1>6 DEF Ready

\* The other statements make of a column what all of them would.
LEMMA ColumnCovered ==
    ASSUME NEW e, NEW f, NEW s, NEW Q, NEW T, First(s, Q, T), Does(e, f, s),
           ReadyColumn(e, T, s),
           NEW t \in Tables, NEW c \in DOMAIN Reference[t].cols \ {"id"}, CoveredColumn(e, T, t, c)
    PROVE  CoveredColumn(f, Q, t, c)
<1> DEFINE C == Reference[t].cols[c]
           F == e[t].cols[c]
           G == f[t].cols[c]
           Set(X) == \E p \in X : p.op = "set not null" /\ p.on = t /\ p.column = c
           here == s.op = "add column" /\ s.on = t /\ s.column = c
<1>1. /\ DOMAIN f[t].cols =
           DOMAIN e[t].cols \cup (IF s.op = "add column" /\ s.on = t THEN {s.column} ELSE {})
      /\ s.op = "add column" /\ s.on = t => f[t].cols[s.column] = Added(t, s)
      /\ c \in DOMAIN e[t].cols =>
           /\ G.type = F.type /\ G.identity = F.identity /\ G.generated = F.generated
           /\ G.default = IF SetsDefault(s, t, c) THEN s.default ELSE F.default
           /\ G.notNull = IF SetsNotNull(s, t, c) THEN TRUE ELSE F.notNull
  BY DEF Does, DoesColumns
<1>2. /\ T = {s} \cup Q /\ s \in Harmless /\ Q \subseteq Harmless
      /\ \A p \in Q : ~Clash(s, p)
  BY DEF First
<1>3. SetsDefault(s, t, c) => s.default = C.default
  BY DEF SetsDefault, ReadyColumn
<1>4. Defaulted(T, t, c) => SetsDefault(s, t, c) \/ Defaulted(Q, t, c)
  BY <1>2 DEF Defaulted, SetsDefault
<1>5. Set(T) => SetsNotNull(s, t, c) \/ Set(Q)
  BY <1>2 DEF SetsNotNull
<1>6. SetsNotNull(s, t, c) => C.notNull
  <2>1. CASE s.op = "set not null" /\ s.on = t /\ s.column = c
    BY <2>1 DEF ReadyColumn
  <2>2. CASE t = "model_pricing_rates" /\ c \in KeyOf("ours")
    <3>1. Reference["model_pricing_rates"].cols["model"].notNull
          /\ Reference["model_pricing_rates"].cols["effective_from"].notNull
      BY DEF Reference, Required
    <3>2. c \in {"model", "effective_from"}
      BY <2>2 DEF KeyOf
    <3> QED
      BY <2>2, <3>1, <3>2
  <2> QED
    BY <2>1, <2>2 DEF SetsNotNull
<1>7. CASE c \in DOMAIN e[t].cols
  <2>1. /\ F.generated = C.generated /\ F.identity = C.identity /\ F.type = C.type
        /\ F.notNull = C.notNull \/ Set(T)
        /\ F.default = C.default \/ Defaulted(T, t, c)
    BY <1>7 DEF CoveredColumn
  <2>2. c \in DOMAIN f[t].cols
    BY <1>1, <1>7
  <2>3. G.generated = C.generated /\ G.identity = C.identity /\ G.type = C.type
    BY <1>1, <1>7, <2>1
  <2>4. G.default = C.default \/ Defaulted(Q, t, c)
    BY <1>1, <1>3, <1>4, <1>7, <2>1
  <2>5. G.notNull = C.notNull \/ Set(Q)
    <3>1. CASE SetsNotNull(s, t, c)
      <4>1. C.notNull = TRUE
        <5>1. C.notNull \in BOOLEAN
          BY ReferenceColumn DEF Column
        <5> QED
          BY <1>6, <3>1, <5>1
      <4> QED
        BY <1>1, <1>7, <3>1, <4>1
    <3>2. CASE ~SetsNotNull(s, t, c)
      BY <1>1, <1>5, <1>7, <2>1, <3>2
    <3> QED
      BY <3>1, <3>2
  <2> QED
    BY <2>2, <2>3, <2>4, <2>5 DEF CoveredColumn
<1>8. CASE c \notin DOMAIN e[t].cols
  <2>1. PICK p \in T : /\ p.op = "add column" /\ p.on = t /\ p.column = c
                       /\ p.default = C.default \/ Defaulted(T, t, c)
    BY <1>8 DEF CoveredColumn
  <2>2. CASE p = s
    <3>1. here /\ (s.default = C.default \/ Defaulted(T, t, c))
      BY <2>1, <2>2
    <3>2. ~SetsDefault(s, t, c)
      BY <3>1 DEF SetsDefault
    <3>3. LET A == Added(s.on, s) IN
          /\ A.type = C.type /\ A.identity = C.identity /\ A.generated = C.generated
          /\ A.notNull = C.notNull /\ A.default = s.default
      BY <1>2, <3>1, AddedIs DEF ColumnOps
    <3>4. c \in DOMAIN f[t].cols /\ G = Added(s.on, s)
      BY <1>1, <3>1
    <3>5. /\ G.type = C.type /\ G.identity = C.identity /\ G.generated = C.generated
          /\ G.notNull = C.notNull /\ (G.default = C.default \/ Defaulted(Q, t, c))
      BY <1>4, <3>1, <3>2, <3>3, <3>4
    <3> QED
      BY <3>4, <3>5 DEF CoveredColumn
  <2>3. CASE p # s
    <3>1. p \in Q /\ ~Clash(s, p)
      BY <1>2, <2>1, <2>3
    <3>2. ~here /\ ~SetsDefault(s, t, c)
      BY <2>1, <3>1 DEF Clash, SetsDefault
    <3>3. c \notin DOMAIN f[t].cols
      BY <1>1, <1>8, <3>2
    <3>4. p.default = C.default \/ Defaulted(Q, t, c)
      BY <1>4, <2>1, <3>2
    <3> QED
      BY <2>1, <3>1, <3>3, <3>4 DEF CoveredColumn
  <2> QED
    BY <2>2, <2>3
<1> QED
  BY <1>7, <1>8

\* The other statements leave of a table what all of them would.
LEMMA TableCovered ==
    ASSUME NEW e, NEW f, NEW s, NEW Q, NEW T, First(s, Q, T), Does(e, f, s),
           ReadyColumn(e, T, s), NEW t \in Tables, CoveredTable(e, T, t)
    PROVE  CoveredTable(f, Q, t)
<1>1. f[t].kind # "absent"
  BY DEF Does, DoesTables, Tables, CoveredTable
<1>2. \A c \in DOMAIN Reference[t].cols \ {"id"} : CoveredColumn(f, Q, t, c)
  BY ColumnCovered DEF CoveredTable
<1>3. ASSUME t = "gateway_usage", NEW c \in DOMAIN f[t].cols \ DOMAIN Reference[t].cols
      PROVE  Idle(f[t].cols[c])
  <2> DEFINE F == e[t].cols[c]
             G == f[t].cols[c]
  <2>1. s.op \in ColumnOps /\ s.on = t => s.column \in DOMAIN Reference[t].cols
    BY AddedIs DEF First
  <2>2. c \in DOMAIN e[t].cols
    <3>1. DOMAIN f[t].cols =
            DOMAIN e[t].cols \cup (IF s.op = "add column" /\ s.on = t THEN {s.column} ELSE {})
      BY DEF Does, DoesColumns
    <3> QED
      BY <2>1, <3>1 DEF ColumnOps
  <2>3. ~SetsDefault(s, t, c) /\ ~SetsNotNull(s, t, c)
    BY <1>3, <2>1 DEF SetsDefault, SetsNotNull, ColumnOps
  <2>4. G.notNull = F.notNull /\ G.default = F.default /\ G.identity = F.identity
    BY <2>2, <2>3 DEF Does, DoesColumns
  <2>5. Idle(F)
    BY <1>3, <2>2 DEF CoveredTable
  <2> QED
    BY <2>4, <2>5 DEF Idle
<1> QED
  BY <1>1, <1>2, <1>3 DEF CoveredTable

\* The other statements leave of the keys, the objects and the view what all of them would.
LEMMA RestCovered ==
    ASSUME NEW e, NEW f, NEW s, NEW Q, NEW T, First(s, Q, T), Does(e, f, s),
           ReadyColumn(e, T, s), Covered(e, T)
    PROVE  Covered(f, Q)
<1>1. /\ T = {s} \cup Q /\ s \in Harmless /\ Q \subseteq Harmless
      /\ \A p \in Q : ~Clash(s, p)
  BY DEF First
<1>2. \A t \in Tables : CoveredTable(f, Q, t)
  BY TableCovered DEF Covered
<1>3. CoveredKeys(f, Q)
  <2> DEFINE R == e["model_pricing_rates"]
             S == f["model_pricing_rates"]
  <2>1. /\ f["gateway_usage"].key = "ours"
        /\ S.key = IF s.op = "drop key" THEN "none" ELSE IF s.op = "add key" THEN "ours" ELSE R.key
        /\ \/ R.key = "ours" /\ \A p \in T : p.op # "drop key"
           \/ \E p \in T : p.op = "add key"
    BY DEF Does, DoesTables, Covered, CoveredKeys
  <2> HIDE DEF R, S
  <2>2. CASE s.op = "add key"
    <3>1. \A p \in Q : p.op # "drop key"
      BY <1>1, <2>2 DEF Clash
    <3>2. S.key = "ours"
      BY <2>1, <2>2
    <3> QED
      BY <2>1, <3>1, <3>2 DEF CoveredKeys, S
  <2>3. CASE s.op # "add key"
    <3>1. \/ R.key = "ours" /\ s.op # "drop key" /\ \A p \in Q : p.op # "drop key"
          \/ \E p \in Q : p.op = "add key"
      BY <1>1, <2>1, <2>3
    <3>2. \/ S.key = "ours" /\ \A p \in Q : p.op # "drop key"
          \/ \E p \in Q : p.op = "add key"
      BY <2>1, <2>3, <3>1
    <3> QED
      BY <2>1, <3>2 DEF CoveredKeys, S
  <2> QED
    BY <2>2, <2>3
<1>4. CoveredObjects(f, Q)
  <2> DEFINE i == e["gateway_usage"].indexes
             j == f["gateway_usage"].indexes
             x == e["model_pricing_rates"].checks
             y == f["model_pricing_rates"].checks
  <2>1. /\ j = IF s.op = "create index" THEN i \cup {TsIndex} ELSE i
        /\ y = IF s.op = "add check" THEN x \cup {CostsCheck} ELSE x
        /\ "ts" \in ShapesOf(i) \/ \E p \in T : p.op = "create index"
        /\ "costs" \in ShapesOf(x) \/ \E p \in T : p.op = "add check"
    BY DEF Does, DoesTables, Covered, CoveredObjects
  <2> HIDE DEF i, j, x, y
  <2>2. TsIndex.shape = "ts" /\ CostsCheck.shape = "costs"
    BY DEF TsIndex, CostsCheck
  <2>3. "ts" \in ShapesOf(j) \/ \E p \in Q : p.op = "create index"
    <3>1. CASE s.op = "create index"
      BY <2>1, <2>2, <3>1 DEF ShapesOf
    <3>2. CASE s.op # "create index"
      BY <1>1, <2>1, <3>2
    <3> QED
      BY <3>1, <3>2
  <2>4. "costs" \in ShapesOf(y) \/ \E p \in Q : p.op = "add check"
    <3>1. CASE s.op = "add check"
      BY <2>1, <2>2, <3>1 DEF ShapesOf
    <3>2. CASE s.op # "add check"
      BY <1>1, <2>1, <3>2
    <3> QED
      BY <3>1, <3>2
  <2> QED
    BY <2>3, <2>4 DEF CoveredObjects, j, y
<1>5. CoveredView(f, Q)
  <2> DEFINE V == e["gateway_usage_daily"]
             W == f["gateway_usage_daily"]
  <2>1. /\ s.op \notin {"drop view", "create view"} => W = V
        /\ s.op = "create view" => W.kind = "view" /\ W.shape = "ours"
        /\ \/ V.kind = "view" /\ V.shape = "ours" /\ \A p \in T : p.op # "drop view"
           \/ \E p \in T : p.op = "create view"
    BY DEF Does, DoesView, Covered, CoveredView
  <2> HIDE DEF V, W
  <2>2. CASE s.op = "create view"
    <3>1. \A p \in Q : p.op # "drop view"
      BY <1>1, <2>2 DEF Clash
    <3> QED
      BY <2>1, <2>2, <3>1 DEF CoveredView, W
  <2>3. CASE s.op # "create view"
    <3>1. \/ W = V /\ V.kind = "view" /\ V.shape = "ours" /\ \A p \in Q : p.op # "drop view"
          \/ \E p \in Q : p.op = "create view"
      BY <1>1, <2>1, <2>3
    <3> QED
      BY <3>1 DEF CoveredView, W
  <2> QED
    BY <2>2, <2>3
<1> QED
  BY <1>2, <1>3, <1>4, <1>5 DEF Covered

-----------------------------------------------------------------------------
(* A database with nothing to be done *)

\* Of what is empty there is nothing.
LEMMA NothingIn ==
    ASSUME NEW D, NEW q \in Seq(D), Range(q) = {}
    PROVE  q = << >>
<1>1. Len(q) \in Nat /\ DOMAIN q = 1..Len(q)
  OBVIOUS
<1>2. CASE Len(q) = 0
  BY <1>2
<1>3. CASE Len(q) > 0
  <2>1. 1 \in DOMAIN q
    BY <1>1, <1>3
  <2> QED
    BY <2>1 DEF Range
<1> QED
  BY <1>1, <1>2, <1>3

\* Sequences that are empty come to an empty one.
LEMMA FlatEmpty ==
    ASSUME NEW n \in Nat \ {0}, NEW ss, ss = [i \in 1..n |-> << >>]
    PROVE  FlattenSeq(ss) = << >>
<1> DEFINE D == Discrepancies({})
           q == FlattenSeq(ss)
<1>1. ss \in [1..n -> Seq(D)]
  <2>1. << >> \in Seq(D)
    OBVIOUS
  <2> HIDE DEF D
  <2> QED
    BY <2>1
<1>2. q \in Seq(D) /\ \A x : x \in Range(q) <=> \E k \in 1..n : x \in Range(ss[k])
  BY <1>1, FindingsFlat
<1>3. \A k \in 1..n : Range(ss[k]) = {}
  BY RangeFew
<1>4. Range(q) = {}
  BY <1>2, <1>3
<1> HIDE DEF D, q
<1>5. q = << >>
  BY <1>2, <1>4, NothingIn
<1> QED
  BY <1>5 DEF q

\* Columns that are covered by nothing are as they should be.
LEMMA ColumnsFinished ==
    ASSUME NEW e, IsDatabase(e), NEW t \in Tables, CoveredTable(e, {}, t)
    PROVE  CompareColumns(e, t, {}) = << >>
<1> DEFINE reference == Reference[t].cols
           live == e[t].cols
           compared == DOMAIN reference \ ({} \cup {"id"})
           extra == DOMAIN live \ (DOMAIN reference \cup {"id"})
           Of(c) == IF c \in DOMAIN live THEN CompareColumn(t, c, reference[c], live[c])
                    ELSE <<AddColumn(t, c, reference[c])>>
           Extra(c) == CompareExtra(t, c, live[c])
           ofs == [i \in DOMAIN Order |-> IF Order[i] \in compared THEN Of(Order[i]) ELSE << >>]
           extras == [i \in DOMAIN Order |-> IF Order[i] \in extra THEN Extra(Order[i]) ELSE << >>]
<1>1. ASSUME NEW c \in compared PROVE Of(c) = << >>
  <2> DEFINE C == reference[c]
             F == live[c]
  <2>1. c \in DOMAIN Reference[t].cols \ {"id"}
    OBVIOUS
  <2>2. CoveredColumn(e, {}, t, c)
    BY <2>1 DEF CoveredTable
  <2>3. /\ c \in DOMAIN live
        /\ F.generated = C.generated /\ F.identity = C.identity /\ F.type = C.type
        /\ F.notNull = C.notNull /\ F.default = C.default
    BY <2>2 DEF CoveredColumn, Defaulted
  <2>4. Nullability(t, c, C, F) = << >>
    <3>1. ~(C.notNull /\ ~F.notNull /\ ~F.nulls)
      BY <2>3
    <3> QED
      BY <2>3, <3>1 DEF Nullability
  <2>5. Default(t, c, C, F) = << >>
    BY <2>3 DEF Default
  <2>6. CompareColumn(t, c, C, F) = << >>
    BY <2>3, <2>4, <2>5 DEF CompareColumn
  <2> QED
    BY <2>3, <2>6
<1>2. ASSUME NEW c \in extra PROVE Extra(c) = << >>
  BY DEF CompareExtra, CoveredTable, Idle
<1>3. DOMAIN Order = 1..11
  BY NamesAre
<1>4. CompareColumns(e, t, {}) = FlattenSeq(ofs) \o FlattenSeq(extras)
  BY DEF CompareColumns, Each
<1>5. ofs = [i \in 1..11 |-> << >>] /\ extras = [i \in 1..11 |-> << >>]
  <2> HIDE DEF Of, Extra, compared, extra
  <2> QED
    BY <1>1, <1>2, <1>3
<1> HIDE DEF ofs, extras
<1>6. FlattenSeq(ofs) = << >> /\ FlattenSeq(extras) = << >>
  <2>1. 11 \in Nat \ {0}
    OBVIOUS
  <2> QED
    BY <1>5, <2>1, FlatEmpty
<1> QED
  BY <1>4, <1>6

\* A database of which everything is covered has an empty plan.
LEMMA Finished ==
    ASSUME NEW e, IsDatabase(e), Covered(e, {}), NEW b \in Given
    PROVE  IsEmpty(PlanOf(e, b))
<1> DEFINE u == "gateway_usage"
           r == "model_pricing_rates"
           v == "gateway_usage_daily"
           U == e[u]
           R == e[r]
           V == e[v]
<1>1. CoveredTable(e, {}, u) /\ CoveredTable(e, {}, r) /\ u \in Tables /\ r \in Tables
  BY DEF Covered, Tables
<1>2. U.kind # "absent" /\ R.kind # "absent"
  BY <1>1 DEF CoveredTable
<1>3. U.key = "ours" /\ R.key = "ours"
  BY DEF Covered, CoveredKeys
<1>4. "ts" \in ShapesOf(U.indexes) /\ "costs" \in ShapesOf(R.checks)
  BY DEF Covered, CoveredObjects
<1>5. V.kind = "view" /\ V.shape = "ours"
  BY DEF Covered, CoveredView
<1>6. "effective_from" \in DOMAIN R.cols
  <2>1. "effective_from" \in DOMAIN Reference[r].cols \ {"id"}
    BY ReferenceIs DEF CardNames
  <2>2. CoveredColumn(e, {}, r, "effective_from")
    BY <1>1, <2>1 DEF CoveredTable
  <2> QED
    BY <2>2 DEF CoveredColumn
<1>7. CompareColumns(e, u, {}) = << >> /\ CompareColumns(e, r, {}) = << >>
  BY <1>1, ColumnsFinished
<1>8. /\ Reference[u].key = "ours" /\ Reference[r].key = "ours"
      /\ Reference[u].indexes = {TsIndex} /\ Reference[r].indexes = {}
      /\ Reference[u].checks = {} /\ Reference[r].checks = {CostsCheck}
  BY DEF Reference
<1>9. /\ ShapesOf({}) = {} /\ ShapesOf({TsIndex}) = {"ts"} /\ ShapesOf({CostsCheck}) = {"costs"}
  BY DEF ShapesOf, TsIndex, CostsCheck
<1>10. /\ CompareIndexes(u, Reference[u].indexes, U.indexes) = << >>
       /\ CompareIndexes(r, Reference[r].indexes, R.indexes) = << >>
  BY <1>4, <1>8, <1>9 DEF CompareIndexes
<1>11. /\ CompareConstraints(u, Reference[u].checks, U) = << >>
       /\ CompareConstraints(r, Reference[r].checks, R) = << >>
  BY <1>4, <1>8, <1>9 DEF CompareConstraints
<1>12. CompareView(V) = << >>
  BY <1>5 DEF CompareView
<1>13. CompareTable(e, u, b) = << >>
  <2>1. CompareTable(e, u, b) = (((<< >> \o << >>) \o << >>) \o << >>) \o << >>
    BY <1>2, <1>3, <1>7, <1>8, <1>10, <1>11 DEF CompareTable
  <2> QED
    BY <2>1
<1>14. CompareTable(e, r, b) = << >>
  <2>1. CompareTable(e, r, b) = (((<< >> \o << >>) \o << >>) \o << >>) \o << >>
    BY <1>2, <1>3, <1>6, <1>7, <1>8, <1>10, <1>11 DEF CompareTable
  <2> QED
    BY <2>1
<1>15. PlanOf(e, b).discrepancies = (<< >> \o << >>) \o << >>
  BY <1>12, <1>13, <1>14 DEF PlanOf
<1> QED
  BY <1>15 DEF IsEmpty

-----------------------------------------------------------------------------
(* What a plan asks, and what it leaves to be done *)

\* More statements ask no more of each, and cover no less.
LEMMA ReadyGrows ==
    ASSUME NEW e, NEW T, NEW T2, T \subseteq T2, NEW s
    PROVE  /\ ReadyColumn(e, T, s) => ReadyColumn(e, T2, s)
           /\ \A t, c : CoveredColumn(e, T, t, c) => CoveredColumn(e, T2, t, c)
<1>1. ReadyColumn(e, T, s) => ReadyColumn(e, T2, s)
  BY DEF ReadyColumn, Adds
<1>2. ASSUME NEW t, NEW c, CoveredColumn(e, T, t, c) PROVE CoveredColumn(e, T2, t, c)
  <2>1. Defaulted(T, t, c) => Defaulted(T2, t, c)
    BY DEF Defaulted
  <2>2. CASE c \in DOMAIN e[t].cols
    BY <1>2, <2>1, <2>2 DEF CoveredColumn
  <2>3. CASE c \notin DOMAIN e[t].cols
    BY <1>2, <2>1, <2>3 DEF CoveredColumn
  <2> QED
    BY <2>2, <2>3
<1> QED
  BY <1>1, <1>2

\* The statements of q are about columns of cs.  When no person is asked, they can be
\* executed, and make the columns what they are in the schema.
AboutColumns(t, cs, q) ==
    \A s \in Range(StatementsIn(q)) : s.op \in ColumnOps /\ s.on = t /\ s.column \in cs
Settles(d, t, cs, q) ==
    LET T == Range(StatementsIn(q)) IN
    Clean(q) =>
        /\ InOrder(StatementsIn(q))
        /\ \A s \in T : ReadyColumn(d, T, s)
        /\ \A c \in cs : /\ CoveredColumn(d, T, t, c)
                         /\ c \notin DOMAIN d[t].cols => Reference[t].cols[c].default # "now"

\* A column that is missing.
LEMMA MissingSettled ==
    ASSUME NEW d, NEW t \in Tables, NEW c \in DOMAIN Reference[t].cols \ {"id"},
           c \notin DOMAIN d[t].cols
    PROVE  LET q == <<AddColumn(t, c, Reference[t].cols[c])>> IN
           AboutColumns(t, {c}, q) /\ Settles(d, t, {c}, q)
<1> DEFINE C == Reference[t].cols[c]
           X == LeavesKey(d)
           D == Discrepancies(X)
           a == AddColumn(t, c, C)
           q == <<a>>
<1>1. C \in Column /\ C.default \in {"none", "constant", "now"}
  BY ReferenceColumn
<1>2. a \in D
  BY <1>1, ColumnFindings
<1>3. StatementsIn(q) = a.statements /\ (Clean(q) <=> a.resolution # "manual")
  BY <1>2, FindingsFew
<1>4. CASE a = Manual(t, c)
  <2>1. a.statements = << >> /\ a.resolution = "manual"
    BY <1>4 DEF Manual
  <2>2. Range(StatementsIn(q)) = {} /\ ~Clean(q)
    BY <1>3, <2>1, RangeFew
  <2> QED
    BY <2>2 DEF AboutColumns, Settles
<1>5. CASE C.default \in {"none", "constant"} /\ a # Manual(t, c) /\ ~(C.default = "none" /\ C.notNull)
  <2> DEFINE s == St("add column", t, c, C.default)
  <2>1. a = Automatic(t, c, <<s>>)
    BY <1>1, <1>5 DEF AddColumn
  <2>2. a.statements = <<s>>
    <3> HIDE DEF a, s
    <3> QED
      BY <2>1 DEF Automatic
  <2>3. s.op = "add column" /\ s.on = t /\ s.column = c /\ s.default = C.default
    BY DEF St
  <2> HIDE DEF s
  <2>4. Range(StatementsIn(q)) = {s} /\ InOrder(StatementsIn(q))
    BY <1>3, <2>2, RangeFew, OrderFew
  <2>5. ReadyColumn(d, {s}, s)
    BY <2>3 DEF ReadyColumn
  <2>6. CoveredColumn(d, {s}, t, c)
    BY <2>3 DEF CoveredColumn
  <2>7. AboutColumns(t, {c}, q)
    BY <2>3, <2>4 DEF AboutColumns, ColumnOps
  <2>8. Settles(d, t, {c}, q)
    BY <1>5, <2>4, <2>5, <2>6 DEF Settles
  <2> QED
    BY <2>7, <2>8
<1>6. CASE a # Manual(t, c) /\ C.default = "none" /\ C.notNull
  <2> DEFINE s == St("add column", t, c, "one")
             u == St("drop default", t, c, "none")
  <2>1. a = Automatic(t, c, <<s, u>>)
    BY <1>6 DEF AddColumn
  <2>2. a.statements = <<s, u>>
    <3> HIDE DEF a, s, u
    <3> QED
      BY <2>1 DEF Automatic
  <2>3. /\ s.op = "add column" /\ s.on = t /\ s.column = c
        /\ u.op = "drop default" /\ u.on = t /\ u.column = c /\ u.default = C.default
    BY <1>6 DEF St
  <2> HIDE DEF s, u
  <2>4. ~Clash(s, u)
    BY <2>3 DEF Clash
  <2>5. Range(StatementsIn(q)) = {s, u} /\ InOrder(StatementsIn(q))
    BY <1>3, <2>2, <2>4, RangeFew, OrderFew
  <2>6. ReadyColumn(d, {s, u}, s) /\ ReadyColumn(d, {s, u}, u)
    BY <2>3 DEF ReadyColumn, Adds
  <2>7. CoveredColumn(d, {s, u}, t, c)
    BY <2>3 DEF CoveredColumn, Defaulted
  <2>8. AboutColumns(t, {c}, q)
    BY <2>3, <2>5 DEF AboutColumns, ColumnOps
  <2>9. Settles(d, t, {c}, q)
    BY <1>6, <2>5, <2>6, <2>7 DEF Settles
  <2> QED
    BY <2>8, <2>9
<1>7. C.default \notin {"none", "constant"} => a = Manual(t, c)
  BY DEF AddColumn
<1> QED
  BY <1>4, <1>5, <1>6, <1>7

\* A column that is there.
LEMMA PresentSettled ==
    ASSUME NEW d, NEW t \in Tables, NEW c \in DOMAIN Reference[t].cols \ {"id"},
           c \in DOMAIN d[t].cols, d[t].cols[c] \in Column
    PROVE  LET q == CompareColumn(t, c, Reference[t].cols[c], d[t].cols[c]) IN
           AboutColumns(t, {c}, q) /\ Settles(d, t, {c}, q)
<1> DEFINE C == Reference[t].cols[c]
           F == d[t].cols[c]
           X == LeavesKey(d)
           D == Discrepancies(X)
           q == CompareColumn(t, c, C, F)
           same == F.generated = C.generated /\ F.identity = C.identity /\ F.type = C.type
           n == Nullability(t, c, C, F)
           m == Default(t, c, C, F)
           s == St("set not null", t, c, "none")
           u == IF C.default = "none" THEN St("drop default", t, c, "none")
                ELSE St("set default", t, c, C.default)
           N == Range(StatementsIn(n))
           M == Range(StatementsIn(m))
<1>1. /\ C \in Column /\ ~C.identity /\ ~C.generated /\ F \in Column
  BY ReferenceColumn
<1>2. s.op = "set not null" /\ s.on = t /\ s.column = c
  BY DEF St
<1>3. /\ u.op \in {"drop default", "set default"} /\ u.on = t /\ u.column = c
      /\ u.default = C.default
  BY DEF St
<1>4. Manual(t, c) \in D /\ Manual(t, c).resolution = "manual" /\ Manual(t, c).statements = << >>
  <2>1. t \in Relations /\ c \in Whats
    BY ReferenceColumn DEF Relations, Whats
  <2> QED
    BY <2>1 DEF Manual, Discrepancies
<1>5. /\ Automatic(t, c, <<s>>).statements = <<s>> /\ Automatic(t, c, <<u>>).statements = <<u>>
      /\ Automatic(t, c, <<s>>).resolution = "automatic"
      /\ Automatic(t, c, <<u>>).resolution = "automatic"
  BY DEF Automatic
<1>6. Automatic(t, c, <<s>>) \in D /\ Automatic(t, c, <<u>>) \in D
  <2>1. t \in Relations /\ c \in Whats /\ c \in Names
    BY ReferenceColumn DEF Relations, Whats
  <2>2. s \in X /\ u \in X
    BY <1>1, <2>1 DEF St, LeavesKey, Planned, Harmless, Statement, Defaults, Column
  <2> HIDE DEF s, u, X
  <2>3. <<s>> \in Seq(X) /\ <<u>> \in Seq(X)
    BY <2>2, Single
  <2> QED
    BY <2>1, <2>3 DEF Automatic, Discrepancies
<1> HIDE DEF s, u, D, X, C, F
<1>7. /\ n \in Seq(D)
      /\ Clean(n) => C.notNull = F.notNull \/ s \in N
      /\ N = {} \/ (N = {s} /\ C.notNull /\ ~F.nulls)
      /\ InOrder(StatementsIn(n))
  <2>1. CASE C.notNull /\ ~F.notNull /\ ~F.nulls
    <3>1. n = <<Automatic(t, c, <<s>>)>>
      BY <2>1 DEF Nullability, s
    <3> DEFINE a == Automatic(t, c, <<s>>)
    <3>2. n = <<a>> /\ a \in D /\ a.statements = <<s>>
      BY <1>5, <1>6, <3>1
    <3> HIDE DEF a, n
    <3>3. StatementsIn(n) = <<s>>
      BY <3>2, FindingsFew DEF D
    <3>4. N = {s} /\ InOrder(StatementsIn(n)) /\ n \in Seq(D)
      BY <3>2, <3>3, RangeFew, OrderFew, Single
    <3> QED
      BY <2>1, <3>4
  <2>2. CASE C.notNull = F.notNull
    <3>1. n = << >>
      BY <2>2 DEF Nullability
    <3>2. StatementsIn(n) = << >> /\ n \in Seq(D)
      BY <3>1, FindingsFew
    <3> QED
      BY <2>2, <3>2, RangeFew, OrderFew
  <2>3. CASE C.notNull # F.notNull /\ ~(C.notNull /\ ~F.notNull /\ ~F.nulls)
    <3>1. n = <<Manual(t, c)>>
      BY <2>3 DEF Nullability
    <3> DEFINE a == Manual(t, c)
    <3>2. n = <<a>> /\ a \in D /\ a.statements = << >> /\ a.resolution = "manual"
      BY <1>4, <3>1
    <3> HIDE DEF a, n
    <3>3. StatementsIn(n) = << >> /\ ~Clean(n)
      BY <3>2, FindingsFew DEF D
    <3>4. N = {} /\ InOrder(StatementsIn(n)) /\ n \in Seq(D)
      BY <3>2, <3>3, RangeFew, OrderFew, Single
    <3> QED
      BY <3>3, <3>4
  <2> QED
    BY <2>1, <2>2, <2>3
<1>8. /\ m \in Seq(D) /\ InOrder(StatementsIn(m))
      /\ C.default = F.default \/ u \in M
      /\ M \subseteq {u}
  <2>1. CASE F.default = C.default
    <3>1. m = << >>
      BY <2>1 DEF Default
    <3>2. StatementsIn(m) = << >> /\ m \in Seq(D)
      BY <3>1, FindingsFew
    <3> QED
      BY <2>1, <3>2, RangeFew, OrderFew
  <2>2. CASE F.default # C.default
    <3>1. m = <<Automatic(t, c, <<u>>)>>
      BY <2>2 DEF Default, u
    <3> DEFINE a == Automatic(t, c, <<u>>)
    <3>2. m = <<a>> /\ a \in D /\ a.statements = <<u>>
      BY <1>5, <1>6, <3>1
    <3> HIDE DEF a, m
    <3>3. StatementsIn(m) = <<u>>
      BY <3>2, FindingsFew DEF D
    <3>4. M = {u} /\ InOrder(StatementsIn(m)) /\ m \in Seq(D)
      BY <3>2, <3>3, RangeFew, OrderFew, Single
    <3> QED
      BY <3>4
  <2> QED
    BY <2>1, <2>2
<1>9. CASE ~same
  <2>1. q = <<Manual(t, c)>>
    BY <1>9 DEF CompareColumn
  <2> DEFINE a == Manual(t, c)
  <2>2. q = <<a>> /\ a \in D /\ a.statements = << >> /\ a.resolution = "manual"
    BY <1>4, <2>1
  <2> HIDE DEF a, q
  <2>3. StatementsIn(q) = << >> /\ ~Clean(q)
    BY <2>2, FindingsFew DEF D
  <2>4. Range(StatementsIn(q)) = {}
    BY <2>3, RangeFew
  <2>5. AboutColumns(t, {c}, q) /\ Settles(d, t, {c}, q)
    BY <2>3, <2>4 DEF AboutColumns, Settles
  <2> QED
    BY <2>5 DEF q, C, F
<1>10. CASE same
  <2>1. q = n \o m
    BY <1>10 DEF CompareColumn
  <2> HIDE DEF q, n, m, same
  <2>2. Clean(n \o m) <=> Clean(n) /\ Clean(m)
    BY <1>7, <1>8, FindingsConcat DEF D
  <2>3. Range(StatementsIn(n \o m)) = Range(StatementsIn(n)) \cup Range(StatementsIn(m))
    BY <1>7, <1>8, FindingsConcat DEF D
  <2>4. ~Clash(s, u)
    BY <1>2, <1>3 DEF Clash
  <2>5. \A x \in Range(StatementsIn(n)) : \A y \in Range(StatementsIn(m)) : ~Clash(x, y)
    BY <1>7, <1>8, <2>4
  <2>6. InOrder(StatementsIn(n \o m))
    BY <1>7, <1>8, <2>5, FindingsConcat DEF D
  <2> DEFINE T == Range(StatementsIn(q))
  <2>7. T = N \cup M /\ InOrder(StatementsIn(q)) /\ (Clean(q) => Clean(n))
    BY <2>1, <2>2, <2>3, <2>6
  <2>8. s \in T => ReadyColumn(d, T, s)
    <3>1. ASSUME s \in T PROVE C.notNull /\ ~F.nulls
      <4>1. s # u
        BY <1>2, <1>3
      <4> QED
        BY <1>7, <1>8, <2>7, <3>1, <4>1
    <3> QED
      BY <1>2, <3>1 DEF ReadyColumn, C, F
  <2>9. ReadyColumn(d, T, u)
    <3>1. ~F.identity /\ ~F.generated
      BY <1>1, <1>10 DEF same
    <3> QED
      BY <1>3, <3>1 DEF ReadyColumn, C, F
  <2>10. ASSUME Clean(q) PROVE CoveredColumn(d, T, t, c)
    <3>1. F.generated = C.generated /\ F.identity = C.identity /\ F.type = C.type
      BY <1>10 DEF same
    <3>2. F.notNull = C.notNull \/ \E x \in T : x.op = "set not null" /\ x.on = t /\ x.column = c
      BY <1>2, <1>7, <2>7, <2>10
    <3>3. F.default = C.default \/ Defaulted(T, t, c)
      BY <1>3, <1>8, <2>7 DEF Defaulted
    <3> QED
      BY <3>1, <3>2, <3>3 DEF CoveredColumn, C, F
  <2>11. T \subseteq {s, u}
    BY <1>7, <1>8, <2>7
  <2>12. AboutColumns(t, {c}, q)
    BY <1>2, <1>3, <2>11 DEF AboutColumns, ColumnOps
  <2>13. Settles(d, t, {c}, q)
    BY <2>7, <2>8, <2>9, <2>10, <2>11 DEF Settles
  <2> QED
    BY <2>12, <2>13 DEF q, C, F
<1> QED
  BY <1>9, <1>10

\* The columns of a table that are compared, one after the other, and the others.
LEMMA ColumnsSettled ==
    ASSUME NEW d, IsDatabase(d), NEW t \in Tables, NEW skip
    PROVE  LET q == CompareColumns(d, t, skip) IN
           LET cs == DOMAIN Reference[t].cols \ (skip \cup {"id"}) IN
           /\ AboutColumns(t, cs, q) /\ Settles(d, t, cs, q)
           /\ Clean(q) /\ t = "gateway_usage" =>
                \A c \in DOMAIN d[t].cols \ DOMAIN Reference[t].cols : Idle(d[t].cols[c])
<1> DEFINE X == LeavesKey(d)
           D == Discrepancies(X)
           reference == Reference[t].cols
           live == d[t].cols
           compared == DOMAIN reference \ (skip \cup {"id"})
           extra == DOMAIN live \ (DOMAIN reference \cup {"id"})
           Of(c) == IF c \in DOMAIN live THEN CompareColumn(t, c, reference[c], live[c])
                    ELSE <<AddColumn(t, c, reference[c])>>
           Extra(c) == CompareExtra(t, c, live[c])
           ofs == [i \in DOMAIN Order |-> IF Order[i] \in compared THEN Of(Order[i]) ELSE << >>]
           extras == [i \in DOMAIN Order |-> IF Order[i] \in extra THEN Extra(Order[i]) ELSE << >>]
           p == FlattenSeq(ofs)
           x == FlattenSeq(extras)
<1>1. ASSUME NEW c \in compared
      PROVE  Of(c) \in Seq(D) /\ AboutColumns(t, {c}, Of(c)) /\ Settles(d, t, {c}, Of(c))
  <2>1. c \in DOMAIN Reference[t].cols \ {"id"}
    OBVIOUS
  <2>2. CASE c \in DOMAIN live
    <3>1. live[c] \in Column
      BY <2>2, TablesHaveColumns DEF IsColumns
    <3>2. CompareColumn(t, c, reference[c], live[c]) \in Seq(D)
      BY <2>1, <3>1, ColumnFindings
    <3>3. LET o == CompareColumn(t, c, reference[c], live[c]) IN
          AboutColumns(t, {c}, o) /\ Settles(d, t, {c}, o)
      BY <2>1, <2>2, <3>1, PresentSettled
    <3> HIDE DEF D
    <3> QED
      BY <2>2, <3>2, <3>3
  <2>3. CASE c \notin DOMAIN live
    <3>1. Optional \in Column
      BY DEF Optional, Required, Column, Defaults, Held
    <3>2. AddColumn(t, c, reference[c]) \in D
      BY <2>1, <3>1, ColumnFindings
    <3>3. LET o == <<AddColumn(t, c, reference[c])>> IN
          AboutColumns(t, {c}, o) /\ Settles(d, t, {c}, o)
      BY <2>1, <2>3, MissingSettled
    <3> HIDE DEF D
    <3>4. <<AddColumn(t, c, reference[c])>> \in Seq(D)
      BY <3>2, Single
    <3> QED
      BY <2>3, <3>3, <3>4
  <2> QED
    BY <2>2, <2>3
<1>2. ASSUME NEW c \in extra
      PROVE  /\ Extra(c) \in Seq(D) /\ StatementsIn(Extra(c)) = << >>
             /\ Clean(Extra(c)) /\ t = "gateway_usage" => Idle(live[c])
  <2>1. t \in Relations /\ c \in Whats
    BY TablesHaveColumns DEF Relations, Whats, IsColumns
  <2> DEFINE a == Manual(t, c)
  <2>2. a \in D /\ a.resolution = "manual" /\ a.statements = << >>
    BY <2>1 DEF Manual, Discrepancies
  <2>3. Extra(c) = << >> \/ Extra(c) = <<a>>
    BY DEF CompareExtra
  <2>4. t = "gateway_usage" /\ ~Idle(live[c]) => Extra(c) = <<a>>
    BY DEF CompareExtra, Idle
  <2> HIDE DEF a, Extra
  <2>5. CASE Extra(c) = << >>
    <3>1. StatementsIn(<< >>) = << >> /\ << >> \in Seq(D)
      BY FindingsFew
    <3>2. t = "gateway_usage" => Idle(live[c])
      BY <2>4, <2>5
    <3> QED
      BY <2>5, <3>1, <3>2
  <2>6. CASE Extra(c) = <<a>>
    <3>1. StatementsIn(<<a>>) = << >> /\ ~Clean(<<a>>)
      BY <2>2, FindingsFew
    <3> HIDE DEF D
    <3>2. <<a>> \in Seq(D)
      BY <2>2, Single
    <3> QED
      BY <2>6, <3>1, <3>2
  <2> QED
    BY <2>3, <2>5, <2>6
<1>3. /\ DOMAIN Order = 1..11 /\ 11 \in Nat \ {0}
      /\ \A i \in 1..11 : \A j \in 1..11 : i # j => Order[i] # Order[j]
      /\ \A c \in Names : \E i \in 1..11 : Order[i] = c
  <2>1. \A i \in 1..11 : \A j \in 1..11 : i # j => Order[i] # Order[j]
    BY DEF Order
  <2>2. \A c \in Names : \E i \in 1..11 : Order[i] = c
    BY NamesAre DEF Names, Range
  <2> QED
    BY <2>1, <2>2, NamesAre
<1>4. compared \subseteq Names /\ extra \subseteq Names
  BY TablesHaveColumns DEF IsColumns
<1> HIDE DEF Of, Extra, compared, extra
<1>5. << >> \in Seq(D) /\ StatementsIn(<< >>) = << >> /\ Clean(<< >>) /\ Range(<< >>) = {} /\ InOrder(<< >>)
  BY FindingsFew, RangeFew, OrderFew
<1>6. /\ ofs \in [1..11 -> Seq(D)] /\ extras \in [1..11 -> Seq(D)]
      /\ \A i \in 1..11 : ofs[i] = IF Order[i] \in compared THEN Of(Order[i]) ELSE << >>
      /\ \A i \in 1..11 : extras[i] = IF Order[i] \in extra THEN Extra(Order[i]) ELSE << >>
  <2> HIDE DEF D
  <2> QED
    BY <1>1, <1>2, <1>3, <1>5
<1> HIDE DEF ofs, extras
<1> DEFINE O(i) == Range(StatementsIn(ofs[i]))
           q == CompareColumns(d, t, skip)
           T == Range(StatementsIn(q))
<1>7. \A i \in 1..11 : Range(StatementsIn(extras[i])) = {} /\ InOrder(StatementsIn(extras[i]))
  BY <1>2, <1>5, <1>6
<1>8. ASSUME NEW i \in 1..11
      PROVE  \A s \in O(i) : /\ Order[i] \in compared
                             /\ s.op \in ColumnOps /\ s.on = t /\ s.column = Order[i]
  <2>1. CASE Order[i] \in compared
    BY <1>1, <1>6, <2>1 DEF AboutColumns
  <2>2. CASE Order[i] \notin compared
    BY <1>5, <1>6, <2>2
  <2> QED
    BY <2>1, <2>2
<1>9. /\ p \in Seq(D)
      /\ \A y : y \in Range(p) <=> \E k \in 1..11 : y \in Range(ofs[k])
      /\ \A y : y \in Range(StatementsIn(p)) <=> \E k \in 1..11 : y \in Range(StatementsIn(ofs[k]))
      /\ Orderly(ofs, 11) => InOrder(StatementsIn(p))
  <2>1. p \in Seq(D)
    BY <1>3, <1>6, FindingsFlat
  <2>2. \A y : y \in Range(p) <=> \E k \in 1..11 : y \in Range(ofs[k])
    BY <1>3, <1>6, FindingsFlat
  <2>3. \A y : y \in Range(StatementsIn(p)) <=> \E k \in 1..11 : y \in Range(StatementsIn(ofs[k]))
    BY <1>3, <1>6, FindingsFlat
  <2>4. Orderly(ofs, 11) => InOrder(StatementsIn(p))
    BY <1>3, <1>6, FindingsFlat
  <2> QED
    BY <2>1, <2>2, <2>3, <2>4
<1>10. /\ x \in Seq(D)
       /\ \A y : y \in Range(x) <=> \E k \in 1..11 : y \in Range(extras[k])
       /\ \A y : y \in Range(StatementsIn(x)) <=> \E k \in 1..11 : y \in Range(StatementsIn(extras[k]))
       /\ Orderly(extras, 11) => InOrder(StatementsIn(x))
  <2>1. x \in Seq(D)
    BY <1>3, <1>6, FindingsFlat
  <2>2. \A y : y \in Range(x) <=> \E k \in 1..11 : y \in Range(extras[k])
    BY <1>3, <1>6, FindingsFlat
  <2>3. \A y : y \in Range(StatementsIn(x)) <=> \E k \in 1..11 : y \in Range(StatementsIn(extras[k]))
    BY <1>3, <1>6, FindingsFlat
  <2>4. Orderly(extras, 11) => InOrder(StatementsIn(x))
    BY <1>3, <1>6, FindingsFlat
  <2> QED
    BY <2>1, <2>2, <2>3, <2>4
<1>11. q = p \o x
  BY DEF CompareColumns, Each, ofs, extras, Of, Extra, compared, extra
<1> HIDE DEF p, x, q
<1>12. /\ Clean(p \o x) <=> Clean(p) /\ Clean(x)
       /\ Range(StatementsIn(p \o x)) = Range(StatementsIn(p)) \cup Range(StatementsIn(x))
       /\ /\ InOrder(StatementsIn(p)) /\ InOrder(StatementsIn(x))
          /\ \A y \in Range(StatementsIn(p)) : \A z \in Range(StatementsIn(x)) : ~Clash(y, z)
          => InOrder(StatementsIn(p \o x))
  BY <1>9, <1>10, FindingsConcat
<1>13. Range(StatementsIn(x)) = {} /\ InOrder(StatementsIn(x))
  BY <1>7, <1>10 DEF Orderly
<1>14. \A s : s \in T <=> \E k \in 1..11 : s \in O(k)
  BY <1>9, <1>11, <1>12, <1>13
<1>15. AboutColumns(t, compared, q)
  BY <1>8, <1>14 DEF AboutColumns
<1>16. ASSUME Clean(q)
       PROVE  /\ InOrder(StatementsIn(q))
              /\ \A s \in T : ReadyColumn(d, T, s)
              /\ \A c \in compared :
                   /\ CoveredColumn(d, T, t, c)
                   /\ c \notin DOMAIN d[t].cols => Reference[t].cols[c].default # "now"
  <2>1. \A k \in 1..11 : Clean(ofs[k])
    BY <1>9, <1>11, <1>12, <1>16 DEF Clean
  <2>2. \A k \in 1..11 : Order[k] \in compared => Settles(d, t, {Order[k]}, ofs[k])
    BY <1>1, <1>6
  <2>3. ASSUME NEW k \in 1..11, Order[k] \in compared
        PROVE  /\ InOrder(StatementsIn(ofs[k]))
               /\ \A s \in O(k) : ReadyColumn(d, T, s)
               /\ CoveredColumn(d, T, t, Order[k])
               /\ Order[k] \notin DOMAIN d[t].cols => Reference[t].cols[Order[k]].default # "now"
    <3>1. /\ InOrder(StatementsIn(ofs[k]))
          /\ \A s \in O(k) : ReadyColumn(d, O(k), s)
          /\ CoveredColumn(d, O(k), t, Order[k])
          /\ Order[k] \notin DOMAIN d[t].cols => Reference[t].cols[Order[k]].default # "now"
      BY <2>1, <2>2, <2>3 DEF Settles
    <3>2. O(k) \subseteq T
      BY <1>14
    <3> HIDE DEF O, T
    <3> QED
      BY <3>1, <3>2, ReadyGrows
  <2>4. \A k \in 1..11 : InOrder(StatementsIn(ofs[k]))
    BY <1>5, <1>6, <2>3
  <2>5. ASSUME NEW i \in 1..11, NEW j \in 1..11, i < j, NEW y \in O(i), NEW z \in O(j)
        PROVE  ~Clash(y, z)
    <3>1. Order[i] # Order[j]
      BY <1>3, <2>5
    <3>2. /\ y.op \in ColumnOps /\ y.on = t /\ y.column = Order[i]
          /\ z.op \in ColumnOps /\ z.on = t /\ z.column = Order[j]
      BY <1>8
    <3> QED
      BY <3>1, <3>2 DEF Clash, ColumnOps
  <2>6. InOrder(StatementsIn(p))
    BY <1>9, <2>4, <2>5 DEF Orderly
  <2>7. InOrder(StatementsIn(q))
    BY <1>11, <1>12, <1>13, <2>6
  <2>8. \A s \in T : ReadyColumn(d, T, s)
    BY <1>8, <1>14, <2>3
  <2>9. ASSUME NEW c \in compared
        PROVE  /\ CoveredColumn(d, T, t, c)
               /\ c \notin DOMAIN d[t].cols => Reference[t].cols[c].default # "now"
    <3>1. PICK k \in 1..11 : Order[k] = c
      BY <1>3, <1>4
    <3> QED
      BY <2>3, <3>1
  <2> QED
    BY <2>7, <2>8, <2>9
<1>17. Settles(d, t, compared, q)
  BY <1>16 DEF Settles
<1>18. ASSUME Clean(q), t = "gateway_usage", NEW c \in DOMAIN live \ DOMAIN reference
       PROVE  Idle(live[c])
  <2>1. c \in extra
    BY <1>18, ReferenceIs DEF extra, UsageNames
  <2>2. PICK k \in 1..11 : Order[k] = c
    BY <1>3, <1>4, <2>1
  <2>3. extras[k] = Extra(c)
    BY <1>6, <2>1, <2>2
  <2>4. Clean(extras[k])
    BY <1>10, <1>11, <1>12, <1>18 DEF Clean
  <2> QED
    BY <1>2, <1>18, <2>1, <2>3, <2>4
<1> QED
  BY <1>15, <1>17, <1>18 DEF q, compared

\* The index, the constraint and the view.
LEMMA IndexFound ==
    ASSUME NEW d, IsDatabase(d)
    PROVE  LET u == "gateway_usage" IN
           LET I == d[u].indexes IN
           LET q == CompareIndexes(u, Reference[u].indexes, I) IN
           Clean(q) =>
             /\ InOrder(StatementsIn(q))
             /\ \A s \in Range(StatementsIn(q)) :
                  s.op = "create index" /\ s.on = u /\ TsIndex.name \notin NamesOf(I)
             /\ "ts" \in ShapesOf(I) \/ \E s \in Range(StatementsIn(q)) : s.op = "create index"
<1> DEFINE u == "gateway_usage"
           I == d[u].indexes
           q == CompareIndexes(u, Reference[u].indexes, I)
           X == LeavesKey(d)
           s == St("create index", u, "", "none")
           a == Automatic(u, "index", <<s>>)
           m == Manual(u, "index")
<1>1. u \in Tables /\ u \in Relations /\ "index" \in Whats
  BY DEF Tables, Relations, Whats
<1>2. m \in Discrepancies(X) /\ m.resolution = "manual"
  BY <1>1 DEF Manual, Discrepancies
<1>3. s.op = "create index" /\ s.on = u
  BY DEF St
<1>4. a \in Discrepancies(X) /\ a.statements = <<s>>
  <2>1. s \in X
    BY <1>1 DEF St, LeavesKey, Planned, Harmless, Statement, Defaults
  <2> HIDE DEF s, X
  <2>2. <<s>> \in Seq(X)
    BY <2>1, Single
  <2> QED
    BY <1>1, <2>2 DEF Automatic, Discrepancies
<1>5. ShapesOf(Reference[u].indexes) = {"ts"}
  <2>1. Reference[u].indexes = {TsIndex}
    BY DEF Reference
  <2>2. ShapesOf({TsIndex}) = {"ts"}
    BY DEF ShapesOf, TsIndex
  <2> QED
    BY <2>1, <2>2
<1> HIDE DEF s, a, m, I, X
<1>6. CASE "ts" \in ShapesOf(I)
  <2>1. q = << >>
    BY <1>5, <1>6 DEF CompareIndexes
  <2> QED
    BY <1>6, <2>1, FindingsFew, RangeFew, OrderFew DEF I
<1>7. CASE "ts" \notin ShapesOf(I) /\ TsIndex.name \in NamesOf(I)
  <2>1. q = <<m>>
    BY <1>5, <1>7 DEF CompareIndexes, m
  <2>2. ~Clean(q)
    BY <1>2, <2>1, FindingsFew
  <2> QED
    BY <2>2 DEF I
<1>8. CASE "ts" \notin ShapesOf(I) /\ TsIndex.name \notin NamesOf(I)
  <2>1. q = <<a>>
    BY <1>5, <1>8 DEF CompareIndexes, a, s
  <2>2. StatementsIn(q) = <<s>>
    BY <1>4, <2>1, FindingsFew
  <2>3. Range(StatementsIn(q)) = {s} /\ InOrder(StatementsIn(q))
    BY <2>2, RangeFew, OrderFew
  <2> QED
    BY <1>3, <1>8, <2>3 DEF I
<1> QED
  BY <1>6, <1>7, <1>8

\* The constraint is there, or is added to rows that satisfy it.
LEMMA CheckFound ==
    ASSUME NEW d, IsDatabase(d)
    PROVE  LET r == "model_pricing_rates" IN
           LET R == d[r] IN
           LET q == CompareConstraints(r, Reference[r].checks, R) IN
           Clean(q) =>
             /\ InOrder(StatementsIn(q))
             /\ \A s \in Range(StatementsIn(q)) :
                  /\ s.op = "add check" /\ s.on = r
                  /\ "cache_cost" \in DOMAIN R.cols /\ ~R.bad
                  /\ CostsCheck.name \notin NamesOf(R.checks)
             /\ \/ "costs" \in ShapesOf(R.checks)
                \/ \E s \in Range(StatementsIn(q)) : s.op = "add check"
<1> DEFINE r == "model_pricing_rates"
           R == d[r]
           q == CompareConstraints(r, Reference[r].checks, R)
           X == LeavesKey(d)
           s == St("add check", r, "", "none")
           a == Automatic(r, "check", <<s>>)
           m == Manual(r, "check")
           fit == "cache_cost" \in DOMAIN R.cols /\ ~R.bad /\ CostsCheck.name \notin NamesOf(R.checks)
<1>1. r \in Tables /\ r \in Relations /\ "check" \in Whats
  BY DEF Tables, Relations, Whats
<1>2. m \in Discrepancies(X) /\ m.resolution = "manual"
  BY <1>1 DEF Manual, Discrepancies
<1>3. s.op = "add check" /\ s.on = r
  BY DEF St
<1>4. a \in Discrepancies(X) /\ a.statements = <<s>>
  <2>1. s \in X
    BY <1>1 DEF St, LeavesKey, Planned, Harmless, Statement, Defaults
  <2> HIDE DEF s, X
  <2>2. <<s>> \in Seq(X)
    BY <2>1, Single
  <2> QED
    BY <1>1, <2>2 DEF Automatic, Discrepancies
<1>5. ShapesOf(Reference[r].checks) = {"costs"}
  <2>1. Reference[r].checks = {CostsCheck}
    BY DEF Reference
  <2>2. ShapesOf({CostsCheck}) = {"costs"}
    BY DEF ShapesOf, CostsCheck
  <2> QED
    BY <2>1, <2>2
<1> HIDE DEF s, a, m, R, X
<1>6. CASE "costs" \in ShapesOf(R.checks)
  <2>1. q = << >>
    BY <1>5, <1>6 DEF CompareConstraints
  <2> QED
    BY <1>6, <2>1, FindingsFew, RangeFew, OrderFew DEF R
<1>7. CASE "costs" \notin ShapesOf(R.checks) /\ ~fit
  <2>1. q = <<m>>
    BY <1>5, <1>7 DEF CompareConstraints, m
  <2>2. ~Clean(q)
    BY <1>2, <2>1, FindingsFew
  <2> QED
    BY <2>2 DEF R
<1>8. CASE "costs" \notin ShapesOf(R.checks) /\ fit
  <2>1. q = <<a>>
    BY <1>5, <1>8 DEF CompareConstraints, a, s
  <2>2. StatementsIn(q) = <<s>>
    BY <1>4, <2>1, FindingsFew
  <2>3. Range(StatementsIn(q)) = {s} /\ InOrder(StatementsIn(q))
    BY <2>2, RangeFew, OrderFew
  <2> QED
    BY <1>3, <1>8, <2>3 DEF R
<1> QED
  BY <1>6, <1>7, <1>8

\* The view is there, or is created after what was there is dropped.
LEMMA ViewFound ==
    ASSUME NEW d, IsDatabase(d)
    PROVE  LET v == "gateway_usage_daily" IN
           LET V == d[v] IN
           LET q == CompareView(V) IN
           LET T == Range(StatementsIn(q)) IN
           Clean(q) =>
             /\ InOrder(StatementsIn(q))
             /\ \A s \in T : s.op \in {"drop view", "create view"} /\ s.on = v
             /\ \A s \in T : s.op = "drop view" => V.kind = "view" /\ ~V.dependents
             /\ \A s \in T : s.op = "create view" => V.kind = "absent" \/ \E p \in T : p.op = "drop view"
             /\ CoveredView(d, T)
<1> DEFINE v == "gateway_usage_daily"
           V == d[v]
           q == CompareView(V)
           T == Range(StatementsIn(q))
           X == LeavesKey(d)
           c == St("create view", v, "", "none")
           o == St("drop view", v, "", "none")
           a == Automatic(v, "absent", <<c>>)
           e == Automatic(v, "view", <<o, c>>)
<1>1. v \in Relations /\ {"absent", "view", "kind"} \subseteq Whats
  BY DEF Relations, Whats
<1>2. \A w \in Whats : Manual(v, w) \in Discrepancies(X) /\ Manual(v, w).resolution = "manual"
  BY <1>1 DEF Manual, Discrepancies
<1>3. c.op = "create view" /\ c.on = v /\ o.op = "drop view" /\ o.on = v
  BY DEF St
<1>4. c \in X /\ (Replaceable(d) => o \in X)
  BY <1>1 DEF St, LeavesKey, Planned, Harmless, Statement, Defaults
<1>5. V.kind \in Kinds
  BY DEF IsDatabase, IsView
<1> HIDE DEF c, o, V, X, q
<1>6. CASE V.kind = "absent"
  <2>1. q = <<a>>
    BY <1>6 DEF CompareView, a, c, q
  <2>2. a \in Discrepancies(X) /\ a.statements = <<c>>
    <3>1. <<c>> \in Seq(X)
      BY <1>4, Single
    <3> QED
      BY <1>1, <3>1 DEF Automatic, Discrepancies
  <2> HIDE DEF a
  <2>3. StatementsIn(q) = <<c>>
    BY <2>1, <2>2, FindingsFew
  <2>4. T = {c} /\ InOrder(StatementsIn(q))
    BY <2>3, RangeFew, OrderFew
  <2>5. CoveredView(d, T)
    BY <1>3, <2>4 DEF CoveredView
  <2> QED
    BY <1>3, <1>6, <2>4, <2>5 DEF V, q
<1>7. CASE V.kind = "table" \/ (V.kind = "view" /\ V.shape # "ours" /\ V.dependents)
  <2>1. q = <<Manual(v, "kind")>> \/ q = <<Manual(v, "view")>>
    BY <1>7 DEF CompareView, q
  <2>2. ~Clean(q)
    BY <1>1, <1>2, <2>1, FindingsFew
  <2> QED
    BY <2>2 DEF V, q
<1>8. CASE V.kind = "view" /\ V.shape = "ours"
  <2>1. q = << >>
    BY <1>8 DEF CompareView, q
  <2>2. T = {} /\ InOrder(StatementsIn(q))
    BY <2>1, FindingsFew, RangeFew, OrderFew
  <2>3. CoveredView(d, T)
    BY <1>8, <2>2 DEF CoveredView, V
  <2> QED
    BY <2>2, <2>3 DEF V, q
<1>9. CASE V.kind = "view" /\ V.shape # "ours" /\ ~V.dependents
  <2>1. q = <<e>>
    BY <1>9 DEF CompareView, e, c, o, q
  <2>2. e \in Discrepancies(X) /\ e.statements = <<o, c>>
    <3>1. Replaceable(d)
      BY <1>9 DEF Replaceable, V
    <3>2. <<o, c>> \in Seq(X)
      BY <1>4, <3>1, Pair
    <3> QED
      BY <1>1, <3>2 DEF Automatic, Discrepancies
  <2> HIDE DEF e
  <2>3. StatementsIn(q) = <<o, c>>
    BY <2>1, <2>2, FindingsFew
  <2>4. ~Clash(o, c)
    BY <1>3 DEF Clash, ColumnOps
  <2>5. T = {o, c} /\ InOrder(StatementsIn(q))
    BY <2>3, <2>4, RangeFew, OrderFew
  <2>6. CoveredView(d, T)
    BY <1>3, <2>5 DEF CoveredView
  <2> QED
    BY <1>3, <1>9, <2>5, <2>6 DEF V, q
<1> QED
  BY <1>5, <1>6, <1>7, <1>8, <1>9 DEF Kinds

\* What is found in a table can be executed, and leaves its columns reconciled.
TableFits(d, t, ok, q) ==
    LET T == Range(StatementsIn(q)) IN
    /\ InOrder(StatementsIn(q))
    /\ \A s \in T :
         /\ s.on = t /\ s.op \notin {"drop view", "create view"}
         /\ ReadyTable(d, ok, s) /\ ReadyColumn(d, T, s) /\ ReadyKey(d, T, ok, s)
         /\ ReadyObject(d, ok, s)
    /\ CoveredTable(d, T, t)

\* The usage table: it has a key of its own, or a person is asked.
LEMMA UsageFits ==
    ASSUME NEW d, IsDatabase(d), Keyless(d), NEW b \in Given, NEW ok, ok => ~Unseen(d),
           Clean(CompareTable(d, "gateway_usage", b))
    PROVE  LET u == "gateway_usage" IN
           LET q == CompareTable(d, u, b) IN
           LET T == Range(StatementsIn(q)) IN
           /\ TableFits(d, u, ok, q)
           /\ d[u].key = "ours"
           /\ "ts" \in ShapesOf(d[u].indexes) \/ \E s \in T : s.op = "create index"
           /\ \A s \in T : s.op \in ColumnOps \cup {"create index"}
<1> DEFINE u == "gateway_usage"
           U == d[u]
           q == CompareTable(d, u, b)
           T == Range(StatementsIn(q))
           X == LeavesKey(d)
           D == Discrepancies(X)
           columns == CompareColumns(d, u, {})
           key == IF U.key = Reference[u].key THEN << >> ELSE <<Manual(u, "key")>>
           indexes == CompareIndexes(u, Reference[u].indexes, U.indexes)
           checks == CompareConstraints(u, Reference[u].checks, U)
           cs == DOMAIN Reference[u].cols \ {"id"}
<1>1. u \in Tables
  BY DEF Tables
<1>2. /\ columns \in Seq(D) /\ indexes \in Seq(D) /\ checks \in Seq(D)
      /\ <<Manual(u, "absent")>> \in Seq(D) /\ <<Manual(u, "key")>> \in Seq(D)
  BY <1>1, ColumnsFindings, OtherFindings
<1>3. /\ Manual(u, "absent") \in D /\ Manual(u, "absent").resolution = "manual"
      /\ Manual(u, "key") \in D /\ Manual(u, "key").resolution = "manual"
  BY DEF Manual, Discrepancies, Relations, Tables, Whats
<1>4. ~Clean(<<Manual(u, "absent")>>) /\ ~Clean(<<Manual(u, "key")>>)
  BY <1>3, FindingsFew
<1>5. U.kind # "absent"
  <2>1. U.kind = "absent" => q = <<Manual(u, "absent")>>
    BY DEF CompareTable
  <2> QED
    BY <1>4, <2>1
<1>6. checks = << >>
  <2>1. Reference[u].checks = {}
    BY DEF Reference
  <2>2. ShapesOf({}) = {}
    BY DEF ShapesOf
  <2> QED
    BY <2>1, <2>2 DEF CompareConstraints
<1>7. q = (((<< >> \o columns) \o key) \o indexes) \o checks
  BY <1>5 DEF CompareTable
<1>8. /\ AboutColumns(u, cs, columns) /\ Settles(d, u, cs, columns)
      /\ Clean(columns) =>
           \A c \in DOMAIN U.cols \ DOMAIN Reference[u].cols : Idle(U.cols[c])
  <2>1. cs = DOMAIN Reference[u].cols \ ({} \cup {"id"})
    OBVIOUS
  <2> QED
    BY <1>1, <2>1, ColumnsSettled
<1>9. Clean(indexes) =>
        /\ InOrder(StatementsIn(indexes))
        /\ \A s \in Range(StatementsIn(indexes)) :
             s.op = "create index" /\ s.on = u /\ TsIndex.name \notin NamesOf(U.indexes)
        /\ \/ "ts" \in ShapesOf(U.indexes)
           \/ \E s \in Range(StatementsIn(indexes)) : s.op = "create index"
  BY IndexFound
<1>10. << >> \in Seq(D) /\ key \in Seq(D)
  <2>1. << >> \in Seq(D)
    OBVIOUS
  <2> QED
    BY <1>2, <2>1
<1>11. /\ Reference[u].key = "ours"
       /\ key = << >> \/ key = <<Manual(u, "key")>>
       /\ key = << >> => U.key = "ours"
  BY DEF Reference
<1>12. Clean(q)
  OBVIOUS
<1> HIDE DEF columns, key, indexes, checks, D, q
<1>13. q = (columns \o key) \o indexes
  <2>1. (columns \o key) \o indexes \in Seq(D)
    BY <1>2, <1>10
  <2>2. ((columns \o key) \o indexes) \o << >> = (columns \o key) \o indexes
    BY <2>1
  <2>3. << >> \o columns = columns
    BY <1>2
  <2> QED
    BY <1>6, <1>7, <2>2, <2>3
<1>14. /\ columns \o key \in Seq(D)
       /\ Clean(columns \o key) <=> Clean(columns) /\ Clean(key)
  BY <1>2, <1>10, FindingsConcat DEF D
<1>15. Clean(q) <=> Clean(columns \o key) /\ Clean(indexes)
  BY <1>2, <1>13, <1>14, FindingsConcat DEF D
<1>16. Clean(columns) /\ Clean(key) /\ Clean(indexes)
  BY <1>12, <1>14, <1>15
<1>17. key = << >> /\ U.key = "ours"
  BY <1>4, <1>11, <1>16
<1>18. q = columns \o indexes
  <2>1. columns \o << >> = columns
    BY <1>2
  <2> QED
    BY <1>13, <1>17, <2>1
<1> DEFINE TC == Range(StatementsIn(columns))
           TI == Range(StatementsIn(indexes))
<1>19. T = TC \cup TI
  BY <1>2, <1>18, FindingsConcat DEF D
<1>20. /\ InOrder(StatementsIn(columns)) /\ \A s \in TC : ReadyColumn(d, TC, s)
       /\ \A c \in cs : /\ CoveredColumn(d, TC, u, c)
                        /\ c \notin DOMAIN U.cols => Reference[u].cols[c].default # "now"
  BY <1>8, <1>16 DEF Settles
<1>21. \A s \in TC : s.op \in ColumnOps /\ s.on = u /\ s.column \in cs
  BY <1>8 DEF AboutColumns
<1>22. /\ InOrder(StatementsIn(indexes))
       /\ \A s \in TI : s.op = "create index" /\ s.on = u /\ TsIndex.name \notin NamesOf(U.indexes)
       /\ "ts" \in ShapesOf(U.indexes) \/ \E s \in TI : s.op = "create index"
  BY <1>9, <1>16
<1>23. InOrder(StatementsIn(q))
  <2>1. \A x \in TC : \A y \in TI : ~Clash(x, y)
    BY <1>21, <1>22 DEF Clash, ColumnOps
  <2>2. InOrder(StatementsIn(columns \o indexes))
    BY <1>2, <1>20, <1>22, <2>1, FindingsConcat DEF D
  <2> QED
    BY <1>18, <2>2
<1>24. U.kind = "table"
  <2>1. U.kind # "table" => U.key = "none"
    BY <1>1 DEF Keyless
  <2> QED
    BY <1>17, <2>1
<1>25. "ts" \in DOMAIN U.cols
  <2>1. "ts" \in cs
    BY ReferenceIs DEF UsageNames
  <2>2. Reference[u].cols["ts"].default = "now"
    BY DEF Reference, Required
  <2> QED
    BY <1>20, <2>1, <2>2
<1> HIDE DEF T, TC, TI, cs
<1>26. /\ \A s \in TC : ReadyColumn(d, T, s)
       /\ \A c \in cs : CoveredColumn(d, T, u, c)
  <2>1. TC \subseteq T
    BY <1>19
  <2> QED
    BY <1>20, <2>1, ReadyGrows
<1>27. ok => ~d.taken
  BY DEF Unseen
<1>28. ASSUME NEW s \in T
       PROVE  /\ s.on = u /\ s.op \notin {"drop view", "create view"}
              /\ ReadyTable(d, ok, s) /\ ReadyColumn(d, T, s) /\ ReadyKey(d, T, ok, s)
              /\ ReadyObject(d, ok, s)
              /\ s.op \in ColumnOps \cup {"create index"}
  <2>1. ReadyTable(d, ok, s)
    BY <1>19, <1>21, <1>22, <1>24 DEF ReadyTable
  <2>2. CASE s \in TC
    <3>1. s.op \in ColumnOps /\ s.on = u
      BY <1>21, <2>2
    <3>2. ReadyKey(d, T, ok, s) /\ ReadyObject(d, ok, s)
      BY <3>1 DEF ReadyKey, ReadyObject, ColumnOps
    <3> QED
      BY <1>26, <2>1, <2>2, <3>1, <3>2 DEF ColumnOps
  <2>3. CASE s \in TI
    <3>1. s.op = "create index" /\ s.on = u /\ TsIndex.name \notin NamesOf(U.indexes)
      BY <1>22, <2>3
    <3>2. ReadyKey(d, T, ok, s) /\ ReadyColumn(d, T, s)
      BY <3>1 DEF ReadyKey, ReadyColumn
    <3>3. ReadyObject(d, ok, s)
      BY <1>25, <1>27, <3>1 DEF ReadyObject
    <3> QED
      BY <2>1, <3>1, <3>2, <3>3
  <2> QED
    BY <1>19, <2>2, <2>3
<1>29. CoveredTable(d, T, u)
  BY <1>5, <1>8, <1>16, <1>26 DEF CoveredTable, cs
<1>30. TableFits(d, u, ok, q)
  BY <1>23, <1>28, <1>29 DEF TableFits, T
<1>31. "ts" \in ShapesOf(U.indexes) \/ \E s \in T : s.op = "create index"
  BY <1>19, <1>22
<1> QED
  BY <1>17, <1>28, <1>30, <1>31 DEF T, q

\* More statements ask no more of the key either.
LEMMA KeyGrows ==
    ASSUME NEW e, NEW T, NEW T2, T \subseteq T2, NEW ok, NEW s, ReadyKey(e, T, ok, s)
    PROVE  ReadyKey(e, T2, ok, s)
  BY DEF ReadyKey

\* The rate card without effective_from.
ToRestructure(R) == "effective_from" \notin DOMAIN R.cols

\* Its restructure finds the rows and the columns it needs.
LEMMA CardFound ==
    ASSUME NEW d, IsDatabase(d), NEW b \in Given, NEW ok, ok => ~Unseen(d)
    PROVE  LET r == "model_pricing_rates" IN
           LET R == d[r] IN
           LET q == IF ToRestructure(R) THEN <<RateCard(R, b)>> ELSE << >> IN
           LET T == Range(StatementsIn(q)) IN
           Clean(q) =>
             /\ InOrder(StatementsIn(q))
             /\ \A s \in T : /\ s.on = r
                             /\ s.op \in {"add column", "drop default", "drop key", "add key"}
                             /\ s.op \in ColumnOps => s.column = "effective_from"
                             /\ ReadyColumn(d, T, s) /\ ReadyKey(d, T, ok, s)
             /\ IF ToRestructure(R)
                THEN /\ CoveredColumn(d, T, r, "effective_from")
                     /\ \E s \in T : s.op = "add key"
                     /\ "model" \in DOMAIN R.cols
                ELSE T = {}
<1> DEFINE r == "model_pricing_rates"
           R == d[r]
           card == RateCard(R, b)
           q == IF ToRestructure(R) THEN <<card>> ELSE << >>
           T == Range(StatementsIn(q))
           X == Planned(d)
           D == Discrepancies(X)
           add == St("add column", r, "effective_from", b)
           undefault == St("drop default", r, "effective_from", "none")
           drop == St("drop key", r, "", "none")
           key == St("add key", r, "", "none")
<1>1. CASE ~ToRestructure(R)
  <2>1. T = {} /\ InOrder(StatementsIn(q))
    <3>1. q = << >>
      BY <1>1
    <3> HIDE DEF q
    <3> QED
      BY <3>1, FindingsFew, RangeFew, OrderFew
  <2> HIDE DEF T
  <2> QED
    BY <1>1, <2>1 DEF T
<1>2. ASSUME ToRestructure(R), Clean(q)
      PROVE  /\ InOrder(StatementsIn(q))
             /\ \A s \in T : /\ s.on = r
                             /\ s.op \in {"add column", "drop default", "drop key", "add key"}
                             /\ s.op \in ColumnOps => s.column = "effective_from"
                             /\ ReadyColumn(d, T, s) /\ ReadyKey(d, T, ok, s)
             /\ CoveredColumn(d, T, r, "effective_from")
             /\ \E s \in T : s.op = "add key"
             /\ "model" \in DOMAIN R.cols
  <2>1. card \in D
    BY CardFinding DEF Given
  <2>2. StatementsIn(<<card>>) = card.statements /\ (Clean(<<card>>) <=> card.resolution # "manual")
    BY <2>1, FindingsFew
  <2>3. q = <<card>> /\ card.resolution # "manual"
    BY <1>2, <2>2
  <2>4. /\ card # Manual(r, "card")
        /\ "model" \in DOMAIN R.cols /\ ~R.twice /\ b # "none" /\ ~R.cols["model"].nulls
    <3>1. card # Manual(r, "card")
      BY <2>3 DEF Manual
    <3> QED
      BY <3>1 DEF RateCard
  <2> DEFINE dropped == IF R.key = "none" THEN << >> ELSE <<drop>>
             all == <<add, undefault>> \o dropped \o <<key>>
  <2>5. card = Automatic(r, "card", all)
    BY <2>4 DEF RateCard
  <2>6. card.statements = all
    <3> HIDE DEF all, card
    <3> QED
      BY <2>5 DEF Automatic
  <2>7. StatementsIn(q) = all
    BY <2>2, <2>3, <2>6
  <2>8. /\ add.op = "add column" /\ add.on = r /\ add.column = "effective_from" /\ add.default = b
        /\ undefault.op = "drop default" /\ undefault.on = r
        /\ undefault.column = "effective_from" /\ undefault.default = "none"
        /\ drop.op = "drop key" /\ drop.on = r /\ key.op = "add key" /\ key.on = r
    BY DEF St
  <2>9. b \in {"date", "always"}
    BY <2>4 DEF Given
  <2>10. add \in X /\ undefault \in X /\ drop \in X /\ key \in X
    BY <2>9, CardStatements
  <2>11. /\ Reference[r].cols["effective_from"].default = "none"
         /\ ~Reference[r].cols["effective_from"].nulls
    BY DEF Reference, Required
  <2> HIDE DEF add, undefault, drop, key, X
  <2>12. <<add, undefault>> \in Seq(X) /\ dropped \in Seq(X) /\ <<key>> \in Seq(X)
    BY <2>10, Single, Pair
  <2>13. /\ Range(<<add, undefault>>) = {add, undefault}
         /\ Range(dropped) = IF R.key = "none" THEN {} ELSE {drop}
         /\ Range(<<key>>) = {key}
         /\ InOrder(<<add, undefault>>) /\ InOrder(dropped) /\ InOrder(<<key>>)
    <3>1. ~Clash(add, undefault)
      BY <2>8 DEF Clash
    <3>2. InOrder(<<add, undefault>>) /\ Range(<<add, undefault>>) = {add, undefault}
      BY <3>1, OrderFew, RangeFew
    <3>3. InOrder(<<key>>) /\ Range(<<key>>) = {key} /\ InOrder(<<drop>>) /\ Range(<<drop>>) = {drop}
      BY OrderFew, RangeFew
    <3> QED
      BY <3>2, <3>3, OrderFew, RangeFew
  <2> DEFINE first == <<add, undefault>>
             last == <<key>>
  <2>14. first \in Seq(X) /\ last \in Seq(X) /\ all = (first \o dropped) \o last
    BY <2>12
  <2>15. /\ Range(first) = {add, undefault} /\ Range(last) = {key}
         /\ InOrder(first) /\ InOrder(last)
    BY <2>13
  <2> HIDE DEF first, last, dropped, all
  <2>16. /\ first \o dropped \in Seq(X) /\ Range(first \o dropped) = Range(first) \cup Range(dropped)
    BY <2>12, <2>14, RangeConcat
  <2>17. Range(all) = (Range(first) \cup Range(dropped)) \cup Range(last)
    <3> DEFINE most == first \o dropped
    <3>1. Range(most \o last) = Range(most) \cup Range(last)
      <4>1. most \in Seq(X)
        BY <2>16
      <4> HIDE DEF most
      <4> QED
        BY <2>14, <4>1, RangeConcat
    <3> QED
      BY <2>14, <2>16, <3>1
  <2>18. InOrder(first \o dropped)
    <3>1. \A x \in Range(first) : \A y \in Range(dropped) : ~Clash(x, y)
      BY <2>8, <2>13, <2>15 DEF Clash, ColumnOps
    <3> QED
      BY <2>12, <2>13, <2>14, <2>15, <3>1, OrderConcat
  <2>19. InOrder(all)
    <3>1. \A x \in Range(first \o dropped) : \A y \in Range(last) : ~Clash(x, y)
      BY <2>8, <2>13, <2>15, <2>16 DEF Clash, ColumnOps
    <3> QED
      BY <2>14, <2>15, <2>16, <2>18, <3>1, OrderConcat
  <2>20. /\ {add, undefault, key} \subseteq T /\ T \subseteq {add, undefault, drop, key}
         /\ R.key # "none" <=> drop \in T
    <3>1. drop # add /\ drop # undefault /\ drop # key
      BY <2>8
    <3> QED
      BY <2>7, <2>13, <2>15, <2>17, <3>1
  <2> HIDE DEF T
  <2>21. ReadyColumn(d, T, add) /\ ReadyKey(d, T, ok, add)
    BY <1>2, <2>8 DEF ReadyColumn, ReadyKey, ToRestructure
  <2>22. ReadyColumn(d, T, undefault) /\ ReadyKey(d, T, ok, undefault)
    <3>1. Adds(T, r, "effective_from")
      BY <2>8, <2>20 DEF Adds
    <3> QED
      BY <2>8, <2>11, <3>1 DEF ReadyColumn, ReadyKey
  <2>23. drop \in T => ReadyColumn(d, T, drop) /\ ReadyKey(d, T, ok, drop)
    <3>1. ok => ~R.referenced
      BY <1>2 DEF Unseen, ToRestructure
    <3> QED
      BY <2>8, <2>20, <3>1 DEF ReadyColumn, ReadyKey
  <2>24. ReadyColumn(d, T, key) /\ ReadyKey(d, T, ok, key)
    <3>1. R.key = "none" \/ \E p \in T : p.op = "drop key"
      BY <2>8, <2>20
    <3>2. ASSUME NEW k \in KeyOf("ours")
          PROVE  \/ k \in DOMAIN R.cols /\ ~R.cols[k].nulls
                 \/ \E p \in T : /\ p.op = "add column" /\ p.on = r
                                 /\ p.column = k /\ p.default # "none"
      <4>1. k \in {"model", "effective_from"}
        BY DEF KeyOf
      <4> QED
        BY <2>4, <2>8, <2>20, <4>1
    <3>3. ReadyKey(d, T, ok, key)
      BY <2>4, <2>8, <3>1, <3>2 DEF ReadyKey
    <3> QED
      BY <2>8, <3>3 DEF ReadyColumn
  <2>25. CoveredColumn(d, T, r, "effective_from")
    <3>1. Defaulted(T, r, "effective_from")
      BY <2>8, <2>20 DEF Defaulted
    <3> QED
      BY <1>2, <2>8, <2>20, <3>1 DEF CoveredColumn, ToRestructure
  <2>26. \A s \in T : /\ s.on = r
                      /\ s.op \in {"add column", "drop default", "drop key", "add key"}
                      /\ s.op \in ColumnOps => s.column = "effective_from"
    BY <2>8, <2>20 DEF ColumnOps
  <2>27. \A s \in T : ReadyColumn(d, T, s) /\ ReadyKey(d, T, ok, s)
    BY <2>20, <2>21, <2>22, <2>23, <2>24
  <2>28. \E s \in T : s.op = "add key"
    BY <2>8, <2>20
  <2> QED
    BY <2>4, <2>7, <2>19, <2>25, <2>26, <2>27, <2>28
<1> HIDE DEF T, q
<1>3. ASSUME ToRestructure(R)
      PROVE  Clean(q) =>
             /\ InOrder(StatementsIn(q))
             /\ \A s \in T : /\ s.on = r
                             /\ s.op \in {"add column", "drop default", "drop key", "add key"}
                             /\ s.op \in ColumnOps => s.column = "effective_from"
                             /\ ReadyColumn(d, T, s) /\ ReadyKey(d, T, ok, s)
             /\ IF ToRestructure(R)
                THEN /\ CoveredColumn(d, T, r, "effective_from")
                     /\ \E s \in T : s.op = "add key"
                     /\ "model" \in DOMAIN R.cols
                ELSE T = {}
  BY <1>2, <1>3
<1> QED
  BY <1>1, <1>3 DEF T, q

\* The rate card, restructured or not.
LEMMA CardFits ==
    ASSUME NEW d, IsDatabase(d), Keyless(d), NEW b \in Given, NEW ok, ok => ~Unseen(d),
           Clean(CompareTable(d, "model_pricing_rates", b))
    PROVE  LET r == "model_pricing_rates" IN
           LET R == d[r] IN
           LET q == CompareTable(d, r, b) IN
           LET T == Range(StatementsIn(q)) IN
           /\ TableFits(d, r, ok, q)
           /\ \/ R.key = "ours" /\ \A s \in T : s.op # "drop key"
              \/ \E s \in T : s.op = "add key"
           /\ "costs" \in ShapesOf(R.checks) \/ \E s \in T : s.op = "add check"
<1> DEFINE r == "model_pricing_rates"
           R == d[r]
           q == CompareTable(d, r, b)
           T == Range(StatementsIn(q))
           X == Planned(d)
           D == Discrepancies(X)
           restructured == ToRestructure(R)
           one == IF restructured THEN <<RateCard(R, b)>> ELSE << >>
           skip == IF restructured THEN {"effective_from"} ELSE {}
           columns == CompareColumns(d, r, skip)
           key == IF restructured \/ R.key = Reference[r].key THEN << >>
                  ELSE <<Manual(r, "key")>>
           indexes == CompareIndexes(r, Reference[r].indexes, R.indexes)
           checks == CompareConstraints(r, Reference[r].checks, R)
           cs == DOMAIN Reference[r].cols \ (skip \cup {"id"})
<1>1. r \in Tables
  BY DEF Tables
<1>2. /\ columns \in Seq(D) /\ checks \in Seq(D)
      /\ <<Manual(r, "absent")>> \in Seq(D) /\ <<Manual(r, "key")>> \in Seq(D)
  <2>1. /\ columns \in Seq(Discrepancies(LeavesKey(d))) /\ checks \in Seq(Discrepancies(LeavesKey(d)))
        /\ <<Manual(r, "absent")>> \in Seq(Discrepancies(LeavesKey(d)))
        /\ <<Manual(r, "key")>> \in Seq(Discrepancies(LeavesKey(d)))
    BY <1>1, ColumnsFindings, OtherFindings
  <2> HIDE DEF columns, checks
  <2> QED
    BY <2>1, FindingsGrow
<1>3. /\ Manual(r, "absent") \in D /\ Manual(r, "absent").resolution = "manual"
      /\ Manual(r, "key") \in D /\ Manual(r, "key").resolution = "manual"
  BY DEF Manual, Discrepancies, Relations, Tables, Whats
<1>4. ~Clean(<<Manual(r, "absent")>>) /\ ~Clean(<<Manual(r, "key")>>)
  BY <1>3, FindingsFew
<1>5. R.kind # "absent"
  <2>1. R.kind = "absent" => q = <<Manual(r, "absent")>>
    BY DEF CompareTable
  <2> QED
    BY <1>4, <2>1
<1>6. indexes = << >>
  <2>1. Reference[r].indexes = {}
    BY DEF Reference
  <2>2. ShapesOf({}) = {}
    BY DEF ShapesOf
  <2> QED
    BY <2>1, <2>2 DEF CompareIndexes
<1>7. q = (((one \o columns) \o key) \o indexes) \o checks
  BY <1>5 DEF CompareTable, ToRestructure
<1>8. AboutColumns(r, cs, columns) /\ Settles(d, r, cs, columns)
  BY <1>1, ColumnsSettled
<1>9. Clean(checks) =>
        /\ InOrder(StatementsIn(checks))
        /\ \A s \in Range(StatementsIn(checks)) :
             /\ s.op = "add check" /\ s.on = r
             /\ "cache_cost" \in DOMAIN R.cols /\ ~R.bad
             /\ CostsCheck.name \notin NamesOf(R.checks)
        /\ \/ "costs" \in ShapesOf(R.checks)
           \/ \E s \in Range(StatementsIn(checks)) : s.op = "add check"
  BY CheckFound
<1>10. Clean(one) =>
        LET A == Range(StatementsIn(one)) IN
             /\ InOrder(StatementsIn(one))
             /\ \A s \in A : /\ s.on = r
                             /\ s.op \in {"add column", "drop default", "drop key", "add key"}
                             /\ s.op \in ColumnOps => s.column = "effective_from"
                             /\ ReadyColumn(d, A, s) /\ ReadyKey(d, A, ok, s)
             /\ IF restructured
                THEN /\ CoveredColumn(d, A, r, "effective_from")
                     /\ \E s \in A : s.op = "add key"
                     /\ "model" \in DOMAIN R.cols
                ELSE A = {}
  BY CardFound
<1>11. one \in Seq(D) /\ << >> \in Seq(D) /\ key \in Seq(D)
  <2> DEFINE card == RateCard(R, b)
  <2>1. card \in D
    BY CardFinding DEF Given
  <2> HIDE DEF card, D
  <2>2. <<card>> \in Seq(D)
    BY <2>1, Single
  <2>3. << >> \in Seq(D)
    OBVIOUS
  <2> QED
    BY <1>2, <2>2, <2>3 DEF card
<1>12. /\ Reference[r].key = "ours"
       /\ key = << >> \/ key = <<Manual(r, "key")>>
       /\ key = << >> => restructured \/ R.key = "ours"
  BY DEF Reference
<1>13. Clean(q)
  OBVIOUS
<1>14. /\ cs = IF restructured THEN DOMAIN Reference[r].cols \ {"effective_from", "id"}
               ELSE DOMAIN Reference[r].cols \ {"id"}
       /\ restructured => "effective_from" \notin DOMAIN R.cols /\ "effective_from" \notin cs
       /\ ~restructured => "effective_from" \in DOMAIN R.cols
  BY DEF ToRestructure
<1> HIDE DEF one, columns, key, indexes, checks, D, q, restructured
<1>15. q = ((one \o columns) \o key) \o checks
  <2>1. (one \o columns) \o key \in Seq(D)
    BY <1>2, <1>11
  <2>2. ((one \o columns) \o key) \o << >> = (one \o columns) \o key
    BY <2>1
  <2> QED
    BY <1>6, <1>7, <2>2
<1>16. /\ one \o columns \in Seq(D)
       /\ Clean(one \o columns) <=> Clean(one) /\ Clean(columns)
  BY <1>2, <1>11, FindingsConcat DEF D
<1>17. /\ (one \o columns) \o key \in Seq(D)
       /\ Clean((one \o columns) \o key) <=> Clean(one \o columns) /\ Clean(key)
  BY <1>11, <1>16, FindingsConcat DEF D
<1>18. Clean(q) <=> Clean((one \o columns) \o key) /\ Clean(checks)
  BY <1>2, <1>15, <1>17, FindingsConcat DEF D
<1>19. Clean(one) /\ Clean(columns) /\ Clean(key) /\ Clean(checks)
  BY <1>13, <1>16, <1>17, <1>18
<1>20. key = << >> /\ (restructured \/ R.key = "ours")
  BY <1>4, <1>12, <1>19
<1>21. q = (one \o columns) \o checks
  <2>1. (one \o columns) \o << >> = one \o columns
    BY <1>16
  <2> QED
    BY <1>15, <1>20, <2>1
<1> DEFINE TA == Range(StatementsIn(one))
           TC == Range(StatementsIn(columns))
           TK == Range(StatementsIn(checks))
<1>22. Range(StatementsIn(one \o columns)) = TA \cup TC
  BY <1>2, <1>11, FindingsConcat DEF D
<1>23. T = (TA \cup TC) \cup TK
  <2> DEFINE most == one \o columns
  <2>1. Range(StatementsIn(most \o checks)) = Range(StatementsIn(most)) \cup Range(StatementsIn(checks))
    <3>1. most \in Seq(D)
      BY <1>16
    <3> HIDE DEF most
    <3> QED
      BY <1>2, <3>1, FindingsConcat DEF D
  <2> QED
    BY <1>21, <1>22, <2>1
<1>24. /\ InOrder(StatementsIn(columns)) /\ \A s \in TC : ReadyColumn(d, TC, s)
       /\ \A c \in cs : CoveredColumn(d, TC, r, c)
  BY <1>8, <1>19 DEF Settles
<1>25. \A s \in TC : s.op \in ColumnOps /\ s.on = r /\ s.column \in cs
  BY <1>8 DEF AboutColumns
<1>26. /\ InOrder(StatementsIn(checks))
       /\ \A s \in TK : /\ s.op = "add check" /\ s.on = r
                        /\ "cache_cost" \in DOMAIN R.cols /\ ~R.bad
                        /\ CostsCheck.name \notin NamesOf(R.checks)
       /\ "costs" \in ShapesOf(R.checks) \/ \E s \in TK : s.op = "add check"
  BY <1>9, <1>19
<1>27. /\ InOrder(StatementsIn(one))
       /\ \A s \in TA : /\ s.on = r
                        /\ s.op \in {"add column", "drop default", "drop key", "add key"}
                        /\ s.op \in ColumnOps => s.column = "effective_from"
                        /\ ReadyColumn(d, TA, s) /\ ReadyKey(d, TA, ok, s)
       /\ restructured => /\ CoveredColumn(d, TA, r, "effective_from")
                          /\ \E s \in TA : s.op = "add key"
                          /\ "model" \in DOMAIN R.cols
       /\ ~restructured => TA = {}
  BY <1>10, <1>19
<1> HIDE DEF T, TA, TC, TK, cs
<1>28. InOrder(StatementsIn(q))
  <2>1. ASSUME NEW x \in TA, NEW y \in TC
        PROVE  ~Clash(x, y)
    <3>1. restructured /\ "model" \in DOMAIN R.cols /\ y.column # "effective_from"
      BY <1>14, <1>25, <1>27
    <3>2. y.op = "add column" => y.column # "model"
      BY <1>24, <1>25, <3>1 DEF ReadyColumn
    <3>3. y.op \in ColumnOps /\ y.on = r
      BY <1>25
    <3>4. /\ x.op \in {"add column", "drop default", "drop key", "add key"}
          /\ x.op \in ColumnOps => x.column = "effective_from"
      BY <1>27
    <3>5. y.op = "add column" => y.column \notin KeyOf("ours")
      BY <3>1, <3>2 DEF KeyOf
    <3> QED
      BY <3>1, <3>3, <3>4, <3>5 DEF Clash, ColumnOps
  <2>2. InOrder(StatementsIn(one \o columns))
    BY <1>2, <1>11, <1>24, <1>27, <2>1, FindingsConcat DEF D, TA, TC
  <2>3. \A x \in TA \cup TC : \A y \in TK : ~Clash(x, y)
    BY <1>25, <1>26, <1>27 DEF Clash, ColumnOps
  <2>4. InOrder(StatementsIn((one \o columns) \o checks))
    BY <1>2, <1>16, <1>22, <1>26, <2>2, <2>3, FindingsConcat DEF D, TK
  <2> QED
    BY <1>21, <2>4
<1>29. ok => R.kind = "table"
  <2>1. R.kind \in {"table", "view"}
    BY <1>1, <1>5, TablesHaveColumns DEF Kinds
  <2>2. R.kind # "table" => R.key = "none"
    BY <1>1 DEF Keyless
  <2> QED
    BY <1>14, <1>20, <2>1, <2>2 DEF Unseen
<1>30. /\ \A s \in TC : ReadyColumn(d, T, s)
       /\ \A c \in cs : CoveredColumn(d, T, r, c)
  <2>1. TC \subseteq T
    BY <1>23
  <2> QED
    BY <1>24, <2>1, ReadyGrows
<1>31. /\ \A s \in TA : ReadyColumn(d, T, s) /\ ReadyKey(d, T, ok, s)
       /\ restructured => CoveredColumn(d, T, r, "effective_from")
  <2>1. TA \subseteq T
    BY <1>23
  <2>2. \A s \in TA : ReadyKey(d, T, ok, s)
    BY <1>27, <2>1, KeyGrows
  <2> QED
    BY <1>27, <2>1, <2>2, ReadyGrows
<1>32. ASSUME NEW s \in T
       PROVE  /\ s.on = r /\ s.op \notin {"drop view", "create view"}
              /\ ReadyTable(d, ok, s) /\ ReadyColumn(d, T, s) /\ ReadyKey(d, T, ok, s)
              /\ ReadyObject(d, ok, s)
  <2>1. ReadyTable(d, ok, s)
    BY <1>23, <1>25, <1>26, <1>27, <1>29 DEF ReadyTable
  <2>2. CASE s \in TC
    <3>1. s.op \in ColumnOps /\ s.on = r
      BY <1>25, <2>2
    <3>2. ReadyKey(d, T, ok, s) /\ ReadyObject(d, ok, s)
      BY <3>1 DEF ReadyKey, ReadyObject, ColumnOps
    <3> QED
      BY <1>30, <2>1, <2>2, <3>1, <3>2 DEF ColumnOps
  <2>3. CASE s \in TK
    <3>1. /\ s.op = "add check" /\ s.on = r
          /\ "cache_cost" \in DOMAIN R.cols /\ ~R.bad /\ CostsCheck.name \notin NamesOf(R.checks)
      BY <1>26, <2>3
    <3>2. ReadyKey(d, T, ok, s) /\ ReadyColumn(d, T, s)
      BY <3>1 DEF ReadyKey, ReadyColumn
    <3>3. ReadyObject(d, ok, s)
      BY <3>1 DEF ReadyObject
    <3> QED
      BY <2>1, <3>1, <3>2, <3>3
  <2>4. CASE s \in TA
    <3>1. s.on = r /\ s.op \in {"add column", "drop default", "drop key", "add key"}
      BY <1>27, <2>4
    <3>2. ReadyObject(d, ok, s)
      BY <3>1 DEF ReadyObject
    <3> QED
      BY <1>31, <2>1, <2>4, <3>1, <3>2
  <2> QED
    BY <1>23, <2>2, <2>3, <2>4
<1>33. CoveredTable(d, T, r)
  <2>1. \A c \in DOMAIN Reference[r].cols \ {"id"} : CoveredColumn(d, T, r, c)
    BY <1>14, <1>30, <1>31
  <2> QED
    BY <1>5, <2>1 DEF CoveredTable
<1>34. TableFits(d, r, ok, q)
  BY <1>28, <1>32, <1>33 DEF TableFits, T
<1>35. "costs" \in ShapesOf(R.checks) \/ \E s \in T : s.op = "add check"
  BY <1>23, <1>26
<1>36. \/ R.key = "ours" /\ \A s \in T : s.op # "drop key"
       \/ \E s \in T : s.op = "add key"
  <2>1. CASE restructured
    BY <1>23, <1>27, <2>1
  <2>2. CASE ~restructured
    BY <1>20, <1>23, <1>25, <1>26, <1>27, <2>2 DEF ColumnOps
  <2> QED
    BY <2>1, <2>2
<1> QED
  BY <1>34, <1>35, <1>36 DEF T, q

\* A plan without a manual discrepancy can be executed, as far as the comparison looks,
\* and leaves nothing to be reconciled.
LEMMA PlanReady ==
    ASSUME NEW d, IsDatabase(d), Keyless(d), NEW b \in Given, ~HasManual(PlanOf(d, b)),
           NEW ok, ok => ~Unseen(d)
    PROVE  LET q == StatementsOf(PlanOf(d, b)) IN
           /\ InOrder(q)
           /\ \A s \in Range(q) : Ready(d, Range(q), ok, s)
           /\ Covered(d, Range(q))
<1> DEFINE u == "gateway_usage"
           r == "model_pricing_rates"
           v == "gateway_usage_daily"
           U == CompareTable(d, u, b)
           C == CompareTable(d, r, b)
           V == CompareView(d[v])
           D == Discrepancies(Planned(d))
           p == PlanOf(d, b).discrepancies
           q == StatementsOf(PlanOf(d, b))
           T == Range(q)
           TU == Range(StatementsIn(U))
           TC == Range(StatementsIn(C))
           TV == Range(StatementsIn(V))
<1>1. p = (U \o C) \o V /\ U \in Seq(D) /\ C \in Seq(D) /\ V \in Seq(D)
  BY PlanParts DEF Given
<1>2. Clean(p) /\ q = StatementsIn(p)
  BY DEF HasManual, Clean, Range, StatementsOf, StatementsIn
<1> HIDE DEF p, q
<1> DEFINE UC == U \o C
<1>3. /\ UC \in Seq(D) /\ (Clean(UC) <=> Clean(U) /\ Clean(C))
      /\ Range(StatementsIn(UC)) = TU \cup TC
  <2> HIDE DEF U, C, V
  <2> QED
    BY <1>1, FindingsConcat DEF D
<1>4. /\ p = UC \o V
      /\ Clean(UC \o V) <=> Clean(UC) /\ Clean(V)
      /\ Range(StatementsIn(UC \o V)) = Range(StatementsIn(UC)) \cup TV
  <2>1. p = UC \o V
    BY <1>1
  <2> HIDE DEF V, UC
  <2>2. Clean(UC \o V) <=> Clean(UC) /\ Clean(V)
    BY <1>1, <1>3, FindingsConcat
  <2>3. Range(StatementsIn(UC \o V)) = Range(StatementsIn(UC)) \cup TV
    BY <1>1, <1>3, FindingsConcat
  <2> QED
    BY <2>1, <2>2, <2>3
<1>5. Clean(U) /\ Clean(C) /\ Clean(V) /\ T = (TU \cup TC) \cup TV
  <2> HIDE DEF U, C, V, UC, TU, TC, TV
  <2> QED
    BY <1>2, <1>3, <1>4
<1>6. /\ TableFits(d, u, ok, U)
      /\ d[u].key = "ours"
      /\ "ts" \in ShapesOf(d[u].indexes) \/ \E s \in TU : s.op = "create index"
      /\ \A s \in TU : s.op \in ColumnOps \cup {"create index"}
  BY <1>5, UsageFits
<1>7. /\ TableFits(d, r, ok, C)
      /\ \/ d[r].key = "ours" /\ \A s \in TC : s.op # "drop key"
         \/ \E s \in TC : s.op = "add key"
      /\ "costs" \in ShapesOf(d[r].checks) \/ \E s \in TC : s.op = "add check"
  BY <1>5, CardFits
<1>8. /\ InOrder(StatementsIn(V))
      /\ \A s \in TV : s.op \in {"drop view", "create view"} /\ s.on = v
      /\ \A s \in TV : s.op = "drop view" => d[v].kind = "view" /\ ~d[v].dependents
      /\ \A s \in TV : s.op = "create view" => d[v].kind = "absent" \/ \E x \in TV : x.op = "drop view"
      /\ CoveredView(d, TV)
  BY <1>5, ViewFound
<1> HIDE DEF U, C, V, UC, D
<1>9. /\ InOrder(StatementsIn(U)) /\ CoveredTable(d, TU, u)
      /\ \A s \in TU :
           /\ s.on = u /\ s.op \notin {"drop view", "create view"}
           /\ ReadyTable(d, ok, s) /\ ReadyColumn(d, TU, s) /\ ReadyKey(d, TU, ok, s)
           /\ ReadyObject(d, ok, s)
  BY <1>6 DEF TableFits
<1>10. /\ InOrder(StatementsIn(C)) /\ CoveredTable(d, TC, r)
       /\ \A s \in TC :
            /\ s.on = r /\ s.op \notin {"drop view", "create view"}
            /\ ReadyTable(d, ok, s) /\ ReadyColumn(d, TC, s) /\ ReadyKey(d, TC, ok, s)
            /\ ReadyObject(d, ok, s)
  BY <1>7 DEF TableFits
<1>11. InOrder(q)
  <2>1. \A x \in TU : \A y \in TC : ~Clash(x, y)
    BY <1>6, <1>9, <1>10 DEF Clash, ColumnOps
  <2>2. InOrder(StatementsIn(UC))
    BY <1>1, <1>9, <1>10, <2>1, FindingsConcat DEF D, UC
  <2>3. \A x \in TU \cup TC : \A y \in TV : ~Clash(x, y)
    BY <1>8, <1>9, <1>10 DEF Clash, ColumnOps
  <2>4. InOrder(StatementsIn(UC \o V))
    BY <1>1, <1>3, <1>8, <2>2, <2>3, FindingsConcat DEF D
  <2> QED
    BY <1>2, <1>4, <2>4
<1>12. TU \subseteq T /\ TC \subseteq T /\ TV \subseteq T
  BY <1>5
<1> HIDE DEF T, TU, TC, TV
<1>13. CoveredTable(d, T, u) /\ CoveredTable(d, T, r)
  <2>1. ASSUME NEW t \in Tables, NEW S, S \subseteq T, CoveredTable(d, S, t)
        PROVE  CoveredTable(d, T, t)
    BY <2>1, ReadyGrows DEF CoveredTable
  <2> QED
    BY <1>9, <1>10, <1>12, <2>1 DEF Tables
<1>14. ASSUME NEW t \in Tables, NEW k \in Reads[t]
       PROVE  \/ k \in DOMAIN d[t].cols /\ d[t].cols[k].type = "ours"
              \/ Adds(T, t, k)
  <2>1. k \in DOMAIN Reference[t].cols \ {"id"}
    BY ReferenceIs DEF Reads, Tables, UsageNames, CardNames
  <2>2. CoveredColumn(d, T, t, k)
    BY <1>13, <2>1 DEF CoveredTable, Tables
  <2>3. Reference[t].cols[k].type = "ours"
    BY <2>1, ReferenceColumn
  <2>4. CASE k \in DOMAIN d[t].cols
    BY <2>2, <2>3, <2>4 DEF CoveredColumn
  <2>5. CASE k \notin DOMAIN d[t].cols
    BY <2>2, <2>5 DEF CoveredColumn, Adds
  <2> QED
    BY <2>4, <2>5
<1>15. ASSUME NEW s \in T PROVE Ready(d, T, ok, s)
  <2>1. CASE s \in TU
    <3>1. ReadyKey(d, T, ok, s) /\ ReadyColumn(d, T, s)
      BY <1>9, <1>12, <2>1, KeyGrows, ReadyGrows
    <3>2. ReadyView(d, T, s)
      BY <1>9, <2>1 DEF ReadyView
    <3> QED
      BY <1>9, <2>1, <3>1, <3>2 DEF Ready
  <2>2. CASE s \in TC
    <3>1. ReadyKey(d, T, ok, s) /\ ReadyColumn(d, T, s)
      BY <1>10, <1>12, <2>2, KeyGrows, ReadyGrows
    <3>2. ReadyView(d, T, s)
      BY <1>10, <2>2 DEF ReadyView
    <3> QED
      BY <1>10, <2>2, <3>1, <3>2 DEF Ready
  <2>3. CASE s \in TV
    <3>1. s.op \in {"drop view", "create view"} /\ s.on = v
      BY <1>8, <2>3
    <3>2. ReadyTable(d, ok, s) /\ ReadyColumn(d, T, s) /\ ReadyKey(d, T, ok, s) /\ ReadyObject(d, ok, s)
      BY <3>1 DEF ReadyTable, ReadyColumn, ReadyKey, ReadyObject, Tables
    <3>3. ReadyView(d, T, s)
      BY <1>8, <1>12, <1>14, <2>3 DEF ReadyView
    <3> QED
      BY <3>2, <3>3 DEF Ready
  <2> QED
    BY <1>5, <2>1, <2>2, <2>3
<1>16. Covered(d, T)
  <2>1. CoveredKeys(d, T)
    <3>1. \A s \in TU \cup TV : s.op # "drop key"
      BY <1>6, <1>8 DEF ColumnOps
    <3> QED
      BY <1>5, <1>6, <1>7, <3>1 DEF CoveredKeys
  <2>2. CoveredObjects(d, T)
    BY <1>5, <1>6, <1>7 DEF CoveredObjects
  <2>3. CoveredView(d, T)
    <3>1. \A s \in TU \cup TC : s.op # "drop view"
      BY <1>9, <1>10
    <3> QED
      BY <1>5, <1>8, <3>1 DEF CoveredView
  <2> QED
    BY <1>13, <2>1, <2>2, <2>3 DEF Covered, Tables
<1> QED
  BY <1>11, <1>15, <1>16 DEF T, q

-----------------------------------------------------------------------------
(* The promises a plan makes *)

\* Whatever another tool makes of a table, what is not a table has no key.
LEMMA EditedKeyless ==
    ASSUME NEW d, IsDatabase(d), NEW t \in Tables, NEW S \in EditsOf(d, t)
    PROVE  S.kind # "table" => S.key = "none"
<1> DEFINE R == d[t]
<1>1. IsTable(t, R)
  BY DEF IsDatabase, IsTable, Tables
<1>2. R = [x \in Fields(t) |-> R[x]] /\ DOMAIN R = Fields(t)
  BY <1>1, TableIs
<1>3. {"kind", "key", "indexes", "checks", "cols"} \subseteq Fields(t)
  BY DEF Fields
<1>4. t # "gateway_usage_daily"
  BY DEF Tables
<1>5. CASE R.kind # "table"
  <2>1. S = Reference[t]
    BY <1>4, <1>5 DEF EditsOf
  <2>2. Reference["gateway_usage"].kind = "table" /\ Reference["model_pricing_rates"].kind = "table"
    BY DEF Reference
  <2> QED
    BY <2>1, <2>2 DEF Tables
<1> DEFINE P1 == {Absent(R), AsView(R), [R EXCEPT !.key = "none"]}
<1>6. CASE R.kind = "table"
  <2>1. S \in P1 \cup ColumnEdits(t, R)
              \cup (IF t = "gateway_usage" THEN UsageEdits(R) ELSE CardEdits(R))
    BY <1>4, <1>6 DEF EditsOf
  <2> HIDE DEF R
  <2>2. CASE S \in P1
    <3>1. Absent(R).key = "none" /\ AsView(R).key = "none"
      BY <1>2, <1>3 DEF Absent, AsView
    <3>2. [R EXCEPT !.key = "none"].key = "none"
      BY <1>2, <1>3
    <3> QED
      BY <2>2, <3>1, <3>2
  <2> HIDE DEF P1
  <2>3. CASE S \in ColumnEdits(t, R)
    <3>1. \A c : DropColumn(R, c).kind = R.kind
      BY <1>2, <1>3 DEF DropColumn
    <3>2. \A C : [R EXCEPT !.cols = C].kind = R.kind
      BY <1>2, <1>3
    <3>3. \/ \E c \in ColumnsOf(t) : S = DropColumn(R, c)
          \/ \E c \in ColumnsOf(t) : \E F \in Shapes(c) : S = [R EXCEPT !.cols = With(@, c, F)]
      BY <2>3 DEF ColumnEdits
    <3>4. CASE \E c \in ColumnsOf(t) : S = DropColumn(R, c)
      BY <1>6, <3>1, <3>4
    <3>5. CASE \E c \in ColumnsOf(t) : \E F \in Shapes(c) : S = [R EXCEPT !.cols = With(@, c, F)]
      <4>1. PICK C : S = [R EXCEPT !.cols = C]
        BY <3>5
      <4> QED
        BY <1>6, <3>2, <4>1
    <3> QED
      BY <3>3, <3>4, <3>5
  <2>4. CASE t = "gateway_usage" /\ S \in UsageEdits(R)
    <3>1. S.kind = R.kind
      BY <1>2, <1>3, <2>4 DEF UsageEdits
    <3> QED
      BY <1>6, <3>1
  <2>5. CASE t # "gateway_usage" /\ S \in CardEdits(R)
    <3>1. S.kind = R.kind
      BY <1>2, <1>3, <2>5 DEF CardEdits
    <3> QED
      BY <1>6, <3>1
  <2> QED
    BY <2>1, <2>2, <2>3, <2>4, <2>5
<1> QED
  BY <1>5, <1>6

\* So it is with the whole database, committed and as the transaction sees it.
LEMMA EditKeyless ==
    ASSUME Types, Edit, Keyless(db), Keyless(Seen)
    PROVE  Keyless(db') /\ Keyless(Seen')
<1>1. IsDatabase(db) /\ DOMAIN work \subseteq Relations
  BY DEF Types
<1>2. work' = work
  BY DEF Edit, apply
<1>3. /\ Tables \subseteq Relations /\ Relations \subseteq DOMAIN db
      /\ "taken" \notin Relations /\ DOMAIN Seen = DOMAIN db
      /\ \A x \in DOMAIN db : Seen[x] = IF x \in DOMAIN work THEN work[x] ELSE db[x]
  BY SeenIs
<1>4. \/ \E r \in Relations : \E e \in EditsOf(db, r) : db' = [db EXCEPT ![r] = e]
      \/ \E x : db' = [db EXCEPT !.taken = x]
  BY DEF Edit
<1>5. /\ DOMAIN db' = DOMAIN db
      /\ \A t \in Tables : db'[t] = db[t] \/ db'[t] \in EditsOf(db, t)
  <2>1. ASSUME NEW r \in Relations, NEW e \in EditsOf(db, r), db' = [db EXCEPT ![r] = e]
        PROVE  /\ DOMAIN db' = DOMAIN db
               /\ \A t \in Tables : db'[t] = db[t] \/ db'[t] \in EditsOf(db, t)
    BY <1>3, <2>1
  <2>2. ASSUME NEW x, db' = [db EXCEPT !.taken = x]
        PROVE  DOMAIN db' = DOMAIN db /\ \A t \in Tables : db'[t] = db[t]
    BY <1>3, <2>2
  <2> QED
    BY <1>4, <2>1, <2>2
<1>6. Keyless(db')
  <2>1. ASSUME NEW t \in Tables PROVE db'[t].kind # "table" => db'[t].key = "none"
    <3>1. CASE db'[t] = db[t]
      BY <3>1 DEF Keyless
    <3>2. CASE db'[t] \in EditsOf(db, t)
      BY <1>1, <3>2, EditedKeyless
    <3> QED
      BY <1>5, <3>1, <3>2
  <2> QED
    BY <2>1 DEF Keyless
<1>7. \A t \in Tables : Seen'[t] = Seen[t] \/ Seen'[t] = db'[t]
  <2>1. Seen' = [x \in DOMAIN db' |-> IF x \in DOMAIN work THEN work[x] ELSE db'[x]]
    BY <1>2 DEF Seen
  <2> QED
    BY <1>3, <1>5, <2>1
<1>8. Keyless(Seen')
  BY <1>6, <1>7 DEF Keyless
<1> QED
  BY <1>6, <1>8

\* A statement gives a key only to a table.
LEMMA StatementKeyless ==
    ASSUME NEW d, IsDatabase(d), Keyless(d), NEW s \in Harmless, Runs(d, s)
    PROVE  Keyless(Effect(d, s))
<1> DEFINE e == Effect(d, s)
           u == "gateway_usage"
           r == "model_pricing_rates"
<1>1. /\ e[u].kind = d[u].kind /\ e[r].kind = d[r].kind /\ e[u].key = d[u].key
      /\ e[r].key = IF s.op = "drop key" THEN "none" ELSE IF s.op = "add key" THEN "ours" ELSE d[r].key
  BY StatementDoes DEF Does, DoesTables
<1>2. s.op = "add key" => d[r].kind = "table"
  <2>1. s.op = "add key" => s.on = r
    BY DEF Harmless
  <2> QED
    BY <2>1 DEF Runs
<1> HIDE DEF e
<1>3. e[r].kind # "table" => e[r].key = "none"
  BY <1>1, <1>2 DEF Keyless, Tables
<1>4. e[u].kind # "table" => e[u].key = "none"
  BY <1>1 DEF Keyless, Tables
<1>5. Keyless(e)
  BY <1>3, <1>4 DEF Keyless, Tables
<1> QED
  BY <1>5 DEF e

\* What the first statement of the rest is, among the others.
LEMMA HeadFirst ==
    ASSUME NEW q \in Seq(Harmless), q # << >>, InOrder(q)
    PROVE  /\ First(Head(q), Range(Tail(q)), Range(q)) /\ Head(q) \in Range(q)
           /\ InOrder(Tail(q))
<1>1. /\ Tail(q) \in Seq(Harmless) /\ Range(q) = {Head(q)} \cup Range(Tail(q))
      /\ InOrder(q) => InOrder(Tail(q)) /\ \A t \in Range(Tail(q)) : ~Clash(Head(q), t)
  BY RangeTail
<1>2. Range(Tail(q)) \subseteq Harmless /\ Range(q) \subseteq Harmless
  BY <1>1, RangeType
<1> QED
  BY <1>1, <1>2 DEF First

\* The invariant of the promises.
KInv == Keyless(db) /\ Keyless(Seen) /\ Kept /\ Told

\* The plan of a database is one that can be executed on it.
LEMMA DeriveTells ==
    ASSUME IInv, KInv, Derive
    PROVE  KInv'
<1> DEFINE p == PlanOf(db, baseline)
           q == StatementsOf(p)
<1>1. /\ UNCHANGED <<db, read, given, baseline, work>> /\ pc = "derive" /\ quiet' = TRUE
      /\ current' = p
  BY DEF Derive
<1>2. /\ work = << >> /\ IsDatabase(db) /\ baseline \in Given /\ result = "none"
      /\ Keyless(db) /\ Keyless(Seen)
  BY <1>1 DEF IInv, Types, Decided, KInv
<1> HIDE DEF p
<1>3. \/ pc' = "execute" /\ todo' = q /\ result' = "none" /\ ~HasManual(p)
      \/ pc' = "idle" /\ result' = "stale"
      \/ pc' = "idle" /\ result' = "manual" /\ HasManual(p)
      \/ pc' = "idle" /\ result' = "empty" /\ IsEmpty(p)
  BY <1>1, <1>2 DEF Derive
<1>4. Seen = db /\ Seen' = Seen
  BY <1>1, <1>2, SeenIdle DEF Seen
<1>5. Kept'
  <2>1. ASSUME pc' = "execute"
        PROVE  /\ InOrder(todo')
               /\ \A s \in Range(todo') : Ready(Seen', Range(todo'), ~Unseen(db'), s)
               /\ Covered(Seen', Range(todo'))
    <3>1. todo' = q /\ ~HasManual(p)
      BY <1>3, <2>1
    <3>2. /\ InOrder(q) /\ \A s \in Range(q) : Ready(db, Range(q), ~Unseen(db), s)
          /\ Covered(db, Range(q))
      BY <1>2, <3>1, PlanReady DEF p
    <3> HIDE DEF q
    <3> QED
      BY <1>1, <1>4, <3>1, <3>2
  <2> QED
    BY <2>1 DEF Kept
<1>6. Told'
  BY <1>1, <1>3 DEF Told, p
<1> QED
  BY <1>1, <1>2, <1>4, <1>5, <1>6 DEF KInv

\* What is left of a plan can still be executed after its first statement.
LEMMA RunTells ==
    ASSUME IInv, KInv, Execute, Runs(Seen, Head(todo))
    PROVE  KInv'
<1> DEFINE s == Head(todo)
           Q == Range(Tail(todo))
           T == Range(todo)
           d == Seen
           e == Effect(d, s)
<1>1. /\ s \in Harmless /\ Seen' = e /\ todo' = Tail(todo)
      /\ UNCHANGED <<pc, result, db, read, given, baseline, current, quiet>>
  BY SeenExecute DEF IInv
<1>2. /\ IsDatabase(d) /\ Keyless(d) /\ Keyless(db) /\ Runs(d, s)
      /\ todo \in Seq(Harmless) /\ todo # << >> /\ pc = "execute"
  BY DEF IInv, Types, KInv, Execute
<1> HIDE DEF d, s
<1>3. Does(d, e, s)
  BY <1>1, <1>2, StatementDoes
<1>4. Keyless(e)
  BY <1>1, <1>2, StatementKeyless
<1> HIDE DEF e
<1>5. ASSUME quiet
      PROVE  /\ InOrder(Tail(todo))
             /\ \A x \in Q : Ready(e, Q, ~Unseen(db), x)
             /\ Covered(e, Q)
  <2>1. InOrder(todo) /\ (\A x \in T : Ready(d, T, ~Unseen(db), x)) /\ Covered(d, T)
    BY <1>2, <1>5 DEF KInv, Kept, d
  <2>2. First(s, Q, T) /\ s \in T /\ InOrder(Tail(todo))
    BY <1>2, <2>1, HeadFirst DEF s
  <2> HIDE DEF Q, T
  <2>3. \A x \in Q : x \in T
    BY <2>2 DEF First
  <2>4. \A x \in Q : Ready(e, Q, ~Unseen(db), x)
    BY <1>2, <1>3, <2>1, <2>2, <2>3, RestReady
  <2>5. ReadyColumn(d, T, s)
    BY <2>1, <2>2 DEF Ready
  <2>6. Covered(e, Q)
    BY <1>2, <1>3, <2>1, <2>2, <2>5, RestCovered
  <2> QED
    BY <2>2, <2>4, <2>6
<1>6. Kept'
  BY <1>1, <1>5 DEF Kept
<1>7. Told'
  BY <1>1 DEF KInv, Told
<1> QED
  BY <1>1, <1>2, <1>4, <1>6, <1>7 DEF KInv

\* A statement fails only for what the comparison does not look at.
LEMMA ErrorTells ==
    ASSUME IInv, KInv, Execute, ~Runs(Seen, Head(todo)), quiet
    PROVE  Unseen(db)
<1> SUFFICES ASSUME ~Unseen(db)
             PROVE  FALSE
  OBVIOUS
<1> DEFINE s == Head(todo)
           Q == Range(Tail(todo))
           T == Range(todo)
           d == Seen
<1>1. todo \in Seq(Harmless) /\ todo # << >> /\ pc = "execute" /\ ~Runs(d, s)
  BY DEF IInv, Types, Execute
<1>2. InOrder(todo) /\ \A x \in T : Ready(d, T, TRUE, x)
  <2>1. ~Unseen(db) <=> TRUE
    OBVIOUS
  <2>2. InOrder(todo) /\ \A x \in T : Ready(d, T, ~Unseen(db), x)
    BY <1>1 DEF KInv, Kept
  <2> QED
    BY <2>1, <2>2
<1>3. First(s, Q, T) /\ s \in T
  BY <1>1, <1>2, HeadFirst
<1> HIDE DEF d, s, Q, T
<1> QED
  BY <1>1, <1>2, <1>3, FirstRuns

\* The transaction ends.
LEMMA CloseTells ==
    ASSUME IInv, KInv, pc = "execute", NEW how, Close(how), db' \in {db, Seen},
           UNCHANGED <<baseline, current, quiet>>,
           how \in {"error", "applied", "lost"},
           quiet /\ how = "error" => Unseen(db'),
           quiet /\ how = "applied" => \A b \in Given : IsEmpty(PlanOf(db', b)),
           quiet /\ how = "lost" =>
               PlanOf(db', baseline) = current \/ IsEmpty(PlanOf(db', baseline))
    PROVE  KInv'
<1>1. work' = << >> /\ pc' = "idle" /\ result' = how
  BY DEF Close
<1>2. IsDatabase(db') /\ Keyless(db')
  BY DEF IInv, Types, KInv
<1>3. Seen' = db'
  <2>1. db' = [x \in DOMAIN db' |-> db'[x]]
    BY <1>2 DEF IsDatabase
  <2> QED
    BY <1>1, <2>1 DEF Seen
<1>4. Told' /\ Kept'
  BY <1>1 DEF Told, Kept
<1> QED
  BY <1>2, <1>3, <1>4 DEF KInv

\* When all of a plan was executed, nothing is left to be reconciled.
LEMMA NothingLeft ==
    ASSUME IInv, KInv, pc = "execute", todo = << >>, quiet, NEW b \in Given
    PROVE  IsEmpty(PlanOf(Seen, b))
<1>1. Range(todo) = {}
  BY RangeFew
<1>2. Covered(Seen, {})
  BY <1>1 DEF KInv, Kept
<1>3. IsDatabase(Seen)
  BY DEF IInv, Types
<1> HIDE DEF Seen
<1> QED
  BY <1>2, <1>3, Finished

\* What is committed has nothing left to be reconciled.
LEMMA CommitTells ==
    ASSUME IInv, KInv, Commit
    PROVE  KInv'
<1>1. /\ pc = "execute" /\ todo = << >> /\ db' = Seen /\ Close("applied")
      /\ UNCHANGED <<baseline, current, quiet>>
  BY DEF Commit
<1>2. quiet => \A b \in Given : IsEmpty(PlanOf(Seen, b))
  BY <1>1, NothingLeft
<1> QED
  BY <1>1, <1>2, CloseTells

\* What is left by a connection that is lost is all of the plan to do, or nothing.
LEMMA LoseTells ==
    ASSUME IInv, KInv, Lose
    PROVE  KInv'
<1>1. /\ pc = "execute" /\ Close("lost")
      /\ (db' = db \/ (todo = << >> /\ db' = Seen))
      /\ UNCHANGED <<baseline, current, quiet>>
  BY DEF Lose
<1>2. baseline \in Given
  BY DEF IInv, Types
<1>3. quiet => PlanOf(db', baseline) = current \/ IsEmpty(PlanOf(db', baseline))
  <2>1. ASSUME quiet, db' = db PROVE PlanOf(db', baseline) = current
    BY <1>1, <2>1 DEF IInv, Undisturbed
  <2>2. ASSUME quiet, todo = << >>, db' = Seen PROVE IsEmpty(PlanOf(db', baseline))
    BY <1>1, <1>2, <2>2, NothingLeft
  <2> QED
    BY <1>1, <2>1, <2>2
<1>4. db' \in {db, Seen}
  BY <1>1
<1> QED
  BY <1>1, <1>3, <1>4, CloseTells

\* The database of the gateway, against the schema.
LEMMA LegacyIs ==
    LET A == Reference["gateway_usage"].cols IN
    LET B == Reference["model_pricing_rates"].cols IN
    LET U == Legacy["gateway_usage"] IN
    LET R == Legacy["model_pricing_rates"] IN
    LET V == Legacy["gateway_usage_daily"] IN
    /\ U.kind = "table" /\ U.key = "ours" /\ U.indexes = {TsIndex} /\ U.checks = {}
    /\ DOMAIN U.cols = UsageNames \ {"schema_version"}
    /\ \A c \in UsageNames \ {"schema_version", "id"} : U.cols[c] = A[c]
    /\ R.kind = "table" /\ R.key = "legacy" /\ R.indexes = {} /\ R.checks = {}
    /\ R.twice = FALSE /\ R.solo = FALSE /\ R.bad = FALSE /\ R.referenced = FALSE
    /\ DOMAIN R.cols = {"model", "cache_cost", "pricing_mode"}
    /\ \A c \in {"model", "cache_cost"} : R.cols[c] = B[c]
    /\ V.kind = "view" /\ V.shape = "other" /\ V.dependents = FALSE
    /\ Legacy["taken"] = FALSE
<1> DEFINE U == Reference["gateway_usage"]
           R == Reference["model_pricing_rates"]
           V == Reference["gateway_usage_daily"]
           C == With(Without(U.cols, "schema_version"), "id", Required("other"))
           K == With(Without(R.cols, "effective_from"), "pricing_mode", Required("none"))
           F == {"gateway_usage", "model_pricing_rates", "gateway_usage_daily", "taken"}
<1>1. /\ DOMAIN Reference = F
      /\ DOMAIN U = {"kind", "key", "indexes", "checks", "cols"}
      /\ DOMAIN R = {"kind", "key", "indexes", "checks", "cols", "twice", "solo", "bad",
                     "referenced"}
      /\ DOMAIN V = {"kind", "shape", "dependents", "granted"}
      /\ DOMAIN U.cols = UsageNames /\ DOMAIN R.cols = CardNames
  BY ReferenceIs DEF IsDatabase, IsUsage, IsCard, IsView
<1>2. /\ U.kind = "table" /\ U.key = "ours" /\ U.indexes = {TsIndex} /\ U.checks = {}
      /\ R.kind = "table" /\ R.indexes = {}
      /\ R.twice = FALSE /\ R.solo = FALSE /\ R.bad = FALSE /\ R.referenced = FALSE
      /\ V.kind = "view" /\ V.dependents = FALSE /\ Reference["taken"] = FALSE
  BY DEF Reference
<1>3. Legacy = [Reference EXCEPT !.gateway_usage.cols = C,
                                 !.model_pricing_rates.cols = K,
                                 !.model_pricing_rates.key = "legacy",
                                 !.model_pricing_rates.checks = {},
                                 !.gateway_usage_daily.shape = "other"]
  BY <1>1 DEF Legacy
<1>4. /\ DOMAIN C = UsageNames \ {"schema_version"}
      /\ \A c \in UsageNames \ {"schema_version", "id"} : C[c] = U.cols[c]
  <2>1. ASSUME NEW A, NEW B, DOMAIN A = UsageNames
        PROVE  LET W == With(Without(A, "schema_version"), "id", B) IN
               /\ DOMAIN W = UsageNames \ {"schema_version"}
               /\ \A c \in UsageNames \ {"schema_version", "id"} : W[c] = A[c]
    BY <2>1 DEF With, Without, UsageNames
  <2> QED
    BY <1>1, <2>1
<1>5. /\ DOMAIN K = {"model", "cache_cost", "pricing_mode"}
      /\ \A c \in {"model", "cache_cost"} : K[c] = R.cols[c]
  <2>1. ASSUME NEW A, NEW B, DOMAIN A = CardNames
        PROVE  LET W == With(Without(A, "effective_from"), "pricing_mode", B) IN
               /\ DOMAIN W = {"model", "cache_cost", "pricing_mode"}
               /\ \A c \in {"model", "cache_cost"} : W[c] = A[c]
    BY <2>1 DEF With, Without, CardNames
  <2> QED
    BY <1>1, <2>1
<1> HIDE DEF C, K, F
<1>6. Legacy["gateway_usage"] = [U EXCEPT !.cols = C]
  BY <1>1, <1>3 DEF F
<1>7. Legacy["model_pricing_rates"] = [R EXCEPT !.cols = K, !.key = "legacy", !.checks = {}]
  BY <1>1, <1>3 DEF F
<1>8. Legacy["gateway_usage_daily"] = [V EXCEPT !.shape = "other"] /\ Legacy["taken"] = Reference["taken"]
  BY <1>1, <1>3 DEF F
<1> HIDE DEF U, R, V
<1>9. LET W == Legacy["gateway_usage"] IN
      /\ W.kind = "table" /\ W.key = "ours" /\ W.indexes = {TsIndex} /\ W.checks = {}
      /\ W.cols = C
  BY <1>1, <1>2, <1>6
<1>10. LET W == Legacy["model_pricing_rates"] IN
       /\ W.kind = "table" /\ W.key = "legacy" /\ W.indexes = {} /\ W.checks = {}
       /\ W.twice = FALSE /\ W.solo = FALSE /\ W.bad = FALSE /\ W.referenced = FALSE
       /\ W.cols = K
  BY <1>1, <1>2, <1>7
<1>11. LET W == Legacy["gateway_usage_daily"] IN
       W.kind = "view" /\ W.shape = "other" /\ W.dependents = FALSE
  BY <1>1, <1>2, <1>8
<1> QED
  BY <1>2, <1>4, <1>5, <1>8, <1>9, <1>10, <1>11 DEF U, R

\* Columns of which no person is asked anything.
LEMMA ColumnsClean ==
    ASSUME NEW d, IsDatabase(d), NEW t \in Tables, NEW skip,
           \A c \in DOMAIN Reference[t].cols \ (skip \cup {"id"}) :
             IF c \in DOMAIN d[t].cols THEN d[t].cols[c] = Reference[t].cols[c]
             ELSE AddColumn(t, c, Reference[t].cols[c]).resolution # "manual",
           t = "gateway_usage" => DOMAIN d[t].cols \subseteq DOMAIN Reference[t].cols
    PROVE  Clean(CompareColumns(d, t, skip))
<1> DEFINE X == LeavesKey(d)
           D == Discrepancies(X)
           reference == Reference[t].cols
           live == d[t].cols
           compared == DOMAIN reference \ (skip \cup {"id"})
           extra == DOMAIN live \ (DOMAIN reference \cup {"id"})
           Of(c) == IF c \in DOMAIN live THEN CompareColumn(t, c, reference[c], live[c])
                    ELSE <<AddColumn(t, c, reference[c])>>
           Extra(c) == CompareExtra(t, c, live[c])
           ofs == [i \in DOMAIN Order |-> IF Order[i] \in compared THEN Of(Order[i]) ELSE << >>]
           extras == [i \in DOMAIN Order |-> IF Order[i] \in extra THEN Extra(Order[i]) ELSE << >>]
           p == FlattenSeq(ofs)
           x == FlattenSeq(extras)
<1>1. ASSUME NEW c \in compared
      PROVE  Of(c) \in Seq(D) /\ Clean(Of(c))
  <2>1. c \in DOMAIN Reference[t].cols \ {"id"}
    OBVIOUS
  <2>2. CASE c \in DOMAIN live
    <3> DEFINE C == reference[c]
    <3>1. live[c] = C
      BY <2>2
    <3>2. Nullability(t, c, C, C) = << >> /\ Default(t, c, C, C) = << >>
      <4> HIDE DEF C
      <4> QED
        BY DEF Nullability, Default
    <3>3. CompareColumn(t, c, C, C) = << >>
      <4> HIDE DEF C
      <4> QED
        BY <3>2 DEF CompareColumn
    <3>4. Of(c) = << >>
      BY <2>2, <3>1, <3>3
    <3>5. << >> \in Seq(D) /\ Clean(<< >>)
      BY FindingsFew
    <3> HIDE DEF Of, D
    <3> QED
      BY <3>4, <3>5
  <2>3. CASE c \notin DOMAIN live
    <3> DEFINE a == AddColumn(t, c, reference[c])
    <3>1. Optional \in Column
      BY DEF Optional, Required, Column, Defaults, Held
    <3>2. a \in D
      BY <2>1, <3>1, ColumnFindings
    <3>3. a.resolution # "manual"
      BY <2>3
    <3>4. Of(c) = <<a>>
      BY <2>3
    <3> HIDE DEF Of, a
    <3>5. Clean(<<a>>)
      BY <3>2, <3>3, FindingsFew
    <3> HIDE DEF D
    <3>6. <<a>> \in Seq(D)
      BY <3>2, Single
    <3> QED
      BY <3>4, <3>5, <3>6
  <2> QED
    BY <2>2, <2>3
<1>2. \A c \in extra : Extra(c) = << >>
  BY DEF CompareExtra
<1>3. DOMAIN Order = 1..11 /\ 11 \in Nat \ {0}
  BY NamesAre
<1>4. << >> \in Seq(D) /\ Clean(<< >>)
  BY FindingsFew
<1>5. CompareColumns(d, t, skip) = p \o x
  BY DEF CompareColumns, Each
<1> HIDE DEF Of, Extra, compared, extra
<1>6. /\ ofs \in [1..11 -> Seq(D)] /\ extras \in [1..11 -> Seq(D)]
      /\ \A i \in 1..11 : Clean(ofs[i]) /\ Clean(extras[i])
  <2> HIDE DEF D
  <2> QED
    BY <1>1, <1>2, <1>3, <1>4
<1> HIDE DEF ofs, extras
<1>7. /\ p \in Seq(D)
      /\ \A y : y \in Range(p) <=> \E k \in 1..11 : y \in Range(ofs[k])
  BY <1>3, <1>6, FindingsFlat
<1>8. /\ x \in Seq(D)
      /\ \A y : y \in Range(x) <=> \E k \in 1..11 : y \in Range(extras[k])
  BY <1>3, <1>6, FindingsFlat
<1> HIDE DEF p, x
<1>9. Clean(p) /\ Clean(x)
  BY <1>6, <1>7, <1>8 DEF Clean
<1>10. Clean(p \o x)
  BY <1>7, <1>8, <1>9, FindingsConcat
<1> QED
  BY <1>5, <1>10

\* Nobody has to decide anything about the database of the gateway but the baseline.
LEMMA LegacyPlan ==
    ASSUME NEW b \in {"date", "always"}
    PROVE  /\ ~HasManual(PlanOf(Legacy, b)) /\ ~IsEmpty(PlanOf(Legacy, b))
           /\ ~Unseen(Legacy)
<1> DEFINE d == Legacy
           u == "gateway_usage"
           r == "model_pricing_rates"
           v == "gateway_usage_daily"
           U == d[u]
           R == d[r]
           V == d[v]
           D == Discrepancies(Planned(d))
           columns == CompareColumns(d, u, {})
           others == CompareColumns(d, r, {"effective_from"})
           card == RateCard(R, b)
           checks == CompareConstraints(r, Reference[r].checks, R)
           view == CompareView(V)
<1>1. IsDatabase(d) /\ u \in Tables /\ r \in Tables /\ b \in Given
  BY LegacyStarts DEF Tables, Given
<1>2. /\ U.kind = "table" /\ U.key = "ours" /\ U.indexes = {TsIndex} /\ U.checks = {}
      /\ DOMAIN U.cols = UsageNames \ {"schema_version"}
      /\ \A c \in UsageNames \ {"schema_version", "id"} : U.cols[c] = Reference[u].cols[c]
      /\ R.kind = "table" /\ R.key = "legacy" /\ R.indexes = {} /\ R.checks = {}
      /\ R.twice = FALSE /\ R.solo = FALSE /\ R.bad = FALSE /\ R.referenced = FALSE
      /\ DOMAIN R.cols = {"model", "cache_cost", "pricing_mode"}
      /\ \A c \in {"model", "cache_cost"} : R.cols[c] = Reference[r].cols[c]
      /\ V.kind = "view" /\ V.shape = "other" /\ V.dependents = FALSE
      /\ d["taken"] = FALSE
  BY LegacyIs
<1>3. /\ DOMAIN Reference[u].cols = UsageNames /\ DOMAIN Reference[r].cols = CardNames
      /\ Reference[u].key = "ours" /\ Reference[u].indexes = {TsIndex}
      /\ Reference[r].indexes = {} /\ Reference[u].checks = {} /\ Reference[r].checks = {CostsCheck}
      /\ Reference[u].cols["schema_version"] = Required("none")
      /\ Reference[r].cols["model"] = Required("none")
  <2>1. DOMAIN Reference[u].cols = UsageNames /\ DOMAIN Reference[r].cols = CardNames
    BY ReferenceIs
  <2>2. /\ Reference[u].key = "ours" /\ Reference[u].indexes = {TsIndex}
        /\ Reference[r].indexes = {} /\ Reference[u].checks = {} /\ Reference[r].checks = {CostsCheck}
        /\ Reference[u].cols["schema_version"] = Required("none")
        /\ Reference[r].cols["model"] = Required("none")
    BY DEF Reference
  <2> QED
    BY <2>1, <2>2
<1>4. \A t, w : Manual(t, w).resolution = "manual"
  BY DEF Manual
<1>5. \A t, w, st : Automatic(t, w, st).resolution = "automatic"
  BY DEF Automatic
<1> HIDE DEF d
<1>6. Clean(columns)
  <2>1. AddColumn(u, "schema_version", Required("none")).resolution # "manual"
    <3>1. Required("none").default = "none" /\ Required("none").notNull
      BY DEF Required
    <3>2. BackFilled(u, "schema_version")
      BY DEF BackFilled
    <3> DEFINE C == Required("none")
    <3> HIDE DEF C
    <3>3. \E st : AddColumn(u, "schema_version", C) = Automatic(u, "schema_version", st)
      BY <3>1, <3>2 DEF AddColumn, C
    <3> QED
      BY <1>5, <3>3 DEF C
  <2>2. \A c \in DOMAIN Reference[u].cols \ ({} \cup {"id"}) :
          IF c \in DOMAIN d[u].cols THEN d[u].cols[c] = Reference[u].cols[c]
          ELSE AddColumn(u, c, Reference[u].cols[c]).resolution # "manual"
    BY <1>2, <1>3, <2>1 DEF UsageNames
  <2>3. DOMAIN d[u].cols \subseteq DOMAIN Reference[u].cols
    BY <1>2, <1>3
  <2> QED
    BY <1>1, <2>2, <2>3, ColumnsClean
<1>7. Clean(others)
  <2>1. \A c \in DOMAIN Reference[r].cols \ ({"effective_from"} \cup {"id"}) :
          IF c \in DOMAIN d[r].cols THEN d[r].cols[c] = Reference[r].cols[c]
          ELSE AddColumn(r, c, Reference[r].cols[c]).resolution # "manual"
    BY <1>2, <1>3 DEF CardNames
  <2> QED
    BY <1>1, <2>1, ColumnsClean
<1>8. card.resolution # "manual"
  <2>1. R.cols["model"].nulls = FALSE
    BY <1>2, <1>3 DEF Required
  <2>2. ~Unpriceable(R)
    BY <1>2 DEF Unpriceable
  <2>3. \E st : card = Automatic(r, "card", st)
    BY <1>2, <2>1, <2>2 DEF RateCard
  <2> QED
    BY <1>5, <2>3
<1>9. \E x : checks = <<x>> /\ x.resolution # "manual"
  <2>1. ShapesOf({CostsCheck}) = {"costs"} /\ ShapesOf({}) = {} /\ NamesOf({}) = {}
    BY DEF ShapesOf, NamesOf, CostsCheck
  <2>2. \E st : checks = <<Automatic(r, "check", st)>>
    BY <1>2, <1>3, <2>1 DEF CompareConstraints
  <2> QED
    BY <1>5, <2>2
<1>10. \E x : view = <<x>> /\ x.resolution # "manual"
  <2>1. \E st : view = <<Automatic(v, "view", st)>>
    BY <1>2 DEF CompareView
  <2> QED
    BY <1>5, <2>1
<1>11. CompareTable(d, u, b) = columns
  <2>1. ShapesOf({}) = {}
    BY DEF ShapesOf
  <2>2. CompareIndexes(u, Reference[u].indexes, U.indexes) = << >>
    BY <1>2, <1>3 DEF CompareIndexes
  <2>3. CompareConstraints(u, Reference[u].checks, U) = << >>
    BY <1>3, <2>1 DEF CompareConstraints
  <2>4. CompareTable(d, u, b) = (((<< >> \o columns) \o << >>) \o << >>) \o << >>
    BY <1>2, <1>3, <2>2, <2>3 DEF CompareTable
  <2>5. columns \in Seq(Discrepancies(LeavesKey(d)))
    BY <1>1, ColumnsFindings
  <2> HIDE DEF columns
  <2> QED
    BY <2>4, <2>5
<1> DEFINE one == <<card>>
<1>12. one \in Seq(D) /\ others \in Seq(D) /\ checks \in Seq(D) /\ columns \in Seq(D) /\ view \in Seq(D)
  <2>1. card \in D
    BY <1>1, CardFinding DEF Given
  <2>2. /\ others \in Seq(Discrepancies(LeavesKey(d))) /\ checks \in Seq(Discrepancies(LeavesKey(d)))
        /\ columns \in Seq(Discrepancies(LeavesKey(d))) /\ view \in Seq(Discrepancies(LeavesKey(d)))
    BY <1>1, ColumnsFindings, OtherFindings
  <2> HIDE DEF card, others, checks, columns, view
  <2>3. others \in Seq(D) /\ checks \in Seq(D) /\ columns \in Seq(D) /\ view \in Seq(D)
    BY <2>2, FindingsGrow
  <2> HIDE DEF D
  <2> QED
    BY <2>1, <2>3, Single
<1>13. CompareTable(d, r, b) = (one \o others) \o checks
  <2>1. ShapesOf({}) = {}
    BY DEF ShapesOf
  <2>2. CompareIndexes(r, Reference[r].indexes, R.indexes) = << >>
    BY <1>3, <2>1 DEF CompareIndexes
  <2>3. CompareTable(d, r, b) = (((one \o others) \o << >>) \o << >>) \o checks
    BY <1>2, <2>2 DEF CompareTable
  <2> HIDE DEF one, others, checks, D
  <2>4. one \o others \in Seq(D)
    BY <1>12
  <2> QED
    BY <2>3, <2>4
<1>14. Clean(one) /\ Clean(checks) /\ Clean(view) /\ Range(view) # {}
  BY <1>8, <1>9, <1>10, RangeFew DEF Clean
<1> DEFINE p == PlanOf(d, b).discrepancies
<1>15. p = (columns \o ((one \o others) \o checks)) \o view
  BY <1>11, <1>13 DEF PlanOf
<1> HIDE DEF one, others, checks, columns, view, p
<1> DEFINE C1 == one \o others
           C2 == C1 \o checks
           C3 == columns \o C2
<1>16. C1 \in Seq(D) /\ Clean(C1)
  BY <1>7, <1>12, <1>14, FindingsConcat
<1> HIDE DEF C1
<1>17. C2 \in Seq(D) /\ Clean(C2)
  BY <1>12, <1>14, <1>16, FindingsConcat
<1> HIDE DEF C2
<1>18. C3 \in Seq(D) /\ Clean(C3)
  BY <1>6, <1>12, <1>17, FindingsConcat
<1> HIDE DEF C3
<1>19. p = C3 \o view
  BY <1>15 DEF C1, C2, C3
<1>20. Clean(p)
  <2>1. Clean(C3 \o view)
    BY <1>12, <1>14, <1>18, FindingsConcat
  <2> QED
    BY <1>19, <2>1
<1>21. p # << >>
  <2>1. Range(C3 \o view) = Range(C3) \cup Range(view)
    <3> HIDE DEF D
    <3> QED
      BY <1>12, <1>18, RangeConcat
  <2> QED
    BY <1>14, <1>19, <2>1, RangeFew
<1>22. ~HasManual(PlanOf(d, b)) /\ ~IsEmpty(PlanOf(d, b))
  BY <1>20, <1>21 DEF HasManual, IsEmpty, Clean, Range, p
<1>23. ~Unseen(d)
  BY <1>2 DEF Unseen
<1> QED
  BY <1>22, <1>23 DEF d

\* What another tool changes ends the promise, and what apply() returns keeps it.
LEMMA KInvKept ==
    ASSUME IInv, KInv, [Next]_vars
    PROVE  KInv'
<1>1. CASE Edit
  <2>1. UNCHANGED <<pc, result>> /\ quiet' = FALSE
    BY <1>1 DEF Edit, apply
  <2>2. Keyless(db') /\ Keyless(Seen')
    BY <1>1, EditKeyless DEF IInv, KInv
  <2>3. Kept' /\ Told'
    BY <2>1 DEF KInv, Kept, Told
  <2> QED
    BY <2>2, <2>3 DEF KInv
<1>2. ASSUME NEW b \in Baselines, Plan(b) PROVE KInv'
  <2>1. UNCHANGED <<db, pc, todo, work, result, baseline, current, quiet>> /\ pc = "idle"
    BY <1>2 DEF Plan, apply
  <2>2. UNCHANGED Seen
    BY <2>1 DEF Seen
  <2>3. Kept' /\ Told'
    BY <2>1 DEF KInv, Kept, Told
  <2> QED
    BY <2>1, <2>2, <2>3 DEF KInv
<1>3. ASSUME NEW b \in Baselines, NEW p, Apply(p, b) PROVE KInv'
  <2>1. UNCHANGED <<db, work, quiet>> /\ pc' = "derive" /\ result' = "none"
    BY <1>3 DEF Apply
  <2>2. UNCHANGED Seen
    BY <2>1 DEF Seen
  <2>3. Kept' /\ Told'
    BY <2>1 DEF Kept, Told
  <2> QED
    BY <2>1, <2>2, <2>3 DEF KInv
<1>4. CASE Derive
  BY <1>4, DeriveTells
<1>5. CASE Execute /\ Runs(Seen, Head(todo))
  BY <1>5, RunTells
<1>6. CASE Execute /\ ~Runs(Seen, Head(todo))
  <2>1. pc = "execute" /\ Close("error") /\ UNCHANGED <<db, baseline, current, quiet>>
    BY <1>6 DEF Execute
  <2>2. quiet => Unseen(db)
    BY <1>6, ErrorTells
  <2>3. quiet /\ "error" = "error" => Unseen(db')
    BY <2>1, <2>2
  <2> QED
    BY <2>1, <2>3, CloseTells
<1>7. CASE Commit
  BY <1>7, CommitTells
<1>8. CASE Lose
  BY <1>8, LoseTells
<1>9. CASE UNCHANGED vars
  <2>1. UNCHANGED <<db, pc, todo, work, result, baseline, current, quiet>>
    BY <1>9 DEF vars, apply
  <2>2. UNCHANGED Seen
    BY <2>1 DEF Seen
  <2>3. Kept' /\ Told'
    BY <2>1, <2>2 DEF KInv, Kept, Told
  <2> QED
    BY <2>1, <2>2, <2>3 DEF KInv
<1> QED
  BY <1>1, <1>2, <1>3, <1>4, <1>5, <1>6, <1>7, <1>8, <1>9 DEF Next

\* What a plan says holds, for any bounds: left alone, it can be executed but for what
\* the comparison does not look at, nothing is left to be reconciled after it, a call whose
\* connection was lost can be made again, and the gateway's own database has such a plan.
THEOREM PlansAreKept == Spec => []PlanKept
<1>1. Init => KInv
  <2> SUFFICES ASSUME Init
               PROVE  KInv
    OBVIOUS
  <2>1. Keyless(db)
    <3>1. Keyless(Reference)
      BY DEF Keyless, Reference, Tables
    <3>2. Keyless(Legacy)
      BY LegacyIs DEF Keyless, Tables
    <3> QED
      BY <3>1, <3>2 DEF Init
  <2>2. Seen = db
    <3>1. IsDatabase(db) /\ work = << >>
      BY ReferenceStarts, LegacyStarts DEF Init
    <3> QED
      BY <3>1, SeenIdle
  <2>3. Kept /\ Told
    BY DEF Init, Kept, Told
  <2> QED
    BY <2>1, <2>2, <2>3 DEF KInv
<1>2. KInv => PromiseKept /\ Converges /\ Retryable /\ LegacyReconciles
  <2> SUFFICES ASSUME KInv
               PROVE  PromiseKept /\ Converges /\ Retryable /\ LegacyReconciles
    OBVIOUS
  <2>1. Told
    BY DEF KInv
  <2>2. PromiseKept /\ Converges /\ Retryable
    <3>1. Baselines \ {"infinity"} = Given
      BY DEF Baselines, Given
    <3> QED
      BY <2>1, <3>1 DEF Told, PromiseKept, Converges, Retryable
  <2>3. LegacyReconciles
    <3> SUFFICES ASSUME db = Legacy, quiet, pc = "idle", baseline \in {"date", "always"}
                 PROVE  result \in {"stale", "lost"}
      BY DEF LegacyReconciles
    <3>1. /\ ~HasManual(PlanOf(db, baseline)) /\ ~IsEmpty(PlanOf(db, baseline))
          /\ ~Unseen(db)
      BY LegacyPlan
    <3>2. baseline \in Given
      BY DEF Given
    <3> QED
      BY <2>1, <3>1, <3>2 DEF Told
  <2> QED
    BY <2>2, <2>3
<1>3. IInv /\ KInv /\ [Next]_vars => KInv'
  BY KInvKept
<1>4. TypeOK /\ PromiseKept /\ Converges /\ Retryable /\ LegacyReconciles => PlanKept
  BY DEF PlanKept
<1>5. Spec => []KInv
  <2>1. Spec => []IInv
    BY Inductive
  <2> QED
    BY <1>1, <1>3, <2>1, PTL DEF Spec
<1>6. Spec => []TypeOK
  BY Typed
<1> QED
  BY <1>2, <1>4, <1>5, <1>6, PTL
=============================================================================
