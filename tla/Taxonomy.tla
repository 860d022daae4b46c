------------------------------ MODULE Taxonomy ------------------------------
(***************************************************************************)
(* The phase taxonomy of src/src/tokenweir/orchestrator.py: what a written *)
(* phase is read as, by the orchestrator that exports it and by the hook   *)
(* that reads it back.                                                     *)
(*                                                                         *)
(* A text is a sequence of tokens: words, numbers, and the separators and  *)
(* blanks the code treats apart.  A token stands for the characters it     *)
(* names; two tokens of letters or digits never touch, but for a number    *)
(* and the ordinal suffix after it (Sane).                                 *)
(***************************************************************************)
EXTENDS Contract, SequencesExt, FiniteSetsExt

Kinds == {"implementation", "review", "fix"}

\* The numbers a text may hold, one of them written with a leading zero as well.
Digits == {"0", "1", "01", "2", "3", "11", "112"}
NumberOf == [d \in Digits |->
    CASE d = "0" -> 0 [] d \in {"1", "01"} -> 1 [] d = "2" -> 2 [] d = "3" -> 3
      [] d = "11" -> 11 [] d = "112" -> 112]
Numbers == {0, 1, 2, 3, 11, 112}
OrdinalSuffixes == {"st", "nd", "rd", "th", "TH"}
Folded == {"_", "#"}
Separators == Folded \cup PySpace

LowerOf(t) == CASE t = "REVIEW" -> "review" [] t = "TH" -> "th" [] OTHER -> t
Lower(s) == [i \in DOMAIN s |-> LowerOf(s[i])]

Strip(s) ==
    LET ink == {i \in DOMAIN s : s[i] \notin PySpace}
    IN  IF ink = {} THEN <<>> ELSE SubSeq(s, Min(ink), Max(ink))

EndsInSpace(text) == text # <<>> /\ Last(text) = " "

\* The next token: separators become spaces, and a run of spaces becomes one.
Kept(text, token) ==
    CASE token \notin Separators                       -> Append(text, token)
      [] token \in Separators /\ EndsInSpace(text)     -> text
      [] token \in Separators /\ ~EndsInSpace(text)    -> Append(text, " ")

Collapse(s) ==
    LET kept[i \in 0..Len(s)] == IF i = 0 THEN <<>> ELSE Kept(kept[i - 1], s[i])
    IN  Strip(kept[Len(s)])

KindWords ==
    [implementation |-> {<<"implementation">>, <<"implement">>},
     review |-> {<<"review">>},
     fix |-> {<<"fix">>, <<"bug", " ", "fix">>, <<"bug", "-", "fix">>, <<"bugfix">>}]
IsKind(s) == \E k \in Kinds : s \in KindWords[k]
KindByWord(s) == CHOOSE k \in Kinds : s \in KindWords[k]

-----------------------------------------------------------------------------
\* What a phase turned out to be; -1 where there is no occurrence.
Parsed(kind, occurrence) == [kind |-> kind, occurrence |-> occurrence,
                             bad_occurrence |-> occurrence = 0]
Unrecognized == Parsed("none", -1)

\* The suffix English wants after a number.
SuffixFor(n) ==
    IF n % 100 \in 11..13 THEN "th"
    ELSE CASE n % 10 = 1 -> "st" [] n % 10 = 2 -> "nd" [] n % 10 = 3 -> "rd" [] OTHER -> "th"

\* Mutant: the suffix is stripped, whatever it is.
AnySuffix(digits, suffix) == TRUE

EnglishOrdinal(digits, suffix) == suffix = SuffixFor(NumberOf[digits])

\* "2nd review": a number with its suffix, a space, the rest.
IsLeadingOrdinal(s) ==
    /\ Len(s) > 3 /\ s[1] \in Digits /\ s[2] \in OrdinalSuffixes /\ s[3] = " "
    /\ EnglishOrdinal(s[1], s[2])
    /\ IsKind(SubSeq(s, 4, Len(s)))

\* "review-2", "review 2": what stands before one hyphen or one space, a number.
IsTrailingNumber(s) ==
    /\ Len(s) > 2 /\ s[Len(s)] \in Digits /\ s[Len(s) - 1] \in {"-", " "}
    /\ IsKind(SubSeq(s, 1, Len(s) - 2))

ParsePhase(s) ==
    CASE IsKind(s)           -> Parsed(KindByWord(s), -1)
      [] IsLeadingOrdinal(s) -> Parsed(KindByWord(SubSeq(s, 4, Len(s))), NumberOf[s[1]])
      [] IsTrailingNumber(s) -> Parsed(KindByWord(SubSeq(s, 1, Len(s) - 2)), NumberOf[Last(s)])
      [] OTHER               -> Unrecognized

\* A number as it is printed.
NumeralOf == [n \in Numbers |->
    CASE n = 0 -> "0" [] n = 1 -> "1" [] n = 2 -> "2" [] n = 3 -> "3" [] n = 11 -> "11"
      [] n = 112 -> "112"]

\* The canonical label: the kind, and its occurrence after a hyphen.
LabelOf(kind, occurrence) ==
    IF occurrence = -1 THEN <<kind>> ELSE <<kind, "-", NumeralOf[occurrence]>>

\* A text with nothing in it is no phase; the empty text stands for None.
NormalizePhase(s) ==
    LET collapsed == Collapse(s)
        parsed == ParsePhase(Lower(collapsed))
    IN  IF parsed.kind = "none" \/ parsed.bad_occurrence
        THEN collapsed ELSE LabelOf(parsed.kind, parsed.occurrence)

IsCanonical(s) ==
    \/ \E k \in Kinds : s = <<k>>
    \/ \E k \in Kinds, n \in Numbers \ {0} : s = LabelOf(k, n)

-----------------------------------------------------------------------------
\* The reference: the ways a person writes a phase, from the names of its kind, with
\* the occurrence after it or, as an ordinal, before it.  -1 is no occurrence.
Words == [k \in Kinds |->
    CASE k = "implementation" -> {<<"implementation">>, <<"implement">>}
      [] k = "review" -> {<<"review">>, <<"REVIEW">>}
      [] k = "fix" -> {<<"fix">>, <<"bugfix">>, <<"bug", "-", "fix">>}]
DigitsOf(n) == {d \in Digits : NumberOf[d] = n}
SuffixesOf == [n \in Numbers |-> CASE n = 1 -> {"st"} [] n = 2 -> {"nd"} [] n = 3 -> {"rd"}
                                 [] OTHER -> {"th", "TH"}]

\* What stands from i to j: any number of separators, a name, a phase.
IsGap(s, i, j) == i <= j /\ \A x \in i..j : s[x] \in Separators
IsName(s, i, j, kind) ==
    \/ SubSeq(s, i, j) \in Words[kind]
    \/ kind = "fix" /\ i < j /\ s[i] = "bug" /\ IsGap(s, i + 1, j - 1) /\ s[j] = "fix"
IsNumbered(s, i, j, kind, n) ==
    \E m \in i..(j - 1) :
        \/ /\ i + 1 < m /\ s[i] \in DigitsOf(n) /\ s[i + 1] \in SuffixesOf[n]
           /\ IsGap(s, i + 2, m)
           /\ IsName(s, m + 1, j, kind)
        \/ /\ IsName(s, i, m, kind)
           /\ IsGap(s, m + 1, j - 1) \/ (m + 2 = j /\ s[m + 1] = "-")
           /\ s[j] \in DigitsOf(n)
IsPhase(s, i, j, p) ==
    IF p[2] = -1 THEN IsName(s, i, j, p[1]) ELSE IsNumbered(s, i, j, p[1], p[2])

\* The phases a text names, with whatever separators around it.
Phases == Kinds \X (Numbers \cup {-1})
Ink(s) == {i \in DOMAIN s : s[i] \notin Separators}
Says(s) == IF Ink(s) = {} THEN {} ELSE {p \in Phases : IsPhase(s, Min(Ink(s)), Max(Ink(s)), p)}

\* Ways of writing each phase, with gaps of some kinds.
Gaps == (UNION {[1..n -> {" ", "_"}] : n \in 1..3}) \cup {<<"#">>, <<" ", "#">>}
Named(kind) ==
    Words[kind] \cup {<<"bug">> \o g \o <<"fix">> : g \in IF kind = "fix" THEN Gaps ELSE {}}
Examples(kind, n) ==
    IF n = -1 THEN Named(kind)
    ELSE {<<d, x>> \o g \o w : d \in DigitsOf(n), x \in SuffixesOf[n], g \in Gaps, w \in Named(kind)}
         \cup {w \o g \o <<d>> : w \in Named(kind), g \in Gaps \cup {<<"-">>}, d \in DigitsOf(n)}

\* Texts made of tokens that stay apart.
Alphanumeric(t) == t \notin {"-"} \cup Folded \cup Blanks
Sane(s) == \A i \in 1..(Len(s) - 1) :
    Alphanumeric(s[i]) /\ Alphanumeric(s[i + 1]) =>
        /\ s[i] \in Digits /\ s[i + 1] \in OrdinalSuffixes
        /\ i = 1 \/ ~Alphanumeric(s[i - 1])
=============================================================================
