------------------------- MODULE AttributionProofs -------------------------
(***************************************************************************)
(* Proofs about a turn's attribution, for any number of iterations and for *)
(* texts of any length.                                                    *)
(***************************************************************************)
EXTENDS Attribution, SequenceTheorems, WellFoundedInduction, TLAPS

-----------------------------------------------------------------------------
(* The ends of a set of places *)

\* Some number is the least of any set of numbers.
LEMMA LeastNumber ==
    ASSUME NEW T, T \subseteq Nat, T # {}
    PROVE  \E n \in T : \A m \in T : n <= m
<1>1. PICK n \in T : \A m \in T : ~(<<m, n>> \in OpToRel(<, Nat))
  BY NatLessThanWellFounded, WFMin
<1>2. \A m \in T : ~(m < n)
  BY <1>1 DEF OpToRel
<1> QED
  BY <1>2

\* The first and the last of some places of a text.
LEMMA Ends ==
    ASSUME NEW n \in Nat, NEW S, S \subseteq 1..n, S # {}
    PROVE  /\ Min(S) \in S /\ \A i \in S : Min(S) <= i
           /\ Max(S) \in S /\ \A i \in S : i <= Max(S)
<1>0. \A i \in S : i \in Nat /\ n - i \in Nat
  <2>1. \A i \in S : i \in 1..n
    OBVIOUS
  <2> QED
    BY <2>1
<1>1. \E i \in S : \A j \in S : i <= j
  <2>1. S \subseteq Nat
    BY <1>0
  <2> QED
    BY <2>1, LeastNumber
<1>2. \E i \in S : \A j \in S : i >= j
  <2> DEFINE T == {n - i : i \in S}
  <2>1. T \subseteq Nat /\ T # {}
    BY <1>0
  <2>2. PICK m \in T : \A k \in T : m <= k
    <3> HIDE DEF T
    <3> QED
      BY <2>1, LeastNumber
  <2>3. PICK i \in S : m = n - i
    OBVIOUS
  <2>4. \A j \in S : n - i <= n - j
    BY <2>2, <2>3
  <2> HIDE DEF T
  <2>5. \A j \in S : i >= j
    BY <1>0, <2>4
  <2> QED
    BY <2>5
<1> QED
  BY <1>1, <1>2 DEF Min, Max

-----------------------------------------------------------------------------
\* What texts are made of: strings.  The provers have to be told that a literal is one.
Token == UNION {STRING, Separators, Digits, OrdinalSuffixes, Kinds, Modes, Tokens,
                {"implement", "bugfix", "BOM", "KEY", "STREAM", "gold", "app", "message",
                 "claude-code"}}

(* Texts without white space around them *)

\* Where a text has more than white space.
Seen(s) == {i \in DOMAIN s : s[i] \notin PySpace}

\* What Strip leaves: the text from the first token that is no white space to the last.
LEMMA StripIs ==
    ASSUME NEW s \in Seq(Token)
    PROVE  /\ Strip(s) \in Seq(Token)
           /\ Seen(s) = {} => Strip(s) = <<>>
           /\ Seen(s) # {} =>
                /\ Min(Seen(s)) \in Seen(s) /\ Max(Seen(s)) \in Seen(s)
                /\ \A i \in Seen(s) : Min(Seen(s)) <= i /\ i <= Max(Seen(s))
                /\ Len(Strip(s)) = Max(Seen(s)) - Min(Seen(s)) + 1
                /\ \A i \in 1..Len(Strip(s)) : Strip(s)[i] = s[i + Min(Seen(s)) - 1]
<1> DEFINE ink == Seen(s)
<1>1. Strip(s) = IF ink = {} THEN <<>> ELSE SubSeq(s, Min(ink), Max(ink))
  BY DEF Strip, Seen
<1>2. ink \subseteq 1..Len(s) /\ Len(s) \in Nat
  BY DEF Seen
<1> HIDE DEF ink
<1>3. CASE ink = {}
  BY <1>1, <1>3 DEF ink
<1>4. CASE ink # {}
  <2> DEFINE a == Min(ink)
             b == Max(ink)
  <2>1. a \in ink /\ b \in ink /\ \A i \in ink : a <= i /\ i <= b
    BY <1>2, <1>4, Ends
  <2>2. Strip(s) = SubSeq(s, a, b)
    BY <1>1, <1>4
  <2> HIDE DEF a, b
  <2>3. a \in 1..Len(s) /\ b \in 1..Len(s) /\ a <= b
    BY <1>2, <2>1
  <2>4. /\ SubSeq(s, a, b) \in Seq(Token) /\ Len(SubSeq(s, a, b)) = b - a + 1
        /\ \A i \in 1..(b - a + 1) : SubSeq(s, a, b)[i] = s[i + a - 1]
    BY <2>3
  <2> QED
    BY <1>4, <2>1, <2>2, <2>4 DEF a, b, ink
<1> QED
  BY <1>3, <1>4

\* A text with nothing to strip is what it is.
LEMMA StripKeeps ==
    ASSUME NEW s \in Seq(Token), s # <<>>, s[1] \notin PySpace, s[Len(s)] \notin PySpace
    PROVE  Strip(s) = s
<1>1. 1 \in Seen(s) /\ Len(s) \in Seen(s) /\ Len(s) \in Nat \ {0}
  BY DEF Seen
<1>2. Seen(s) \subseteq 1..Len(s)
  BY DEF Seen
<1>3. Min(Seen(s)) = 1 /\ Max(Seen(s)) = Len(s)
  <2>1. /\ Min(Seen(s)) \in Seen(s) /\ Max(Seen(s)) \in Seen(s)
        /\ \A i \in Seen(s) : Min(Seen(s)) <= i /\ i <= Max(Seen(s))
    BY <1>1, StripIs
  <2> QED
    BY <1>1, <1>2, <2>1
<1>4. Strip(s) \in Seq(Token) /\ Len(Strip(s)) = Len(s)
      /\ \A i \in 1..Len(s) : Strip(s)[i] = s[i]
  <2>1. /\ Strip(s) \in Seq(Token)
        /\ Len(Strip(s)) = Max(Seen(s)) - Min(Seen(s)) + 1
        /\ \A i \in 1..Len(Strip(s)) : Strip(s)[i] = s[i + Min(Seen(s)) - 1]
    BY <1>1, StripIs
  <2> QED
    BY <1>1, <1>3, <2>1
<1> QED
  BY <1>4

\* What is stripped has nothing left to strip.
LEMMA StripTwice ==
    ASSUME NEW s \in Seq(Token)
    PROVE  Strip(Strip(s)) = Strip(s)
<1>1. CASE Seen(s) = {}
  <2>1. Strip(s) = <<>>
    BY <1>1, StripIs
  <2>2. Strip(<<>>) = <<>>
    BY DEF Strip
  <2> QED
    BY <2>1, <2>2
<1>2. CASE Seen(s) # {}
  <2> DEFINE t == Strip(s)
             a == Min(Seen(s))
             b == Max(Seen(s))
  <2>1. /\ t \in Seq(Token) /\ a \in Seen(s) /\ b \in Seen(s) /\ a <= b
        /\ Len(t) = b - a + 1 /\ \A i \in 1..Len(t) : t[i] = s[i + a - 1]
    BY <1>2, StripIs
  <2> HIDE DEF t, a, b
  <2>2. a \in Nat /\ b \in Nat /\ s[a] \notin PySpace /\ s[b] \notin PySpace
    BY <2>1 DEF Seen
  <2>3. t[1] = s[a] /\ t[Len(t)] = s[b] /\ t # <<>>
    BY <2>1, <2>2
  <2> QED
    BY <2>1, <2>2, <2>3, StripKeeps DEF t
<1> QED
  BY <1>1, <1>2

\* What is left is nothing if there was nothing but white space, and only then.
LEMMA StripEmpty ==
    ASSUME NEW s \in Seq(Token)
    PROVE  Strip(s) = <<>> <=> Seen(s) = {}
<1>1. ASSUME Seen(s) # {} PROVE Strip(s) # <<>>
  <2>1. /\ Min(Seen(s)) \in Nat /\ Max(Seen(s)) \in Nat /\ Min(Seen(s)) <= Max(Seen(s))
        /\ Len(Strip(s)) = Max(Seen(s)) - Min(Seen(s)) + 1
    BY <1>1, StripIs DEF Seen
  <2> QED
    BY <2>1
<1> QED
  BY <1>1, StripIs

-----------------------------------------------------------------------------
(* Texts with their separators collapsed *)

\* The space that stands for a gap, which is a separator.
Gap == " "

\* The blank between two words is a separator and white space.
LEMMA GapSeparates == Gap \in Separators /\ Gap \in PySpace /\ Gap \in Token
  BY DEF Gap, Separators, PySpace, Token

\* The cell x of d is made of the places of s from g[x] to
\* before g[x + 1]: of one token that is no separator, or of a gap.
Cell(s, d, g, x) ==
    /\ g[x] < g[x + 1]
    /\ \/ d[x] \notin Separators /\ s[g[x]] = d[x] /\ g[x + 1] = g[x] + 1
       \/ /\ d[x] = Gap /\ IsGap(s, g[x], g[x + 1] - 1)
          /\ x < Len(d) => d[x + 1] \notin Separators

\* The places 1 to n of s are laid out in the cells of c.
LaidOut(s, n, c, g) ==
    /\ c \in Seq(Token)
    /\ g \in [1..(Len(c) + 1) -> 1..(n + 1)]
    /\ g[1] = 1 /\ g[Len(c) + 1] = n + 1
    /\ \A x \in 1..Len(c) : Cell(s, c, g, x)

\* One token more is one cell more, or a wider gap.
LEMMA KeptLaysOut ==
    ASSUME NEW s \in Seq(Token), NEW n \in Nat, n + 1 <= Len(s),
           NEW c, NEW g, LaidOut(s, n, c, g)
    PROVE  \E h : LaidOut(s, n + 1, Kept(c, s[n + 1]), h)
<1> DEFINE t == s[n + 1]
           m == Len(c)
<1>1. /\ c \in Seq(Token) /\ m \in Nat /\ t \in Token /\ Gap \in Token
      /\ g \in [1..(m + 1) -> 1..(n + 1)] /\ g[1] = 1 /\ g[m + 1] = n + 1
  BY GapSeparates DEF LaidOut
<1>2. \A x \in 1..m : Cell(s, c, g, x)
  BY DEF LaidOut
<1>3. EndsInSpace(c) <=> m > 0 /\ c[m] = Gap
  <2>1. c # <<>> <=> m > 0
    BY <1>1
  <2>2. EndsInSpace(c) <=> c # <<>> /\ c[m] = Gap
    BY DEF EndsInSpace, Last, Gap
  <2> QED
    BY <2>1, <2>2
<1>4. \A x \in 1..(m + 1) : g[x] \in Nat /\ g[x] >= 1 /\ g[x] <= n + 1
  BY <1>1
<1>5. Gap \in Separators
  BY GapSeparates
<1>0. m = Len(c) /\ t = s[n + 1]
  OBVIOUS
<1> HIDE DEF m, t
<1>6. CASE t \in Separators /\ EndsInSpace(c)
  <2> DEFINE h == [x \in 1..(m + 1) |-> IF x = m + 1 THEN n + 2 ELSE g[x]]
  <2>1. Kept(c, t) = c
    BY <1>6 DEF Kept
  <2>2. m \in Nat /\ m > 0 /\ c[m] = Gap
    BY <1>1, <1>3, <1>6
  <2>4. h \in [1..(m + 1) -> 1..(n + 2)] /\ h[1] = 1 /\ h[m + 1] = n + 2
    <3>1. \A x \in 1..(m + 1) : h[x] \in 1..(n + 2)
      BY <1>4
    <3> QED
      BY <1>1, <2>2, <3>1
  <2>5. \A x \in 1..m : h[x] = g[x] /\ (x < m => h[x + 1] = g[x + 1])
    BY <2>2
  <2> HIDE DEF h
  <2>6. ASSUME NEW x \in 1..m PROVE Cell(s, c, h, x)
    <3>1. CASE x < m
      BY <1>2, <2>5, <3>1 DEF Cell
    <3>2. CASE x = m
      <4>0. Cell(s, c, g, m) /\ m \in 1..m
        BY <1>2, <2>2
      <4>1. g[m] < g[m + 1] /\ IsGap(s, g[m], g[m + 1] - 1) /\ g[m] \in Nat
        BY <1>4, <1>5, <2>2, <4>0 DEF Cell
      <4>2. IsGap(s, g[m], n + 1)
        <5>1. g[m + 1] - 1 = n /\ g[m] <= n
          BY <1>1, <4>1
        <5>2. \A y \in g[m]..(n + 1) : y \in g[m]..n \/ y = n + 1
          BY <4>1
        <5>3. \A y \in g[m]..n : s[y] \in Separators
          BY <4>1, <5>1 DEF IsGap
        <5>4. s[n + 1] \in Separators /\ g[m] <= n + 1
          BY <1>0, <1>6, <4>1, <5>1
        <5> QED
          BY <5>2, <5>3, <5>4 DEF IsGap
      <4>3. h[m] = g[m] /\ h[m + 1] = n + 2 /\ (n + 2) - 1 = n + 1
        BY <2>4, <2>5, <3>2
      <4>4. h[m] < h[m + 1]
        BY <1>1, <4>1, <4>3
      <4>5. IsGap(s, h[m], h[m + 1] - 1)
        BY <4>2, <4>3
      <4>6. ~(m < Len(c))
        BY <1>0, <2>2
      <4> QED
        BY <2>2, <3>2, <4>4, <4>5, <4>6 DEF Cell
    <3> QED
      BY <2>2, <3>1, <3>2
  <2>7. (n + 1) + 1 = n + 2
    OBVIOUS
  <2> QED
    BY <1>0, <1>1, <2>1, <2>4, <2>6, <2>7 DEF LaidOut
<1>7. CASE ~(t \in Separators /\ EndsInSpace(c))
  <2> DEFINE u == IF t \in Separators THEN Gap ELSE t
             d == Append(c, u)
             h == [x \in 1..(m + 2) |-> IF x = m + 2 THEN n + 2 ELSE g[x]]
  <2>1. Kept(c, t) = d
    BY <1>7 DEF Kept, Gap
  <2>2. u \in Token /\ m \in Nat
    BY <1>1
  <2>3. u \in Separators => t \in Separators /\ u = Gap
    OBVIOUS
  <2>4. u \notin Separators => u = t
    BY <1>5
  <2> HIDE DEF u
  <2>5. d \in Seq(Token) /\ Len(d) = m + 1 /\ d[m + 1] = u
    <3>1. d = Append(c, u)
      OBVIOUS
    <3> HIDE DEF d
    <3> QED
      BY <1>0, <1>1, <2>2, <3>1, AppendProperties
  <2>6. \A x \in 1..m : d[x] = c[x]
    BY <1>0, <1>1, <2>2
  <2> HIDE DEF d
  <2>8. h \in [1..(m + 2) -> 1..(n + 2)] /\ h[1] = 1 /\ h[m + 2] = n + 2
    <3>1. \A x \in 1..(m + 2) : x # m + 2 => x \in 1..(m + 1)
      BY <2>2
    <3>2. \A x \in 1..(m + 2) : h[x] \in 1..(n + 2)
      BY <1>4, <3>1
    <3> QED
      BY <1>1, <2>2, <3>2
  <2>9. \A x \in 1..(m + 1) : h[x] = g[x]
    BY <2>2
  <2> HIDE DEF h
  <2>10. ASSUME NEW x \in 1..(m + 1) PROVE Cell(s, d, h, x)
    <3>1. CASE x < m
      <4>1. x \in 1..m /\ x + 1 \in 1..m /\ x \in 1..(m + 1) /\ x + 1 \in 1..(m + 1)
        BY <2>2, <3>1
      <4>2. Cell(s, c, g, x) /\ d[x] = c[x] /\ d[x + 1] = c[x + 1] /\ h[x] = g[x]
            /\ h[x + 1] = g[x + 1]
        BY <1>2, <2>6, <2>9, <4>1
      <4> QED
        BY <1>0, <3>1, <4>2 DEF Cell
    <3>2. CASE x = m
      <4>1. Cell(s, c, g, m) /\ m \in 1..m /\ m > 0
        BY <1>2, <2>2, <3>2
      <4>2. c[m] = Gap => u \notin Separators
        BY <1>3, <1>7, <2>3, <4>1
      <4>3. d[m] = c[m] /\ d[m + 1] = u /\ h[m] = g[m] /\ h[m + 1] = g[m + 1]
        BY <2>2, <2>5, <2>6, <2>9, <4>1
      <4> QED
        BY <3>2, <4>1, <4>2, <4>3 DEF Cell
    <3>3. CASE x = m + 1
      <4>1. h[x] = n + 1 /\ h[x + 1] = n + 2 /\ d[x] = u /\ ~(x < Len(d))
        <5>1. x + 1 = m + 2 /\ x \in 1..(m + 1)
          BY <2>2, <3>3
        <5>2. h[x] = n + 1
          BY <1>1, <2>9, <3>3, <5>1
        <5>3. h[x + 1] = n + 2
          BY <2>8, <5>1
        <5>4. ~(x < Len(d))
          BY <2>2, <2>5, <3>3
        <5> QED
          BY <2>5, <3>3, <5>2, <5>3, <5>4
      <4>2. CASE u \in Separators
        <5>1. IsGap(s, n + 1, (n + 2) - 1)
          BY <1>0, <2>3, <4>2 DEF IsGap
        <5>2. d[x] = Gap /\ IsGap(s, h[x], h[x + 1] - 1) /\ h[x] < h[x + 1]
          BY <2>3, <4>1, <4>2, <5>1
        <5> QED
          BY <4>1, <5>2 DEF Cell
      <4>3. CASE u \notin Separators
        <5>1. d[x] \notin Separators /\ s[h[x]] = d[x] /\ h[x + 1] = h[x] + 1
              /\ h[x] < h[x + 1]
          BY <1>0, <2>4, <4>1, <4>3
        <5> QED
          BY <5>1 DEF Cell
      <4> QED
        BY <4>2, <4>3
    <3> QED
      BY <2>2, <3>1, <3>2, <3>3
  <2>11. (n + 1) + 1 = n + 2 /\ (m + 1) + 1 = m + 2
    BY <2>2
  <2>12. LaidOut(s, n + 1, d, h)
    BY <2>5, <2>8, <2>10, <2>11 DEF LaidOut
  <2> QED
    BY <1>0, <2>1, <2>12
<1> QED
  BY <1>6, <1>7

\* The table of what has been kept of each beginning of s.
Keeps(f, s, n) == f = [i \in 0..n |-> IF i = 0 THEN <<>> ELSE Kept(f[i - 1], s[i])]

\* The recursion of Collapse defines a function, whatever the length of the text.
LEMMA KeptExists ==
    ASSUME NEW s, NEW n \in Nat
    PROVE  \E f : Keeps(f, s, n)
<1> DEFINE Failing == {k \in Nat : ~\E f : Keeps(f, s, k)}
<1>1. ASSUME NEW k \in Failing, \A m \in Failing : k <= m
      PROVE  FALSE
  <2>1. k \in Nat
    OBVIOUS
  <2>2. CASE k = 0
    <3> DEFINE f == [i \in 0..0 |-> <<>>]
    <3>1. Keeps(f, s, 0)
      BY DEF Keeps
    <3> QED
      BY <2>2, <3>1
  <2>3. CASE k # 0
    <3>1. k - 1 \in Nat /\ ~(k <= k - 1)
      BY <2>1, <2>3
    <3>2. PICK g : Keeps(g, s, k - 1)
      BY <1>1, <3>1
    <3> DEFINE f == [i \in 0..k |-> IF i = k THEN Kept(g[k - 1], s[k]) ELSE g[i]]
    <3>3. \A i \in 0..k : f[i] = IF i = k THEN Kept(g[k - 1], s[k]) ELSE g[i]
      OBVIOUS
    <3>4. f = [i \in 0..k |-> f[i]]
      OBVIOUS
    <3> HIDE DEF f
    <3>5. ASSUME NEW i \in 0..k
          PROVE  f[i] = IF i = 0 THEN <<>> ELSE Kept(f[i - 1], s[i])
      <4>1. CASE i = k
        <5>1. f[k - 1] = g[k - 1]
          BY <2>1, <2>3, <3>3
        <5> QED
          BY <2>3, <3>3, <4>1, <5>1
      <4>2. CASE i # k
        <5>1. i \in 0..(k - 1) /\ f[i] = g[i]
          BY <2>1, <3>3, <4>2
        <5>2. g[i] = IF i = 0 THEN <<>> ELSE Kept(g[i - 1], s[i])
          BY <3>2, <5>1 DEF Keeps
        <5>3. i # 0 => f[i - 1] = g[i - 1]
          BY <2>1, <3>3, <5>1
        <5> QED
          BY <5>1, <5>2, <5>3
      <4> QED
        BY <4>1, <4>2
    <3>6. Keeps(f, s, k)
      BY <3>4, <3>5 DEF Keeps
    <3> QED
      BY <3>6
  <2> QED
    BY <2>2, <2>3
<1>2. Failing = {}
  <2>1. Failing \subseteq Nat
    OBVIOUS
  <2> HIDE DEF Failing
  <2> QED
    BY <1>1, <2>1, LeastNumber
<1> QED
  BY <1>2

\* A collapsed text is what a layout of the whole text leaves without its ends.
LEMMA CollapseIs ==
    ASSUME NEW s \in Seq(Token)
    PROVE  \E c, g : LaidOut(s, Len(s), c, g) /\ Collapse(s) = Strip(c)
<1> DEFINE n == Len(s)
           f == CHOOSE f : f = [i \in 0..n |-> IF i = 0 THEN <<>> ELSE Kept(f[i - 1], s[i])]
           Failing == {i \in 0..n : ~\E g : LaidOut(s, i, f[i], g)}
<1>1. n \in Nat
  OBVIOUS
<1>2. Keeps(f, s, n)
  <2>1. \E h : Keeps(h, s, n)
    BY <1>1, KeptExists
  <2> QED
    BY <2>1 DEF Keeps
<1>3. Collapse(s) = Strip(f[n])
  BY DEF Collapse
<1> HIDE DEF f
<1>4. ASSUME NEW i \in 0..n
      PROVE  f[i] = IF i = 0 THEN <<>> ELSE Kept(f[i - 1], s[i])
  BY <1>2 DEF Keeps
<1>5. ASSUME NEW i \in Failing, \A m \in Failing : i <= m
      PROVE  FALSE
  <2>1. i \in 0..n /\ ~\E g : LaidOut(s, i, f[i], g)
    OBVIOUS
  <2>2. CASE i = 0
    <3> DEFINE g == [x \in 1..1 |-> 1]
    <3>1. f[0] = <<>>
      BY <1>1, <1>4
    <3>2. LaidOut(s, 0, <<>>, g)
      BY DEF LaidOut
    <3> QED
      BY <2>1, <2>2, <3>1, <3>2
  <2>3. CASE i # 0
    <3>1. i - 1 \in 0..n /\ ~(i <= i - 1) /\ i - 1 \in Nat /\ (i - 1) + 1 = i /\ i <= n
      BY <1>1, <2>1, <2>3
    <3>2. PICK g : LaidOut(s, i - 1, f[i - 1], g)
      BY <1>5, <3>1
    <3>3. \E h : LaidOut(s, (i - 1) + 1, Kept(f[i - 1], s[(i - 1) + 1]), h)
      BY <3>1, <3>2, KeptLaysOut
    <3>4. f[i] = Kept(f[i - 1], s[i])
      BY <1>4, <2>1, <2>3
    <3> QED
      BY <2>1, <3>1, <3>3, <3>4
  <2> QED
    BY <2>2, <2>3
<1>6. Failing = {}
  <2>1. Failing \subseteq Nat
    BY <1>1
  <2> HIDE DEF Failing
  <2> QED
    BY <1>5, <2>1, LeastNumber
<1>7. n \in 0..n
  BY <1>1
<1> QED
  BY <1>3, <1>6, <1>7

\* The beginnings of m cells, and the end of the last.
Rises(g, m) == g \in [1..(m + 1) -> Nat] /\ \A x \in 1..m : g[x] < g[x + 1]

\* Later cells begin later.
LEMMA LaterCells ==
    ASSUME NEW m \in Nat, NEW g, Rises(g, m), NEW x \in 1..(m + 1), NEW y \in 1..(m + 1), x < y
    PROVE  g[x] < g[y]
<1> DEFINE Failing == {z \in 1..(m + 1) : x < z /\ ~(g[x] < g[z])}
<1>1. ASSUME NEW z \in Failing, \A k \in Failing : z <= k
      PROVE  FALSE
  <2>1. z \in 1..(m + 1) /\ x < z /\ ~(g[x] < g[z]) /\ z - 1 \in 1..m /\ ~(z <= z - 1)
    OBVIOUS
  <2>2. (z - 1) + 1 = z
    BY <2>1
  <2>3. g[z - 1] < g[z] /\ g[z - 1] \in Nat /\ g[z] \in Nat /\ g[x] \in Nat
    BY <2>1, <2>2 DEF Rises
  <2>4. CASE x = z - 1
    BY <2>1, <2>3, <2>4
  <2>5. CASE x # z - 1
    <3>1. x < z - 1 /\ z - 1 \in 1..(m + 1)
      BY <2>1, <2>5
    <3>2. g[x] < g[z - 1]
      BY <1>1, <2>1, <3>1
    <3> QED
      BY <2>1, <2>3, <3>2
  <2> QED
    BY <2>4, <2>5
<1>2. Failing = {}
  <2>1. Failing \subseteq Nat
    OBVIOUS
  <2> HIDE DEF Failing
  <2> QED
    BY <1>1, <2>1, LeastNumber
<1> QED
  BY <1>2

\* A place between the first cell's beginning and the last one's end is in some cell.
LEMMA CellOf ==
    ASSUME NEW m \in Nat, NEW g, Rises(g, m), NEW i \in Nat, g[1] <= i, i < g[m + 1]
    PROVE  \E x \in 1..m : g[x] <= i /\ i < g[x + 1]
<1> DEFINE T == {x \in 1..(m + 1) : i < g[x]}
<1>1. m + 1 \in T /\ T \subseteq Nat
  OBVIOUS
<1>2. PICK x \in T : \A y \in T : x <= y
  <2> HIDE DEF T
  <2> QED
    BY <1>1, LeastNumber
<1>3. x \in 1..(m + 1) /\ i < g[x] /\ g[1] \in Nat
  BY DEF Rises
<1>4. x # 1
  BY <1>3
<1>5. x - 1 \in 1..m /\ x - 1 \notin T /\ (x - 1) + 1 = x /\ x - 1 \in 1..(m + 1)
  BY <1>2, <1>3, <1>4
<1>6. g[x - 1] \in Nat /\ ~(i < g[x - 1])
  BY <1>5 DEF Rises
<1>7. g[x - 1] <= i
  BY <1>6
<1> QED
  BY <1>3, <1>5, <1>7

\* d is what the separators of s leave of it, place by place.
Lays(s, d, g) ==
    /\ d \in Seq(Token) /\ d # <<>>
    /\ g \in [1..(Len(d) + 1) -> 1..(Len(s) + 1)]
    /\ \A x \in 1..Len(d) : Cell(s, d, g, x)
    /\ d[1] \notin Separators /\ d[Len(d)] \notin Separators
    /\ \A i \in 1..Len(s) : i < g[1] \/ g[Len(d) + 1] <= i => s[i] \in Separators

\* A token of a text is in the ink of its cell, or in a gap.
LEMMA InCell ==
    ASSUME NEW s, NEW d, NEW g, NEW x, Cell(s, d, g, x), g[x] \in Nat, g[x + 1] \in Nat,
           NEW i \in Nat, g[x] <= i, i < g[x + 1]
    PROVE  \/ d[x] \notin Separators /\ i = g[x] /\ s[i] = d[x]
           \/ d[x] = Gap /\ s[i] \in Separators
<1>1. CASE d[x] \notin Separators /\ s[g[x]] = d[x] /\ g[x + 1] = g[x] + 1
  <2>1. i = g[x]
    BY <1>1
  <2> QED
    BY <1>1, <2>1
<1>2. CASE d[x] = Gap /\ IsGap(s, g[x], g[x + 1] - 1)
  <2>1. i \in g[x]..(g[x + 1] - 1)
    OBVIOUS
  <2> QED
    BY <1>2, <2>1 DEF IsGap
<1> QED
  BY <1>1, <1>2 DEF Cell

\* A text with any ink in it is laid out in the cells of what it is collapsed to.
LEMMA CollapseLays ==
    ASSUME NEW s \in Seq(Token)
    PROVE  \/ Collapse(s) = <<>> /\ Ink(s) = {}
           \/ \E g : Lays(s, Collapse(s), g)
<1>1. PICK c, g : LaidOut(s, Len(s), c, g) /\ Collapse(s) = Strip(c)
  BY CollapseIs
<1> DEFINE n == Len(s)
           m == Len(c)
<1>2. n \in Nat /\ m \in Nat /\ c \in Seq(Token)
  BY <1>1 DEF LaidOut
<1>3. g \in [1..(m + 1) -> 1..(n + 1)] /\ g[1] = 1 /\ g[m + 1] = n + 1
  BY <1>1 DEF LaidOut
<1>4. \A x \in 1..m : Cell(s, c, g, x)
  BY <1>1 DEF LaidOut
<1>5. DOMAIN s = 1..n /\ DOMAIN c = 1..m /\ Len(c) = m /\ Len(s) = n
  BY <1>2
<1> HIDE DEF n, m
<1>6. Rises(g, m)
  BY <1>2, <1>3, <1>4 DEF Rises, Cell
<1>7. \A x \in 1..(m + 1) : g[x] \in Nat /\ 1 <= g[x] /\ g[x] <= n + 1
  BY <1>2, <1>3
\* What the cell of a place says of it.
<1>8. ASSUME NEW i \in 1..n
      PROVE  \E x \in 1..m : /\ g[x] <= i /\ i < g[x + 1]
                             /\ x \notin Seen(c) => s[i] \in Separators
  <2>1. i \in Nat /\ g[1] <= i /\ i < g[m + 1]
    BY <1>2, <1>3
  <2>2. PICK x \in 1..m : g[x] <= i /\ i < g[x + 1]
    BY <1>2, <1>6, <2>1, CellOf
  <2>3. Cell(s, c, g, x) /\ g[x] \in Nat /\ g[x + 1] \in Nat
    BY <1>2, <1>4, <1>7
  <2>4. \/ c[x] \notin Separators /\ i = g[x] /\ s[i] = c[x]
        \/ c[x] = Gap /\ s[i] \in Separators
    BY <2>1, <2>2, <2>3, InCell
  <2>5. c[x] \notin Separators => x \in Seen(c)
    BY <1>5 DEF Seen, Separators
  <2> QED
    BY <2>2, <2>4, <2>5
<1>9. CASE Seen(c) = {}
  <2>1. Collapse(s) = <<>>
    BY <1>1, <1>2, <1>9, StripIs
  <2>2. \A i \in 1..n : s[i] \in Separators
    BY <1>8, <1>9
  <2>3. Ink(s) = {}
    BY <1>5, <2>2 DEF Ink
  <2> QED
    BY <2>1, <2>3
<1>10. CASE Seen(c) # {}
  <2> DEFINE a == Min(Seen(c))
             b == Max(Seen(c))
             d == Strip(c)
             h == [x \in 1..(Len(d) + 1) |-> g[x + a - 1]]
  <2>1. /\ d \in Seq(Token) /\ a \in Seen(c) /\ b \in Seen(c)
        /\ \A x \in Seen(c) : a <= x /\ x <= b
        /\ Len(d) = b - a + 1 /\ \A x \in 1..Len(d) : d[x] = c[x + a - 1]
    BY <1>2, <1>10, StripIs
  <2>2. Collapse(s) = d
    BY <1>1
  <2> HIDE DEF a, b, d
  <2>3. a \in 1..m /\ b \in 1..m /\ a <= b /\ Len(d) \in Nat /\ 1 \in 1..Len(d)
        /\ Len(d) \in 1..Len(d)
    BY <1>2, <1>5, <2>1 DEF Seen
  <2>4. \A x \in Seen(c) : c[x] \notin Separators
    <3>1. \A x \in Seen(c) : c[x] \notin PySpace /\ x \in 1..m
      BY <1>5 DEF Seen
    <3> QED
      BY <1>4, <3>1, GapSeparates DEF Cell
  <2>5. h \in [1..(Len(d) + 1) -> 1..(n + 1)]
    <3>1. \A x \in 1..(Len(d) + 1) : x + a - 1 \in 1..(m + 1)
      BY <1>2, <2>1, <2>3
    <3> QED
      BY <1>3, <3>1
  <2>6. \A x \in 1..(Len(d) + 1) : h[x] = g[x + a - 1]
    OBVIOUS
  <2> HIDE DEF h
  <2>7. ASSUME NEW x \in 1..Len(d) PROVE Cell(s, d, h, x)
    <3> DEFINE y == x + a - 1
    <3>1. y \in 1..m /\ y + 1 = (x + 1) + a - 1 /\ x \in 1..(Len(d) + 1)
          /\ x + 1 \in 1..(Len(d) + 1)
      BY <1>2, <2>1, <2>3
    <3>2. h[x] = g[y] /\ h[x + 1] = g[y + 1] /\ d[x] = c[y]
      BY <2>1, <2>6, <3>1
    <3>3. x < Len(d) => y < Len(c) /\ d[x + 1] = c[y + 1]
      <4>1. ASSUME x < Len(d) PROVE x + 1 \in 1..Len(d) /\ y < m
        BY <1>2, <2>1, <2>3, <4>1
      <4> QED
        BY <1>5, <2>1, <3>1, <4>1
    <3>4. Cell(s, c, g, y)
      BY <1>4, <3>1
    <3> HIDE DEF y
    <3> QED
      BY <3>2, <3>3, <3>4 DEF Cell
  <2>8. d[1] \notin Separators /\ d[Len(d)] \notin Separators
    <3>1. d[1] = c[a] /\ d[Len(d)] = c[b]
      <4>1. 1 + a - 1 = a /\ Len(d) + a - 1 = b
        BY <1>2, <2>1, <2>3
      <4> QED
        BY <2>1, <2>3, <4>1
    <3> QED
      BY <2>1, <2>4, <3>1
  <2>9. ASSUME NEW i \in 1..n, i < h[1] \/ h[Len(d) + 1] <= i
        PROVE  s[i] \in Separators
    <3>1. h[1] = g[a] /\ h[Len(d) + 1] = g[b + 1]
      <4>1. 1 + a - 1 = a /\ (Len(d) + 1) + a - 1 = b + 1 /\ 1 \in 1..(Len(d) + 1)
            /\ Len(d) + 1 \in 1..(Len(d) + 1)
        BY <1>2, <2>1, <2>3
      <4> QED
        BY <2>6, <4>1
    <3>2. PICK x \in 1..m : /\ g[x] <= i /\ i < g[x + 1]
                            /\ x \notin Seen(c) => s[i] \in Separators
      BY <1>8
    <3>3. x \in 1..(m + 1) /\ x + 1 \in 1..(m + 1) /\ a \in 1..(m + 1) /\ b + 1 \in 1..(m + 1)
      BY <1>2, <2>3
    <3>4. g[x] \in Nat /\ g[x + 1] \in Nat /\ g[a] \in Nat /\ g[b + 1] \in Nat
      BY <1>7, <3>3
    <3>5. ASSUME x \in Seen(c) PROVE FALSE
      <4>1. a <= x /\ x <= b
        BY <2>1, <3>5
      <4>2. a < x => g[a] < g[x]
        BY <1>2, <1>6, <3>3, LaterCells
      <4>3. x + 1 < b + 1 => g[x + 1] < g[b + 1]
        BY <1>2, <1>6, <3>3, LaterCells
      <4>4. g[a] <= g[x] /\ g[x + 1] <= g[b + 1]
        <5>1. a = x \/ a < x
          BY <2>3, <3>3, <4>1
        <5>2. x = b \/ x + 1 < b + 1
          BY <2>3, <3>3, <4>1
        <5> QED
          BY <3>4, <4>2, <4>3, <5>1, <5>2
      <4> QED
        BY <2>9, <3>1, <3>2, <3>4, <4>4
    <3> QED
      BY <3>2, <3>5
  <2>10. Lays(s, d, h)
    <3>1. d # <<>>
      BY <2>3
    <3> QED
      BY <1>5, <2>1, <2>5, <2>7, <2>8, <2>9, <3>1 DEF Lays
  <2> QED
    BY <2>2, <2>10
<1> QED
  BY <1>9, <1>10

\* What a layout says of each cell and of its place.
LEMMA LaysFacts ==
    ASSUME NEW s \in Seq(Token), NEW d, NEW g, Lays(s, d, g)
    PROVE  /\ d \in Seq(Token) /\ Len(d) \in Nat /\ Len(d) >= 1 /\ Len(s) \in Nat
           /\ Rises(g, Len(d))
           /\ \A x \in 1..(Len(d) + 1) : g[x] \in Nat /\ 1 <= g[x] /\ g[x] <= Len(s) + 1
           /\ \A x \in 1..Len(d) : /\ Cell(s, d, g, x) /\ g[x] \in 1..Len(s)
                                   /\ d[x] \notin Separators =>
                                        s[g[x]] = d[x] /\ g[x + 1] = g[x] + 1
                                   /\ d[x] \in Separators =>
                                        /\ d[x] = Gap /\ IsGap(s, g[x], g[x + 1] - 1)
                                        /\ 1 < x /\ x < Len(d)
                                        /\ d[x + 1] \notin Separators
<1> DEFINE m == Len(d)
           n == Len(s)
<1>1. d \in Seq(Token) /\ m \in Nat /\ m >= 1 /\ n \in Nat
  BY DEF Lays
<1>2. /\ g \in [1..(m + 1) -> 1..(n + 1)] /\ \A x \in 1..m : Cell(s, d, g, x)
      /\ d[1] \notin Separators /\ d[m] \notin Separators
  BY DEF Lays
<1>3. m = Len(d) /\ n = Len(s)
  OBVIOUS
<1> HIDE DEF m, n
<1>4. \A x \in 1..(m + 1) : g[x] \in Nat /\ 1 <= g[x] /\ g[x] <= n + 1
  BY <1>1, <1>2
<1>5. Rises(g, m)
  BY <1>1, <1>2 DEF Rises, Cell
<1>6. ASSUME NEW x \in 1..m
      PROVE  /\ Cell(s, d, g, x) /\ g[x] \in 1..n
             /\ d[x] \notin Separators => s[g[x]] = d[x] /\ g[x + 1] = g[x] + 1
             /\ d[x] \in Separators => /\ d[x] = Gap /\ IsGap(s, g[x], g[x + 1] - 1)
                                       /\ 1 < x /\ x < m /\ d[x + 1] \notin Separators
  <2>1. Cell(s, d, g, x) /\ g[x] < g[x + 1]
    BY <1>2 DEF Cell
  <2>2. x \in 1..(m + 1) /\ x + 1 \in 1..(m + 1)
    BY <1>1
  <2>3. g[x] \in Nat /\ 1 <= g[x] /\ g[x + 1] \in Nat /\ g[x + 1] <= n + 1
    BY <1>4, <2>2
  <2>4. g[x] \in 1..n
    BY <1>1, <2>1, <2>3
  <2>5. d[x] \in Separators => 1 < x /\ x < m
    BY <1>1, <1>2
  <2> QED
    BY <1>3, <2>1, <2>4, <2>5, GapSeparates DEF Cell
<1> QED
  BY <1>1, <1>3, <1>4, <1>5, <1>6

\* A text has one layout.
LEMMA LaysOnce ==
    ASSUME NEW s \in Seq(Token), NEW d, NEW g, Lays(s, d, g), NEW e, NEW h, Lays(s, e, h)
    PROVE  d = e
<1> DEFINE m == Len(d)
           k == Len(e)
           n == Len(s)
           Failing == {x \in 1..(m + 1) : x <= k + 1 /\ g[x] # h[x]}
<1>1. m \in Nat /\ k \in Nat /\ n \in Nat /\ m >= 1 /\ k >= 1
      /\ d \in Seq(Token) /\ e \in Seq(Token)
  BY LaysFacts
<1>2. /\ \A x \in 1..(m + 1) : g[x] \in Nat /\ 1 <= g[x] /\ g[x] <= n + 1
      /\ \A x \in 1..m : /\ g[x] \in 1..n /\ g[x] < g[x + 1]
                         /\ d[x] \notin Separators => s[g[x]] = d[x] /\ g[x + 1] = g[x] + 1
                         /\ d[x] \in Separators =>
                              /\ d[x] = Gap /\ IsGap(s, g[x], g[x + 1] - 1)
                              /\ 1 < x /\ x < m /\ d[x + 1] \notin Separators
  BY LaysFacts DEF Cell
<1>3. /\ \A x \in 1..(k + 1) : h[x] \in Nat /\ 1 <= h[x] /\ h[x] <= n + 1
      /\ \A x \in 1..k : /\ h[x] \in 1..n /\ h[x] < h[x + 1]
                         /\ e[x] \notin Separators => s[h[x]] = e[x] /\ h[x + 1] = h[x] + 1
                         /\ e[x] \in Separators =>
                              /\ e[x] = Gap /\ IsGap(s, h[x], h[x + 1] - 1)
                              /\ 1 < x /\ x < k /\ e[x + 1] \notin Separators
  BY LaysFacts DEF Cell
<1>4. \A i \in 1..n : i < g[1] \/ g[m + 1] <= i => s[i] \in Separators
  BY DEF Lays
<1>5. \A i \in 1..n : i < h[1] \/ h[k + 1] <= i => s[i] \in Separators
  BY DEF Lays
<1>6. d[1] \notin Separators /\ d[m] \notin Separators
      /\ e[1] \notin Separators /\ e[k] \notin Separators
  BY DEF Lays
<1>7. Rises(g, m) /\ Rises(h, k)
  BY LaysFacts
<1> HIDE DEF m, k, n
<1>8. ASSUME NEW x \in Failing, \A y \in Failing : x <= y
      PROVE  FALSE
  <2>1. x \in 1..(m + 1) /\ x <= k + 1 /\ g[x] # h[x] /\ x \in 1..(k + 1)
    BY <1>1
  <2>2. g[x] \in Nat /\ h[x] \in Nat
    BY <1>2, <1>3, <2>1
  <2>3. CASE x = 1
    <3>1. g[1] \in 1..n /\ h[1] \in 1..n /\ s[g[1]] \notin Separators /\ s[h[1]] \notin Separators
      <4>1. 1 \in 1..m /\ 1 \in 1..k
        BY <1>1
      <4> QED
        BY <1>2, <1>3, <1>6, <4>1
    <3>2. ~(g[1] < h[1]) /\ ~(h[1] < g[1])
      BY <1>4, <1>5, <3>1
    <3> QED
      BY <2>1, <2>2, <2>3, <3>2
  <2>4. CASE x # 1
    <3> DEFINE y == x - 1
    <3>1. y \in 1..m /\ y \in 1..k /\ y \in 1..(m + 1) /\ y <= k + 1 /\ ~(x <= y) /\ x = y + 1
      BY <1>1, <2>1, <2>4
    <3>2. y \notin Failing
      BY <1>8, <3>1
    <3>3. g[y] = h[y]
      BY <3>1, <3>2
    <3> HIDE DEF y, Failing
    <3>4. g[y] < g[x] /\ h[y] < h[x] /\ g[y] \in 1..n
      BY <1>2, <1>3, <3>1
    <3>5. s[g[y]] \in Separators <=> d[y] \in Separators
      <4>1. d[y] \in Separators => s[g[y]] \in Separators
        <5>1. ASSUME d[y] \in Separators PROVE g[y] \in g[y]..(g[y + 1] - 1)
          BY <1>1, <1>2, <2>2, <3>1, <3>4
        <5> QED
          BY <1>2, <3>1, <5>1 DEF IsGap
      <4> QED
        BY <1>2, <3>1, <4>1
    <3>6. s[h[y]] \in Separators <=> e[y] \in Separators
      <4>1. e[y] \in Separators => s[h[y]] \in Separators
        <5>1. ASSUME e[y] \in Separators PROVE h[y] \in h[y]..(h[y + 1] - 1)
          BY <1>1, <1>3, <2>2, <3>1, <3>3, <3>4
        <5> QED
          BY <1>3, <3>1, <5>1 DEF IsGap
      <4> QED
        BY <1>3, <3>1, <4>1
    <3>7. CASE d[y] \notin Separators
      <4>1. g[x] = g[y] + 1 /\ h[x] = h[y] + 1
        BY <1>2, <1>3, <3>1, <3>3, <3>5, <3>6, <3>7
      <4> QED
        BY <2>1, <3>3, <4>1
    <3>8. CASE d[y] \in Separators
      <4>1. e[y] \in Separators
        BY <3>3, <3>5, <3>6, <3>8
      <4>2. /\ IsGap(s, g[y], g[x] - 1) /\ y < m /\ d[x] \notin Separators
            /\ IsGap(s, h[y], h[x] - 1) /\ y < k /\ e[x] \notin Separators
        BY <1>2, <1>3, <3>1, <3>8, <4>1
      <4>3. x \in 1..m /\ x \in 1..k
        BY <1>1, <3>1, <4>2
      <4>4. s[g[x]] \notin Separators /\ s[h[x]] \notin Separators
        BY <1>2, <1>3, <4>2, <4>3
      <4>5. \A i \in g[y]..(g[x] - 1) : s[i] \in Separators
        BY <4>2 DEF IsGap
      <4>6. \A i \in g[y]..(h[x] - 1) : s[i] \in Separators
        BY <3>3, <4>2 DEF IsGap
      <4>7. g[y] \in Nat
        BY <1>1, <3>4
      <4>8. ~(g[x] < h[x])
        <5>1. g[x] < h[x] => g[x] \in g[y]..(h[x] - 1)
          BY <2>2, <3>4, <4>7
        <5> QED
          BY <4>4, <4>6, <5>1
      <4>9. ~(h[x] < g[x])
        <5>1. h[x] < g[x] => h[x] \in g[y]..(g[x] - 1)
          BY <2>2, <3>3, <3>4, <4>7
        <5> QED
          BY <4>4, <4>5, <5>1
      <4> QED
        BY <2>1, <2>2, <4>8, <4>9
    <3> QED
      BY <3>7, <3>8
  <2> QED
    BY <2>3, <2>4
<1>9. Failing = {}
  <2>1. Failing \subseteq Nat
    BY <1>1
  <2> HIDE DEF Failing
  <2> QED
    BY <1>8, <2>1, LeastNumber
<1>10. \A x \in 1..(m + 1) : x <= k + 1 => g[x] = h[x]
  BY <1>9
<1> HIDE DEF Failing
<1>11. ~(m < k)
  <2> SUFFICES ASSUME m < k PROVE FALSE
    OBVIOUS
  <2>1. m + 1 \in 1..(m + 1) /\ m + 1 <= k + 1 /\ m + 1 \in 1..(k + 1) /\ k \in 1..(k + 1)
        /\ k \in 1..k /\ m + 1 <= k
    BY <1>1
  <2>2. g[m + 1] = h[m + 1]
    BY <1>10, <2>1
  <2>3. h[k] \in 1..n /\ s[h[k]] \notin Separators
    BY <1>3, <1>6, <2>1
  <2>4. h[m + 1] <= h[k]
    <3>1. m + 1 < k => h[m + 1] < h[k]
      BY <1>1, <1>7, <2>1, LaterCells
    <3>2. m + 1 = k \/ m + 1 < k
      BY <1>1, <2>1
    <3>3. h[m + 1] \in Nat /\ h[k] \in Nat
      BY <1>3, <2>1
    <3> QED
      BY <3>1, <3>2, <3>3
  <2> QED
    BY <1>4, <2>2, <2>3, <2>4
<1>12. ~(k < m)
  <2> SUFFICES ASSUME k < m PROVE FALSE
    OBVIOUS
  <2>1. k + 1 \in 1..(k + 1) /\ k + 1 <= k + 1 /\ k + 1 \in 1..(m + 1) /\ m \in 1..(m + 1)
        /\ m \in 1..m /\ k + 1 <= m
    BY <1>1
  <2>2. g[k + 1] = h[k + 1]
    BY <1>10, <2>1
  <2>3. g[m] \in 1..n /\ s[g[m]] \notin Separators
    BY <1>2, <1>6, <2>1
  <2>4. g[k + 1] <= g[m]
    <3>1. k + 1 < m => g[k + 1] < g[m]
      BY <1>1, <1>7, <2>1, LaterCells
    <3>2. k + 1 = m \/ k + 1 < m
      BY <1>1, <2>1
    <3>3. g[k + 1] \in Nat /\ g[m] \in Nat
      BY <1>2, <2>1
    <3> QED
      BY <3>1, <3>2, <3>3
  <2> QED
    BY <1>5, <2>2, <2>3, <2>4
<1>13. m = k
  BY <1>1, <1>11, <1>12
<1>14. ASSUME NEW x \in 1..m PROVE d[x] = e[x]
  <2>1. g[x] = h[x] /\ g[x + 1] = h[x + 1] /\ x \in 1..k
    BY <1>1, <1>10, <1>13
  <2>2. g[x] \in Nat /\ g[x + 1] \in Nat /\ g[x] < g[x + 1]
    BY <1>1, <1>2
  <2>3. d[x] \in Separators => s[g[x]] \in Separators /\ d[x] = Gap
    <3>1. g[x] \in g[x]..(g[x + 1] - 1)
      BY <2>2
    <3> QED
      BY <1>2, <3>1 DEF IsGap
  <2>4. e[x] \in Separators => s[g[x]] \in Separators /\ e[x] = Gap
    <3>1. g[x] \in g[x]..(g[x + 1] - 1)
      BY <2>2
    <3> QED
      BY <1>3, <2>1, <3>1 DEF IsGap
  <2> QED
    BY <1>2, <1>3, <2>1, <2>3, <2>4
<1> QED
  BY <1>1, <1>13, <1>14 DEF m, k

\* A text that is laid out is collapsed to its layout, and it is not all separators.
LEMMA CollapseIsLayout ==
    ASSUME NEW s \in Seq(Token), NEW d, NEW g, Lays(s, d, g)
    PROVE  Collapse(s) = d /\ Ink(s) # {}
<1>1. 1 \in 1..Len(d) /\ g[1] \in 1..Len(s) /\ s[g[1]] = d[1] /\ d[1] \notin Separators
  <2>1. Len(d) \in Nat /\ Len(d) >= 1 /\ d[1] \notin Separators
    BY LaysFacts DEF Lays
  <2>2. 1 \in 1..Len(d)
    BY <2>1
  <2> QED
    BY <2>1, <2>2, LaysFacts
<1>2. Ink(s) # {}
  BY <1>1 DEF Ink
<1>3. PICK h : Lays(s, Collapse(s), h)
  BY <1>2, CollapseLays
<1> QED
  BY <1>2, <1>3, LaysOnce

\* The ends of the ink are the ends of the layout.
LEMMA InkEnds ==
    ASSUME NEW s \in Seq(Token), NEW d, NEW g, Lays(s, d, g)
    PROVE  Min(Ink(s)) = g[1] /\ Max(Ink(s)) = g[Len(d) + 1] - 1
<1> DEFINE m == Len(d)
           n == Len(s)
<1>1. m \in Nat /\ m >= 1 /\ n \in Nat
  BY LaysFacts
<1>2. 1 \in 1..m /\ m \in 1..m /\ m \in 1..(m + 1) /\ m + 1 \in 1..(m + 1)
  BY <1>1
<1>3. d[1] \notin Separators /\ d[m] \notin Separators
  BY DEF Lays
<1>4. g[1] \in 1..n /\ g[m] \in 1..n /\ g[m + 1] = g[m] + 1
      /\ s[g[1]] \notin Separators /\ s[g[m]] \notin Separators
  BY <1>2, <1>3, LaysFacts
<1>5. \A i \in 1..n : i < g[1] \/ g[m + 1] <= i => s[i] \in Separators
  BY DEF Lays
<1> HIDE DEF m, n
<1>6. \A i \in Ink(s) : i \in 1..n /\ ~(i < g[1]) /\ ~(g[m + 1] <= i)
  BY <1>5 DEF Ink, n
<1>7. g[1] \in Ink(s) /\ g[m] \in Ink(s)
  BY <1>4 DEF Ink, n
<1>8. /\ Min(Ink(s)) \in Ink(s) /\ \A i \in Ink(s) : Min(Ink(s)) <= i
      /\ Max(Ink(s)) \in Ink(s) /\ \A i \in Ink(s) : i <= Max(Ink(s))
  <2>1. Ink(s) \subseteq 1..n /\ Ink(s) # {}
    BY <1>6, <1>7
  <2> QED
    BY <1>1, <2>1, Ends
<1>9. Min(Ink(s)) \in Nat /\ Max(Ink(s)) \in Nat /\ g[1] \in Nat /\ g[m] \in Nat
  BY <1>1, <1>4, <1>6, <1>8
<1>10. Min(Ink(s)) = g[1]
  BY <1>6, <1>7, <1>8, <1>9
<1>11. Max(Ink(s)) = g[m]
  <2>1. g[m] <= Max(Ink(s)) /\ ~(g[m] + 1 <= Max(Ink(s)))
    BY <1>4, <1>6, <1>7, <1>8
  <2> QED
    BY <1>9, <2>1
<1> QED
  BY <1>4, <1>9, <1>10, <1>11 DEF m

-----------------------------------------------------------------------------
(* The words of a text and their letters *)

One(t, x, y, a) == SubSeq(t, x, y) = <<a>>
Three(t, x, y, a, b, c) == SubSeq(t, x, y) = <<a, b, c>>

\* One token of a text, as a part of it.
LEMMA SubSeqOne ==
    ASSUME NEW t \in Seq(Token), NEW x \in Nat, NEW y \in Nat, 1 <= x, y <= Len(t), NEW a
    PROVE  One(t, x, y, a) <=> x = y /\ t[x] = a
<1>1. CASE y < x
  <2>1. Len(SubSeq(t, x, y)) = 0
    BY <1>1
  <2>2. Len(<<a>>) = 1
    OBVIOUS
  <2> QED
    BY <1>1, <2>1, <2>2 DEF One, Three
<1>2. CASE x <= y
  <2> DEFINE u == SubSeq(t, x, y)
  <2>1. /\ u \in Seq(Token) /\ Len(u) = y - x + 1
        /\ \A i \in 1..(y - x + 1) : u[i] = t[x + i - 1]
    BY <1>2
  <2> HIDE DEF u
  <2>2. u[1] = t[x]
    BY <1>2, <2>1
  <2>3. u = <<a>> => Len(u) = 1 /\ u[1] = a
    OBVIOUS
  <2>4. Len(u) = 1 /\ u[1] = a => u = <<a>>
    BY <2>1
  <2> QED
    BY <2>1, <2>2, <2>3, <2>4 DEF u, One, Three
<1> QED
  BY <1>1, <1>2

\* Three tokens of a text, as a part of it.
LEMMA SubSeqThree ==
    ASSUME NEW t \in Seq(Token), NEW x \in Nat, NEW y \in Nat, 1 <= x, y <= Len(t),
           NEW a, NEW b, NEW c
    PROVE  Three(t, x, y, a, b, c) <=>
               y = x + 2 /\ t[x] = a /\ t[x + 1] = b /\ t[x + 2] = c
<1>1. CASE y < x
  <2>1. Len(SubSeq(t, x, y)) = 0
    BY <1>1
  <2>2. Len(<<a, b, c>>) = 3
    OBVIOUS
  <2> QED
    BY <1>1, <2>1, <2>2 DEF One, Three
<1>2. CASE x <= y
  <2> DEFINE u == SubSeq(t, x, y)
  <2>1. /\ u \in Seq(Token) /\ Len(u) = y - x + 1
        /\ \A i \in 1..(y - x + 1) : u[i] = t[x + i - 1]
    BY <1>2
  <2> HIDE DEF u
  <2>2. u = <<a, b, c>> => Len(u) = 3 /\ u[1] = a /\ u[2] = b /\ u[3] = c
    OBVIOUS
  <2>3. Len(u) = 3 /\ u[1] = a /\ u[2] = b /\ u[3] = c => u = <<a, b, c>>
    BY <2>1
  <2>4. CASE y = x + 2
    <3>1. u[1] = t[x] /\ u[2] = t[x + 1] /\ u[3] = t[x + 2] /\ Len(u) = 3
      BY <2>1, <2>4
    <3> QED
      BY <2>2, <2>3, <2>4, <3>1 DEF u, One, Three
  <2>5. CASE y # x + 2
    <3>1. Len(u) # 3
      BY <2>1, <2>5
    <3> QED
      BY <2>2, <2>5, <3>1 DEF u, One, Three
  <2> QED
    BY <2>4, <2>5
<1> QED
  BY <1>1, <1>2

\* Lower works token by token.
LEMMA LowerIs ==
    ASSUME NEW d \in Seq(Token)
    PROVE  /\ Lower(d) \in Seq(Token) /\ Len(Lower(d)) = Len(d)
           /\ \A i \in 1..Len(d) : Lower(d)[i] = LowerOf(d[i])
<1>1. \A t \in Token : LowerOf(t) \in Token
  <2>1. "review" \in Token /\ "th" \in Token
    BY DEF Token, Kinds, OrdinalSuffixes
  <2> QED
    BY <2>1 DEF LowerOf
<1> QED
  BY <1>1 DEF Lower

\* Only two of the tokens have another case.
LEMMA LowerOfIs ==
    /\ \A t : LowerOf(t) = IF t = "REVIEW" THEN "review" ELSE IF t = "TH" THEN "th" ELSE t
    /\ LowerOf(Gap) = Gap
<1>1. \A t : LowerOf(t) = IF t = "REVIEW" THEN "review" ELSE IF t = "TH" THEN "th" ELSE t
  BY DEF LowerOf
<1>2. Gap # "REVIEW" /\ Gap # "TH"
  BY DEF Gap
<1> QED
  BY <1>1, <1>2

\* The separators, one by one.
LEMMA SeparatorsAre == Separators = {"_", "#", Gap, "NEL"}
  BY DEF Separators, Folded, PySpace, Gap

\* No separator is a word, a number, an ordinal suffix or a hyphen.
Ordinary1 == Digits \cup OrdinalSuffixes
             \cup {"implementation", "implement", "review", "REVIEW", "fix", "bug", "bugfix", "-"}
\* The tokens that names, numbers and labels are made of are no separators.
LEMMA WordsAreInk == \A t \in Ordinary1 : t \notin Separators /\ t # Gap
<1>1. \A t \in Ordinary1 : t # Gap
  BY DEF Ordinary1, Digits, OrdinalSuffixes, Gap
<1> QED
  BY <1>1, SeparatorsAre DEF Ordinary1, Digits, OrdinalSuffixes

\* The names of a kind, from the place x to the place y of a lowercase text.
NameAt(t, x, y, k) ==
    \/ k = "implementation" /\ x = y /\ t[x] \in {"implementation", "implement"}
    \/ k = "review" /\ x = y /\ t[x] = "review"
    \/ k = "fix" /\ x = y /\ t[x] \in {"fix", "bugfix"}
    \/ k = "fix" /\ y = x + 2 /\ t[x] = "bug" /\ t[x + 1] \in {Gap, "-"} /\ t[x + 2] = "fix"

\* A name of a kind, token by token.
LEMMA KindWordsAre ==
    ASSUME NEW t \in Seq(Token), NEW x \in Nat, NEW y \in Nat, 1 <= x, y <= Len(t),
           NEW k \in Kinds
    PROVE  SubSeq(t, x, y) \in KindWords[k] <=> NameAt(t, x, y, k)
<1>1. ASSUME NEW a PROVE One(t, x, y, a) <=> x = y /\ t[x] = a
  BY SubSeqOne
<1>2. ASSUME NEW a, NEW b, NEW c
      PROVE  Three(t, x, y, a, b, c) <=> y = x + 2 /\ t[x] = a /\ t[x + 1] = b /\ t[x + 2] = c
  BY SubSeqThree
<1>3. /\ KindWords["implementation"] = {<<"implementation">>, <<"implement">>}
      /\ KindWords["review"] = {<<"review">>}
      /\ KindWords["fix"] = {<<"fix">>, <<"bug", Gap, "fix">>, <<"bug", "-", "fix">>, <<"bugfix">>}
  BY DEF KindWords, Gap
<1>4. CASE k = "implementation"
  <2>1. SubSeq(t, x, y) \in KindWords[k] <=>
            One(t, x, y, "implementation") \/ One(t, x, y, "implement")
    BY <1>3, <1>4 DEF One
  <2> QED
    BY <1>1, <1>4, <2>1 DEF NameAt
<1>5. CASE k = "review"
  <2>1. SubSeq(t, x, y) \in KindWords[k] <=> One(t, x, y, "review")
    BY <1>3, <1>5 DEF One
  <2> QED
    BY <1>1, <1>5, <2>1 DEF NameAt
<1>6. CASE k = "fix"
  <2>1. SubSeq(t, x, y) \in KindWords[k] <=>
            \/ One(t, x, y, "fix") \/ One(t, x, y, "bugfix")
            \/ Three(t, x, y, "bug", Gap, "fix") \/ Three(t, x, y, "bug", "-", "fix")
    BY <1>3, <1>6 DEF One, Three
  <2> QED
    BY <1>1, <1>2, <1>6, <2>1 DEF NameAt
<1> QED
  BY <1>4, <1>5, <1>6 DEF Kinds

\* The same for the names as they are written.
LEMMA NamesAre ==
    ASSUME NEW s \in Seq(Token), NEW i \in Nat, NEW j \in Nat, 1 <= i, j <= Len(s),
           NEW k \in Kinds
    PROVE  IsName(s, i, j, k) <=>
               \/ k = "implementation" /\ i = j /\ s[i] \in {"implementation", "implement"}
               \/ k = "review" /\ i = j /\ s[i] \in {"review", "REVIEW"}
               \/ k = "fix" /\ i = j /\ s[i] \in {"fix", "bugfix"}
               \/ k = "fix" /\ j = i + 2 /\ s[i] = "bug" /\ s[i + 1] = "-" /\ s[i + 2] = "fix"
               \/ k = "fix" /\ i < j /\ s[i] = "bug" /\ IsGap(s, i + 1, j - 1) /\ s[j] = "fix"
<1>1. ASSUME NEW a PROVE One(s, i, j, a) <=> i = j /\ s[i] = a
  BY SubSeqOne
<1>2. ASSUME NEW a, NEW b, NEW c
      PROVE  Three(s, i, j, a, b, c) <=> j = i + 2 /\ s[i] = a /\ s[i + 1] = b /\ s[i + 2] = c
  BY SubSeqThree
<1>3. /\ Words["implementation"] = {<<"implementation">>, <<"implement">>}
      /\ Words["review"] = {<<"review">>, <<"REVIEW">>}
      /\ Words["fix"] = {<<"fix">>, <<"bugfix">>, <<"bug", "-", "fix">>}
  BY DEF Words, Kinds
<1>4. IsName(s, i, j, k) <=>
          \/ SubSeq(s, i, j) \in Words[k]
          \/ k = "fix" /\ i < j /\ s[i] = "bug" /\ IsGap(s, i + 1, j - 1) /\ s[j] = "fix"
  BY DEF IsName
<1>5. CASE k = "implementation"
  <2>1. SubSeq(s, i, j) \in Words[k] <=>
            One(s, i, j, "implementation") \/ One(s, i, j, "implement")
    BY <1>3, <1>5 DEF One
  <2> QED
    BY <1>1, <1>4, <1>5, <2>1
<1>6. CASE k = "review"
  <2>1. SubSeq(s, i, j) \in Words[k] <=> One(s, i, j, "review") \/ One(s, i, j, "REVIEW")
    BY <1>3, <1>6 DEF One
  <2> QED
    BY <1>1, <1>4, <1>6, <2>1
<1>7. CASE k = "fix"
  <2>1. SubSeq(s, i, j) \in Words[k] <=>
            One(s, i, j, "fix") \/ One(s, i, j, "bugfix") \/ Three(s, i, j, "bug", "-", "fix")
    BY <1>3, <1>7 DEF One, Three
  <2> QED
    BY <1>1, <1>2, <1>4, <1>7, <2>1
<1> QED
  BY <1>5, <1>6, <1>7 DEF Kinds

-----------------------------------------------------------------------------
(* A text read cell by cell *)

\* The token at which a cell begins tells what the cell is.
LEMMA AtCell ==
    ASSUME NEW s \in Seq(Token), NEW d, NEW g, Lays(s, d, g), NEW x \in 1..Len(d)
    PROVE  /\ s[g[x]] \notin Separators =>
                d[x] \notin Separators /\ d[x] = s[g[x]] /\ g[x + 1] = g[x] + 1
           /\ s[g[x]] \in Separators =>
                /\ d[x] = Gap /\ 1 < x /\ x < Len(d)
                /\ d[x + 1] \notin Separators /\ s[g[x + 1]] \notin Separators
           /\ d[x] = Gap <=> s[g[x]] \in Separators
           /\ d[x] = Gap => IsGap(s, g[x], g[x + 1] - 1)
           /\ g[x] \in Nat /\ g[x + 1] \in Nat /\ g[x] < g[x + 1]
<1> DEFINE m == Len(d)
           n == Len(s)
<1>1. m \in Nat /\ m >= 1 /\ n \in Nat
  BY LaysFacts
<1>2. \A y \in 1..(m + 1) : g[y] \in Nat /\ 1 <= g[y] /\ g[y] <= n + 1
  BY LaysFacts
<1>3. \A y \in 1..m : /\ g[y] \in 1..n /\ g[y] < g[y + 1]
                      /\ d[y] \notin Separators => s[g[y]] = d[y] /\ g[y + 1] = g[y] + 1
                      /\ d[y] \in Separators =>
                           /\ d[y] = Gap /\ IsGap(s, g[y], g[y + 1] - 1)
                           /\ 1 < y /\ y < m /\ d[y + 1] \notin Separators
  BY LaysFacts DEF Cell
<1>4. x \in 1..m
  OBVIOUS
<1>5. m = Len(d)
  OBVIOUS
<1> HIDE DEF m, n
<1>6. g[x] \in Nat /\ g[x + 1] \in Nat /\ g[x] < g[x + 1]
  <2>1. x \in 1..(m + 1) /\ x + 1 \in 1..(m + 1)
    BY <1>1, <1>4
  <2> QED
    BY <1>2, <1>3, <1>4, <2>1
<1>7. d[x] \in Separators => s[g[x]] \in Separators
  <2>1. g[x] \in g[x]..(g[x + 1] - 1)
    BY <1>6
  <2> QED
    BY <1>3, <1>4, <2>1 DEF IsGap
<1>8. d[x] \in Separators => s[g[x + 1]] \notin Separators
  <2>1. d[x] \in Separators => x + 1 \in 1..m
    BY <1>1, <1>3, <1>4
  <2> QED
    BY <1>3, <1>4, <2>1
<1> QED
  BY <1>3, <1>4, <1>5, <1>6, <1>7, <1>8, GapSeparates

\* Different cells are in different places, and what is before the end is in a cell.
LEMMA Placed ==
    ASSUME NEW s \in Seq(Token), NEW d, NEW g, Lays(s, d, g),
           NEW x \in 1..(Len(d) + 1), NEW y \in 1..(Len(d) + 1)
    PROVE  /\ g[x] = g[y] => x = y
           /\ g[x] < g[Len(d) + 1] => x \in 1..Len(d)
<1>1. Len(d) \in Nat /\ Rises(g, Len(d)) /\ g[x] \in Nat /\ g[y] \in Nat
  BY LaysFacts
<1>2. x < y => g[x] < g[y]
  BY <1>1, LaterCells
<1>3. y < x => g[y] < g[x]
  BY <1>1, LaterCells
<1> QED
  BY <1>1, <1>2, <1>3

\* A gap of the text that starts with a cell ends with it.
LEMMA GapEnds ==
    ASSUME NEW s \in Seq(Token), NEW d, NEW g, Lays(s, d, g), NEW x \in 1..Len(d),
           NEW b \in Nat, IsGap(s, g[x], b), s[b + 1] \notin Separators
    PROVE  g[x + 1] = b + 1 /\ d[x] = Gap /\ 1 < x /\ x < Len(d)
<1>1. g[x] \in Nat /\ g[x + 1] \in Nat /\ g[x] < g[x + 1]
  BY AtCell
<1>2. g[x] <= b /\ \A i \in g[x]..b : s[i] \in Separators
  BY DEF IsGap
<1>3. s[g[x]] \in Separators
  BY <1>1, <1>2
<1>4. /\ d[x] = Gap /\ 1 < x /\ x < Len(d) /\ s[g[x + 1]] \notin Separators
      /\ IsGap(s, g[x], g[x + 1] - 1)
  BY <1>3, AtCell
<1>5. \A i \in g[x]..(g[x + 1] - 1) : s[i] \in Separators
  BY <1>4 DEF IsGap
<1>6. ~(b + 1 < g[x + 1])
  <2>1. b + 1 < g[x + 1] => b + 1 \in g[x]..(g[x + 1] - 1)
    BY <1>1, <1>2
  <2> QED
    BY <1>5, <2>1
<1>7. ~(g[x + 1] < b + 1)
  <2>1. g[x + 1] < b + 1 => g[x + 1] \in g[x]..b
    BY <1>1
  <2> QED
    BY <1>2, <1>4, <2>1
<1> QED
  BY <1>1, <1>4, <1>6, <1>7

\* A name in the text is a name in its cells.
LEMMA NameCells ==
    ASSUME NEW s \in Seq(Token), NEW d, NEW g, Lays(s, d, g), NEW x \in 1..Len(d),
           NEW j \in Nat, j < g[Len(d) + 1], NEW k \in Kinds, IsName(s, g[x], j, k)
    PROVE  \E y \in x..Len(d) : g[y + 1] = j + 1 /\ NameAt(Lower(d), x, y, k)
<1> DEFINE m == Len(d)
           t == Lower(d)
           i == g[x]
<1>1. m \in Nat /\ m >= 1 /\ d \in Seq(Token) /\ Len(s) \in Nat
  BY LaysFacts
<1>2. i \in Nat /\ 1 <= i /\ j <= Len(s)
  <2>1. x \in 1..(m + 1) /\ m + 1 \in 1..(m + 1)
    BY <1>1
  <2>2. g[x] \in Nat /\ 1 <= g[x] /\ g[m + 1] \in Nat /\ g[m + 1] <= Len(s) + 1
    BY <2>1, LaysFacts
  <2> QED
    BY <1>1, <2>2
<1>3. \A y \in 1..m : t[y] = LowerOf(d[y])
  BY <1>1, LowerIs
<1>4. \/ k = "implementation" /\ i = j /\ s[i] \in {"implementation", "implement"}
      \/ k = "review" /\ i = j /\ s[i] \in {"review", "REVIEW"}
      \/ k = "fix" /\ i = j /\ s[i] \in {"fix", "bugfix"}
      \/ k = "fix" /\ j = i + 2 /\ s[i] = "bug" /\ s[i + 1] = "-" /\ s[i + 2] = "fix"
      \/ k = "fix" /\ i < j /\ s[i] = "bug" /\ IsGap(s, i + 1, j - 1) /\ s[j] = "fix"
  BY <1>2, NamesAre
<1>5. s[i] \notin Separators
  BY <1>4, WordsAreInk DEF Ordinary1
<1>6. d[x] = s[i] /\ g[x + 1] = i + 1
  BY <1>5, AtCell
<1>7. t[x] = LowerOf(s[i])
  BY <1>3, <1>6
<1>8. CASE i = j /\ ( \/ k = "implementation" /\ s[i] \in {"implementation", "implement"}
                      \/ k = "review" /\ s[i] \in {"review", "REVIEW"}
                      \/ k = "fix" /\ s[i] \in {"fix", "bugfix"})
  <2>1. NameAt(t, x, x, k)
    BY <1>7, <1>8, LowerOfIs DEF NameAt
  <2>2. x \in x..m
    BY <1>1
  <2> QED
    BY <1>6, <1>8, <2>1, <2>2
\* The cell after that of "bug".
<1>9. ASSUME k = "fix", s[i] = "bug", i < j
      PROVE  x + 1 \in 1..m /\ t[x] = "bug" /\ t[x + 1] = LowerOf(d[x + 1])
  <2>1. x + 1 \in 1..(m + 1)
    BY <1>1
  <2>2. g[x + 1] < g[m + 1]
    <3>1. g[m + 1] \in Nat
      <4>1. m + 1 \in 1..(m + 1)
        BY <1>1
      <4> QED
        BY <4>1, LaysFacts
    <3>2. g[x + 1] <= j /\ j < g[m + 1] /\ g[x + 1] \in Nat
      BY <1>2, <1>6, <1>9
    <3> QED
      BY <3>1, <3>2
  <2>3. x + 1 \in 1..m
    BY <2>1, <2>2, Placed
  <2> QED
    BY <1>3, <1>7, <1>9, <2>3, LowerOfIs
<1>10. CASE k = "fix" /\ j = i + 2 /\ s[i] = "bug" /\ s[i + 1] = "-" /\ s[i + 2] = "fix"
  <2>1. x + 1 \in 1..m /\ t[x] = "bug" /\ t[x + 1] = LowerOf(d[x + 1])
    BY <1>2, <1>9, <1>10
  <2>2. s[g[x + 1]] = "-" /\ "-" \notin Separators /\ "fix" \notin Separators
    BY <1>6, <1>10, WordsAreInk DEF Ordinary1
  <2>3. d[x + 1] = "-" /\ g[(x + 1) + 1] = g[x + 1] + 1
    BY <2>1, <2>2, AtCell
  <2>4. (x + 1) + 1 = x + 2 /\ x + 2 \in 1..(m + 1) /\ (x + 2) + 1 = x + 3
    BY <1>1, <2>1
  <2>5. g[x + 2] = i + 2
    BY <1>2, <1>6, <2>3, <2>4
  <2>6. x + 2 \in 1..m
    BY <1>10, <2>4, <2>5, Placed
  <2>7. d[x + 2] = "fix" /\ g[(x + 2) + 1] = g[x + 2] + 1
    <3>1. s[g[x + 2]] = "fix"
      BY <1>10, <2>5
    <3> QED
      BY <2>2, <2>6, <3>1, AtCell
  <2>8. t[x + 1] = "-" /\ t[x + 2] = "fix"
    BY <1>3, <2>1, <2>3, <2>6, <2>7, LowerOfIs
  <2>9. NameAt(t, x, x + 2, k)
    BY <1>10, <2>1, <2>8 DEF NameAt
  <2>10. x + 2 \in x..m /\ g[(x + 2) + 1] = j + 1
    BY <1>1, <1>2, <1>10, <2>5, <2>6, <2>7
  <2> QED
    BY <2>9, <2>10
<1>11. CASE k = "fix" /\ i < j /\ s[i] = "bug" /\ IsGap(s, i + 1, j - 1) /\ s[j] = "fix"
  <2>1. x + 1 \in 1..m /\ t[x] = "bug" /\ t[x + 1] = LowerOf(d[x + 1])
    BY <1>9, <1>11
  <2>2. s[(j - 1) + 1] \notin Separators /\ j - 1 \in Nat /\ (j - 1) + 1 = j
    <3>1. j - 1 \in Nat /\ (j - 1) + 1 = j
      BY <1>2, <1>11
    <3>2. s[j] \notin Separators
      BY <1>11, WordsAreInk DEF Ordinary1
    <3> QED
      BY <3>1, <3>2
  <2>3. g[(x + 1) + 1] = (j - 1) + 1 /\ d[x + 1] = Gap /\ x + 1 < m
    <3>1. IsGap(s, g[x + 1], j - 1)
      BY <1>6, <1>11
    <3> QED
      BY <2>1, <2>2, <3>1, GapEnds
  <2>4. (x + 1) + 1 = x + 2 /\ x + 2 \in 1..m /\ x + 2 \in x..m
    BY <1>1, <2>1, <2>3
  <2>5. g[x + 2] = j
    BY <2>2, <2>3, <2>4
  <2>6. d[x + 2] = "fix" /\ g[(x + 2) + 1] = j + 1
    <3>1. s[g[x + 2]] = "fix" /\ s[g[x + 2]] \notin Separators
      <4>1. s[j] = "fix" /\ s[j] \notin Separators
        BY <1>11, <2>2
      <4> QED
        BY <2>5, <4>1
    <3>2. d[x + 2] = s[g[x + 2]] /\ g[(x + 2) + 1] = g[x + 2] + 1
      BY <2>4, <3>1, AtCell
    <3> QED
      BY <2>5, <3>1, <3>2
  <2>7. t[x + 1] = Gap /\ t[x + 2] = "fix"
    BY <1>3, <2>1, <2>3, <2>4, <2>6, LowerOfIs
  <2>8. NameAt(t, x, x + 2, k)
    BY <1>11, <2>1, <2>7 DEF NameAt
  <2> QED
    BY <2>4, <2>6, <2>8
<1> QED
  BY <1>4, <1>8, <1>10, <1>11

\* And the other way.
LEMMA CellsName ==
    ASSUME NEW s \in Seq(Token), NEW d, NEW g, Lays(s, d, g),
           NEW x \in 1..Len(d), NEW y \in 1..Len(d), NEW k \in Kinds, NameAt(Lower(d), x, y, k)
    PROVE  IsName(s, g[x], g[y + 1] - 1, k)
<1> DEFINE m == Len(d)
           t == Lower(d)
           i == g[x]
           j == g[y + 1] - 1
<1>1. m \in Nat /\ d \in Seq(Token) /\ Len(s) \in Nat
  BY LaysFacts
<1>2. \A z \in 1..m : t[z] = LowerOf(d[z])
  BY <1>1, LowerIs
<1>3. i \in Nat /\ 1 <= i /\ j \in Nat /\ j <= Len(s)
  <2>1. x \in 1..(m + 1) /\ y + 1 \in 1..(m + 1) /\ y \in 1..(m + 1)
    BY <1>1
  <2>2. /\ g[x] \in Nat /\ 1 <= g[x] /\ g[y + 1] \in Nat /\ g[y + 1] <= Len(s) + 1
        /\ 1 <= g[y + 1]
    BY <2>1, LaysFacts
  <2> QED
    BY <1>1, <2>2
\* A cell whose lowercase is no separator is a token as it is written.
<1>4. ASSUME NEW z \in 1..m, LowerOf(d[z]) \notin Separators
      PROVE  s[g[z]] = d[z] /\ g[z + 1] = g[z] + 1
  <2>1. d[z] # Gap
    BY <1>4, LowerOfIs, GapSeparates
  <2>2. s[g[z]] \notin Separators
    BY <2>1, AtCell
  <2> QED
    BY <2>2, AtCell
<1>5. ASSUME x = y, LowerOf(d[x]) \notin Separators
      PROVE  i = j /\ s[i] = d[x]
  BY <1>3, <1>4, <1>5
<1>6. CASE x = y /\ ( \/ k = "implementation" /\ t[x] \in {"implementation", "implement"}
                      \/ k = "review" /\ t[x] = "review"
                      \/ k = "fix" /\ t[x] \in {"fix", "bugfix"})
  <2>1. LowerOf(d[x]) = t[x] /\ t[x] \notin Separators
    BY <1>2, <1>6, WordsAreInk DEF Ordinary1
  <2>2. i = j /\ s[i] = d[x]
    BY <1>5, <1>6, <2>1
  <2>3. \/ k = "implementation" /\ s[i] \in {"implementation", "implement"}
        \/ k = "review" /\ s[i] \in {"review", "REVIEW"}
        \/ k = "fix" /\ s[i] \in {"fix", "bugfix"}
    BY <1>6, <2>1, <2>2, LowerOfIs
  <2> HIDE DEF i, j
  <2>4. IsName(s, i, j, k)
    BY <1>3, <2>2, <2>3, NamesAre
  <2> QED
    BY <2>4 DEF i, j
<1>7. CASE k = "fix" /\ y = x + 2 /\ t[x] = "bug" /\ t[x + 1] \in {Gap, "-"} /\ t[x + 2] = "fix"
  <2>1. x + 1 \in 1..m /\ x + 2 \in 1..m /\ (x + 1) + 1 = x + 2 /\ (x + 2) + 1 = y + 1
    BY <1>1, <1>7
  <2>2. LowerOf(d[x]) = "bug" /\ LowerOf(d[x + 2]) = "fix" /\ LowerOf(d[x + 1]) \in {Gap, "-"}
    BY <1>2, <1>7, <2>1
  <2>3. "bug" \notin Separators /\ "fix" \notin Separators /\ "-" \notin Separators
    BY WordsAreInk DEF Ordinary1
  <2>4. s[i] = "bug" /\ g[x + 1] = i + 1
    BY <1>4, <2>2, <2>3, LowerOfIs
  <2>5. s[g[x + 2]] = "fix" /\ g[y + 1] = g[x + 2] + 1
    BY <1>4, <2>1, <2>2, <2>3, LowerOfIs
  <2>6. g[x + 2] \in Nat /\ g[x + 1] \in Nat /\ g[x + 1] < g[x + 2]
    BY <2>1, AtCell
  <2>7. j = g[x + 2]
    BY <2>5, <2>6
  <2>8. CASE LowerOf(d[x + 1]) = "-"
    <3>1. s[i + 1] = "-" /\ g[x + 2] = i + 2
      <4>1. d[x + 1] = "-"
        BY <2>8, LowerOfIs
      <4>2. s[g[x + 1]] = "-" /\ g[(x + 1) + 1] = g[x + 1] + 1
        BY <1>4, <2>1, <2>3, <2>8, <4>1
      <4>3. g[x + 2] = g[x + 1] + 1
        BY <2>1, <4>2
      <4> QED
        BY <1>3, <2>4, <4>2, <4>3
    <3>2. j = i + 2 /\ s[i + 2] = "fix"
      BY <2>5, <2>7, <3>1
    <3> HIDE DEF i, j
    <3>3. IsName(s, i, j, k)
      BY <1>3, <1>7, <2>4, <3>1, <3>2, NamesAre
    <3> QED
      BY <3>3 DEF i, j
  <2>9. CASE LowerOf(d[x + 1]) = Gap
    <3>1. d[x + 1] = Gap
      <4>1. Gap # "review" /\ Gap # "th"
        BY DEF Gap
      <4> QED
        BY <2>9, <4>1, LowerOfIs
    <3>2. IsGap(s, g[x + 1], g[x + 2] - 1)
      BY <2>1, <3>1, AtCell
    <3>3. IsGap(s, i + 1, j - 1) /\ i < j /\ s[j] = "fix"
      <4>1. i + 1 = g[x + 1] /\ j - 1 = g[x + 2] - 1
        BY <2>4, <2>7
      <4>2. i < j
        BY <1>3, <2>6, <2>7, <4>1
      <4>3. s[j] = "fix"
        BY <2>5, <2>7
      <4> HIDE DEF i, j
      <4> QED
        BY <3>2, <4>1, <4>2, <4>3
    <3> HIDE DEF i, j
    <3>4. IsName(s, i, j, k)
      BY <1>3, <1>7, <2>4, <3>3, NamesAre
    <3> QED
      BY <3>4 DEF i, j
  <2> QED
    BY <2>2, <2>8, <2>9
<1> QED
  BY <1>6, <1>7 DEF NameAt

-----------------------------------------------------------------------------
(* What a lowercase text is parsed to *)

\* A name has one kind, and a number neither begins nor ends it.
LEMMA NameOnce ==
    ASSUME NEW t, NEW x, NEW y, NEW k \in Kinds, NameAt(t, x, y, k)
    PROVE  /\ \A l \in Kinds : NameAt(t, x, y, l) => l = k
           /\ t[x] \notin Digits /\ t[y] \notin Digits
<1>1. /\ t[x] \in {"implementation", "implement", "review", "fix", "bugfix", "bug"}
      /\ t[y] \in {"implementation", "implement", "review", "fix", "bugfix"}
  BY DEF NameAt
<1>2. \A l \in Kinds : NameAt(t, x, y, l) => l = k
  BY DEF NameAt
<1> QED
  BY <1>1, <1>2 DEF Digits

\* The kind of a name is the one it is a name of.
LEMMA KindByWordIs ==
    ASSUME NEW t \in Seq(Token), NEW x \in Nat, NEW y \in Nat, 1 <= x, y <= Len(t)
    PROVE  /\ IsKind(SubSeq(t, x, y)) <=> \E k \in Kinds : NameAt(t, x, y, k)
           /\ \A k \in Kinds : NameAt(t, x, y, k) => KindByWord(SubSeq(t, x, y)) = k
<1>1. \A k \in Kinds : SubSeq(t, x, y) \in KindWords[k] <=> NameAt(t, x, y, k)
  BY KindWordsAre
<1>2. ASSUME NEW k \in Kinds, NameAt(t, x, y, k)
      PROVE  KindByWord(SubSeq(t, x, y)) = k
  <2>1. \A l \in Kinds : SubSeq(t, x, y) \in KindWords[l] <=> l = k
    BY <1>1, <1>2, NameOnce
  <2> QED
    BY <2>1 DEF KindByWord
<1> QED
  BY <1>1, <1>2 DEF IsKind

\* What it means for a text to say a kind k and an occurrence n.
ParsesAs(t, k, n) ==
    \/ n = -1 /\ NameAt(t, 1, Len(t), k)
    \/ /\ n \in Numbers /\ Len(t) > 3
       /\ t[1] \in DigitsOf(n) /\ t[2] = SuffixFor(n) /\ t[2] \in OrdinalSuffixes /\ t[3] = Gap
       /\ NameAt(t, 4, Len(t), k)
    \/ /\ n \in Numbers /\ Len(t) > 2
       /\ t[Len(t)] \in DigitsOf(n) /\ t[Len(t) - 1] \in {"-", Gap}
       /\ NameAt(t, 1, Len(t) - 2, k)

\* Every number written is one of the numbers, and is among its own numerals.
LEMMA NumbersAre == \A c \in Digits : NumberOf[c] \in Numbers /\ c \in DigitsOf(NumberOf[c])
<1>1. \A c \in Digits : NumberOf[c] \in Numbers
  BY DEF Digits, NumberOf, Numbers
<1> QED
  BY <1>1 DEF DigitsOf

\* What a parse says.
LEMMA ParsedIs ==
    /\ \A k, n, l, o : Parsed(k, n) = Parsed(l, o) <=> k = l /\ n = o
    /\ \A k \in Kinds : \A n : Parsed(k, n) # Unrecognized
    /\ \A k, n : Parsed(k, n).kind = k /\ Parsed(k, n).occurrence = n
                 /\ (Parsed(k, n).bad_occurrence <=> n = 0)
<1>1. \A k, n, l, o : Parsed(k, n) = Parsed(l, o) => k = l /\ n = o
  <2> SUFFICES ASSUME NEW k, NEW n, NEW l, NEW o, Parsed(k, n) = Parsed(l, o)
               PROVE  k = l /\ n = o
    OBVIOUS
  <2>1. Parsed(k, n).kind = Parsed(l, o).kind /\ Parsed(k, n).occurrence = Parsed(l, o).occurrence
    OBVIOUS
  <2> QED
    BY <2>1 DEF Parsed
<1>2. \A k \in Kinds : k # "none"
  BY DEF Kinds
<1> QED
  BY <1>1, <1>2 DEF Parsed, Unrecognized

\* What the parser makes of a text, by the places of its name and its number.
LEMMA ParseIs ==
    ASSUME NEW t \in Seq(Token), t # <<>>
    PROVE  /\ \A k \in Kinds, n \in Numbers \cup {-1} :
                ParsesAs(t, k, n) <=> ParsePhase(t) = Parsed(k, n)
           /\ \/ ParsePhase(t) = Unrecognized
              \/ \E k \in Kinds, n \in Numbers \cup {-1} : ParsePhase(t) = Parsed(k, n)
<1> DEFINE m == Len(t)
           A == \E k \in Kinds : NameAt(t, 1, m, k)
           B == /\ m > 3 /\ t[1] \in Digits /\ t[2] \in OrdinalSuffixes /\ t[3] = Gap
                /\ t[2] = SuffixFor(NumberOf[t[1]])
                /\ \E k \in Kinds : NameAt(t, 4, m, k)
           C == /\ m > 2 /\ t[m] \in Digits /\ t[m - 1] \in {"-", Gap}
                /\ \E k \in Kinds : NameAt(t, 1, m - 2, k)
<1>1. m \in Nat /\ m >= 1
  OBVIOUS
<1>2. SubSeq(t, 1, m) = t
  BY <1>1
<1>3. IsKind(t) <=> A
  <2>1. IsKind(SubSeq(t, 1, m)) <=> A
    BY <1>1, KindByWordIs
  <2> QED
    BY <1>2, <2>1
<1>4. IsLeadingOrdinal(t) <=> B
  <2>1. IsLeadingOrdinal(t) <=>
            /\ m > 3 /\ t[1] \in Digits /\ t[2] \in OrdinalSuffixes /\ t[3] = Gap
            /\ t[2] = SuffixFor(NumberOf[t[1]]) /\ IsKind(SubSeq(t, 4, m))
    BY DEF IsLeadingOrdinal, EnglishOrdinal, Gap
  <2>2. IsKind(SubSeq(t, 4, m)) <=> \E k \in Kinds : NameAt(t, 4, m, k)
    BY <1>1, KindByWordIs
  <2> QED
    BY <2>1, <2>2
<1>5. IsTrailingNumber(t) <=> C
  <2>1. IsTrailingNumber(t) <=>
            /\ m > 2 /\ t[m] \in Digits /\ t[m - 1] \in {"-", Gap}
            /\ IsKind(SubSeq(t, 1, m - 2))
    BY DEF IsTrailingNumber, Gap
  <2>2. m > 2 => (IsKind(SubSeq(t, 1, m - 2)) <=> \E k \in Kinds : NameAt(t, 1, m - 2, k))
    <3>1. m > 2 => m - 2 \in Nat /\ m - 2 <= m
      BY <1>1
    <3> QED
      BY <1>1, <3>1, KindByWordIs
  <2> QED
    BY <2>1, <2>2
<1>6. A => ~B /\ ~C
  BY NameOnce
<1>7. B => ~C
  BY NameOnce
<1>8. ParsePhase(t) =
          CASE A -> Parsed(KindByWord(t), -1)
            [] B -> Parsed(KindByWord(SubSeq(t, 4, m)), NumberOf[t[1]])
            [] C -> Parsed(KindByWord(SubSeq(t, 1, m - 2)), NumberOf[t[m]])
            [] OTHER -> Unrecognized
  BY <1>3, <1>4, <1>5 DEF ParsePhase, Last
<1>9. \A n \in Numbers : n # -1
  BY DEF Numbers
\* Which of the three ways a text says something.
<1>10. ASSUME NEW k \in Kinds, NEW n \in Numbers \cup {-1}
       PROVE  ParsesAs(t, k, n) <=>
                  \/ A /\ n = -1 /\ NameAt(t, 1, m, k)
                  \/ B /\ n = NumberOf[t[1]] /\ NameAt(t, 4, m, k)
                  \/ C /\ n = NumberOf[t[m]] /\ NameAt(t, 1, m - 2, k)
  <2>1. \A c : n \in Numbers => (c \in DigitsOf(n) <=> c \in Digits /\ NumberOf[c] = n)
    BY DEF DigitsOf
  <2> QED
    BY <1>9, <2>1, NumbersAre DEF ParsesAs
<1>11. \A k \in Kinds : NameAt(t, 1, m, k) => KindByWord(t) = k
  <2>1. \A k \in Kinds : NameAt(t, 1, m, k) => KindByWord(SubSeq(t, 1, m)) = k
    BY <1>1, KindByWordIs
  <2> QED
    BY <1>2, <2>1
<1>12. \A k \in Kinds : NameAt(t, 4, m, k) => KindByWord(SubSeq(t, 4, m)) = k
  BY <1>1, KindByWordIs
<1>13. m > 2 => \A k \in Kinds :
           NameAt(t, 1, m - 2, k) => KindByWord(SubSeq(t, 1, m - 2)) = k
  <2>1. m > 2 => m - 2 \in Nat /\ m - 2 <= m
    BY <1>1
  <2> QED
    BY <1>1, <2>1, KindByWordIs
<1>14. CASE A
  <2>1. PICK l \in Kinds : NameAt(t, 1, m, l)
    BY <1>14
  <2>2. ParsePhase(t) = Parsed(l, -1)
    BY <1>6, <1>8, <1>11, <1>14, <2>1
  <2>3. \A k \in Kinds : NameAt(t, 1, m, k) <=> k = l
    BY <2>1, NameOnce
  <2> HIDE DEF A, B, C, m
  <2>4. ASSUME NEW k \in Kinds, NEW n \in Numbers \cup {-1}
        PROVE  ParsesAs(t, k, n) <=> ParsePhase(t) = Parsed(k, n)
    BY <1>6, <1>10, <1>14, <2>2, <2>3, ParsedIs
  <2> QED
    BY <2>2, <2>4
<1>15. CASE B
  <2>1. PICK l \in Kinds : NameAt(t, 4, m, l)
    BY <1>15
  <2>2. ParsePhase(t) = Parsed(l, NumberOf[t[1]]) /\ NumberOf[t[1]] \in Numbers
    BY <1>6, <1>7, <1>8, <1>12, <1>15, <2>1, NumbersAre
  <2>3. \A k \in Kinds : NameAt(t, 4, m, k) <=> k = l
    BY <2>1, NameOnce
  <2> HIDE DEF A, B, C, m
  <2>4. ASSUME NEW k \in Kinds, NEW n \in Numbers \cup {-1}
        PROVE  ParsesAs(t, k, n) <=> ParsePhase(t) = Parsed(k, n)
    BY <1>6, <1>7, <1>10, <1>15, <2>2, <2>3, ParsedIs
  <2> QED
    BY <2>2, <2>4
<1>16. CASE C
  <2>1. PICK l \in Kinds : NameAt(t, 1, m - 2, l)
    BY <1>16
  <2>2. ParsePhase(t) = Parsed(l, NumberOf[t[m]]) /\ NumberOf[t[m]] \in Numbers
    BY <1>6, <1>7, <1>8, <1>13, <1>16, <2>1, NumbersAre
  <2>3. \A k \in Kinds : NameAt(t, 1, m - 2, k) <=> k = l
    BY <2>1, NameOnce
  <2> HIDE DEF A, B, C, m
  <2>4. ASSUME NEW k \in Kinds, NEW n \in Numbers \cup {-1}
        PROVE  ParsesAs(t, k, n) <=> ParsePhase(t) = Parsed(k, n)
    BY <1>6, <1>7, <1>10, <1>16, <2>2, <2>3, ParsedIs
  <2> QED
    BY <2>2, <2>4
<1>17. CASE ~A /\ ~B /\ ~C
  <2> HIDE DEF A, B, C, m
  <2>1. ParsePhase(t) = Unrecognized
    BY <1>8, <1>17
  <2>2. ASSUME NEW k \in Kinds, NEW n \in Numbers \cup {-1}
        PROVE  ParsesAs(t, k, n) <=> ParsePhase(t) = Parsed(k, n)
    BY <1>10, <1>17, <2>1, ParsedIs
  <2> QED
    BY <2>1, <2>2
<1> QED
  BY <1>14, <1>15, <1>16, <1>17

-----------------------------------------------------------------------------
(* What a text says and what its collapsed lowercase is parsed to are one *)

\* The suffix the parser demands is the one the reference lists.
LEMMA SuffixesAre ==
    ASSUME NEW n \in Numbers
    PROVE  /\ SuffixFor(n) \in OrdinalSuffixes
           /\ \A x : x \in SuffixesOf[n] <=> LowerOf(x) = SuffixFor(n)
           /\ \A x \in SuffixesOf[n] : x \in OrdinalSuffixes
<1>1. /\ SuffixFor(0) = "th" /\ SuffixFor(1) = "st" /\ SuffixFor(2) = "nd"
      /\ SuffixFor(3) = "rd" /\ SuffixFor(11) = "th" /\ SuffixFor(112) = "th"
  BY DEF SuffixFor
<1>2. /\ SuffixesOf[0] = {"th", "TH"} /\ SuffixesOf[1] = {"st"} /\ SuffixesOf[2] = {"nd"}
      /\ SuffixesOf[3] = {"rd"} /\ SuffixesOf[11] = {"th", "TH"}
      /\ SuffixesOf[112] = {"th", "TH"}
  BY DEF SuffixesOf, Numbers
<1>3. n \in {0, 1, 2, 3, 11, 112}
  BY DEF Numbers
<1>4. SuffixFor(n) \in {"st", "nd", "rd", "th"}
  BY <1>1, <1>3
<1>5. \A x : x \in SuffixesOf[n] <=> LowerOf(x) = SuffixFor(n)
  BY <1>1, <1>2, <1>3, LowerOfIs
<1>6. \A x \in SuffixesOf[n] : x \in {"st", "nd", "rd", "th", "TH"}
  BY <1>2, <1>3
<1> QED
  BY <1>4, <1>5, <1>6 DEF OrdinalSuffixes

\* Digits have no case.
LEMMA LowerDigits ==
    ASSUME NEW x, NEW n
    PROVE  LowerOf(x) \in DigitsOf(n) <=> x \in DigitsOf(n)
<1>1. \A c \in DigitsOf(n) : c # "review" /\ c # "th" /\ c # "REVIEW" /\ c # "TH"
  BY DEF DigitsOf, Digits
<1> QED
  BY <1>1, LowerOfIs

\* Neither have the marks.
LEMMA LowerMarks ==
    ASSUME NEW x
    PROVE  /\ LowerOf(x) = Gap <=> x = Gap
           /\ LowerOf(x) = "-" <=> x = "-"
<1>1. Gap # "review" /\ Gap # "th"
  BY DEF Gap
<1> QED
  BY <1>1, LowerOfIs

\* A numbered phase, as the reference reads it, is parsed to its kind and its number.
LEMMA NumberedParses ==
    ASSUME NEW s \in Seq(Token), NEW d, NEW g, Lays(s, d, g), NEW k \in Kinds, NEW n \in Numbers,
           IsNumbered(s, g[1], g[Len(d) + 1] - 1, k, n)
    PROVE  ParsesAs(Lower(d), k, n)
<1> DEFINE m == Len(d)
           t == Lower(d)
           i == g[1]
           j == g[m + 1] - 1
<1>1. m \in Nat /\ m >= 1 /\ d \in Seq(Token) /\ Len(s) \in Nat
  BY LaysFacts
<1>2. 1 \in 1..(m + 1) /\ m + 1 \in 1..(m + 1) /\ 1 \in 1..m /\ m \in 1..m
  BY <1>1
<1>3. i \in Nat /\ 1 <= i /\ g[m + 1] \in Nat /\ j \in Int /\ g[m + 1] = j + 1
  <2>1. g[1] \in Nat /\ 1 <= g[1] /\ g[m + 1] \in Nat
    BY <1>2, LaysFacts
  <2> QED
    BY <2>1
<1>4. Len(t) = m /\ \A z \in 1..m : t[z] = LowerOf(d[z])
  BY <1>1, LowerIs
<1>5. PICK b \in i..(j - 1) :
          \/ /\ i + 1 < b /\ s[i] \in DigitsOf(n) /\ s[i + 1] \in SuffixesOf[n]
             /\ IsGap(s, i + 2, b)
             /\ IsName(s, b + 1, j, k)
          \/ /\ IsName(s, i, b, k)
             /\ IsGap(s, b + 1, j - 1) \/ (b + 2 = j /\ s[b + 1] = "-")
             /\ s[j] \in DigitsOf(n)
  BY DEF IsNumbered
<1>6. b \in Nat /\ i <= b /\ b <= j - 1 /\ j \in Nat /\ b + 1 \in Nat
  BY <1>3
<1>7. \A c \in DigitsOf(n) : c \notin Separators
  BY WordsAreInk DEF DigitsOf, Ordinary1
<1> HIDE DEF i, j, t
<1>8. ASSUME NEW z \in 1..m, NEW c \in Nat, g[z] = c, s[c] \notin Separators
      PROVE  d[z] = s[c] /\ g[z + 1] = c + 1 /\ t[z] = LowerOf(s[c]) /\ z + 1 \in 1..(m + 1)
  <2>1. d[z] = s[c] /\ g[z + 1] = c + 1
    BY <1>8, AtCell
  <2> QED
    BY <1>1, <1>4, <2>1
<1>9. ASSUME NEW z \in 1..(m + 1), g[z] < j + 1
      PROVE  z \in 1..m
  BY <1>3, <1>9, Placed
<1>10. CASE /\ i + 1 < b /\ s[i] \in DigitsOf(n) /\ s[i + 1] \in SuffixesOf[n]
            /\ IsGap(s, i + 2, b) /\ IsName(s, b + 1, j, k)
  <2>1. t[1] = LowerOf(s[i]) /\ g[1 + 1] = i + 1
    BY <1>2, <1>3, <1>7, <1>8, <1>10 DEF i
  <2>2. 2 \in 1..m /\ g[2] = i + 1
    <3>1. 2 \in 1..(m + 1) /\ g[2] = i + 1
      BY <1>1, <2>1
    <3>2. g[2] < j + 1
      BY <1>3, <1>6, <3>1
    <3> QED
      BY <1>9, <3>1, <3>2
  <2>3. s[i + 1] \notin Separators
    BY <1>10, SuffixesAre, WordsAreInk DEF Ordinary1
  <2>4. t[2] = LowerOf(s[i + 1]) /\ g[2 + 1] = (i + 1) + 1 /\ 2 + 1 \in 1..(m + 1)
    BY <1>3, <1>8, <2>2, <2>3
  <2>5. 3 \in 1..m /\ g[3] = i + 2
    <3>1. 3 \in 1..(m + 1) /\ g[3] = i + 2
      BY <1>3, <2>4
    <3>2. g[3] < j + 1
      BY <1>3, <1>6, <1>10, <3>1
    <3> QED
      BY <1>9, <3>1, <3>2
  <2>6. s[b + 1] \notin Separators
    <3>1. b + 1 \in Nat /\ 1 <= b + 1 /\ j <= Len(s)
      <4>1. g[m + 1] <= Len(s) + 1
        BY <1>2, LaysFacts
      <4> QED
        BY <1>1, <1>3, <1>6, <4>1
    <3>2. s[b + 1] \in {"implementation", "implement", "review", "REVIEW", "fix", "bugfix", "bug"}
      BY <1>6, <1>10, <3>1, NamesAre
    <3> QED
      BY <3>2, WordsAreInk DEF Ordinary1
  <2>7. g[3 + 1] = b + 1 /\ d[3] = Gap /\ 3 < m
    <3>1. IsGap(s, g[3], b)
      BY <1>10, <2>5
    <3> QED
      BY <1>6, <2>5, <2>6, <3>1, GapEnds
  <2>8. 4 \in 1..m /\ g[4] = b + 1 /\ 4 \in Nat
    BY <1>1, <2>7
  <2>9. PICK y \in 4..m : g[y + 1] = j + 1 /\ NameAt(t, 4, y, k)
    <3>1. IsName(s, g[4], j, k) /\ j < g[m + 1]
      BY <1>3, <1>6, <1>10, <2>8
    <3> QED
      BY <1>6, <2>8, <3>1, NameCells DEF t
  <2>10. y = m
    <3>1. y + 1 \in 1..(m + 1) /\ g[y + 1] = g[m + 1]
      BY <1>1, <1>3, <2>9
    <3>2. y + 1 = m + 1
      BY <1>2, <3>1, Placed
    <3> QED
      BY <1>1, <3>2
  <2>11. t[3] = Gap
    BY <1>4, <2>5, <2>7, LowerOfIs
  <2>12. m > 3
    BY <1>1, <2>7
  <2>13. t[1] \in DigitsOf(n) /\ t[2] = SuffixFor(n) /\ t[2] \in OrdinalSuffixes
    BY <1>10, <2>1, <2>4, SuffixesAre, LowerDigits
  <2>14. ParsesAs(t, k, n)
    BY <1>4, <2>9, <2>10, <2>11, <2>12, <2>13 DEF ParsesAs
  <2> QED
    BY <2>14 DEF t
<1>11. CASE /\ IsName(s, i, b, k)
            /\ IsGap(s, b + 1, j - 1) \/ (b + 2 = j /\ s[b + 1] = "-")
            /\ s[j] \in DigitsOf(n)
  <2>1. PICK y \in 1..m : g[y + 1] = b + 1 /\ NameAt(t, 1, y, k)
    <3>1. IsName(s, g[1], b, k) /\ b < g[m + 1]
      BY <1>3, <1>6, <1>11 DEF i
    <3> QED
      BY <1>2, <1>6, <3>1, NameCells DEF t
  <2>2. y + 1 \in 1..m
    <3>1. y + 1 \in 1..(m + 1) /\ g[y + 1] < j + 1
      BY <1>1, <1>3, <1>6, <2>1
    <3> QED
      BY <1>9, <3>1
  <2>3. s[j] \notin Separators /\ (j - 1) + 1 = j /\ j - 1 \in Nat
    BY <1>6, <1>7, <1>11
  <2>4. g[y + 2] = j /\ t[y + 1] \in {"-", Gap}
    <3>1. (y + 1) + 1 = y + 2
      OBVIOUS
    <3>2. CASE IsGap(s, b + 1, j - 1)
      <4>1. g[(y + 1) + 1] = (j - 1) + 1 /\ d[y + 1] = Gap
        BY <2>1, <2>2, <2>3, <3>2, GapEnds
      <4> QED
        BY <1>4, <2>2, <2>3, <3>1, <4>1, LowerOfIs
    <3>3. CASE b + 2 = j /\ s[b + 1] = "-"
      <4>1. s[b + 1] \notin Separators
        BY <3>3, WordsAreInk DEF Ordinary1
      <4>2. g[(y + 1) + 1] = (b + 1) + 1 /\ t[y + 1] = LowerOf(s[b + 1])
        BY <1>6, <1>8, <2>1, <2>2, <4>1
      <4> QED
        BY <1>6, <3>1, <3>3, <4>2, LowerOfIs
    <3> QED
      BY <1>11, <3>2, <3>3
  <2>5. y + 2 \in 1..m
    <3>1. y + 2 \in 1..(m + 1) /\ g[y + 2] < j + 1
      BY <1>1, <1>6, <2>2, <2>4
    <3> QED
      BY <1>9, <3>1
  <2>6. t[y + 2] = LowerOf(s[j]) /\ g[(y + 2) + 1] = j + 1 /\ (y + 2) + 1 \in 1..(m + 1)
    BY <1>6, <1>8, <2>3, <2>4, <2>5
  <2>7. (y + 2) + 1 = m + 1
    BY <1>2, <1>3, <2>6, Placed
  <2>8. y + 2 = m /\ y + 1 = m - 1 /\ y = m - 2 /\ m > 2
    BY <1>1, <2>1, <2>7
  <2>9. t[m] \in DigitsOf(n) /\ t[m - 1] \in {"-", Gap}
    BY <1>11, <2>4, <2>6, <2>8, LowerDigits
  <2>10. ParsesAs(t, k, n)
    BY <1>4, <2>1, <2>8, <2>9 DEF ParsesAs
  <2> QED
    BY <2>10 DEF t
<1> QED
  BY <1>5, <1>10, <1>11

\* And what is parsed to a kind and a number is that numbered phase to the reference.
LEMMA ParsesNumbered ==
    ASSUME NEW s \in Seq(Token), NEW d, NEW g, Lays(s, d, g), NEW k \in Kinds, NEW n \in Numbers,
           ParsesAs(Lower(d), k, n)
    PROVE  IsNumbered(s, g[1], g[Len(d) + 1] - 1, k, n)
<1> DEFINE m == Len(d)
           t == Lower(d)
           i == g[1]
           j == g[m + 1] - 1
<1>1. m \in Nat /\ m >= 1 /\ d \in Seq(Token) /\ Len(s) \in Nat
  BY LaysFacts
<1>2. 1 \in 1..(m + 1) /\ m + 1 \in 1..(m + 1) /\ 1 \in 1..m /\ m \in 1..m
  BY <1>1
<1>3. i \in Nat /\ 1 <= i /\ g[m + 1] \in Nat /\ j \in Int /\ g[m + 1] = j + 1
  <2>1. g[1] \in Nat /\ 1 <= g[1] /\ g[m + 1] \in Nat
    BY <1>2, LaysFacts
  <2> QED
    BY <2>1
<1>4. Len(t) = m /\ \A z \in 1..m : t[z] = LowerOf(d[z])
  BY <1>1, LowerIs
<1>5. n # -1
  BY DEF Numbers
<1>6. \/ /\ m > 3 /\ t[1] \in DigitsOf(n) /\ t[2] = SuffixFor(n) /\ t[2] \in OrdinalSuffixes
         /\ t[3] = Gap /\ NameAt(t, 4, m, k)
      \/ /\ m > 2 /\ t[m] \in DigitsOf(n) /\ t[m - 1] \in {"-", Gap} /\ NameAt(t, 1, m - 2, k)
  BY <1>4, <1>5 DEF ParsesAs
\* A cell that is no gap is one token.
<1>7. ASSUME NEW z \in 1..m, d[z] # Gap
      PROVE  s[g[z]] = d[z] /\ g[z + 1] = g[z] + 1
  BY <1>7, AtCell
<1>8. \A c \in DigitsOf(n) : c # Gap
  BY WordsAreInk DEF DigitsOf, Ordinary1
<1>9. \A z \in 1..m : g[z] \in Nat /\ g[z + 1] \in Nat /\ g[z] < g[z + 1]
  BY AtCell
<1>10. \A z \in 1..m : \A y \in 1..m : NameAt(t, z, y, k) => IsName(s, g[z], g[y + 1] - 1, k)
  BY CellsName
<1> HIDE DEF i, j, t, m
<1>11. CASE /\ m > 3 /\ t[1] \in DigitsOf(n) /\ t[2] = SuffixFor(n) /\ t[2] \in OrdinalSuffixes
            /\ t[3] = Gap /\ NameAt(t, 4, m, k)
  <2>1. 2 \in 1..m /\ 3 \in 1..m /\ 4 \in 1..m
    BY <1>1, <1>11
  <2>2. d[1] \in DigitsOf(n) /\ d[2] \in SuffixesOf[n] /\ d[3] = Gap
    BY <1>2, <1>4, <1>11, <2>1, LowerDigits, LowerMarks, SuffixesAre
  <2>3. d[1] # Gap /\ d[2] # Gap
    BY <1>8, <2>2, SuffixesAre, WordsAreInk DEF Ordinary1
  <2>4. s[i] \in DigitsOf(n) /\ g[2] = i + 1
    <3>1. s[g[1]] = d[1] /\ g[1 + 1] = g[1] + 1
      BY <1>2, <1>7, <2>3
    <3> QED
      BY <2>2, <3>1 DEF i
  <2>5. s[i + 1] \in SuffixesOf[n] /\ g[3] = i + 2
    <3>1. s[g[2]] = d[2] /\ g[2 + 1] = g[2] + 1
      BY <1>7, <2>1, <2>3
    <3> QED
      BY <1>3, <2>2, <2>4, <3>1
  <2>6. IsGap(s, g[3], g[3 + 1] - 1)
    BY <2>1, <2>2, AtCell DEF m
  <2>7. g[4] \in Nat /\ g[3] < g[4] /\ g[4] < g[m + 1]
    <3>1. g[3] < g[3 + 1] /\ g[4] \in Nat
      BY <1>9, <2>1
    <3>2. g[4] < g[m + 1]
      <4>1. Rises(g, m) /\ 4 \in 1..(m + 1) /\ 4 < m + 1
        BY <1>1, <1>11, LaysFacts DEF m
      <4> QED
        BY <1>1, <1>2, <4>1, LaterCells
    <3> QED
      BY <3>1, <3>2
  <2> DEFINE b == g[4] - 1
  <2>8. b \in i..(j - 1) /\ i + 1 < b /\ b + 1 = g[4]
    BY <1>3, <2>5, <2>7
  <2>9. IsGap(s, i + 2, b)
    BY <2>5, <2>6
  <2>10. IsName(s, b + 1, j, k)
    <3>1. IsName(s, g[4], g[m + 1] - 1, k)
      BY <1>2, <1>10, <1>11, <2>1
    <3>2. g[m + 1] - 1 = j
      BY <1>3
    <3> QED
      BY <2>8, <3>1, <3>2
  <2> HIDE DEF b
  <2>11. IsNumbered(s, i, j, k, n)
    BY <2>4, <2>5, <2>8, <2>9, <2>10 DEF IsNumbered
  <2> QED
    BY <2>11 DEF i, j, m
<1>12. CASE /\ m > 2 /\ t[m] \in DigitsOf(n) /\ t[m - 1] \in {"-", Gap}
            /\ NameAt(t, 1, m - 2, k)
  <2>1. m - 1 \in 1..m /\ m - 2 \in 1..m /\ (m - 2) + 1 = m - 1 /\ (m - 1) + 1 = m
    BY <1>1, <1>12
  <2>2. d[m] \in DigitsOf(n) /\ d[m - 1] \in {"-", Gap}
    BY <1>2, <1>4, <1>12, <2>1, LowerDigits, LowerMarks
  <2>3. s[g[m]] = d[m] /\ g[m + 1] = g[m] + 1
    BY <1>2, <1>7, <1>8, <2>2
  <2>4. g[m] = j /\ s[j] \in DigitsOf(n)
    <3>1. g[m] = j
      BY <1>2, <1>3, <1>9, <2>3
    <3> QED
      BY <2>2, <2>3, <3>1
  <2> DEFINE b == g[m - 1] - 1
  <2>5. g[m - 1] \in Nat /\ g[m - 1] < j
    BY <1>9, <2>1, <2>4
  <2>6. g[m - 2] \in Nat /\ g[m - 2] < g[m - 1] /\ i <= g[m - 2]
    <3>1. g[m - 2] \in Nat /\ g[m - 2] < g[m - 1]
      BY <1>9, <2>1
    <3>2. i <= g[m - 2]
      <4>1. Rises(g, m) /\ m - 2 \in 1..(m + 1)
        BY <1>1, <2>1, LaysFacts DEF m
      <4>2. 1 < m - 2 => g[1] < g[m - 2]
        BY <1>1, <1>2, <4>1, LaterCells
      <4>3. 1 = m - 2 \/ 1 < m - 2
        BY <1>1, <2>1
      <4> QED
        BY <1>3, <3>1, <4>2, <4>3 DEF i
    <3> QED
      BY <3>1, <3>2
  <2>7. b \in i..(j - 1) /\ b + 1 = g[m - 1]
    BY <1>3, <2>5, <2>6
  <2>8. IsName(s, i, b, k)
    <3>1. IsName(s, g[1], g[(m - 2) + 1] - 1, k)
      BY <1>2, <1>10, <1>12, <2>1
    <3> QED
      BY <2>1, <3>1 DEF i
  <2>9. IsGap(s, b + 1, j - 1) \/ (b + 2 = j /\ s[b + 1] = "-")
    <3>1. CASE d[m - 1] = Gap
      <4>1. IsGap(s, g[m - 1], g[(m - 1) + 1] - 1)
        BY <2>1, <3>1, AtCell DEF m
      <4> QED
        BY <2>1, <2>4, <2>7, <4>1
    <3>2. CASE d[m - 1] = "-"
      <4>1. "-" # Gap
        BY WordsAreInk DEF Ordinary1
      <4>2. s[g[m - 1]] = "-" /\ g[(m - 1) + 1] = g[m - 1] + 1
        BY <1>7, <2>1, <3>2, <4>1
      <4>3. g[m] = g[m - 1] + 1
        BY <2>1, <4>2
      <4>4. b + 2 = j
        BY <2>4, <2>5, <4>3
      <4> QED
        BY <2>7, <4>2, <4>4
    <3> QED
      BY <2>2, <3>1, <3>2
  <2> HIDE DEF b
  <2>10. IsNumbered(s, i, j, k, n)
    BY <2>4, <2>7, <2>8, <2>9 DEF IsNumbered
  <2> QED
    BY <2>10 DEF i, j, m
<1> QED
  BY <1>6, <1>11, <1>12

\* A text names a phase, by the reference, exactly when its collapsed lowercase is parsed
\* to it.
LEMMA SaysIs ==
    ASSUME NEW s \in Seq(Token), NEW d, NEW g, Lays(s, d, g),
           NEW k \in Kinds, NEW n \in Numbers \cup {-1}
    PROVE  <<k, n>> \in Says(s) <=> ParsesAs(Lower(d), k, n)
<1> DEFINE m == Len(d)
           t == Lower(d)
<1>1. m \in Nat /\ m >= 1 /\ d \in Seq(Token)
  BY LaysFacts
<1>2. Len(t) = m
  BY <1>1, LowerIs
<1>3. <<k, n>> \in Says(s) <=> IsPhase(s, g[1], g[m + 1] - 1, <<k, n>>)
  <2>1. Ink(s) # {} /\ Min(Ink(s)) = g[1] /\ Max(Ink(s)) = g[m + 1] - 1
    BY CollapseIsLayout, InkEnds
  <2>2. <<k, n>> \in Phases
    BY DEF Phases
  <2> QED
    BY <2>1, <2>2 DEF Says
<1>4. \A o \in Numbers : o # -1
  BY DEF Numbers
<1>5. CASE n = -1
  <2>1. <<k, n>> \in Says(s) <=> IsName(s, g[1], g[m + 1] - 1, k)
    BY <1>3, <1>5 DEF IsPhase
  <2>2. ParsesAs(t, k, n) <=> NameAt(t, 1, m, k)
    BY <1>2, <1>4, <1>5 DEF ParsesAs
  <2>3. 1 \in 1..m /\ m \in 1..m /\ 1 \in 1..(m + 1) /\ m + 1 \in 1..(m + 1)
    BY <1>1
  <2>4. NameAt(t, 1, m, k) => IsName(s, g[1], g[m + 1] - 1, k)
    BY <2>3, CellsName
  <2>5. ASSUME IsName(s, g[1], g[m + 1] - 1, k) PROVE NameAt(t, 1, m, k)
    <3> DEFINE j == g[m + 1] - 1
    <3>1. j \in Nat /\ j < g[m + 1] /\ j + 1 = g[m + 1]
      <4>1. g[m + 1] \in Nat /\ 1 <= g[m + 1]
        BY <2>3, LaysFacts
      <4> QED
        BY <4>1
    <3>2. IsName(s, g[1], j, k)
      BY <2>5
    <3> HIDE DEF j
    <3>3. PICK y \in 1..m : g[y + 1] = j + 1 /\ NameAt(t, 1, y, k)
      BY <2>3, <3>1, <3>2, NameCells
    <3>4. y + 1 \in 1..(m + 1) /\ g[y + 1] = g[m + 1]
      BY <1>1, <3>1, <3>3
    <3>5. y = m
      <4>1. y + 1 = m + 1
        BY <2>3, <3>4, Placed
      <4> QED
        BY <1>1, <3>3, <4>1
    <3> QED
      BY <3>3, <3>5
  <2> QED
    BY <2>1, <2>2, <2>4, <2>5
<1>6. CASE n \in Numbers
  <2>1. <<k, n>> \in Says(s) <=> IsNumbered(s, g[1], g[m + 1] - 1, k, n)
    BY <1>3, <1>4, <1>6 DEF IsPhase
  <2> QED
    BY <1>6, <2>1, NumberedParses, ParsesNumbered
<1> QED
  BY <1>5, <1>6

-----------------------------------------------------------------------------
(* The label a text is given *)

\* A text with nothing in it is no phase to the parser.
LEMMA ParseEmpty == ParsePhase(Lower(<<>>)) = Unrecognized
<1>1. Lower(<<>>) = <<>>
  BY DEF Lower
<1>2. ~IsKind(<<>>)
  <2>1. \A k \in Kinds : \A w \in KindWords[k] : w # <<>>
    <3>1. /\ <<"implementation">> # <<>> /\ <<"implement">> # <<>> /\ <<"review">> # <<>>
          /\ <<"fix">> # <<>> /\ <<"bugfix">> # <<>>
          /\ <<"bug", Gap, "fix">> # <<>> /\ <<"bug", "-", "fix">> # <<>>
      OBVIOUS
    <3>2. /\ KindWords["implementation"] = {<<"implementation">>, <<"implement">>}
          /\ KindWords["review"] = {<<"review">>}
          /\ KindWords["fix"] =
                {<<"fix">>, <<"bug", Gap, "fix">>, <<"bug", "-", "fix">>, <<"bugfix">>}
      BY DEF KindWords, Gap
    <3> QED
      BY <3>1, <3>2 DEF Kinds
  <2> QED
    BY <2>1 DEF IsKind
<1>3. ~IsLeadingOrdinal(<<>>) /\ ~IsTrailingNumber(<<>>)
  <2>1. Len(<<>>) = 0 /\ ~(0 > 3) /\ ~(0 > 2)
    OBVIOUS
  <2> QED
    BY <2>1 DEF IsLeadingOrdinal, IsTrailingNumber
<1> QED
  BY <1>1, <1>2, <1>3 DEF ParsePhase

\* What is collapsed is a text, and it is empty only when there was no ink.
LEMMA CollapseType ==
    ASSUME NEW s \in Seq(Token)
    PROVE  /\ Collapse(s) \in Seq(Token)
           /\ Collapse(s) = <<>> <=> Ink(s) = {}
           /\ Collapse(s) # <<>> => \E g : Lays(s, Collapse(s), g)
<1>1. ASSUME NEW g, Lays(s, Collapse(s), g)
      PROVE  Collapse(s) \in Seq(Token) /\ Collapse(s) # <<>> /\ Ink(s) # {}
  BY <1>1, CollapseIsLayout DEF Lays
<1>2. <<>> \in Seq(Token)
  OBVIOUS
<1> QED
  BY <1>1, <1>2, CollapseLays

\* The two readings of a text.
LEMMA SaysParsed ==
    ASSUME NEW s \in Seq(Token)
    PROVE  /\ \A k \in Kinds, n \in Numbers \cup {-1} :
                <<k, n>> \in Says(s) <=> ParsePhase(Lower(Collapse(s))) = Parsed(k, n)
           /\ \/ ParsePhase(Lower(Collapse(s))) = Unrecognized /\ Says(s) = {}
              \/ \E k \in Kinds, n \in Numbers \cup {-1} :
                    /\ ParsePhase(Lower(Collapse(s))) = Parsed(k, n)
                    /\ Says(s) = {<<k, n>>}
<1> DEFINE d == Collapse(s)
           t == Lower(d)
<1>1. Says(s) \subseteq Phases
  BY DEF Says
<1>2. CASE d = <<>>
  <2>1. Says(s) = {} /\ ParsePhase(t) = Unrecognized
    BY <1>2, CollapseType, ParseEmpty DEF Says
  <2> QED
    BY <2>1, ParsedIs
<1>3. CASE d # <<>>
  <2>1. d \in Seq(Token) /\ \E g : Lays(s, d, g)
    BY <1>3, CollapseType
  <2>2. t \in Seq(Token) /\ t # <<>>
    BY <1>3, <2>1, LowerIs
  <2> HIDE DEF d
  <2>3. \A k \in Kinds, n \in Numbers \cup {-1} : <<k, n>> \in Says(s) <=> ParsesAs(t, k, n)
    BY <2>1, SaysIs
  <2> HIDE DEF t
  <2>4. \A k \in Kinds, n \in Numbers \cup {-1} :
            <<k, n>> \in Says(s) <=> ParsePhase(t) = Parsed(k, n)
    BY <2>2, <2>3, ParseIs
  <2>5. \A p \in Says(s) : \E k \in Kinds, n \in Numbers \cup {-1} : p = <<k, n>>
    BY <1>1 DEF Phases
  <2>6. CASE ParsePhase(t) = Unrecognized
    <3>1. Says(s) = {}
      BY <2>4, <2>5, <2>6, ParsedIs
    <3> QED
      BY <2>4, <2>6, <3>1 DEF t, d
  <2>7. CASE ParsePhase(t) # Unrecognized
    <3>1. PICK k \in Kinds, n \in Numbers \cup {-1} : ParsePhase(t) = Parsed(k, n)
      BY <2>2, <2>7, ParseIs
    <3>2. Says(s) = {<<k, n>>}
      BY <2>4, <2>5, <3>1, ParsedIs
    <3> QED
      BY <2>4, <3>1, <3>2 DEF t, d
  <2> QED
    BY <2>6, <2>7
<1> QED
  BY <1>2, <1>3

\* A text is given the label of the phase it names, if its occurrence can be, and is
\* collapsed otherwise.
LEMMA NormalizeIs ==
    ASSUME NEW s \in Seq(Token)
    PROVE  /\ \A k, n : <<k, n>> \in Says(s) /\ n # 0 => NormalizePhase(s) = LabelOf(k, n)
           /\ (\A p \in Says(s) : p[2] = 0) => NormalizePhase(s) = Collapse(s)
<1> DEFINE parsed == ParsePhase(Lower(Collapse(s)))
<1>1. NormalizePhase(s) = IF parsed.kind = "none" \/ parsed.bad_occurrence
                          THEN Collapse(s) ELSE LabelOf(parsed.kind, parsed.occurrence)
  BY DEF NormalizePhase
<1>2. Unrecognized.kind = "none" /\ \A k \in Kinds : k # "none"
  BY ParsedIs DEF Unrecognized, Kinds
<1>3. CASE parsed = Unrecognized /\ Says(s) = {}
  BY <1>1, <1>2, <1>3
<1>4. ASSUME NEW k \in Kinds, NEW n \in Numbers \cup {-1},
             parsed = Parsed(k, n), Says(s) = {<<k, n>>}
      PROVE  /\ \A l, o : <<l, o>> \in Says(s) /\ o # 0 => NormalizePhase(s) = LabelOf(l, o)
             /\ (\A p \in Says(s) : p[2] = 0) => NormalizePhase(s) = Collapse(s)
  <2>1. parsed.kind = k /\ parsed.occurrence = n /\ (parsed.bad_occurrence <=> n = 0)
    BY <1>4, ParsedIs
  <2>2. k # "none"
    BY <1>2
  <2> HIDE DEF parsed
  <2>3. NormalizePhase(s) = IF n = 0 THEN Collapse(s) ELSE LabelOf(k, n)
    BY <1>1, <2>1, <2>2
  <2> QED
    BY <1>4, <2>3
<1> QED
  BY <1>3, <1>4, SaysParsed

\* A text whose gaps are single spaces between other tokens is collapsed already.
LEMMA CollapseKeeps ==
    ASSUME NEW d \in Seq(Token), d # <<>>, d[1] \notin Separators, d[Len(d)] \notin Separators,
           \A x \in 1..Len(d) : d[x] \in Separators => d[x] = Gap /\ d[x + 1] \notin Separators
    PROVE  Collapse(d) = d
<1> DEFINE m == Len(d)
           g == [x \in 1..(m + 1) |-> x]
<1>1. m \in Nat /\ m >= 1
  OBVIOUS
<1>2. g \in [1..(m + 1) -> 1..(m + 1)] /\ \A x \in 1..(m + 1) : g[x] = x
  OBVIOUS
<1> HIDE DEF g
<1>3. ASSUME NEW x \in 1..m PROVE Cell(d, d, g, x)
  <2>1. g[x] = x /\ g[x + 1] = x + 1
    BY <1>1, <1>2
  <2>2. CASE d[x] \in Separators
    <3>1. IsGap(d, x, (x + 1) - 1)
      BY <2>2 DEF IsGap
    <3>2. g[x] < g[x + 1]
      BY <2>1
    <3>3. IsGap(d, g[x], g[x + 1] - 1)
      BY <2>1, <3>1
    <3> QED
      BY <2>2, <3>2, <3>3 DEF Cell
  <2>3. CASE d[x] \notin Separators
    <3>1. d[g[x]] = d[x] /\ g[x + 1] = g[x] + 1 /\ g[x] < g[x + 1]
      BY <2>1
    <3> QED
      BY <2>3, <3>1 DEF Cell
  <2> QED
    BY <2>2, <2>3
<1>4. ASSUME NEW i \in 1..m, i < g[1] \/ g[m + 1] <= i
      PROVE  d[i] \in Separators
  <2>1. g[1] = 1 /\ g[m + 1] = m + 1
    BY <1>1, <1>2
  <2> QED
    BY <1>1, <1>4, <2>1
<1>5. Lays(d, d, g)
  BY <1>2, <1>3, <1>4 DEF Lays
<1> QED
  BY <1>5, CollapseIsLayout

\* Collapsing what was collapsed changes nothing.
LEMMA CollapseTwice ==
    ASSUME NEW s \in Seq(Token)
    PROVE  Collapse(Collapse(s)) = Collapse(s)
<1> DEFINE d == Collapse(s)
<1>1. CASE d = <<>>
  <2>1. Ink(<<>>) = {}
    BY DEF Ink
  <2>2. <<>> \in Seq(Token)
    OBVIOUS
  <2>3. Collapse(<<>>) = <<>>
    BY <2>1, <2>2, CollapseType
  <2> QED
    BY <1>1, <2>3
<1>2. CASE d # <<>>
  <2>1. PICK g : Lays(s, d, g)
    BY <1>2, CollapseType
  <2> HIDE DEF d
  <2>2. d \in Seq(Token) /\ d # <<>> /\ d[1] \notin Separators /\ d[Len(d)] \notin Separators
    BY <2>1 DEF Lays
  <2>3. \A x \in 1..Len(d) : d[x] \in Separators => d[x] = Gap /\ d[x + 1] \notin Separators
    BY <2>1, LaysFacts
  <2>4. Collapse(d) = d
    BY <2>2, <2>3, CollapseKeeps
  <2> QED
    BY <2>4 DEF d
<1> QED
  BY <1>1, <1>2

\* Places of a text and of what is left of it.
LEMMA Shifts ==
    ASSUME NEW a \in Nat, NEW b \in Nat, NEW p \in Nat, NEW q \in Nat, a <= p, q <= b + 1,
           NEW v, NEW w, v = p - a + 1, w = q - a + 1
    PROVE  /\ v \in Int /\ w \in Int /\ v >= 1
           /\ p < q => v \in Nat /\ w \in Nat
           /\ v + a - 1 = p
           /\ \A i \in Nat : v <= i /\ i < w =>
                /\ i \in 1..(b - a + 1) /\ i + a - 1 \in p..(q - 1)
<1>1. v \in Int /\ w \in Int /\ v >= 1
  OBVIOUS
<1>2. v + a - 1 = p
  OBVIOUS
<1>3. p < q => v \in Nat /\ w \in Nat
  OBVIOUS
<1>4. ASSUME NEW i \in Nat, v <= i, i < w
      PROVE  i \in 1..(b - a + 1) /\ i + a - 1 \in p..(q - 1)
  <2>1. i >= 1 /\ p <= i + a - 1 /\ i + a - 1 < q
    BY <1>4
  <2>2. i <= b - a + 1 /\ i + a - 1 <= q - 1
    BY <2>1
  <2> QED
    BY <2>1, <2>2
<1> QED
  BY <1>1, <1>2, <1>3, <1>4

\* White space around a text does not show in what it is collapsed to.
LEMMA CollapseStripped ==
    ASSUME NEW s \in Seq(Token)
    PROVE  Collapse(Strip(s)) = Collapse(s)
<1> DEFINE d == Collapse(s)
           u == Strip(s)
           a == Min(Seen(s))
           b == Max(Seen(s))
           n == Len(s)
<1>1. u \in Seq(Token) /\ n \in Nat
  BY StripIs
<1>2. \A i \in 1..n : s[i] \notin Separators => i \in Seen(s)
  BY DEF Seen, Separators
<1>3. Seen(s) # {} =>
          /\ a \in 1..n /\ b \in 1..n /\ a <= b
          /\ \A i \in Seen(s) : a <= i /\ i <= b
          /\ Len(u) = b - a + 1 /\ \A i \in 1..Len(u) : u[i] = s[i + a - 1]
  BY StripIs DEF Seen
<1> HIDE DEF u, a, b
<1>4. CASE d = <<>>
  <2>1. \A i \in 1..n : s[i] \in Separators
    BY <1>4, CollapseType DEF Ink
  <2>2. \A i \in 1..Len(u) : u[i] \in Separators
    <3>1. CASE Seen(s) = {}
      <4>1. u = <<>>
        BY <3>1, StripIs DEF u
      <4>2. Len(<<>>) = 0
        OBVIOUS
      <4> QED
        BY <4>1, <4>2
    <3>2. CASE Seen(s) # {}
      <4>1. \A i \in 1..Len(u) : i + a - 1 \in 1..n
        BY <1>1, <1>3, <3>2
      <4> QED
        BY <1>3, <2>1, <3>2, <4>1
    <3> QED
      BY <3>1, <3>2
  <2>3. Ink(u) = {}
    BY <1>1, <2>2 DEF Ink
  <2>4. Collapse(u) = <<>>
    BY <1>1, <2>3, CollapseType
  <2> QED
    BY <1>4, <2>4 DEF u
<1>5. CASE d # <<>>
  <2>1. PICK g : Lays(s, d, g)
    BY <1>5, CollapseType
  <2> DEFINE m == Len(d)
             h == [x \in 1..(m + 1) |-> g[x] - a + 1]
  <2> HIDE DEF d
  <2>2. m \in Nat /\ m >= 1 /\ d \in Seq(Token)
    BY <2>1, LaysFacts
  <2>3. 1 \in 1..m /\ m \in 1..m /\ 1 \in 1..(m + 1) /\ m + 1 \in 1..(m + 1)
    BY <2>2
  <2>4. d[1] \notin Separators /\ d[m] \notin Separators /\ d # <<>>
    BY <2>1 DEF Lays
  <2>5. /\ g[1] \in 1..n /\ g[m] \in 1..n /\ g[m + 1] = g[m] + 1
        /\ s[g[1]] \notin Separators /\ s[g[m]] \notin Separators
    BY <2>1, <2>3, <2>4, LaysFacts
  <2>6. g[1] \in Seen(s) /\ g[m] \in Seen(s)
    BY <1>2, <2>5
  <2>7. /\ a \in 1..n /\ b \in 1..n /\ a <= b /\ a <= g[1] /\ g[m] <= b
        /\ Len(u) = b - a + 1 /\ \A i \in 1..Len(u) : u[i] = s[i + a - 1]
    BY <1>3, <2>6
  <2>8. /\ Rises(g, m)
        /\ \A x \in 1..(m + 1) : g[x] \in Nat /\ 1 <= g[x] /\ g[x] <= n + 1
    BY <2>1, LaysFacts
  \* All the layout is in what is left of s.
  <2>9. ASSUME NEW x \in 1..(m + 1)
        PROVE  g[x] \in Nat /\ a <= g[x] /\ g[x] <= b + 1
    <3>1. g[x] \in Nat /\ g[1] \in Nat /\ g[m + 1] \in Nat
      BY <2>3, <2>8
    <3>2. 1 < x => g[1] < g[x]
      BY <2>2, <2>3, <2>8, LaterCells
    <3>3. x < m + 1 => g[x] < g[m + 1]
      BY <2>2, <2>3, <2>8, LaterCells
    <3>4. g[1] <= g[x] /\ g[x] <= g[m + 1]
      <4>1. (x = 1 \/ 1 < x) /\ (x = m + 1 \/ x < m + 1)
        BY <2>2
      <4> QED
        BY <3>1, <3>2, <3>3, <4>1
    <3>5. g[m] \in Nat /\ a \in Nat /\ b \in Nat
      BY <1>1, <2>5, <2>7
    <3>6. a <= g[1] /\ g[m + 1] <= b + 1
      <4>1. a <= g[1] /\ g[m] <= b /\ g[m + 1] = g[m] + 1
        BY <2>5, <2>7
      <4> QED
        BY <3>5, <4>1
    <3> QED
      BY <3>1, <3>4, <3>5, <3>6
  <2>10. Len(u) \in Nat /\ a \in Nat /\ b \in Nat
    BY <1>1, <2>7
  <2>11. h \in [1..(m + 1) -> 1..(Len(u) + 1)] /\ \A x \in 1..(m + 1) : h[x] = g[x] - a + 1
    <3>1. \A x \in 1..(m + 1) : g[x] - a + 1 \in 1..(Len(u) + 1)
      BY <2>7, <2>9, <2>10
    <3> QED
      BY <3>1
  <2> HIDE DEF h, m
  <2>12. ASSUME NEW x \in 1..m PROVE Cell(u, d, h, x)
    <3>1. x \in 1..(m + 1) /\ x + 1 \in 1..(m + 1)
      BY <2>2
    <3>2. h[x] = g[x] - a + 1 /\ h[x + 1] = g[x + 1] - a + 1
      BY <2>11, <3>1
    <3>3. g[x] \in Nat /\ g[x + 1] \in Nat /\ a <= g[x] /\ g[x + 1] <= b + 1
      BY <2>9, <3>1
    <3>4. Cell(s, d, g, x)
      BY <2>1 DEF Lays, m
    <3>5. g[x] < g[x + 1] /\ h[x] < h[x + 1]
      <4>1. g[x] < g[x + 1]
        BY <3>4 DEF Cell
      <4>2. ASSUME NEW p \in Nat, NEW q \in Nat, p < q PROVE p - a + 1 < q - a + 1
        BY <2>10, <4>2
      <4> QED
        BY <3>2, <3>3, <4>1, <4>2
    <3>6. ASSUME NEW i \in Nat, h[x] <= i, i < h[x + 1]
          PROVE  u[i] = s[i + a - 1] /\ i + a - 1 \in g[x]..(g[x + 1] - 1)
      <4>1. i \in 1..(b - a + 1) /\ i + a - 1 \in g[x]..(g[x + 1] - 1)
        BY <2>10, <3>2, <3>3, <3>6, Shifts
      <4> QED
        BY <2>7, <4>1
    <3>7. h[x] \in Nat /\ h[x + 1] \in Nat /\ h[x] + a - 1 = g[x]
      <4> DEFINE p == g[x]
                 q == g[x + 1]
                 v == h[x]
                 w == h[x + 1]
      <4>1. /\ p \in Nat /\ q \in Nat /\ a <= p /\ q <= b + 1 /\ p < q
            /\ v = p - a + 1 /\ w = q - a + 1
        BY <3>2, <3>3, <3>5
      <4> HIDE DEF p, q, v, w
      <4>2. v \in Nat /\ w \in Nat /\ v + a - 1 = p
        BY <2>10, <4>1, Shifts
      <4> QED
        BY <4>2 DEF p, q, v, w
    <3>8. u[h[x]] = s[g[x]]
      BY <3>5, <3>6, <3>7
    <3>9. CASE d[x] \notin Separators /\ s[g[x]] = d[x] /\ g[x + 1] = g[x] + 1
      <4>1. h[x + 1] = h[x] + 1
        BY <2>10, <3>2, <3>3, <3>9
      <4> QED
        BY <3>5, <3>8, <3>9, <4>1 DEF Cell
    <3>10. CASE /\ d[x] = Gap /\ IsGap(s, g[x], g[x + 1] - 1)
                /\ x < Len(d) => d[x + 1] \notin Separators
      <4>1. \A i \in h[x]..(h[x + 1] - 1) : u[i] \in Separators
        <5>1. ASSUME NEW i \in h[x]..(h[x + 1] - 1)
              PROVE  i \in Nat /\ h[x] <= i /\ i < h[x + 1]
          BY <3>7
        <5> QED
          BY <3>6, <3>10, <5>1 DEF IsGap
      <4>2. IsGap(u, h[x], h[x + 1] - 1)
        BY <3>5, <3>7, <4>1 DEF IsGap
      <4> QED
        BY <3>5, <3>10, <4>2 DEF Cell
    <3> QED
      BY <3>4, <3>9, <3>10 DEF Cell
  <2>13. ASSUME NEW i \in 1..Len(u), i < h[1] \/ h[m + 1] <= i
         PROVE  u[i] \in Separators
    <3>1. h[1] = g[1] - a + 1 /\ h[m + 1] = g[m + 1] - a + 1 /\ g[1] \in Nat /\ g[m + 1] \in Nat
      BY <2>3, <2>9, <2>11
    <3>2. i + a - 1 \in 1..n /\ u[i] = s[i + a - 1]
      BY <1>1, <2>7, <2>10
    <3>3. i + a - 1 < g[1] \/ g[m + 1] <= i + a - 1
      BY <2>10, <2>13, <3>1
    <3>4. \A y \in 1..n : y < g[1] \/ g[m + 1] <= y => s[y] \in Separators
      BY <2>1 DEF Lays, m
    <3> QED
      BY <3>2, <3>3, <3>4
  <2>14. Lays(u, d, h)
    BY <2>2, <2>4, <2>11, <2>12, <2>13 DEF Lays, m
  <2>15. Collapse(u) = d
    BY <1>1, <2>14, CollapseIsLayout
  <2> QED
    BY <2>15 DEF u, d
<1> QED
  BY <1>4, <1>5

\* A label is collapsed lowercase, and it names the phase it is the label of.
LEMMA LabelIs ==
    ASSUME NEW k \in Kinds, NEW n \in Numbers \cup {-1}
    PROVE  /\ LabelOf(k, n) \in Seq(Token) /\ LabelOf(k, n) # <<>>
           /\ LabelOf(k, n)[1] \notin Separators
           /\ LabelOf(k, n)[Len(LabelOf(k, n))] \notin Separators
           /\ Collapse(LabelOf(k, n)) = LabelOf(k, n)
           /\ <<k, n>> \in Says(LabelOf(k, n))
           /\ n # 0 => NormalizePhase(LabelOf(k, n)) = LabelOf(k, n)
<1> DEFINE l == LabelOf(k, n)
<1>1. k \in Token /\ "-" \in Token /\ \A c \in Digits : c \in Token
  BY DEF Token, Tokens
<1>2. n # -1 => NumeralOf[n] \in Digits /\ NumeralOf[n] \in DigitsOf(n) /\ n \in Numbers
  <2>1. \A o \in Numbers : NumeralOf[o] \in Digits /\ NumberOf[NumeralOf[o]] = o
    BY DEF Numbers, Digits, NumeralOf, NumberOf
  <2> QED
    BY <2>1 DEF DigitsOf
<1>3. k \in {"implementation", "review", "fix"}
  BY DEF Kinds
<1>4. k \notin Separators /\ "-" \notin Separators /\ \A c \in Digits : c \notin Separators
  BY <1>3, WordsAreInk DEF Ordinary1
<1>5. /\ l \in Seq(Token) /\ l # <<>> /\ l[1] = k
      /\ n = -1 => Len(l) = 1
      /\ n # -1 => Len(l) = 3 /\ l[2] = "-" /\ l[3] = NumeralOf[n]
  BY <1>1, <1>2 DEF LabelOf
<1> HIDE DEF l
<1>6. \A x \in 1..Len(l) : l[x] \notin Separators
  <2>1. CASE n = -1
    <3>1. Len(l) = 1
      BY <1>5, <2>1
    <3>2. \A x \in 1..Len(l) : x = 1
      BY <3>1
    <3> QED
      BY <1>4, <1>5, <3>2
  <2>2. CASE n # -1
    <3>1. \A x \in 1..Len(l) : x = 1 \/ x = 2 \/ x = 3
      BY <1>5, <2>2
    <3> QED
      BY <1>2, <1>4, <1>5, <2>2, <3>1
  <2> QED
    BY <2>1, <2>2
<1>7. Len(l) \in Nat /\ 1 \in 1..Len(l) /\ Len(l) \in 1..Len(l)
  BY <1>5
<1>8. Collapse(l) = l
  BY <1>5, <1>6, <1>7, CollapseKeeps
<1>9. ParsesAs(Lower(l), k, n)
  <2>1. LowerOf(k) = k /\ LowerOf("-") = "-" /\ \A c \in Digits : LowerOf(c) = c
    <3>1. \A c \in Digits : c # "REVIEW" /\ c # "TH"
      BY DEF Digits
    <3> QED
      BY <1>3, <3>1, LowerOfIs
  <2>2. Lower(l) \in Seq(Token) /\ Len(Lower(l)) = Len(l)
        /\ \A x \in 1..Len(l) : Lower(l)[x] = LowerOf(l[x])
    BY <1>5, LowerIs
  <2>3. Lower(l)[1] = k
    BY <1>5, <1>7, <2>1, <2>2
  <2>4. NameAt(Lower(l), 1, 1, k)
    BY <1>3, <2>3 DEF NameAt
  <2>5. CASE n = -1
    BY <1>5, <2>2, <2>4, <2>5 DEF ParsesAs
  <2>6. CASE n # -1
    <3>0. Len(l) = 3 /\ 2 \in 1..3 /\ 3 \in 1..3
      BY <1>5, <2>6
    <3>1. 2 \in 1..Len(l) /\ 3 \in 1..Len(l) /\ Len(l) = 3
      BY <3>0
    <3>2. Lower(l)[2] = "-" /\ Lower(l)[3] \in DigitsOf(n)
      BY <1>2, <1>5, <2>1, <2>2, <2>6, <3>1
    <3>3. Len(Lower(l)) = 3 /\ 3 - 1 = 2 /\ 3 - 2 = 1
      BY <2>2, <3>1
    <3> QED
      BY <1>2, <2>4, <2>6, <3>2, <3>3 DEF ParsesAs
  <2> QED
    BY <2>5, <2>6
<1>10. <<k, n>> \in Says(l)
  <2>1. PICK g : Lays(l, l, g)
    BY <1>5, <1>8, CollapseType
  <2> QED
    BY <1>5, <1>9, <2>1, SaysIs
<1>11. n # 0 => NormalizePhase(l) = LabelOf(k, n)
  BY <1>5, <1>10, NormalizeIs
<1> QED
  BY <1>5, <1>6, <1>7, <1>8, <1>10, <1>11 DEF l

\* Texts that collapse to the same say the same.
LEMMA SameCollapsed ==
    ASSUME NEW s \in Seq(Token), NEW u \in Seq(Token), Collapse(s) = Collapse(u)
    PROVE  NormalizePhase(s) = NormalizePhase(u) /\ Says(s) = Says(u)
<1>1. NormalizePhase(s) = NormalizePhase(u)
  BY DEF NormalizePhase
<1>2. ASSUME NEW k \in Kinds, NEW n \in Numbers \cup {-1}
      PROVE  <<k, n>> \in Says(s) <=> <<k, n>> \in Says(u)
  <2>1. <<k, n>> \in Says(s) <=> ParsePhase(Lower(Collapse(s))) = Parsed(k, n)
    BY SaysParsed
  <2>2. <<k, n>> \in Says(u) <=> ParsePhase(Lower(Collapse(u))) = Parsed(k, n)
    BY SaysParsed
  <2> QED
    BY <2>1, <2>2
<1>3. Says(s) \subseteq Phases /\ Says(u) \subseteq Phases
  BY DEF Says
<1>4. ASSUME NEW p \in Phases PROVE p \in Says(s) <=> p \in Says(u)
  <2>1. PICK k \in Kinds, n \in Numbers \cup {-1} : p = <<k, n>>
    BY DEF Phases
  <2> QED
    BY <1>2, <2>1
<1>5. Says(s) = Says(u)
  BY <1>3, <1>4
<1> QED
  BY <1>1, <1>5

\* What a text is normalized to is a text, and normalizing it again changes nothing.
LEMMA NormalizeTwice ==
    ASSUME NEW s \in Seq(Token)
    PROVE  /\ NormalizePhase(s) \in Seq(Token)
           /\ NormalizePhase(s) = <<>> <=> Collapse(s) = <<>>
           /\ Collapse(NormalizePhase(s)) = NormalizePhase(s)
           /\ NormalizePhase(NormalizePhase(s)) = NormalizePhase(s)
<1>1. Collapse(s) \in Seq(Token)
  BY CollapseType
<1>2. CASE \A p \in Says(s) : p[2] = 0
  <2>1. NormalizePhase(s) = Collapse(s)
    BY <1>2, NormalizeIs
  <2>2. NormalizePhase(Collapse(s)) = NormalizePhase(s) /\ Collapse(Collapse(s)) = Collapse(s)
    BY <1>1, CollapseTwice, SameCollapsed
  <2> QED
    BY <1>1, <2>1, <2>2
<1>3. CASE \E p \in Says(s) : p[2] # 0
  <2>1. PICK k \in Kinds, n \in Numbers \cup {-1} : <<k, n>> \in Says(s) /\ n # 0
    <3>1. Says(s) \subseteq Phases
      BY DEF Says
    <3>2. PICK p \in Phases : p \in Says(s) /\ p[2] # 0
      BY <1>3, <3>1
    <3>3. PICK k \in Kinds, n \in Numbers \cup {-1} : p = <<k, n>>
      BY DEF Phases
    <3> QED
      BY <3>2, <3>3
  <2>2. NormalizePhase(s) = LabelOf(k, n)
    BY <2>1, NormalizeIs
  <2>3. Collapse(s) # <<>>
    BY <2>1, CollapseType DEF Says
  <2> QED
    BY <2>1, <2>2, <2>3, LabelIs
<1> QED
  BY <1>2, <1>3

\* A text that collapses to a canonical label names its phase.
LEMMA CanonicalSays ==
    ASSUME NEW s \in Seq(Token), IsCanonical(Collapse(s))
    PROVE  \E p \in Says(s) : p[2] # 0
<1>1. PICK k \in Kinds, n \in Numbers \cup {-1} : n # 0 /\ Collapse(s) = LabelOf(k, n)
  <2>1. \A k : <<k>> = LabelOf(k, -1)
    BY DEF LabelOf
  <2>2. -1 # 0 /\ \A n \in Numbers \ {0} : n \in Numbers \cup {-1} /\ n # 0
    OBVIOUS
  <2> QED
    BY <2>1, <2>2 DEF IsCanonical
<1>2. <<k, n>> \in Says(LabelOf(k, n)) /\ LabelOf(k, n) \in Seq(Token)
      /\ Collapse(LabelOf(k, n)) = LabelOf(k, n)
  BY LabelIs
<1>3. Says(s) = Says(LabelOf(k, n))
  BY <1>1, <1>2, SameCollapsed
<1>4. <<k, n>> \in Says(s) /\ <<k, n>>[2] = n
  BY <1>2, <1>3
<1> QED
  BY <1>1, <1>4

-----------------------------------------------------------------------------
(* Values *)

IsText(v) == \E t \in Seq(Token) : v = Str(t)

\* A text as a value, and back.
LEMMA TextOfStr ==
    ASSUME NEW t \in Seq(Token)
    PROVE  /\ Text(Str(t)) = t /\ Is("str", Str(t)) /\ Str(t) # None
           /\ \A m : Str(t) # Member(m)
           /\ t # <<>> => Str(t)[2] = t[1]
<1> DEFINE S == Token \cup {"str"}
           u == <<"str">> \o t
<1>1. <<"str">> \in Seq(S) /\ t \in Seq(S)
  OBVIOUS
<1>2. u \in Seq(S) /\ Len(u) = Len(t) + 1 /\ u[1] = "str"
      /\ \A i \in 1..Len(t) : u[i + 1] = t[i]
  BY <1>1
<1> HIDE DEF u, S
<1>3. Tail(u) = t
  <2>1. Tail(u) \in Seq(S) /\ Len(Tail(u)) = Len(t)
    BY <1>2
  <2>2. \A i \in 1..Len(t) : Tail(u)[i] = t[i]
    BY <1>2
  <2> QED
    BY <1>1, <2>1, <2>2
<1>4. t # <<>> => u[2] = t[1]
  <2>1. t # <<>> => 1 \in 1..Len(t) /\ 1 + 1 = 2
    OBVIOUS
  <2> QED
    BY <1>2, <2>1
<1>5. Str(t) = u /\ u[1] # "None" /\ u[1] # "member"
  BY <1>2 DEF Str, u
<1>6. None[1] = "None" /\ \A m : Member(m)[1] = "member"
  BY DEF None, Member
<1> QED
  BY <1>2, <1>3, <1>4, <1>5, <1>6 DEF Text, Is

\* A text of one token as a value.
LEMMA StrOne ==
    ASSUME NEW m \in Token
    PROVE  /\ <<m>> \in Seq(Token) /\ Str(<<m>>)[2] = m
           /\ \A t \in Seq(Token) : Str(t) = Str(<<m>>) <=> t = <<m>>
<1>1. <<m>> \in Seq(Token) /\ <<m>> # <<>> /\ <<m>>[1] = m
  OBVIOUS
<1> QED
  BY <1>1, TextOfStr

\* The types of the other values.
LEMMA TypesAre ==
    /\ None[1] = "None" /\ Text(None) = <<>>
    /\ \A n : Num(n)[1] = "int" /\ Num(n)[2] = n
    /\ \A m : Member(m)[1] = "member" /\ Member(m)[2] = m
    /\ \A n, d : Float(n, d)[1] = "float" /\ Float(n, d)[2] = n /\ Float(n, d)[3] = d
<1>1. Text(None) = <<>>
  BY DEF None, Text
<1> QED
  BY <1>1 DEF None, Num, Member, Float

\* The modes that are accepted.
LEMMA CoercibleIs ==
    ASSUME NEW v, Coercible(v), v # None
    PROVE  \E m \in Modes : Coerce(v) = Member(m) /\ v[2] = m /\ v \in {Member(m), Str(<<m>>)}
<1>1. PICK m \in Modes : v \in {Member(m), Str(<<m>>)}
  BY DEF Coercible
<1>2. m \in Token
  BY DEF Token
<1>3. v[2] = m
  BY <1>1, <1>2, StrOne, TypesAre
<1> QED
  BY <1>1, <1>3 DEF Coerce

\* What Strip leaves is blank only if all of the text was.
LEMMA StripShows ==
    ASSUME NEW t \in Seq(Token), ~IsBlank(t)
    PROVE  Strip(t) \in Seq(Token) /\ Strip(t) # <<>>
<1>1. Seen(t) # {}
  BY DEF IsBlank, Blanks, Seen
<1> QED
  BY <1>1, StripIs, StripEmpty

-----------------------------------------------------------------------------
(* What the actors may write *)

\* The keys and stream ids that are given are None, a number or a text.
LEMMA TextsAre ==
    ASSUME NEW v \in Texts \cup {Str(<<"KEY">>), Str(<<"STREAM">>)}
    PROVE  v = None \/ IsText(v) \/ v = Num(5)
<1>1. /\ "KEY" \in Token /\ "STREAM" \in Token /\ "2" \in Token /\ "BOM" \in Token
      /\ "NEL" \in Token /\ Gap \in Token
  BY GapSeparates DEF Token, Digits, Separators, PySpace
<1>2. /\ <<"KEY">> \in Seq(Token) /\ <<"STREAM">> \in Seq(Token)
      /\ <<"KEY", Gap, "2">> \in Seq(Token) /\ <<Gap, "KEY">> \in Seq(Token)
      /\ <<Gap>> \in Seq(Token) /\ <<>> \in Seq(Token) /\ <<"BOM">> \in Seq(Token)
      /\ <<"NEL">> \in Seq(Token) /\ <<"BOM", "KEY">> \in Seq(Token)
  BY <1>1
<1>3. v \in {None, Str(<<"KEY", Gap, "2">>), Str(<<Gap, "KEY">>), Str(<<Gap>>), Str(<<>>),
             Str(<<"BOM">>), Str(<<"NEL">>), Str(<<"BOM", "KEY">>), Num(5), Str(<<"KEY">>),
             Str(<<"STREAM">>)}
  BY DEF Texts, Gap
<1> QED
  BY <1>2, <1>3 DEF IsText

IsLabelCall(v) == \E l \in Labels : v = <<"label", l[1], l[2]>>

\* The phases that are given are None, a number, a member, a text or a call of phase_label.
LEMMA PhasesAre ==
    ASSUME NEW v \in PhaseArguments \cup {Str(<<"fix", "-", "2">>)}
    PROVE  v = None \/ v = Member("review") \/ v = Num(2) \/ IsText(v) \/ IsLabelCall(v)
<1> DEFINE Some ==
        {<<"REVIEW", "_", "1">>, <<"1", "st", Gap, "review">>, <<"review", "-", "01">>,
         <<"bug", "-", "fix">>, <<"review", "-", "0">>, <<"0", "th", Gap, "fix">>, <<"_">>,
         <<Gap>>, <<>>, <<"NEL">>, <<"BOM">>, <<"deploy", "_", "2">>, <<"review", Gap, "-", "3">>,
         <<"11", "st", Gap, "fix">>, <<"fix", "-", "2">>}
<1>1. /\ "REVIEW" \in Token /\ "_" \in Token /\ "1" \in Token /\ "st" \in Token
      /\ "review" \in Token /\ "-" \in Token /\ "01" \in Token /\ "bug" \in Token
      /\ "fix" \in Token /\ "0" \in Token /\ "th" \in Token /\ "deploy" \in Token
      /\ "2" \in Token /\ "3" \in Token /\ "11" \in Token /\ "NEL" \in Token
      /\ "BOM" \in Token /\ Gap \in Token
  BY GapSeparates DEF Token, Tokens, Digits, Separators, PySpace
<1> HIDE DEF Some
<1>2. Some \subseteq Seq(Token)
  <2>1. \A a \in Token : <<a>> \in Seq(Token)
    OBVIOUS
  <2>2. \A a, b, c \in Token : <<a, b, c>> \in Seq(Token)
    OBVIOUS
  <2>3. \A a, b, c, d \in Token : <<a, b, c, d>> \in Seq(Token)
    OBVIOUS
  <2>4. /\ <<"_">> \in Seq(Token) /\ <<Gap>> \in Seq(Token) /\ <<"NEL">> \in Seq(Token)
        /\ <<"BOM">> \in Seq(Token)
    BY <1>1, <2>1, Zenon
  <2>0. <<>> \in Seq(Token)
    OBVIOUS
  <2>5. /\ <<"REVIEW", "_", "1">> \in Seq(Token) /\ <<"review", "-", "01">> \in Seq(Token)
        /\ <<"bug", "-", "fix">> \in Seq(Token) /\ <<"review", "-", "0">> \in Seq(Token)
        /\ <<"deploy", "_", "2">> \in Seq(Token) /\ <<"fix", "-", "2">> \in Seq(Token)
    BY <1>1, <2>2
  <2>6. /\ <<"1", "st", Gap, "review">> \in Seq(Token) /\ <<"0", "th", Gap, "fix">> \in Seq(Token)
        /\ <<"review", Gap, "-", "3">> \in Seq(Token) /\ <<"11", "st", Gap, "fix">> \in Seq(Token)
    BY <1>1, <2>3
  <2> QED
    BY <2>0, <2>4, <2>5, <2>6 DEF Some
<1>3. \/ v \in {None, Member("review"), Num(2)}
      \/ v \in {Str(s) : s \in Some}
      \/ v \in {<<"label", l[1], l[2]>> : l \in Labels}
  BY DEF PhaseArguments, Gap, Some
<1> QED
  BY <1>2, <1>3 DEF IsText, IsLabelCall

\* The parts of an input.
LEMMA InputIs ==
    ASSUME NEW input \in Inputs
    PROVE  /\ input.issue_key \in Texts \cup {Str(<<"KEY">>), Str(<<"STREAM">>)}
           /\ input.stream_id \in Texts \cup {Str(<<"KEY">>), Str(<<"STREAM">>)}
           /\ input.phase \in PhaseArguments \cup {Str(<<"fix", "-", "2">>)}
           /\ input.pricing_mode \in ModeArguments \cup {Member("subscription")}
  BY DEF Inputs, Ordinary

\* The modes that are given.
LEMMA ModesAre ==
    ASSUME NEW v \in ModeArguments \cup {Member("subscription")}
    PROVE  Coercible(v) <=> v \in {None, Member("subscription"), Member("api_metered"),
                                   Str(<<"api_metered">>)}
<1>1. "gold" \in Token /\ "gold" \notin Modes /\ \A m \in Modes : m \in Token
  BY DEF Token, Modes
<1>2. ~Coercible(Str(<<"gold">>))
  <2>1. <<"gold">> \in Seq(Token)
    BY <1>1
  <2>2. Str(<<"gold">>) # None /\ \A m \in Modes : Str(<<"gold">>) # Member(m)
    BY <2>1, TextOfStr
  <2>3. \A m \in Modes : Str(<<"gold">>) # Str(<<m>>)
    <3>1. \A m \in Modes : <<"gold">> # <<m>>
      BY <1>1
    <3> QED
      BY <1>1, <2>1, <3>1, StrOne
  <2> QED
    BY <2>2, <2>3 DEF Coercible
<1>3. ~Coercible(Num(1))
  <2>1. \A m \in Modes : Str(<<m>>)[1] = "str"
    BY <1>1, StrOne, TextOfStr DEF Is
  <2> QED
    BY <2>1, TypesAre DEF Coercible
<1>4. Num(1) # None /\ \A m : Num(1) # Member(m)
  BY TypesAre
<1>5. /\ Coercible(None) /\ Coercible(Member("subscription")) /\ Coercible(Member("api_metered"))
      /\ Coercible(Str(<<"api_metered">>))
  BY DEF Coercible, Modes
<1> QED
  BY <1>2, <1>3, <1>5 DEF ModeArguments

-----------------------------------------------------------------------------
(* What the hook reads and what the orchestrator exports *)

\* What the hook reads of a variable: its text without white space around it, or nothing.
LEMMA EnvIs ==
    ASSUME NEW e, NEW v, e[v] \in Seq(Token)
    PROVE  /\ Strip(e[v]) \in Seq(Token)
           /\ Strip(e[v]) = <<>> => Env(e, v) = None
           /\ Strip(e[v]) # <<>> => Env(e, v) = Str(Strip(e[v])) /\ Env(e, v) # None
           /\ Env(e, v) = None \/ IsText(Env(e, v))
<1>1. Strip(e[v]) \in Seq(Token)
  BY StripIs
<1> QED
  BY <1>1, TextOfStr DEF Env, IsText

\* The queue of a record whose phase was written t.
Queue(t) == IF Collapse(t) = <<>> THEN None ELSE Str(NormalizePhase(t))

\* The queue is the normalized phase of what was written, or None.
LEMMA QueueIs ==
    ASSUME NEW e, e["MADO_PHASE"] \in Seq(Token)
    PROVE  PhaseFromEnv(e) = Queue(e["MADO_PHASE"])
<1> DEFINE t == e["MADO_PHASE"]
           written == Env(e, "MADO_PHASE")
<1>1. PhaseFromEnv(e) = IF written = None \/ NormalizePhase(Text(written)) = <<>>
                        THEN None ELSE Str(NormalizePhase(Text(written)))
  BY DEF PhaseFromEnv
<1>2. /\ Strip(t) \in Seq(Token)
      /\ Strip(t) = <<>> => written = None
      /\ Strip(t) # <<>> => written = Str(Strip(t)) /\ written # None
  BY EnvIs
<1> HIDE DEF written
<1>3. Collapse(Strip(t)) = Collapse(t)
  BY CollapseStripped
<1>4. CASE Strip(t) = <<>>
  <2>1. Ink(<<>>) = {} /\ <<>> \in Seq(Token)
    BY DEF Ink
  <2>2. Collapse(<<>>) = <<>>
    BY <2>1, CollapseType
  <2> QED
    BY <1>1, <1>2, <1>3, <1>4, <2>2 DEF Queue
<1>5. CASE Strip(t) # <<>>
  <2>1. Text(written) = Strip(t)
    BY <1>2, <1>5, TextOfStr
  <2>2. NormalizePhase(Strip(t)) = NormalizePhase(t)
    BY <1>2, <1>3, SameCollapsed
  <2>3. NormalizePhase(t) = <<>> <=> Collapse(t) = <<>>
    BY NormalizeTwice
  <2> QED
    BY <1>1, <1>2, <1>5, <2>1, <2>2, <2>3 DEF Queue
<1> QED
  BY <1>4, <1>5

\* A queue is None or a text.
LEMMA QueueType ==
    ASSUME NEW t \in Seq(Token)
    PROVE  /\ Queue(t) = None \/ IsText(Queue(t))
           /\ Queue(t) = None <=> Collapse(t) = <<>>
           /\ Queue(NormalizePhase(t)) = Queue(t)
<1>1. /\ NormalizePhase(t) \in Seq(Token)
      /\ NormalizePhase(t) = <<>> <=> Collapse(t) = <<>>
      /\ Collapse(NormalizePhase(t)) = NormalizePhase(t)
      /\ NormalizePhase(NormalizePhase(t)) = NormalizePhase(t)
  BY NormalizeTwice
<1>2. Str(NormalizePhase(t)) # None
  BY <1>1, TextOfStr
<1> QED
  BY <1>1, <1>2 DEF Queue, IsText

GoodKind(v) == v \in {Member("fix"), Str(<<"bug", Gap, "fix">>)}

\* The kinds that the calls of phase_label name.
LEMMA KindOfLabels ==
    ASSUME NEW l \in Labels
    PROVE  KindOf(l[1]) = IF GoodKind(l[1]) THEN {"fix"} ELSE {}
<1> DEFINE v == l[1]
           b == <<"bug", Gap, "fix">>
           c == <<"deploy">>
<1>1. v \in {Member("fix"), Str(b), Str(c), None}
  BY DEF Labels, Gap
<1>2. /\ "bug" \in Token /\ "fix" \in Token /\ "deploy" \in Token /\ Gap \in Token
      /\ "deploy" \notin Separators /\ "bug" \notin Separators /\ "fix" \notin Separators
  <2>1. "deploy" \notin Separators
    <3>1. Gap # "deploy"
      BY DEF Gap
    <3> QED
      BY <3>1, SeparatorsAre
  <2> QED
    BY <2>1, GapSeparates, WordsAreInk DEF Token, Tokens, Ordinary1
<1>3. /\ b \in Seq(Token) /\ Len(b) = 3 /\ b[1] = "bug" /\ b[2] = Gap /\ b[3] = "fix"
      /\ c \in Seq(Token) /\ Len(c) = 1 /\ c[1] = "deploy" /\ b # <<>> /\ c # <<>>
  BY <1>2
<1> HIDE DEF v, b, c
<1>4. Collapse(b) = b
  <2>1. \A x \in 1..Len(b) : x = 1 \/ x = 2 \/ x = 3
    BY <1>3
  <2>2. \A x \in 1..Len(b) : b[x] \in Separators => b[x] = Gap /\ b[x + 1] \notin Separators
    BY <1>2, <1>3, <2>1
  <2> QED
    BY <1>2, <1>3, <2>2, CollapseKeeps
<1>5. Collapse(c) = c
  <2>1. \A x \in 1..Len(c) : x = 1
    BY <1>3
  <2> QED
    BY <1>2, <1>3, <2>1, CollapseKeeps
<1>6. /\ Lower(b) \in Seq(Token) /\ Len(Lower(b)) = 3
      /\ Lower(b)[1] = "bug" /\ Lower(b)[2] = Gap /\ Lower(b)[3] = "fix"
  <2>1. 1 \in 1..3 /\ 2 \in 1..3 /\ 3 \in 1..3
    OBVIOUS
  <2> QED
    BY <1>3, <2>1, LowerIs, LowerOfIs
<1>7. Lower(c) \in Seq(Token) /\ Len(Lower(c)) = 1 /\ Lower(c)[1] = "deploy"
  <2>1. 1 \in 1..1
    OBVIOUS
  <2> QED
    BY <1>3, <2>1, LowerIs, LowerOfIs
<1>8. IsKind(Lower(b)) /\ KindByWord(Lower(b)) = "fix"
  <2>1. NameAt(Lower(b), 1, 3, "fix") /\ "fix" \in Kinds
    BY <1>6 DEF NameAt, Kinds
  <2>2. SubSeq(Lower(b), 1, 3) = Lower(b)
    BY <1>6
  <2>3. IsKind(SubSeq(Lower(b), 1, 3)) /\ KindByWord(SubSeq(Lower(b), 1, 3)) = "fix"
    BY <1>6, <2>1, KindByWordIs
  <2> QED
    BY <2>2, <2>3
<1>9. ~IsKind(Lower(c))
  <2>1. \A k \in Kinds : ~NameAt(Lower(c), 1, 1, k)
    BY <1>7 DEF NameAt
  <2>2. SubSeq(Lower(c), 1, 1) = Lower(c)
    BY <1>7
  <2>3. ~IsKind(SubSeq(Lower(c), 1, 1))
    BY <1>7, <2>1, KindByWordIs
  <2> QED
    BY <2>2, <2>3
<1>10. /\ Text(Str(b)) = b /\ Is("str", Str(b)) /\ ~Is("member", Str(b))
       /\ Text(Str(c)) = c /\ Is("str", Str(c)) /\ ~Is("member", Str(c))
  BY <1>3, TextOfStr DEF Is
<1>11. KindOf(Str(b)) = {"fix"} /\ KindOf(Str(c)) = {}
  BY <1>4, <1>5, <1>8, <1>9, <1>10 DEF KindOf
<1>12. KindOf(Member("fix")) = {"fix"} /\ KindOf(None) = {}
  BY TypesAre DEF KindOf, Is
<1>13. ~GoodKind(Str(c)) /\ ~GoodKind(None) /\ GoodKind(Str(b)) /\ GoodKind(Member("fix"))
  <2>1. Str(b) # Str(c)
    <3>1. b # c
      BY <1>3
    <3> QED
      BY <1>3, <3>1, TextOfStr
  <2>2. Str(c) # Member("fix") /\ None # Member("fix") /\ Str(b) # None
    BY <1>3, TextOfStr, TypesAre
  <2> QED
    BY <2>1, <2>2 DEF GoodKind, b
<1> QED
  BY <1>1, <1>11, <1>12, <1>13 DEF v

\* What is exported for a key or a stream id, and when it is refused.
LEMMA RequiredTextIs ==
    ASSUME NEW v, v = None \/ IsText(v) \/ v = Num(5)
    PROVE  /\ RequiredText(v) \subseteq Seq(Token)
           /\ v = None => RequiredText(v) = {<<>>}
           /\ IsText(v) => /\ RequiredText(v) = IF IsBlank(Text(v)) THEN {} ELSE {Strip(Text(v))}
                           /\ v # None /\ Is("str", v) /\ Text(v) \in Seq(Token)
           /\ v = Num(5) => RequiredText(v) = {} /\ v # None /\ ~Is("str", v)
<1>1. Num(5) # None /\ ~Is("str", Num(5))
  BY TypesAre DEF Is
<1>2. CASE v = None
  <2>1. ~IsText(v)
    BY <1>2, TextOfStr DEF IsText
  <2>2. ~Is("str", v)
    BY <1>2, TypesAre DEF Is
  <2>3. RequiredText(v) = {<<>>}
    BY <1>2, <2>2 DEF RequiredText
  <2>4. <<>> \in Seq(Token)
    OBVIOUS
  <2> QED
    BY <1>1, <1>2, <2>1, <2>3, <2>4
<1>3. CASE IsText(v)
  <2>1. PICK t \in Seq(Token) : v = Str(t)
    BY <1>3 DEF IsText
  <2>2. Text(v) = t /\ Is("str", v) /\ v # None
    BY <2>1, TextOfStr
  <2>3. Strip(t) \in Seq(Token)
    BY StripIs
  <2>4. RequiredText(v) = IF IsBlank(Text(v)) THEN {} ELSE {Strip(Text(v))}
    BY <2>2 DEF RequiredText
  <2> QED
    BY <1>1, <2>2, <2>3, <2>4
<1>4. CASE v = Num(5)
  <2>1. RequiredText(v) = {} /\ ~IsText(v)
    BY <1>1, <1>4, TextOfStr DEF RequiredText, IsText
  <2> QED
    BY <1>1, <1>4, <2>1
<1> QED
  BY <1>2, <1>3, <1>4

\* What is exported for a mode, and when it is refused.
LEMMA ModeTextIs ==
    ASSUME NEW v \in ModeArguments \cup {Member("subscription")}, NEW t \in ModeText(v)
    PROVE  /\ t \in Seq(Token) /\ Coercible(v)
           /\ v = None => t = <<>>
           /\ v # None => v[2] \in Modes /\ t = <<v[2]>>
<1>1. Coercible(v) /\ t = IF v = None THEN <<>> ELSE <<v[2]>>
  BY DEF ModeText
<1>2. v # None => v[2] \in Modes
  BY <1>1, CoercibleIs
<1>3. \A m \in Modes : <<m>> \in Seq(Token)
  BY DEF Token
<1>4. <<>> \in Seq(Token)
  OBVIOUS
<1> QED
  BY <1>1, <1>2, <1>3, <1>4

\* A text is in the lane of the phase it names.
LEMMA TextInLane ==
    ASSUME NEW t \in Seq(Token)
    PROVE  InItsLane(Str(t), Queue(t)) /\ Asked(Str(t)) = Says(t)
<1>1. Text(Str(t)) = t /\ Is("str", Str(t)) /\ Str(t) # None /\ ~Is("member", Str(t))
      /\ ~Is("label", Str(t))
  BY TextOfStr DEF Is
<1>2. Asked(Str(t)) = Says(t)
  BY <1>1 DEF Asked
<1>3. Says(t) \subseteq Phases
  BY DEF Says
<1> DEFINE asked == {p \in Says(t) : p[2] # 0}
<1>4. CASE asked # {}
  <2>1. PICK p \in Says(t) : p[2] # 0
    BY <1>4
  <2>2. PICK k \in Kinds, n \in Numbers \cup {-1} : p = <<k, n>>
    BY <1>3 DEF Phases
  <2>3. NormalizePhase(t) = LabelOf(p[1], p[2])
    BY <2>1, <2>2, NormalizeIs
  <2>4. Collapse(t) # <<>>
    BY <2>1, CollapseType DEF Says
  <2>5. Queue(t) = Str(LabelOf(p[1], p[2]))
    BY <2>3, <2>4 DEF Queue
  <2>6. \E q \in asked : Queue(t) = Str(LabelOf(q[1], q[2]))
    BY <2>1, <2>5
  <2> QED
    BY <1>2, <1>4, <2>6 DEF InItsLane
<1>5. CASE asked = {}
  <2>1. NormalizePhase(t) = Collapse(t)
    <3>1. \A p \in Says(t) : p[2] = 0
      BY <1>5
    <3> QED
      BY <3>1, NormalizeIs
  <2>2. Collapse(t) = <<>> => Queue(t) = None
    BY DEF Queue
  <2>3. Collapse(t) # <<>> => /\ Queue(t) = Str(Collapse(t))
                              /\ Text(Queue(t)) = Collapse(t) /\ ~IsCanonical(Collapse(t))
    <3>1. Collapse(t) \in Seq(Token)
      BY CollapseType
    <3>2. ~IsCanonical(Collapse(t))
      BY <1>5, CanonicalSays
    <3> QED
      BY <2>1, <3>1, <3>2, TextOfStr DEF Queue
  <2> QED
    BY <1>1, <1>2, <1>5, <2>2, <2>3 DEF InItsLane
<1> QED
  BY <1>2, <1>4, <1>5

\* When a call of phase_label has an answer, and which.
LabelNumber(v) == IF v = None THEN -1 ELSE v[2]

\* What phase_label answers, and when it refuses.
LEMMA PhaseLabelIs ==
    ASSUME NEW l \in Labels
    PROVE  /\ PhaseLabel(l[1], l[2]) =
                IF GoodKind(l[1]) /\ l[2] \in {None, Num(1), Num(11)}
                THEN {LabelOf("fix", LabelNumber(l[2]))} ELSE {}
           /\ l[2] \in {None, Num(1), Num(11)} =>
                LabelNumber(l[2]) \in (Numbers \cup {-1}) \ {0}
<1> DEFINE n == l[2]
<1>1. n \in {None, Num(0), Num(1), Num(11), Num(-1), <<"bool", 1>>, Float(2, 1)}
  BY DEF Labels
<1>2. /\ ~Is("int", None) /\ ~Is("int", <<"bool", 1>>) /\ ~Is("int", Float(2, 1))
      /\ \A o : Is("int", Num(o)) /\ Num(o) # None /\ Num(o)[2] = o
      /\ <<"bool", 1>> # None /\ Float(2, 1) # None
  <2>1. <<"bool", 1>>[1] = "bool"
    OBVIOUS
  <2> QED
    BY <2>1, TypesAre DEF Is
<1>3. KindOf(l[1]) = IF GoodKind(l[1]) THEN {"fix"} ELSE {}
  BY KindOfLabels
<1>4. PhaseLabel(l[1], n) = CASE n = None -> {<<k>> : k \in KindOf(l[1])}
                              [] Is("int", n) /\ n[2] >= 1 -> {LabelOf(k, n[2]) : k \in KindOf(l[1])}
                              [] OTHER -> {}
  BY DEF PhaseLabel
<1>5. \A k : <<k>> = LabelOf(k, -1)
  BY DEF LabelOf
<1> HIDE DEF n
<1>6. CASE n = None
  <2>1. PhaseLabel(l[1], n) = {LabelOf(k, -1) : k \in KindOf(l[1])}
    BY <1>2, <1>4, <1>5, <1>6
  <2>2. LabelNumber(n) = -1 /\ -1 \in (Numbers \cup {-1}) \ {0}
    BY <1>6 DEF LabelNumber
  <2> QED
    BY <1>3, <1>6, <2>1, <2>2 DEF n
<1>7. CASE n \in {Num(1), Num(11)}
  <2>1. n # None /\ Is("int", n) /\ n[2] \in {1, 11} /\ LabelNumber(n) = n[2]
    BY <1>2, <1>7 DEF LabelNumber
  <2>2. n[2] >= 1 /\ n[2] \in (Numbers \cup {-1}) \ {0}
    BY <2>1 DEF Numbers
  <2>3. PhaseLabel(l[1], n) = {LabelOf(k, n[2]) : k \in KindOf(l[1])}
    BY <1>4, <2>1, <2>2
  <2> QED
    BY <1>3, <1>7, <2>1, <2>2, <2>3 DEF n
<1>8. CASE n \in {Num(0), Num(-1), <<"bool", 1>>, Float(2, 1)}
  <2>1. n # None /\ ~(Is("int", n) /\ n[2] >= 1)
    BY <1>2, <1>8
  <2>2. PhaseLabel(l[1], n) = {}
    BY <1>4, <2>1
  <2>3. n \notin {Num(1), Num(11)}
    BY <1>2, <2>1
  <2> QED
    BY <2>1, <2>2, <2>3 DEF n
<1> QED
  BY <1>1, <1>6, <1>7, <1>8

\* What is exported for a phase written t, by either end's reading of it.
LEMMA PhaseOfText ==
    ASSUME NEW t \in Seq(Token)
    PROVE  PhaseText(Str(t)) = IF Collapse(t) = <<>> \/ (\E p \in Says(t) : p[2] = 0)
                               THEN {} ELSE {NormalizePhase(t)}
<1> DEFINE parsed == ParsePhase(Lower(Collapse(t)))
<1>1. Text(Str(t)) = t /\ Is("str", Str(t)) /\ Str(t) # None /\ ~Is("member", Str(t))
      /\ ~Is("label", Str(t))
  BY TextOfStr DEF Is
<1>2. parsed.bad_occurrence <=> \E p \in Says(t) : p[2] = 0
  <2>1. \A k, n : Parsed(k, n).bad_occurrence <=> n = 0
    BY DEF Parsed
  <2>2. CASE parsed = Unrecognized /\ Says(t) = {}
    BY <2>1, <2>2 DEF Unrecognized
  <2>3. CASE \E k \in Kinds, n \in Numbers \cup {-1} : parsed = Parsed(k, n) /\ Says(t) = {<<k, n>>}
    BY <2>1, <2>3
  <2> QED
    BY <2>2, <2>3, SaysParsed
<1> HIDE DEF parsed
<1>3. PhaseText(Str(t)) = IF Collapse(t) # <<>> /\ ~parsed.bad_occurrence
                          THEN {NormalizePhase(t)} ELSE {}
  BY <1>1 DEF PhaseText, parsed
<1> QED
  BY <1>2, <1>3

\* What is exported for a call of phase_label.
LEMMA PhaseOfLabel ==
    ASSUME NEW l \in Labels
    PROVE  LET v == <<"label", l[1], l[2]>>
           IN  /\ PhaseText(v) = PhaseLabel(l[1], l[2])
               /\ Is("label", v) /\ ~Is("str", v) /\ ~Is("member", v) /\ v # None
               /\ v[2] = l[1] /\ v[3] = l[2]
               /\ Asked(v) = {<<"fix", LabelNumber(l[2])>>}
<1> DEFINE v == <<"label", l[1], l[2]>>
<1>1. v[1] = "label" /\ v[2] = l[1] /\ v[3] = l[2]
  OBVIOUS
<1>2. Is("label", v) /\ ~Is("str", v) /\ ~Is("member", v) /\ v # None
  BY <1>1, TypesAre DEF Is
<1> HIDE DEF v
<1>3. PhaseText(v) = PhaseLabel(l[1], l[2])
  BY <1>1, <1>2 DEF PhaseText
<1>4. Asked(v) = {<<"fix", LabelNumber(l[2])>>}
  BY <1>1, <1>2 DEF Asked, LabelNumber
<1> QED
  BY <1>1, <1>2, <1>3, <1>4 DEF v

\* A label is in the lane of its phase.
LEMMA LabelInLane ==
    ASSUME NEW v, NEW k \in Kinds, NEW n \in Numbers \cup {-1}, n # 0, Asked(v) = {<<k, n>>}
    PROVE  /\ LabelOf(k, n) \in Seq(Token)
           /\ InItsLane(v, Queue(LabelOf(k, n))) /\ Queue(LabelOf(k, n)) # None
<1> DEFINE t == LabelOf(k, n)
<1>1. t \in Seq(Token) /\ t # <<>> /\ Collapse(t) = t /\ NormalizePhase(t) = t
  BY LabelIs
<1> HIDE DEF t
<1>2. Queue(t) = Str(t) /\ Queue(t) # None
  BY <1>1, QueueType DEF Queue
<1>3. <<k, n>>[1] = k /\ <<k, n>>[2] = n
  OBVIOUS
<1>4. \E p \in {p \in Asked(v) : p[2] # 0} : Queue(t) = Str(LabelOf(p[1], p[2]))
  BY <1>2, <1>3 DEF t
<1> QED
  BY <1>1, <1>2, <1>4 DEF t, InItsLane

\* Everything exported for a phase is in the lane of what was given for it.
LEMMA PhaseTextIs ==
    ASSUME NEW v \in PhaseArguments \cup {Str(<<"fix", "-", "2">>)}, NEW t \in PhaseText(v)
    PROVE  /\ t \in Seq(Token) /\ InItsLane(v, Queue(t))
           /\ Queue(t) = None <=> v = None
<1>1. CASE v = None
  <2>1. ~Is("member", v) /\ ~Is("str", v) /\ ~Is("label", v)
    BY <1>1, TypesAre DEF Is
  <2>2. t = <<>>
    BY <1>1, <2>1 DEF PhaseText
  <2>3. <<>> \in Seq(Token) /\ Ink(<<>>) = {}
    <3>1. <<>> \in Seq(Token)
      OBVIOUS
    <3> QED
      BY <3>1 DEF Ink
  <2>4. Queue(t) = None
    BY <2>2, <2>3, CollapseType DEF Queue
  <2>5. Asked(v) = {}
    BY <2>1 DEF Asked
  <2> QED
    BY <1>1, <2>2, <2>3, <2>4, <2>5 DEF InItsLane
<1>2. CASE v = Member("review")
  <2>1. Is("member", v) /\ ~Is("str", v) /\ ~Is("label", v) /\ v # None /\ v[2] = "review"
    BY <1>2, TypesAre DEF Is
  <2>2. t = <<"review">>
    BY <2>1 DEF PhaseText
  <2>3. t = LabelOf("review", -1) /\ "review" \in Kinds
    BY <2>2 DEF LabelOf, Kinds
  <2>4. Asked(v) = {<<"review", -1>>}
    BY <2>1 DEF Asked
  <2> QED
    BY <2>1, <2>3, <2>4, LabelInLane
<1>3. CASE v = Num(2)
  <2>1. ~Is("member", v) /\ ~Is("str", v) /\ ~Is("label", v) /\ v # None
    BY <1>3, TypesAre DEF Is
  <2> QED
    BY <2>1 DEF PhaseText
<1>4. CASE IsText(v)
  <2>1. PICK s \in Seq(Token) : v = Str(s)
    BY <1>4 DEF IsText
  <2>2. t = NormalizePhase(s) /\ Collapse(s) # <<>>
    BY <2>1, PhaseOfText
  <2>3. t \in Seq(Token)
    BY <2>2, NormalizeTwice
  <2>4. Queue(t) = Queue(s) /\ Queue(s) # None
    BY <2>2, QueueType
  <2> QED
    BY <2>1, <2>3, <2>4, TextInLane, TextOfStr
<1>5. CASE IsLabelCall(v)
  <2>1. PICK l \in Labels : v = <<"label", l[1], l[2]>>
    BY <1>5 DEF IsLabelCall
  <2>2. PhaseText(v) = PhaseLabel(l[1], l[2]) /\ v # None
        /\ Asked(v) = {<<"fix", LabelNumber(l[2])>>}
    BY <2>1, PhaseOfLabel
  <2>3. t = LabelOf("fix", LabelNumber(l[2])) /\ LabelNumber(l[2]) \in (Numbers \cup {-1}) \ {0}
    BY <2>2, PhaseLabelIs
  <2>4. "fix" \in Kinds
    BY DEF Kinds
  <2> QED
    BY <2>2, <2>3, <2>4, LabelInLane
<1> QED
  BY <1>1, <1>2, <1>3, <1>4, <1>5, PhasesAre

\* What a person writes and what the producer would have exported for it are one queue.
LEMMA TypedOrExported ==
    ASSUME NEW s \in Seq(Token)
    PROVE  /\ PhaseText(Str(s)) = {} => Ink(s) = {} \/ \E p \in Says(s) : p[2] = 0
           /\ \A t \in PhaseText(Str(s)) :
                t \in Seq(Token) /\ Queue(t) = Queue(s) /\ Queue(s) # None
<1>1. Collapse(s) = <<>> <=> Ink(s) = {}
  BY CollapseType
<1>2. NormalizePhase(s) \in Seq(Token)
  BY NormalizeTwice
<1> QED
  BY <1>1, <1>2, PhaseOfText, QueueType

-----------------------------------------------------------------------------
(* What the orchestrator refuses *)

PhaseUsable(v) ==
    /\ \A p \in Asked(v) : p[2] # 0
    /\ CASE Is("str", v) -> \E i \in DOMAIN Text(v) : Text(v)[i] \notin Separators
         [] Is("label", v) -> /\ v[2] \in {Member("fix"), Str(<<"bug", " ", "fix">>)}
                              /\ v[3] \in {None, Num(1), Num(11)}
         [] OTHER -> v = None \/ Is("member", v)

\* A phase is refused exactly when it is not usable.
LEMMA PhaseRefused ==
    ASSUME NEW v \in PhaseArguments \cup {Str(<<"fix", "-", "2">>)}
    PROVE  PhaseUsable(v) <=> PhaseText(v) # {}
<1>1. CASE v \in {None, Member("review"), Num(2)}
  <2>1. ~Is("str", v) /\ ~Is("label", v)
    BY <1>1, TypesAre DEF Is
  <2>2. Is("member", v) <=> v = Member("review")
    BY <1>1, TypesAre DEF Is
  <2>3. v = None => v # Member("review")
    BY TypesAre
  <2>4. Asked(v) = IF v = Member("review") THEN {<<v[2], -1>>} ELSE {}
    BY <2>1, <2>2 DEF Asked
  <2>5. PhaseText(v) # {} <=> v = None \/ v = Member("review")
    BY <2>1, <2>2, <2>3 DEF PhaseText
  <2>6. \A p \in Asked(v) : p[2] # 0
    BY <2>4
  <2> QED
    BY <2>1, <2>2, <2>5, <2>6 DEF PhaseUsable
<1>2. CASE IsText(v)
  <2>1. PICK s \in Seq(Token) : v = Str(s)
    BY <1>2 DEF IsText
  <2>2. Text(v) = s /\ Is("str", v) /\ ~Is("label", v)
    BY <2>1, TextOfStr DEF Is
  <2>3. Asked(v) = Says(s)
    BY <2>1, TextInLane
  <2>4. Collapse(s) # <<>> <=> \E i \in DOMAIN s : s[i] \notin Separators
    BY CollapseType DEF Ink
  <2>5. PhaseUsable(v) <=> (\A p \in Says(s) : p[2] # 0)
                            /\ \E i \in DOMAIN s : s[i] \notin Separators
    BY <2>2, <2>3 DEF PhaseUsable
  <2> QED
    BY <2>1, <2>4, <2>5, PhaseOfText
<1>3. CASE IsLabelCall(v)
  <2>1. PICK l \in Labels : v = <<"label", l[1], l[2]>>
    BY <1>3 DEF IsLabelCall
  <2>2. /\ PhaseText(v) = PhaseLabel(l[1], l[2])
        /\ Is("label", v) /\ ~Is("str", v) /\ v[2] = l[1] /\ v[3] = l[2]
        /\ Asked(v) = {<<"fix", LabelNumber(l[2])>>}
    BY <2>1, PhaseOfLabel
  <2>3. PhaseUsable(v) <=> /\ \A p \in Asked(v) : p[2] # 0
                           /\ GoodKind(l[1]) /\ l[2] \in {None, Num(1), Num(11)}
    BY <2>2 DEF PhaseUsable, GoodKind, Gap
  <2>4. /\ PhaseText(v) # {} <=> GoodKind(l[1]) /\ l[2] \in {None, Num(1), Num(11)}
        /\ l[2] \in {None, Num(1), Num(11)} => LabelNumber(l[2]) # 0
    <3> DEFINE good == GoodKind(l[1]) /\ l[2] \in {None, Num(1), Num(11)}
               n == LabelNumber(l[2])
    <3>1. /\ PhaseText(v) = IF good THEN {LabelOf("fix", n)} ELSE {}
          /\ l[2] \in {None, Num(1), Num(11)} => n # 0
      BY <2>2, PhaseLabelIs
    <3> HIDE DEF n
    <3>2. PhaseText(v) # {} <=> good
      <4> HIDE DEF good
      <4> QED
        BY <3>1
    <3> QED
      BY <3>1, <3>2 DEF n
  <2>5. \A p \in Asked(v) : p[2] = LabelNumber(l[2])
    BY <2>2
  <2> QED
    BY <2>3, <2>4, <2>5
<1> QED
  BY <1>1, <1>2, <1>3, PhasesAre

\* A key or a stream id is refused exactly when it is blank or no text.
LEMMA TextRefused ==
    ASSUME NEW v, v = None \/ IsText(v) \/ v = Num(5)
    PROVE  (v = None \/ (Is("str", v) /\ \E i \in DOMAIN Text(v) : Text(v)[i] \notin Blanks))
           <=> RequiredText(v) # {}
<1>1. IsBlank(Text(v)) <=> ~\E i \in DOMAIN Text(v) : Text(v)[i] \notin Blanks
  BY DEF IsBlank
<1> QED
  BY <1>1, RequiredTextIs

\* An input is refused exactly when it is not usable.
LEMMA RefusedIs ==
    ASSUME NEW input \in Inputs
    PROVE  Usable(input) <=> AttributionEnv(input) # {}
<1>1. /\ input.issue_key = None \/ IsText(input.issue_key) \/ input.issue_key = Num(5)
      /\ input.stream_id = None \/ IsText(input.stream_id) \/ input.stream_id = Num(5)
  BY InputIs, TextsAre
<1>2. ModeText(input.pricing_mode) # {} <=>
        input.pricing_mode \in {None, Member("subscription"), Member("api_metered"),
                                Str(<<"api_metered">>)}
  <2>1. ModeText(input.pricing_mode) # {} <=> Coercible(input.pricing_mode)
    BY DEF ModeText
  <2> QED
    BY <2>1, InputIs, ModesAre
<1>3. PhaseUsable(input.phase) <=> PhaseText(input.phase) # {}
  BY InputIs, PhaseRefused
<1>4. AttributionEnv(input) # {} <=>
        /\ RequiredText(input.issue_key) # {} /\ PhaseText(input.phase) # {}
        /\ RequiredText(input.stream_id) # {} /\ ModeText(input.pricing_mode) # {}
  <2>1. \A b \in AttributionEnv(input) :
            /\ \E i \in RequiredText(input.issue_key) : TRUE
            /\ \E p \in PhaseText(input.phase) : TRUE
            /\ \E t \in RequiredText(input.stream_id) : TRUE
            /\ \E m \in ModeText(input.pricing_mode) : TRUE
    BY DEF AttributionEnv
  <2>2. ASSUME NEW i \in RequiredText(input.issue_key), NEW p \in PhaseText(input.phase),
               NEW t \in RequiredText(input.stream_id), NEW m \in ModeText(input.pricing_mode)
        PROVE  Block(i, p, t, m) \in AttributionEnv(input)
    BY <2>2 DEF AttributionEnv
  <2> QED
    BY <2>1, <2>2
<1>5. /\ (input.issue_key = None \/ (Is("str", input.issue_key)
            /\ \E i \in DOMAIN Text(input.issue_key) : Text(input.issue_key)[i] \notin Blanks))
         <=> RequiredText(input.issue_key) # {}
      /\ (input.stream_id = None \/ (Is("str", input.stream_id)
            /\ \E i \in DOMAIN Text(input.stream_id) : Text(input.stream_id)[i] \notin Blanks))
         <=> RequiredText(input.stream_id) # {}
  BY <1>1, TextRefused
<1> QED
  BY <1>2, <1>3, <1>4, <1>5 DEF Usable, PhaseUsable

-----------------------------------------------------------------------------
(* Records *)

\* What one dictionary over another holds.
LEMMA OverIs ==
    ASSUME NEW f, NEW g
    PROVE  /\ DOMAIN Over(f, g) = DOMAIN f \cup DOMAIN g
           /\ \A x \in DOMAIN f : Over(f, g)[x] = f[x]
           /\ \A x \in DOMAIN g \ DOMAIN f : Over(f, g)[x] = g[x]
           /\ DOMAIN f = {} => \A x \in DOMAIN g : Over(f, g)[x] = g[x]
  BY DEF Over

\* The fields of a record, one by one.
LEMMA FieldsAre ==
    /\ Fields = {"request_id", "app_id", "workload", "queue", "parent_request_id",
                 "input_tokens", "latency_ms", "pricing_mode", "schema_version"}
    /\ DOMAIN Defaults = Fields \ {"request_id", "app_id"}
  BY DEF Fields, Defaults, REQUIRED_FIELDS, OPTIONAL_STR_FIELDS, TOKEN_COUNT_FIELDS

\* What a field may hold, field by field.
LEMMA ValidIs ==
    ASSUME NEW v
    PROVE  /\ \A f \in {"request_id", "app_id"} :
                Valid(f, v) <=> Is("str", v) /\ ~IsBlank(Text(v))
           /\ \A f \in {"workload", "queue", "parent_request_id"} :
                Valid(f, v) <=> v = None \/ Is("str", v)
           /\ Valid("input_tokens", v) <=> NonNegativeInt(v)
           /\ Valid("latency_ms", v) <=> v = None \/ NonNegativeInt(v)
           /\ Valid("pricing_mode", v) <=> Coercible(v)
           /\ Valid("schema_version", v) <=> Is("int", v) /\ v[2] >= 1
  BY DEF Valid, REQUIRED_FIELDS, OPTIONAL_STR_FIELDS, TOKEN_COUNT_FIELDS

\* What the schema says of a field, field by field.
LEMMA SchemaIs ==
    ASSUME NEW v
    PROVE  /\ \A f \in {"request_id", "app_id"} :
                SchemaProperty(f, v) <=> Is("str", v) /\ Text(v) # <<>> /\ ~IsBlank(Text(v))
           /\ \A f \in {"workload", "queue", "parent_request_id"} :
                SchemaProperty(f, v) <=> v = None \/ Is("str", v)
           /\ SchemaProperty("input_tokens", v) <=> SchemaAtLeast(v, 0)
           /\ SchemaProperty("latency_ms", v) <=> v = None \/ SchemaAtLeast(v, 0)
           /\ SchemaProperty("pricing_mode", v) <=>
                v = None \/ \E m \in Modes : v = Str(<<m>>)
           /\ SchemaProperty("schema_version", v) <=>
                SchemaInteger(v) /\ WireInteger(v) = Num(SCHEMA_VERSION)
  BY DEF SchemaProperty, REQUIRED_FIELDS, OPTIONAL_STR_FIELDS, TOKEN_COUNT_FIELDS

\* The defaults, field by field.
LEMMA DefaultsAre ==
    /\ \A f \in {"workload", "queue", "parent_request_id", "latency_ms", "pricing_mode"} :
            Defaults[f] = None
    /\ Defaults["input_tokens"] = Num(0) /\ Defaults["schema_version"] = Num(1)
    /\ \A f \in DOMAIN Defaults : Valid(f, Defaults[f])
<1>1. /\ \A f \in {"workload", "queue", "parent_request_id", "latency_ms", "pricing_mode"} :
            Defaults[f] = None
      /\ Defaults["input_tokens"] = Num(0) /\ Defaults["schema_version"] = Num(1)
  BY DEF Defaults, OPTIONAL_STR_FIELDS, TOKEN_COUNT_FIELDS, SCHEMA_VERSION
<1>2. Coercible(None)
  BY DEF Coercible
<1>3. NonNegativeInt(Num(0)) /\ Is("int", Num(1)) /\ Num(1)[2] >= 1
  BY TypesAre DEF NonNegativeInt, Is
<1>4. ASSUME NEW f \in DOMAIN Defaults PROVE Valid(f, Defaults[f])
  <2>1. \/ f \in {"workload", "queue", "parent_request_id"}
        \/ f = "latency_ms" \/ f = "pricing_mode" \/ f = "input_tokens" \/ f = "schema_version"
    BY FieldsAre
  <2>2. CASE f \in {"workload", "queue", "parent_request_id"}
    BY <1>1, <2>2, ValidIs
  <2>3. CASE f = "latency_ms"
    BY <1>1, <2>3, ValidIs
  <2>4. CASE f = "pricing_mode"
    BY <1>1, <1>2, <2>4, ValidIs
  <2>5. CASE f = "input_tokens"
    BY <1>1, <1>3, <2>5, ValidIs
  <2>6. CASE f = "schema_version"
    BY <1>1, <1>3, <2>6, ValidIs
  <2> QED
    BY <2>1, <2>2, <2>3, <2>4, <2>5, <2>6
<1> QED
  BY <1>1, <1>4

RecordFits(r) ==
    /\ r = [f \in Fields |-> r[f]]
    /\ \A f \in Fields : Valid(f, r[f])
    /\ r["pricing_mode"] = None \/ \E m \in Modes : r["pricing_mode"] = Member(m)

\* What the constructor makes of what it is given, and when.
LEMMA RecordIs ==
    ASSUME NEW kwargs, NEW given, given = Over(kwargs, Defaults)
    PROVE  /\ UsageRecord(kwargs) # {} <=>
                DOMAIN given = Fields /\ \A f \in Fields : Valid(f, given[f])
           /\ \A r \in UsageRecord(kwargs) :
                /\ UsageRecord(kwargs) = {r}
                /\ RecordFits(r)
                /\ \A f \in Fields \ {"pricing_mode"} : r[f] = given[f]
                /\ r["pricing_mode"] = Coerce(given["pricing_mode"])
<1> DEFINE ok == DOMAIN given = Fields /\ \A f \in Fields : Valid(f, given[f])
           made == [given EXCEPT !["pricing_mode"] = Coerce(given["pricing_mode"])]
<1>1. UsageRecord(kwargs) = IF ok THEN {made} ELSE {}
  BY DEF UsageRecord
<1>2. ASSUME ok PROVE /\ made = [f \in Fields |-> made[f]]
                      /\ \A f \in Fields \ {"pricing_mode"} : made[f] = given[f]
                      /\ made["pricing_mode"] = Coerce(given["pricing_mode"])
  <2>1. "pricing_mode" \in Fields
    BY FieldsAre
  <2> QED
    BY <1>2, <2>1
<1> HIDE DEF made
<1>3. ASSUME ok PROVE RecordFits(made)
  <2> DEFINE v == given["pricing_mode"]
  <2>1. Coercible(v)
    BY <1>3, FieldsAre, ValidIs
  <2> HIDE DEF v
  <2>2. Coerce(v) = None \/ \E m \in Modes : Coerce(v) = Member(m)
    <3>1. v = None => Coerce(v) = None
      BY DEF Coerce
    <3> QED
      BY <2>1, <3>1, CoercibleIs
  <2>3. Coercible(Coerce(v))
    BY <2>2 DEF Coercible
  <2>4. made["pricing_mode"] = Coerce(v)
    BY <1>2, <1>3 DEF v
  <2>5. Valid("pricing_mode", made["pricing_mode"])
    BY <2>3, <2>4, ValidIs
  <2>6. \A f \in Fields : Valid(f, made[f])
    BY <1>2, <1>3, <2>5
  <2> QED
    BY <1>2, <1>3, <2>2, <2>4, <2>6 DEF RecordFits
<1>4. UsageRecord(kwargs) # {} <=> ok
  <2> HIDE DEF ok
  <2> QED
    BY <1>1
<1>5. ASSUME NEW r \in UsageRecord(kwargs) PROVE ok /\ r = made /\ UsageRecord(kwargs) = {r}
  <2>1. ok
    BY <1>4, <1>5
  <2> HIDE DEF ok
  <2> QED
    BY <1>1, <1>5, <2>1
<1> QED
  BY <1>2, <1>3, <1>4, <1>5

\* A record has the fields of a record, each of them valid.
LEMMA RecordDomain ==
    ASSUME NEW r, RecordFits(r)
    PROVE  DOMAIN r = Fields /\ r # None
<1>1. DOMAIN r = Fields
  BY DEF RecordFits
<1>2. DOMAIN None = {1}
  BY DEF None
<1>3. "app_id" \in Fields /\ "request_id" \in Fields /\ "app_id" # "request_id"
  BY FieldsAre
<1> QED
  BY <1>1, <1>2, <1>3

\* An integer, or nothing, is on the wire as it is.
LEMMA WireKeeps ==
    ASSUME NEW v, v = None \/ Is("int", v) \/ Is("str", v)
    PROVE  WireInteger(v) = v
<1>1. ~Is("float", v)
  BY TypesAre DEF Is
<1> QED
  BY <1>1 DEF WireInteger

\* What the constructor is given for a document, and what it makes of it.
Reading(data, given) ==
    /\ DOMAIN given = (DOMAIN data \cap Fields) \cup DOMAIN Defaults
    /\ \A f \in DOMAIN data \cap Fields :
        given[f] = IF f \in WIRE_INTEGER_FIELDS THEN WireInteger(data[f]) ELSE data[f]
    /\ \A f \in DOMAIN Defaults \ DOMAIN data : given[f] = Defaults[f]
    /\ FromDict(data) # {} <=>
        DOMAIN given = Fields /\ \A f \in Fields : Valid(f, given[f])
    /\ \A r \in FromDict(data) :
        /\ FromDict(data) = {r}
        /\ RecordFits(r)
        /\ \A f \in Fields \ {"pricing_mode"} : r[f] = given[f]
        /\ r["pricing_mode"] = Coerce(given["pricing_mode"])

\* A document is read as its values, with no fraction where there is none.
LEMMA ReadIs ==
    ASSUME NEW data
    PROVE  \E given : Reading(data, given)
<1> DEFINE known == Restrict(data, DOMAIN data \cap Fields)
           kwargs == [f \in DOMAIN known |->
                        IF f \in WIRE_INTEGER_FIELDS THEN WireInteger(known[f]) ELSE known[f]]
           given == Over(kwargs, Defaults)
<1>1. /\ DOMAIN known = DOMAIN data \cap Fields
      /\ \A f \in DOMAIN data \cap Fields : known[f] = data[f]
  BY DEF Restrict
<1>2. FromDict(data) = UsageRecord(kwargs)
  BY DEF FromDict
<1> HIDE DEF known
<1>3. /\ DOMAIN kwargs = DOMAIN data \cap Fields
      /\ \A f \in DOMAIN data \cap Fields :
            kwargs[f] = IF f \in WIRE_INTEGER_FIELDS THEN WireInteger(data[f]) ELSE data[f]
  BY <1>1
<1> HIDE DEF kwargs
<1>4. /\ DOMAIN given = (DOMAIN data \cap Fields) \cup DOMAIN Defaults
      /\ \A f \in DOMAIN data \cap Fields : given[f] = kwargs[f]
      /\ \A f \in DOMAIN Defaults \ DOMAIN data : given[f] = Defaults[f]
  <2>1. /\ DOMAIN given = DOMAIN kwargs \cup DOMAIN Defaults
        /\ \A f \in DOMAIN kwargs : given[f] = kwargs[f]
        /\ \A f \in DOMAIN Defaults \ DOMAIN kwargs : given[f] = Defaults[f]
    BY OverIs, ZenonT(60)
  <2> HIDE DEF given
  <2> QED
    BY <1>3, <2>1
<1>5. /\ UsageRecord(kwargs) # {} <=>
                DOMAIN given = Fields /\ \A f \in Fields : Valid(f, given[f])
      /\ \A r \in UsageRecord(kwargs) :
                /\ UsageRecord(kwargs) = {r}
                /\ RecordFits(r)
                /\ \A f \in Fields \ {"pricing_mode"} : r[f] = given[f]
                /\ r["pricing_mode"] = Coerce(given["pricing_mode"])
  BY RecordIs
<1> HIDE DEF given
<1> QED
  BY <1>2, <1>3, <1>4, <1>5 DEF Reading

IntegerFields == {"input_tokens", "latency_ms", "schema_version"}

\* The fields that the reader takes an integral float for.
LEMMA WireFieldsAre == WIRE_INTEGER_FIELDS = IntegerFields
  BY DEF WIRE_INTEGER_FIELDS, TOKEN_COUNT_FIELDS, IntegerFields

\* A record on the wire.
LEMMA ToDictIs ==
    ASSUME NEW r, RecordFits(r)
    PROVE  /\ DOMAIN ToDict(r) = Fields
           /\ \A f \in Fields \ {"pricing_mode"} : ToDict(r)[f] = r[f]
           /\ \/ r["pricing_mode"] = None /\ ToDict(r)["pricing_mode"] = None
              \/ \E m \in Modes : r["pricing_mode"] = Member(m)
                                  /\ ToDict(r)["pricing_mode"] = Str(<<m>>)
<1> DEFINE v == r["pricing_mode"]
           w == IF v = None THEN None ELSE Str(<<v[2]>>)
<1>1. r = [f \in Fields |-> r[f]] /\ "pricing_mode" \in Fields
  BY FieldsAre DEF RecordFits
<1>2. ToDict(r) = [r EXCEPT !["pricing_mode"] = w]
  BY DEF ToDict
<1> HIDE DEF w
<1>3. /\ DOMAIN ToDict(r) = Fields /\ ToDict(r)["pricing_mode"] = w
      /\ \A f \in Fields \ {"pricing_mode"} : ToDict(r)[f] = r[f]
  BY <1>1, <1>2
<1>4. CASE v = None
  BY <1>3, <1>4 DEF w
<1>5. ASSUME NEW m \in Modes, v = Member(m) PROVE w = Str(<<m>>)
  <2>1. v # None /\ v[2] = m
    BY <1>5, TypesAre
  <2> QED
    BY <2>1 DEF w
<1>6. v = None \/ \E m \in Modes : v = Member(m)
  BY DEF RecordFits
<1> QED
  BY <1>3, <1>4, <1>5, <1>6

\* The types a field of a record may have.
LEMMA FieldTypes ==
    ASSUME NEW r, RecordFits(r), NEW f \in Fields \ {"pricing_mode"}
    PROVE  r[f] = None \/ Is("int", r[f]) \/ Is("str", r[f])
<1>1. Valid(f, r[f])
  BY DEF RecordFits
<1>2. \/ f \in {"request_id", "app_id"} \/ f \in {"workload", "queue", "parent_request_id"}
      \/ f = "latency_ms" \/ f = "input_tokens" \/ f = "schema_version"
  BY FieldsAre
<1> QED
  BY <1>1, <1>2, ValidIs DEF NonNegativeInt

\* What a record says is read back as it was.
LEMMA ReadBack ==
    ASSUME NEW r, RecordFits(r)
    PROVE  FromDict(ToDict(r)) = {r}
<1> DEFINE data == ToDict(r)
<1>1. /\ DOMAIN data = Fields
      /\ \A f \in Fields \ {"pricing_mode"} : data[f] = r[f]
      /\ \/ r["pricing_mode"] = None /\ data["pricing_mode"] = None
         \/ \E m \in Modes : r["pricing_mode"] = Member(m) /\ data["pricing_mode"] = Str(<<m>>)
  BY ToDictIs
<1> HIDE DEF data
<1>0. PICK given : Reading(data, given)
  BY ReadIs
<1>2. /\ DOMAIN given = (DOMAIN data \cap Fields) \cup DOMAIN Defaults
      /\ \A f \in DOMAIN data \cap Fields :
            given[f] = IF f \in WIRE_INTEGER_FIELDS THEN WireInteger(data[f]) ELSE data[f]
      /\ FromDict(data) # {} <=>
            DOMAIN given = Fields /\ \A f \in Fields : Valid(f, given[f])
      /\ \A q \in FromDict(data) :
            /\ FromDict(data) = {q}
            /\ RecordFits(q)
            /\ \A f \in Fields \ {"pricing_mode"} : q[f] = given[f]
            /\ q["pricing_mode"] = Coerce(given["pricing_mode"])
  BY <1>0 DEF Reading
<1>3. DOMAIN given = Fields
  BY <1>1, <1>2, FieldsAre
<1>4. \A f \in Fields \ {"pricing_mode"} : given[f] = r[f]
  <2>1. \A f \in Fields \ {"pricing_mode"} : WireInteger(r[f]) = r[f]
    BY FieldTypes, WireKeeps
  <2> QED
    BY <1>1, <1>2, <2>1
<1>5. given["pricing_mode"] = data["pricing_mode"]
  <2>1. "pricing_mode" \in Fields /\ "pricing_mode" \notin WIRE_INTEGER_FIELDS
    BY FieldsAre, WireFieldsAre DEF IntegerFields
  <2> QED
    BY <1>1, <1>2, <2>1
<1>6. Coercible(given["pricing_mode"]) /\ Coerce(given["pricing_mode"]) = r["pricing_mode"]
  <2>1. CASE r["pricing_mode"] = None /\ data["pricing_mode"] = None
    BY <1>5, <2>1 DEF Coercible, Coerce
  <2>2. ASSUME NEW m \in Modes, r["pricing_mode"] = Member(m), data["pricing_mode"] = Str(<<m>>)
        PROVE  Coercible(given["pricing_mode"]) /\ Coerce(given["pricing_mode"]) = r["pricing_mode"]
    <3>1. m \in Token
      BY DEF Token
    <3>2. Str(<<m>>)[2] = m /\ Str(<<m>>) # None
      BY <3>1, StrOne, TextOfStr
    <3> QED
      BY <1>5, <2>2, <3>2 DEF Coercible, Coerce
  <2> QED
    BY <1>1, <2>1, <2>2
<1>7. \A f \in Fields : Valid(f, given[f])
  <2>1. Valid("pricing_mode", given["pricing_mode"])
    BY <1>6, ValidIs
  <2> QED
    BY <1>4, <2>1 DEF RecordFits
<1>8. PICK q : /\ FromDict(data) = {q} /\ RecordFits(q)
               /\ \A f \in Fields \ {"pricing_mode"} : q[f] = given[f]
               /\ q["pricing_mode"] = Coerce(given["pricing_mode"])
  BY <1>2, <1>3, <1>7
<1>9. q = r
  <2>1. \A f \in Fields : q[f] = r[f]
    BY <1>4, <1>6, <1>8
  <2> QED
    BY <1>8, <2>1 DEF RecordFits
<1> QED
  BY <1>8, <1>9 DEF data

\* A record of this version is what the published schema describes.
LEMMA RecordSchema ==
    ASSUME NEW r, RecordFits(r), r["schema_version"] = Num(SCHEMA_VERSION)
    PROVE  Validates(ToDict(r))
<1> DEFINE data == ToDict(r)
<1>1. /\ DOMAIN data = Fields
      /\ \A f \in Fields \ {"pricing_mode"} : data[f] = r[f]
      /\ \/ r["pricing_mode"] = None /\ data["pricing_mode"] = None
         \/ \E m \in Modes : r["pricing_mode"] = Member(m) /\ data["pricing_mode"] = Str(<<m>>)
  BY ToDictIs
<1> HIDE DEF data
<1>2. \A f \in Fields : Valid(f, r[f])
  BY DEF RecordFits
<1>3. \A v : NonNegativeInt(v) => SchemaAtLeast(v, 0)
  <2>1. \A v : Is("int", v) => WireInteger(v) = v
    BY WireKeeps
  <2> QED
    BY <2>1 DEF NonNegativeInt, SchemaAtLeast, SchemaInteger
<1>4. \A v : ~IsBlank(Text(v)) => Text(v) # <<>>
  BY DEF IsBlank
<1>5. ASSUME NEW f \in Fields PROVE SchemaProperty(f, data[f])
  <2>1. \/ f \in {"request_id", "app_id"} \/ f \in {"workload", "queue", "parent_request_id"}
        \/ f = "latency_ms" \/ f = "input_tokens" \/ f = "schema_version" \/ f = "pricing_mode"
    BY FieldsAre
  <2>2. CASE f \in {"request_id", "app_id"}
    <3>1. Is("str", r[f]) /\ ~IsBlank(Text(r[f]))
      BY <1>2, <2>2, ValidIs
    <3> QED
      BY <1>1, <1>4, <2>2, <3>1, SchemaIs
  <2>3. CASE f \in {"workload", "queue", "parent_request_id"}
    <3>1. r[f] = None \/ Is("str", r[f])
      BY <1>2, <2>3, ValidIs
    <3> QED
      BY <1>1, <2>3, <3>1, SchemaIs
  <2>4. CASE f = "latency_ms"
    <3>1. r[f] = None \/ NonNegativeInt(r[f])
      BY <1>2, <2>4, ValidIs
    <3> QED
      BY <1>1, <1>3, <2>4, <3>1, SchemaIs
  <2>5. CASE f = "input_tokens"
    <3>1. NonNegativeInt(r[f])
      BY <1>2, <2>5, ValidIs
    <3> QED
      BY <1>1, <1>3, <2>5, <3>1, SchemaIs
  <2>6. CASE f = "schema_version"
    <3>1. data[f] = Num(SCHEMA_VERSION)
      BY <1>1, <2>6
    <3>2. Is("int", Num(SCHEMA_VERSION))
      BY TypesAre DEF Is
    <3>3. WireInteger(Num(SCHEMA_VERSION)) = Num(SCHEMA_VERSION)
      BY <3>2, WireKeeps
    <3> QED
      BY <2>6, <3>1, <3>2, <3>3, SchemaIs DEF SchemaInteger
  <2>7. CASE f = "pricing_mode"
    BY <1>1, <2>7, SchemaIs
  <2> QED
    BY <2>1, <2>2, <2>3, <2>4, <2>5, <2>6, <2>7
<1>6. SchemaRequired \subseteq Fields
  BY FieldsAre DEF SchemaRequired, REQUIRED_FIELDS
<1> QED
  BY <1>1, <1>5, <1>6 DEF Validates, data

\* A document the schema accepts is one the reader accepts.
LEMMA SchemaRead ==
    ASSUME NEW data, Validates(data)
    PROVE  FromDict(data) # {}
<1>0. PICK given : Reading(data, given)
  BY ReadIs
<1>1. /\ DOMAIN given = (DOMAIN data \cap Fields) \cup DOMAIN Defaults
      /\ \A f \in DOMAIN data \cap Fields :
            given[f] = IF f \in WIRE_INTEGER_FIELDS THEN WireInteger(data[f]) ELSE data[f]
      /\ \A f \in DOMAIN Defaults \ DOMAIN data : given[f] = Defaults[f]
      /\ FromDict(data) # {} <=>
            DOMAIN given = Fields /\ \A f \in Fields : Valid(f, given[f])
  BY <1>0 DEF Reading
<1>2. /\ "request_id" \in DOMAIN data /\ "app_id" \in DOMAIN data
      /\ \A f \in DOMAIN data : SchemaProperty(f, data[f])
  BY DEF Validates, SchemaRequired, REQUIRED_FIELDS
<1>3. DOMAIN given = Fields
  BY <1>1, <1>2, FieldsAre
<1>4. \A v : SchemaAtLeast(v, 0) => NonNegativeInt(WireInteger(v))
  <2>1. ASSUME NEW v, SchemaAtLeast(v, 0) PROVE NonNegativeInt(WireInteger(v))
    <3>1. SchemaInteger(v) /\ WireInteger(v)[2] >= 0
      BY <2>1 DEF SchemaAtLeast
    <3>2. Is("int", WireInteger(v))
      BY <3>1, TypesAre, WireKeeps DEF SchemaInteger, WireInteger, Is
    <3> QED
      BY <3>1, <3>2 DEF NonNegativeInt
  <2> QED
    BY <2>1
<1>5. ASSUME NEW f \in DOMAIN data \cap Fields PROVE Valid(f, given[f])
  <2>1. \/ f \in {"request_id", "app_id"} \/ f \in {"workload", "queue", "parent_request_id"}
        \/ f = "latency_ms" \/ f = "input_tokens" \/ f = "schema_version" \/ f = "pricing_mode"
    BY FieldsAre
  <2>2. SchemaProperty(f, data[f])
    BY <1>2
  <2>3. CASE f \in {"request_id", "app_id"}
    <3>1. given[f] = data[f]
      BY <1>1, <2>3, WireFieldsAre DEF IntegerFields
    <3> QED
      BY <2>2, <2>3, <3>1, SchemaIs, ValidIs
  <2>4. CASE f \in {"workload", "queue", "parent_request_id"}
    <3>1. given[f] = data[f]
      BY <1>1, <2>4, WireFieldsAre DEF IntegerFields
    <3> QED
      BY <2>2, <2>4, <3>1, SchemaIs, ValidIs
  <2>5. CASE f = "latency_ms"
    <3>1. given[f] = WireInteger(data[f])
      BY <1>1, <2>5, WireFieldsAre DEF IntegerFields
    <3>2. data[f] = None \/ SchemaAtLeast(data[f], 0)
      BY <2>2, <2>5, SchemaIs
    <3> QED
      BY <1>4, <2>5, <3>1, <3>2, ValidIs, WireKeeps
  <2>6. CASE f = "input_tokens"
    <3>1. given[f] = WireInteger(data[f])
      BY <1>1, <2>6, WireFieldsAre DEF IntegerFields
    <3>2. SchemaAtLeast(data[f], 0)
      BY <2>2, <2>6, SchemaIs
    <3> QED
      BY <1>4, <2>6, <3>1, <3>2, ValidIs
  <2>7. CASE f = "schema_version"
    <3>1. given[f] = WireInteger(data[f])
      BY <1>1, <2>7, WireFieldsAre DEF IntegerFields
    <3>2. WireInteger(data[f]) = Num(1)
      BY <2>2, <2>7, SchemaIs DEF SCHEMA_VERSION
    <3>3. Is("int", Num(1)) /\ Num(1)[2] >= 1
      BY TypesAre DEF Is
    <3> QED
      BY <2>7, <3>1, <3>2, <3>3, ValidIs
  <2>8. CASE f = "pricing_mode"
    <3>1. given[f] = data[f]
      BY <1>1, <2>8, WireFieldsAre DEF IntegerFields
    <3>2. Coercible(data[f])
      BY <2>2, <2>8, SchemaIs DEF Coercible
    <3> QED
      BY <2>8, <3>1, <3>2, ValidIs
  <2> QED
    BY <2>1, <2>3, <2>4, <2>5, <2>6, <2>7, <2>8
<1>6. \A f \in Fields : Valid(f, given[f])
  BY <1>1, <1>2, <1>5, DefaultsAre, FieldsAre
<1> QED
  BY <1>1, <1>3, <1>6

\* The fractions documents hold.
FloatFits(v) == Is("float", v) => v \in {Float(1, 1), Float(3, 2)}

\* An integer read off the wire is the number that was written.
LEMMA WireDenotes ==
    ASSUME NEW v, FloatFits(v)
    PROVE  Denotes(WireInteger(v), v)
<1>1. CASE ~Is("float", v)
  BY <1>1 DEF WireInteger, Denotes
<1>2. CASE v = Float(1, 1)
  <2>1. Is("float", v) /\ v[2] = 1 /\ v[3] = 1
    BY <1>2, TypesAre DEF Is
  <2>2. 1 % 1 = 0 /\ 1 \div 1 = 1
    OBVIOUS
  <2>3. WireInteger(v) = Num(1)
    BY <2>1, <2>2 DEF WireInteger
  <2>4. Is("int", Num(1)) /\ Num(1)[2] * v[3] = v[2]
    BY <2>1, TypesAre DEF Is
  <2> QED
    BY <2>1, <2>3, <2>4 DEF Denotes
<1>3. CASE v = Float(3, 2)
  <2>1. v[2] = 3 /\ v[3] = 2
    BY <1>3, TypesAre
  <2>2. 3 % 2 # 0
    OBVIOUS
  <2>3. WireInteger(v) = v
    BY <2>1, <2>2 DEF WireInteger
  <2> QED
    BY <2>3 DEF Denotes
<1> QED
  BY <1>1, <1>2, <1>3 DEF FloatFits

\* What is read of a document is what the document says, field by field.
LEMMA ReadDenotes ==
    ASSUME NEW data, NEW r \in FromDict(data), NEW f \in Fields,
           f \in DOMAIN data => FloatFits(data[f])
    PROVE  Denotes(r[f], Over(data, Defaults)[f])
<1> DEFINE both == Over(data, Defaults)
           w == both[f]
<1>0. PICK given : Reading(data, given)
  BY ReadIs
<1>1. DOMAIN given = Fields /\ \A g \in Fields : Valid(g, given[g])
  BY <1>0 DEF Reading
<1>2. /\ \A x \in DOMAIN data : both[x] = data[x]
      /\ \A x \in DOMAIN Defaults \ DOMAIN data : both[x] = Defaults[x]
  BY OverIs
<1> HIDE DEF both
<1> SUFFICES Denotes(r[f], w)
  BY DEF both
<1>3. /\ f \in DOMAIN data => w = data[f]
      /\ f \notin DOMAIN data => f \in DOMAIN Defaults /\ w = Defaults[f] /\ given[f] = w
  <2>1. f \notin DOMAIN data => f \in DOMAIN Defaults
    BY <1>0, <1>1 DEF Reading
  <2> QED
    BY <1>0, <1>2, <2>1 DEF Reading
<1> HIDE DEF w
<1>4. given[f] = IF f \in DOMAIN data /\ f \in WIRE_INTEGER_FIELDS THEN WireInteger(w) ELSE w
  BY <1>0, <1>3 DEF Reading
<1>5. CASE f = "pricing_mode"
  <2>1. given[f] = w
    BY <1>4, <1>5, WireFieldsAre DEF IntegerFields
  <2>2. Coercible(w)
    BY <1>1, <1>5, <2>1, ValidIs
  <2>3. r[f] = Coerce(w)
    BY <1>0, <1>5, <2>1 DEF Reading
  <2>4. CASE w = None
    BY <2>3, <2>4 DEF Coerce, Denotes
  <2>5. CASE w # None
    <3>1. PICK m \in Modes : Coerce(w) = Member(m) /\ w \in {Member(m), Str(<<m>>)}
      BY <2>2, <2>5, CoercibleIs
    <3>2. Is("member", Member(m)) /\ Member(m)[2] = m
      BY TypesAre DEF Is
    <3> QED
      BY <2>3, <3>1, <3>2 DEF Denotes
  <2> QED
    BY <2>4, <2>5
<1>6. CASE f # "pricing_mode"
  <2>1. r[f] = given[f]
    BY <1>0, <1>6 DEF Reading
  <2>2. f \in DOMAIN data => Denotes(WireInteger(w), w)
    BY <1>3, WireDenotes
  <2>3. Denotes(w, w)
    BY DEF Denotes
  <2> QED
    BY <1>4, <2>1, <2>2, <2>3
<1> QED
  BY <1>5, <1>6

\* A record holds no float.
LEMMA OwnFloats ==
    ASSUME NEW r, RecordFits(r), NEW f \in Fields
    PROVE  FloatFits(ToDict(r)[f])
<1>1. CASE f # "pricing_mode"
  <2>1. ToDict(r)[f] = r[f] /\ (r[f] = None \/ Is("int", r[f]) \/ Is("str", r[f]))
    BY <1>1, ToDictIs, FieldTypes
  <2> QED
    BY <2>1, TypesAre DEF FloatFits, Is
<1>2. CASE f = "pricing_mode"
  <2>1. ToDict(r)[f] = None \/ \E m \in Modes : ToDict(r)[f] = Str(<<m>>)
    BY <1>2, ToDictIs
  <2>2. \A m \in Modes : Str(<<m>>)[1] = "str"
    <3>1. \A m \in Modes : m \in Token
      BY DEF Token
    <3> QED
      BY <3>1, StrOne, TextOfStr DEF Is
  <2> QED
    BY <2>1, <2>2, TypesAre DEF FloatFits, Is
<1> QED
  BY <1>1, <1>2

\* The values of the documents of an application or of another producer.
ValueFits(d) == \A f \in DOMAIN d : FloatFits(d[f])

\* The floats of the documents are among two, an integral one and one with a fraction.
LEMMA DocumentsFit == \A d \in Documents : ValueFits(d)
<1>1. ASSUME NEW v \in Values PROVE FloatFits(v)
  <2>1. \A t \in Seq(Token) : Str(t)[1] = "str"
    BY TextOfStr DEF Is
  <2>2. "subscription" \in Token /\ Gap \in Token /\ "BOM" \in Token
    BY GapSeparates DEF Token, Modes
  <2>3. /\ <<"subscription">> \in Seq(Token) /\ <<Gap>> \in Seq(Token)
        /\ <<"BOM">> \in Seq(Token)
    BY <2>2
  <2>4. <<>> \in Seq(Token)
    OBVIOUS
  <2>5. \/ v \in {None, Num(0), Num(1), Num(2), Num(-1), <<"bool", 1>>, <<"list">>}
        \/ v \in {Str(<<"subscription">>), Str(<<Gap>>), Str(<<"BOM">>), Str(<<>>)}
        \/ v \in {Float(1, 1), Float(3, 2)}
    BY DEF Values, Gap
  <2>6. CASE v \in {Str(<<"subscription">>), Str(<<Gap>>), Str(<<"BOM">>), Str(<<>>)}
    <3>1. v[1] = "str"
      BY <2>1, <2>3, <2>4, <2>6
    <3> QED
      BY <3>1 DEF FloatFits, Is
  <2>7. CASE v \in {None, Num(0), Num(1), Num(2), Num(-1), <<"bool", 1>>, <<"list">>}
    <3>1. <<"bool", 1>>[1] = "bool" /\ <<"list">>[1] = "list"
      OBVIOUS
    <3>2. v[1] # "float"
      BY <2>7, <3>1, TypesAre
    <3> QED
      BY <3>2 DEF FloatFits, Is
  <2> QED
    BY <2>5, <2>6, <2>7 DEF FloatFits
<1>2. ValueFits(Base)
  <2> DEFINE own == [request_id |-> Str(<<"message">>), app_id |-> Str(<<"claude-code">>)]
  <2>1. /\ DOMAIN own = {"request_id", "app_id"}
        /\ own["request_id"] = Str(<<"message">>) /\ own["app_id"] = Str(<<"claude-code">>)
    OBVIOUS
  <2> HIDE DEF own
  <2>2. Str(<<"message">>)[1] = "str" /\ Str(<<"claude-code">>)[1] = "str"
    <3>1. "message" \in Token /\ "claude-code" \in Token
      BY DEF Token
    <3> QED
      BY <3>1, StrOne, TextOfStr DEF Is
  <2>3. \A f \in DOMAIN own : own[f][1] # "float"
    BY <2>1, <2>2
  <2>4. \A f \in DOMAIN Defaults : Defaults[f][1] # "float"
    BY DefaultsAre, FieldsAre, TypesAre
  <2>5. \A f \in DOMAIN Base : Base[f][1] # "float"
    <3>1. Base = Over(own, Defaults)
      BY DEF Base, own
    <3>2. /\ DOMAIN Over(own, Defaults) = DOMAIN own \cup DOMAIN Defaults
          /\ \A x \in DOMAIN own : Over(own, Defaults)[x] = own[x]
          /\ \A x \in DOMAIN Defaults \ DOMAIN own : Over(own, Defaults)[x] = Defaults[x]
      BY OverIs
    <3> QED
      BY <2>3, <2>4, <3>1, <3>2
  <2> QED
    BY <2>5 DEF ValueFits, FloatFits, Is
<1>3. ASSUME NEW d, ValueFits(d), NEW k, NEW v \in Values \cup {Absent}
      PROVE  ValueFits(Altered(d, k, v))
  <2>1. CASE v = Absent
    <3>1. Altered(d, k, v) = [x \in DOMAIN d \ {k} |-> d[x]]
      BY <2>1 DEF Altered, Restrict
    <3> QED
      BY <1>3, <3>1 DEF ValueFits
  <2>2. CASE v # Absent
    <3> DEFINE one == [f \in {k} |-> v]
    <3>1. Altered(d, k, v) = Over(one, d) /\ FloatFits(v)
      BY <1>1, <2>2 DEF Altered
    <3>2. DOMAIN one = {k} /\ one[k] = v
      OBVIOUS
    <3> HIDE DEF one
    <3>3. /\ DOMAIN Over(one, d) = DOMAIN one \cup DOMAIN d
          /\ \A x \in DOMAIN one : Over(one, d)[x] = one[x]
          /\ \A x \in DOMAIN d \ DOMAIN one : Over(one, d)[x] = d[x]
      BY OverIs
    <3> QED
      BY <1>3, <3>1, <3>2, <3>3 DEF ValueFits
  <2> QED
    BY <2>1, <2>2
<1>4. ASSUME NEW d \in Documents PROVE ValueFits(d)
  <2>1. PICK k \in Keys, l \in Keys, v \in Values \cup {Absent}, w \in Values \cup {Absent} :
            d = Altered(Altered(Base, k, v), l, w)
    BY DEF Documents
  <2> QED
    BY <1>2, <1>3, <2>1
<1> QED
  BY <1>4

-----------------------------------------------------------------------------
(* The record of a session *)

EnvFits(e) ==
    /\ DOMAIN e = ATTRIBUTION_ENV \cup {"TOKENWEIR_APP_ID"}
    /\ \A v \in DOMAIN e : e[v] \in Seq(Token)
    /\ e["TOKENWEIR_APP_ID"] \in AppIds

\* The variables of the block are not the application's id.
LEMMA EnvNames ==
    /\ "MADO_ISSUE_KEY" \in ATTRIBUTION_ENV /\ "MADO_PHASE" \in ATTRIBUTION_ENV
    /\ "MADO_STREAM_ID" \in ATTRIBUTION_ENV /\ "MADO_PRICING_MODE" \in ATTRIBUTION_ENV
    /\ "TOKENWEIR_APP_ID" \notin ATTRIBUTION_ENV
  BY DEF ATTRIBUTION_ENV

\* A name is not blank.
LEMMA WordShows ==
    ASSUME NEW m \in {"message", "claude-code", "app"}
    PROVE  /\ <<m>> \in Seq(Token) /\ Is("str", Str(<<m>>)) /\ ~IsBlank(Text(Str(<<m>>)))
           /\ Strip(<<m>>) = <<m>>
<1>1. m \in Token
  BY DEF Token
<1>2. m \notin Blanks /\ m \notin PySpace
  <2>1. Blanks = {Gap, "NEL", "BOM"} /\ PySpace = {Gap, "NEL"}
    BY DEF Blanks, PySpace, Gap
  <2>2. m # Gap
    BY DEF Gap
  <2> QED
    BY <2>1, <2>2
<1>3. <<m>> \in Seq(Token) /\ Len(<<m>>) = 1 /\ <<m>>[1] = m /\ <<m>> # <<>>
  BY <1>1
<1>4. Text(Str(<<m>>)) = <<m>> /\ Is("str", Str(<<m>>))
  BY <1>3, TextOfStr
<1>5. ~IsBlank(<<m>>)
  <2>1. 1 \in DOMAIN <<m>>
    OBVIOUS
  <2> QED
    BY <1>2, <1>3, <2>1 DEF IsBlank
<1>6. Strip(<<m>>) = <<m>>
  BY <1>2, <1>3, StripKeeps
<1> QED
  BY <1>3, <1>4, <1>5, <1>6

\* An application's id is a name or none, but for a blank that the hook does not know.
LEMMA AppIdIs ==
    ASSUME NEW e, EnvFits(e)
    PROVE  LET t == e["TOKENWEIR_APP_ID"]
               id == Env(e, "TOKENWEIR_APP_ID")
           IN  \/ ~UnseenBlank(t) /\ (id = None \/ id = Str(<<"app">>))
               \/ UnseenBlank(t) /\ id = Str(<<"BOM">>) /\ id # None
<1> DEFINE t == e["TOKENWEIR_APP_ID"]
           id == Env(e, "TOKENWEIR_APP_ID")
<1>1. t \in {<<>>, <<Gap, "NEL">>, <<"BOM">>, <<"app">>}
  BY DEF EnvFits, AppIds, Gap
<1>2. t \in Seq(Token)
  BY DEF EnvFits
<1>3. /\ Strip(t) = <<>> => id = None
      /\ Strip(t) # <<>> => id = Str(Strip(t)) /\ id # None
  BY <1>2, EnvIs
<1> HIDE DEF t, id
<1>4. CASE t = <<"app">>
  <2>1. Strip(t) = <<"app">>
    BY <1>4, WordShows
  <2>2. ~IsBlank(t)
    BY <1>4, WordShows, TextOfStr
  <2> QED
    BY <1>3, <2>1, <2>2 DEF t, id, UnseenBlank
<1>5. CASE t = <<>> \/ t = <<Gap, "NEL">>
  <2>1. \A i \in DOMAIN t : t[i] \in {Gap, "NEL"}
    BY <1>5
  <2>2. PySpace = {Gap, "NEL"}
    BY DEF PySpace, Gap
  <2>3. Seen(t) = {}
    BY <2>1, <2>2 DEF Seen
  <2>4. ~UnseenBlank(t)
    BY <2>1, <2>2 DEF UnseenBlank
  <2> QED
    BY <1>2, <1>3, <2>3, <2>4, StripEmpty DEF t, id
<1>6. CASE t = <<"BOM">>
  <2>1. Len(t) = 1 /\ DOMAIN t = {1} /\ t[1] = "BOM" /\ t # <<>>
    BY <1>6
  <2>2. "BOM" \in Blanks /\ "BOM" \notin PySpace
    <3>1. Blanks = {Gap, "NEL", "BOM"} /\ PySpace = {Gap, "NEL"} /\ Gap # "BOM"
      BY DEF Blanks, PySpace, Gap
    <3> QED
      BY <3>1
  <2>3. UnseenBlank(t)
    BY <2>1, <2>2 DEF UnseenBlank, IsBlank
  <2>4. Strip(t) = t
    BY <1>2, <2>1, <2>2, StripKeeps
  <2> QED
    BY <1>3, <1>6, <2>1, <2>3, <2>4 DEF t, id
<1> QED
  BY <1>1, <1>4, <1>5, <1>6 DEF t, id

\* The mode of the hook is always one that is accepted.
LEMMA ModeFromEnvIs ==
    ASSUME NEW e, EnvFits(e)
    PROVE  /\ \E m \in Modes : ModeFromEnv(e) = Member(m)
           /\ e["MADO_PRICING_MODE"] = <<>> => ModeFromEnv(e) = Member("subscription")
           /\ \A m \in Modes : e["MADO_PRICING_MODE"] = <<m>> => ModeFromEnv(e) = Member(m)
<1> DEFINE t == e["MADO_PRICING_MODE"]
           declared == Env(e, "MADO_PRICING_MODE")
<1>1. t \in Seq(Token)
  BY EnvNames DEF EnvFits
<1>2. /\ Strip(t) = <<>> => declared = None
      /\ Strip(t) # <<>> => declared = Str(Strip(t)) /\ declared # None
  BY <1>1, EnvIs
<1>3. ModeFromEnv(e) = IF declared # None /\ Coercible(declared) THEN Coerce(declared)
                       ELSE Member("subscription")
  BY DEF ModeFromEnv
<1> HIDE DEF t, declared
<1>4. \E m \in Modes : ModeFromEnv(e) = Member(m)
  <2>1. "subscription" \in Modes
    BY DEF Modes
  <2> QED
    BY <1>3, <2>1, CoercibleIs
<1>5. ASSUME t = <<>> PROVE ModeFromEnv(e) = Member("subscription")
  <2>1. Seen(t) = {}
    BY <1>5 DEF Seen
  <2> QED
    BY <1>1, <1>2, <1>3, <2>1, StripEmpty
<1>6. ASSUME NEW m \in Modes, t = <<m>> PROVE ModeFromEnv(e) = Member(m)
  <2>1. m \in Token
    BY DEF Token
  <2>2. m \notin PySpace
    <3>1. PySpace = {Gap, "NEL"} /\ m # Gap
      BY DEF PySpace, Gap, Modes
    <3> QED
      BY <3>1 DEF Modes
  <2>3. <<m>> \in Seq(Token) /\ Len(<<m>>) = 1 /\ <<m>>[1] = m /\ <<m>> # <<>>
    BY <2>1
  <2>4. Strip(t) = <<m>>
    BY <1>6, <2>2, <2>3, StripKeeps
  <2>5. declared = Str(<<m>>) /\ declared # None
    BY <1>2, <2>3, <2>4
  <2>6. Coercible(declared) /\ declared[2] = m
    BY <2>1, <2>5, StrOne DEF Coercible
  <2> QED
    BY <1>3, <2>5, <2>6 DEF Coerce
<1> QED
  BY <1>4, <1>5, <1>6 DEF t

\* What a call of emit_usage leaves.
LEMMA CallIs ==
    ASSUME NEW by, NEW fields, NEW overrides, NEW raises
    PROVE  LET c == Call(by, fields, overrides, raises)
           IN  /\ c.by = by /\ c.raised = raises /\ c.sink = BuildRecord(fields, overrides)
               /\ c.answer = IF raises THEN {} ELSE c.sink
  BY DEF Call, EmitUsage, EmitRecord

\* The record of e's session.
HookRecord(r, e) ==
    /\ RecordFits(r)
    /\ r.workload = Env(e, "MADO_ISSUE_KEY") /\ r.parent_request_id = Env(e, "MADO_STREAM_ID")
    /\ r.queue = Queue(e["MADO_PHASE"]) /\ r.pricing_mode = ModeFromEnv(e)

\* A session whose application's id is not such a blank has a record for its sink.
LEMMA HookRecordIs ==
    ASSUME NEW e, EnvFits(e), ~UnseenBlank(e["TOKENWEIR_APP_ID"])
    PROVE  \E r : /\ BuildRecord([mapping |-> TRUE, data |-> BuildFields(e)], <<>>) = {r}
                  /\ HookRecord(r, e)
<1> DEFINE data == BuildFields(e)
           kwargs == Over(<<>>, data)
           given == Over(kwargs, Defaults)
           id == Env(e, "TOKENWEIR_APP_ID")
<1>1. /\ DOMAIN data = {"request_id", "app_id", "input_tokens", "workload", "queue",
                        "parent_request_id", "pricing_mode"}
      /\ data["request_id"] = Str(<<"message">>)
      /\ data["app_id"] = IF id = None THEN Str(<<"claude-code">>) ELSE id
      /\ data["input_tokens"] = Num(1)
      /\ data["workload"] = Env(e, "MADO_ISSUE_KEY") /\ data["queue"] = PhaseFromEnv(e)
      /\ data["parent_request_id"] = Env(e, "MADO_STREAM_ID")
      /\ data["pricing_mode"] = ModeFromEnv(e)
  BY DEF BuildFields
<1>2. BuildRecord([mapping |-> TRUE, data |-> data], <<>>) = UsageRecord(kwargs)
  BY DEF BuildRecord
<1> HIDE DEF data
<1>3. DOMAIN kwargs = DOMAIN data /\ \A f \in DOMAIN data : kwargs[f] = data[f]
  <2>1. DOMAIN <<>> = {}
    OBVIOUS
  <2>2. /\ DOMAIN kwargs = DOMAIN <<>> \cup DOMAIN data
        /\ DOMAIN <<>> = {} => \A x \in DOMAIN data : kwargs[x] = data[x]
    BY OverIs
  <2> HIDE DEF kwargs
  <2> QED
    BY <2>1, <2>2
<1> HIDE DEF kwargs
<1>4. /\ DOMAIN given = DOMAIN kwargs \cup DOMAIN Defaults
      /\ \A x \in DOMAIN kwargs : given[x] = kwargs[x]
      /\ \A x \in DOMAIN Defaults \ DOMAIN kwargs : given[x] = Defaults[x]
  BY OverIs
<1>5. /\ UsageRecord(kwargs) # {} <=>
                DOMAIN given = Fields /\ \A f \in Fields : Valid(f, given[f])
      /\ \A r \in UsageRecord(kwargs) :
                /\ UsageRecord(kwargs) = {r}
                /\ RecordFits(r)
                /\ \A f \in Fields \ {"pricing_mode"} : r[f] = given[f]
                /\ r["pricing_mode"] = Coerce(given["pricing_mode"])
  BY RecordIs
<1> HIDE DEF given
<1>6. DOMAIN given = Fields
  BY <1>1, <1>3, <1>4, FieldsAre
<1>7. /\ given["request_id"] = Str(<<"message">>)
      /\ given["app_id"] = IF id = None THEN Str(<<"claude-code">>) ELSE id
      /\ given["input_tokens"] = Num(1)
      /\ given["workload"] = Env(e, "MADO_ISSUE_KEY") /\ given["queue"] = PhaseFromEnv(e)
      /\ given["parent_request_id"] = Env(e, "MADO_STREAM_ID")
      /\ given["pricing_mode"] = ModeFromEnv(e)
      /\ given["latency_ms"] = None /\ given["schema_version"] = Num(1)
  <2>1. \A f \in DOMAIN data : given[f] = data[f]
    BY <1>3, <1>4
  <2>2. \A f \in {"latency_ms", "schema_version"} : given[f] = Defaults[f]
    BY <1>1, <1>3, <1>4, FieldsAre
  <2>3. given["latency_ms"] = None /\ given["schema_version"] = Num(1)
    BY <2>2, DefaultsAre
  <2> QED
    BY <1>1, <2>1, <2>3
<1>8. PICK m \in Modes : ModeFromEnv(e) = Member(m)
  BY ModeFromEnvIs
<1>9. \A v \in ATTRIBUTION_ENV : e[v] \in Seq(Token)
  BY DEF EnvFits
<1>10. PhaseFromEnv(e) = Queue(e["MADO_PHASE"])
  BY <1>9, EnvNames, QueueIs
<1>11. \A v : v = None \/ IsText(v) => v = None \/ Is("str", v)
  BY TextOfStr DEF IsText
<1>12. ASSUME NEW f \in Fields PROVE Valid(f, given[f])
  <2>1. CASE f \in {"request_id", "app_id"}
    <3>1. id = None \/ id = Str(<<"app">>)
      BY AppIdIs
    <3>2. \E w \in {"message", "claude-code", "app"} : given[f] = Str(<<w>>)
      BY <1>7, <2>1, <3>1
    <3>3. Is("str", given[f]) /\ ~IsBlank(Text(given[f]))
      BY <3>2, WordShows
    <3> QED
      BY <2>1, <3>3, ValidIs
  <2>2. CASE f \in {"workload", "queue", "parent_request_id"}
    <3>1. /\ Env(e, "MADO_ISSUE_KEY") = None \/ IsText(Env(e, "MADO_ISSUE_KEY"))
          /\ Env(e, "MADO_STREAM_ID") = None \/ IsText(Env(e, "MADO_STREAM_ID"))
      BY <1>9, EnvNames, EnvIs
    <3>2. PhaseFromEnv(e) = None \/ IsText(PhaseFromEnv(e))
      BY <1>9, <1>10, EnvNames, QueueType
    <3>3. given[f] = None \/ IsText(given[f])
      BY <1>7, <2>2, <3>1, <3>2
    <3>4. given[f] = None \/ Is("str", given[f])
      BY <1>11, <3>3
    <3> QED
      BY <2>2, <3>4, ValidIs
  <2>3. CASE f = "input_tokens"
    <3>1. NonNegativeInt(Num(1))
      BY TypesAre DEF NonNegativeInt, Is
    <3> QED
      BY <1>7, <2>3, <3>1, ValidIs
  <2>4. CASE f = "latency_ms"
    BY <1>7, <2>4, ValidIs
  <2>5. CASE f = "schema_version"
    <3>1. Is("int", Num(1)) /\ Num(1)[2] >= 1
      BY TypesAre DEF Is
    <3> QED
      BY <1>7, <2>5, <3>1, ValidIs
  <2>6. CASE f = "pricing_mode"
    <3>1. Coercible(given[f])
      BY <1>7, <1>8, <2>6 DEF Coercible
    <3> QED
      BY <2>6, <3>1, ValidIs
  <2> QED
    BY <2>1, <2>2, <2>3, <2>4, <2>5, <2>6, FieldsAre
<1>13. PICK r \in UsageRecord(kwargs) : TRUE
  BY <1>5, <1>6, <1>12
<1>14. Coerce(ModeFromEnv(e)) = ModeFromEnv(e)
  BY <1>8, TypesAre DEF Coerce
<1>15. HookRecord(r, e)
  <2>1. /\ RecordFits(r) /\ r["pricing_mode"] = ModeFromEnv(e)
        /\ \A f \in Fields \ {"pricing_mode"} : r[f] = given[f]
    BY <1>5, <1>7, <1>13, <1>14
  <2>2. /\ r["workload"] = given["workload"] /\ r["queue"] = given["queue"]
        /\ r["parent_request_id"] = given["parent_request_id"]
    BY <2>1, FieldsAre
  <2> QED
    BY <1>7, <1>10, <2>1, <2>2 DEF HookRecord
<1>16. UsageRecord(kwargs) = {r}
  BY <1>5, <1>13
<1> QED
  BY <1>2, <1>15, <1>16 DEF data

\* A session whose application's id is one has none.
LEMMA NoHookRecord ==
    ASSUME NEW e, EnvFits(e), UnseenBlank(e["TOKENWEIR_APP_ID"])
    PROVE  BuildRecord([mapping |-> TRUE, data |-> BuildFields(e)], <<>>) = {}
<1> DEFINE data == BuildFields(e)
           kwargs == Over(<<>>, data)
           given == Over(kwargs, Defaults)
           id == Env(e, "TOKENWEIR_APP_ID")
<1>1. id = Str(<<"BOM">>) /\ id # None
  BY AppIdIs
<1>2. "app_id" \in DOMAIN data /\ data["app_id"] = id
  BY <1>1 DEF BuildFields
<1>3. BuildRecord([mapping |-> TRUE, data |-> data], <<>>) = UsageRecord(kwargs)
  BY DEF BuildRecord
<1> HIDE DEF data, id
<1>4. "app_id" \in DOMAIN kwargs /\ kwargs["app_id"] = id
  <2>1. DOMAIN <<>> = {}
    OBVIOUS
  <2>2. /\ DOMAIN kwargs = DOMAIN <<>> \cup DOMAIN data
        /\ DOMAIN <<>> = {} => \A x \in DOMAIN data : kwargs[x] = data[x]
    BY OverIs
  <2> HIDE DEF kwargs
  <2> QED
    BY <1>2, <2>1, <2>2
<1> HIDE DEF kwargs
<1>5. given["app_id"] = id
  <2>1. \A x \in DOMAIN kwargs : given[x] = kwargs[x]
    BY OverIs
  <2> HIDE DEF given
  <2> QED
    BY <1>4, <2>1
<1>6. UsageRecord(kwargs) # {} => \A f \in Fields : Valid(f, given[f])
  BY RecordIs
<1> HIDE DEF given
<1>7. ~Valid("app_id", id)
  <2>1. "BOM" \in Token
    BY DEF Token
  <2>2. <<"BOM">> \in Seq(Token) /\ DOMAIN <<"BOM">> = {1} /\ <<"BOM">>[1] = "BOM"
    BY <2>1
  <2>3. Text(id) = <<"BOM">>
    BY <1>1, <2>2, TextOfStr
  <2>4. IsBlank(Text(id))
    BY <2>2, <2>3 DEF IsBlank, Blanks
  <2> QED
    BY <2>4, ValidIs
<1> QED
  BY <1>3, <1>5, <1>6, <1>7, FieldsAre DEF data

-----------------------------------------------------------------------------
(* What a person writes *)

\* What a person writes for a phase is a text.
LEMMA SpellingsAre == Spellings \subseteq Seq(Token)
<1>1. \A s \in BoundedSeq(Tokens, MaxTokens) : s \in Seq(Token)
  <2>1. ASSUME NEW s \in BoundedSeq(Tokens, MaxTokens) PROVE s \in Seq(Token)
    <3>1. PICK m \in 0..MaxTokens : s \in [1..m -> Tokens]
      BY DEF BoundedSeq, SeqOf
    <3>2. m \in Nat
      BY <3>1, BoundsAssumption
    <3>3. Tokens \subseteq Token
      BY DEF Token
    <3> QED
      BY <3>1, <3>2, <3>3
  <2> QED
    BY <2>1
<1>2. /\ "implementation" \in Token /\ "implement" \in Token /\ "review" \in Token
      /\ "REVIEW" \in Token /\ "fix" \in Token /\ "bugfix" \in Token /\ "bug" \in Token
      /\ "-" \in Token /\ "_" \in Token /\ "#" \in Token /\ Gap \in Token
      /\ Digits \subseteq Token /\ OrdinalSuffixes \subseteq Token
  <2>1. Separators \subseteq Token
    BY DEF Token
  <2> QED
    BY <2>1, SeparatorsAre DEF Token, Tokens, Kinds
<1>3. \A a \in Token : <<a>> \in Seq(Token)
  OBVIOUS
<1>4. \A a, b \in Token : <<a, b>> \in Seq(Token)
  OBVIOUS
<1>5. \A a, b, c \in Token : <<a, b, c>> \in Seq(Token)
  OBVIOUS
<1>6. \A s, u \in Seq(Token) : s \o u \in Seq(Token)
  OBVIOUS
<1>7. Gaps \subseteq Seq(Token)
  <2> DEFINE Two == {Gap, "_"}
             Filled(n) == [1..n -> Two]
             Short == {<<"#">>, <<Gap, "#">>}
  <2>1. Gaps = (UNION {Filled(n) : n \in 1..3}) \cup Short
    BY DEF Gaps, Gap
  <2>2. Two \subseteq Token
    BY <1>2
  <2>3. Short \subseteq Seq(Token)
    BY <1>2, <1>3, <1>4
  <2> HIDE DEF Two, Short
  <2>4. ASSUME NEW n \in 1..3, NEW g \in Filled(n) PROVE g \in Seq(Token)
    <3>1. n \in Nat
      OBVIOUS
    <3> QED
      BY <2>2, <3>1
  <2> HIDE DEF Filled
  <2>5. \A g \in (UNION {Filled(n) : n \in 1..3}) : g \in Seq(Token)
    BY <2>4
  <2>6. \A A, B : (\A g \in A : g \in Seq(Token)) /\ B \subseteq Seq(Token)
                 => A \cup B \subseteq Seq(Token)
    OBVIOUS
  <2>7. ((UNION {Filled(n) : n \in 1..3}) \cup Short) \subseteq Seq(Token)
    BY <2>3, <2>5, <2>6, Zenon
  <2> QED
    BY <2>1, <2>7, Zenon
<1>8. \A k \in Kinds : Words[k] \subseteq Seq(Token)
  <2>1. \A k \in Kinds : \A w \in Words[k] :
            \/ \E a \in {"implementation", "implement", "review", "REVIEW", "fix", "bugfix"} :
                    w = <<a>>
            \/ w = <<"bug", "-", "fix">>
    BY DEF Words, Kinds
  <2>2. /\ \A a \in {"implementation", "implement", "review", "REVIEW", "fix", "bugfix"} :
                <<a>> \in Seq(Token)
        /\ <<"bug", "-", "fix">> \in Seq(Token)
    BY <1>2, <1>3, <1>5
  <2>3. ASSUME NEW k \in Kinds, NEW w \in Words[k] PROVE w \in Seq(Token)
    BY <2>1, <2>2
  <2> QED
    BY <2>3
<1>9. \A k \in Kinds : Named(k) \subseteq Seq(Token)
  <2>1. ASSUME NEW g \in Gaps PROVE <<"bug">> \o g \o <<"fix">> \in Seq(Token)
    <3>1. g \in Seq(Token) /\ <<"bug">> \in Seq(Token) /\ <<"fix">> \in Seq(Token)
      BY <1>2, <1>3, <1>7
    <3> QED
      BY <1>6, <3>1
  <2>2. ASSUME NEW k \in Kinds, NEW w \in Named(k)
        PROVE  w \in Words[k] \/ \E g \in Gaps : w = <<"bug">> \o g \o <<"fix">>
    BY DEF Named
  <2> QED
    BY <1>8, <2>1, <2>2
<1>10. ASSUME NEW p \in Phases, NEW s \in Examples(p[1], p[2]) PROVE s \in Seq(Token)
  <2>1. p[1] \in Kinds
    BY DEF Phases
  <2>2. \A d \in DigitsOf(p[2]) : d \in Token
    BY <1>2 DEF DigitsOf
  <2>3. p[2] # -1 => \A x \in SuffixesOf[p[2]] : x \in Token
    <3>1. p[2] # -1 => p[2] \in Numbers
      BY DEF Phases
    <3>2. \A n \in Numbers : SuffixesOf[n] \subseteq OrdinalSuffixes
      BY DEF SuffixesOf, OrdinalSuffixes, Numbers
    <3> QED
      BY <1>2, <3>1, <3>2
  <2>4. CASE p[2] = -1
    BY <1>9, <2>1, <2>4 DEF Examples
  <2>5. CASE p[2] # -1
    <3>1. \/ \E d \in DigitsOf(p[2]), x \in SuffixesOf[p[2]], g \in Gaps, w \in Named(p[1]) :
                s = <<d, x>> \o g \o w
          \/ \E w \in Named(p[1]), g \in Gaps \cup {<<"-">>}, d \in DigitsOf(p[2]) :
                s = w \o g \o <<d>>
      <4> DEFINE D == DigitsOf(p[2])
                 X == SuffixesOf[p[2]]
                 N == Named(p[1])
                 L == Gaps \cup {<<"-">>}
                 Before(d, x, g, w) == <<d, x>> \o g \o w
                 After(w, g, d) == w \o g \o <<d>>
                 before == {Before(d, x, g, w) : d \in D, x \in X, g \in Gaps, w \in N}
                 after == {After(w, g, d) : w \in N, g \in L, d \in D}
      <4>1. Examples(p[1], p[2]) = before \cup after
        BY <2>5 DEF Examples
      <4> HIDE DEF before, after
      <4>2. s \in before \/ s \in after
        BY <1>10, <4>1
      <4> HIDE DEF Before, After, D, X, N, L
      <4>3. \/ \E d \in D, x \in X, g \in Gaps, w \in N : s = Before(d, x, g, w)
            \/ \E w \in N, g \in L, d \in D : s = After(w, g, d)
        BY <4>2 DEF before, after
      <4> QED
        BY <4>3 DEF Before, After, D, X, N, L
    <3>2. CASE \E d \in DigitsOf(p[2]), x \in SuffixesOf[p[2]], g \in Gaps, w \in Named(p[1]) :
                s = <<d, x>> \o g \o w
      <4>1. PICK d \in DigitsOf(p[2]), x \in SuffixesOf[p[2]], g \in Gaps, w \in Named(p[1]) :
                s = <<d, x>> \o g \o w
        BY <3>2
      <4>2. <<d, x>> \in Seq(Token) /\ g \in Seq(Token) /\ w \in Seq(Token)
        BY <1>4, <1>7, <1>9, <2>1, <2>2, <2>3, <2>5
      <4> QED
        BY <1>6, <4>1, <4>2
    <3>3. CASE \E w \in Named(p[1]), g \in Gaps \cup {<<"-">>}, d \in DigitsOf(p[2]) :
                s = w \o g \o <<d>>
      <4>1. PICK w \in Named(p[1]), g \in Gaps \cup {<<"-">>}, d \in DigitsOf(p[2]) :
                s = w \o g \o <<d>>
        BY <3>3
      <4>2. <<d>> \in Seq(Token) /\ g \in Seq(Token) /\ w \in Seq(Token)
        BY <1>2, <1>3, <1>7, <1>9, <2>1, <2>2
      <4> QED
        BY <1>6, <4>1, <4>2
    <3> QED
      BY <3>1, <3>2, <3>3
  <2> QED
    BY <2>4, <2>5
<1> QED
  BY <1>1, <1>10 DEF Spellings

\* What a person writes is made of texts.
LEMMA TypedIs ==
    ASSUME NEW input \in Typed
    PROVE  /\ IsText(input.issue_key) /\ IsText(input.phase)
           /\ IsText(input.stream_id) /\ IsText(input.pricing_mode)
<1>1. /\ "KEY" \in Token /\ "STREAM" \in Token /\ "fix" \in Token /\ "-" \in Token
      /\ "2" \in Token /\ "subscription" \in Token /\ "api_metered" \in Token /\ "gold" \in Token
      /\ Gap \in Token
  BY GapSeparates DEF Token, Tokens, Digits, Modes
<1>2. \A a \in Token : IsText(Str(<<a>>))
  BY StrOne DEF IsText
<1>3. IsText(Str(<<"fix", "-", "2">>))
  <2>1. \A a, b, c \in Token : <<a, b, c>> \in Seq(Token)
    OBVIOUS
  <2> QED
    BY <1>1, <2>1 DEF IsText
<1>4. \A v \in Texts : Is("str", v) => IsText(v)
  <2>1. ~Is("str", None) /\ ~Is("str", Num(5))
    BY TypesAre DEF Is
  <2> QED
    BY <2>1, TextsAre
<1>5. \A s \in Spellings : IsText(Str(s))
  BY SpellingsAre DEF IsText
<1>6. \A m \in TypedModes : IsText(Str(m))
  <2>0. TypedModes = {<<>>, <<Gap>>, <<"api_metered">>, <<Gap, "api_metered">>, <<"gold">>}
    BY DEF TypedModes, Gap
  <2>1. <<Gap, "api_metered">> \in Seq(Token)
    BY <1>1
  <2>2. <<>> \in Seq(Token)
    OBVIOUS
  <2>3. IsText(Str(<<>>)) /\ IsText(Str(<<Gap, "api_metered">>))
    BY <2>1, <2>2 DEF IsText
  <2> QED
    BY <1>1, <1>2, <2>0, <2>3
<1>7. /\ Ordinary.issue_key = Str(<<"KEY">>) /\ Ordinary.phase = Str(<<"fix", "-", "2">>)
      /\ Ordinary.stream_id = Str(<<"STREAM">>)
  BY DEF Ordinary
<1>8. CASE \E s \in Spellings : input = WithPhase(s)
  <2>1. PICK s \in Spellings : input = WithPhase(s)
    BY <1>8
  <2>2. /\ input.issue_key = Str(<<"KEY">>) /\ input.stream_id = Str(<<"STREAM">>)
        /\ input.phase = Str(s) /\ input.pricing_mode = Str(<<"subscription">>)
    BY <2>1 DEF Ordinary, WithPhase
  <2> QED
    BY <1>1, <1>2, <1>5, <2>2
<1>9. CASE \E v \in TypedKeys, m \in TypedModes : input = WithKey(v, m)
  <2>1. PICK v \in TypedKeys, m \in TypedModes : input = WithKey(v, m)
    BY <1>9
  <2>2. /\ input.issue_key = v /\ input.stream_id = Str(<<"STREAM">>)
        /\ input.phase = Str(<<"fix", "-", "2">>) /\ input.pricing_mode = Str(m)
    BY <2>1 DEF Ordinary, WithKey
  <2>3. v \in Texts /\ Is("str", v)
    BY DEF TypedKeys
  <2> QED
    BY <1>1, <1>2, <1>3, <1>4, <1>6, <2>2, <2>3
<1> QED
  BY <1>8, <1>9 DEF Typed

-----------------------------------------------------------------------------
(* The invariant *)

\* A session that has started: the environment it inherited, for what was meant.
SessionFits(who, s) ==
    /\ EnvFits(s.env)
    /\ \/ /\ who = "orchestrator" /\ s.input \in Inputs
          /\ s.env["MADO_ISSUE_KEY"] \in RequiredText(s.input.issue_key)
          /\ s.env["MADO_PHASE"] \in PhaseText(s.input.phase)
          /\ s.env["MADO_STREAM_ID"] \in RequiredText(s.input.stream_id)
          /\ s.env["MADO_PRICING_MODE"] \in ModeText(s.input.pricing_mode)
       \/ /\ who = "person" /\ s.input \in Typed
          /\ s.env["MADO_PHASE"] = Text(s.input.phase)

\* What the sink was handed: one record at most, and a session's record is its own.
EmittedFits(who, e) ==
    /\ e.answer = IF e.raised THEN {} ELSE e.sink
    /\ \A r \in e.sink : RecordFits(r) /\ e.sink = {r}
    /\ \A s \in e.by : /\ SessionFits(who, s)
                       /\ e.sink = {} <=> UnseenBlank(s.env["TOKENWEIR_APP_ID"])
                       /\ \A r \in e.sink : HookRecord(r, s.env)

ReadFits(m) ==
    /\ m.got = FromJson(m.message)
    /\ ValueFits(m.message.data)
    /\ m.from # {} => m.got = m.from

IInv ==
    /\ producer \in Producers /\ iteration \in 0..MaxIterations \cup {1}
    /\ EnvFits(env)
    /\ \A input \in refused : input \in Inputs /\ AttributionEnv(input) = {}
    /\ \A s \in sessions : SessionFits(producer, s)
    /\ \A e \in emitted : EmittedFits(producer, e)
    /\ \A m \in read : ReadFits(m)

\* The invariant holds at the start.
LEMMA StartFits == Init => IInv
<1> SUFFICES ASSUME Init PROVE IInv
  OBVIOUS
<1>1. PICK id \in AppIds : env = [v \in ATTRIBUTION_ENV \cup {"TOKENWEIR_APP_ID"} |->
                                    IF v = "TOKENWEIR_APP_ID" THEN id ELSE <<>>]
  BY DEF Init, AppIds
<1>2. id \in Seq(Token)
  <2>1. "app" \in Token /\ "NEL" \in Token /\ "BOM" \in Token /\ Gap \in Token
    BY GapSeparates DEF Token, Separators, PySpace
  <2>2. <<Gap, "NEL">> \in Seq(Token) /\ <<"app">> \in Seq(Token) /\ <<"BOM">> \in Seq(Token)
    BY <2>1
  <2>3. <<>> \in Seq(Token)
    OBVIOUS
  <2>4. AppIds = {<<>>, <<Gap, "NEL">>, <<"BOM">>, <<"app">>}
    BY DEF AppIds, Gap
  <2> QED
    BY <2>2, <2>3, <2>4
<1>3. EnvFits(env)
  <2>1. <<>> \in Seq(Token)
    OBVIOUS
  <2> QED
    BY <1>1, <1>2, <2>1 DEF EnvFits
<1>4. iteration \in 0..MaxIterations
  BY BoundsAssumption DEF Init
<1> QED
  BY <1>3, <1>4 DEF Init, IInv

\* A block over an environment leaves nothing of the one before.
LEMMA BlockOver ==
    ASSUME NEW i \in Seq(Token), NEW p \in Seq(Token), NEW t \in Seq(Token), NEW m \in Seq(Token),
           NEW e, EnvFits(e)
    PROVE  LET n == Over(Block(i, p, t, m), e)
           IN  /\ EnvFits(n)
               /\ n["MADO_ISSUE_KEY"] = i /\ n["MADO_PHASE"] = p
               /\ n["MADO_STREAM_ID"] = t /\ n["MADO_PRICING_MODE"] = m
<1> DEFINE b == Block(i, p, t, m)
           n == Over(b, e)
<1>1. /\ DOMAIN b = ATTRIBUTION_ENV
      /\ b["MADO_ISSUE_KEY"] = i /\ b["MADO_PHASE"] = p
      /\ b["MADO_STREAM_ID"] = t /\ b["MADO_PRICING_MODE"] = m
  BY DEF Block, ATTRIBUTION_ENV
<1> HIDE DEF b
<1>2. /\ DOMAIN n = DOMAIN b \cup DOMAIN e
      /\ \A x \in DOMAIN b : n[x] = b[x]
      /\ \A x \in DOMAIN e \ DOMAIN b : n[x] = e[x]
  BY OverIs
<1> HIDE DEF n
<1>3. /\ n["MADO_ISSUE_KEY"] = i /\ n["MADO_PHASE"] = p
      /\ n["MADO_STREAM_ID"] = t /\ n["MADO_PRICING_MODE"] = m
  BY <1>1, <1>2, EnvNames
<1>4. DOMAIN n = ATTRIBUTION_ENV \cup {"TOKENWEIR_APP_ID"}
  BY <1>1, <1>2 DEF EnvFits
<1>5. n["TOKENWEIR_APP_ID"] = e["TOKENWEIR_APP_ID"]
  BY <1>1, <1>2, EnvNames DEF EnvFits
<1>6. \A v \in DOMAIN n : n[v] \in Seq(Token)
  <2>1. \A v \in ATTRIBUTION_ENV : n[v] \in Seq(Token)
    BY <1>3 DEF ATTRIBUTION_ENV
  <2>2. e["TOKENWEIR_APP_ID"] \in Seq(Token)
    BY DEF EnvFits
  <2> QED
    BY <1>4, <1>5, <2>1, <2>2
<1>7. EnvFits(n)
  BY <1>4, <1>5, <1>6 DEF EnvFits
<1> QED
  BY <1>3, <1>7 DEF n, b

\* An iteration's session has the texts of that iteration.
LEMMA BlockFits ==
    ASSUME NEW input \in Inputs, NEW block \in AttributionEnv(input), NEW e, EnvFits(e)
    PROVE  /\ EnvFits(Over(block, e))
           /\ SessionFits("orchestrator", [env |-> Over(block, e), input |-> input])
<1>1. PICK i \in RequiredText(input.issue_key), p \in PhaseText(input.phase),
           t \in RequiredText(input.stream_id), m \in ModeText(input.pricing_mode) :
                block = Block(i, p, t, m)
  BY DEF AttributionEnv
<1>2. i \in Seq(Token) /\ t \in Seq(Token)
  <2>1. /\ input.issue_key = None \/ IsText(input.issue_key) \/ input.issue_key = Num(5)
        /\ input.stream_id = None \/ IsText(input.stream_id) \/ input.stream_id = Num(5)
    BY InputIs, TextsAre
  <2> QED
    BY <2>1, RequiredTextIs
<1>3. p \in Seq(Token)
  BY InputIs, PhaseTextIs
<1>4. m \in Seq(Token)
  BY InputIs, ModeTextIs
<1> DEFINE n == Over(block, e)
           s == [env |-> n, input |-> input]
<1>5. /\ EnvFits(n)
      /\ n["MADO_ISSUE_KEY"] = i /\ n["MADO_PHASE"] = p
      /\ n["MADO_STREAM_ID"] = t /\ n["MADO_PRICING_MODE"] = m
  BY <1>1, <1>2, <1>3, <1>4, BlockOver
<1> HIDE DEF n
<1>6. s.env = n /\ s.input = input
  OBVIOUS
<1> HIDE DEF s
<1>7. SessionFits("orchestrator", s)
  BY <1>5, <1>6 DEF SessionFits
<1> QED
  BY <1>5, <1>7 DEF s, n

\* The session of a person who stamps the environment has the texts that were stamped.
LEMMA StampFits ==
    ASSUME NEW input \in Typed, NEW e, EnvFits(e)
    PROVE  LET n == Over(Block(Text(input.issue_key), Text(input.phase), Text(input.stream_id),
                               Text(input.pricing_mode)), e)
           IN  EnvFits(n) /\ SessionFits("person", [env |-> n, input |-> input])
<1> DEFINE n == Over(Block(Text(input.issue_key), Text(input.phase), Text(input.stream_id),
                           Text(input.pricing_mode)), e)
           s == [env |-> n, input |-> input]
<1>1. \A v : IsText(v) => Text(v) \in Seq(Token)
  BY TextOfStr DEF IsText
<1>2. /\ Text(input.issue_key) \in Seq(Token) /\ Text(input.phase) \in Seq(Token)
      /\ Text(input.stream_id) \in Seq(Token) /\ Text(input.pricing_mode) \in Seq(Token)
  BY <1>1, TypedIs
<1>3. EnvFits(n) /\ n["MADO_PHASE"] = Text(input.phase)
  BY <1>2, BlockOver
<1> HIDE DEF n
<1>4. s.env = n /\ s.input = input
  OBVIOUS
<1> HIDE DEF s
<1>5. SessionFits("person", s)
  BY <1>3, <1>4 DEF SessionFits
<1> QED
  BY <1>3, <1>5 DEF s, n

\* What a hook emits fits the invariant.
LEMMA HookFits ==
    ASSUME NEW who, NEW s, SessionFits(who, s), NEW raises
    PROVE  EmittedFits(who, Call({s}, [mapping |-> TRUE, data |-> BuildFields(s.env)], <<>>, raises))
<1> DEFINE fields == [mapping |-> TRUE, data |-> BuildFields(s.env)]
           c == Call({s}, fields, <<>>, raises)
<1>1. EnvFits(s.env)
  BY DEF SessionFits
<1>2. /\ c.by = {s} /\ c.raised = raises /\ c.sink = BuildRecord(fields, <<>>)
      /\ c.answer = IF raises THEN {} ELSE c.sink
  BY CallIs
<1>3. CASE UnseenBlank(s.env["TOKENWEIR_APP_ID"])
  <2>1. BuildRecord(fields, <<>>) = {}
    BY <1>1, <1>3, NoHookRecord
  <2> HIDE DEF fields, c
  <2>2. EmittedFits(who, c)
    BY <1>2, <1>3, <2>1 DEF EmittedFits
  <2> QED
    BY <2>2 DEF c, fields
<1>4. CASE ~UnseenBlank(s.env["TOKENWEIR_APP_ID"])
  <2>1. PICK r : BuildRecord(fields, <<>>) = {r} /\ HookRecord(r, s.env)
    BY <1>1, <1>4, HookRecordIs
  <2> HIDE DEF fields, c
  <2>2. EmittedFits(who, c)
    BY <1>2, <1>4, <2>1 DEF EmittedFits, HookRecord
  <2> QED
    BY <2>2 DEF c, fields
<1> QED
  BY <1>3, <1>4

\* What an application emits fits it.
LEMMA CallFits ==
    ASSUME NEW who, NEW fields, NEW overrides, NEW raises
    PROVE  EmittedFits(who, Call({}, fields, overrides, raises))
<1> DEFINE c == Call({}, fields, overrides, raises)
<1>1. /\ c.by = {} /\ c.raised = raises /\ c.sink = BuildRecord(fields, overrides)
      /\ c.answer = IF raises THEN {} ELSE c.sink
  BY CallIs
<1> HIDE DEF c
<1>2. \A r \in BuildRecord(fields, overrides) :
            RecordFits(r) /\ BuildRecord(fields, overrides) = {r}
  <2>1. \A kwargs : \A r \in UsageRecord(kwargs) : RecordFits(r) /\ UsageRecord(kwargs) = {r}
    BY RecordIs
  <2>2. \/ BuildRecord(fields, overrides) = {}
        \/ BuildRecord(fields, overrides) = UsageRecord(Over(overrides, fields.data))
    BY DEF BuildRecord
  <2> QED
    BY <2>1, <2>2
<1> QED
  BY <1>1, <1>2 DEF EmittedFits, c

\* A message that was sent is read as it was; another's is read, or not.
LEMMA OwnFits ==
    ASSUME NEW who, NEW e, EmittedFits(who, e), e.answer # {}
    PROVE  LET message == [object |-> TRUE, data |-> ToDict(CHOOSE r \in e.answer : TRUE)]
           IN  ReadFits([message |-> message, from |-> e.answer, got |-> FromJson(message)])
<1>1. PICK r : e.answer = {r} /\ RecordFits(r)
  BY DEF EmittedFits
<1>2. (CHOOSE q \in e.answer : TRUE) = r
  BY <1>1
<1> DEFINE data == ToDict(CHOOSE q \in e.answer : TRUE)
           message == [object |-> TRUE, data |-> data]
           m == [message |-> message, from |-> e.answer, got |-> FromJson(message)]
<1>3. data = ToDict(r)
  BY <1>2
<1> HIDE DEF data
<1>4. message.object /\ message.data = data
  OBVIOUS
<1> HIDE DEF message
<1>5. m.message = message /\ m.from = e.answer /\ m.got = FromJson(message)
  OBVIOUS
<1> HIDE DEF m
<1>6. m.got = m.from
  BY <1>1, <1>3, <1>4, <1>5, ReadBack DEF FromJson
<1>7. ValueFits(data)
  <2>1. DOMAIN ToDict(r) = Fields
    BY <1>1, ToDictIs
  <2> QED
    BY <1>1, <1>3, <2>1, OwnFloats DEF ValueFits
<1>8. ReadFits(m)
  BY <1>4, <1>5, <1>6, <1>7 DEF ReadFits
<1> QED
  BY <1>8 DEF m, message, data

\* And so does what a consumer reads of another producer.
LEMMA ForeignFits ==
    ASSUME NEW object, NEW d \in Documents
    PROVE  LET message == [object |-> object, data |-> d]
           IN  ReadFits([message |-> message, from |-> {}, got |-> FromJson(message)])
  BY DocumentsFit DEF ReadFits

\* Every step keeps the invariant.
LEMMA StepFits == IInv /\ [Next]_vars => IInv'
<1> SUFFICES ASSUME IInv, [Next]_vars PROVE IInv'
  OBVIOUS
<1>0. /\ producer \in Producers /\ iteration \in 0..MaxIterations \cup {1} /\ EnvFits(env)
      /\ \A input \in refused : input \in Inputs /\ AttributionEnv(input) = {}
      /\ \A s \in sessions : SessionFits(producer, s)
      /\ \A e \in emitted : EmittedFits(producer, e)
      /\ \A m \in read : ReadFits(m)
  BY DEF IInv
<1>1. CASE Iterate
  <2>1. /\ producer = "orchestrator" /\ iteration < MaxIterations /\ iteration' = iteration + 1
        /\ producer' = producer /\ emitted' = emitted /\ read' = read
    BY <1>1 DEF Iterate
  <2>2. iteration' \in 0..MaxIterations
    BY <1>0, <2>1, BoundsAssumption
  <2>3. PICK input \in Inputs :
            \/ /\ AttributionEnv(input) = {}
               /\ refused' = refused \cup {input}
               /\ UNCHANGED <<env, sessions>>
            \/ \E block \in AttributionEnv(input) :
                /\ env' = Over(block, env)
                /\ sessions' = sessions \cup {[env |-> env', input |-> input]}
                /\ UNCHANGED refused
    BY <1>1 DEF Iterate
  <2>4. CASE /\ AttributionEnv(input) = {}
             /\ refused' = refused \cup {input}
             /\ UNCHANGED <<env, sessions>>
    BY <1>0, <2>1, <2>2, <2>4 DEF IInv
  <2>5. CASE \E block \in AttributionEnv(input) :
                /\ env' = Over(block, env)
                /\ sessions' = sessions \cup {[env |-> env', input |-> input]}
                /\ UNCHANGED refused
    <3>1. PICK block \in AttributionEnv(input) :
                /\ env' = Over(block, env)
                /\ sessions' = sessions \cup {[env |-> env', input |-> input]}
                /\ UNCHANGED refused
      BY <2>5
    <3>2. EnvFits(env') /\ SessionFits("orchestrator", [env |-> env', input |-> input])
      BY <1>0, <3>1, BlockFits
    <3> QED
      BY <1>0, <2>1, <2>2, <3>1, <3>2 DEF IInv
  <2> QED
    BY <2>3, <2>4, <2>5
<1>2. CASE Stamp
  <2>1. /\ producer = "person" /\ iteration' = 1
        /\ producer' = producer /\ refused' = refused /\ emitted' = emitted /\ read' = read
    BY <1>2 DEF Stamp
  <2>2. PICK input \in Typed :
            /\ env' = Over(Block(Text(input.issue_key), Text(input.phase), Text(input.stream_id),
                                 Text(input.pricing_mode)), env)
            /\ sessions' = {[env |-> env', input |-> input]}
    BY <1>2 DEF Stamp
  <2>3. EnvFits(env') /\ SessionFits("person", [env |-> env', input |-> input])
    BY <1>0, <2>2, StampFits
  <2> QED
    BY <1>0, <2>1, <2>2, <2>3 DEF IInv
<1>3. ASSUME NEW s \in sessions, NEW raises \in BOOLEAN, Hook(s, raises) PROVE IInv'
  <2> DEFINE c == Call({s}, [mapping |-> TRUE, data |-> BuildFields(s.env)], <<>>, raises)
  <2>1. /\ sessions' = sessions \ {s} /\ emitted' = emitted \cup {c}
        /\ producer' = producer /\ env' = env /\ iteration' = iteration
        /\ refused' = refused /\ read' = read
    BY <1>3 DEF Hook
  <2>2. EmittedFits(producer, c)
    BY <1>0, HookFits
  <2> HIDE DEF c
  <2> QED
    BY <1>0, <2>1, <2>2 DEF IInv
<1>4. CASE ApplicationCalls
  <2>1. /\ producer' = producer /\ env' = env /\ iteration' = iteration
        /\ refused' = refused /\ sessions' = sessions /\ read' = read
    BY <1>4 DEF ApplicationCalls
  <2>2. \E fields, overrides, raises : emitted' = {Call({}, fields, overrides, raises)}
    BY <1>4 DEF ApplicationCalls
  <2>3. \A e \in emitted' : EmittedFits(producer, e)
    BY <2>2, CallFits
  <2> QED
    BY <1>0, <2>1, <2>3 DEF IInv
<1>5. CASE Consume
  <2>1. PICK e \in emitted :
            /\ e.answer # {}
            /\ Reads([object |-> TRUE, data |-> ToDict(CHOOSE r \in e.answer : TRUE)], e.answer)
    BY <1>5 DEF Consume
  <2> DEFINE message == [object |-> TRUE, data |-> ToDict(CHOOSE r \in e.answer : TRUE)]
             m == [message |-> message, from |-> e.answer, got |-> FromJson(message)]
  <2>2. /\ read' = read \cup {m}
        /\ producer' = producer /\ env' = env /\ iteration' = iteration
        /\ refused' = refused /\ sessions' = sessions /\ emitted' = emitted
    BY <2>1 DEF Reads
  <2>3. ReadFits(m)
    BY <1>0, <2>1, OwnFits
  <2> HIDE DEF m
  <2> QED
    BY <1>0, <2>2, <2>3 DEF IInv
<1>6. CASE ConsumeForeign
  <2>1. PICK object \in BOOLEAN, d \in Documents : Reads([object |-> object, data |-> d], {})
    BY <1>6 DEF ConsumeForeign
  <2> DEFINE message == [object |-> object, data |-> d]
             m == [message |-> message, from |-> {}, got |-> FromJson(message)]
  <2>2. /\ read' = read \cup {m}
        /\ producer' = producer /\ env' = env /\ iteration' = iteration
        /\ refused' = refused /\ sessions' = sessions /\ emitted' = emitted
    BY <2>1 DEF Reads
  <2>3. ReadFits(m)
    BY ForeignFits
  <2> HIDE DEF m
  <2> QED
    BY <1>0, <2>2, <2>3 DEF IInv
<1>7. CASE UNCHANGED vars
  BY <1>0, <1>7 DEF vars, IInv
<1> QED
  BY <1>1, <1>2, <1>3, <1>4, <1>5, <1>6, <1>7 DEF Next

\* The invariant always holds.
LEMMA AlwaysFits == Spec => []IInv
<1> QED
  BY StartFits, StepFits, PTL DEF Spec

-----------------------------------------------------------------------------
(* The properties *)

\* A record an orchestrator's iteration made is the one its block was made for.
LEMMA IterationsRecord ==
    ASSUME NEW s, SessionFits("orchestrator", s), NEW r, HookRecord(r, s.env)
    PROVE  LET meant(v) == IF v = None THEN None ELSE Str(Strip(Text(v)))
               mode == s.input.pricing_mode
           IN  /\ r.workload = meant(s.input.issue_key)
               /\ r.parent_request_id = meant(s.input.stream_id)
               /\ r.queue = None <=> s.input.phase = None
               /\ r.pricing_mode = Member(IF mode = None THEN "subscription" ELSE mode[2])
<1> DEFINE meant(v) == IF v = None THEN None ELSE Str(Strip(Text(v)))
           e == s.env
<1>1. /\ s.input \in Inputs /\ EnvFits(e)
      /\ e["MADO_ISSUE_KEY"] \in RequiredText(s.input.issue_key)
      /\ e["MADO_PHASE"] \in PhaseText(s.input.phase)
      /\ e["MADO_STREAM_ID"] \in RequiredText(s.input.stream_id)
      /\ e["MADO_PRICING_MODE"] \in ModeText(s.input.pricing_mode)
  BY DEF SessionFits
<1>2. /\ r.workload = Env(e, "MADO_ISSUE_KEY") /\ r.parent_request_id = Env(e, "MADO_STREAM_ID")
      /\ r.queue = Queue(e["MADO_PHASE"]) /\ r.pricing_mode = ModeFromEnv(e)
  BY DEF HookRecord
<1> HIDE DEF e
<1>3. ASSUME NEW v, v = None \/ IsText(v) \/ v = Num(5), NEW x, e[x] \in RequiredText(v)
      PROVE  Env(e, x) = meant(v)
  <2>1. e[x] \in Seq(Token)
    BY <1>3, RequiredTextIs
  <2>2. /\ Strip(e[x]) = <<>> => Env(e, x) = None
        /\ Strip(e[x]) # <<>> => Env(e, x) = Str(Strip(e[x]))
    BY <2>1, EnvIs
  <2>3. CASE v = None
    <3>1. e[x] = <<>>
      BY <1>3, <2>3, RequiredTextIs
    <3>2. Seen(e[x]) = {}
      BY <3>1 DEF Seen
    <3>3. Strip(e[x]) = <<>>
      BY <2>1, <3>2, StripEmpty
    <3> QED
      BY <2>2, <2>3, <3>3
  <2>4. CASE v # None
    <3>1. /\ IsText(v) /\ Text(v) \in Seq(Token) /\ ~IsBlank(Text(v)) /\ e[x] = Strip(Text(v))
      BY <1>3, <2>4, RequiredTextIs
    <3>2. Strip(Text(v)) # <<>> /\ Strip(Strip(Text(v))) = Strip(Text(v))
      BY <3>1, StripShows, StripTwice
    <3> QED
      BY <2>2, <2>4, <3>1, <3>2
  <2> QED
    BY <2>3, <2>4
<1>4. /\ s.input.issue_key = None \/ IsText(s.input.issue_key) \/ s.input.issue_key = Num(5)
      /\ s.input.stream_id = None \/ IsText(s.input.stream_id) \/ s.input.stream_id = Num(5)
  BY <1>1, InputIs, TextsAre
<1>5. /\ Env(e, "MADO_ISSUE_KEY") = meant(s.input.issue_key)
      /\ Env(e, "MADO_STREAM_ID") = meant(s.input.stream_id)
  BY <1>1, <1>3, <1>4
<1>6. Queue(e["MADO_PHASE"]) = None <=> s.input.phase = None
  BY <1>1, InputIs, PhaseTextIs
<1>7. ModeFromEnv(e) = Member(IF s.input.pricing_mode = None THEN "subscription"
                              ELSE s.input.pricing_mode[2])
  <2> DEFINE v == s.input.pricing_mode
             t == e["MADO_PRICING_MODE"]
  <2>1. v \in ModeArguments \cup {Member("subscription")}
    BY <1>1, InputIs
  <2>2. /\ v = None => t = <<>>
        /\ v # None => v[2] \in Modes /\ t = <<v[2]>>
    BY <1>1, <2>1, ModeTextIs
  <2>3. /\ t = <<>> => ModeFromEnv(e) = Member("subscription")
        /\ \A m \in Modes : t = <<m>> => ModeFromEnv(e) = Member(m)
    BY <1>1, ModeFromEnvIs
  <2> QED
    BY <2>2, <2>3
<1> QED
  BY <1>2, <1>5, <1>6, <1>7

\* A record carries what the iteration that started its session meant, and nothing of an
\* earlier one (orchestrator.py, attribution_env; claude_code.py, attribution_from_env).
THEOREM Attributed == Spec => []AttributedToItsIteration
<1>1. IInv => AttributedToItsIteration
  <2> SUFFICES ASSUME IInv, producer = "orchestrator",
                      NEW e \in emitted, NEW s \in e.by, NEW r \in e.sink
               PROVE  LET meant(v) == IF v = None THEN None ELSE Str(Strip(Text(v)))
                          mode == s.input.pricing_mode
                      IN  /\ r.workload = meant(s.input.issue_key)
                          /\ r.parent_request_id = meant(s.input.stream_id)
                          /\ r.queue = None <=> s.input.phase = None
                          /\ r.pricing_mode = Member(IF mode = None THEN "subscription"
                                                     ELSE mode[2])
    BY DEF AttributedToItsIteration
  <2>1. SessionFits("orchestrator", s) /\ HookRecord(r, s.env)
    BY DEF IInv, EmittedFits
  <2> QED
    BY <2>1, IterationsRecord
<1> QED
  BY <1>1, AlwaysFits, PTL

\* attribution_env raises on what is given and unusable, and on nothing else (orchestrator.py).
THEOREM RefusedUnusable == Spec => []RefusedIffUnusable
<1>1. IInv => RefusedIffUnusable
  <2> SUFFICES ASSUME IInv, producer = "orchestrator"
               PROVE  /\ \A input \in refused : ~Usable(input)
                      /\ \A s \in sessions : Usable(s.input)
    BY DEF RefusedIffUnusable
  <2>1. ASSUME NEW input \in refused PROVE ~Usable(input)
    BY <2>1, RefusedIs DEF IInv
  <2>2. ASSUME NEW s \in sessions PROVE Usable(s.input)
    <3>1. /\ s.input \in Inputs
          /\ s.env["MADO_ISSUE_KEY"] \in RequiredText(s.input.issue_key)
          /\ s.env["MADO_PHASE"] \in PhaseText(s.input.phase)
          /\ s.env["MADO_STREAM_ID"] \in RequiredText(s.input.stream_id)
          /\ s.env["MADO_PRICING_MODE"] \in ModeText(s.input.pricing_mode)
      BY <2>2 DEF IInv, SessionFits
    <3>2. Block(s.env["MADO_ISSUE_KEY"], s.env["MADO_PHASE"], s.env["MADO_STREAM_ID"],
                s.env["MADO_PRICING_MODE"]) \in AttributionEnv(s.input)
      BY <3>1 DEF AttributionEnv
    <3> QED
      BY <3>1, <3>2, RefusedIs
  <2> QED
    BY <2>1, <2>2
<1> QED
  BY <1>1, AlwaysFits, PTL

\* No turn's record is lost for a label, a mode or a key nobody knows; one is lost exactly
\* when the application's id is a blank that str.strip() does not know; and emit_usage
\* answers truly (claude_code.py, _env and build_fields; sink.py, emit_usage).
THEOREM LossesKnown == Spec => []TurnsRecorded
<1>1. IInv => TypeOK
  <2> SUFFICES ASSUME IInv PROVE TypeOK
    OBVIOUS
  <2>1. \A s \in sessions : DOMAIN s.env = DOMAIN env
    BY DEF IInv, SessionFits, EnvFits
  <2>2. \A e \in emitted : e.answer \subseteq e.sink
    BY DEF IInv, EmittedFits
  <2>3. ASSUME NEW r \in Sent PROVE DOMAIN r = Fields /\ \A f \in Fields : Valid(f, r[f])
    <3>1. RecordFits(r)
      BY DEF Sent, IInv, EmittedFits
    <3> QED
      BY <3>1, RecordDomain DEF RecordFits
  <2> QED
    BY <2>1, <2>2, <2>3 DEF IInv, TypeOK
<1>2. IInv => LostForItsIdAlone
  BY DEF IInv, EmittedFits, LostForItsIdAlone
<1>3. IInv => AnswersTruly
  <2> SUFFICES ASSUME IInv, NEW e \in emitted
               PROVE  /\ \A r \in e.sink : r # None /\ DOMAIN r = Fields
                      /\ e.answer = IF e.raised THEN {} ELSE e.sink
    BY DEF AnswersTruly
  <2>1. EmittedFits(producer, e)
    BY DEF IInv
  <2> QED
    BY <2>1, RecordDomain DEF EmittedFits
<1>4. IInv => TurnsRecorded
  BY <1>1, <1>2, <1>3 DEF TurnsRecorded
<1> QED
  BY <1>4, AlwaysFits, PTL

\* The writer, the reader and the published schema are one contract (contract.py, to_dict,
\* from_dict, usage_record_json_schema).
THEOREM OneContract == Spec => []WireAgrees
<1>1. IInv => WireAgrees
  <2> SUFFICES ASSUME IInv PROVE WireAgrees
    OBVIOUS
  <2>0. \A m \in read : ReadFits(m)
    BY DEF IInv
  <2>1. OwnRecordsRead
    BY <2>0 DEF ReadFits, OwnRecordsRead
  <2>2. ReadAsWritten
    <3> SUFFICES ASSUME NEW m \in read, NEW r \in m.got, NEW f \in Fields
                 PROVE  Denotes(r[f], Over(m.message.data, Defaults)[f])
      BY DEF ReadAsWritten
    <3>1. r \in FromDict(m.message.data)
      BY <2>0 DEF ReadFits, FromJson
    <3>2. f \in DOMAIN m.message.data => FloatFits(m.message.data[f])
      BY <2>0 DEF ReadFits, ValueFits
    <3> QED
      BY <3>1, <3>2, ReadDenotes
  <2>3. SchemaNeverLooser
    BY <2>0, SchemaRead DEF ReadFits, FromJson, SchemaNeverLooser
  <2>4. RecordsValidate
    <3>1. ASSUME NEW m \in read, NEW r \in m.got PROVE RecordFits(r)
      <4>1. r \in FromDict(m.message.data)
        BY <2>0 DEF ReadFits, FromJson
      <4>2. PICK given : Reading(m.message.data, given)
        BY ReadIs
      <4> QED
        BY <4>1, <4>2 DEF Reading
    <3>2. ASSUME NEW r \in Sent PROVE RecordFits(r)
      BY DEF Sent, IInv, EmittedFits
    <3>3. \A r \in Sent \cup UNION {m.got : m \in read} : RecordFits(r)
      BY <3>1, <3>2
    <3>4. ASSUME NEW r \in Sent \cup UNION {m.got : m \in read}, r.schema_version = Num(SCHEMA_VERSION)
          PROVE  Validates(ToDict(r))
      BY <3>3, <3>4, RecordSchema
    <3> QED
      BY <3>4 DEF RecordsValidate
  <2> QED
    BY <2>1, <2>2, <2>3, <2>4 DEF WireAgrees
<1> QED
  BY <1>1, AlwaysFits, PTL

\* A phase is one lane, from whoever writes it to the record, through both ends
\* (orchestrator.py, normalize_phase; claude_code.py, attribution_from_env).
THEOREM OneLane == Spec => []PhaseIsOneLane
<1>1. IInv => OneLanePerPhase
  <2> SUFFICES ASSUME IInv, NEW e \in emitted, NEW s \in e.by, NEW r \in e.sink
               PROVE  InItsLane(s.input.phase, r.queue)
    BY DEF OneLanePerPhase
  <2>1. SessionFits(producer, s) /\ r.queue = Queue(s.env["MADO_PHASE"])
    BY DEF IInv, EmittedFits, HookRecord
  <2>2. CASE s.input \in Inputs /\ s.env["MADO_PHASE"] \in PhaseText(s.input.phase)
    BY <2>1, <2>2, InputIs, PhaseTextIs
  <2>3. CASE s.input \in Typed /\ s.env["MADO_PHASE"] = Text(s.input.phase)
    <3>1. PICK t \in Seq(Token) : s.input.phase = Str(t)
      BY <2>3, TypedIs DEF IsText
    <3>2. Text(s.input.phase) = t
      BY <3>1, TextOfStr
    <3> QED
      BY <2>1, <2>3, <3>1, <3>2, TextInLane
  <2> QED
    BY <2>1, <2>2, <2>3 DEF SessionFits
<1>2. IInv => SameAtBothEnds
  <2> SUFFICES ASSUME IInv, producer = "person", NEW s \in sessions
               PROVE  LET written == s.input.phase
                          exported == PhaseText(written)
                      IN  IF exported = {}
                          THEN \/ \A i \in DOMAIN Text(written) : Text(written)[i] \in Separators
                               \/ \E p \in Asked(written) : p[2] = 0
                          ELSE \A t \in exported :
                                /\ PhaseFromEnv(s.env) # None
                                /\ PhaseFromEnv([s.env EXCEPT !["MADO_PHASE"] = t])
                                        = PhaseFromEnv(s.env)
    BY DEF SameAtBothEnds
  <2> DEFINE written == s.input.phase
  <2>1. EnvFits(s.env) /\ s.input \in Typed /\ s.env["MADO_PHASE"] = Text(written)
    BY DEF IInv, SessionFits
  <2>2. PICK u \in Seq(Token) : written = Str(u)
    BY <2>1, TypedIs DEF IsText
  <2>3. Text(written) = u /\ Asked(written) = Says(u)
    BY <2>2, TextOfStr, TextInLane
  <2>4. PhaseFromEnv(s.env) = Queue(u)
    BY <2>1, <2>3, QueueIs
  <2> HIDE DEF written
  <2>5. CASE PhaseText(written) = {}
    <3>1. Ink(u) = {} \/ \E p \in Says(u) : p[2] = 0
      BY <2>2, <2>5, TypedOrExported
    <3>2. Ink(u) = {} => \A i \in DOMAIN u : u[i] \in Separators
      BY DEF Ink
    <3> QED
      BY <2>3, <2>5, <3>1, <3>2 DEF written
  <2>6. ASSUME NEW t \in PhaseText(written)
        PROVE  /\ PhaseFromEnv(s.env) # None
               /\ PhaseFromEnv([s.env EXCEPT !["MADO_PHASE"] = t]) = PhaseFromEnv(s.env)
    <3>1. t \in Seq(Token) /\ Queue(t) = Queue(u) /\ Queue(u) # None
      BY <2>2, <2>6, TypedOrExported
    <3> DEFINE n == [s.env EXCEPT !["MADO_PHASE"] = t]
    <3>2. n["MADO_PHASE"] = t
      BY <2>1, EnvNames DEF EnvFits
    <3> HIDE DEF n
    <3>3. PhaseFromEnv(n) = Queue(t)
      BY <3>1, <3>2, QueueIs
    <3> QED
      BY <2>4, <3>1, <3>3 DEF n
  <2> QED
    BY <2>5, <2>6 DEF written
<1>3. IInv => PhaseIsOneLane
  BY <1>1, <1>2 DEF PhaseIsOneLane
<1> QED
  BY <1>3, AlwaysFits, PTL
=============================================================================
