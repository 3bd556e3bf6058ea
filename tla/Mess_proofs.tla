---------------------------- MODULE Mess_proofs ----------------------------
(***************************************************************************)
(* Proofs about Mess, for every size of the console and every set of texts *)
(* and terms: the window shows the rows of the text from the scroll offset *)
(* on as far as the line numbers in it fit their columns (Numbered: up to  *)
(* 99999 in the code), highlights places of the term only, and scrolling   *)
(* stops at the two ends.                                                  *)
(*                                                                         *)
(* The three loops are recursive functions of the turn; CountIs, SkipIs    *)
(* and LayIs give each turn from the one before, and what holds after all  *)
(* turns is proved by induction over the turns.  The reference says where  *)
(* rows begin by counting the places before (Column, LinesBefore,          *)
(* RowsBefore), and the invariants of the loops are stated in these        *)
(* counts: as many lines are counted as the text has rows (VisualLines),   *)
(* skipping ends where the row wanted begins (SkippedIs), and after each   *)
(* turn of the last loop the rows completed are rows of the text and the   *)
(* open one is the beginning of the next (LayInv, Partial).  Each turn     *)
(* appends cells to the open row (Turn), for a newline, a tab, a match or  *)
(* a character.                                                            *)
(*                                                                         *)
(* Highlighting is a separate induction (Lit), for any text, since a match *)
(* is written whole and inside one row.  MessInv puts the page together    *)
(* with what it was printed from: matches found in this text (MatchesFit), *)
(* and an offset that leaves the window inside a text that fills it        *)
(* (ScrollInside), which is what makes the unsigned difference of          *)
(* MaxScroll right.                                                        *)
(***************************************************************************)
EXTENDS Mess, FiniteSetTheorems, SequenceTheorems, WellFoundedInduction, TLAPS

LEMMA Induction ==
  ASSUME NEW S \in SUBSET Nat, 0 \in S, \A n \in S : n + 1 \in S
  PROVE  S = Nat
<1>1. SUFFICES ASSUME Nat \ S # {}
               PROVE  FALSE
  OBVIOUS
<1>2. \E x \in Nat \ S : \A y \in Nat \ S : <<y, x>> \notin OpToRel(<, Nat)
  <2>1. Nat \ S \in SUBSET Nat
    OBVIOUS
  <2> QED BY <1>1, <2>1, NatLessThanWellFounded, WFMin, Zenon
<1>3. PICK x \in Nat \ S : \A y \in Nat \ S : ~(y < x)
  BY <1>2 DEF OpToRel
<1>4. x - 1 \in Nat /\ x - 1 < x
  BY <1>3
<1>5. x - 1 \in S
  BY <1>3, <1>4
<1> QED BY <1>3, <1>4, <1>5

-----------------------------------------------------------------------------
(***************************************************************************)
(* The three loops are functions of the turn.                              *)
(***************************************************************************)
Start0 == [lines |-> 0, col |-> 0]

IsCount(t, f, N) ==
  f = [n \in 0 .. N |-> IF n = 0 THEN Start0
                        ELSE CountStep(f[n - 1], t[n])]

LEMMA CountExists ==
  ASSUME NEW t
  PROVE  \A N \in Nat : \E f : IsCount(t, f, N)
<1> DEFINE S == {N \in Nat : \E f : IsCount(t, f, N)}
<1>1. 0 \in S
  <2> DEFINE f == [n \in 0 .. 0 |-> Start0]
  <2>1. IsCount(t, f, 0)
    <3>1. \A n \in 0 .. 0 : n = 0
      OBVIOUS
    <3> QED BY <3>1 DEF IsCount
  <2> QED BY <2>1
<1>2. ASSUME NEW N \in S
      PROVE  N + 1 \in S
  <2>1. PICK f : IsCount(t, f, N)
    OBVIOUS
  <2> DEFINE g == [n \in 0 .. N + 1 |->
                     IF n = N + 1 THEN CountStep(f[N], t[N + 1])
                     ELSE f[n]]
  <2>2. ASSUME NEW n \in 0 .. N + 1
        PROVE  g[n] = IF n = 0 THEN Start0 ELSE CountStep(g[n - 1], t[n])
    <3>1. CASE n = N + 1
      <4>1. n # 0 /\ n - 1 = N /\ g[n - 1] = f[N]
        BY <3>1
      <4> QED BY <3>1, <4>1
    <3>2. CASE n \in 0 .. N
      <4>1. g[n] = f[n]
        BY <3>2
      <4>2. f[n] = IF n = 0 THEN Start0 ELSE CountStep(f[n - 1], t[n])
        BY <2>1, <3>2 DEF IsCount
      <4>3. n # 0 => g[n - 1] = f[n - 1]
        BY <3>2
      <4> QED BY <4>1, <4>2, <4>3
    <3> QED BY <3>1, <3>2
  <2>3. IsCount(t, g, N + 1)
    <3>1. g = [n \in 0 .. N + 1 |-> g[n]]
      OBVIOUS
    <3> HIDE DEF g
    <3> QED BY <2>2, <3>1, Zenon DEF IsCount
  <2> QED BY <2>3
<1>3. S = Nat
  <2> HIDE DEF S
  <2>1. S \in SUBSET Nat
    BY DEF S
  <2> QED BY <1>1, <1>2, <2>1, Induction
<1> QED BY <1>3

LEMMA CountIs ==
  ASSUME NEW t, Len(t) \in Nat
  PROVE  /\ Counted(t)[0] = Start0
         /\ \A n \in 1 .. Len(t) :
              Counted(t)[n] = CountStep(Counted(t)[n - 1], t[n])
<1>1. \E f : IsCount(t, f, Len(t))
  BY CountExists
<1>2. IsCount(t, Counted(t), Len(t))
  BY <1>1, Zenon DEF IsCount, Counted, Start0
<1> QED BY <1>2 DEF IsCount

Skip0 == [i |-> 1, col |-> LINE_NUM_WIDTH, line |-> 0, skipped |-> 0]

SkipOn(s, c, offset) == IF s.skipped >= offset THEN s ELSE SkipStep(s, c)

IsSkip(t, offset, f, N) ==
  f = [n \in 0 .. N |-> IF n = 0 THEN Skip0
                        ELSE SkipOn(f[n - 1], t[n], offset)]

LEMMA SkipExists ==
  ASSUME NEW t, NEW offset
  PROVE  \A N \in Nat : \E f : IsSkip(t, offset, f, N)
<1> DEFINE S == {N \in Nat : \E f : IsSkip(t, offset, f, N)}
<1>1. 0 \in S
  <2> DEFINE f == [n \in 0 .. 0 |-> Skip0]
  <2>1. IsSkip(t, offset, f, 0)
    <3>1. \A n \in 0 .. 0 : n = 0
      OBVIOUS
    <3> QED BY <3>1 DEF IsSkip
  <2> QED BY <2>1
<1>2. ASSUME NEW N \in S
      PROVE  N + 1 \in S
  <2>1. PICK f : IsSkip(t, offset, f, N)
    OBVIOUS
  <2> DEFINE g == [n \in 0 .. N + 1 |->
                     IF n = N + 1 THEN SkipOn(f[N], t[N + 1], offset)
                     ELSE f[n]]
  <2>2. ASSUME NEW n \in 0 .. N + 1
        PROVE  g[n] = IF n = 0 THEN Skip0 ELSE SkipOn(g[n - 1], t[n], offset)
    <3>1. CASE n = N + 1
      <4>1. n # 0 /\ n - 1 = N /\ g[n - 1] = f[N]
        BY <3>1
      <4> QED BY <3>1, <4>1
    <3>2. CASE n \in 0 .. N
      <4>1. g[n] = f[n]
        BY <3>2
      <4>2. f[n] = IF n = 0 THEN Skip0 ELSE SkipOn(f[n - 1], t[n], offset)
        BY <2>1, <3>2 DEF IsSkip
      <4>3. n # 0 => g[n - 1] = f[n - 1]
        BY <3>2
      <4> QED BY <4>1, <4>2, <4>3
    <3> QED BY <3>1, <3>2
  <2>3. IsSkip(t, offset, g, N + 1)
    <3>1. g = [n \in 0 .. N + 1 |-> g[n]]
      OBVIOUS
    <3> HIDE DEF g
    <3> QED BY <2>2, <3>1, Zenon DEF IsSkip
  <2> QED BY <2>3
<1>3. S = Nat
  <2> HIDE DEF S
  <2>1. S \in SUBSET Nat
    BY DEF S
  <2> QED BY <1>1, <1>2, <2>1, Induction
<1> QED BY <1>3

LEMMA SkipIs ==
  ASSUME NEW t, NEW offset, Len(t) \in Nat
  PROVE  /\ Skipped(t, offset)[0] = Skip0
         /\ \A n \in 1 .. Len(t) :
              Skipped(t, offset)[n]
                = SkipOn(Skipped(t, offset)[n - 1], t[n], offset)
<1>1. \E f : IsSkip(t, offset, f, Len(t))
  BY SkipExists
<1>2. IsSkip(t, offset, Skipped(t, offset), Len(t))
  BY <1>1, Zenon DEF IsSkip, Skipped, Skip0, SkipOn
<1> QED BY <1>2 DEF IsSkip

IsLay(t, found, len, from, f, N) ==
  f = [n \in 0 .. N |-> IF n = 0 THEN from
                        ELSE LayStep(t, found, len, f[n - 1])]

LEMMA LayExists ==
  ASSUME NEW t, NEW found, NEW len, NEW from
  PROVE  \A N \in Nat : \E f : IsLay(t, found, len, from, f, N)
<1> DEFINE S == {N \in Nat : \E f : IsLay(t, found, len, from, f, N)}
<1>1. 0 \in S
  <2> DEFINE f == [n \in 0 .. 0 |-> from]
  <2>1. IsLay(t, found, len, from, f, 0)
    <3>1. \A n \in 0 .. 0 : n = 0
      OBVIOUS
    <3> QED BY <3>1 DEF IsLay
  <2> QED BY <2>1
<1>2. ASSUME NEW N \in S
      PROVE  N + 1 \in S
  <2>1. PICK f : IsLay(t, found, len, from, f, N)
    OBVIOUS
  <2> DEFINE g == [n \in 0 .. N + 1 |->
                     IF n = N + 1 THEN LayStep(t, found, len, f[N])
                     ELSE f[n]]
  <2>2. ASSUME NEW n \in 0 .. N + 1
        PROVE  g[n] = IF n = 0 THEN from ELSE LayStep(t, found, len, g[n - 1])
    <3>1. CASE n = N + 1
      <4>1. n # 0 /\ n - 1 = N /\ g[n - 1] = f[N]
        BY <3>1
      <4> QED BY <3>1, <4>1
    <3>2. CASE n \in 0 .. N
      <4>1. g[n] = f[n]
        BY <3>2
      <4>2. f[n] = IF n = 0 THEN from ELSE LayStep(t, found, len, f[n - 1])
        BY <2>1, <3>2 DEF IsLay
      <4>3. n # 0 => g[n - 1] = f[n - 1]
        BY <3>2
      <4> QED BY <4>1, <4>2, <4>3
    <3> QED BY <3>1, <3>2
  <2>3. IsLay(t, found, len, from, g, N + 1)
    <3>1. g = [n \in 0 .. N + 1 |-> g[n]]
      OBVIOUS
    <3> HIDE DEF g
    <3> QED BY <2>2, <3>1, Zenon DEF IsLay
  <2> QED BY <2>3
<1>3. S = Nat
  <2> HIDE DEF S
  <2>1. S \in SUBSET Nat
    BY DEF S
  <2> QED BY <1>1, <1>2, <2>1, Induction
<1> QED BY <1>3

LEMMA LayIs ==
  ASSUME NEW t, NEW found, NEW len, NEW from, Len(t) \in Nat
  PROVE  /\ Laid(t, found, len, from)[0] = from
         /\ \A n \in 1 .. Len(t) :
              Laid(t, found, len, from)[n]
                = LayStep(t, found, len, Laid(t, found, len, from)[n - 1])
<1>1. \E f : IsLay(t, found, len, from, f, Len(t))
  BY LayExists
<1>2. IsLay(t, found, len, from, Laid(t, found, len, from), Len(t))
  BY <1>1, Zenon DEF IsLay, Laid
<1> QED BY <1>2 DEF IsLay

-----------------------------------------------------------------------------
(***************************************************************************)
(* Columns and rows of a text without tabs.                                *)
(***************************************************************************)
IsText(t) == t \in Seq(ToSet(t) \ {NUL})
NoTabs(t) == TAB \notin ToSet(t)

\* The column of a place, the newlines before it, the rows before its own.
Column(t, i) == (i - LineStart(t, i)) % TextWidth
LinesBefore(t, i) == Cardinality({j \in 1 .. i - 1 : t[j] = NL})
RowsBefore(t, i) == Cardinality({j \in 2 .. i : Column(t, j) = 0})

LEMMA TextIs ==
  ASSUME NEW t, IsText(t)
  PROVE  /\ Len(t) \in Nat /\ t \in Seq(ToSet(t))
         /\ \A i \in 1 .. Len(t) : t[i] # NUL /\ t[i] \in ToSet(t)
         /\ NoTabs(t) => \A i \in 1 .. Len(t) : t[i] # TAB
<1>1. Len(t) \in Nat /\ DOMAIN t = 1 .. Len(t)
      /\ \A i \in 1 .. Len(t) : t[i] \in ToSet(t) \ {NUL}
  <2>1. t \in Seq(ToSet(t) \ {NUL})
    BY DEF IsText
  <2> HIDE DEF ToSet
  <2> QED BY <2>1
<1>2. t \in Seq(ToSet(t))
  <2>1. t \in Seq(ToSet(t) \ {NUL})
    BY DEF IsText
  <2> HIDE DEF ToSet
  <2> QED BY <2>1
<1> QED BY <1>1, <1>2 DEF NoTabs

LEMMA WidthIs ==
  /\ TextWidth \in Nat \ {0} /\ TextWidth = available_cols - LINE_NUM_WIDTH
  /\ available_cols \in Nat /\ LINE_NUM_WIDTH \in Nat
BY ScreenAssumption DEF TextWidth

LEMMA Division ==
  ASSUME NEW m \in Nat \ {0}, NEW q \in Int, NEW r \in 0 .. m - 1
  PROVE  (m * q + r) % m = r
<1> DEFINE n == m * q + r
           d == n \div m
           e == n % m
<1>1. n \in Int
  OBVIOUS
<1>2. d \in Int /\ e \in 0 .. m - 1 /\ n = m * d + e
  BY <1>1
<1>3. m * (q - d) = e - r
  BY <1>2
<1>4. CASE q = d
  BY <1>2, <1>3, <1>4
<1>5. CASE q >= d + 1
  <2>1. m * (q - d) >= m
    BY <1>2, <1>5
  <2> QED BY <1>2, <1>3, <2>1
<1>6. CASE d >= q + 1
  <2>1. m * (d - q) >= m
    BY <1>2, <1>6
  <2>2. m * (d - q) = r - e
    BY <1>2
  <2> QED BY <1>2, <2>1, <2>2
<1> QED BY <1>2, <1>4, <1>5, <1>6

LEMMA NextRemainder ==
  ASSUME NEW m \in Nat \ {0}, NEW x \in Nat
  PROVE  /\ x % m \in 0 .. m - 1 /\ 0 % m = 0
         /\ (x + 1) % m = IF (x % m) + 1 = m THEN 0 ELSE (x % m) + 1
<1> DEFINE q == x \div m
           r == x % m
<1>1. q \in Nat /\ r \in 0 .. m - 1 /\ x = m * q + r
  OBVIOUS
<1>2. 0 % m = 0
  BY Division, m * 0 + 0 = 0
<1>3. r + 1 = m => (x + 1) % m = 0
  <2>1. SUFFICES ASSUME r + 1 = m PROVE (x + 1) % m = 0
    OBVIOUS
  <2>2. x + 1 = m * (q + 1) + 0 /\ q + 1 \in Nat /\ 0 \in 0 .. m - 1
    BY <1>1, <2>1
  <2> HIDE DEF q, r
  <2> QED BY <2>2, Division
<1>4. r + 1 # m => (x + 1) % m = r + 1
  <2>1. SUFFICES ASSUME r + 1 # m PROVE (x + 1) % m = r + 1
    OBVIOUS
  <2>2. x + 1 = m * q + (r + 1) /\ r + 1 \in 0 .. m - 1
    BY <1>1, <2>1
  <2> HIDE DEF q, r
  <2>3. (m * q + (r + 1)) % m = r + 1
    BY <1>1, <2>2, Division
  <2> QED BY <2>2, <2>3
<1> QED BY <1>1, <1>2, <1>3, <1>4

LEMMA MaxIs ==
  ASSUME NEW S \in SUBSET Int, NEW x \in S, \A y \in S : x >= y
  PROVE  Max(S) = x
<1>1. \E z \in S : \A y \in S : z >= y
  OBVIOUS
<1>2. Max(S) \in S /\ \A y \in S : Max(S) >= y
  BY <1>1, Zenon DEF Max
<1> DEFINE m == Max(S)
<1>3. m \in S /\ m >= x /\ x >= m
  BY <1>2
<1> HIDE DEF m
<1>4. m = x
  BY <1>3
<1> QED BY <1>4 DEF m

LEMMA LineStartIs ==
  ASSUME NEW t, NEW i \in Nat \ {0}
  PROVE  /\ LineStart(t, 1) = 1 /\ LineStart(t, i) \in 1 .. i
         /\ LineStart(t, i + 1) = IF t[i] = NL THEN i + 1 ELSE LineStart(t, i)
<1> DEFINE P(n) == {1} \cup {j + 1 : j \in {j \in 1 .. n - 1 : t[j] = NL}}
<1>1. \A n \in Nat \ {0} :
        LineStart(t, n) = Max(P(n)) /\ P(n) \in SUBSET (1 .. n)
  BY DEF LineStart
<1>2. LineStart(t, 1) = 1
  <2>1. P(1) = {1}
    OBVIOUS
  <2> HIDE DEF P
  <2> QED BY <1>1, <2>1, MaxIs
<1>3. \A n \in Nat \ {0} : t[n] = NL => LineStart(t, n + 1) = n + 1
  <2>1. SUFFICES ASSUME NEW n \in Nat \ {0}, t[n] = NL
                 PROVE  LineStart(t, n + 1) = n + 1
    OBVIOUS
  <2>2. n + 1 \in P(n + 1)
    BY <2>1
  <2>3. P(n + 1) \in SUBSET (1 .. n + 1)
    BY <1>1, n + 1 \in Nat \ {0}, Zenon
  <2> HIDE DEF P
  <2>4. Max(P(n + 1)) = n + 1
    BY <2>2, <2>3, MaxIs
  <2> QED BY <1>1, <2>4
<1>4. \A n \in Nat \ {0} : t[n] # NL => LineStart(t, n + 1) = LineStart(t, n)
  <2>1. SUFFICES ASSUME NEW n \in Nat \ {0}, t[n] # NL
                 PROVE  LineStart(t, n + 1) = LineStart(t, n)
    OBVIOUS
  <2>2. {j \in 1 .. (n + 1) - 1 : t[j] = NL} = {j \in 1 .. n - 1 : t[j] = NL}
    BY <2>1
  <2>3. P(n + 1) = P(n)
    BY <2>2
  <2> HIDE DEF P
  <2> QED BY <1>1, <2>3
<1>5. \A n \in Nat : LineStart(t, n + 1) \in 1 .. n + 1
  <2> DEFINE S == {n \in Nat : LineStart(t, n + 1) \in 1 .. n + 1}
  <2>1. 0 \in S
    BY <1>2
  <2>2. ASSUME NEW n \in S PROVE n + 1 \in S
    BY <1>3, <1>4
  <2> HIDE DEF S
  <2>3. S \in SUBSET Nat
    BY DEF S
  <2>4. S = Nat
    BY <2>1, <2>2, <2>3, Induction
  <2> QED BY <2>4 DEF S
<1>6. LineStart(t, i) \in 1 .. i
  <2>1. i - 1 \in Nat /\ (i - 1) + 1 = i
    OBVIOUS
  <2> QED BY <1>5, <2>1
<1> QED BY <1>2, <1>3, <1>4, <1>6

LEMMA ColumnIs ==
  ASSUME NEW t, NEW i \in Nat \ {0}
  PROVE  /\ Column(t, 1) = 0 /\ Column(t, i) \in 0 .. TextWidth - 1
         /\ Column(t, i + 1) = IF t[i] = NL \/ Column(t, i) + 1 = TextWidth
                                 THEN 0 ELSE Column(t, i) + 1
<1>1. LineStart(t, i) \in 1 .. i /\ LineStart(t, 1) = 1
  BY LineStartIs
<1>2. i - LineStart(t, i) \in Nat
  BY <1>1
<1>3. Column(t, 1) = 0
  BY <1>1, WidthIs, NextRemainder, 1 - 1 = 0 DEF Column
<1>4. Column(t, i) \in 0 .. TextWidth - 1
  BY <1>2, WidthIs, NextRemainder DEF Column
<1>5. t[i] = NL => Column(t, i + 1) = 0
  <2>1. t[i] = NL => LineStart(t, i + 1) = i + 1
    BY LineStartIs
  <2> QED BY <2>1, WidthIs, NextRemainder, (i + 1) - (i + 1) = 0 DEF Column
<1>6. t[i] # NL => Column(t, i + 1) = ((i - LineStart(t, i)) + 1) % TextWidth
  <2>1. t[i] # NL => LineStart(t, i + 1) = LineStart(t, i)
    BY LineStartIs
  <2>2. (i + 1) - LineStart(t, i) = (i - LineStart(t, i)) + 1
    BY <1>1
  <2> QED BY <2>1, <2>2 DEF Column
<1>7. ((i - LineStart(t, i)) + 1) % TextWidth
        = IF Column(t, i) + 1 = TextWidth THEN 0 ELSE Column(t, i) + 1
  BY <1>2, WidthIs, NextRemainder DEF Column
<1> QED BY <1>3, <1>4, <1>5, <1>6, <1>7

LEMMA LinesBeforeIs ==
  ASSUME NEW t, NEW i \in Nat \ {0}
  PROVE  /\ LinesBefore(t, 1) = 0 /\ LinesBefore(t, i) \in Nat
         /\ LinesBefore(t, i + 1)
              = LinesBefore(t, i) + (IF t[i] = NL THEN 1 ELSE 0)
<1> DEFINE P(n) == {j \in 1 .. n - 1 : t[j] = NL}
<1>1. IsFiniteSet(P(i))
  <2>1. IsFiniteSet(1 .. i - 1)
    BY FS_Interval, i - 1 \in Int
  <2>2. P(i) \subseteq 1 .. i - 1
    OBVIOUS
  <2> QED BY <2>1, <2>2, FS_Subset, Zenon
<1>2. P(i + 1) = IF t[i] = NL THEN P(i) \cup {i} ELSE P(i)
  OBVIOUS
<1>3. i \notin P(i)
  OBVIOUS
<1>4. P(1) = {}
  OBVIOUS
<1> HIDE DEF P
<1>5. Cardinality(P(i)) \in Nat
      /\ Cardinality(P(i + 1))
           = Cardinality(P(i)) + (IF t[i] = NL THEN 1 ELSE 0)
  <2>1. Cardinality(P(i)) \in Nat
    BY <1>1, FS_CardinalityType
  <2>2. CASE t[i] = NL
    <3>1. P(i + 1) = P(i) \cup {i}
      BY <1>2, <2>2
    <3>2. Cardinality(P(i) \cup {i}) = Cardinality(P(i)) + 1
      BY <1>1, <1>3, FS_AddElement
    <3> QED BY <2>1, <2>2, <3>1, <3>2
  <2>3. CASE t[i] # NL
    <3>1. P(i + 1) = P(i)
      BY <1>2, <2>3
    <3> QED BY <2>1, <2>3, <3>1
  <2> QED BY <2>1, <2>2, <2>3
<1>6. Cardinality(P(1)) = 0
  BY <1>4, FS_EmptySet
<1> QED BY <1>5, <1>6 DEF LinesBefore, P

LEMMA RowsBeforeIs ==
  ASSUME NEW t, NEW i \in Nat \ {0}
  PROVE  /\ RowsBefore(t, 1) = 0 /\ RowsBefore(t, i) \in Nat
         /\ RowsBefore(t, i + 1)
              = RowsBefore(t, i) + (IF Column(t, i + 1) = 0 THEN 1 ELSE 0)
<1> DEFINE P(n) == {j \in 2 .. n : Column(t, j) = 0}
<1>1. IsFiniteSet(P(i))
  <2>1. IsFiniteSet(2 .. i)
    BY FS_Interval
  <2>2. P(i) \subseteq 2 .. i
    OBVIOUS
  <2> QED BY <2>1, <2>2, FS_Subset, Zenon
<1>2. P(i + 1) = IF Column(t, i + 1) = 0 THEN P(i) \cup {i + 1} ELSE P(i)
  OBVIOUS
<1>3. i + 1 \notin P(i)
  OBVIOUS
<1>4. P(1) = {}
  OBVIOUS
<1> HIDE DEF P
<1>5. Cardinality(P(i)) \in Nat
      /\ Cardinality(P(i + 1))
           = Cardinality(P(i)) + (IF Column(t, i + 1) = 0 THEN 1 ELSE 0)
  <2>1. Cardinality(P(i)) \in Nat
    BY <1>1, FS_CardinalityType
  <2>2. CASE Column(t, i + 1) = 0
    <3>1. P(i + 1) = P(i) \cup {i + 1}
      BY <1>2, <2>2
    <3>2. Cardinality(P(i) \cup {i + 1}) = Cardinality(P(i)) + 1
      BY <1>1, <1>3, FS_AddElement
    <3> QED BY <2>1, <2>2, <3>1, <3>2
  <2>3. CASE Column(t, i + 1) # 0
    <3>1. P(i + 1) = P(i)
      BY <1>2, <2>3
    <3> QED BY <2>1, <2>3, <3>1
  <2> QED BY <2>1, <2>2, <2>3
<1>6. Cardinality(P(1)) = 0
  BY <1>4, FS_EmptySet
<1> QED BY <1>5, <1>6 DEF RowsBefore, P

LEMMA CountedIs ==
  ASSUME NEW t, IsText(t), NoTabs(t), NEW n \in 0 .. Len(t)
  PROVE  Counted(t)[n] = [lines |-> RowsBefore(t, n + 1),
                          col |-> Column(t, n + 1)]
<1> DEFINE Is(m) == Counted(t)[m] = [lines |-> RowsBefore(t, m + 1),
                                     col |-> Column(t, m + 1)]
           S == {m \in Nat : m <= Len(t) => Is(m)}
<1>1. Len(t) \in Nat
  BY TextIs
<1>2. 0 \in S
  <2>1. Counted(t)[0] = Start0
    BY <1>1, CountIs
  <2>2. RowsBefore(t, 1) = 0 /\ Column(t, 1) = 0
    BY RowsBeforeIs, ColumnIs, 1 \in Nat \ {0}
  <2>3. Is(0)
    BY <2>1, <2>2, 0 + 1 = 1 DEF Start0
  <2> QED BY <2>3
<1>3. ASSUME NEW m \in S PROVE m + 1 \in S
  <2>1. SUFFICES ASSUME m + 1 <= Len(t) PROVE Is(m + 1)
    OBVIOUS
  <2>2. m \in Nat /\ m <= Len(t) /\ Is(m) /\ m + 1 \in 1 .. Len(t)
        /\ (m + 1) - 1 = m
    BY <1>1, <2>1
  <2>3. Counted(t)[m + 1] = CountStep(Counted(t)[m], t[m + 1])
    BY <1>1, <2>2, CountIs
  <2>4. t[m + 1] # TAB
    BY <2>2, TextIs
  <2>5. /\ Column(t, m + 1) \in 0 .. TextWidth - 1
        /\ Column(t, (m + 1) + 1)
             = IF t[m + 1] = NL \/ Column(t, m + 1) + 1 = TextWidth
                 THEN 0 ELSE Column(t, m + 1) + 1
    BY <2>2, ColumnIs, m + 1 \in Nat \ {0}
  <2>6. /\ RowsBefore(t, m + 1) \in Nat
        /\ RowsBefore(t, (m + 1) + 1) = RowsBefore(t, m + 1)
             + (IF Column(t, (m + 1) + 1) = 0 THEN 1 ELSE 0)
    BY <2>2, RowsBeforeIs, m + 1 \in Nat \ {0}
  <2>7. CASE t[m + 1] = NL
    BY <2>2, <2>3, <2>5, <2>6, <2>7, WidthIs DEF CountStep
  <2>8. CASE t[m + 1] # NL
    BY <2>2, <2>3, <2>4, <2>5, <2>6, <2>8, WidthIs DEF CountStep
  <2> QED BY <2>7, <2>8
<1>4. S = Nat
  <2> HIDE DEF S
  <2>1. S \in SUBSET Nat
    BY DEF S
  <2> QED BY <1>2, <1>3, <2>1, Induction
<1>5. n \in Nat /\ n <= Len(t)
  BY <1>1
<1>6. n \in S
  BY <1>4, <1>5, Zenon
<1> QED BY <1>5, <1>6

LEMMA RowStartsAre ==
  ASSUME NEW t
  PROVE  RowStarts(t) = {i \in 1 .. Len(t) : Column(t, i) = 0}
BY DEF RowStarts, Column

\* The rows that begin before a place are the first and those counted by
\* RowsBefore.
LEMMA StartsBefore ==
  ASSUME NEW t, Len(t) \in Nat, NEW i \in 1 .. Len(t) + 1
  PROVE  /\ IsFiniteSet({j \in RowStarts(t) : j < i})
         /\ Cardinality({j \in RowStarts(t) : j < i})
              = IF i = 1 THEN 0 ELSE 1 + RowsBefore(t, i - 1)
<1> DEFINE P == {j \in RowStarts(t) : j < i}
           Q == {j \in 2 .. i - 1 : Column(t, j) = 0}
<1>1. CASE i = 1
  <2>1. P = {}
    BY <1>1, RowStartsAre
  <2> QED BY <1>1, <2>1, FS_EmptySet
<1>2. CASE i > 1
  <2>1. Column(t, 1) = 0
    BY ColumnIs, 1 \in Nat \ {0}
  <2>2. P = Q \cup {1} /\ 1 \notin Q
    BY <1>2, <2>1, RowStartsAre
  <2>3. IsFiniteSet(Q)
    <3>1. IsFiniteSet(2 .. i - 1)
      BY FS_Interval
    <3>2. Q \subseteq 2 .. i - 1
      OBVIOUS
    <3> QED BY <3>1, <3>2, FS_Subset, Zenon
  <2> HIDE DEF P, Q
  <2>4. IsFiniteSet(P) /\ Cardinality(P) = Cardinality(Q) + 1
        /\ Cardinality(Q) \in Nat
    BY <2>2, <2>3, FS_AddElement, FS_CardinalityType
  <2>5. Cardinality(Q) = RowsBefore(t, i - 1)
    BY DEF Q, RowsBefore
  <2> QED BY <1>2, <2>4, <2>5 DEF P
<1> QED BY <1>1, <1>2

\* As many as there are rows.
LEMMA RowsAre ==
  ASSUME NEW t, Len(t) \in Nat
  PROVE  /\ IsFiniteSet(RowStarts(t)) /\ Cardinality(RowStarts(t)) \in Nat
         /\ Cardinality(RowStarts(t))
              = IF Len(t) = 0 THEN 0 ELSE 1 + RowsBefore(t, Len(t))
         /\ Len(TextRows(t)) = Cardinality(RowStarts(t))
<1> DEFINE P == {j \in RowStarts(t) : j < Len(t) + 1}
<1>1. RowStarts(t) = P
  BY RowStartsAre
<1>2. /\ IsFiniteSet(P)
      /\ Cardinality(P) = IF Len(t) = 0 THEN 0 ELSE 1 + RowsBefore(t, Len(t))
  BY StartsBefore, Len(t) + 1 \in 1 .. Len(t) + 1, (Len(t) + 1) - 1 = Len(t)
<1> HIDE DEF P
<1>3. Cardinality(RowStarts(t)) \in Nat
  BY <1>1, <1>2, FS_CardinalityType
<1>4. Len(TextRows(t)) = Cardinality(RowStarts(t))
  BY <1>3 DEF TextRows
<1> QED BY <1>1, <1>2, <1>3, <1>4

LEMMA VisualLines ==
  ASSUME NEW t, IsText(t), NoTabs(t)
  PROVE  CountVisualLines(t) = Len(TextRows(t))
<1>1. Len(t) \in Nat
  BY TextIs
<1>2. Counted(t)[Len(t)] = [lines |-> RowsBefore(t, Len(t) + 1),
                            col |-> Column(t, Len(t) + 1)]
  BY <1>1, CountedIs, Len(t) \in 0 .. Len(t)
<1>3. Column(t, Len(t) + 1) \in 0 .. TextWidth - 1
  BY <1>1, ColumnIs, Len(t) + 1 \in Nat \ {0}
<1>4. CASE Len(t) = 0
  <2>1. Column(t, 1) = 0 /\ RowsBefore(t, 1) = 0 /\ Len(t) + 1 = 1
    BY <1>4, ColumnIs, RowsBeforeIs, 1 \in Nat \ {0}
  <2> QED BY <1>2, <1>4, <2>1, RowsAre DEF CountVisualLines
<1>5. CASE Len(t) # 0
  <2>1. /\ RowsBefore(t, Len(t)) \in Nat
        /\ RowsBefore(t, Len(t) + 1) = RowsBefore(t, Len(t))
             + (IF Column(t, Len(t) + 1) = 0 THEN 1 ELSE 0)
    BY <1>1, <1>5, RowsBeforeIs, Len(t) \in Nat \ {0}
  <2> QED BY <1>1, <1>2, <1>3, <1>5, <2>1, WidthIs, RowsAre
             DEF CountVisualLines
<1> QED BY <1>4, <1>5

-----------------------------------------------------------------------------
(***************************************************************************)
(* Skipping.                                                               *)
(***************************************************************************)
SkipInv(t, offset, n, s) ==
  /\ s.i \in 1 .. n + 1
  /\ s.col = LINE_NUM_WIDTH + Column(t, s.i)
  /\ s.line = LinesBefore(t, s.i)
  /\ s.skipped = RowsBefore(t, s.i) /\ s.skipped <= offset
  /\ s.i = n + 1 \/ s.skipped = offset
  /\ s.i > 1 => RowsBefore(t, s.i - 1) < offset

LEMMA SkipOnIs ==
  ASSUME NEW t, IsText(t), NoTabs(t), NEW offset \in Nat,
         NEW n \in 1 .. Len(t), NEW s, SkipInv(t, offset, n - 1, s)
  PROVE  SkipInv(t, offset, n, SkipOn(s, t[n], offset))
<1>1. Len(t) \in Nat /\ s.i \in 1 .. n /\ s.i \in Nat \ {0}
  BY TextIs DEF SkipInv
<1>2. RowsBefore(t, s.i) \in Nat
  BY <1>1, RowsBeforeIs
<1>3. CASE s.skipped >= offset
  <2>1. s.skipped = offset /\ SkipOn(s, t[n], offset) = s
    BY <1>2, <1>3 DEF SkipInv, SkipOn
  <2>2. SkipInv(t, offset, n, s)
    BY <1>1, <2>1 DEF SkipInv
  <2> QED BY <2>1, <2>2
<1>4. CASE ~(s.skipped >= offset)
  <2>1. s.i = n /\ s.skipped < offset
    BY <1>2, <1>4 DEF SkipInv
  <2>2. t[n] # TAB
    BY TextIs
  <2>3. /\ Column(t, n) \in 0 .. TextWidth - 1
        /\ Column(t, n + 1) = IF t[n] = NL \/ Column(t, n) + 1 = TextWidth
                                THEN 0 ELSE Column(t, n) + 1
    BY <1>1, <2>1, ColumnIs
  <2>4. RowsBefore(t, n + 1)
          = RowsBefore(t, n) + (IF Column(t, n + 1) = 0 THEN 1 ELSE 0)
    BY <1>1, <2>1, RowsBeforeIs
  <2>5. LinesBefore(t, n) \in Nat /\ LinesBefore(t, n + 1)
          = LinesBefore(t, n) + (IF t[n] = NL THEN 1 ELSE 0)
    BY <1>1, <2>1, LinesBeforeIs
  <2>6. /\ s.col = LINE_NUM_WIDTH + Column(t, n)
        /\ s.line = LinesBefore(t, n)
        /\ s.skipped = RowsBefore(t, n)
    BY <2>1 DEF SkipInv
  <2>7. SkipOn(s, t[n], offset)
          = [i |-> n + 1, col |-> LINE_NUM_WIDTH + Column(t, n + 1),
             line |-> LinesBefore(t, n + 1),
             skipped |-> RowsBefore(t, n + 1)]
    <3>1. CASE t[n] = NL
      BY <1>2, <1>4, <2>1, <2>3, <2>4, <2>5, <2>6, <3>1, WidthIs
         DEF SkipOn, SkipStep
    <3>2. CASE t[n] # NL /\ Column(t, n) + 1 = TextWidth
      <4>1. s.col + 1 >= available_cols /\ Column(t, n + 1) = 0
        BY <2>3, <2>6, <3>2, WidthIs
      <4> QED BY <1>2, <1>4, <2>1, <2>2, <2>4, <2>5, <2>6, <3>2, <4>1, WidthIs
              DEF SkipOn, SkipStep
    <3>3. CASE t[n] # NL /\ Column(t, n) + 1 # TextWidth
      <4>1. ~(s.col + 1 >= available_cols)
            /\ Column(t, n + 1) = Column(t, n) + 1 /\ Column(t, n + 1) # 0
        BY <2>3, <2>6, <3>3, WidthIs
      <4>2. LINE_NUM_WIDTH + (Column(t, n) + 1) = s.col + 1
        BY <2>3, <2>6, WidthIs
      <4> QED BY <1>2, <1>4, <2>1, <2>2, <2>4, <2>5, <2>6, <3>3, <4>1, <4>2
              DEF SkipOn, SkipStep
    <3> QED BY <3>1, <3>2, <3>3
  <2> DEFINE r == SkipOn(s, t[n], offset)
  <2>8. /\ r.i = n + 1 /\ r.col = LINE_NUM_WIDTH + Column(t, n + 1)
        /\ r.line = LinesBefore(t, n + 1) /\ r.skipped = RowsBefore(t, n + 1)
    BY <2>7
  <2> HIDE DEF r
  <2>9. SkipInv(t, offset, n, r)
    BY <1>1, <1>2, <2>1, <2>4, <2>6, <2>8 DEF SkipInv
  <2> QED BY <2>9 DEF r
<1> QED BY <1>3, <1>4

\* What is skipped ends where the row to be shown first begins, if there is
\* one.
LEMMA SkippedIs ==
  ASSUME NEW t, IsText(t), NoTabs(t), NEW offset \in Nat,
         NEW s, s = Skipped(t, offset)[Len(t)]
  PROVE  /\ s.i \in 1 .. Len(t) + 1 /\ s.line = LinesBefore(t, s.i)
         /\ s.i <= Len(t) => Column(t, s.i) = 0 /\ RowsBefore(t, s.i) = offset
         /\ s.i = Len(t) + 1 => Cardinality(RowStarts(t)) <= offset
<1> DEFINE S == {n \in Nat : n <= Len(t) =>
                               SkipInv(t, offset, n, Skipped(t, offset)[n])}
<1>1. Len(t) \in Nat
  BY TextIs
<1>2. 0 \in S
  <2>1. Skipped(t, offset)[0] = Skip0
    BY <1>1, SkipIs
  <2>2. Column(t, 1) = 0 /\ RowsBefore(t, 1) = 0 /\ LinesBefore(t, 1) = 0
    BY ColumnIs, RowsBeforeIs, LinesBeforeIs, 1 \in Nat \ {0}
  <2> QED BY <2>1, <2>2, WidthIs DEF SkipInv, Skip0
<1>3. ASSUME NEW n \in S PROVE n + 1 \in S
  <2>1. SUFFICES ASSUME n + 1 <= Len(t)
                 PROVE  SkipInv(t, offset, n + 1, Skipped(t, offset)[n + 1])
    OBVIOUS
  <2>2. /\ n + 1 \in 1 .. Len(t) /\ (n + 1) - 1 = n
        /\ SkipInv(t, offset, n, Skipped(t, offset)[n])
    BY <1>1, <2>1
  <2>3. Skipped(t, offset)[n + 1]
          = SkipOn(Skipped(t, offset)[n], t[n + 1], offset)
    BY <1>1, <2>2, SkipIs
  <2> QED BY <2>2, <2>3, SkipOnIs
<1>4. S = Nat
  <2> HIDE DEF S
  <2>1. S \in SUBSET Nat
    BY DEF S
  <2> QED BY <1>2, <1>3, <2>1, Induction
<1>5. SkipInv(t, offset, Len(t), s)
  BY <1>1, <1>4
<1>6. /\ s.i \in 1 .. Len(t) + 1 /\ s.line = LinesBefore(t, s.i)
      /\ RowsBefore(t, s.i) <= offset
      /\ s.i = Len(t) + 1 \/ RowsBefore(t, s.i) = offset
      /\ s.i > 1 => RowsBefore(t, s.i - 1) < offset
  BY <1>5 DEF SkipInv
<1>7. s.i <= Len(t) => Column(t, s.i) = 0 /\ RowsBefore(t, s.i) = offset
  <2> Column(t, 1) = 0
    BY ColumnIs, 1 \in Nat \ {0}
  <2> SUFFICES ASSUME s.i <= Len(t) PROVE Column(t, s.i) = 0
    BY <1>1, <1>6
  <2>1. SUFFICES ASSUME s.i # 1 PROVE Column(t, s.i) = 0
    OBVIOUS
  <2>2. s.i - 1 \in Nat \ {0} /\ (s.i - 1) + 1 = s.i
    BY <1>1, <1>6, <2>1
  <2>3. RowsBefore(t, s.i) = RowsBefore(t, s.i - 1)
          + (IF Column(t, s.i) = 0 THEN 1 ELSE 0)
        /\ RowsBefore(t, s.i - 1) \in Nat
    BY <2>2, RowsBeforeIs
  <2> QED BY <1>1, <1>6, <2>1, <2>3
<1>8. s.i = Len(t) + 1 => Cardinality(RowStarts(t)) <= offset
  <2>1. SUFFICES ASSUME s.i = Len(t) + 1
                 PROVE  Cardinality(RowStarts(t)) <= offset
    OBVIOUS
  <2>2. CASE Len(t) = 0
    BY <2>2, RowsAre
  <2>3. CASE Len(t) # 0
    <3>1. RowsBefore(t, Len(t)) \in Nat
      BY <1>1, <2>3, RowsBeforeIs, Len(t) \in Nat \ {0}
    <3> QED BY <1>1, <1>6, <2>1, <2>3, <3>1, RowsAre
  <2> QED BY <2>2, <2>3
<1> QED BY <1>6, <1>7, <1>8

-----------------------------------------------------------------------------
(***************************************************************************)
(* The rows of the reference.                                              *)
(***************************************************************************)
LEMMA StartsRanked ==
  ASSUME NEW t, Len(t) \in Nat, NEW i \in RowStarts(t)
  PROVE  /\ Cardinality({j \in RowStarts(t) : j < i}) = RowsBefore(t, i)
         /\ RowsBefore(t, i) + 1 \in 1 .. Cardinality(RowStarts(t))
         /\ \A k \in RowStarts(t) : i < k =>
              RowsBefore(t, i) < Cardinality({j \in RowStarts(t) : j < k})
<1> DEFINE P(k) == {j \in RowStarts(t) : j < k}
<1>1. i \in 1 .. Len(t) /\ Column(t, i) = 0
  BY RowStartsAre
<1>2. Cardinality(P(i)) = RowsBefore(t, i) /\ IsFiniteSet(P(i))
  <2>1. IsFiniteSet(P(i)) /\ Cardinality(P(i))
          = IF i = 1 THEN 0 ELSE 1 + RowsBefore(t, i - 1)
    BY <1>1, StartsBefore, i \in 1 .. Len(t) + 1
  <2>2. CASE i = 1
    BY <2>1, <2>2, RowsBeforeIs, 1 \in Nat \ {0}
  <2>3. CASE i # 1
    <3>1. i - 1 \in Nat \ {0} /\ (i - 1) + 1 = i
      BY <1>1, <2>3
    <3>2. RowsBefore(t, i) = RowsBefore(t, i - 1) + 1
          /\ RowsBefore(t, i - 1) \in Nat
      BY <1>1, <3>1, RowsBeforeIs
    <3> QED BY <2>1, <2>3, <3>2
  <2> QED BY <2>2, <2>3
<1>3. RowsBefore(t, i) \in Nat
  BY <1>1, RowsBeforeIs
<1>4. \A T : IsFiniteSet(T) /\ P(i) \cup {i} \subseteq T =>
               RowsBefore(t, i) + 1 <= Cardinality(T)
  <2>1. i \notin P(i)
    BY <1>1
  <2> HIDE DEF P
  <2>2. Cardinality(P(i) \cup {i}) = RowsBefore(t, i) + 1
    BY <1>2, <2>1, FS_AddElement
  <2> QED BY <2>2, FS_Subset
<1>5. RowsBefore(t, i) + 1 <= Cardinality(RowStarts(t))
  BY <1>4, RowsAre
<1>6. \A k \in RowStarts(t) : i < k => RowsBefore(t, i) < Cardinality(P(k))
  <2>1. SUFFICES ASSUME NEW k \in RowStarts(t), i < k
                 PROVE  RowsBefore(t, i) < Cardinality(P(k))
    OBVIOUS
  <2>2. k \in 1 .. Len(t) + 1
    BY RowStartsAre
  <2>3. IsFiniteSet(P(k))
    BY <2>2, StartsBefore
  <2>4. P(i) \cup {i} \subseteq P(k)
    BY <1>1, <2>1, <2>2, RowStartsAre
  <2>5. RowsBefore(t, i) + 1 <= Cardinality(P(k)) /\ Cardinality(P(k)) \in Nat
    BY <1>4, <2>3, <2>4, FS_CardinalityType
  <2> QED BY <1>3, <2>5
<1> QED BY <1>2, <1>3, <1>5, <1>6, RowsAre

LEMMA RowStartIs ==
  ASSUME NEW t, Len(t) \in Nat, NEW i \in RowStarts(t)
  PROVE  RowStart(t, RowsBefore(t, i) + 1) = i
<1> DEFINE Is(k) == Cardinality({j \in RowStarts(t) : j < k})
                      = (RowsBefore(t, i) + 1) - 1
<1>1. RowsBefore(t, i) \in Nat /\ i \in Nat
  BY RowsBeforeIs, RowStartsAre
<1>2. Is(i)
  BY <1>1, StartsRanked
<1>3. \A k \in RowStarts(t) : Is(k) => k = i
  <2>1. SUFFICES ASSUME NEW k \in RowStarts(t), Is(k), k # i
                 PROVE  FALSE
    OBVIOUS
  <2>2. k \in Nat
    BY RowStartsAre
  <2>3. Cardinality({j \in RowStarts(t) : j < k}) = RowsBefore(t, i)
    BY <1>1, <2>1
  <2>4. CASE i < k
    <3>1. RowsBefore(t, i) < Cardinality({j \in RowStarts(t) : j < k})
      BY <2>4, StartsRanked
    <3> QED BY <1>1, <2>3, <3>1
  <2>5. CASE k < i
    <3>1. RowsBefore(t, k) < Cardinality({j \in RowStarts(t) : j < i})
      BY <2>5, StartsRanked
    <3>2. RowsBefore(t, k) = RowsBefore(t, i)
      BY <2>3, StartsRanked
    <3>3. Cardinality({j \in RowStarts(t) : j < i}) = RowsBefore(t, i)
      BY StartsRanked
    <3> QED BY <1>1, <3>1, <3>2, <3>3
  <2> QED BY <1>1, <2>1, <2>2, <2>4, <2>5
<1> HIDE DEF Is
<1>4. (CHOOSE k \in RowStarts(t) : Is(k)) = i
  BY <1>2, <1>3
<1> QED BY <1>4 DEF RowStart, Is

\* A row ends at the end of the text, at a newline or where the next begins.
LEMMA RowIs ==
  ASSUME NEW t, Len(t) \in Nat, NEW i \in RowStarts(t),
         NEW k \in i .. Len(t) + 1,
         \A j \in i + 1 .. k - 1 : j \notin RowStarts(t),
         \A j \in i .. k - 1 : t[j] # NL,
         k = Len(t) + 1 \/ t[k] = NL \/ (k > i /\ k \in RowStarts(t))
  PROVE  /\ RowsBefore(t, i) + 1 \in 1 .. Len(TextRows(t))
         /\ TextRows(t)[RowsBefore(t, i) + 1]
              = [num |-> 1 + LinesBefore(t, i), chars |-> SubSeq(t, i, k - 1)]
<1>1. i \in 1 .. Len(t)
  BY RowStartsAre
<1>2. RowPlaces(t, i) = i .. k - 1
  <2>1. i .. k - 1 \subseteq RowPlaces(t, i)
    BY <1>1 DEF RowPlaces
  <2>2. ASSUME NEW p \in RowPlaces(t, i), p >= k
        PROVE  FALSE
    <3>1. /\ p \in i .. Len(t) /\ t[p] # NL
          /\ \A j \in i + 1 .. p : j \notin RowStarts(t)
      BY DEF RowPlaces
    <3>2. CASE t[k] = NL
      <4>1. k + 1 \in i + 1 .. p
        BY <1>1, <2>2, <3>1, <3>2
      <4>2. k \in Nat \ {0}
        BY <1>1
      <4>3. Column(t, k + 1) = 0
        BY <3>2, <4>2, ColumnIs
      <4>4. k + 1 \in 1 .. Len(t)
        BY <1>1, <3>1, <4>1
      <4>5. k + 1 \in RowStarts(t)
        BY <4>3, <4>4, RowStartsAre
      <4> QED BY <3>1, <4>1, <4>5
    <3>3. CASE k > i /\ k \in RowStarts(t)
      BY <1>1, <2>2, <3>1, <3>3
    <3> QED BY <1>1, <2>2, <3>1, <3>2, <3>3
  <2>3. RowPlaces(t, i) \subseteq i .. Len(t)
    BY DEF RowPlaces
  <2>4. RowPlaces(t, i) \subseteq i .. k - 1
    <3>1. SUFFICES ASSUME NEW p \in RowPlaces(t, i) PROVE p \in i .. k - 1
      OBVIOUS
    <3>2. p \in i .. Len(t) /\ ~(p >= k)
      BY <2>2, <2>3
    <3> QED BY <1>1, <3>2
  <2> QED BY <2>1, <2>4
<1>3. Cardinality(RowPlaces(t, i)) = k - i
  <2>1. Cardinality(i .. k - 1) = k - i
    BY <1>1, FS_Interval, i \in Int, k - 1 \in Int
  <2> QED BY <1>2, <2>1
<1> DEFINE r == RowsBefore(t, i) + 1
<1>4. r \in 1 .. Cardinality(RowStarts(t)) /\ RowStart(t, r) = i
  BY StartsRanked, RowStartIs
<1>5. i + Cardinality(RowPlaces(t, i)) - 1 = k - 1
  BY <1>1, <1>3
<1> HIDE DEF r
<1>6. TextRows(t)[r]
        = [num |-> 1 + LinesBefore(t, i), chars |-> SubSeq(t, i, k - 1)]
  BY <1>4, <1>5 DEF TextRows, LinesBefore
<1> QED BY <1>4, <1>6, RowsAre DEF r

\* Along a line the column grows by one, up to the width.
LEMMA ColumnRun ==
  ASSUME NEW t, NEW i \in Nat \ {0}, NEW n \in Nat,
         Column(t, i) + n < TextWidth, \A j \in i .. i + n - 1 : t[j] # NL
  PROVE  \A d \in 0 .. n : /\ Column(t, i + d) = Column(t, i) + d
                           /\ RowsBefore(t, i + d) = RowsBefore(t, i)
                           /\ LinesBefore(t, i + d) = LinesBefore(t, i)
<1> DEFINE Is(d) == /\ Column(t, i + d) = Column(t, i) + d
                    /\ RowsBefore(t, i + d) = RowsBefore(t, i)
                    /\ LinesBefore(t, i + d) = LinesBefore(t, i)
           S == {d \in Nat : d <= n => Is(d)}
<1>1. /\ Column(t, i) \in Nat /\ RowsBefore(t, i) \in Nat
      /\ LinesBefore(t, i) \in Nat /\ TextWidth \in Nat \ {0}
  BY ColumnIs, RowsBeforeIs, LinesBeforeIs, WidthIs
<1>2. 0 \in S
  <2>1. i + 0 = i /\ Column(t, i) + 0 = Column(t, i)
    BY <1>1
  <2> QED BY <2>1
<1>3. ASSUME NEW d \in S PROVE d + 1 \in S
  <2>1. SUFFICES ASSUME d + 1 <= n PROVE Is(d + 1)
    OBVIOUS
  <2>2. Is(d) /\ i + d \in Nat \ {0} /\ i + (d + 1) = (i + d) + 1
        /\ i + d \in i .. i + n - 1
    BY <2>1
  <2>3. t[i + d] # NL
    BY <2>2
  <2>4. Column(t, (i + d) + 1) = Column(t, i) + (d + 1)
        /\ Column(t, (i + d) + 1) # 0
    BY <1>1, <2>1, <2>2, <2>3, ColumnIs
  <2>5. RowsBefore(t, (i + d) + 1) = RowsBefore(t, i)
    BY <1>1, <2>2, <2>4, RowsBeforeIs
  <2>6. LinesBefore(t, (i + d) + 1) = LinesBefore(t, i)
    BY <1>1, <2>2, <2>3, LinesBeforeIs
  <2> QED BY <2>2, <2>4, <2>5, <2>6
<1>4. S = Nat
  <2> HIDE DEF S
  <2>1. S \in SUBSET Nat
    BY DEF S
  <2> QED BY <1>2, <1>3, <2>1, Induction
<1> QED BY <1>4

-----------------------------------------------------------------------------
(***************************************************************************)
(* A turn of the loop that prints.                                         *)
(***************************************************************************)
CellSet(t) == [char : ToSet(t) \cup {NUL, " "}, hi : BOOLEAN]
RowSet(t) == [num : Nat, cells : Seq(CellSet(t))]
LayState(t) ==
  [i : Nat \ {0}, x : Nat, line : Nat, rows : Seq(RowSet(t)), new : BOOLEAN]

\* The rows that are complete, and the one that is being written or is to be
\* started; the rows above it once it is started.
Done(s) == IF s.new THEN Len(s.rows) ELSE Len(s.rows) - 1
OpenRow(s) == IF s.new THEN [num |-> RowNumber(s.line + 1), cells |-> <<>>]
                       ELSE s.rows[Len(s.rows)]
Above(s) == IF s.new /\ ~NumberFits(s.line + 1) THEN Blanked(s.rows)
                                                ELSE s.rows

Fits(row) == LINE_NUM_WIDTH + Len(row.cells) <= available_cols

LayType(t, s) ==
  /\ s \in LayState(t)
  /\ Len(s.rows) <= Window
  /\ \A r \in 1 .. Len(s.rows) : Fits(s.rows[r])
  /\ ~s.new => /\ Len(s.rows) > 0
               /\ s.x = LINE_NUM_WIDTH + Len(s.rows[Len(s.rows)].cells)

\* A turn from s to s1 puts these cells into the open row, for n characters.
Turn(t, s, s1, n, cells) ==
  /\ s1 \in LayState(t) /\ s1.i = s.i + n
  /\ Len(s1.rows) = Done(s) + 1
  /\ \A r \in 1 .. Done(s) : s1.rows[r] = Above(s)[r]
  /\ s1.rows[Done(s) + 1] = [num |-> OpenRow(s).num,
                             cells |-> OpenRow(s).cells \o cells]
  /\ s1.x = LINE_NUM_WIDTH + Len(OpenRow(s).cells) + Len(cells)
  /\ LINE_NUM_WIDTH + Len(OpenRow(s).cells) + Len(cells) <= available_cols

Stopped(t, s) == At(t, s.i) = NUL \/ Done(s) >= Window

\* Which cells: those of a newline, a tab, a match and a character.
Newline(t, s, s1) ==
  /\ At(t, s.i) = NL /\ Turn(t, s, s1, 1, <<>>)
  /\ s1.new /\ s1.line = s.line + 1

Tab(t, s, s1) ==
  /\ At(t, s.i) = TAB
  /\ \E cells \in Seq(CellSet(t)) :
       /\ Turn(t, s, s1, 1, cells)
       /\ \A k \in 1 .. Len(cells) : ~cells[k].hi
  /\ ~s1.new /\ s1.line = s.line

Match(t, found, len, s, s1) ==
  /\ At(t, s.i) \notin {NL, TAB} /\ s.i \in found
  /\ \E cells \in Seq(CellSet(t)) :
       /\ Turn(t, s, s1, len, cells) /\ Len(cells) = len
       /\ \A k \in 1 .. len : cells[k] = Cell(At(t, s.i + k - 1), TRUE)
       /\ LINE_NUM_WIDTH + Len(OpenRow(s).cells) + len < available_cols
  /\ ~s1.new /\ s1.line = s.line

Character(t, s, s1) ==
  /\ At(t, s.i) \notin {NL, TAB}
  /\ \E cells \in {<<>>, <<Cell(At(t, s.i), FALSE)>>} :
       /\ Turn(t, s, s1, 1, cells)
       /\ cells = <<>> => LINE_NUM_WIDTH + Len(OpenRow(s).cells)
                            = available_cols
  /\ s1.new <=> s1.x >= available_cols
  /\ s1.line = s.line

LEMMA AtIs ==
  ASSUME NEW t, IsText(t), NEW i \in Nat \ {0}
  PROVE  /\ At(t, i) \in ToSet(t) \cup {NUL}
         /\ At(t, i) = NUL <=> i > Len(t)
         /\ At(t, i) # NUL => i \in 1 .. Len(t) /\ At(t, i) = t[i]
BY TextIs DEF At

\* Rows above are as they were or blank.
LEMMA AboveIs ==
  ASSUME NEW t, NEW s \in LayState(t)
  PROVE  /\ Above(s) \in Seq(RowSet(t)) /\ Len(Above(s)) = Len(s.rows)
         /\ \A r \in 1 .. Len(s.rows) :
              Above(s)[r] \in {s.rows[r], Row(0, <<>>)}
<1>1. s.rows \in Seq(RowSet(t)) /\ Row(0, <<>>) \in RowSet(t)
  BY DEF LayState, RowSet, Row
<1>2. PICK n \in Nat : n = Len(s.rows)
  BY <1>1
<1>3. CASE s.new /\ ~NumberFits(s.line + 1)
  <2>1. Above(s) = [r \in 1 .. n |-> Row(0, <<>>)]
    BY <1>2, <1>3 DEF Above, Blanked
  <2> DEFINE f == [r \in 1 .. n |-> Row(0, <<>>)]
  <2>2. \A x \in RowSet(t) : [r \in 1 .. n |-> x] \in Seq(RowSet(t))
                              /\ Len([r \in 1 .. n |-> x]) = n
    OBVIOUS
  <2>3. f \in Seq(RowSet(t)) /\ Len(f) = n
        /\ \A r \in 1 .. n : f[r] = Row(0, <<>>)
    BY <1>1, <2>2, Zenon
  <2> QED BY <1>2, <2>1, <2>3
<1>4. CASE ~(s.new /\ ~NumberFits(s.line + 1))
  BY <1>1, <1>4 DEF Above
<1> QED BY <1>3, <1>4

LEMMA StartRowIs ==
  ASSUME NEW t, NEW s, LayType(t, s)
  PROVE  LET s1 == StartRow(s)
         IN  /\ s1 \in LayState(t) /\ ~s1.new /\ Done(s) \in Nat
             /\ s1.i = s.i /\ s1.line = s.line
             /\ s1.x = LINE_NUM_WIDTH + Len(OpenRow(s).cells)
             /\ s1.x <= available_cols
             /\ Len(s1.rows) = Done(s) + 1
             /\ \A r \in 1 .. Done(s) : s1.rows[r] = Above(s)[r]
             /\ s1.rows[Done(s) + 1] = OpenRow(s) /\ OpenRow(s) \in RowSet(t)
<1>1. s \in LayState(t) /\ Len(s.rows) \in Nat /\ LINE_NUM_WIDTH \in Nat
      /\ available_cols \in Nat /\ LINE_NUM_WIDTH < available_cols
  BY WidthIs, ScreenAssumption DEF LayType, LayState
<1>2. CASE s.new
  <2> DEFINE row == [num |-> RowNumber(s.line + 1), cells |-> <<>>]
             above == Above(s)
  <2>1. row \in RowSet(t) /\ Len(row.cells) = 0
    <3>1. RowNumber(s.line + 1) \in Nat
      BY <1>1 DEF LayState, RowNumber
    <3> QED BY <3>1 DEF RowSet
  <2>2. StartRow(s) = [i |-> s.i, x |-> LINE_NUM_WIDTH, line |-> s.line,
                       rows |-> Append(above, row), new |-> FALSE]
    <3>1. above = IF NumberFits(s.line + 1) THEN s.rows ELSE Blanked(s.rows)
      BY <1>2 DEF Above
    <3>2. row = Row(RowNumber(s.line + 1), <<>>)
      BY DEF Row
    <3> HIDE DEF above, row
    <3>3. StartRow(s) = [s EXCEPT !.x = LINE_NUM_WIDTH, !.new = FALSE,
                                  !.rows = Append(above, row)]
      BY <1>2, <3>1, <3>2, Zenon DEF StartRow
    <3> QED BY <1>1, <3>3 DEF LayState
  <2>3. OpenRow(s) = row /\ Done(s) = Len(s.rows)
    BY <1>2 DEF OpenRow, Done
  <2> HIDE DEF row
  <2>4. above \in Seq(RowSet(t)) /\ Len(above) = Len(s.rows)
    BY <1>1, AboveIs
  <2>6. above = Above(s)
    OBVIOUS
  <2> HIDE DEF above
  <2>5. /\ Append(above, row) \in Seq(RowSet(t))
        /\ Len(Append(above, row)) = Len(s.rows) + 1
        /\ \A r \in 1 .. Len(s.rows) : Append(above, row)[r] = above[r]
        /\ Append(above, row)[Len(s.rows) + 1] = row
    BY <2>1, <2>4
  <2>7. PICK rows : rows = Append(above, row)
    OBVIOUS
  <2>8. /\ StartRow(s) \in LayState(t) /\ ~StartRow(s).new
        /\ StartRow(s).i = s.i /\ StartRow(s).line = s.line
        /\ StartRow(s).x = LINE_NUM_WIDTH /\ StartRow(s).rows = rows
    BY <1>1, <2>2, <2>5, <2>7 DEF LayState
  <2>9. LINE_NUM_WIDTH = LINE_NUM_WIDTH + Len(OpenRow(s).cells)
    BY <1>1, <2>1, <2>3
  <2>10. /\ Len(rows) = Done(s) + 1 /\ rows[Done(s) + 1] = OpenRow(s)
         /\ \A r \in 1 .. Done(s) : rows[r] = Above(s)[r]
    BY <2>3, <2>5, <2>6, <2>7
  <2> QED BY <1>1, <2>1, <2>3, <2>8, <2>9, <2>10
<1>3. CASE ~s.new
  <2>1. StartRow(s) = s /\ OpenRow(s) = s.rows[Len(s.rows)]
        /\ Done(s) = Len(s.rows) - 1 /\ Above(s) = s.rows
    BY <1>3 DEF StartRow, OpenRow, Done, Above
  <2>2. /\ Len(s.rows) > 0
        /\ s.x = LINE_NUM_WIDTH + Len(s.rows[Len(s.rows)].cells)
        /\ Fits(s.rows[Len(s.rows)])
    BY <1>1, <1>3 DEF LayType
  <2>3. s.rows[Len(s.rows)] \in RowSet(t)
    BY <1>1, <2>2 DEF LayState
  <2> QED BY <1>1, <1>3, <2>1, <2>2, <2>3 DEF Fits
<1> QED BY <1>2, <1>3 DEF LayType, LayState

LEMMA WriteIs ==
  ASSUME NEW t, NEW s \in LayState(t), Len(s.rows) > 0, NEW n \in Nat,
         NEW cells \in Seq(CellSet(t))
  PROVE  LET s1 == Write(s, n, cells)
             last == s.rows[Len(s.rows)]
         IN  /\ s1 \in LayState(t) /\ s1.i = s.i + n
             /\ s1.line = s.line /\ s1.new = s.new
             /\ s1.x = s.x + Len(cells) /\ Len(s1.rows) = Len(s.rows)
             /\ \A r \in 1 .. Len(s.rows) - 1 : s1.rows[r] = s.rows[r]
             /\ s1.rows[Len(s.rows)]
                  = [num |-> last.num, cells |-> last.cells \o cells]
<1> DEFINE last == s.rows[Len(s.rows)]
           row == [num |-> last.num, cells |-> last.cells \o cells]
           rows == [s.rows EXCEPT ![Len(s.rows)] = row]
<1>1. s.rows \in Seq(RowSet(t)) /\ Len(s.rows) \in Nat \ {0}
      /\ s.i \in Nat \ {0} /\ s.x \in Nat
      /\ s.line \in Nat /\ s.new \in BOOLEAN
  BY DEF LayState
<1>2. last \in RowSet(t)
  BY <1>1
<1>3. last.num \in Nat /\ last.cells \in Seq(CellSet(t))
  BY <1>2 DEF RowSet
<1>4. last.cells \o cells \in Seq(CellSet(t)) /\ Len(cells) \in Nat
  BY <1>3
<1>5. row \in RowSet(t)
  BY <1>3, <1>4 DEF RowSet
<1>6. /\ rows \in Seq(RowSet(t)) /\ Len(rows) = Len(s.rows)
      /\ \A r \in 1 .. Len(s.rows) - 1 : rows[r] = s.rows[r]
      /\ rows[Len(s.rows)] = row
  <2> HIDE DEF row
  <2> QED BY <1>1, <1>5
<1> DEFINE all == last.cells \o cells
<1>7. [last EXCEPT !.cells = all] = row
  <2>1. all \in Seq(CellSet(t))
    BY <1>4
  <2> HIDE DEF last, all
  <2>2. [last EXCEPT !.cells = all] = [num |-> last.num, cells |-> all]
    BY <1>2, <2>1 DEF RowSet
  <2> QED BY <2>2 DEF all
<1>8. Write(s, n, cells) = [s EXCEPT !.i = s.i + n, !.x = s.x + Len(cells),
                                     !.rows = rows]
  <2>1. [s.rows EXCEPT ![Len(s.rows)].cells = @ \o cells] = rows
    BY <1>7
  <2> QED BY <2>1 DEF Write
<1> HIDE DEF rows
<1> DEFINE a == s.i + n
           b == s.x + Len(cells)
           s1 == [s EXCEPT !.i = a, !.x = b, !.rows = rows]
<1>9. a \in Nat \ {0} /\ b \in Nat
  BY <1>1, <1>4
<1> HIDE DEF a, b
<1>10. /\ s1 \in LayState(t) /\ s1.i = a /\ s1.x = b
       /\ s1.rows = rows /\ s1.line = s.line /\ s1.new = s.new
  BY <1>6, <1>9 DEF LayState
<1>11. Write(s, n, cells) = s1 /\ s1.i = s.i + n /\ s1.x = s.x + Len(cells)
  BY <1>8, <1>10 DEF a, b
<1> HIDE DEF s1
<1>12. /\ Len(s1.rows) = Len(s.rows)
       /\ \A r \in 1 .. Len(s.rows) - 1 : s1.rows[r] = s.rows[r]
       /\ s1.rows[Len(s.rows)] = row
  BY <1>6, <1>10
<1> QED BY <1>10, <1>11, <1>12

LEMMA TurnWritten ==
  ASSUME NEW t, NEW s, LayType(t, s), NEW n \in Nat,
         NEW cells \in Seq(CellSet(t)),
         LINE_NUM_WIDTH + Len(OpenRow(s).cells) + Len(cells) <= available_cols,
         NEW w, w = Write(StartRow(s), n, cells)
  PROVE  Turn(t, s, w, n, cells) /\ ~w.new /\ w.line = s.line
<1> DEFINE r == StartRow(s)
<1>1. /\ r \in LayState(t) /\ ~r.new /\ Done(s) \in Nat
      /\ r.i = s.i /\ r.line = s.line
      /\ r.x = LINE_NUM_WIDTH + Len(OpenRow(s).cells)
      /\ Len(r.rows) = Done(s) + 1
      /\ \A q \in 1 .. Done(s) : r.rows[q] = Above(s)[q]
      /\ r.rows[Done(s) + 1] = OpenRow(s)
  BY StartRowIs
<1>2. w = Write(r, n, cells)
  OBVIOUS
<1> HIDE DEF r
<1>3. Len(r.rows) > 0 /\ Len(r.rows) - 1 = Done(s)
  BY <1>1
<1>4. /\ w \in LayState(t) /\ w.i = r.i + n
      /\ w.line = r.line /\ w.new = r.new
      /\ w.x = r.x + Len(cells) /\ Len(w.rows) = Len(r.rows)
      /\ \A q \in 1 .. Len(r.rows) - 1 : w.rows[q] = r.rows[q]
      /\ w.rows[Len(r.rows)]
           = [num |-> r.rows[Len(r.rows)].num,
              cells |-> r.rows[Len(r.rows)].cells \o cells]
  <2>1. r \in LayState(t) /\ Len(r.rows) > 0
    BY <1>1, <1>3
  <2>2. LET s1 == Write(r, n, cells)
            last == r.rows[Len(r.rows)]
        IN  /\ s1 \in LayState(t) /\ s1.i = r.i + n
            /\ s1.line = r.line /\ s1.new = r.new
            /\ s1.x = r.x + Len(cells) /\ Len(s1.rows) = Len(r.rows)
            /\ \A q \in 1 .. Len(r.rows) - 1 : s1.rows[q] = r.rows[q]
            /\ s1.rows[Len(r.rows)]
                 = [num |-> last.num, cells |-> last.cells \o cells]
    BY <2>1, WriteIs
  <2> QED BY <1>2, <2>2, Zenon
<1> QED BY <1>1, <1>3, <1>4 DEF Turn

LEMMA RowFullIs ==
  ASSUME NEW t, NEW s, NEW w, NEW n, NEW cells, Turn(t, s, w, n, cells),
         NEW s1, s1 = RowFull(w)
  PROVE  /\ Turn(t, s, s1, n, cells) /\ s1.line = w.line
         /\ s1.new <=> s1.x >= available_cols
<1> DEFINE full == w.x >= available_cols
<1>1. w \in LayState(t) /\ full \in BOOLEAN
  BY DEF Turn
<1>2. s1 = [w EXCEPT !.new = full]
  BY DEF RowFull
<1> HIDE DEF full
<1>3. /\ s1 \in LayState(t) /\ s1.i = w.i /\ s1.x = w.x
      /\ s1.rows = w.rows /\ s1.line = w.line
  BY <1>1, <1>2 DEF LayState
<1>4. s1.new = full
  BY <1>1, <1>2 DEF LayState
<1> QED BY <1>3, <1>4 DEF Turn, full

LEMMA TurnIs ==
  ASSUME NEW t, IsText(t), NEW found, NEW len \in Nat, NEW s, LayType(t, s),
         NEW s1, s1 = LayStep(t, found, len, s)
  PROVE  \/ Stopped(t, s) /\ s1 = s
         \/ /\ ~Stopped(t, s)
            /\ \/ Newline(t, s, s1) \/ Tab(t, s, s1)
               \/ Match(t, found, len, s, s1) \/ Character(t, s, s1)
<1> DEFINE r == StartRow(s)
           c == At(t, s.i)
           x == LINE_NUM_WIDTH + Len(OpenRow(s).cells)
<1>1. /\ r \in LayState(t) /\ ~r.new /\ Done(s) \in Nat
      /\ r.i = s.i /\ r.line = s.line /\ r.x = x /\ r.x <= available_cols
      /\ OpenRow(s) \in RowSet(t) /\ s.i \in Nat \ {0}
  BY StartRowIs DEF LayType, LayState
<1>2. s1 = IF Stopped(t, s) THEN s
           ELSE IF c = NL THEN NewLine(r)
           ELSE IF c = TAB THEN WriteTab(r)
           ELSE IF Highlights(found, len, s.i, x)
             THEN RowFull(WriteMatch(t, len, r))
           ELSE RowFull(WriteChar(r, c))
  <2>1. Len(s.rows) - (IF s.new THEN 0 ELSE 1) = Done(s)
        /\ available_rows - 1 = Window
    <3>1. Len(s.rows) \in Nat
      BY DEF LayType, LayState
    <3> QED BY <3>1 DEF Done, Window
  <2>2. r.i = s.i /\ r.x = x
    BY <1>1
  <2> HIDE DEF r, x
  <2> QED BY <2>1, <2>2 DEF LayStep, Stopped, r
<1>3. /\ Len(OpenRow(s).cells) \in Nat /\ x \in Nat /\ x <= available_cols
      /\ LINE_NUM_WIDTH \in Nat /\ available_cols \in Nat
  BY <1>1, WidthIs DEF RowSet
<1>4. c \in ToSet(t) \cup {NUL}
  BY <1>1, AtIs
<1>5. \A k \in Nat \ {0} : At(t, k) \in ToSet(t) \cup {NUL}
  BY AtIs
<1>6. CASE Stopped(t, s)
  BY <1>2, <1>6
<1>7. CASE ~Stopped(t, s) /\ c = NL
  <2>1. s1 = NewLine(r)
    BY <1>2, <1>7
  <2> DEFINE i == r.i + 1
             line == r.line + 1
  <2>2. i \in Nat \ {0} /\ line \in Nat
    BY <1>1 DEF LayState
  <2>3. s1 = [r EXCEPT !.i = i, !.line = line, !.new = TRUE]
    BY <2>1 DEF NewLine
  <2> HIDE DEF i, line, r
  <2>4. /\ s1 \in LayState(t) /\ s1.i = i /\ s1.line = line
        /\ s1.new /\ s1.rows = r.rows /\ s1.x = r.x
    BY <1>1, <2>2, <2>3 DEF LayState
  <2>5. /\ Len(r.rows) = Done(s) + 1
        /\ \A q \in 1 .. Done(s) : r.rows[q] = Above(s)[q]
        /\ r.rows[Done(s) + 1] = OpenRow(s)
    BY StartRowIs DEF r
  <2>6. OpenRow(s) = [num |-> OpenRow(s).num,
                      cells |-> OpenRow(s).cells \o <<>>]
    <3>1. OpenRow(s) \in [num : Nat, cells : Seq(CellSet(t))]
      BY <1>1 DEF RowSet
    <3>2. OpenRow(s).cells \o <<>> = OpenRow(s).cells
      BY <3>1
    <3> QED BY <3>1, <3>2
  <2>7. Len(<<>>) = 0
    OBVIOUS
  <2>8. i = s.i + 1 /\ line = s.line + 1
    BY <1>1 DEF i, line
  <2>9. Turn(t, s, s1, 1, <<>>)
    BY <1>1, <1>3, <2>4, <2>5, <2>6, <2>7, <2>8 DEF Turn
  <2> QED BY <1>7, <2>4, <2>8, <2>9 DEF Newline
<1>8. CASE ~Stopped(t, s) /\ c = TAB
  <2> DEFINE spaces == Min({TabStop(r.x), available_cols}) - r.x
             cells == [k \in 1 .. spaces |-> Cell(" ", FALSE)]
  <2>1. s1 = Write(r, 1, cells)
    <3>1. c # NL
      BY <1>8 DEF NL, TAB
    <3> QED BY <1>2, <1>8, <3>1 DEF WriteTab
  <2>2. spaces \in Nat /\ x + spaces <= available_cols
    <3>1. TAB_WIDTH \in Nat \ {0}
      BY ScreenAssumption
    <3>2. TabStop(x) \in Nat /\ TabStop(x) >= x
      <4> HIDE DEF x
      <4>1. x \in Nat /\ x % TAB_WIDTH \in 0 .. TAB_WIDTH - 1
        BY <1>3, <3>1, NextRemainder
      <4> DEFINE m == x % TAB_WIDTH
      <4>2. TabStop(x) = x + TAB_WIDTH - m
        BY DEF TabStop
      <4> HIDE DEF m
      <4> QED BY <3>1, <4>1, <4>2 DEF m
    <3> DEFINE T == {TabStop(x), available_cols}
    <3>3. \E z \in T : \A y \in T : z =< y
      BY <1>3, <3>2
    <3>4. Min(T) \in T /\ \A y \in T : Min(T) =< y
      BY <3>3, Zenon DEF Min
    <3>5. Min(T) \in Nat /\ Min(T) >= x /\ Min(T) <= available_cols
      BY <1>3, <3>2, <3>4
    <3>6. spaces = Min(T) - x
      BY <1>1
    <3> HIDE DEF T, spaces, x
    <3> QED BY <1>3, <3>5, <3>6
  <2>3. cells \in Seq(CellSet(t)) /\ Len(cells) = spaces
        /\ \A k \in 1 .. Len(cells) : ~cells[k].hi
    <3>1. Cell(" ", FALSE) \in CellSet(t) /\ ~Cell(" ", FALSE).hi
      BY DEF Cell, CellSet
    <3> HIDE DEF spaces
    <3>2. cells \in [1 .. spaces -> CellSet(t)]
      BY <3>1
    <3>3. \A k \in 1 .. spaces : ~cells[k].hi
      BY <3>1
    <3> HIDE DEF cells
    <3>4. spaces \in Nat
      BY <2>2
    <3>5. cells \in Seq(CellSet(t)) /\ Len(cells) = spaces
      BY <3>2, <3>4
    <3> QED BY <3>3, <3>5
  <2> HIDE DEF spaces, cells
  <2>4. Turn(t, s, s1, 1, cells) /\ ~s1.new /\ s1.line = s.line
    BY <2>1, <2>2, <2>3, TurnWritten
  <2> QED BY <1>8, <2>3, <2>4 DEF Tab
<1>9. CASE /\ ~Stopped(t, s) /\ c \notin {NL, TAB}
           /\ Highlights(found, len, s.i, x)
  <2> DEFINE cells == [k \in 1 .. len |-> Cell(At(t, r.i + k - 1), TRUE)]
             w == Write(r, len, cells)
  <2>1. s1 = RowFull(w)
    BY <1>2, <1>9 DEF WriteMatch
  <2>2. s.i \in found /\ x + len < available_cols
    BY <1>9 DEF Highlights
  <2>3. cells \in Seq(CellSet(t)) /\ Len(cells) = len
        /\ \A k \in 1 .. len : cells[k] = Cell(At(t, s.i + k - 1), TRUE)
    <3>1. \A k \in 1 .. len : r.i + k - 1 \in Nat \ {0} /\ r.i = s.i
      BY <1>1
    <3> HIDE DEF r
    <3>2. \A a \in ToSet(t) \cup {NUL} : Cell(a, TRUE) \in CellSet(t)
      BY DEF Cell, CellSet
    <3>3. \A k \in 1 .. len : Cell(At(t, r.i + k - 1), TRUE) \in CellSet(t)
      BY <1>5, <3>1, <3>2
    <3>4. cells \in [1 .. len -> CellSet(t)]
      BY <3>3
    <3>5. \A k \in 1 .. len : cells[k] = Cell(At(t, s.i + k - 1), TRUE)
      BY <3>1
    <3> HIDE DEF cells
    <3>6. cells \in Seq(CellSet(t)) /\ Len(cells) = len
      BY <3>4
    <3> QED BY <3>5, <3>6
  <2> HIDE DEF cells, w
  <2>4. Turn(t, s, w, len, cells) /\ w.line = s.line
    BY <1>3, <2>2, <2>3, TurnWritten DEF w
  <2>5. Turn(t, s, s1, len, cells) /\ s1.line = s.line
        /\ (s1.new <=> s1.x >= available_cols)
    BY <2>1, <2>4, RowFullIs
  <2>6. s1.x = x + len /\ s1.new \in BOOLEAN
    BY <2>3, <2>5 DEF Turn, LayState
  <2>7. ~s1.new
    BY <1>3, <2>2, <2>5, <2>6
  <2> QED BY <1>9, <2>2, <2>3, <2>5, <2>7 DEF Match
<1>10. CASE ~Stopped(t, s) /\ c \notin {NL, TAB}
            /\ ~Highlights(found, len, s.i, x)
  <2> DEFINE cells == IF r.x < available_cols THEN <<Cell(c, FALSE)>> ELSE <<>>
             w == Write(r, 1, cells)
  <2>1. s1 = RowFull(w)
    BY <1>2, <1>10 DEF WriteChar
  <2>2. cells \in {<<>>, <<Cell(At(t, s.i), FALSE)>>}
        /\ cells \in Seq(CellSet(t)) /\ x + Len(cells) <= available_cols
        /\ (cells = <<>> => x = available_cols)
    <3>1. Cell(c, FALSE) \in CellSet(t)
      BY <1>4 DEF Cell, CellSet
    <3>2. CASE r.x < available_cols
      <4>1. cells = <<Cell(c, FALSE)>>
        BY <3>2
      <4>2. \A a : Len(<<a>>) = 1 /\ <<a>> # <<>>
        OBVIOUS
      <4>3. \A a \in CellSet(t) : <<a>> \in Seq(CellSet(t))
        OBVIOUS
      <4>4. x < available_cols
        BY <1>1, <3>2
      <4>5. cells \in Seq(CellSet(t)) /\ Len(cells) = 1 /\ cells # <<>>
        BY <3>1, <4>1, <4>2, <4>3, Zenon
      <4> HIDE DEF x, cells
      <4>6. x + Len(cells) <= available_cols
        BY <1>3, <4>4, <4>5
      <4> QED BY <4>1, <4>5, <4>6
    <3>3. CASE ~(r.x < available_cols)
      <4>1. cells = <<>> /\ Len(cells) = 0
        BY <3>3
      <4> QED BY <1>1, <1>3, <3>3, <4>1
    <3> QED BY <3>2, <3>3
  <2> HIDE DEF cells, w
  <2>4. Turn(t, s, w, 1, cells) /\ w.line = s.line
    BY <1>3, <2>2, TurnWritten DEF w
  <2>5. Turn(t, s, s1, 1, cells) /\ s1.line = s.line
        /\ (s1.new <=> s1.x >= available_cols)
    BY <2>1, <2>4, RowFullIs
  <2> QED BY <1>10, <2>2, <2>5 DEF Character
<1> QED BY <1>6, <1>7, <1>8, <1>9, <1>10

\* What a turn leaves.
Same(s, s1) == \A r \in 1 .. Done(s) : s1.rows[r] = Above(s)[r]

Kept(t, s, s1, cells) ==
  /\ LayType(t, s1) /\ Done(s) \in Nat
  /\ Done(s1) = IF s1.new THEN Done(s) + 1 ELSE Done(s)
  /\ Same(s, s1)
  /\ OpenRow(s).cells \in Seq(CellSet(t))
  /\ s1.rows[Done(s) + 1] = [num |-> OpenRow(s).num,
                             cells |-> OpenRow(s).cells \o cells]
  /\ ~s1.new => OpenRow(s1) = s1.rows[Done(s) + 1]

LEMMA TurnKeeps ==
  ASSUME NEW t, NEW s, LayType(t, s), ~Stopped(t, s), NEW s1, NEW n,
         NEW cells \in Seq(CellSet(t)), Turn(t, s, s1, n, cells)
  PROVE  Kept(t, s, s1, cells)
<1> DEFINE all == OpenRow(s).cells \o cells
<1>1. /\ Done(s) \in Nat /\ OpenRow(s).cells \in Seq(CellSet(t))
  BY StartRowIs DEF RowSet
<1>2. /\ s1 \in LayState(t) /\ Len(s1.rows) = Done(s) + 1
      /\ \A r \in 1 .. Done(s) : s1.rows[r] = Above(s)[r]
      /\ s1.rows[Done(s) + 1] = [num |-> OpenRow(s).num, cells |-> all]
      /\ s1.x = LINE_NUM_WIDTH + Len(OpenRow(s).cells) + Len(cells)
      /\ LINE_NUM_WIDTH + Len(OpenRow(s).cells) + Len(cells) <= available_cols
  BY DEF Turn
<1>3. Len(all) = Len(OpenRow(s).cells) + Len(cells) /\ Len(cells) \in Nat
      /\ Len(OpenRow(s).cells) \in Nat
  BY <1>1
<1> HIDE DEF all
<1>4. Len(s1.rows) <= Window /\ Window \in Nat
  BY <1>1, <1>2, ScreenAssumption DEF Stopped, Window
<1>5. \A r \in 1 .. Len(s1.rows) : Fits(s1.rows[r])
  <2>1. SUFFICES ASSUME NEW r \in 1 .. Len(s1.rows) PROVE Fits(s1.rows[r])
    OBVIOUS
  <2>2. CASE r = Done(s) + 1
    BY <1>2, <1>3, <2>2, WidthIs DEF Fits
  <2>3. CASE r # Done(s) + 1
    <3>1. r \in 1 .. Done(s) /\ Len(s.rows) \in Nat
      BY <1>1, <1>2, <2>1, <2>3 DEF LayType, LayState
    <3>2. r \in 1 .. Len(s.rows)
      BY <3>1 DEF Done
    <3>3. Fits(s.rows[r]) /\ Above(s)[r] \in {s.rows[r], Row(0, <<>>)}
      BY <3>2, AboveIs DEF LayType
    <3>4. Fits(Row(0, <<>>))
      <4>1. Len(Row(0, <<>>).cells) = 0
        BY DEF Row
      <4> QED BY <4>1, WidthIs DEF Fits
    <3> QED BY <1>2, <3>1, <3>3, <3>4
  <2> QED BY <2>2, <2>3
<1>6. s1.x = LINE_NUM_WIDTH + Len(s1.rows[Done(s) + 1].cells)
  <2>1. s1.rows[Done(s) + 1].cells = all
    BY <1>2
  <2>2. s1.x = LINE_NUM_WIDTH + Len(OpenRow(s).cells) + Len(cells)
    BY <1>2
  <2>3. LINE_NUM_WIDTH + Len(OpenRow(s).cells) + Len(cells)
          = LINE_NUM_WIDTH + (Len(OpenRow(s).cells) + Len(cells))
    BY <1>3, WidthIs
  <2> QED BY <1>3, <2>1, <2>2, <2>3
<1>7. LayType(t, s1)
  BY <1>1, <1>2, <1>4, <1>5, <1>6 DEF LayType
<1>8. s1.new \in BOOLEAN
  BY <1>2 DEF LayState
<1> QED BY <1>1, <1>2, <1>7, <1>8 DEF Done, OpenRow, all, Kept, Same

LEMMA StepTyped ==
  ASSUME NEW t, IsText(t), NEW found, NEW len \in Nat, NEW s, LayType(t, s)
  PROVE  LayType(t, LayStep(t, found, len, s))
<1> DEFINE s1 == LayStep(t, found, len, s)
<1>1. \/ Stopped(t, s) /\ s1 = s
      \/ /\ ~Stopped(t, s)
         /\ \/ Newline(t, s, s1) \/ Tab(t, s, s1)
            \/ Match(t, found, len, s, s1) \/ Character(t, s, s1)
  BY TurnIs
<1>2. <<>> \in Seq(CellSet(t))
  OBVIOUS
<1>3. Cell(At(t, s.i), FALSE) \in CellSet(t)
  BY AtIs DEF Cell, CellSet, LayType, LayState
<1>4. \A a \in CellSet(t) : <<a>> \in Seq(CellSet(t))
  OBVIOUS
<1> HIDE DEF s1
<1>5. ~Stopped(t, s) /\ Newline(t, s, s1) => LayType(t, s1)
  BY <1>2, TurnKeeps DEF Newline, Kept
<1>6. ~Stopped(t, s) /\ Tab(t, s, s1) => LayType(t, s1)
  BY TurnKeeps DEF Tab, Kept
<1>7. ~Stopped(t, s) /\ Match(t, found, len, s, s1) => LayType(t, s1)
  BY TurnKeeps DEF Match, Kept
<1>8. ~Stopped(t, s) /\ Character(t, s, s1) => LayType(t, s1)
  <2>1. SUFFICES ASSUME ~Stopped(t, s), Character(t, s, s1)
                 PROVE  LayType(t, s1)
    OBVIOUS
  <2>2. PICK cells \in {<<>>, <<Cell(At(t, s.i), FALSE)>>} :
          Turn(t, s, s1, 1, cells)
    BY <2>1 DEF Character
  <2>3. cells \in Seq(CellSet(t))
    BY <1>2, <1>3, <1>4
  <2> QED BY <2>1, <2>2, <2>3, TurnKeeps DEF Kept
<1> QED BY <1>1, <1>5, <1>6, <1>7, <1>8 DEF s1

-----------------------------------------------------------------------------
(***************************************************************************)
(* What the loop prints of a text without tabs.                            *)
(***************************************************************************)
RowText(row) ==
  [num |-> row.num,
   chars |-> [k \in 1 .. Len(row.cells) |-> row.cells[k].char]]

\* The open row has its characters so far.
Partial(t, o, s) ==
  LET row == OpenRow(s)
      b == s.i - Len(row.cells)
  IN  /\ b \in RowStarts(t)
      /\ Done(s) < Window => row.num = 1 + LinesBefore(t, b)
      /\ RowsBefore(t, b) = o + Done(s) /\ RowsBefore(t, s.i) = o + Done(s)
      /\ Column(t, s.i) = Len(row.cells)
      /\ \A k \in 1 .. Len(row.cells) : row.cells[k].char = t[b + k - 1]
      /\ \A j \in b .. s.i - 1 : t[j] # NL
      /\ \A j \in b + 1 .. s.i : j \notin RowStarts(t)

\* The row on the screen is the q-th of the text.
Shows(t, q, row) ==
  q \in 1 .. Len(TextRows(t)) /\ RowText(row) = TextRows(t)[q]

\* o rows are above the window.
Complete(t, o, s) == \A r \in 1 .. Done(s) : Shows(t, o + r, s.rows[r])

LayInv(t, o, s) ==
  /\ s.i \in 1 .. Len(t) + 1 /\ s.line = LinesBefore(t, s.i)
  /\ Complete(t, o, s)
  /\ IF s.new /\ s.i = Len(t) + 1 THEN Len(TextRows(t)) <= o + Done(s)
                                  ELSE Partial(t, o, s)

\* A match is inside the text and in one line.
Hits(t, found, len) ==
  \A i \in found : /\ i \in Nat \ {0} /\ len \in Nat \ {0}
                   /\ i + len - 1 <= Len(t)
                   /\ \A k \in i .. i + len - 1 : t[k] # NL

LEMMA RowTextIs ==
  ASSUME NEW t, Len(t) \in Nat, NEW cells, Len(cells) \in Nat, NEW num,
         NEW b \in Nat \ {0}, b + Len(cells) - 1 <= Len(t),
         \A k \in 1 .. Len(cells) : cells[k].char = t[b + k - 1]
  PROVE  RowText([num |-> num, cells |-> cells])
           = [num |-> num, chars |-> SubSeq(t, b, b + Len(cells) - 1)]
<1>1. SubSeq(t, b, b + Len(cells) - 1)
        = [k \in 1 .. Len(cells) |-> t[b + k - 1]]
  OBVIOUS
<1>2. [k \in 1 .. Len(cells) |-> cells[k].char]
        = [k \in 1 .. Len(cells) |-> t[b + k - 1]]
  OBVIOUS
<1> QED BY <1>1, <1>2 DEF RowText

\* The numbers of the rows that belong into the window fit.
LEMMA NumbersFit ==
  ASSUME NEW t, IsText(t), NEW o \in Nat, Numbered(WindowRows(t, o)),
         NEW i \in RowStarts(t), NEW d \in Nat, d < Window,
         RowsBefore(t, i) = o + d
  PROVE  NumberFits(1 + LinesBefore(t, i))
<1>1. PICK g, m, w : /\ g = TextRows(t) /\ m = Len(g) /\ w = Window
  OBVIOUS
<1>2. /\ Len(t) \in Nat /\ m \in Nat /\ w \in Nat
      /\ m = Cardinality(RowStarts(t))
  BY <1>1, TextIs, RowsAre, ScreenAssumption DEF Window
<1> DEFINE r == o + d + 1
<1>3. r \in 1 .. m /\ RowStart(t, r) = i
  BY <1>2, StartsRanked, RowStartIs
<1>4. g[r].num = 1 + LinesBefore(t, i)
  <2> HIDE DEF r
  <2> QED BY <1>1, <1>2, <1>3 DEF TextRows, LinesBefore
<1> DEFINE T == {o + w, m}
           e == Min(T)
           a == o + 1
<1>5. e \in T /\ \A y \in T : e =< y
  <2>1. \E z \in T : \A y \in T : z =< y
    BY <1>2
  <2> QED BY <2>1, Zenon DEF Min
<1>6. e \in Nat /\ r <= e
  BY <1>1, <1>2, <1>3, <1>5
<1>7. WindowRows(t, o) = SubSeq(g, a, e)
  BY <1>1 DEF WindowRows
<1> HIDE DEF e, T
<1>8. SubSeq(g, a, e) = [k \in 1 .. 1 + e - a |-> g[k + a - 1]]
  BY <1>6
<1> DEFINE n == 1 + e - a
           rows == [k \in 1 .. n |-> g[k + a - 1]]
<1>9. n \in Nat /\ d + 1 \in 1 .. n
  BY <1>6
<1>10. Len(rows) = n /\ rows[d + 1] = g[(d + 1) + a - 1]
  <2> HIDE DEF n
  <2> QED BY <1>9
<1>11. (d + 1) + a - 1 = r
  OBVIOUS
<1>12. rows = WindowRows(t, o)
  BY <1>7, <1>8
<1> HIDE DEF rows, r, n, a
<1>13. rows[d + 1].num = 1 + LinesBefore(t, i)
  BY <1>4, <1>10, <1>11
<1> QED BY <1>9, <1>10, <1>12, <1>13 DEF Numbered

LEMMA NewRow ==
  ASSUME NEW t, IsText(t), NEW o \in Nat, NEW s, s.new,
         s.i \in 1 .. Len(t), Done(s) \in Nat,
         Column(t, s.i) = 0, RowsBefore(t, s.i) = o + Done(s),
         s.line = LinesBefore(t, s.i), Numbered(WindowRows(t, o))
  PROVE  Partial(t, o, s)
<1>1. OpenRow(s).num = RowNumber(s.line + 1) /\ Len(OpenRow(s).cells) = 0
  BY DEF OpenRow
<1>2. LinesBefore(t, s.i) \in Nat /\ Len(t) \in Nat
  <2>1. Len(t) \in Nat
    BY TextIs
  <2>2. s.i \in Nat \ {0}
    BY <2>1
  <2> QED BY <2>1, <2>2, LinesBeforeIs
<1>3. s.i - 0 = s.i /\ s.i \in RowStarts(t)
  BY <1>2, RowStartsAre
<1>4. ASSUME Done(s) < Window
      PROVE  OpenRow(s).num = 1 + LinesBefore(t, s.i)
  <2>1. 1 + LinesBefore(t, s.i) = s.line + 1
    BY <1>2
  <2>2. NumberFits(1 + LinesBefore(t, s.i))
    BY <1>3, <1>4, NumbersFit
  <2> QED BY <1>1, <2>1, <2>2 DEF RowNumber
<1> QED BY <1>1, <1>2, <1>3, <1>4 DEF Partial

\* A row of the text, as far as the cells go.
RowSoFar(t, b, num, cells) ==
  /\ b \in RowStarts(t) /\ num = 1 + LinesBefore(t, b)
  /\ Len(cells) \in Nat /\ b + Len(cells) <= Len(t) + 1
  /\ \A q \in 1 .. Len(cells) : cells[q].char = t[b + q - 1]
  /\ \A j \in b .. (b + Len(cells)) - 1 : t[j] # NL
  /\ \A j \in b + 1 .. (b + Len(cells)) - 1 : j \notin RowStarts(t)

\* A row that ends is the next row of the text.
LEMMA RowEnded ==
  ASSUME NEW t, IsText(t), NEW b, NEW num, NEW cells,
         RowSoFar(t, b, num, cells), NEW k, k = b + Len(cells),
         k = Len(t) + 1 \/ t[k] = NL \/ (k > b /\ k \in RowStarts(t))
  PROVE  Shows(t, RowsBefore(t, b) + 1, [num |-> num, cells |-> cells])
<1>1. /\ b \in RowStarts(t) /\ num = 1 + LinesBefore(t, b)
      /\ Len(cells) \in Nat /\ k <= Len(t) + 1
      /\ \A q \in 1 .. Len(cells) : cells[q].char = t[b + q - 1]
      /\ \A j \in b .. k - 1 : t[j] # NL
      /\ \A j \in b + 1 .. k - 1 : j \notin RowStarts(t)
      /\ Len(t) \in Nat
  <2>1. Len(t) \in Nat
    BY TextIs
  <2>2. /\ b \in RowStarts(t) /\ num = 1 + LinesBefore(t, b)
        /\ Len(cells) \in Nat /\ k <= Len(t) + 1
        /\ \A q \in 1 .. Len(cells) : cells[q].char = t[b + q - 1]
    BY Zenon DEF RowSoFar
  <2>3. /\ \A j \in b .. k - 1 : t[j] # NL
        /\ \A j \in b + 1 .. k - 1 : j \notin RowStarts(t)
    <3> DEFINE e == b + Len(cells)
    <3>1. /\ \A j \in b .. e - 1 : t[j] # NL
          /\ \A j \in b + 1 .. e - 1 : j \notin RowStarts(t)
      BY DEF RowSoFar
    <3>2. e = k
      OBVIOUS
    <3> HIDE DEF e
    <3> QED BY <3>1, <3>2, Zenon
  <2> QED BY <2>1, <2>2, <2>3
<1>2. b \in 1 .. Len(t) /\ k \in b .. Len(t) + 1
      /\ b + Len(cells) - 1 = k - 1
  BY <1>1, RowStartsAre
<1>3. /\ RowsBefore(t, b) + 1 \in 1 .. Len(TextRows(t))
      /\ TextRows(t)[RowsBefore(t, b) + 1]
           = [num |-> 1 + LinesBefore(t, b), chars |-> SubSeq(t, b, k - 1)]
  BY <1>1, <1>2, RowIs
<1>4. RowText([num |-> num, cells |-> cells])
        = [num |-> num, chars |-> SubSeq(t, b, b + Len(cells) - 1)]
  <2>1. b \in Nat \ {0} /\ b + Len(cells) - 1 <= Len(t)
    BY <1>1, <1>2
  <2> QED BY <1>1, <2>1, RowTextIs
<1> QED BY <1>1, <1>2, <1>3, <1>4 DEF Shows

\* After it the next begins, if the text goes on.
LEMMA RowClosed ==
  ASSUME NEW t, IsText(t), NEW o \in Nat, NEW s, s.new, Done(s) \in Nat,
         NEW i \in 1 .. Len(t), s.i = i + 1, Column(t, i + 1) = 0,
         RowsBefore(t, i) + 1 = o + Done(s), s.line = LinesBefore(t, s.i),
         Numbered(WindowRows(t, o))
  PROVE  IF s.new /\ s.i = Len(t) + 1 THEN Len(TextRows(t)) <= o + Done(s)
                                      ELSE Partial(t, o, s)
<1>1. Len(t) \in Nat /\ RowsBefore(t, i) \in Nat
  BY TextIs, RowsBeforeIs
<1>2. CASE i = Len(t)
  <2>1. Len(TextRows(t)) = 1 + RowsBefore(t, Len(t))
    BY <1>1, <1>2, RowsAre
  <2> QED BY <1>1, <1>2, <2>1
<1>3. CASE i # Len(t)
  <2>1. s.i \in 1 .. Len(t)
    BY <1>1, <1>3
  <2>2. RowsBefore(t, i + 1) = RowsBefore(t, i) + 1
    BY RowsBeforeIs
  <2>3. Partial(t, o, s)
    BY <1>1, <2>1, <2>2, NewRow
  <2> QED BY <1>1, <1>3, <2>3
<1> QED BY <1>2, <1>3

LEMMA Joined ==
  ASSUME NEW S, NEW a \in Seq(S), NEW b \in Seq(S)
  PROVE  /\ Len(a) \in Nat /\ Len(b) \in Nat /\ a \o b \in Seq(S)
         /\ Len(a \o b) = Len(a) + Len(b)
         /\ \A k \in 1 .. Len(a) : (a \o b)[k] = a[k]
         /\ \A k \in 1 .. Len(b) : (a \o b)[Len(a) + k] = b[k]
OBVIOUS

\* These cells have the characters from i on, and no newline is among them.
Reads(t, i, cells) ==
  \A k \in 1 .. Len(cells) :
    cells[k].char = t[i + k - 1] /\ t[i + k - 1] # NL

\* Characters that do not fill the row.
Growth(t, s, s1, cells) ==
  /\ Done(s) \in Nat /\ s.i \in Nat \ {0}
  /\ OpenRow(s).cells \in Seq(CellSet(t)) /\ cells \in Seq(CellSet(t))
  /\ Reads(t, s.i, cells)
  /\ Len(OpenRow(s).cells) + Len(cells) < TextWidth
  /\ ~s1.new /\ s1.i = s.i + Len(cells) /\ Done(s1) = Done(s)
  /\ OpenRow(s1) = [num |-> OpenRow(s).num,
                    cells |-> OpenRow(s).cells \o cells]

LEMMA RowGrows ==
  ASSUME NEW t, IsText(t), NEW o \in Nat, NEW s, Partial(t, o, s),
         NEW s1, NEW cells, Growth(t, s, s1, cells)
  PROVE  Partial(t, o, s1) /\ LinesBefore(t, s1.i) = LinesBefore(t, s.i)
<1>11. cells \in Seq(CellSet(t)) /\ Len(cells) \in Nat
  <2>1. cells \in Seq(CellSet(t))
    BY DEF Growth
  <2> QED BY <2>1
<1>12. PICK i \in Nat \ {0}, had \in Seq(CellSet(t)), n \in Nat :
         i = s.i /\ had = OpenRow(s).cells /\ n = Len(cells)
  BY <1>11 DEF Growth
<1>13. /\ Done(s) \in Nat /\ Reads(t, i, cells) /\ Len(had) + n < TextWidth
       /\ ~s1.new /\ s1.i = i + n /\ Done(s1) = Done(s)
       /\ OpenRow(s1) = [num |-> OpenRow(s).num, cells |-> had \o cells]
  BY <1>12 DEF Growth
<1> DEFINE b == i - Len(had)
           all == had \o cells
<1>1. /\ b \in RowStarts(t)
      /\ Done(s) < Window => OpenRow(s).num = 1 + LinesBefore(t, b)
      /\ RowsBefore(t, b) = o + Done(s) /\ RowsBefore(t, i) = o + Done(s)
      /\ Column(t, i) = Len(had)
      /\ \A k \in 1 .. Len(had) : had[k].char = t[b + k - 1]
      /\ \A j \in b .. i - 1 : t[j] # NL
      /\ \A j \in b + 1 .. i : j \notin RowStarts(t)
  BY <1>12 DEF Partial
<1>2. /\ Len(had) \in Nat /\ Len(t) \in Nat /\ i \in Nat \ {0}
      /\ b \in Nat \ {0} /\ b = i - Len(had)
      /\ Len(all) = Len(had) + n /\ s1.i = i + n
  <2>1. Len(had) \in Nat /\ Len(all) = Len(had) + n
    BY <1>11, <1>12, Joined
  <2>2. Len(t) \in Nat /\ b \in 1 .. Len(t)
    BY <1>1, TextIs, RowStartsAre
  <2> QED BY <1>13, <2>1, <2>2
<1>0. /\ \A k \in 1 .. n : cells[k].char = t[i + k - 1] /\ t[i + k - 1] # NL
      /\ \A k \in 1 .. Len(had) : all[k] = had[k]
      /\ \A k \in 1 .. n : all[Len(had) + k] = cells[k]
  <2>1. \A k \in 1 .. n : cells[k].char = t[i + k - 1] /\ t[i + k - 1] # NL
    BY <1>12, <1>13 DEF Reads
  <2> QED BY <1>11, <1>12, <2>1, Joined
<1>8. OpenRow(s1).num = OpenRow(s).num /\ OpenRow(s1).cells = all
  BY <1>13
<1> HIDE DEF all, b
<1>3. \A j \in i .. i + n - 1 : t[j] # NL
  <2>1. SUFFICES ASSUME NEW j \in i .. i + n - 1 PROVE t[j] # NL
    OBVIOUS
  <2> DEFINE k == j - i + 1
  <2>2. k \in 1 .. n /\ i + k - 1 = j
    BY <2>1
  <2> HIDE DEF k
  <2> QED BY <1>0, <2>2
<1>4. \A d \in 0 .. n : /\ Column(t, i + d) = Len(had) + d
                        /\ RowsBefore(t, i + d) = o + Done(s)
                        /\ LinesBefore(t, i + d) = LinesBefore(t, i)
  <2>1. Column(t, i) + n < TextWidth
    BY <1>1, <1>13
  <2>2. \A d \in 0 .. n : /\ Column(t, i + d) = Column(t, i) + d
                          /\ RowsBefore(t, i + d) = RowsBefore(t, i)
                          /\ LinesBefore(t, i + d) = LinesBefore(t, i)
    BY <1>3, <2>1, ColumnRun
  <2> QED BY <1>1, <2>2
<1>5. \A k \in 1 .. Len(all) : all[k].char = t[b + k - 1]
  <2>1. SUFFICES ASSUME NEW k \in 1 .. Len(all)
                 PROVE  all[k].char = t[b + k - 1]
    OBVIOUS
  <2>2. CASE k \in 1 .. Len(had)
    <3>1. all[k] = had[k]
      BY <1>0, <2>2
    <3> QED BY <1>1, <2>2, <3>1
  <2>3. CASE k \notin 1 .. Len(had)
    <3>1. k - Len(had) \in 1 .. n /\ b + k - 1 = i + (k - Len(had)) - 1
          /\ Len(had) + (k - Len(had)) = k
      BY <1>2, <2>3
    <3>2. all[k] = cells[k - Len(had)]
      BY <1>0, <3>1
    <3> QED BY <1>0, <3>1, <3>2
  <2> QED BY <2>2, <2>3
<1>6. \A j \in b .. s1.i - 1 : t[j] # NL
  <2>1. SUFFICES ASSUME NEW j \in b .. s1.i - 1 PROVE t[j] # NL
    OBVIOUS
  <2>2. j \in b .. i - 1 \/ j \in i .. i + n - 1
    BY <1>2
  <2> QED BY <1>1, <1>3, <2>2
<1>7. \A j \in b + 1 .. s1.i : j \notin RowStarts(t)
  <2>1. SUFFICES ASSUME NEW j \in i + 1 .. i + n
                 PROVE  j \notin RowStarts(t)
    BY <1>1, <1>2
  <2> DEFINE d == j - i
  <2>2. d \in 1 .. n /\ i + d = j
    BY <1>2
  <2> HIDE DEF d
  <2>3. d \in 0 .. n
    BY <2>2
  <2>5. Column(t, j) = Len(had) + d
    BY <1>4, <2>2, <2>3
  <2>4. Column(t, j) # 0
    BY <1>2, <2>2, <2>5
  <2> QED BY <2>4, RowStartsAre
<1>9. /\ Column(t, s1.i) = Len(all) /\ RowsBefore(t, s1.i) = o + Done(s)
      /\ LinesBefore(t, s1.i) = LinesBefore(t, i)
  <2>1. n \in 0 .. n
    OBVIOUS
  <2> QED BY <1>2, <1>4, <2>1
<1>10. Partial(t, o, s1)
  <2>1. s1.i - Len(all) = b
    BY <1>2
  <2> QED BY <1>1, <1>2, <1>5, <1>6, <1>7, <1>8, <1>9, <1>13, <2>1 DEF Partial
<1> QED BY <1>9, <1>10, <1>12

\* What the invariant says of a state that is not the end.
LEMMA OpenIs ==
  ASSUME NEW t, IsText(t), NEW o \in Nat, NEW s, LayType(t, s),
         LayInv(t, o, s), ~Stopped(t, s)
  PROVE  /\ s.i \in 1 .. Len(t) /\ At(t, s.i) = t[s.i] /\ Partial(t, o, s)
         /\ Done(s) \in Nat /\ s.line = LinesBefore(t, s.i)
         /\ OpenRow(s).cells \in Seq(CellSet(t))
         /\ Len(OpenRow(s).cells) \in Nat
         /\ OpenRow(s).num = 1 + LinesBefore(t, s.i - Len(OpenRow(s).cells))
         /\ Above(s) = s.rows
<1>1. s.i \in Nat \ {0} /\ Len(t) \in Nat
  BY TextIs DEF LayType, LayState
<1>2. s.i \in 1 .. Len(t) /\ At(t, s.i) = t[s.i]
  BY <1>1, AtIs DEF Stopped
<1>3. OpenRow(s) \in RowSet(t) /\ Done(s) \in Nat
  BY StartRowIs
<1>4. OpenRow(s).cells \in Seq(CellSet(t))
  BY <1>3 DEF RowSet
<1>5. Done(s) < Window
  BY <1>3, ScreenAssumption DEF Stopped, Window
<1>6. Partial(t, o, s)
  BY <1>1, <1>2 DEF LayInv
<1>7. OpenRow(s).num = 1 + LinesBefore(t, s.i - Len(OpenRow(s).cells))
  BY <1>5, <1>6 DEF Partial
<1>8. Above(s) = s.rows
  <2>1. SUFFICES ASSUME s.new PROVE NumberFits(s.line + 1)
    BY DEF Above
  <2>2. OpenRow(s).num = RowNumber(s.line + 1)
    BY <2>1 DEF OpenRow
  <2>3. s.i - Len(OpenRow(s).cells) \in Nat \ {0}
    BY <1>6, RowStartsAre, TextIs DEF Partial
  <2>4. OpenRow(s).num # 0
    BY <1>7, <2>3, LinesBeforeIs
  <2> QED BY <2>2, <2>4 DEF RowNumber
<1> QED BY <1>1, <1>2, <1>3, <1>4, <1>6, <1>7, <1>8 DEF LayInv

\* The rows that were complete stay.
LEMMA RowsStay ==
  ASSUME NEW t, IsText(t), NEW o \in Nat, NEW s, LayType(t, s),
         LayInv(t, o, s), ~Stopped(t, s), NEW s1, Same(s, s1)
  PROVE  /\ Done(s1) = Done(s) => Complete(t, o, s1)
         /\ /\ Done(s1) = Done(s) + 1
            /\ Shows(t, o + (Done(s) + 1), s1.rows[Done(s) + 1])
            => Complete(t, o, s1)
<1> DEFINE n == Done(s)
<1>1. \A r \in 1 .. n : Shows(t, o + r, s1.rows[r])
  BY OpenIs DEF LayInv, Complete, Same
<1>2. \A r \in 1 .. n + 1 : r \in 1 .. n \/ r = n + 1
  BY OpenIs
<1> QED BY <1>1, <1>2 DEF Complete

LEMMA NewlineKeeps ==
  ASSUME NEW t, IsText(t), NEW o \in Nat, NEW s, LayType(t, s),
         LayInv(t, o, s), ~Stopped(t, s), NEW s1, Newline(t, s, s1),
         Numbered(WindowRows(t, o))
  PROVE  LayInv(t, o, s1)
<1>1. PICK i, cells, num, b :
        /\ i = s.i /\ cells = OpenRow(s).cells /\ num = OpenRow(s).num
        /\ b = i - Len(cells)
  OBVIOUS
<1> DEFINE row == [num |-> num, cells |-> cells]
<1>2. /\ i \in 1 .. Len(t) /\ At(t, i) = t[i] /\ Partial(t, o, s)
      /\ Done(s) \in Nat /\ s.line = LinesBefore(t, i)
      /\ cells \in Seq(CellSet(t)) /\ Len(cells) \in Nat /\ Len(t) \in Nat
  BY <1>1, OpenIs, TextIs
<1>3. /\ t[i] = NL /\ s1.new /\ s1.line = s.line + 1 /\ s1.i = i + 1
      /\ Turn(t, s, s1, 1, <<>>)
  BY <1>1, <1>2 DEF Newline, Turn
<1>4. /\ Done(s1) = Done(s) + 1
      /\ Same(s, s1) /\ s1.rows[Done(s) + 1] = row
  <2>1. PICK none : none = <<>> /\ none \in Seq(CellSet(t))
                    /\ cells \o none = cells
    <3>1. <<>> \in Seq(CellSet(t)) /\ cells \o <<>> = cells
      BY <1>2
    <3> QED BY <3>1
  <2>2. Turn(t, s, s1, 1, none)
    BY <1>3, <2>1
  <2>3. Kept(t, s, s1, none)
    BY <2>1, <2>2, TurnKeeps
  <2> QED BY <1>1, <1>3, <2>1, <2>3 DEF Kept
<1>5. /\ b \in RowStarts(t) /\ num = 1 + LinesBefore(t, b)
      /\ RowsBefore(t, b) = o + Done(s) /\ RowsBefore(t, i) = o + Done(s)
      /\ \A k \in 1 .. Len(cells) : cells[k].char = t[b + k - 1]
      /\ \A j \in b .. i - 1 : t[j] # NL
      /\ \A j \in b + 1 .. i : j \notin RowStarts(t)
  BY <1>1, <1>2, OpenIs DEF Partial
<1>6. i = b + Len(cells) /\ i <= Len(t) + 1 /\ b \in Nat
  <2>1. b \in Nat
    BY <1>2, <1>5, RowStartsAre
  <2> QED BY <1>1, <1>2, <2>1
<1>7. Shows(t, o + (Done(s) + 1), row)
  <2>1. RowSoFar(t, b, num, cells)
    <3> DEFINE e == b + Len(cells)
    <3>0. e = i /\ \A j \in b + 1 .. i - 1 : j \notin RowStarts(t)
      BY <1>2, <1>5, <1>6
    <3> HIDE DEF e
    <3>3. /\ \A j \in b .. e - 1 : t[j] # NL
          /\ \A j \in b + 1 .. e - 1 : j \notin RowStarts(t)
      BY <1>5, <3>0, Zenon
    <3>1. \A j \in b .. (b + Len(cells)) - 1 : t[j] # NL
      BY <3>3 DEF e
    <3>2. \A j \in b + 1 .. (b + Len(cells)) - 1 : j \notin RowStarts(t)
      BY <3>3 DEF e
    <3> QED BY <1>2, <1>5, <1>6, <3>1, <3>2, Zenon DEF RowSoFar
  <2>2. Shows(t, RowsBefore(t, b) + 1, row)
    BY <1>3, <1>6, <2>1, RowEnded
  <2>3. RowsBefore(t, b) + 1 = o + (Done(s) + 1)
    BY <1>2, <1>5
  <2> QED BY <2>2, <2>3
<1> HIDE DEF row
<1>8. /\ Column(t, i + 1) = 0 /\ LinesBefore(t, i + 1) = s.line + 1
  <2>1. i \in Nat \ {0}
    BY <1>2
  <2> QED BY <1>2, <1>3, <2>1, ColumnIs, LinesBeforeIs
<1>9. s1.line = LinesBefore(t, s1.i) /\ s1.i \in 1 .. Len(t) + 1
  BY <1>2, <1>3, <1>8
<1>10. IF s1.new /\ s1.i = Len(t) + 1 THEN Len(TextRows(t)) <= o + Done(s1)
                                      ELSE Partial(t, o, s1)
  <2>1. Done(s1) \in Nat
    BY <1>2, <1>4
  <2>2. RowsBefore(t, i) + 1 = o + Done(s1)
    BY <1>2, <1>4, <1>5
  <2> QED BY <1>2, <1>3, <1>8, <1>9, <2>1, <2>2, RowClosed
<1>11. Complete(t, o, s1)
  BY <1>2, <1>4, <1>7, RowsStay
<1> QED BY <1>9, <1>10, <1>11 DEF LayInv

LEMMA MatchKeeps ==
  ASSUME NEW t, IsText(t), NEW o \in Nat, NEW s, LayType(t, s),
         LayInv(t, o, s), ~Stopped(t, s), NEW found, NEW len \in Nat,
         Hits(t, found, len), NEW s1, Match(t, found, len, s, s1)
  PROVE  LayInv(t, o, s1)
<1>1. PICK i, had : i = s.i /\ had = OpenRow(s).cells
  OBVIOUS
<1>2. /\ i \in 1 .. Len(t) /\ Partial(t, o, s)
      /\ Done(s) \in Nat /\ s.line = LinesBefore(t, i)
      /\ had \in Seq(CellSet(t)) /\ Len(had) \in Nat /\ Len(t) \in Nat
  BY <1>1, OpenIs, TextIs
<1>3. PICK cells \in Seq(CellSet(t)) :
        /\ Turn(t, s, s1, len, cells) /\ Len(cells) = len
        /\ \A k \in 1 .. len : cells[k] = Cell(At(t, i + k - 1), TRUE)
        /\ LINE_NUM_WIDTH + Len(had) + len < available_cols
  BY <1>1 DEF Match
<1>4. /\ i \in found /\ ~s1.new /\ s1.line = s.line /\ s1.i = i + len
  BY <1>1, <1>3 DEF Match, Turn
<1>5. /\ len \in Nat \ {0} /\ i + len - 1 <= Len(t)
      /\ \A k \in i .. i + len - 1 : t[k] # NL
  BY <1>4 DEF Hits
<1>6. /\ Done(s1) = Done(s) /\ Same(s, s1)
      /\ OpenRow(s1) = [num |-> OpenRow(s).num, cells |-> had \o cells]
  <2>1. Kept(t, s, s1, cells)
    BY <1>3, TurnKeeps
  <2> QED BY <1>1, <1>4, <2>1 DEF Kept
<1>7. Reads(t, i, cells)
  <2>1. SUFFICES ASSUME NEW k \in 1 .. len
                 PROVE  cells[k].char = t[i + k - 1] /\ t[i + k - 1] # NL
    BY <1>3 DEF Reads
  <2> DEFINE j == i + k - 1
  <2>2. j \in i .. i + len - 1 /\ j \in 1 .. Len(t)
    BY <1>2, <1>5, <2>1
  <2>3. cells[k] = Cell(At(t, j), TRUE)
    BY <1>3
  <2> HIDE DEF j
  <2>4. t[j] # NL /\ At(t, j) = t[j]
    BY <1>5, <2>2 DEF At
  <2> QED BY <2>3, <2>4 DEF Cell, j
<1>8. Partial(t, o, s1) /\ LinesBefore(t, s1.i) = LinesBefore(t, i)
  <2>1. Len(had) + len < TextWidth
    BY <1>2, <1>3, WidthIs
  <2>2. Growth(t, s, s1, cells)
    BY <1>1, <1>2, <1>3, <1>4, <1>6, <1>7, <2>1 DEF Growth
  <2>3. Partial(t, o, s1) /\ LinesBefore(t, s1.i) = LinesBefore(t, s.i)
    BY <1>2, <2>2, RowGrows
  <2> QED BY <1>1, <2>3
<1>9. s1.i \in 1 .. Len(t) + 1
  BY <1>2, <1>4, <1>5
<1>10. Complete(t, o, s1)
  BY <1>2, <1>6, RowsStay
<1> QED BY <1>2, <1>4, <1>8, <1>9, <1>10 DEF LayInv

LEMMA CharacterKeeps ==
  ASSUME NEW t, IsText(t), NoTabs(t), NEW o \in Nat, NEW s, LayType(t, s),
         LayInv(t, o, s), ~Stopped(t, s), NEW s1, Character(t, s, s1),
         Numbered(WindowRows(t, o))
  PROVE  LayInv(t, o, s1)
<1>1. PICK i, had, num, b :
        /\ i = s.i /\ had = OpenRow(s).cells /\ num = OpenRow(s).num
        /\ b = i - Len(had)
  OBVIOUS
<1>2. /\ i \in 1 .. Len(t) /\ At(t, i) = t[i] /\ Partial(t, o, s)
      /\ Done(s) \in Nat /\ s.line = LinesBefore(t, i)
      /\ had \in Seq(CellSet(t)) /\ Len(had) \in Nat /\ Len(t) \in Nat
  BY <1>1, OpenIs, TextIs
<1>3. /\ b \in RowStarts(t) /\ num = 1 + LinesBefore(t, b)
      /\ RowsBefore(t, b) = o + Done(s) /\ RowsBefore(t, i) = o + Done(s)
      /\ Column(t, i) = Len(had)
      /\ \A k \in 1 .. Len(had) : had[k].char = t[b + k - 1]
      /\ \A j \in b .. i - 1 : t[j] # NL
      /\ \A j \in b + 1 .. i : j \notin RowStarts(t)
  BY <1>1, <1>2, OpenIs DEF Partial
<1>4. PICK cs \in {<<>>, <<Cell(At(t, i), FALSE)>>} :
        /\ Turn(t, s, s1, 1, cs)
        /\ cs = <<>> => LINE_NUM_WIDTH + Len(had) = available_cols
  BY <1>1 DEF Character
<1>5. cs # <<>>
  <2>1. Len(had) < TextWidth
    <3>1. i \in Nat \ {0}
      BY <1>2
    <3>2. Column(t, i) \in 0 .. TextWidth - 1
      BY <3>1, ColumnIs
    <3> QED BY <1>3, <3>2, WidthIs
  <2> QED BY <1>2, <1>4, <2>1, WidthIs
<1>6. PICK cells \in Seq(CellSet(t)) :
        /\ cells = cs /\ Len(cells) = 1 /\ cells[1] = Cell(t[i], FALSE)
  <2>1. Cell(t[i], FALSE) \in CellSet(t)
    BY <1>2, TextIs DEF Cell, CellSet
  <2>2. \A a \in CellSet(t) : /\ <<a>> \in Seq(CellSet(t)) /\ Len(<<a>>) = 1
                              /\ <<a>>[1] = a
    OBVIOUS
  <2>3. cs = <<Cell(t[i], FALSE)>>
    BY <1>2, <1>4, <1>5
  <2> QED BY <2>1, <2>2, <2>3
<1>7. /\ t[i] # NL /\ Turn(t, s, s1, 1, cells) /\ s1.i = i + 1
      /\ s1.x = LINE_NUM_WIDTH + Len(had) + Len(cells)
  BY <1>1, <1>2, <1>4, <1>6 DEF Character, Turn
<1>8. /\ s1.line = s.line /\ (s1.new <=> s1.x >= available_cols)
  BY DEF Character
<1>9. s1.x = LINE_NUM_WIDTH + Len(had) + 1
  BY <1>6, <1>7
<1>10. Kept(t, s, s1, cells)
  BY <1>7, TurnKeeps
<1>11. LinesBefore(t, i + 1) = LinesBefore(t, i)
  <2>1. i \in Nat \ {0}
    BY <1>2
  <2>2. /\ LinesBefore(t, i) \in Nat
        /\ LinesBefore(t, i + 1)
             = LinesBefore(t, i) + (IF t[i] = NL THEN 1 ELSE 0)
    BY <2>1, LinesBeforeIs
  <2> QED BY <1>7, <2>2
<1>12. s1.line = LinesBefore(t, s1.i) /\ s1.i \in 1 .. Len(t) + 1
  BY <1>2, <1>7, <1>8, <1>11
<1>13. Reads(t, i, cells)
  <2>1. \A k \in 1 .. Len(cells) : k = 1 /\ i + k - 1 = i
    BY <1>2, <1>6
  <2> QED BY <1>6, <1>7, <2>1 DEF Reads, Cell
<1>14. CASE ~s1.new
  <2>1. Len(had) + Len(cells) < TextWidth
    BY <1>2, <1>6, <1>8, <1>9, <1>14, WidthIs
  <2>2. Done(s1) = Done(s) /\ Same(s, s1)
        /\ OpenRow(s1) = [num |-> OpenRow(s).num,
                          cells |-> OpenRow(s).cells \o cells]
    BY <1>10, <1>14 DEF Kept
  <2>3. Growth(t, s, s1, cells)
    BY <1>1, <1>2, <1>6, <1>7, <1>13, <1>14, <2>1, <2>2 DEF Growth
  <2>4. Partial(t, o, s1)
    BY <1>2, <2>3, RowGrows
  <2>5. Complete(t, o, s1)
    BY <1>2, <2>2, RowsStay
  <2> QED BY <1>12, <1>14, <2>4, <2>5 DEF LayInv
<1>15. CASE s1.new
  <2> DEFINE all == had \o cells
             row == [num |-> num, cells |-> all]
  <2>1. /\ Done(s1) = Done(s) + 1 /\ Same(s, s1)
        /\ s1.rows[Done(s) + 1] = row
    BY <1>1, <1>10, <1>15 DEF Kept
  <2>2. /\ Len(all) = Len(had) + 1 /\ all[Len(had) + 1] = cells[1]
        /\ \A k \in 1 .. Len(had) : all[k] = had[k]
    <3>1. 1 \in 1 .. Len(cells)
      BY <1>6
    <3>2. /\ Len(had \o cells) = Len(had) + Len(cells)
          /\ \A k \in 1 .. Len(had) : (had \o cells)[k] = had[k]
          /\ \A k \in 1 .. Len(cells) : (had \o cells)[Len(had) + k] = cells[k]
      BY <1>2, Joined
    <3> QED BY <1>6, <3>1, <3>2
  <2>3. /\ Column(t, i) + 1 = TextWidth /\ i \in Nat \ {0} /\ b \in Nat
        /\ i = b + Len(had)
    <3>1. i \in Nat \ {0} /\ b \in Nat
      BY <1>2, <1>3, RowStartsAre
    <3>2. Column(t, i) \in 0 .. TextWidth - 1
      BY <3>1, ColumnIs
    <3>3. Len(had) + 1 >= TextWidth
      BY <1>2, <1>8, <1>9, <1>15, WidthIs
    <3>4. TextWidth \in Nat
      BY WidthIs
    <3>5. Len(had) + 1 = TextWidth
      BY <1>2, <1>3, <3>2, <3>3, <3>4
    <3> QED BY <1>1, <1>2, <1>3, <3>1, <3>5
  <2>4. Column(t, i + 1) = 0
    BY <2>3, ColumnIs
  <2> HIDE DEF all
  <2>5. RowSoFar(t, b, num, all)
    <3> DEFINE e == b + Len(all)
    <3>1. e = i + 1
      BY <1>2, <2>2, <2>3
    <3>2. \A k \in 1 .. Len(all) : all[k].char = t[b + k - 1]
      <4>1. SUFFICES ASSUME NEW k \in 1 .. Len(all)
                     PROVE  all[k].char = t[b + k - 1]
        OBVIOUS
      <4>2. CASE k = Len(had) + 1
        <5>1. b + k - 1 = i
          BY <1>2, <2>3, <4>2
        <5> QED BY <1>6, <2>2, <4>2, <5>1 DEF Cell
      <4>3. CASE k # Len(had) + 1
        <5>1. k \in 1 .. Len(had)
          BY <1>2, <2>2, <4>3
        <5> QED BY <1>3, <2>2, <5>1
      <4> QED BY <4>2, <4>3
    <3>3. \A j \in b .. i : t[j] # NL
      BY <1>2, <1>3, <1>7, <2>3
    <3>4. Len(all) \in Nat /\ e <= Len(t) + 1
      BY <1>2, <2>2, <3>1
    <3>5. e - 1 = i
      BY <1>2, <3>1
    <3> HIDE DEF e
    <3>6. /\ \A j \in b .. e - 1 : t[j] # NL
          /\ \A j \in b + 1 .. e - 1 : j \notin RowStarts(t)
      BY <1>3, <3>3, <3>5
    <3> QED BY <1>3, <3>2, <3>4, <3>6 DEF RowSoFar, e
  <2>6. Shows(t, RowsBefore(t, b) + 1, row)
    <3> DEFINE e == b + Len(all)
    <3>1. e = i + 1
      BY <1>2, <2>2, <2>3
    <3>2. e = Len(t) + 1 \/ t[e] = NL \/ (e > b /\ e \in RowStarts(t))
      <4>1. e > b
        BY <1>2, <2>3, <3>1
      <4>2. e # Len(t) + 1 => e \in 1 .. Len(t)
        BY <1>2, <3>1
      <4> QED BY <2>4, <3>1, <4>1, <4>2, RowStartsAre
    <3> HIDE DEF e
    <3>3. e = b + Len(all)
      BY DEF e
    <3> QED BY <2>5, <3>2, <3>3, RowEnded
  <2>7. Shows(t, o + (Done(s) + 1), row)
    <3>1. RowsBefore(t, b) + 1 = o + (Done(s) + 1)
      BY <1>2, <1>3
    <3> QED BY <2>6, <3>1
  <2> HIDE DEF row
  <2>8. Complete(t, o, s1)
    BY <1>2, <2>1, <2>7, RowsStay
  <2>9. IF s1.new /\ s1.i = Len(t) + 1 THEN Len(TextRows(t)) <= o + Done(s1)
                                       ELSE Partial(t, o, s1)
    <3>1. Done(s1) \in Nat
      BY <1>2, <2>1
    <3>2. RowsBefore(t, i) + 1 = o + Done(s1)
      BY <1>2, <1>3, <2>1
    <3> QED BY <1>2, <1>7, <1>12, <1>15, <2>4, <3>1, <3>2, RowClosed
  <2> QED BY <1>12, <2>8, <2>9 DEF LayInv
<1>16. s1.new \in BOOLEAN
  BY <1>7 DEF Turn, LayState
<1> QED BY <1>14, <1>15, <1>16

\* After n turns the loop has stopped or is behind the n-th character.
Going(t, n, s) == Stopped(t, s) \/ s.i > n

LEMMA StepKeeps ==
  ASSUME NEW t, IsText(t), NoTabs(t), NEW o \in Nat, NEW s, LayType(t, s),
         LayInv(t, o, s), NEW found, NEW len \in Nat, Hits(t, found, len),
         NEW n \in Nat, Going(t, n, s), Numbered(WindowRows(t, o)),
         NEW s1, s1 = LayStep(t, found, len, s)
  PROVE  LayInv(t, o, s1) /\ Going(t, n + 1, s1)
<1>1. \/ Stopped(t, s) /\ s1 = s
      \/ /\ ~Stopped(t, s)
         /\ \/ Newline(t, s, s1) \/ Tab(t, s, s1)
            \/ Match(t, found, len, s, s1) \/ Character(t, s, s1)
  BY TurnIs
<1>2. CASE Stopped(t, s) /\ s1 = s
  BY <1>2 DEF Going
<1>3. CASE ~Stopped(t, s)
  <2>1. s.i \in 1 .. Len(t) /\ At(t, s.i) = t[s.i] /\ Len(t) \in Nat
    BY <1>3, OpenIs, TextIs
  <2>2. ~Tab(t, s, s1)
    BY <2>1, TextIs DEF Tab
  <2>3. LayInv(t, o, s1)
    BY <1>1, <1>3, <2>2, NewlineKeeps, MatchKeeps, CharacterKeeps
  <2>4. PICK k \in Nat \ {0} : s1.i = s.i + k
    <3>1. CASE Newline(t, s, s1)
      BY <3>1 DEF Newline, Turn
    <3>2. CASE Match(t, found, len, s, s1)
      BY <3>2 DEF Match, Turn, Hits
    <3>3. CASE Character(t, s, s1)
      BY <3>3 DEF Character, Turn
    <3> QED BY <1>1, <1>3, <2>2, <3>1, <3>2, <3>3
  <2>5. s.i > n
    BY <1>3 DEF Going
  <2>6. s1.i > n + 1
    BY <2>1, <2>4, <2>5
  <2> QED BY <2>3, <2>6 DEF Going
<1> QED BY <1>1, <1>2, <1>3

\* Where the loop begins.
LayFrom(t, offset) ==
  [i |-> Skipped(t, offset)[Len(t)].i, x |-> LINE_NUM_WIDTH,
   line |-> Skipped(t, offset)[Len(t)].line, rows |-> <<>>, new |-> TRUE]

LEMMA FromIs ==
  ASSUME NEW t, IsText(t), NoTabs(t), NEW o \in Nat,
         Numbered(WindowRows(t, o)), NEW s, s = LayFrom(t, o)
  PROVE  LayInv(t, o, s) /\ Going(t, 0, s)
<1>1. PICK k : k = Skipped(t, o)[Len(t)]
  OBVIOUS
<1>2. /\ k.i \in 1 .. Len(t) + 1 /\ k.line = LinesBefore(t, k.i)
      /\ k.i <= Len(t) => Column(t, k.i) = 0 /\ RowsBefore(t, k.i) = o
      /\ k.i = Len(t) + 1 => Cardinality(RowStarts(t)) <= o
      /\ Len(t) \in Nat
  BY <1>1, SkippedIs, TextIs
<1>3. /\ s.i = k.i /\ s.line = k.line /\ s.new /\ Len(s.rows) = 0
  BY <1>1 DEF LayFrom
<1>4. Done(s) = 0
  BY <1>3 DEF Done
<1>5. Complete(t, o, s)
  BY <1>4 DEF Complete
<1>6. CASE k.i = Len(t) + 1
  <2>1. Len(TextRows(t)) <= o + Done(s)
    BY <1>2, <1>4, <1>6, RowsAre
  <2> QED BY <1>2, <1>3, <1>5, <1>6, <2>1 DEF LayInv, Going
<1>7. CASE k.i # Len(t) + 1
  <2>1. k.i \in 1 .. Len(t)
    BY <1>2, <1>7
  <2>2. Column(t, s.i) = 0 /\ RowsBefore(t, s.i) = o + Done(s)
    BY <1>2, <1>3, <1>4, <2>1
  <2>3. Partial(t, o, s)
    BY <1>2, <1>3, <1>4, <2>1, <2>2, NewRow
  <2> QED BY <1>2, <1>3, <1>5, <1>7, <2>1, <2>3 DEF LayInv, Going
<1> QED BY <1>6, <1>7

\* The loop that skips leaves a state of the loop that prints, for any text.
LEMMA SkipTyped ==
  ASSUME NEW t, Len(t) \in Nat, NEW offset \in Nat
  PROVE  LET k == Skipped(t, offset)[Len(t)]
         IN  k.i \in Nat \ {0} /\ k.line \in Nat
<1> DEFINE f == Skipped(t, offset)
           P(n) == f[n].i \in Nat \ {0} /\ f[n].line \in Nat
           S == {n \in Nat : n <= Len(t) => P(n)}
<1>1. /\ f[0] = Skip0
      /\ \A n \in 1 .. Len(t) : f[n] = SkipOn(f[n - 1], t[n], offset)
  BY SkipIs
<1> HIDE DEF f
<1>2. 0 \in S
  BY <1>1 DEF Skip0
<1>3. ASSUME NEW n \in S PROVE n + 1 \in S
  <2>1. SUFFICES ASSUME n + 1 <= Len(t) PROVE P(n + 1)
    OBVIOUS
  <2>2. P(n) /\ f[n + 1] = SkipOn(f[n], t[n + 1], offset)
    BY <1>1, <2>1
  <2>3. SkipOn(f[n], t[n + 1], offset).i \in {f[n].i, f[n].i + 1}
        /\ SkipOn(f[n], t[n + 1], offset).line \in {f[n].line, f[n].line + 1}
    BY DEF SkipOn, SkipStep
  <2> QED BY <2>2, <2>3
<1>4. S = Nat
  <2> HIDE DEF S
  <2>1. S \in SUBSET Nat
    BY DEF S
  <2> QED BY <1>2, <1>3, <2>1, Induction
<1>5. P(Len(t))
  BY <1>4
<1> QED BY <1>5 DEF f

LEMMA FromTyped ==
  ASSUME NEW t, Len(t) \in Nat, NEW offset \in Nat
  PROVE  LayType(t, LayFrom(t, offset))
<1> DEFINE k == Skipped(t, offset)[Len(t)]
<1>1. k.i \in Nat \ {0} /\ k.line \in Nat
  BY SkipTyped
<1> HIDE DEF k
<1>2. LayFrom(t, offset) = [i |-> k.i, x |-> LINE_NUM_WIDTH, line |-> k.line,
                            rows |-> <<>>, new |-> TRUE]
  BY DEF LayFrom, k
<1>3. <<>> \in Seq(RowSet(t)) /\ Len(<<>>) = 0 /\ Window \in Nat
  BY ScreenAssumption DEF Window
<1> QED BY <1>1, <1>2, <1>3, WidthIs DEF LayType, LayState

LEMMA PrintIs ==
  ASSUME NEW t, NEW offset, NEW found, NEW len
  PROVE  PrintFileContents(t, offset, found, len)
           = Laid(t, found, len, LayFrom(t, offset))[Len(t)].rows
BY DEF PrintFileContents, LayFrom

\* A property of the states of the loop, by induction over its turns.
LEMMA LaidTyped ==
  ASSUME NEW t, IsText(t), NEW offset \in Nat, NEW found, NEW len \in Nat
  PROVE  \A n \in 0 .. Len(t) :
           LayType(t, Laid(t, found, len, LayFrom(t, offset))[n])
<1> DEFINE f == Laid(t, found, len, LayFrom(t, offset))
           S == {n \in Nat : n <= Len(t) => LayType(t, f[n])}
<1>1. /\ f[0] = LayFrom(t, offset) /\ Len(t) \in Nat
      /\ \A n \in 1 .. Len(t) : f[n] = LayStep(t, found, len, f[n - 1])
  BY LayIs, TextIs
<1> HIDE DEF f
<1>2. 0 \in S
  BY <1>1, FromTyped
<1>3. ASSUME NEW n \in S PROVE n + 1 \in S
  <2>1. SUFFICES ASSUME n + 1 <= Len(t) PROVE LayType(t, f[n + 1])
    OBVIOUS
  <2>2. LayType(t, f[n]) /\ f[n + 1] = LayStep(t, found, len, f[n])
    BY <1>1, <2>1
  <2> QED BY <2>2, StepTyped
<1>4. S = Nat
  <2> HIDE DEF S
  <2>1. S \in SUBSET Nat
    BY DEF S
  <2> QED BY <1>2, <1>3, <2>1, Induction
<1> QED BY <1>1, <1>4 DEF f

LEMMA LaidIs ==
  ASSUME NEW t, IsText(t), NoTabs(t), NEW offset \in Nat,
         NEW found, NEW len \in Nat, Hits(t, found, len),
         Numbered(WindowRows(t, offset)),
         NEW s, s = Laid(t, found, len, LayFrom(t, offset))[Len(t)]
  PROVE  LayInv(t, offset, s) /\ LayType(t, s) /\ Stopped(t, s)
<1> DEFINE f == Laid(t, found, len, LayFrom(t, offset))
           P(n) == LayInv(t, offset, f[n]) /\ Going(t, n, f[n])
           S == {n \in Nat : n <= Len(t) => P(n)}
<1>1. /\ f[0] = LayFrom(t, offset) /\ Len(t) \in Nat
      /\ \A n \in 1 .. Len(t) : f[n] = LayStep(t, found, len, f[n - 1])
      /\ \A n \in 0 .. Len(t) : LayType(t, f[n])
  BY LayIs, TextIs, LaidTyped
<1>2. s = f[Len(t)]
  OBVIOUS
<1> HIDE DEF f
<1>3. 0 \in S
  BY <1>1, FromIs
<1>4. ASSUME NEW n \in S PROVE n + 1 \in S
  <2>1. SUFFICES ASSUME n + 1 <= Len(t) PROVE P(n + 1)
    OBVIOUS
  <2>2. /\ P(n) /\ LayType(t, f[n])
        /\ f[n + 1] = LayStep(t, found, len, f[n])
    BY <1>1, <2>1
  <2> QED BY <2>2, StepKeeps
<1>5. S = Nat
  <2> HIDE DEF S
  <2>1. S \in SUBSET Nat
    BY DEF S
  <2> QED BY <1>3, <1>4, <2>1, Induction
<1>6. P(Len(t)) /\ LayType(t, s)
  BY <1>1, <1>2, <1>5
<1>7. Stopped(t, s)
  <2>1. s.i \in Nat \ {0}
    BY <1>6 DEF LayType, LayState
  <2>2. s.i > Len(t) => At(t, s.i) = NUL
    BY <2>1, AtIs
  <2> QED BY <1>2, <1>6, <2>2 DEF Going, Stopped
<1> QED BY <1>2, <1>6, <1>7

\* Where the loop stops, the window is full or the text is over.
LEMMA StopShows ==
  ASSUME NEW t, IsText(t), NEW o \in Nat, NEW s, LayInv(t, o, s),
         LayType(t, s), Stopped(t, s)
  PROVE  /\ \A r \in 1 .. Len(s.rows) : Shows(t, o + r, s.rows[r])
         /\ Len(s.rows) = Window \/ Len(TextRows(t)) <= o + Len(s.rows)
<1>1. /\ Done(s) \in Nat /\ Len(s.rows) \in Nat /\ Len(t) \in Nat
      /\ Len(s.rows) <= Window /\ Window \in Nat /\ s.new \in BOOLEAN
      /\ OpenRow(s) \in RowSet(t)
  <2>1. Len(t) \in Nat /\ Window \in Nat
    BY TextIs, ScreenAssumption DEF Window
  <2>2. Done(s) \in Nat /\ OpenRow(s) \in RowSet(t)
    BY StartRowIs
  <2>3. /\ Len(s.rows) \in Nat /\ Len(s.rows) <= Window /\ s.new \in BOOLEAN
    BY DEF LayType, LayState
  <2> QED BY <2>1, <2>2, <2>3
<1>2. /\ s.i \in 1 .. Len(t) + 1 /\ Complete(t, o, s)
      /\ IF s.new /\ s.i = Len(t) + 1 THEN Len(TextRows(t)) <= o + Done(s)
                                      ELSE Partial(t, o, s)
  BY DEF LayInv
<1>3. At(t, s.i) = NUL => s.i = Len(t) + 1
  BY <1>1, <1>2, AtIs
<1>4. CASE s.new
  <2>1. Done(s) = Len(s.rows)
    BY <1>4 DEF Done
  <2> QED BY <1>1, <1>2, <1>3, <1>4, <2>1 DEF Complete, Stopped
<1>5. CASE ~s.new
  <2>1. Done(s) = Len(s.rows) - 1 /\ OpenRow(s) = s.rows[Len(s.rows)]
    BY <1>5 DEF Done, OpenRow
  <2>2. s.i = Len(t) + 1
    BY <1>1, <1>3, <2>1 DEF Stopped
  <2>3. PICK b, num, cells : /\ cells = OpenRow(s).cells
                             /\ num = OpenRow(s).num /\ b = s.i - Len(cells)
    OBVIOUS
  <2>4. OpenRow(s) = [num |-> num, cells |-> cells] /\ Len(cells) \in Nat
    BY <1>1, <2>3 DEF RowSet
  <2>12. Done(s) < Window
    BY <1>1, <2>1
  <2>5. /\ b \in RowStarts(t) /\ num = 1 + LinesBefore(t, b)
        /\ RowsBefore(t, b) = o + Done(s) /\ RowsBefore(t, s.i) = o + Done(s)
        /\ Column(t, s.i) = Len(cells)
        /\ \A k \in 1 .. Len(cells) : cells[k].char = t[b + k - 1]
        /\ \A j \in b .. s.i - 1 : t[j] # NL
        /\ \A j \in b + 1 .. s.i : j \notin RowStarts(t)
    BY <1>2, <1>5, <2>3, <2>12 DEF Partial
  <2>6. b \in 1 .. Len(t) /\ s.i = b + Len(cells)
    <3>1. b \in 1 .. Len(t)
      BY <2>5, RowStartsAre
    <3> QED BY <1>1, <2>2, <2>3, <2>4, <3>1
  <2>7. RowSoFar(t, b, num, cells)
    <3> DEFINE e == b + Len(cells)
    <3>1. e = s.i /\ e - 1 = s.i - 1 /\ e <= Len(t) + 1
      BY <1>1, <2>2, <2>6
    <3> HIDE DEF e
    <3>2. /\ \A j \in b .. e - 1 : t[j] # NL
          /\ \A j \in b + 1 .. e - 1 : j \notin RowStarts(t)
      BY <1>1, <1>2, <2>5, <3>1
    <3> QED BY <2>4, <2>5, <3>1, <3>2 DEF RowSoFar, e
  <2>8. Shows(t, RowsBefore(t, b) + 1, s.rows[Len(s.rows)])
    BY <2>1, <2>2, <2>4, <2>6, <2>7, RowEnded
  <2>9. RowsBefore(t, b) + 1 = o + Len(s.rows)
    BY <1>1, <2>1, <2>5
  <2>10. Len(TextRows(t)) <= o + Len(s.rows)
    <3>1. Len(TextRows(t)) = 1 + RowsBefore(t, Len(t)) /\ Len(t) # 0
      BY <1>1, <2>6, RowsAre
    <3>2. Column(t, Len(t) + 1) # 0
      BY <1>1, <2>2, <2>4, <2>5, <2>6
    <3>3. RowsBefore(t, Len(t) + 1) = RowsBefore(t, Len(t))
          /\ RowsBefore(t, Len(t)) \in Nat
      <4>1. Len(t) \in Nat \ {0}
        BY <1>1, <3>1
      <4>2. /\ RowsBefore(t, Len(t)) \in Nat
            /\ RowsBefore(t, Len(t) + 1)
                 = RowsBefore(t, Len(t))
                     + (IF Column(t, Len(t) + 1) = 0 THEN 1 ELSE 0)
        BY <4>1, RowsBeforeIs
      <4> QED BY <3>2, <4>2
    <3> QED BY <1>1, <2>1, <2>2, <2>5, <3>1, <3>3
  <2>11. \A r \in 1 .. Len(s.rows) : r \in 1 .. Done(s) \/ r = Len(s.rows)
    BY <1>1, <2>1
  <2> QED BY <1>2, <2>8, <2>9, <2>10, <2>11 DEF Complete
<1> QED BY <1>1, <1>4, <1>5

PageOf(rows) == [r \in 1 .. Len(rows) |-> RowText(rows[r])]

\* The page is the rows of the text from the offset on.
LEMMA PagePrinted ==
  ASSUME NEW t, IsText(t), NoTabs(t), NEW offset \in Nat,
         NEW found, NEW len \in Nat, Hits(t, found, len),
         Numbered(WindowRows(t, offset)),
         NEW rows, rows = PrintFileContents(t, offset, found, len)
  PROVE  PageOf(rows) = WindowRows(t, offset)
<1>1. PICK s : s = Laid(t, found, len, LayFrom(t, offset))[Len(t)]
  OBVIOUS
<1>2. rows = s.rows
  BY <1>1, PrintIs
<1>3. LayInv(t, offset, s) /\ LayType(t, s) /\ Stopped(t, s)
  BY <1>1, LaidIs
<1>4. PICK n, m : n = Len(rows) /\ m = Len(TextRows(t))
  OBVIOUS
<1>5. /\ \A r \in 1 .. n : Shows(t, offset + r, rows[r])
      /\ n = Window \/ m <= offset + n
  BY <1>2, <1>3, <1>4, StopShows
<1>6. n \in Nat /\ m \in Nat /\ n <= Window /\ Window \in Nat
  BY <1>2, <1>3, <1>4, TextIs, RowsAre, ScreenAssumption
     DEF LayType, LayState, Window
<1>7. n > 0 => offset + n <= m
  <2>1. n > 0 => n \in 1 .. n
    BY <1>6
  <2> QED BY <1>4, <1>5, <2>1, <1>6 DEF Shows
<1> DEFINE T == {offset + Window, m}
           e == Min(T)
<1>8. e \in T /\ \A y \in T : e =< y
  <2>1. \E z \in T : \A y \in T : z =< y
    BY <1>6
  <2> QED BY <2>1, Zenon DEF Min
<1>9. e \in Nat /\ (e - offset = n \/ (n = 0 /\ e <= offset))
  <2>1. e \in Nat
    BY <1>6, <1>8
  <2> HIDE DEF e
  <2> QED BY <1>5, <1>6, <1>7, <1>8, <2>1
<1> HIDE DEF e, T
<1>10. \A r \in 1 .. n : RowText(rows[r]) = TextRows(t)[offset + r]
  BY <1>5 DEF Shows
<1>11. PageOf(rows) = [r \in 1 .. n |-> TextRows(t)[offset + r]]
  BY <1>4, <1>10 DEF PageOf
<1> DEFINE g == TextRows(t)
<1> HIDE DEF g
<1>12. SubSeq(g, offset + 1, e) = [r \in 1 .. n |-> g[offset + r]]
  <2> DEFINE a == offset + 1
  <2>1. SubSeq(g, a, e) = [r \in 1 .. 1 + e - a |-> g[r + a - 1]]
    BY <1>9
  <2>2. 1 .. 1 + e - a = 1 .. n
    BY <1>6, <1>9
  <2>3. \A r \in 1 .. n : r + a - 1 = offset + r
    BY <1>6
  <2> QED BY <2>1, <2>2, <2>3
<1> QED BY <1>4, <1>11, <1>12 DEF g, e, T, WindowRows

-----------------------------------------------------------------------------
(***************************************************************************)
(* What the loop highlights, in any text.                                  *)
(***************************************************************************)
\* The highlighted cells of a row belong to places of the term w.
Lit(cells, w) ==
  \A k \in 1 .. Len(cells) : cells[k].hi =>
    \E b \in 0 .. Len(w) - 1 :
      /\ k - b \in 1 .. Len(cells) - Len(w) + 1
      /\ \A j \in 1 .. Len(w) : cells[k - b + j - 1].char = w[j]

AllLit(s, w) == \A r \in 1 .. Len(s.rows) : Lit(s.rows[r].cells, w)

\* The matches are places of the term.
Places(t, found, w) ==
  \A i \in found : /\ i \in Nat \ {0}
                   /\ \A k \in 1 .. Len(w) : At(t, i + k - 1) = w[k]

LEMMA LitJoined ==
  ASSUME NEW S, NEW had \in Seq(S), NEW cells \in Seq(S),
         NEW w, Len(w) \in Nat, Lit(had, w),
         \/ \A k \in 1 .. Len(cells) : ~cells[k].hi
         \/ /\ Len(cells) = Len(w)
            /\ \A k \in 1 .. Len(w) : cells[k].char = w[k]
  PROVE  Lit(had \o cells, w)
<1> DEFINE all == had \o cells
<1>1. /\ Len(had) \in Nat /\ Len(cells) \in Nat
      /\ Len(all) = Len(had) + Len(cells)
      /\ \A k \in 1 .. Len(had) : all[k] = had[k]
      /\ \A k \in 1 .. Len(cells) : all[Len(had) + k] = cells[k]
  BY Joined
<1> HIDE DEF all
<1>2. SUFFICES ASSUME NEW k \in 1 .. Len(all), all[k].hi
               PROVE  \E b \in 0 .. Len(w) - 1 :
                        /\ k - b \in 1 .. Len(all) - Len(w) + 1
                        /\ \A j \in 1 .. Len(w) :
                             all[k - b + j - 1].char = w[j]
  BY DEF Lit, all
<1>3. CASE k \in 1 .. Len(had)
  <2>1. had[k].hi
    BY <1>1, <1>2, <1>3
  <2>2. PICK b \in 0 .. Len(w) - 1 :
          /\ k - b \in 1 .. Len(had) - Len(w) + 1
          /\ \A j \in 1 .. Len(w) : had[k - b + j - 1].char = w[j]
    BY <1>3, <2>1 DEF Lit
  <2>3. k - b \in 1 .. Len(all) - Len(w) + 1
    BY <1>1, <2>2
  <2>4. ASSUME NEW j \in 1 .. Len(w)
        PROVE  all[k - b + j - 1].char = w[j]
    <3> DEFINE p == k - b + j - 1
    <3>1. p \in 1 .. Len(had)
      BY <1>1, <2>2
    <3>2. had[p].char = w[j]
      BY <2>2
    <3> HIDE DEF p
    <3>3. all[p].char = w[j]
      BY <1>1, <3>1, <3>2
    <3> QED BY <3>3 DEF p
  <2> QED BY <2>3, <2>4
<1>4. CASE k \notin 1 .. Len(had)
  <2> DEFINE q == k - Len(had)
  <2>1. q \in 1 .. Len(cells) /\ Len(had) + q = k
    BY <1>1, <1>2, <1>4
  <2>2. all[k] = cells[q]
    BY <1>1, <2>1
  <2> HIDE DEF q
  <2>3. /\ Len(cells) = Len(w)
        /\ \A j \in 1 .. Len(w) : cells[j].char = w[j]
    BY <1>2, <2>1, <2>2
  <2> DEFINE b == q - 1
  <2>4. b \in 0 .. Len(w) - 1 /\ k - b = Len(had) + 1
    <3>1. q \in Nat /\ q >= 1 /\ q <= Len(w) /\ k = Len(had) + q
          /\ Len(had) \in Nat
      BY <1>1, <2>1, <2>3
    <3> QED BY <3>1
  <2> HIDE DEF b
  <2>5. k - b \in 1 .. Len(all) - Len(w) + 1
    BY <1>1, <2>3, <2>4
  <2>6. ASSUME NEW j \in 1 .. Len(w)
        PROVE  all[k - b + j - 1].char = w[j]
    <3>1. k - b + j - 1 = Len(had) + j /\ j \in 1 .. Len(cells)
      BY <1>1, <2>3, <2>4
    <3>2. all[Len(had) + j].char = w[j]
      BY <1>1, <2>3, <3>1
    <3> QED BY <3>1, <3>2
  <2> QED BY <2>4, <2>5, <2>6
<1> QED BY <1>3, <1>4

LEMMA TurnLit ==
  ASSUME NEW t, NEW s, LayType(t, s), ~Stopped(t, s), NEW s1, NEW n,
         NEW cells \in Seq(CellSet(t)), Turn(t, s, s1, n, cells),
         NEW w, Len(w) \in Nat, AllLit(s, w),
         \/ \A k \in 1 .. Len(cells) : ~cells[k].hi
         \/ /\ Len(cells) = Len(w)
            /\ \A k \in 1 .. Len(w) : cells[k].char = w[k]
  PROVE  AllLit(s1, w)
<1>1. PICK had : had = OpenRow(s).cells
  OBVIOUS
<1>2. /\ Done(s) \in Nat /\ Same(s, s1) /\ had \in Seq(CellSet(t))
      /\ s1.rows[Done(s) + 1].cells = had \o cells
  <2>1. Kept(t, s, s1, cells)
    BY TurnKeeps
  <2> QED BY <1>1, <2>1 DEF Kept
<1>3. Len(s1.rows) = Done(s) + 1 /\ Len(s.rows) \in Nat
  BY DEF Turn, LayType, LayState
<1>4. Done(s) <= Len(s.rows)
  BY <1>3 DEF Done
<1>5. Lit(had, w)
  <2>1. CASE s.new
    <3>1. Len(had) = 0
      BY <1>1, <2>1 DEF OpenRow
    <3> QED BY <3>1 DEF Lit
  <2>2. CASE ~s.new
    <3>1. Len(s.rows) \in 1 .. Len(s.rows) /\ had = s.rows[Len(s.rows)].cells
      BY <1>1, <1>3, <2>2 DEF OpenRow, LayType
    <3> QED BY <3>1 DEF AllLit
  <2> QED BY <2>1, <2>2
<1>6. Lit(had \o cells, w)
  BY <1>2, <1>5, LitJoined
<1>7. ASSUME NEW r \in 1 .. Len(s1.rows)
      PROVE  Lit(s1.rows[r].cells, w)
  <2>1. CASE r = Done(s) + 1
    BY <1>2, <1>6, <2>1
  <2>2. CASE r # Done(s) + 1
    <3>1. r \in 1 .. Done(s) /\ r \in 1 .. Len(s.rows)
      BY <1>2, <1>3, <1>4, <2>2
    <3>2. Above(s)[r] \in {s.rows[r], Row(0, <<>>)}
      BY <3>1, AboveIs DEF LayType
    <3>3. Lit(Row(0, <<>>).cells, w)
      BY DEF Lit, Row
    <3> QED BY <1>2, <3>1, <3>2, <3>3 DEF Same, AllLit
  <2> QED BY <2>1, <2>2
<1> QED BY <1>7 DEF AllLit

LEMMA StepLit ==
  ASSUME NEW t, IsText(t), NEW found, NEW w, Len(w) \in Nat,
         Places(t, found, w), NEW s, LayType(t, s), AllLit(s, w)
  PROVE  AllLit(LayStep(t, found, Len(w), s), w)
<1> DEFINE s1 == LayStep(t, found, Len(w), s)
<1>1. \/ Stopped(t, s) /\ s1 = s
      \/ /\ ~Stopped(t, s)
         /\ \/ Newline(t, s, s1) \/ Tab(t, s, s1)
            \/ Match(t, found, Len(w), s, s1) \/ Character(t, s, s1)
  BY TurnIs
<1> HIDE DEF s1
<1>2. \A a \in CellSet(t) : <<a>> \in Seq(CellSet(t)) /\ Len(<<a>>) = 1
                            /\ <<a>>[1] = a
  OBVIOUS
<1>3. <<>> \in Seq(CellSet(t)) /\ Len(<<>>) = 0
  OBVIOUS
<1>4. ASSUME ~Stopped(t, s), Newline(t, s, s1) PROVE AllLit(s1, w)
  <2>1. PICK none \in Seq(CellSet(t)) :
          Turn(t, s, s1, 1, none) /\ Len(none) = 0
    BY <1>3, <1>4 DEF Newline
  <2>2. \A k \in 1 .. Len(none) : ~none[k].hi
    BY <2>1
  <2> QED BY <1>4, <2>1, <2>2, TurnLit
<1>5. ASSUME ~Stopped(t, s), Tab(t, s, s1) PROVE AllLit(s1, w)
  <2>1. PICK cells \in Seq(CellSet(t)) :
          /\ Turn(t, s, s1, 1, cells)
          /\ \A k \in 1 .. Len(cells) : ~cells[k].hi
    BY <1>5 DEF Tab
  <2> QED BY <1>5, <2>1, TurnLit
<1>6. ASSUME ~Stopped(t, s), Match(t, found, Len(w), s, s1)
      PROVE  AllLit(s1, w)
  <2>1. PICK cells \in Seq(CellSet(t)) :
          /\ Turn(t, s, s1, Len(w), cells) /\ Len(cells) = Len(w)
          /\ \A k \in 1 .. Len(w) : cells[k] = Cell(At(t, s.i + k - 1), TRUE)
    BY <1>6 DEF Match
  <2>2. \A k \in 1 .. Len(w) : cells[k].char = w[k]
    <3>1. \A k \in 1 .. Len(w) : At(t, s.i + k - 1) = w[k]
      BY <1>6 DEF Match, Places
    <3>2. ASSUME NEW k \in 1 .. Len(w) PROVE cells[k].char = w[k]
      <4>1. cells[k] = Cell(w[k], TRUE)
        BY <2>1, <3>1
      <4> QED BY <4>1 DEF Cell
    <3> QED BY <3>2
  <2> QED BY <1>6, <2>1, <2>2, TurnLit
<1>7. ASSUME ~Stopped(t, s), Character(t, s, s1) PROVE AllLit(s1, w)
  <2>1. Cell(At(t, s.i), FALSE) \in CellSet(t) /\ ~Cell(At(t, s.i), FALSE).hi
    BY AtIs DEF Cell, CellSet, LayType, LayState
  <2>2. PICK cs \in {<<>>, <<Cell(At(t, s.i), FALSE)>>} :
          Turn(t, s, s1, 1, cs)
    BY <1>7 DEF Character
  <2>3. cs \in Seq(CellSet(t)) /\ \A k \in 1 .. Len(cs) : ~cs[k].hi
    <3>1. CASE cs = <<>>
      BY <1>3, <3>1
    <3>2. CASE cs = <<Cell(At(t, s.i), FALSE)>>
      <4>1. cs \in Seq(CellSet(t)) /\ Len(cs) = 1
            /\ cs[1] = Cell(At(t, s.i), FALSE)
        BY <1>2, <2>1, <3>2
      <4>2. \A k \in 1 .. Len(cs) : k = 1
        BY <4>1
      <4> QED BY <2>1, <4>1, <4>2
    <3> QED BY <2>2, <3>1, <3>2
  <2> QED BY <1>7, <2>2, <2>3, TurnLit
<1> QED BY <1>1, <1>4, <1>5, <1>6, <1>7 DEF s1

LEMMA PageLit ==
  ASSUME NEW t, IsText(t), NEW offset \in Nat, NEW found, NEW w,
         Len(w) \in Nat, Places(t, found, w),
         NEW rows, rows = PrintFileContents(t, offset, found, Len(w))
  PROVE  \A r \in 1 .. Len(rows) : Lit(rows[r].cells, w)
<1> DEFINE f == Laid(t, found, Len(w), LayFrom(t, offset))
           S == {n \in Nat : n <= Len(t) => AllLit(f[n], w)}
<1>1. /\ f[0] = LayFrom(t, offset) /\ Len(t) \in Nat
      /\ \A n \in 1 .. Len(t) : f[n] = LayStep(t, found, Len(w), f[n - 1])
      /\ \A n \in 0 .. Len(t) : LayType(t, f[n])
  BY LayIs, TextIs, LaidTyped
<1>2. rows = f[Len(t)].rows
  BY PrintIs
<1> HIDE DEF f
<1>3. 0 \in S
  <2>1. Len(f[0].rows) = 0
    BY <1>1 DEF LayFrom
  <2> QED BY <2>1 DEF AllLit
<1>4. ASSUME NEW n \in S PROVE n + 1 \in S
  <2>1. SUFFICES ASSUME n + 1 <= Len(t) PROVE AllLit(f[n + 1], w)
    OBVIOUS
  <2>2. /\ AllLit(f[n], w) /\ LayType(t, f[n])
        /\ f[n + 1] = LayStep(t, found, Len(w), f[n])
    BY <1>1, <2>1
  <2> QED BY <2>2, StepLit
<1>5. S = Nat
  <2> HIDE DEF S
  <2>1. S \in SUBSET Nat
    BY DEF S
  <2> QED BY <1>3, <1>4, <2>1, Induction
<1>6. AllLit(f[Len(t)], w)
  BY <1>1, <1>5
<1> QED BY <1>2, <1>6 DEF AllLit

-----------------------------------------------------------------------------
(***************************************************************************)
(* The invariant of the viewer.                                            *)
(***************************************************************************)
LEMMA TextsAre ==
  ASSUME NEW t \in Texts \cup {<<>>}
  PROVE  IsText(t) /\ Len(t) \in Nat /\ Len(t) + available_rows < W
<1>1. IsText(t)
  <2>1. <<>> \in Seq(ToSet(<<>>) \ {NUL})
    OBVIOUS
  <2> QED BY <2>1, TextsAssumption DEF IsText
<1>2. Len(<<>>) = 0
  OBVIOUS
<1>3. Len(t) \in Nat
  BY <1>1, TextIs
<1>4. Len(t) + available_rows < W
  <2>1. CASE t \in Texts
    BY <2>1, TextsAssumption
  <2>2. CASE t = <<>>
    BY <1>2, <2>2, ScreenAssumption
  <2> QED BY <2>1, <2>2
<1> QED BY <1>1, <1>3, <1>4

LEMMA TermsAre ==
  ASSUME NEW w \in Terms \cup {<<>>}
  PROVE  /\ Len(w) \in Nat /\ \A k \in 1 .. Len(w) : w[k] \notin {NUL, NL}
         /\ w # <<>> => Len(w) > 0
<1>1. w \in Seq(ToSet(w) \ {NUL, NL})
  <2>1. <<>> \in Seq(ToSet(<<>>) \ {NUL, NL})
    OBVIOUS
  <2> QED BY <2>1, TermsAssumption
<1> DEFINE S == ToSet(w) \ {NUL, NL}
<1>2. \A c \in S : c \notin {NUL, NL}
  OBVIOUS
<1> HIDE DEF S
<1>3. w \in Seq(S)
  BY <1>1 DEF S
<1> QED BY <1>2, <1>3

\* No more than MAX_MATCHES places are kept.
LEMMA FirstMatchesAre ==
  ASSUME NEW n \in Nat, NEW P \in SUBSET (1 .. n)
  PROVE  /\ FirstMatches(P) \subseteq P
         /\ Cardinality(FirstMatches(P)) <= MAX_MATCHES
<1> DEFINE F == FirstMatches(P)
           Before(i) == {j \in P : j < i}
<1>1. /\ F \subseteq P
      /\ \A i \in F : Cardinality(Before(i)) < MAX_MATCHES
  BY DEF FirstMatches
<1>2. /\ IsFiniteSet(P) /\ \A S \in SUBSET P : IsFiniteSet(S)
  <2>1. IsFiniteSet(1 .. n)
    BY FS_Interval
  <2>2. \A S \in SUBSET (1 .. n) : IsFiniteSet(S)
    BY <2>1, FS_Subset
  <2> QED BY <2>2
<1> HIDE DEF F
<1>3. CASE F = {}
  <2>1. Cardinality(F) = 0
    BY <1>3, FS_EmptySet
  <2> QED BY <1>1, <2>1, ScreenAssumption DEF F
<1>4. CASE F # {}
  <2> DEFINE B == {b \in Nat : \A i \in F : i <= b}
  <2>1. n \in B
    BY <1>1
  <2>2. \E m \in B : \A y \in B : <<y, m>> \notin OpToRel(<, Nat)
    <3>1. B # {} /\ B \in SUBSET Nat
      BY <2>1
    <3> HIDE DEF B
    <3> QED BY <3>1, NatLessThanWellFounded, WFMin, Zenon
  <2>3. PICK m \in B : \A y \in B : ~(y < m)
    BY <2>2 DEF OpToRel
  <2>4. m \in F
    <3>1. SUFFICES ASSUME m \notin F PROVE FALSE
      OBVIOUS
    <3>2. \A i \in F : i \in Nat \ {0} /\ i <= m /\ i # m
      BY <1>1, <2>3, <3>1
    <3>3. m - 1 \in Nat /\ \A i \in F : i <= m - 1
      BY <1>4, <2>3, <3>2
    <3>4. m - 1 \in B /\ m - 1 < m
      BY <2>3, <3>3
    <3> QED BY <2>3, <3>4
  <2>5. F \ {m} \subseteq Before(m)
    BY <1>1, <2>3
  <2>6. /\ IsFiniteSet(F) /\ IsFiniteSet(Before(m)) /\ IsFiniteSet(F \ {m})
    BY <1>1, <1>2
  <2> DEFINE c == Cardinality(Before(m))
             d == Cardinality(F \ {m})
             e == Cardinality(F)
  <2>7. d <= c /\ c \in Nat /\ d \in Nat
    BY <2>5, <2>6, FS_Subset, FS_CardinalityType
  <2>8. e = d + 1
    <3>1. m \notin F \ {m} /\ (F \ {m}) \cup {m} = F
      BY <2>4
    <3> QED BY <2>6, <2>7, <3>1, FS_AddElement
  <2>9. c < MAX_MATCHES
    BY <1>1, <2>4
  <2> HIDE DEF c, d, e
  <2>10. e <= MAX_MATCHES
    BY <2>7, <2>8, <2>9, ScreenAssumption
  <2>11. Cardinality(F) <= MAX_MATCHES
    BY <2>10 DEF e
  <2> QED BY <1>1, <2>11 DEF F
<1> QED BY <1>3, <1>4

\* What search finds is inside the text and in one line.
LEMMA FoundIs ==
  ASSUME NEW w \in Terms, w # <<>>, txt \in Texts \cup {<<>>},
         NEW found, found = FirstMatches(Found(w))
  PROVE  /\ found \subseteq Nat /\ Cardinality(found) <= MAX_MATCHES
         /\ Places(txt, found, w) /\ Hits(txt, found, Len(w))
<1>1. IsText(txt) /\ Len(txt) \in Nat
  BY TextsAre
<1>2. /\ Len(w) \in Nat \ {0}
      /\ \A k \in 1 .. Len(w) : w[k] \notin {NUL, NL}
  BY TermsAre
<1>3. found \subseteq Found(w) /\ Cardinality(found) <= MAX_MATCHES
  BY <1>1, FirstMatchesAre DEF Found
<1>4. \A i \in Found(w) :
        /\ i \in 1 .. Len(txt)
        /\ \A k \in 1 .. Len(w) : At(txt, i + k - 1) = w[k]
  BY DEF Found, Occurs
<1>5. ASSUME NEW i \in Found(w)
      PROVE  /\ i + Len(w) - 1 <= Len(txt)
             /\ \A j \in i .. i + Len(w) - 1 : txt[j] # NL
  <2>1. ASSUME NEW j \in i .. i + Len(w) - 1
        PROVE  j \in 1 .. Len(txt) /\ txt[j] # NL
    <3> DEFINE k == j - i + 1
    <3>1. k \in 1 .. Len(w) /\ i + k - 1 = j /\ j \in Nat \ {0}
      BY <1>1, <1>2, <1>4, <1>5
    <3> HIDE DEF k
    <3>2. At(txt, j) = w[k] /\ w[k] \notin {NUL, NL}
      BY <1>2, <1>4, <3>1
    <3> QED BY <1>1, <3>1, <3>2, AtIs
  <2>2. i + Len(w) - 1 \in i .. i + Len(w) - 1
    BY <1>1, <1>2, <1>4
  <2>3. i + Len(w) - 1 \in 1 .. Len(txt)
    BY <2>1, <2>2
  <2> QED BY <1>1, <2>1, <2>3
<1>6. Places(txt, found, w)
  BY <1>1, <1>3, <1>4 DEF Places
<1>7. Hits(txt, found, Len(w))
  BY <1>1, <1>2, <1>3, <1>4, <1>5 DEF Hits
<1>8. found \subseteq Nat
  BY <1>1, <1>3, <1>4
<1> QED BY <1>3, <1>6, <1>7, <1>8

\* A page that was printed with these matches.
LEMMA Printed ==
  ASSUME NEW t, IsText(t), NEW offset \in Nat, NEW found,
         NEW w, Len(w) \in Nat,
         NEW rows, rows = PrintFileContents(t, offset, found, Len(w))
  PROVE  /\ Len(rows) <= Window /\ \A r \in 1 .. Len(rows) : Fits(rows[r])
         /\ Places(t, found, w)
              => \A r \in 1 .. Len(rows) : Lit(rows[r].cells, w)
         /\ Hits(t, found, Len(w)) /\ NoTabs(t)
              => (Numbered(WindowRows(t, offset))
                    => PageOf(rows) = WindowRows(t, offset))
<1>1. PICK s : s = Laid(t, found, Len(w), LayFrom(t, offset))[Len(t)]
  OBVIOUS
<1>2. rows = s.rows
  BY <1>1, PrintIs
<1>3. Len(t) \in 0 .. Len(t)
  BY TextIs
<1>4. LayType(t, s)
  BY <1>1, <1>3, LaidTyped
<1>5. Len(rows) <= Window /\ \A r \in 1 .. Len(rows) : Fits(rows[r])
  BY <1>2, <1>4 DEF LayType
<1>6. Places(t, found, w) => \A r \in 1 .. Len(rows) : Lit(rows[r].cells, w)
  BY PageLit
<1>7. Hits(t, found, Len(w)) /\ NoTabs(t)
        => (Numbered(WindowRows(t, offset))
              => PageOf(rows) = WindowRows(t, offset))
  BY PagePrinted
<1> QED BY <1>5, <1>6, <1>7

MatchesFit ==
  fresh => Places(txt, matches, term) /\ Hits(txt, matches, Len(term))

\* The offset leaves the window inside a text that fills it.
ScrollInside ==
  Plain /\ Len(TextRows(txt)) >= Window =>
    scroll_offset + Window <= Len(TextRows(txt))

PageFits ==
  Len(page) <= Window /\ \A r \in 1 .. Len(page) : Fits(page[r])

PageLitFor ==
  pc = "mess" /\ fresh /\ term # <<>> =>
    \A r \in 1 .. Len(page) : Lit(page[r].cells, term)

StateOK ==
  /\ pc \in {"shell", "mess"} /\ txt \in Texts \cup {<<>>}
  /\ scroll_offset \in 0 .. MaxOffset
  /\ matches \subseteq Nat /\ Cardinality(matches) <= MAX_MATCHES
  /\ search_len = Len(term) /\ term \in Terms \cup {<<>>}
  /\ fresh \in BOOLEAN

MessInv ==
  /\ StateOK /\ MatchesFit /\ ScrollInside
  /\ PageFits /\ PageLitFor /\ PageIsText /\ ScrollStopsAtEnds

LEMMA InvGives ==
  ASSUME MessInv
  PROVE  TypeOK /\ PageIsText /\ HighlightsAreMatches /\ ScrollStopsAtEnds
<1>1. TypeOK
  BY DEF MessInv, StateOK, PageFits, Fits, TypeOK
<1>2. HighlightsAreMatches
  BY Zenon DEF MessInv, StateOK, PageLitFor, Lit, HighlightsAreMatches
<1> QED BY <1>1, <1>2 DEF MessInv

\* An action that prints leaves a page as it should be.
LEMMA PrintedPage ==
  ASSUME StateOK', MatchesFit',
         page' = PrintFileContents(txt, scroll_offset, matches, Len(term))'
  PROVE  PageFits' /\ PageLitFor' /\ PageIsText'
<1>1. PICK t, offset, found, w, rows :
        /\ t = txt' /\ offset = scroll_offset' /\ found = matches'
        /\ w = term' /\ rows = page'
  OBVIOUS
<1>2. rows = PrintFileContents(t, offset, found, Len(w))
  BY <1>1
<1>3. IsText(t) /\ offset \in Nat /\ Len(w) \in Nat
  BY <1>1, TextsAre, TermsAre DEF StateOK
<1>4. /\ Len(rows) <= Window /\ \A r \in 1 .. Len(rows) : Fits(rows[r])
      /\ Places(t, found, w) => \A r \in 1 .. Len(rows) : Lit(rows[r].cells, w)
      /\ Hits(t, found, Len(w)) /\ NoTabs(t)
           => (Numbered(WindowRows(t, offset))
                 => PageOf(rows) = WindowRows(t, offset))
  BY <1>2, <1>3, Printed
<1>5. fresh' => Places(t, found, w) /\ Hits(t, found, Len(w))
  BY <1>1 DEF MatchesFit
<1>6. PageFits' /\ PageLitFor'
  BY <1>1, <1>4, <1>5 DEF PageFits, PageLitFor
<1>7. PageIsText'
  BY <1>1, <1>4, <1>5
     DEF PageIsText, PageText, PageOf, RowText, Plain, NoTabs
<1> QED BY <1>6, <1>7

LEMMA BoundsAre ==
  /\ Window \in Nat \ {0} /\ MaxOffset \in Nat \ {0} /\ MAX_MATCHES \in Nat
  /\ 0 \in 0 .. MaxOffset /\ 0 <= MAX_MATCHES /\ 0 <= Window
  /\ 0 + Window = Window
BY ScreenAssumption DEF Window

\* A difference below zero, modulo.
LEMMA Wraps ==
  ASSUME NEW m \in Nat \ {0}, NEW r \in 0 .. m - 1
  PROVE  /\ r % m = r /\ (r - m) % m = r
<1>1. PICK q \in Int, z \in Int : q = 0 - 1 /\ z = 0
  OBVIOUS
<1>2. m * q + r = r - m /\ m * z + r = r
  BY <1>1
<1>3. (m * q + r) % m = r /\ (m * z + r) % m = r
  BY Division
<1> QED BY <1>2, <1>3

LEMMA MaxScrollIs ==
  ASSUME StateOK, Plain
  PROVE  /\ Len(TextRows(txt)) \in Nat /\ MaxScroll \in Nat
         /\ Len(TextRows(txt)) >= Window =>
              MaxScroll = Len(TextRows(txt)) - Window
         /\ Len(TextRows(txt)) < Window => MaxScroll >= MaxOffset
<1>1. /\ IsText(txt) /\ Len(txt) \in Nat /\ Len(txt) + available_rows < W
      /\ NoTabs(txt)
  BY TextsAre DEF StateOK, Plain, NoTabs
<1>2. PICK l : l = Len(TextRows(txt))
  OBVIOUS
<1>3. CountVisualLines(txt) = l
  BY <1>1, <1>2, VisualLines
<1>4. l \in Nat /\ l <= Len(txt)
  <2>1. l = Cardinality(RowStarts(txt)) /\ l \in Nat
    BY <1>1, <1>2, RowsAre
  <2>2. IsFiniteSet(1 .. Len(txt)) /\ Cardinality(1 .. Len(txt)) = Len(txt)
    <3>1. 1 \in Int /\ Len(txt) \in Int
      BY <1>1
    <3>2. /\ IsFiniteSet(1 .. Len(txt))
          /\ Cardinality(1 .. Len(txt))
               = IF 1 > Len(txt) THEN 0 ELSE Len(txt) - 1 + 1
      BY <3>1, FS_Interval
    <3> QED BY <1>1, <3>2
  <2>3. RowStarts(txt) \subseteq 1 .. Len(txt)
    BY RowStartsAre
  <2>4. Cardinality(RowStarts(txt)) <= Cardinality(1 .. Len(txt))
    BY <2>2, <2>3, FS_Subset
  <2> QED BY <2>1, <2>2, <2>4
<1>5. /\ W \in Nat \ {0} /\ available_rows \in Nat \ {0, 1}
      /\ MaxOffset \in Nat /\ MaxOffset + available_rows <= W
      /\ Window = available_rows - 1
  BY ScreenAssumption DEF Window
<1>6. MaxScroll = (l - Window) % W
  BY <1>3 DEF MaxScroll, Window
<1>7. CASE l >= Window
  <2>1. l - Window \in 0 .. W - 1
    BY <1>1, <1>4, <1>5, <1>7
  <2>2. (l - Window) % W = l - Window
    BY <1>5, <2>1, Wraps
  <2> QED BY <1>2, <1>4, <1>5, <1>6, <1>7, <2>1, <2>2
<1>8. CASE l < Window
  <2> DEFINE r == l - Window + W
  <2>1. r \in 0 .. W - 1 /\ r - W = l - Window /\ r >= MaxOffset
    BY <1>4, <1>5, <1>8
  <2> HIDE DEF r
  <2>2. (r - W) % W = r
    BY <1>5, <2>1, Wraps
  <2> QED BY <1>2, <1>4, <1>5, <1>6, <1>8, <2>1, <2>2
<1> QED BY <1>4, <1>5, <1>7, <1>8

LEMMA StartKeeps ==
  ASSUME MessInv, NEW t \in Texts, Start(t)
  PROVE  MessInv'
<1>1. StateOK'
  <2>1. /\ pc' = "mess" /\ txt' = t /\ scroll_offset' = 0
        /\ fresh' \in BOOLEAN
        /\ UNCHANGED <<matches, search_len, term>>
    BY DEF Start
  <2> QED BY <2>1, BoundsAre DEF MessInv, StateOK
<1>2. MatchesFit'
  <2>1. fresh' => matches = {} \/ (fresh /\ txt' = txt)
    BY DEF Start
  <2> QED BY <2>1 DEF MessInv, MatchesFit, Start, Places, Hits
<1>3. page' = PrintFileContents(txt, scroll_offset, matches, Len(term))'
  BY DEF MessInv, StateOK, Start
<1>4. ScrollInside'
  <2>1. 0 + Window = Window /\ scroll_offset' = 0
    BY BoundsAre DEF Start
  <2> QED BY <2>1 DEF ScrollInside
<1>5. ScrollStopsAtEnds'
  BY DEF Start, ScrollStopsAtEnds
<1> QED BY <1>1, <1>2, <1>3, <1>4, <1>5, PrintedPage DEF MessInv

LEMMA ScrollDownKeeps ==
  ASSUME MessInv, ScrollDown
  PROVE  MessInv'
<1>1. StateOK
  BY DEF MessInv
<1>2. StateOK'
  <2>1. scroll_offset' \in {scroll_offset, scroll_offset + 1}
        /\ scroll_offset < MaxOffset
        /\ UNCHANGED <<pc, txt, matches, search_len, term, fresh>>
    BY DEF ScrollDown
  <2>2. scroll_offset \in 0 .. MaxOffset /\ MaxOffset \in Nat
    BY <1>1, BoundsAre DEF StateOK
  <2>3. scroll_offset' \in 0 .. MaxOffset
    BY <2>1, <2>2
  <2> QED BY <1>1, <2>1, <2>3 DEF StateOK
<1>3. MatchesFit'
  BY DEF MessInv, MatchesFit, ScrollDown
<1>4. Plain' = Plain /\ TextRows(txt)' = TextRows(txt) /\ txt' = txt
  BY DEF ScrollDown, Plain
<1>5. Window \in Nat /\ scroll_offset \in Nat /\ scroll_offset < MaxOffset
      /\ MaxOffset \in Nat
  <2>1. scroll_offset < MaxOffset
    BY DEF ScrollDown
  <2>2. scroll_offset \in 0 .. MaxOffset
    BY <1>1 DEF StateOK
  <2> QED BY <2>1, <2>2, BoundsAre
<1>6. CASE scroll_offset < MaxScroll
  <2>1. /\ scroll_offset' = scroll_offset + 1 /\ status' = "scroll down"
        /\ page' = PrintFileContents(txt, scroll_offset, matches, Len(term))'
    BY <1>1, <1>6 DEF ScrollDown, PrintStatusLine, StateOK
  <2>2. PageFits' /\ PageLitFor' /\ PageIsText'
    BY <1>2, <1>3, <2>1, PrintedPage
  <2>3. Plain /\ Len(TextRows(txt)) >= Window =>
          scroll_offset + 1 + Window <= Len(TextRows(txt))
    BY <1>1, <1>5, <1>6, MaxScrollIs
  <2>4. ScrollInside'
    BY <1>4, <2>1, <2>3 DEF ScrollInside
  <2>5. ScrollStopsAtEnds'
    BY <1>4, <2>1, <2>3 DEF ScrollStopsAtEnds
  <2> QED BY <1>2, <1>3, <2>2, <2>4, <2>5 DEF MessInv
<1>7. CASE ~(scroll_offset < MaxScroll)
  <2>1. /\ scroll_offset' = scroll_offset /\ status' = "bottom of file"
        /\ page' = page
        /\ UNCHANGED <<pc, txt, matches, search_len, term, fresh>>
    BY <1>7 DEF ScrollDown, PrintStatusLine
  <2>2. PageFits' /\ PageLitFor' /\ PageIsText' /\ ScrollInside'
    BY <2>1 DEF MessInv, PageFits, PageLitFor, PageIsText, PageText,
                ScrollInside, Plain
  <2>3. Plain => scroll_offset + Window = Len(TextRows(txt))
    <3>1. SUFFICES ASSUME Plain
                   PROVE  scroll_offset + Window = Len(TextRows(txt))
      OBVIOUS
    <3> DEFINE l == Len(TextRows(txt))
               m == MaxScroll
    <3>2. /\ l \in Nat /\ m \in Nat /\ (l >= Window => m = l - Window)
          /\ (l < Window => m >= MaxOffset)
          /\ ~(scroll_offset < m)
      BY <1>1, <1>7, <3>1, MaxScrollIs
    <3>3. l >= Window => scroll_offset + Window <= l
      BY <3>1 DEF MessInv, ScrollInside
    <3> HIDE DEF l, m
    <3>5. scroll_offset + Window = l
      BY <1>5, <3>2, <3>3
    <3> QED BY <3>5 DEF l
  <2>4. ScrollStopsAtEnds'
    BY <1>4, <2>1, <2>3 DEF ScrollStopsAtEnds
  <2> QED BY <1>2, <1>3, <2>2, <2>4 DEF MessInv
<1> QED BY <1>6, <1>7

LEMMA ScrollUpKeeps ==
  ASSUME MessInv, ScrollUp
  PROVE  MessInv'
<1>1. StateOK
  BY DEF MessInv
<1>2. StateOK'
  <2>1. \/ scroll_offset' = scroll_offset
        \/ scroll_offset > 0 /\ scroll_offset' = scroll_offset - 1
    BY DEF ScrollUp
  <2>2. scroll_offset \in 0 .. MaxOffset /\ MaxOffset \in Nat
    BY <1>1, BoundsAre DEF StateOK
  <2>3. scroll_offset' \in 0 .. MaxOffset
    BY <2>1, <2>2
  <2>4. UNCHANGED <<pc, txt, matches, search_len, term, fresh>>
    BY DEF ScrollUp
  <2> QED BY <1>1, <2>3, <2>4 DEF StateOK
<1>3. MatchesFit'
  BY DEF MessInv, MatchesFit, ScrollUp
<1>4. Plain' = Plain /\ TextRows(txt)' = TextRows(txt) /\ txt' = txt
  BY DEF ScrollUp, Plain
<1>5. Window \in Nat /\ scroll_offset \in Nat
  BY <1>1, BoundsAre DEF StateOK
<1>6. CASE scroll_offset > 0
  <2>1. /\ scroll_offset' = scroll_offset - 1 /\ status' = "scroll up"
        /\ page' = PrintFileContents(txt, scroll_offset, matches, Len(term))'
    BY <1>1, <1>6 DEF ScrollUp, PrintStatusLine, StateOK
  <2>2. PageFits' /\ PageLitFor' /\ PageIsText'
    BY <1>2, <1>3, <2>1, PrintedPage
  <2>3. ScrollInside'
    <3>1. SUFFICES ASSUME Plain, Len(TextRows(txt)) >= Window
                   PROVE  scroll_offset - 1 + Window <= Len(TextRows(txt))
      BY <1>4, <2>1 DEF ScrollInside
    <3>2. Len(TextRows(txt)) \in Nat
      BY <1>1, <3>1, MaxScrollIs
    <3>3. scroll_offset + Window <= Len(TextRows(txt))
      BY <3>1 DEF MessInv, ScrollInside
    <3> QED BY <1>5, <3>2, <3>3
  <2>4. ScrollStopsAtEnds'
    BY <2>1 DEF ScrollStopsAtEnds
  <2> QED BY <1>2, <1>3, <2>2, <2>3, <2>4 DEF MessInv
<1>7. CASE ~(scroll_offset > 0)
  <2>1. /\ scroll_offset' = scroll_offset /\ status' = "top of file"
        /\ page' = page /\ scroll_offset = 0
        /\ UNCHANGED <<pc, txt, matches, search_len, term, fresh>>
    <3>1. scroll_offset = 0
      BY <1>5, <1>7
    <3> QED BY <1>7, <3>1 DEF ScrollUp, PrintStatusLine
  <2>2. PageFits' /\ PageLitFor' /\ PageIsText' /\ ScrollInside'
    BY <2>1 DEF MessInv, PageFits, PageLitFor, PageIsText, PageText,
                ScrollInside, Plain
  <2>3. ScrollStopsAtEnds'
    BY <2>1 DEF ScrollStopsAtEnds
  <2> QED BY <1>2, <1>3, <2>2, <2>3 DEF MessInv
<1> QED BY <1>6, <1>7

LEMMA SearchKeeps ==
  ASSUME MessInv, NEW w \in Terms, Search(w)
  PROVE  MessInv'
<1>1. StateOK /\ MatchesFit
  BY DEF MessInv
<1>2. /\ UNCHANGED <<pc, txt, scroll_offset>>
      /\ search_len' = Len(w) /\ term' = w /\ fresh' = (fresh \/ w # <<>>)
  BY DEF Search
<1>3. ScrollInside'
  BY <1>2 DEF MessInv, ScrollInside, Plain
<1>4. CASE w = <<>>
  <2>1. /\ matches' = {} /\ status' = "empty search" /\ page' = page
        /\ fresh' = fresh
    BY <1>1, <1>2, <1>4 DEF Search, PrintStatusLine, StateOK
  <2>2. StateOK'
    <3>1. Cardinality({}) = 0
      BY FS_EmptySet
    <3>2. matches' \subseteq Nat /\ Cardinality(matches') <= MAX_MATCHES
      BY <2>1, <3>1, BoundsAre
    <3> QED BY <1>1, <1>2, <2>1, <3>2 DEF StateOK
  <2>3. MatchesFit' /\ PageLitFor'
    BY <1>2, <1>4, <2>1 DEF MatchesFit, Places, Hits, PageLitFor
  <2>4. PageFits' /\ PageIsText' /\ ScrollStopsAtEnds'
    <3>1. PageFits' /\ PageIsText'
      <4>1. UNCHANGED <<pc, txt, scroll_offset, page, fresh>>
        BY <1>2, <2>1
      <4> QED BY <4>1 DEF MessInv, PageFits, PageIsText, PageText, Plain
    <3>2. ScrollStopsAtEnds'
      BY <2>1 DEF ScrollStopsAtEnds
    <3> QED BY <3>1, <3>2
  <2> QED BY <1>3, <2>2, <2>3, <2>4 DEF MessInv
<1>5. CASE w # <<>>
  <2>1. PICK found : found = FirstMatches(Found(w))
    OBVIOUS
  <2>2. /\ matches' = found
        /\ status' \in {"match(es) found", "no matches"}
        /\ page' = PrintFileContents(txt, scroll_offset, matches, Len(term))'
    BY <1>2, <1>5, <2>1 DEF Search, PrintStatusLine
  <2>3. /\ found \subseteq Nat /\ Cardinality(found) <= MAX_MATCHES
        /\ Places(txt, found, w) /\ Hits(txt, found, Len(w))
    BY <1>1, <1>5, <2>1, FoundIs DEF StateOK
  <2>4. StateOK' /\ MatchesFit'
    BY <1>1, <1>2, <2>2, <2>3 DEF StateOK, MatchesFit
  <2>5. PageFits' /\ PageLitFor' /\ PageIsText'
    BY <2>2, <2>4, PrintedPage
  <2>6. ScrollStopsAtEnds'
    BY <2>2 DEF ScrollStopsAtEnds
  <2> QED BY <1>3, <2>4, <2>5, <2>6 DEF MessInv
<1> QED BY <1>4, <1>5

LEMMA QuitKeeps ==
  ASSUME MessInv, Quit
  PROVE  MessInv'
<1>1. /\ pc' = "shell" /\ page' = <<>>
      /\ UNCHANGED <<txt, scroll_offset, matches, search_len, term, fresh>>
  BY DEF Quit
<1>2. StateOK' /\ MatchesFit' /\ ScrollInside'
  BY <1>1 DEF MessInv, StateOK, MatchesFit, ScrollInside, Plain
<1>3. PageFits'
  <2>1. Len(page') = 0
    BY <1>1
  <2> QED BY <2>1, ScreenAssumption DEF PageFits, Window
<1>4. PageLitFor' /\ PageIsText' /\ ScrollStopsAtEnds'
  BY <1>1 DEF PageLitFor, PageIsText, ScrollStopsAtEnds
<1> QED BY <1>2, <1>3, <1>4 DEF MessInv

LEMMA InitFits == Init => MessInv
<1>1. SUFFICES ASSUME Init PROVE MessInv
  OBVIOUS
<1>2. StateOK
  <2>1. Cardinality({}) = 0 /\ Len(<<>>) = 0
    BY FS_EmptySet
  <2>2. /\ pc = "shell" /\ txt = <<>> /\ scroll_offset = 0 /\ matches = {}
        /\ search_len = 0 /\ term = <<>> /\ fresh = TRUE
    BY <1>1 DEF Init
  <2>3. Cardinality(matches) <= MAX_MATCHES
    BY <2>1, <2>2, BoundsAre
  <2> QED BY <2>1, <2>2, <2>3, BoundsAre DEF StateOK
<1>3. MatchesFit
  BY <1>1 DEF Init, MatchesFit, Places, Hits
<1>4. Window \in Nat /\ Len(page) = 0
  BY <1>1, BoundsAre DEF Init
<1>5. ScrollInside
  <2>1. scroll_offset + Window = Window
    BY <1>1, BoundsAre DEF Init
  <2> QED BY <2>1 DEF ScrollInside
<1>6. PageFits /\ PageLitFor /\ PageIsText /\ ScrollStopsAtEnds
  <2>1. pc = "shell" /\ Len(page) <= Window
    BY <1>1, <1>4, BoundsAre DEF Init
  <2>2. PageFits
    BY <1>4, <2>1 DEF PageFits
  <2> QED BY <2>1, <2>2 DEF PageLitFor, PageIsText, ScrollStopsAtEnds
<1> QED BY <1>2, <1>3, <1>5, <1>6 DEF MessInv

LEMMA NextKeeps == MessInv /\ [Next]_vars => MessInv'
<1>1. SUFFICES ASSUME MessInv, [Next]_vars PROVE MessInv'
  OBVIOUS
<1>2. ASSUME UNCHANGED vars PROVE MessInv'
  BY <1>1, <1>2
     DEF vars, MessInv, StateOK, MatchesFit, ScrollInside, PageFits,
         PageLitFor, PageIsText, PageText, ScrollStopsAtEnds, Plain
<1> QED BY <1>1, <1>2, StartKeeps, ScrollDownKeeps, ScrollUpKeeps,
           SearchKeeps, QuitKeeps DEF Next

\* What the page was printed from stays related to it.
THEOREM Invariant == Spec => []MessInv
BY InitFits, NextKeeps, PTL DEF Spec

\* The page and the matches have the size of the window and of match_indices.
THEOREM TypeCorrect == Spec => []TypeOK
BY Invariant, InvGives, PTL

\* The window shows the rows of the text from the scroll offset on, whatever
\* was searched for, if the numbers of these rows fit LINE_NUM_WIDTH: behind
\* a longer one mess.c:178 prints blanks until the page is gone.
THEOREM PageShown == Spec => []PageIsText
BY Invariant, InvGives, PTL

\* Only places of the term are highlighted.
THEOREM HighlightsShown == Spec => []HighlightsAreMatches
BY Invariant, InvGives, PTL

\* "bottom of file" appears with the last row in the window and only then.
THEOREM ScrollEnds == Spec => []ScrollStopsAtEnds
BY Invariant, InvGives, PTL

=============================================================================
