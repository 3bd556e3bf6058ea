---------------------------- MODULE Console_proofs ---------------------------
(***************************************************************************)
(* Proofs about Console, for every size of the screen and of the caller's  *)
(* buffer, every alphabet and every width of the counter: the screen shows *)
(* the end of the text, the only block on it is the cursor, and Enter      *)
(* returns the line that was shown.                                        *)
(*                                                                         *)
(* ScreenShowsText says what is seen where there is no block, so it alone  *)
(* is not inductive: what is under a block comes to light when the block   *)
(* is erased.  Erasing paints the cell the cursor is on, and only together *)
(* with BlockIsCursor is that the cell of the block; that no character is  *)
(* lost by it is because no character of the text is placed where the next *)
(* one goes (EndIsBlank).  For LineReturned the buffer is related to the   *)
(* text at every key (LineInv), and that a backspace takes one character   *)
(* of both needs the cursor's column, from ScreenShowsText.                *)
(***************************************************************************)
EXTENDS Console, WellFoundedInduction, TLAPS

Chars == Letters \cup {NL}

\* Where the next character goes after one at p.
Origin == [row |-> 0, col |-> 0]
After(p, c) ==
  IF c = NL \/ p.col + 1 = MAX_COLS
    THEN [row |-> p.row + 1, col |-> 0]
    ELSE [row |-> p.row, col |-> p.col + 1]

IsPlace(f, t) ==
  f = [n \in 1 .. Len(t) + 1 |->
         IF n = 1 THEN Origin ELSE After(f[n - 1], t[n - 1])]

End(t) == Place(t)[Len(t) + 1]

Before(p, q) == p.row < q.row \/ (p.row = q.row /\ p.col < q.col)

-----------------------------------------------------------------------------
(***************************************************************************)
(* The page.  Place is defined by recursion; what it computes follows by   *)
(* induction on the length of the text, in the form of a set of numbers    *)
(* that contains 0 and, with each number, the next.                        *)
(***************************************************************************)
\* A set of numbers with 0 and the successor of each of its members has all.
LEMMA Induction ==
  ASSUME NEW S \in SUBSET Nat, 0 \in S, \A n \in S : n + 1 \in S
  PROVE  S = Nat
<1>1. SUFFICES ASSUME Nat \ S # {}
               PROVE  FALSE
  OBVIOUS
<1>2. \E x \in Nat \ S : \A y \in Nat \ S : <<y, x>> \notin OpToRel(<, Nat)
  <2>1. Nat \ S \in SUBSET Nat
    OBVIOUS
  <2> QED
    BY <1>1, <2>1, NatLessThanWellFounded, WFMin, Zenon
<1>3. PICK x \in Nat \ S : \A y \in Nat \ S : ~(y < x)
  BY <1>2 DEF OpToRel
<1>4. x - 1 \in Nat /\ x - 1 < x
  BY <1>3
<1>5. x - 1 \in S
  BY <1>3, <1>4
<1> QED
  BY <1>3, <1>4, <1>5

\* Appending leaves the characters before.
LEMMA Appended ==
  ASSUME NEW t \in Seq(Chars), NEW c \in Chars
  PROVE  /\ Append(t, c) \in Seq(Chars)
         /\ Len(Append(t, c)) = Len(t) + 1 /\ Len(t) \in Nat
         /\ \A n \in 1 .. Len(t) : Append(t, c)[n] = t[n] /\ t[n] \in Chars
         /\ Append(t, c)[Len(t) + 1] = c
OBVIOUS

\* So does taking the last one away.
LEMMA FrontKeeps ==
  ASSUME NEW t \in Seq(Chars), Len(t) > 0
  PROVE  /\ Front(t) \in Seq(Chars) /\ Len(Front(t)) = Len(t) - 1
         /\ \A n \in 1 .. Len(t) - 1 : Front(t)[n] = t[n]
<1>1. PICK k \in Nat : k = Len(t) - 1
  OBVIOUS
<1>2. SubSeq(t, 1, k) \in Seq(Chars) /\ Len(SubSeq(t, 1, k)) = k
  BY <1>1
<1>3. ASSUME NEW n \in 1 .. k
      PROVE  SubSeq(t, 1, k)[n] = t[n]
  BY <1>1
<1> QED
  BY <1>1, <1>2, <1>3 DEF Front

\* The recursive definition defines a function.
LEMMA PlaceIsFunction ==
  ASSUME NEW t \in Seq(Chars)
  PROVE  IsPlace(Place(t), t)
<1> DEFINE S == {n \in Nat : \A s \in Seq(Chars) :
                               Len(s) = n => \E f : IsPlace(f, s)}
<1>1. 0 \in S
  <2>1. SUFFICES ASSUME NEW s \in Seq(Chars), Len(s) = 0
                 PROVE  \E f : IsPlace(f, s)
    OBVIOUS
  <2> DEFINE f == [n \in 1 .. 1 |-> Origin]
  <2>2. IsPlace(f, s)
    BY <2>1 DEF IsPlace
  <2> QED
    BY <2>2
<1>2. ASSUME NEW n \in S
      PROVE  n + 1 \in S
  <2>1. SUFFICES ASSUME NEW s \in Seq(Chars), Len(s) = n + 1
                 PROVE  \E f : IsPlace(f, s)
    OBVIOUS
  <2>2. /\ Front(s) \in Seq(Chars) /\ Len(Front(s)) = n
        /\ \A i \in 1 .. n : Front(s)[i] = s[i]
    BY <2>1, FrontKeeps
  <2>3. PICK f : IsPlace(f, Front(s))
    BY <2>2
  <2> DEFINE g == [i \in 1 .. n + 2 |->
                     IF i = n + 2 THEN After(f[n + 1], s[n + 1]) ELSE f[i]]
  <2>4. ASSUME NEW i \in 1 .. n + 2
        PROVE  g[i] = IF i = 1 THEN Origin ELSE After(g[i - 1], s[i - 1])
    <3>1. CASE i = n + 2
      BY <3>1
    <3>2. CASE i \in 1 .. n + 1
      <4>1. g[i] = f[i]
        BY <3>2
      <4>2. f[i] = IF i = 1 THEN Origin ELSE After(f[i - 1], Front(s)[i - 1])
        BY <2>2, <2>3, <3>2 DEF IsPlace
      <4>3. i # 1 => g[i - 1] = f[i - 1] /\ Front(s)[i - 1] = s[i - 1]
        BY <2>2, <3>2
      <4> QED
        BY <4>1, <4>2, <4>3
    <3> QED
      BY <3>1, <3>2
  <2>5. IsPlace(g, s)
    <3>1. g = [i \in 1 .. n + 2 |-> g[i]]
      OBVIOUS
    <3>2. 1 .. Len(s) + 1 = 1 .. n + 2
      BY <2>1
    <3> HIDE DEF g
    <3>3. g = [i \in 1 .. n + 2 |->
                 IF i = 1 THEN Origin ELSE After(g[i - 1], s[i - 1])]
      BY <2>4, <3>1
    <3> QED
      BY <3>2, <3>3, Zenon DEF IsPlace
  <2> QED
    BY <2>5
<1>3. S = Nat
  <2> HIDE DEF S
  <2>1. S \in SUBSET Nat
    BY DEF S
  <2> QED
    BY <1>1, <1>2, <2>1, Induction
<1>4. \E f : IsPlace(f, t)
  BY <1>3
<1> QED
  BY <1>4 DEF Place, IsPlace, After, Origin

\* And that function does what the definition says.
LEMMA PlaceSteps ==
  ASSUME NEW t \in Seq(Chars)
  PROVE  /\ Place(t)[1] = Origin
         /\ \A n \in 1 .. Len(t) :
              Place(t)[n + 1] = After(Place(t)[n], t[n])
<1> DEFINE f == Place(t)
<1>1. f = [n \in 1 .. Len(t) + 1 |->
             IF n = 1 THEN Origin ELSE After(f[n - 1], t[n - 1])]
  BY PlaceIsFunction DEF IsPlace
<1> HIDE DEF f
<1>2. f[1] = Origin
  BY <1>1
<1>3. ASSUME NEW n \in 1 .. Len(t)
      PROVE  f[n + 1] = After(f[n], t[n])
  <2>1. n + 1 \in 1 .. Len(t) + 1 /\ n + 1 # 1 /\ (n + 1) - 1 = n
    OBVIOUS
  <2>2. f[n + 1] = IF n + 1 = 1 THEN Origin
                   ELSE After(f[(n + 1) - 1], t[(n + 1) - 1])
    BY <1>1, <2>1
  <2> QED
    BY <2>1, <2>2
<1> QED
  BY <1>2, <1>3 DEF f

\* Rows count up from 0, columns are those of the screen.
LEMMA PlaceOnPage ==
  ASSUME NEW t \in Seq(Chars), NEW n \in 1 .. Len(t) + 1
  PROVE  Place(t)[n] \in [row : Nat, col : Col]
<1> DEFINE S == {k \in Nat : k <= Len(t) =>
                              Place(t)[k + 1] \in [row : Nat, col : Col]}
<1>1. 0 \in S
  BY PlaceSteps, SizeAssumption DEF Origin, Col
<1>2. ASSUME NEW k \in S
      PROVE  k + 1 \in S
  <2>1. SUFFICES ASSUME k + 1 <= Len(t)
                 PROVE  Place(t)[k + 1 + 1] \in [row : Nat, col : Col]
    OBVIOUS
  <2>2. Place(t)[k + 1] \in [row : Nat, col : Col] /\ k + 1 \in 1 .. Len(t)
    BY <2>1
  <2>3. Place(t)[k + 1 + 1] = After(Place(t)[k + 1], t[k + 1])
    BY <2>2, PlaceSteps
  <2>4. \A c : \A p \in [row : Nat, col : Col] :
          After(p, c) \in [row : Nat, col : Col]
    BY SizeAssumption DEF After, Col
  <2> QED
    BY <2>2, <2>3, <2>4
<1>3. S = Nat
  <2> HIDE DEF S
  <2>1. S \in SUBSET Nat
    BY DEF S
  <2> QED
    BY <1>1, <1>2, <2>1, Induction
<1>4. PICK k \in Nat : k <= Len(t) /\ k + 1 = n
  <2>1. n - 1 \in Nat /\ n - 1 <= Len(t) /\ (n - 1) + 1 = n
    OBVIOUS
  <2> QED
    BY <2>1
<1>5. k \in S
  BY <1>3
<1> QED
  BY <1>4, <1>5

\* No two characters have one place: each goes behind those before it.
LEMMA PlacesOrdered ==
  ASSUME NEW t \in Seq(Chars), NEW n \in 1 .. Len(t) + 1,
         NEW m \in 1 .. n - 1
  PROVE  Before(Place(t)[m], Place(t)[n])
<1> DEFINE S == {k \in Nat :
                   \A i \in 1 .. Len(t) + 1 :
                     i = m + 1 + k => Before(Place(t)[m], Place(t)[i])}
<1>1. \A i \in 1 .. Len(t) : Before(Place(t)[i], Place(t)[i + 1])
  <2>1. SUFFICES ASSUME NEW i \in 1 .. Len(t)
                 PROVE  Before(Place(t)[i], Place(t)[i + 1])
    OBVIOUS
  <2>2. /\ Place(t)[i] \in [row : Nat, col : Col]
        /\ Place(t)[i + 1] = After(Place(t)[i], t[i])
    BY PlaceSteps, PlaceOnPage
  <2>3. \A c : \A p \in [row : Nat, col : Col] : Before(p, After(p, c))
    BY SizeAssumption DEF After, Before, Col
  <2> QED
    BY <2>2, <2>3
<1>2. 0 \in S
  BY <1>1
<1>3. ASSUME NEW k \in S
      PROVE  k + 1 \in S
  <2>1. SUFFICES ASSUME NEW i \in 1 .. Len(t) + 1, i = m + 1 + (k + 1)
                 PROVE  Before(Place(t)[m], Place(t)[i])
    OBVIOUS
  <2>2. i - 1 \in 1 .. Len(t) /\ i - 1 = m + 1 + k /\ (i - 1) + 1 = i
    BY <2>1
  <2>3. /\ Before(Place(t)[m], Place(t)[i - 1])
        /\ Before(Place(t)[i - 1], Place(t)[i])
    BY <1>1, <2>2
  <2>4. /\ Place(t)[m] \in [row : Nat, col : Col]
        /\ Place(t)[i - 1] \in [row : Nat, col : Col]
        /\ Place(t)[i] \in [row : Nat, col : Col]
    BY <2>2, PlaceOnPage
  <2>5. \A p, q, r \in [row : Nat, col : Col] :
          Before(p, q) /\ Before(q, r) => Before(p, r)
    BY SizeAssumption DEF Before, Col
  <2> QED
    BY <2>3, <2>4, <2>5
<1>4. S = Nat
  <2> HIDE DEF S
  <2>1. S \in SUBSET Nat
    BY DEF S
  <2> QED
    BY <1>2, <1>3, <2>1, Induction
<1>5. n - m - 1 \in Nat /\ n = m + 1 + (n - m - 1)
  OBVIOUS
<1> QED
  BY <1>4, <1>5

\* Another character does not move those before it.
LEMMA PlaceAppended ==
  ASSUME NEW t \in Seq(Chars), NEW c \in Chars
  PROVE  /\ \A n \in 1 .. Len(t) + 1 : Place(Append(t, c))[n] = Place(t)[n]
         /\ End(Append(t, c)) = After(End(t), c)
<1> DEFINE u == Append(t, c)
           S == {k \in Nat : k <= Len(t) => Place(u)[k + 1] = Place(t)[k + 1]}
<1>1. /\ u \in Seq(Chars) /\ Len(u) = Len(t) + 1 /\ Len(t) \in Nat
      /\ \A n \in 1 .. Len(t) : u[n] = t[n]
      /\ u[Len(t) + 1] = c
  BY Appended
<1> HIDE DEF u
<1>2. 0 \in S
  BY <1>1, PlaceSteps
<1>3. ASSUME NEW k \in S
      PROVE  k + 1 \in S
  <2>1. SUFFICES ASSUME k + 1 <= Len(t)
                 PROVE  Place(u)[k + 1 + 1] = Place(t)[k + 1 + 1]
    OBVIOUS
  <2>2. k + 1 \in 1 .. Len(t) /\ k + 1 \in 1 .. Len(u)
    BY <1>1, <2>1
  <2>3. /\ Place(u)[k + 1 + 1] = After(Place(u)[k + 1], u[k + 1])
        /\ Place(t)[k + 1 + 1] = After(Place(t)[k + 1], t[k + 1])
    BY <1>1, <2>2, PlaceSteps
  <2> QED
    BY <1>1, <2>1, <2>2, <2>3
<1>4. S = Nat
  <2> HIDE DEF S
  <2>1. S \in SUBSET Nat
    BY DEF S
  <2> QED
    BY <1>2, <1>3, <2>1, Induction
<1>5. ASSUME NEW n \in 1 .. Len(t) + 1
      PROVE  Place(u)[n] = Place(t)[n]
  <2>1. n - 1 \in Nat /\ n - 1 <= Len(t) /\ (n - 1) + 1 = n
    BY <1>1
  <2> QED
    BY <1>4, <2>1
<1>6. Place(u)[Len(u) + 1] = After(Place(u)[Len(t) + 1], u[Len(t) + 1])
  BY <1>1, PlaceSteps
<1>7. Len(t) + 1 \in 1 .. Len(t) + 1
  BY <1>1
<1> QED
  BY <1>1, <1>5, <1>6, <1>7 DEF u, End

-----------------------------------------------------------------------------
(***************************************************************************)
(* What the page shows.                                                    *)
(***************************************************************************)
\* The characters at a place of the page, and what is seen there.
Here(t, r, c) == {n \in 1 .. Len(t) : Place(t)[n] = [row |-> r, col |-> c]}
Shown(t, r, c) ==
  IF \E n \in Here(t, r, c) : t[n] # NL
    THEN t[CHOOSE n \in Here(t, r, c) : t[n] # NL] ELSE Blank

\* A character that is drawn is seen at its place.
LEMMA DrawnIsShown ==
  ASSUME NEW t \in Seq(Chars), NEW n \in 1 .. Len(t), t[n] # NL,
         NEW r, NEW c, Place(t)[n] = [row |-> r, col |-> c]
  PROVE  Shown(t, r, c) = t[n]
<1>1. n \in Here(t, r, c)
  BY DEF Here
<1>2. ASSUME NEW m \in Here(t, r, c)
      PROVE  m = n
  <2>1. m \in 1 .. Len(t) /\ Place(t)[m] = Place(t)[n]
    BY <1>2 DEF Here
  <2>2. Place(t)[n] \in [row : Nat, col : Col]
    BY PlaceOnPage
  <2>3. ~Before(Place(t)[n], Place(t)[n])
    BY <2>2, SizeAssumption DEF Before, Col
  <2>4. m < n => Before(Place(t)[m], Place(t)[n])
    BY <2>1, PlacesOrdered
  <2>5. n < m => Before(Place(t)[n], Place(t)[m])
    BY <2>1, PlacesOrdered
  <2> QED
    BY <2>1, <2>3, <2>4, <2>5
<1> QED
  BY <1>1, <1>2 DEF Shown

\* Elsewhere there is a blank.
LEMMA ElsewhereBlank ==
  ASSUME NEW t, NEW r, NEW c,
         \A n \in 1 .. Len(t) :
           Place(t)[n] = [row |-> r, col |-> c] => t[n] = NL
  PROVE  Shown(t, r, c) = Blank
BY DEF Shown, Here

\* Nothing is seen where the next character goes, and below.
LEMMA EndIsBlank ==
  ASSUME NEW t \in Seq(Chars), NEW r \in Nat, NEW c \in Col,
         r > End(t).row \/ (r = End(t).row /\ c >= End(t).col)
  PROVE  Shown(t, r, c) = Blank
<1>1. ASSUME NEW n \in 1 .. Len(t)
      PROVE  Place(t)[n] # [row |-> r, col |-> c]
  <2>1. Len(t) + 1 \in 1 .. Len(t) + 1 /\ n \in 1 .. (Len(t) + 1) - 1
    OBVIOUS
  <2>2. Before(Place(t)[n], End(t))
    BY <2>1, PlacesOrdered DEF End
  <2>3. Place(t)[n] \in [row : Nat, col : Col]
        /\ End(t) \in [row : Nat, col : Col]
    BY <2>1, PlaceOnPage DEF End
  <2> QED
    BY <2>2, <2>3, SizeAssumption DEF Before, Col
<1> QED
  BY <1>1, ElsewhereBlank

\* Another character is seen where the text ended; the rest stays.
LEMMA ShownAppended ==
  ASSUME NEW t \in Seq(Chars), NEW ch \in Chars, NEW r \in Nat, NEW c \in Col
  PROVE  Shown(Append(t, ch), r, c) =
           IF ch # NL /\ End(t) = [row |-> r, col |-> c] THEN ch
           ELSE Shown(t, r, c)
<1> DEFINE u == Append(t, ch)
           p == [row |-> r, col |-> c]
<1>1. /\ u \in Seq(Chars) /\ Len(u) = Len(t) + 1 /\ Len(t) \in Nat
      /\ \A n \in 1 .. Len(t) : u[n] = t[n]
      /\ u[Len(t) + 1] = ch
  BY Appended
<1>2. /\ \A n \in 1 .. Len(t) : Place(u)[n] = Place(t)[n]
      /\ Place(u)[Len(t) + 1] = End(t)
  BY <1>1, PlaceAppended DEF End
<1> HIDE DEF u
<1>3. CASE ch # NL /\ End(t) = p
  <2>1. /\ Len(t) + 1 \in 1 .. Len(u) /\ u[Len(t) + 1] # NL
        /\ Place(u)[Len(t) + 1] = p
    BY <1>1, <1>2, <1>3
  <2>2. Shown(u, r, c) = u[Len(t) + 1]
    BY <1>1, <2>1, DrawnIsShown
  <2> QED
    BY <1>1, <1>3, <2>2 DEF u
<1>4. CASE ~(ch # NL /\ End(t) = p)
  <2>1. CASE \E n \in 1 .. Len(t) : Place(t)[n] = p /\ t[n] # NL
    <3>1. PICK n \in 1 .. Len(t) : Place(t)[n] = p /\ t[n] # NL
      BY <2>1
    <3>2. n \in 1 .. Len(u) /\ Place(u)[n] = p /\ u[n] # NL /\ u[n] = t[n]
      BY <1>1, <1>2, <3>1
    <3>3. Shown(t, r, c) = t[n]
      BY <3>1, DrawnIsShown
    <3>4. Shown(u, r, c) = u[n]
      BY <1>1, <3>2, DrawnIsShown
    <3> QED
      BY <1>4, <3>2, <3>3, <3>4 DEF u
  <2>2. CASE ~\E n \in 1 .. Len(t) : Place(t)[n] = p /\ t[n] # NL
    <3>1. Shown(t, r, c) = Blank
      BY <2>2, ElsewhereBlank
    <3>2. \A n \in 1 .. Len(u) : Place(u)[n] = p => u[n] = NL
      BY <1>1, <1>2, <1>4, <2>2
    <3>3. Shown(u, r, c) = Blank
      BY <3>2, ElsewhereBlank
    <3> QED
      BY <1>4, <3>1, <3>3 DEF u
  <2> QED
    BY <2>1, <2>2
<1> QED
  BY <1>3, <1>4 DEF u

-----------------------------------------------------------------------------
(***************************************************************************)
(* The screen.                                                             *)
(***************************************************************************)
Cells == [Row -> [Col -> Letters \cup {Blank, Block}]]
Screens == [cell : Cells, x : Col, y : Row, drawn : BOOLEAN]

\* The row of the page that the first row of the screen shows.
FirstRow(t) == IF End(t).row < MAX_ROWS THEN 0 ELSE End(t).row - (MAX_ROWS - 1)

CursorAt(s, t) == s.x = End(t).col /\ FirstRow(t) + s.y = End(t).row
Matches(s, t) ==
  /\ CursorAt(s, t)
  /\ \A r \in Row, c \in Col :
       s.cell[r][c] # Block => s.cell[r][c] = Shown(t, FirstRow(t) + r, c)

NoBlock(s) == \A r \in Row, c \in Col : s.cell[r][c] # Block
OneBlock(s) ==
  \A r \in Row, c \in Col :
    s.cell[r][c] = Block => s.drawn /\ r = s.y /\ c = s.x

\* A blank cell shows no block.
LEMMA BlankIsNoBlock == Blank # Block
BY DEF Blank, Block

\* The text ends at a place of the page.
LEMMA EndOnPage ==
  ASSUME NEW t \in Seq(Chars)
  PROVE  End(t) \in [row : Nat, col : Col] /\ FirstRow(t) \in Nat
<1>1. Len(t) + 1 \in 1 .. Len(t) + 1
  OBVIOUS
<1>2. End(t) \in [row : Nat, col : Col]
  BY <1>1, PlaceOnPage DEF End
<1> QED
  BY <1>2, SizeAssumption DEF FirstRow

\* Erasing the cell under the cursor loses nothing: no character is there.
LEMMA EraseRight ==
  ASSUME NEW t \in Seq(Chars), NEW s \in Screens, Matches(s, t), OneBlock(s)
  PROVE  /\ Erase(s) \in Screens /\ NoBlock(Erase(s))
         /\ Matches(Erase(s), t) /\ CursorAt(Erase(s), t)
<1> DEFINE e == Erase(s)
<1>1. s.cell \in Cells /\ s.x \in Col /\ s.y \in Row /\ s.drawn \in BOOLEAN
  BY DEF Screens
<1>2. /\ e = [s EXCEPT !.cell[s.y][s.x] = Blank]
      /\ e \in Screens /\ e.x = s.x /\ e.y = s.y
      /\ e.cell = [s.cell EXCEPT ![s.y][s.x] = Blank]
  BY <1>1 DEF Erase, Screens, Cells
<1>3. \A r \in Row, c \in Col :
        e.cell[r][c] = IF r = s.y /\ c = s.x THEN Blank ELSE s.cell[r][c]
  BY <1>1, <1>2 DEF Cells
<1> HIDE DEF e
<1>4. NoBlock(e)
  BY <1>3, BlankIsNoBlock DEF NoBlock, OneBlock
<1>5. CursorAt(e, t)
  BY <1>2 DEF Matches, CursorAt
<1>6. Shown(t, FirstRow(t) + s.y, s.x) = Blank
  <2>1. FirstRow(t) + s.y = End(t).row /\ s.x = End(t).col
    BY DEF Matches, CursorAt
  <2> QED
    BY <1>1, <2>1, EndOnPage, EndIsBlank, SizeAssumption DEF Col
<1>7. Matches(e, t)
  BY <1>3, <1>5, <1>6 DEF Matches
<1> QED
  BY <1>2, <1>4, <1>5, <1>7 DEF e

\* A new line, with or without a scroll, of a screen that shows the text up to
\* the line's end.
LEMMA NewLineRight ==
  ASSUME NEW t \in Seq(Chars), NEW u \in Seq(Chars),
         NEW s \in [cell : Cells, x : Nat, y : Row, drawn : BOOLEAN],
         FirstRow(t) + s.y = End(t).row,
         End(u) = [row |-> End(t).row + 1, col |-> 0],
         NoBlock(s),
         \A r \in Row, c \in Col : s.cell[r][c] = Shown(u, FirstRow(t) + r, c)
  PROVE  /\ NewLine(s) \in Screens /\ NoBlock(NewLine(s))
         /\ Matches(NewLine(s), u)
<1> DEFINE n == NewLine(s)
           next == [s EXCEPT !.x = 0, !.y = s.y + 1]
<1>1. s.cell \in Cells /\ s.y \in Row /\ s.drawn \in BOOLEAN
  OBVIOUS
<1>2. End(t).row \in Nat /\ FirstRow(t) \in Nat
  BY EndOnPage
<1>3. 0 \in Col /\ End(u).row = End(t).row + 1 /\ End(u).col = 0
  BY SizeAssumption DEF Col
<1>4. CASE s.y + 1 < MAX_ROWS
  <2>1. n = next
    BY <1>1, <1>4, SizeAssumption DEF NewLine, Row
  <2>2. /\ n.cell = s.cell /\ n.x = 0 /\ n.y = s.y + 1
        /\ n \in [cell : Cells, x : {0}, y : {s.y + 1}, drawn : BOOLEAN]
    BY <1>1, <2>1
  <2>3. s.y + 1 \in Row
    BY <1>1, <1>4, SizeAssumption DEF Row
  <2>4. FirstRow(u) = FirstRow(t)
    BY <1>1, <1>2, <1>3, <1>4, SizeAssumption DEF FirstRow, Row
  <2> HIDE DEF n, next
  <2>5. n \in Screens
    BY <1>3, <2>2, <2>3 DEF Screens
  <2>6. NoBlock(n) /\ Matches(n, u)
    BY <1>1, <1>2, <1>3, <2>2, <2>4, SizeAssumption
       DEF NoBlock, Matches, CursorAt, Row
  <2> QED
    BY <2>5, <2>6 DEF n
<1>5. CASE s.y + 1 >= MAX_ROWS
  <2>1. s.y = MAX_ROWS - 1 /\ MAX_ROWS \in Nat \ {0}
    BY <1>1, <1>5, SizeAssumption DEF Row
  <2>2. n = [Scroll(next) EXCEPT !.y = MAX_ROWS - 1]
    BY <1>1, <2>1 DEF NewLine
  <2> DEFINE cell == [r \in Row |-> IF r + 1 \in Row THEN s.cell[r + 1]
                                  ELSE BlankRow]
  <2>3. n \in [cell : {cell}, x : {0}, y : {MAX_ROWS - 1}, drawn : BOOLEAN]
    <3>1. /\ next \in [cell : Cells, x : {0}, y : {s.y + 1}, drawn : BOOLEAN]
          /\ next.cell = s.cell
      BY <1>1
    <3> HIDE DEF next
    <3>2. Scroll(next) = [next EXCEPT !.cell = cell,
                                      !.y = IF next.y > 0 THEN next.y - 1
                                            ELSE next.y]
      BY <3>1 DEF Scroll
    <3>3. Scroll(next) \in [cell : {cell}, x : {0}, y : Int, drawn : BOOLEAN]
      <4> DEFINE y == IF next.y > 0 THEN next.y - 1 ELSE next.y
      <4>1. y \in Int
        BY <1>1, <3>1, SizeAssumption DEF Row
      <4> HIDE DEF cell, y
      <4>2. \A d, f, i : d \in [cell : Cells, x : {0}, y : {s.y + 1},
                               drawn : BOOLEAN] /\ i \in Int =>
              [d EXCEPT !.cell = f, !.y = i]
                \in [cell : {f}, x : {0}, y : Int, drawn : BOOLEAN]
        OBVIOUS
      <4> QED
        BY <3>1, <3>2, <4>1, <4>2 DEF y
    <3> HIDE DEF cell
    <3> QED
      BY <2>2, <3>3
  <2>4. BlankRow \in [Col -> Letters \cup {Blank, Block}]
        /\ \A c \in Col : BlankRow[c] = Blank
    BY DEF BlankRow
  <2>5. cell \in Cells
    BY <1>1, <2>4 DEF Cells
  <2>6. n \in Screens
    BY <1>3, <2>1, <2>3, <2>5 DEF Screens, Row
  <2>7. \A r \in Row, c \in Col :
          n.cell[r][c] = IF r + 1 \in Row THEN s.cell[r + 1][c] ELSE Blank
    BY <2>3, <2>4
  <2>8. FirstRow(u) = FirstRow(t) + 1 /\ CursorAt(n, u)
    BY <1>2, <1>3, <2>1, <2>3 DEF FirstRow, CursorAt
  <2>9. NoBlock(n)
    BY <2>7, BlankIsNoBlock DEF NoBlock
  <2>10. ASSUME NEW r \in Row, NEW c \in Col
         PROVE  n.cell[r][c] = Shown(u, FirstRow(u) + r, c)
    <3>1. CASE r + 1 \in Row
      <4>1. FirstRow(u) + r = FirstRow(t) + (r + 1)
        BY <1>2, <2>8, SizeAssumption DEF Row
      <4> QED
        BY <2>7, <3>1, <4>1
    <3>2. CASE r + 1 \notin Row
      <4>1. r = MAX_ROWS - 1
        BY <3>2, <2>1 DEF Row
      <4>2. /\ FirstRow(u) + r = End(u).row /\ c >= End(u).col
            /\ FirstRow(u) + r \in Nat
        BY <1>2, <1>3, <2>1, <2>8, <4>1, SizeAssumption DEF Col, Row
      <4>3. Shown(u, FirstRow(u) + r, c) = Blank
        BY <4>2, EndIsBlank
      <4> QED
        BY <2>7, <3>2, <4>3
    <3> QED
      BY <3>1, <3>2
  <2>11. Matches(n, u)
    BY <2>8, <2>10 DEF Matches
  <2> QED
    BY <2>6, <2>9, <2>11 DEF n
<1>6. s.y + 1 < MAX_ROWS \/ s.y + 1 >= MAX_ROWS
  BY <1>1, SizeAssumption DEF Row
<1> QED
  BY <1>4, <1>5, <1>6

\* The place of the cursor on the page.
LEMMA CursorPlace ==
  ASSUME NEW t \in Seq(Chars), NEW s \in Screens, CursorAt(s, t),
         NEW r \in Row, NEW c \in Col
  PROVE  End(t) = [row |-> FirstRow(t) + r, col |-> c] <=> r = s.y /\ c = s.x
<1>1. End(t) \in [row : Nat, col : Col] /\ FirstRow(t) \in Nat
  BY EndOnPage
<1>2. s.y \in Row /\ s.x \in Col
  BY DEF Screens
<1>3. End(t) = [row |-> FirstRow(t) + r, col |-> c]
        <=> End(t).row = FirstRow(t) + r /\ End(t).col = c
  BY <1>1
<1> QED
  BY <1>1, <1>2, <1>3, SizeAssumption DEF CursorAt, Row

\* A character is drawn where the text ends.
LEMMA DrawCharRight ==
  ASSUME NEW t \in Seq(Chars), NEW s \in Screens, NEW ch \in Letters,
         Matches(s, t), NoBlock(s)
  PROVE  /\ DrawChar(s, ch) \in Screens /\ NoBlock(DrawChar(s, ch))
         /\ Matches(DrawChar(s, ch), Append(t, ch))
<1> DEFINE u == Append(t, ch)
           next == [s EXCEPT !.cell[s.y][s.x] = ch, !.x = s.x + 1]
<1>1. /\ s.cell \in Cells /\ s.x \in Col /\ s.y \in Row
      /\ s.drawn \in BOOLEAN
  BY DEF Screens
<1>2. /\ ch \in Chars /\ ch # NL /\ ch # Block /\ u \in Seq(Chars)
      /\ End(u) = After(End(t), ch)
  BY TextAssumption, PlaceAppended DEF Chars
<1>3. /\ FirstRow(t) \in Nat /\ End(t) \in [row : Nat, col : Col]
      /\ FirstRow(t) + s.y = End(t).row /\ s.x = End(t).col /\ CursorAt(s, t)
  BY EndOnPage DEF Matches, CursorAt
<1>4. /\ next \in [cell : Cells, x : {s.x + 1}, y : {s.y}, drawn : BOOLEAN]
      /\ next.cell = [s.cell EXCEPT ![s.y][s.x] = ch]
  BY <1>1 DEF Screens, Cells
<1>5. \A r \in Row, c \in Col :
        next.cell[r][c] = IF r = s.y /\ c = s.x THEN ch ELSE s.cell[r][c]
  BY <1>1, <1>4 DEF Cells
<1> HIDE DEF next, u
<1>6. ASSUME NEW r \in Row, NEW c \in Col
      PROVE  next.cell[r][c] = Shown(u, FirstRow(t) + r, c)
  <2>1. FirstRow(t) + r \in Nat
    BY <1>3, SizeAssumption DEF Row
  <2>2. Shown(u, FirstRow(t) + r, c)
          = IF End(t) = [row |-> FirstRow(t) + r, col |-> c] THEN ch
            ELSE Shown(t, FirstRow(t) + r, c)
    BY <1>2, <2>1, ShownAppended DEF u
  <2>3. s.cell[r][c] = Shown(t, FirstRow(t) + r, c)
    BY DEF Matches, NoBlock
  <2> QED
    BY <1>3, <1>5, <2>2, <2>3, CursorPlace
<1>7. NoBlock(next)
  BY <1>2, <1>5 DEF NoBlock
<1>8. CASE s.x + 1 >= MAX_COLS
  <2>1. End(t).col + 1 = MAX_COLS
    BY <1>1, <1>3, <1>8, SizeAssumption DEF Col
  <2>2. End(u) = [row |-> End(t).row + 1, col |-> 0]
    BY <1>2, <2>1 DEF After
  <2>3. DrawChar(s, ch) = NewLine(next)
    BY <1>4, <1>8 DEF DrawChar, next
  <2>4. /\ next \in [cell : Cells, x : Nat, y : Row, drawn : BOOLEAN]
        /\ FirstRow(t) + next.y = End(t).row
    BY <1>1, <1>3, <1>4, SizeAssumption DEF Col
  <2> QED
    BY <1>2, <1>6, <1>7, <2>2, <2>3, <2>4, NewLineRight DEF u
<1>9. CASE ~(s.x + 1 >= MAX_COLS)
  <2>1. s.x + 1 \in Col /\ End(t).col + 1 # MAX_COLS
    BY <1>1, <1>3, <1>9, SizeAssumption DEF Col
  <2>2. End(u) = [row |-> End(t).row, col |-> End(t).col + 1]
    BY <1>2, <2>1 DEF After
  <2>3. FirstRow(u) = FirstRow(t)
    BY <2>2 DEF FirstRow
  <2>4. DrawChar(s, ch) = next
    BY <1>4, <1>9 DEF DrawChar, next
  <2>5. next \in Screens
    BY <1>1, <1>4, <2>1 DEF Screens
  <2>6. CursorAt(next, u)
    BY <1>3, <1>4, <2>2, <2>3 DEF CursorAt
  <2>7. Matches(next, u)
    BY <1>6, <2>3, <2>6 DEF Matches
  <2> QED
    BY <1>7, <2>4, <2>5, <2>7 DEF u
<1> QED
  BY <1>8, <1>9

\* A newline moves the cursor and shows nothing.
LEMMA NewLineCharRight ==
  ASSUME NEW t \in Seq(Chars), NEW s \in Screens, Matches(s, t), NoBlock(s)
  PROVE  /\ NewLine(s) \in Screens /\ NoBlock(NewLine(s))
         /\ Matches(NewLine(s), Append(t, NL))
<1> DEFINE u == Append(t, NL)
<1>1. /\ NL \in Chars /\ u \in Seq(Chars)
      /\ End(u) = [row |-> End(t).row + 1, col |-> 0]
  BY PlaceAppended DEF Chars, After
<1>2. /\ s \in [cell : Cells, x : Nat, y : Row, drawn : BOOLEAN]
      /\ FirstRow(t) + s.y = End(t).row
  BY SizeAssumption DEF Screens, Col, Matches, CursorAt
<1> HIDE DEF u
<1>3. ASSUME NEW r \in Row, NEW c \in Col
      PROVE  s.cell[r][c] = Shown(u, FirstRow(t) + r, c)
  <2>1. FirstRow(t) + r \in Nat
    BY EndOnPage, SizeAssumption DEF Row
  <2>2. Shown(u, FirstRow(t) + r, c) = Shown(t, FirstRow(t) + r, c)
    BY <1>1, <2>1, ShownAppended DEF u
  <2> QED
    BY <2>2 DEF Matches, NoBlock
<1> QED
  BY <1>1, <1>2, <1>3, NewLineRight DEF u

\* A text that does not end at the left edge has a last character, and it is on
\* the cursor's row.
LEMMA LastOfRow ==
  ASSUME NEW t \in Seq(Chars), End(t).col > 0
  PROVE  /\ Front(t) \in Seq(Chars) /\ Len(t) \in Nat \ {0}
         /\ t = Append(Front(t), t[Len(t)]) /\ t[Len(t)] \in Letters
         /\ End(t) = [row |-> End(Front(t)).row, col |-> End(Front(t)).col + 1]
<1>1. Len(t) # 0
  <2>1. CASE Len(t) = 0
    <3>1. End(t) = Origin
      <4>1. Len(t) + 1 = 1
        BY <2>1
      <4>2. Place(t)[1] = Origin
        BY PlaceSteps
      <4> QED
        BY <4>1, <4>2 DEF End
    <3> QED
      BY <3>1 DEF Origin
  <2> QED
    BY <2>1
<1>2. /\ Front(t) \in Seq(Chars) /\ Len(t) \in Nat \ {0}
      /\ t[Len(t)] \in Chars /\ t = Append(Front(t), t[Len(t)])
  BY <1>1 DEF Front
<1>3. End(t) = After(End(Front(t)), t[Len(t)])
  BY <1>2, PlaceAppended
<1> QED
  BY <1>2, <1>3 DEF After, Chars

\* A backspace takes the last character of the row back, on the page and on the
\* screen; at the left edge it does nothing.
LEMMA BackSpaceRight ==
  ASSUME NEW t \in Seq(Chars), NEW s \in Screens, Matches(s, t), NoBlock(s)
  PROVE  /\ BackSpace(s) \in Screens /\ NoBlock(BackSpace(s))
         /\ Matches(BackSpace(s), Printed(t, BS))
         /\ Printed(t, BS) = IF s.x > 0 THEN Front(t) ELSE t
         /\ Printed(t, BS) \in Seq(Chars)
<1>1. /\ s.cell \in Cells /\ s.x \in Col /\ s.y \in Row
      /\ s.drawn \in BOOLEAN
  BY DEF Screens
<1>2. /\ FirstRow(t) \in Nat /\ End(t) \in [row : Nat, col : Col]
      /\ FirstRow(t) + s.y = End(t).row /\ s.x = End(t).col /\ CursorAt(s, t)
  BY EndOnPage DEF Matches, CursorAt
<1>3. Printed(t, BS) = IF s.x > 0 THEN Front(t) ELSE t
  BY <1>2 DEF Printed, End
<1>4. CASE s.x = 0
  <2>1. BackSpace(s) = Erase(s)
    <3>1. [s EXCEPT !.x = s.x] = s
      BY <1>1 DEF Screens
    <3> QED
      BY <1>4, <3>1 DEF BackSpace
  <2>2. OneBlock(s)
    BY DEF NoBlock, OneBlock
  <2> QED
    BY <1>3, <1>4, <2>1, <2>2, EraseRight
<1>5. CASE s.x # 0
  <2> DEFINE f == Front(t)
             b == BackSpace(s)
  <2>1. /\ s.x > 0 /\ s.x - 1 \in Col /\ Printed(t, BS) = f
    BY <1>1, <1>3, <1>5, SizeAssumption DEF Col
  <2>2. /\ f \in Seq(Chars) /\ t = Append(f, t[Len(t)])
        /\ t[Len(t)] \in Letters
        /\ End(t) = [row |-> End(f).row, col |-> End(f).col + 1]
    BY <1>2, <2>1, LastOfRow
  <2>3. /\ t[Len(t)] \in Chars /\ t[Len(t)] # NL
    BY <2>2, TextAssumption DEF Chars
  <2>4. End(f) \in [row : Nat, col : Col]
    BY <2>2, EndOnPage
  <2>5. /\ End(t).row = End(f).row /\ End(f).col = s.x - 1
        /\ FirstRow(f) = FirstRow(t)
    BY <1>1, <1>2, <2>2, <2>4, SizeAssumption DEF FirstRow, Col
  <2>6. /\ b \in [cell : Cells, x : {s.x - 1}, y : {s.y}, drawn : BOOLEAN]
        /\ b.cell = [s.cell EXCEPT ![s.y][s.x - 1] = Blank]
    BY <1>1, <2>1 DEF BackSpace, Erase, Screens, Cells
  <2>7. \A r \in Row, c \in Col :
          b.cell[r][c] = IF r = s.y /\ c = s.x - 1 THEN Blank ELSE s.cell[r][c]
    BY <1>1, <2>1, <2>6 DEF Cells
  <2> HIDE DEF b, f
  <2>8. b \in Screens
    BY <1>1, <2>1, <2>6 DEF Screens
  <2>9. CursorAt(b, f)
    BY <1>2, <2>5, <2>6 DEF CursorAt
  <2>10. NoBlock(b)
    BY <2>7, BlankIsNoBlock DEF NoBlock
  <2>11. ASSUME NEW r \in Row, NEW c \in Col
         PROVE  b.cell[r][c] = Shown(f, FirstRow(f) + r, c)
    <3>1. FirstRow(f) + r \in Nat
      BY <2>2, EndOnPage, SizeAssumption DEF Row
    <3>2. CASE r = s.y /\ c = s.x - 1
      <4>1. FirstRow(f) + r = End(f).row /\ c >= End(f).col
        BY <1>2, <2>5, <3>2, SizeAssumption DEF Col
      <4> QED
        BY <2>2, <2>7, <3>1, <3>2, <4>1, EndIsBlank
    <3>3. CASE ~(r = s.y /\ c = s.x - 1)
      <4>1. End(f) # [row |-> FirstRow(f) + r, col |-> c]
        BY <2>2, <2>6, <2>8, <2>9, <3>3, CursorPlace
      <4>2. Shown(t, FirstRow(f) + r, c) = Shown(f, FirstRow(f) + r, c)
        BY <2>2, <2>3, <3>1, <4>1, ShownAppended
      <4>3. s.cell[r][c] = Shown(t, FirstRow(t) + r, c)
        BY DEF Matches, NoBlock
      <4> QED
        BY <2>5, <2>7, <3>3, <4>2, <4>3
    <3> QED
      BY <3>2, <3>3
  <2>12. Matches(b, f)
    BY <2>9, <2>11 DEF Matches
  <2> QED
    BY <1>3, <2>1, <2>2, <2>8, <2>10, <2>12 DEF b, f
<1> QED
  BY <1>4, <1>5

\* console_putc takes the block away before it moves the cursor.
LEMMA WithoutCursorRight ==
  ASSUME NEW t \in Seq(Chars), NEW s \in Screens, Matches(s, t), OneBlock(s)
  PROVE  /\ WithoutCursor(s) \in Screens /\ NoBlock(WithoutCursor(s))
         /\ Matches(WithoutCursor(s), t)
         /\ WithoutCursor(s).x = s.x
<1>1. CASE s.drawn
  <2> DEFINE e == Erase(s)
             w == WithoutCursor(s)
  <2>1. w = [e EXCEPT !.drawn = FALSE]
    BY <1>1 DEF WithoutCursor
  <2>2. e \in Screens /\ NoBlock(e) /\ Matches(e, t) /\ e.x = s.x
    <3>1. e.x = s.x
      BY DEF Erase, Screens
    <3> QED
      BY <3>1, EraseRight
  <2> HIDE DEF e, w
  <2>3. w \in Screens /\ w.cell = e.cell /\ w.x = e.x /\ w.y = e.y
    BY <2>1, <2>2 DEF Screens
  <2>4. NoBlock(w) /\ Matches(w, t)
    BY <2>2, <2>3 DEF NoBlock, Matches, CursorAt
  <2> QED
    BY <2>2, <2>3, <2>4 DEF w
<1>2. CASE ~s.drawn
  <2>1. WithoutCursor(s) = s
    BY <1>2 DEF WithoutCursor
  <2>2. NoBlock(s)
    BY <1>2 DEF NoBlock, OneBlock
  <2> QED
    BY <2>1, <2>2
<1> QED
  BY <1>1, <1>2

\* Whatever is printed, the screen shows the text with it.
LEMMA PutcRight ==
  ASSUME NEW t \in Seq(Chars), NEW s \in Screens, Matches(s, t), OneBlock(s),
         NEW ch \in Letters \cup {NL, BS}
  PROVE  /\ Putc(s, ch) \in Screens /\ NoBlock(Putc(s, ch))
         /\ Matches(Putc(s, ch), Printed(t, ch))
         /\ Printed(t, ch) \in Seq(Chars)
         /\ ch = BS => Printed(t, ch) = IF s.x > 0 THEN Front(t) ELSE t
         /\ ch # BS => Printed(t, ch) = Append(t, ch)
<1> DEFINE w == WithoutCursor(s)
<1>1. w \in Screens /\ NoBlock(w) /\ Matches(w, t) /\ w.x = s.x
  BY WithoutCursorRight
<1>2. NL # BS
  BY DEF NL, BS
<1>3. CASE ch = NL
  <2>1. Putc(s, ch) = NewLine(w) /\ Printed(t, ch) = Append(t, NL)
    BY <1>2, <1>3 DEF Putc, Printed
  <2>2. NL \in Chars
    BY DEF Chars
  <2> HIDE DEF w
  <2> QED
    BY <1>1, <1>2, <1>3, <2>1, <2>2, NewLineCharRight, Appended
<1>4. CASE ch = BS
  <2>1. Putc(s, ch) = BackSpace(w)
    BY <1>2, <1>4 DEF Putc
  <2> HIDE DEF w
  <2> QED
    BY <1>1, <1>4, <2>1, BackSpaceRight
<1>5. CASE ch \notin {NL, BS}
  <2>1. ch \in Letters /\ ch \in Chars
    BY <1>5 DEF Chars
  <2>2. Putc(s, ch) = DrawChar(w, ch) /\ Printed(t, ch) = Append(t, ch)
    BY <1>5 DEF Putc, Printed
  <2> HIDE DEF w
  <2> QED
    BY <1>1, <1>5, <2>1, <2>2, DrawCharRight, Appended
<1> QED
  BY <1>3, <1>4, <1>5

\* A cleared screen shows the empty text.
LEMMA BlankRight ==
  ASSUME NEW s \in Screens, s.cell = BlankScreen, s.x = 0, s.y = 0
  PROVE  Matches(s, << >>) /\ NoBlock(s) /\ << >> \in Seq(Chars)
<1>1. << >> \in Seq(Chars) /\ Len(<< >>) = 0
  OBVIOUS
<1>2. End(<< >>) = Origin
  <2>1. Len(<< >>) + 1 = 1
    BY <1>1
  <2>2. Place(<< >>)[1] = Origin
    BY <1>1, PlaceSteps
  <2> QED
    BY <2>1, <2>2 DEF End
<1>3. FirstRow(<< >>) = 0 /\ CursorAt(s, << >>)
  BY <1>2, SizeAssumption DEF FirstRow, CursorAt, Origin
<1>4. ASSUME NEW r \in Row, NEW c \in Col
      PROVE  s.cell[r][c] = Blank /\ Shown(<< >>, 0 + r, c) = Blank
  <2>1. s.cell[r][c] = Blank
    BY DEF BlankScreen, BlankRow
  <2>2. \A n \in 1 .. Len(<< >>) : FALSE
    BY <1>1
  <2>3. Shown(<< >>, 0 + r, c) = Blank
    BY <2>2, ElsewhereBlank
  <2> QED
    BY <2>1, <2>3
<1> QED
  BY <1>1, <1>3, <1>4, BlankIsNoBlock DEF Matches, NoBlock

-----------------------------------------------------------------------------
(***************************************************************************)
(* The console.                                                            *)
(***************************************************************************)
ScreenInv == con \in Screens /\ Matches(con, text) /\ OneBlock(con)

\* The line so far, as long as no backspace was swallowed at the left edge: its
\* characters are the last ones of the text.
LineInv ==
  /\ pc = "idle" => idx = 0
  /\ ~stuck => /\ idx <= Len(text)
               /\ \A i \in 0 .. idx - 1 :
                    /\ buf[i] = text[Len(text) - idx + 1 + i]
                    /\ buf[i] \in Letters

ConsoleInv == TypeOK /\ ScreenInv /\ LineInv

\* What the screen invariant says of it is the property.
LEMMA ScreenRight == ScreenInv => ScreenShowsText /\ BlockIsCursor
<1>1. ASSUME ScreenInv
      PROVE  ScreenShowsText
  BY <1>1 DEF ScreenInv, ScreenShowsText, Matches, CursorAt, FirstRow, End,
              Shown, Here
<1>2. ASSUME ScreenInv
      PROVE  BlockIsCursor
  BY <1>2 DEF ScreenInv, BlockIsCursor, OneBlock
<1> QED
  BY <1>1, <1>2

\* What the types of the variables mean for the parts of the proof.
LEMMA Types ==
  ASSUME TypeOK
  PROVE  /\ con \in Screens
         /\ text \in Seq(Chars) /\ Len(text) \in 0 .. MaxText
         /\ idx \in 0 .. MAX_LEN - 1 /\ idx \in Nat
         /\ buf \in [0 .. MAX_LEN - 1 -> Letters \cup {NUL}]
BY SizeAssumption, TextAssumption DEF TypeOK, Screens, Cells, Chars

\* A screen without a block has none but the cursor.
LEMMA NoBlockOne == ASSUME NEW s, NoBlock(s) PROVE OneBlock(s)
BY DEF NoBlock, OneBlock

\* console_update: the block appears at the cursor or goes.
LEMMA UpdateScreen ==
  ASSUME ConsoleInv, Update
  PROVE  ScreenInv'
<1>1. /\ con \in Screens /\ text \in Seq(Chars) /\ Matches(con, text)
      /\ OneBlock(con) /\ text' = text
  BY Types DEF ConsoleInv, ScreenInv, Update
<1>2. CASE con' = con
  BY <1>1, <1>2 DEF ScreenInv
<1>3. CASE con.drawn /\ con' = [Erase(con) EXCEPT !.drawn = FALSE]
  <2> DEFINE e == Erase(con)
  <2>1. e \in Screens /\ NoBlock(e) /\ Matches(e, text)
    BY <1>1, EraseRight
  <2> HIDE DEF e
  <2>2. con' \in Screens /\ con'.cell = e.cell /\ con'.x = e.x /\ con'.y = e.y
    BY <1>3, <2>1 DEF Screens, e
  <2>3. NoBlock(con') /\ Matches(con', text)
    BY <2>1, <2>2 DEF NoBlock, Matches, CursorAt
  <2> QED
    BY <1>1, <2>2, <2>3, NoBlockOne DEF ScreenInv
<1>4. CASE ~con.drawn /\ con' = DrawCursor([con EXCEPT !.drawn = TRUE])
  <2>1. /\ con.cell \in Cells /\ con.x \in Col /\ con.y \in Row
    BY <1>1 DEF Screens
  <2>2. /\ con' \in Screens /\ con'.x = con.x /\ con'.y = con.y /\ con'.drawn
        /\ con'.cell = [con.cell EXCEPT ![con.y][con.x] = Block]
    BY <1>1, <1>4, <2>1 DEF DrawCursor, Screens, Cells
  <2>3. \A r \in Row, c \in Col :
          con'.cell[r][c] = IF r = con.y /\ c = con.x THEN Block
                            ELSE con.cell[r][c]
    BY <2>1, <2>2 DEF Cells
  <2>4. NoBlock(con)
    BY <1>1, <1>4 DEF NoBlock, OneBlock
  <2>5. OneBlock(con') /\ Matches(con', text)
    BY <1>1, <2>2, <2>3, <2>4 DEF OneBlock, NoBlock, Matches, CursorAt
  <2> QED
    BY <1>1, <2>2, <2>5 DEF ScreenInv
<1> QED
  BY <1>2, <1>3, <1>4 DEF Update

\* The newline of Enter, and the erasing after it.
LEMMA EnterScreen ==
  ASSUME ConsoleInv, EnterKey
  PROVE  ScreenInv' /\ text' \in Seq(Chars)
<1> DEFINE s == IF echo THEN Putc(con, NL) ELSE con
           d == [s EXCEPT !.drawn = FALSE]
<1>1. /\ con \in Screens /\ text \in Seq(Chars) /\ Matches(con, text)
      /\ OneBlock(con)
  BY Types DEF ConsoleInv, ScreenInv
<1>2. /\ con' = IF window = "console" THEN Erase(d) ELSE s
      /\ text' = IF echo THEN Append(text, NL) ELSE text
  BY DEF EnterKey
<1>3. /\ s \in Screens /\ OneBlock(s) /\ Matches(s, text')
      /\ text' \in Seq(Chars)
  <2>1. NL # BS
    BY DEF NL, BS
  <2>2. CASE echo
    BY <1>1, <1>2, <2>1, <2>2, PutcRight, NoBlockOne
  <2>3. CASE ~echo
    BY <1>1, <1>2, <2>3
  <2> QED
    BY <2>2, <2>3
<1>4. CASE window # "console"
  BY <1>2, <1>3, <1>4 DEF ScreenInv
<1>5. CASE window = "console"
  <2> HIDE DEF s
  <2> DEFINE k == Erase(s)
  <2>1. /\ k \in Screens /\ NoBlock(k) /\ Matches(k, text')
    BY <1>3, EraseRight
  <2>2. con'.cell = k.cell /\ con'.x = k.x /\ con'.y = k.y /\ con' \in Screens
    BY <1>2, <1>3, <1>5, <2>1 DEF Erase, Screens, Cells
  <2> HIDE DEF k
  <2>3. NoBlock(con') /\ Matches(con', text')
    BY <2>1, <2>2 DEF NoBlock, Matches, CursorAt
  <2> QED
    BY <1>3, <2>2, <2>3, NoBlockOne DEF ScreenInv
<1> QED
  BY <1>3, <1>4, <1>5

\* The clocks, and the loop's place in its program.
TimesOK ==
  /\ window \in {"console", "panic"}
  /\ {ticks, last_blink, last_loop, lag} \subseteq 0 .. W - 1
  /\ pc \in {"idle", "poll", "update", "key"}
  /\ echo \in BOOLEAN /\ stuck \in BOOLEAN

\* Type correctness after a step follows from that of the parts.
LEMMA TypeParts ==
  ASSUME TimesOK', con' \in Screens, text' \in Seq(Chars),
         Len(text') <= MaxText,
         buf' \in [0 .. MAX_LEN - 1 -> Letters \cup {NUL}],
         idx' \in 0 .. MAX_LEN - 1
  PROVE  TypeOK'
BY DEF TypeOK, TimesOK, Screens, Cells, Chars

LEMMA InitInv == Init => ConsoleInv
<1> SUFFICES ASSUME Init
             PROVE  ConsoleInv
  OBVIOUS
<1>1. con \in Screens
  BY SizeAssumption
     DEF Init, Screens, Cells, BlankScreen, BlankRow, Row, Col
<1>2. con.cell = BlankScreen /\ con.x = 0 /\ con.y = 0 /\ text = << >>
  BY DEF Init
<1>3. ScreenInv /\ text \in Seq(Chars)
  BY <1>1, <1>2, BlankRight, NoBlockOne DEF ScreenInv
<1>4. /\ {ticks, last_blink, last_loop, lag} \subseteq 0 .. W - 1
      /\ window = "console" /\ pc = "idle" /\ echo \in BOOLEAN
      /\ stuck \in BOOLEAN
  <2>1. 0 \in 0 .. W - 1
    BY WAssumption
  <2> QED
    BY <2>1 DEF Init
<1>5. TypeOK
  <2>1. /\ buf \in [0 .. MAX_LEN - 1 -> Letters \cup {NUL}]
        /\ idx \in 0 .. MAX_LEN - 1
    BY SizeAssumption DEF Init
  <2>2. Len(text) <= MaxText
    BY <1>2, TextAssumption
  <2> QED
    BY <1>1, <1>3, <1>4, <2>1, <2>2 DEF TypeOK, Screens, Cells, Chars
<1>6. LineInv
  BY <1>2 DEF Init, LineInv
<1> QED
  BY <1>3, <1>5, <1>6 DEF ConsoleInv

LEMMA StepInv == ConsoleInv /\ [Next]_vars => ConsoleInv'
<1> SUFFICES ASSUME ConsoleInv, [Next]_vars
             PROVE  ConsoleInv'
  OBVIOUS
<1>1. /\ con \in Screens /\ text \in Seq(Chars) /\ Len(text) \in 0 .. MaxText
      /\ idx \in 0 .. MAX_LEN - 1 /\ idx \in Nat
      /\ buf \in [0 .. MAX_LEN - 1 -> Letters \cup {NUL}]
      /\ Matches(con, text) /\ OneBlock(con) /\ MaxText \in Nat
  BY Types, TextAssumption DEF ConsoleInv, ScreenInv
<1>2. TimesOK /\ LineInv /\ ScreenInv
  BY DEF ConsoleInv, TypeOK, TimesOK
<1>3. ASSUME UNCHANGED <<con, buf, idx, text, stuck>>, TimesOK',
             pc' = "idle" => idx = 0
      PROVE  ConsoleInv'
  <2>1. TypeOK'
    BY <1>1, <1>3, TypeParts
  <2>2. ScreenInv' /\ LineInv'
    BY <1>2, <1>3 DEF ScreenInv, LineInv
  <2> QED
    BY <2>1, <2>2 DEF ConsoleInv
<1>4. CASE Tick
  <2>1. UNCHANGED <<con, buf, idx, text, stuck>> /\ pc' = pc
    BY <1>4 DEF Tick, input
  <2>2. ticks' \in 0 .. W - 1 /\ lag' \in 0 .. W - 1
    BY <1>2, <1>4, WAssumption, SizeAssumption DEF Tick, Ticked, TimesOK
  <2>3. TimesOK'
    BY <1>2, <1>4, <2>2 DEF Tick, TimesOK, input
  <2> QED
    BY <1>2, <1>3, <2>1, <2>3 DEF LineInv
<1>5. CASE Clear
  <2>1. /\ con'.cell = BlankScreen /\ con'.x = 0 /\ con'.y = 0
        /\ con' \in Screens /\ text' = << >> /\ pc = "idle"
        /\ UNCHANGED <<window, timing, pc, input, stuck>>
    <3>1. BlankScreen \in Cells /\ 0 \in Col /\ 0 \in Row
      BY SizeAssumption DEF BlankScreen, BlankRow, Cells, Row, Col
    <3> QED
      BY <1>1, <1>5, <3>1 DEF Clear, Screens
  <2>2. ScreenInv' /\ text' \in Seq(Chars)
    BY <2>1, BlankRight, NoBlockOne DEF ScreenInv
  <2>3. TypeOK'
    BY <1>1, <1>2, <2>1, <2>2, TypeParts DEF timing, input, TimesOK
  <2>4. LineInv'
    BY <1>2, <2>1 DEF LineInv, input
  <2> QED
    BY <2>2, <2>3, <2>4 DEF ConsoleInv
<1>6. CASE Panic
  <2>1. /\ con'.cell = BlankScreen /\ con'.x = 0 /\ con'.y = 0
        /\ con' \in Screens /\ text' = << >> /\ pc = "idle"
        /\ UNCHANGED <<pc, echo, idx, stuck>>
    <3>1. BlankScreen \in Cells /\ 0 \in Col /\ 0 \in Row
      BY SizeAssumption DEF BlankScreen, BlankRow, Cells, Row, Col
    <3> QED
      BY <1>6, <3>1 DEF Panic, Screens
  <2>2. ScreenInv' /\ text' \in Seq(Chars)
    BY <2>1, BlankRight, NoBlockOne DEF ScreenInv
  <2>3. TimesOK' /\ buf' \in [0 .. MAX_LEN - 1 -> Letters \cup {NUL}]
    BY <1>2, <1>6, WAssumption DEF Panic, TimesOK
  <2>4. TypeOK'
    BY <1>1, <2>1, <2>2, <2>3, TypeParts
  <2>5. LineInv'
    BY <1>2, <2>1 DEF LineInv
  <2> QED
    BY <2>2, <2>4, <2>5 DEF ConsoleInv
<1>7. CASE ConsoleInput
  <2>1. UNCHANGED <<con, buf, idx, text, stuck>> /\ pc' # "idle"
    BY <1>7 DEF ConsoleInput, Top
  <2>2. TimesOK'
    BY <1>2, <1>7 DEF ConsoleInput, Top, TimesOK, timing
  <2> QED
    BY <1>3, <2>1, <2>2
<1>8. CASE Poll
  <2>1. UNCHANGED <<con, buf, idx, text, stuck>> /\ pc' # "idle"
    BY <1>8 DEF Poll, input
  <2>2. TimesOK'
    BY <1>2, <1>8, WAssumption DEF Poll, TimesOK, input
  <2> QED
    BY <1>3, <2>1, <2>2
<1>9. CASE Update
  <2>1. UNCHANGED <<buf, idx, text, stuck>> /\ pc' # "idle"
    BY <1>9 DEF Update, input
  <2>2. TimesOK'
    BY <1>2, <1>9 DEF Update, TimesOK, input
  <2>3. ScreenInv'
    BY <1>9, UpdateScreen
  <2>4. TypeOK'
    BY <1>1, <2>1, <2>2, <2>3, TypeParts DEF ScreenInv
  <2>5. LineInv'
    BY <1>2, <2>1 DEF LineInv
  <2> QED
    BY <2>3, <2>4, <2>5 DEF ConsoleInv
<1>10. CASE NoKey
  <2>1. UNCHANGED <<con, buf, idx, text, stuck>> /\ pc' # "idle"
    BY <1>10 DEF NoKey, Top, input
  <2>2. TimesOK'
    BY <1>2, <1>10 DEF NoKey, Top, TimesOK, timing, input
  <2> QED
    BY <1>3, <2>1, <2>2
<1>11. CASE EnterKey
  <2>1. ScreenInv' /\ text' \in Seq(Chars) /\ Len(text') <= MaxText
    BY <1>11, EnterScreen DEF EnterKey
  <2>2. TimesOK'
    <3>1. /\ window' = window /\ last_blink' = last_blink /\ ticks' = ticks
          /\ pc' = "idle" /\ last_loop' = 0 /\ lag' = 0
      BY <1>11 DEF EnterKey, LeaveInput
    <3>2. echo' \in BOOLEAN /\ stuck' \in BOOLEAN
      BY <1>11 DEF EnterKey, LeaveInput
    <3>3. 0 \in 0 .. W - 1
      BY WAssumption
    <3> QED
      BY <1>2, <3>1, <3>2, <3>3 DEF TimesOK
  <2>3. /\ idx' = 0 /\ 0 \in 0 .. MAX_LEN - 1
        /\ buf' \in [0 .. MAX_LEN - 1 -> Letters \cup {NUL}]
    BY <1>1, <1>11, SizeAssumption DEF EnterKey, LeaveInput
  <2>4. TypeOK'
    BY <2>1, <2>2, <2>3, TypeParts DEF ScreenInv
  <2>5. LineInv'
    BY <2>1, <2>3 DEF LineInv
  <2> QED
    BY <2>1, <2>4, <2>5 DEF ConsoleInv
<1>12. CASE BackSpaceKey
  <2>1. pc' # "idle" /\ UNCHANGED <<window, timing, echo, buf>>
    BY <1>12 DEF BackSpaceKey, Top
  <2>2. CASE idx = 0
    <3>1. UNCHANGED <<con, buf, idx, text, stuck>>
      BY <1>12, <2>1, <2>2 DEF BackSpaceKey
    <3>2. TimesOK'
      BY <1>2, <1>12, <2>1, <3>1 DEF BackSpaceKey, Top, TimesOK, timing
    <3> QED
      BY <1>3, <2>1, <3>1, <3>2
  <2>3. CASE idx # 0
    <3>1. /\ idx > 0 /\ idx' = idx - 1 /\ idx' \in 0 .. MAX_LEN - 1
          /\ con' = Putc(con, BS) /\ text' = Printed(text, BS)
          /\ stuck' = (stuck \/ con.x = 0)
      BY <1>1, <1>12, <2>3, SizeAssumption DEF BackSpaceKey
    <3>2. /\ con' \in Screens /\ NoBlock(con') /\ Matches(con', text')
          /\ text' \in Seq(Chars)
          /\ text' = IF con.x > 0 THEN Front(text) ELSE text
      BY <1>1, <3>1, PutcRight
    <3>3. /\ Len(text') <= MaxText
          /\ con.x > 0 => /\ Len(text) > 0 /\ Len(text') = Len(text) - 1
                         /\ \A n \in 1 .. Len(text) - 1 : text'[n] = text[n]
      <4>1. CASE con.x > 0
        <5>1. Len(text) \in Nat \ {0}
          BY <1>1, <4>1, LastOfRow DEF Matches, CursorAt
        <5>2. text' = Front(text) /\ Len(text) > 0
          BY <3>2, <4>1, <5>1
        <5>3. /\ Len(text) > 0 /\ Len(text') = Len(text) - 1
              /\ \A n \in 1 .. Len(text) - 1 : text'[n] = text[n]
          BY <1>1, <5>2, FrontKeeps
        <5>4. Len(text') <= MaxText
          BY <1>1, <5>3
        <5> QED
          BY <5>3, <5>4
      <4>2. CASE ~(con.x > 0)
        BY <1>1, <3>2, <4>2
      <4> QED
        BY <4>1, <4>2
    <3>4. TimesOK'
      <4>1. stuck' \in BOOLEAN
        BY <3>1
      <4> QED
        BY <1>2, <1>12, <2>1, <4>1 DEF BackSpaceKey, Top, TimesOK, timing
    <3>5. TypeOK'
      BY <1>1, <2>1, <3>1, <3>2, <3>3, <3>4, TypeParts
    <3>6. ScreenInv'
      BY <3>2, NoBlockOne DEF ScreenInv
    <3>7. LineInv'
      <4>1. SUFFICES ASSUME ~stuck'
                     PROVE  /\ idx' <= Len(text')
                            /\ \A i \in 0 .. idx' - 1 :
                                 /\ buf[i] = text'[Len(text') - idx' + 1 + i]
                                 /\ buf[i] \in Letters
        BY <2>1 DEF LineInv
      <4>2. ~stuck /\ con.x > 0
        <5>1. con.x \in Nat
          BY <1>1, SizeAssumption DEF Screens, Col
        <5>2. ~(stuck \/ con.x = 0)
          BY <3>1, <4>1
        <5> QED
          BY <5>1, <5>2
      <4>3. /\ idx <= Len(text)
            /\ \A i \in 0 .. idx - 1 :
                 buf[i] = text[Len(text) - idx + 1 + i] /\ buf[i] \in Letters
        BY <1>2, <4>2 DEF LineInv
      <4>4. Len(text) \in Nat /\ Len(text') = Len(text) - 1 /\ idx' = idx - 1
        BY <1>1, <3>1, <3>3, <4>2
      <4>5. ASSUME NEW i \in 0 .. idx' - 1
            PROVE  /\ buf[i] = text'[Len(text') - idx' + 1 + i]
                   /\ buf[i] \in Letters
        <5>1. /\ i \in 0 .. idx - 1
              /\ Len(text') - idx' + 1 + i = Len(text) - idx + 1 + i
              /\ Len(text) - idx + 1 + i \in 1 .. Len(text) - 1
          BY <1>1, <4>3, <4>4
        <5> QED
          BY <3>3, <4>2, <4>3, <5>1
      <4> QED
        BY <1>1, <4>3, <4>4, <4>5
    <3> QED
      BY <3>5, <3>6, <3>7 DEF ConsoleInv
  <2> QED
    BY <2>2, <2>3
<1>13. ASSUME NEW c \in Letters, CharKey(c)
       PROVE  ConsoleInv'
  <2>1. pc' # "idle" /\ UNCHANGED <<window, timing, echo, stuck>>
    BY <1>13 DEF CharKey, Top
  <2>2. TimesOK'
    BY <1>2, <1>13, <2>1 DEF CharKey, Top, TimesOK, timing
  <2>3. CASE ~Fits
    <3>1. UNCHANGED <<con, buf, idx, text, stuck>>
      BY <1>13, <2>1, <2>3 DEF CharKey
    <3> QED
      BY <1>3, <2>1, <2>2, <3>1
  <2>4. CASE Fits
    <3>1. /\ Len(text) < MaxText /\ con' = Putc(con, c)
          /\ text' = Printed(text, c)
          /\ buf' = [buf EXCEPT ![idx] = c] /\ idx' = idx + 1
          /\ idx' \in 0 .. MAX_LEN - 1
      BY <1>1, <1>13, <2>4, SizeAssumption DEF CharKey, Fits
    <3>2. c # BS /\ c \in Chars /\ c \in Letters \cup {NL, BS}
      BY TextAssumption DEF Chars
    <3>3. /\ con' \in Screens /\ NoBlock(con') /\ Matches(con', text')
          /\ text' = Append(text, c)
      BY <1>1, <3>1, <3>2, PutcRight
    <3>4. /\ text' \in Seq(Chars) /\ Len(text') = Len(text) + 1
          /\ \A n \in 1 .. Len(text) : text'[n] = text[n]
          /\ text'[Len(text) + 1] = c
      BY <1>1, <3>2, <3>3, Appended
    <3>5. TypeOK'
      <4>1. Len(text') <= MaxText
        BY <1>1, <3>1, <3>4
      <4>2. buf' \in [0 .. MAX_LEN - 1 -> Letters \cup {NUL}]
        BY <1>1, <3>1
      <4> QED
        BY <2>2, <3>1, <3>3, <3>4, <4>1, <4>2, TypeParts
    <3>6. ScreenInv'
      BY <3>3, NoBlockOne DEF ScreenInv
    <3>7. LineInv'
      <4>1. SUFFICES ASSUME ~stuck'
                     PROVE  /\ idx' <= Len(text')
                            /\ \A i \in 0 .. idx' - 1 :
                                 /\ buf'[i] = text'[Len(text') - idx' + 1 + i]
                                 /\ buf'[i] \in Letters
        BY <2>1 DEF LineInv
      <4>2. /\ idx <= Len(text)
            /\ \A i \in 0 .. idx - 1 :
                 buf[i] = text[Len(text) - idx + 1 + i] /\ buf[i] \in Letters
        BY <1>2, <2>1, <4>1 DEF LineInv
      <4>3. idx' <= Len(text')
        BY <1>1, <3>1, <3>4, <4>2
      <4>4. ASSUME NEW i \in 0 .. idx' - 1
            PROVE  /\ buf'[i] = text'[Len(text') - idx' + 1 + i]
                   /\ buf'[i] \in Letters
        <5>1. CASE i = idx
          <6>1. Len(text') - idx' + 1 + i = Len(text) + 1
            BY <1>1, <3>1, <3>4, <5>1
          <6> QED
            BY <1>1, <3>1, <3>4, <5>1, <6>1
        <5>2. CASE i # idx
          <6>1. /\ i \in 0 .. idx - 1
                /\ Len(text') - idx' + 1 + i = Len(text) - idx + 1 + i
                /\ Len(text) - idx + 1 + i \in 1 .. Len(text)
            BY <1>1, <3>1, <3>4, <4>2, <5>2
          <6>2. buf'[i] = buf[i]
            BY <1>1, <3>1, <5>2, <6>1
          <6> QED
            BY <3>4, <4>2, <6>1, <6>2
        <5> QED
          BY <5>1, <5>2
      <4> QED
        BY <4>3, <4>4
    <3> QED
      BY <3>5, <3>6, <3>7 DEF ConsoleInv
  <2> QED
    BY <2>3, <2>4
<1>14. ASSUME NEW c \in Letters \cup {NL, BS}, PutChar(c)
       PROVE  ConsoleInv'
  <2>1. /\ pc = "idle" /\ Len(text') <= MaxText /\ con' = Putc(con, c)
        /\ text' = Printed(text, c)
        /\ UNCHANGED <<window, timing, pc, input, stuck>>
    BY <1>14 DEF PutChar
  <2>2. /\ con' \in Screens /\ NoBlock(con') /\ Matches(con', text')
        /\ text' \in Seq(Chars)
    BY <1>1, <2>1, PutcRight
  <2>3. TimesOK'
    BY <1>2, <2>1 DEF TimesOK, timing, input
  <2>4. TypeOK'
    BY <1>1, <2>1, <2>2, <2>3, TypeParts DEF input
  <2>5. ScreenInv'
    BY <2>2, NoBlockOne DEF ScreenInv
  <2>6. LineInv'
    BY <1>2, <2>1, <2>2 DEF LineInv, input
  <2> QED
    BY <2>4, <2>5, <2>6 DEF ConsoleInv
<1>15. CASE UNCHANGED vars
  <2>1. UNCHANGED <<con, buf, idx, text, stuck>> /\ pc' = pc
    BY <1>15 DEF vars, input
  <2>2. TimesOK'
    BY <1>2, <1>15 DEF vars, timing, input, TimesOK
  <2> QED
    BY <1>2, <1>3, <2>1, <2>2 DEF LineInv
<1> QED
  BY <1>4, <1>5, <1>6, <1>7, <1>8, <1>9, <1>10, <1>11, <1>12, <1>13, <1>14,
     <1>15 DEF Next, Key

LEMMA Invariant == Spec => []ConsoleInv
BY InitInv, StepInv, PTL DEF Spec

-----------------------------------------------------------------------------
(***************************************************************************)
(* The properties.                                                         *)
(***************************************************************************)
\* The cursor stays on the screen and idx in the buffer.
THEOREM TypeCorrect == Spec => []TypeOK
<1>1. ConsoleInv => TypeOK
  BY DEF ConsoleInv
<1> QED
  BY <1>1, Invariant, PTL

\* The screen shows the end of the text that was printed, whatever the size of
\* the screen and the order of printing, typing, erasing, blinking and
\* scrolling.
THEOREM TextShown == Spec => []ScreenShowsText
<1>1. ConsoleInv => ScreenShowsText
  BY ScreenRight DEF ConsoleInv
<1> QED
  BY <1>1, Invariant, PTL

\* No block stays behind: one on the screen is the cursor.
THEOREM OneCursor == Spec => []BlockIsCursor
<1>1. ConsoleInv => BlockIsCursor
  BY ScreenRight DEF ConsoleInv
<1> QED
  BY <1>1, Invariant, PTL

\* The string in a buffer whose first NUL is known.
LEMMA StringEnds ==
  ASSUME NEW b, NEW n \in 0 .. MAX_LEN - 1, b[n] = NUL,
         \A i \in 0 .. n - 1 : b[i] # NUL
  PROVE  CString(b) = [i \in 1 .. n |-> b[i - 1]]
<1> DEFINE Ends(m) == /\ m < MAX_LEN => b[m] = NUL
                      /\ \A i \in 0 .. m - 1 : b[i] # NUL
<1>1. n \in 0 .. MAX_LEN /\ Ends(n)
  BY SizeAssumption
<1>2. ASSUME NEW m \in 0 .. MAX_LEN, Ends(m)
      PROVE  m = n
  BY <1>2, SizeAssumption
<1>3. (CHOOSE m \in 0 .. MAX_LEN : Ends(m)) = n
  <2> HIDE DEF Ends
  <2> QED
    BY <1>1, <1>2
<1> QED
  BY <1>3 DEF CString

\* Enter gives the caller what was shown, whatever an earlier and longer line
\* left in the buffer.
THEOREM LineKept == Spec => LineReturned
<1>1. ASSUME ConsoleInv, [Next]_vars, pc # "idle", pc' = "idle", ~stuck
      PROVE  CString(buf') = SubSeq(text, Len(text) - idx + 1, Len(text))
  <2>1. EnterKey
    BY <1>1 DEF Next, Key, Tick, Clear, Panic, ConsoleInput, Poll, Update,
                NoKey, BackSpaceKey, CharKey, PutChar, Top, vars
  <2>2. /\ text \in Seq(Chars) /\ idx \in 0 .. MAX_LEN - 1 /\ idx \in Nat
        /\ buf \in [0 .. MAX_LEN - 1 -> Letters \cup {NUL}]
    BY <1>1, Types DEF ConsoleInv
  <2>3. /\ idx <= Len(text)
        /\ \A i \in 0 .. idx - 1 :
             buf[i] = text[Len(text) - idx + 1 + i] /\ buf[i] \in Letters
    BY <1>1 DEF ConsoleInv, LineInv
  <2>4. buf' = [buf EXCEPT ![idx] = NUL]
    BY <2>1 DEF EnterKey
  <2>5. buf'[idx] = NUL /\ \A i \in 0 .. idx - 1 : buf'[i] = buf[i]
    BY <2>2, <2>4
  <2>6. CString(buf') = [i \in 1 .. idx |-> buf'[i - 1]]
    <3>1. \A i \in 0 .. idx - 1 : buf'[i] # NUL
      BY <2>3, <2>5, TextAssumption
    <3> QED
      BY <2>2, <2>5, <3>1, StringEnds
  <2>7. SubSeq(text, Len(text) - idx + 1, Len(text))
          = [i \in 1 .. idx |-> text[Len(text) - idx + i]]
    BY <2>2, <2>3
  <2>8. ASSUME NEW i \in 1 .. idx
        PROVE  buf'[i - 1] = text[Len(text) - idx + i]
    <3>1. /\ i - 1 \in 0 .. idx - 1
          /\ Len(text) - idx + 1 + (i - 1) = Len(text) - idx + i
      BY <2>2
    <3> QED
      BY <2>3, <2>5, <3>1
  <2> QED
    BY <2>6, <2>7, <2>8
<1>2. ConsoleInv /\ [Next]_vars =>
        [pc # "idle" /\ pc' = "idle" /\ ~stuck =>
           CString(buf') = SubSeq(text, Len(text) - idx + 1, Len(text))]_vars
  BY <1>1
<1> QED
  BY <1>2, Invariant, PTL DEF Spec, LineReturned
=============================================================================
