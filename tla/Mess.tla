-------------------------------- MODULE Mess --------------------------------
(***************************************************************************)
(* kernel/execs/mess/mess.c: the text viewer.  It lays the text out three  *)
(* times, each time from its first character: to count the visual lines,   *)
(* to skip those above the window, and to print the window.  Scrolling is  *)
(* right if the three agree.                                               *)
(*                                                                         *)
(* The text is followed by NUL in memory.  match_indices and               *)
(* search_term_len are static: they outlive the file they were found in.   *)
(* Colours other than that of a match, and file names, are left out.  The  *)
(* status line is assumed to fit one row, the console's last.              *)
(***************************************************************************)
EXTENDS Integers, Sequences, FiniteSets, FiniteSetsExt, SequencesExt

CONSTANTS
  available_cols,   \* the columns of the console (122)
  available_rows,   \* its rows less the status line (43)
  LINE_NUM_WIDTH,   \* columns in front of the text (6)
  STATUS_WIDTH,     \* columns of the longest status line (96)
  TAB_WIDTH,        \* (4)
  MAX_MATCHES,      \* (128)
  W,                \* unsigned numbers count modulo W (2^32)
  Texts,            \* the files
  Terms,            \* what the user searches for
  MaxOffset         \* bound: scroll_offset

NL == "nl"          \* '\n'
TAB == "tab"        \* '\t'
NUL == "nul"        \* '\0'

ASSUME ScreenAssumption ==
  /\ available_cols \in Nat /\ available_rows \in Nat \ {0, 1}
  /\ LINE_NUM_WIDTH \in 1 .. available_cols - 1 /\ TAB_WIDTH \in Nat \ {0}
  /\ STATUS_WIDTH \in 1 .. available_cols - 1
  /\ MAX_MATCHES \in Nat /\ W \in Nat
  /\ MaxOffset \in Nat \ {0} /\ MaxOffset + available_rows <= W

\* A number that does not fit is padded with W less a few spaces: as many as
\* scroll every row off the screen.
ASSUME PaddingAssumption == available_cols * (available_rows + 2) < W

\* A file has a NUL behind it only, and fewer characters than W less a window.
ASSUME TextsAssumption ==
  \A t \in Texts :
    /\ t \in Seq(ToSet(t) \ {NUL})
    /\ Len(t) + available_rows < W

\* What console_input_nonl returns has neither NUL nor a newline.
ASSUME TermsAssumption == \A w \in Terms : w \in Seq(ToSet(w) \ {NUL, NL})

VARIABLES
  pc,             \* "shell", or "mess" while a file is shown
  txt,            \* the file, or the last one
  scroll_offset,
  matches,        \* match_indices up to match_count: places from 1 on
  search_len,     \* search_term_len
  page,           \* the rows on the screen: number, characters, highlights
  status,         \* the message in the status line
  term,           \* history: the last search term
  fresh           \* history: the page was printed with matches of this file

vars == <<pc, txt, scroll_offset, matches, search_len, page, status, term,
          fresh>>

-----------------------------------------------------------------------------
(***************************************************************************)
(* The three layouts.                                                      *)
(***************************************************************************)
\* txt[i], also past the end.
At(t, i) == IF i <= Len(t) THEN t[i] ELSE NUL

TabStop(col) == col + TAB_WIDTH - (col % TAB_WIDTH)

TextWidth == IF available_cols > LINE_NUM_WIDTH
               THEN available_cols - LINE_NUM_WIDTH ELSE 1

\* One turn of the loop of count_visual_lines.
CountStep(s, c) ==
  LET lines == IF c = NL THEN s.lines + 1 ELSE s.lines
      col == IF c = NL THEN 0
             ELSE IF c = TAB THEN TabStop(s.col) ELSE s.col + 1
  IN  IF col >= TextWidth THEN [lines |-> lines + 1, col |-> 0]
                          ELSE [lines |-> lines, col |-> col]

\* Counted(t)[n] is the state of the loop n characters into the text.
Counted(t) ==
  LET count[n \in 0 .. Len(t)] ==
        IF n = 0 THEN [lines |-> 0, col |-> 0]
                 ELSE CountStep(count[n - 1], t[n])
  IN  count

CountVisualLines(t) ==
  LET end == Counted(t)[Len(t)]
  IN  IF end.col > 0 THEN end.lines + 1 ELSE end.lines

\* The first loop of print_file_contents_at_offset: the place where offset
\* visual lines are behind, and the logical lines among them.
SkipStep(s, c) ==
  LET col == IF c = NL THEN LINE_NUM_WIDTH
             ELSE IF c = TAB THEN TabStop(s.col) ELSE s.col + 1
      full == col >= available_cols
  IN  [i |-> s.i + 1,
       col |-> IF full THEN LINE_NUM_WIDTH ELSE col,
       line |-> IF c = NL THEN s.line + 1 ELSE s.line,
       skipped |-> s.skipped + (IF c = NL THEN 1 ELSE 0)
                             + (IF full THEN 1 ELSE 0)]

Skipped(t, offset) ==
  LET skip[n \in 0 .. Len(t)] ==
        IF n = 0
          THEN [i |-> 1, col |-> LINE_NUM_WIDTH, line |-> 0, skipped |-> 0]
        ELSE LET s == skip[n - 1]
             IN  IF s.skipped >= offset THEN s ELSE SkipStep(s, t[n])
  IN  skip

Cell(c, hi) == [char |-> c, hi |-> hi]

\* A match starts here and ends before the last column.
Highlights(found, len, i, x) == i \in found /\ x + len < available_cols

Row(n, cells) == [num |-> n, cells |-> cells]

\* A line number takes the columns of LINE_NUM_WIDTH but one.  The spaces after
\* it are LINE_NUM_WIDTH - 1 - len, an unsigned difference: after a number that
\* is too wide (line 100000) they scroll it and the rows above off the screen.
NumberFits(n) == n < 10 ^ (LINE_NUM_WIDTH - 1)
RowNumber(n) == IF NumberFits(n) THEN n ELSE 0
Blanked(rows) == [r \in 1 .. Len(rows) |-> Row(0, <<>>)]

\* The second loop: i is the place in the text, x the cursor's column, new
\* says that a row is to be started.
StartRow(s) ==
  LET n == s.line + 1
      above == IF NumberFits(n) THEN s.rows ELSE Blanked(s.rows)
  IN  IF s.new
        THEN [s EXCEPT !.x = LINE_NUM_WIDTH, !.new = FALSE,
                       !.rows = Append(above, Row(RowNumber(n), <<>>))]
        ELSE s

NewLine(s) == [s EXCEPT !.i = @ + 1, !.line = @ + 1, !.new = TRUE]

\* n characters of the text become these cells.
Write(s, n, cells) ==
  [s EXCEPT !.i = @ + n, !.x = @ + Len(cells),
            !.rows[Len(s.rows)].cells = @ \o cells]

\* A tab stops at the right edge and leaves the row as it is.
WriteTab(s) ==
  LET spaces == Min({TabStop(s.x), available_cols}) - s.x
  IN  Write(s, 1, [k \in 1 .. spaces |-> Cell(" ", FALSE)])

WriteMatch(t, len, s) ==
  Write(s, len, [k \in 1 .. len |-> Cell(At(t, s.i + k - 1), TRUE)])

WriteChar(s, c) ==
  Write(s, 1, IF s.x < available_cols THEN <<Cell(c, FALSE)>> ELSE <<>>)

RowFull(s) == [s EXCEPT !.new = s.x >= available_cols]

\* One turn of the loop, or none when the text or the window ends.
LayStep(t, found, len, s0) ==
  LET y == Len(s0.rows) - (IF s0.new THEN 0 ELSE 1)
      s == StartRow(s0)
      c == At(t, s.i)
  IN  IF c = NUL \/ y >= available_rows - 1 THEN s0
      ELSE IF c = NL THEN NewLine(s)
      ELSE IF c = TAB THEN WriteTab(s)
      ELSE IF Highlights(found, len, s.i, s.x)
        THEN RowFull(WriteMatch(t, len, s))
      ELSE RowFull(WriteChar(s, c))

\* Laid(...)[n] is the state after n turns; Len(t) are enough.
Laid(t, found, len, from) ==
  LET lay[n \in 0 .. Len(t)] ==
        IF n = 0 THEN from ELSE LayStep(t, found, len, lay[n - 1])
  IN  lay

\* found and len are match_indices and search_term_len.
PrintFileContents(t, offset, found, len) ==
  LET skipped == Skipped(t, offset)[Len(t)]
      from == [i |-> skipped.i, x |-> LINE_NUM_WIDTH, line |-> skipped.line,
               rows |-> <<>>, new |-> TRUE]
  IN  Laid(t, found, len, from)[Len(t)].rows

-----------------------------------------------------------------------------
\* The status line also shows the scroll offset and the number of rows.
PrintStatusLine(msg) == status' = msg

Init ==
  /\ pc = "shell" /\ txt = <<>> /\ scroll_offset = 0
  /\ matches = {} /\ search_len = 0
  /\ page = <<>> /\ status = ""
  /\ term = <<>> /\ fresh = TRUE

\* mess: the contents are printed after the status line and clear it.
Start(t) ==
  /\ pc = "shell"
  /\ pc' = "mess"
  /\ txt' = t
  /\ scroll_offset' = 0
  /\ page' = PrintFileContents(t, 0, matches, search_len)
  /\ status' = ""
  /\ fresh' = (matches = {} \/ (fresh /\ t = txt))
  /\ UNCHANGED <<matches, search_len, term>>

\* Mutant of MaxScroll: the status line is not taken off the window.
MaxScrollStatus == (CountVisualLines(txt) - available_rows) % W

\* An unsigned difference.
MaxScroll == (CountVisualLines(txt) - (available_rows - 1)) % W

ScrollDown ==
  /\ pc = "mess"
  /\ scroll_offset < MaxOffset
  /\ IF scroll_offset < MaxScroll
       THEN /\ scroll_offset' = scroll_offset + 1
            /\ page' = PrintFileContents(txt, scroll_offset + 1,
                                          matches, search_len)
            /\ PrintStatusLine("scroll down")
       ELSE /\ PrintStatusLine("bottom of file")
            /\ UNCHANGED <<scroll_offset, page>>
  /\ UNCHANGED <<pc, txt, matches, search_len, term, fresh>>

\* Mutant of ScrollUp: the page is not printed again.
ScrollUpNoPrint ==
  /\ pc = "mess"
  /\ IF scroll_offset > 0
       THEN /\ scroll_offset' = scroll_offset - 1
            /\ PrintStatusLine("scroll up")
       ELSE /\ PrintStatusLine("top of file")
            /\ UNCHANGED scroll_offset
  /\ UNCHANGED <<pc, txt, matches, search_len, page, term, fresh>>

ScrollUp ==
  /\ pc = "mess"
  /\ IF scroll_offset > 0
       THEN /\ scroll_offset' = scroll_offset - 1
            /\ page' = PrintFileContents(txt, scroll_offset - 1,
                                          matches, search_len)
            /\ PrintStatusLine("scroll up")
       ELSE /\ PrintStatusLine("top of file")
            /\ UNCHANGED <<scroll_offset, page>>
  /\ UNCHANGED <<pc, txt, matches, search_len, term, fresh>>

Occurs(w, i) == \A k \in 1 .. Len(w) : At(txt, i + k - 1) = w[k]

\* Mutant of Found: only the first character is compared.
FoundFirst(w) == {i \in 1 .. Len(txt) : At(txt, i) = w[1]}

\* The loop of search, without its limit.
Found(w) == {i \in 1 .. Len(txt) : Occurs(w, i)}

\* The first of these.
FirstMatches(places) ==
  {i \in places : Cardinality({j \in places : j < i}) < MAX_MATCHES}

\* search, after console_input_nonl returned a term.
Search(w) ==
  /\ pc = "mess"
  /\ UNCHANGED <<pc, txt, scroll_offset>>
  /\ search_len' = Len(w)
  /\ term' = w /\ fresh' = (fresh \/ w # <<>>)
  /\ IF w = <<>>
       THEN /\ matches' = {}
            /\ PrintStatusLine("empty search")
            /\ UNCHANGED page
       ELSE \E found \in {FirstMatches(Found(w))} :
              /\ matches' = found
              /\ page' = PrintFileContents(txt, scroll_offset, found, Len(w))
              /\ PrintStatusLine(IF found # {} THEN "match(es) found"
                                               ELSE "no matches")

Quit ==
  /\ pc = "mess"
  /\ pc' = "shell"
  /\ page' = <<>> /\ status' = ""
  /\ UNCHANGED <<txt, scroll_offset, matches, search_len, term, fresh>>

Next ==
  \/ \E t \in Texts : Start(t)
  \/ ScrollDown \/ ScrollUp \/ Quit
  \/ \E w \in Terms : Search(w)

Spec == Init /\ [][Next]_vars

-----------------------------------------------------------------------------
(***************************************************************************)
(* The reference: where the rows of a text without tabs begin.             *)
(***************************************************************************)
Plain == TAB \notin ToSet(txt)
Window == available_rows - 1
LineStart(t, i) == Max({1} \cup {j + 1 : j \in {j \in 1 .. i - 1 : t[j] = NL}})
RowStarts(t) ==
  {i \in 1 .. Len(t) : (i - LineStart(t, i)) % TextWidth = 0}

\* The r-th row begins where r - 1 rows begin before, and has the places up to
\* the end of its line or the beginning of the next row.
RowStart(t, r) ==
  CHOOSE i \in RowStarts(t) :
    Cardinality({j \in RowStarts(t) : j < i}) = r - 1
RowPlaces(t, i) ==
  {k \in i .. Len(t) :
     t[k] # NL /\ \A j \in i + 1 .. k : j \notin RowStarts(t)}

\* The rows of a text: the number of the logical line and the characters.
TextRows(t) ==
  [r \in 1 .. Cardinality(RowStarts(t)) |->
     LET i == RowStart(t, r)
     IN  [num |-> 1 + Cardinality({j \in 1 .. i - 1 : t[j] = NL}),
          chars |-> SubSeq(t, i, i + Cardinality(RowPlaces(t, i)) - 1)]]

PageText ==
  [r \in 1 .. Len(page) |->
     [num |-> page[r].num,
      chars |-> [k \in 1 .. Len(page[r].cells) |->
                   page[r].cells[k].char]]]

TypeOK ==
  /\ pc \in {"shell", "mess"}
  /\ txt \in Texts \cup {<<>>}
  /\ scroll_offset \in 0 .. MaxOffset
  /\ matches \subseteq Nat /\ Cardinality(matches) <= MAX_MATCHES
  /\ search_len = Len(term) /\ term \in Terms \cup {<<>>}
  /\ Len(page) <= Window
  /\ \A r \in 1 .. Len(page) :
       LINE_NUM_WIDTH + Len(page[r].cells) <= available_cols
  /\ fresh \in BOOLEAN

\* The rows of the text that belong into the window.
WindowRows(t, offset) ==
  SubSeq(TextRows(t), offset + 1, Min({offset + Window, Len(TextRows(t))}))

Numbered(rows) == \A r \in 1 .. Len(rows) : NumberFits(rows[r].num)

\* The screen shows the rows of the text from the scroll offset on: every row,
\* once, whole, under the number of its line.  The loops that skip and print
\* agree, and highlighting changes no text.  This is so up to the first line
\* whose number does not fit (mess.c:178): a window with such a line is not
\* shown.
PageIsText ==
  LET rows == WindowRows(txt, scroll_offset)
  IN  pc = "mess" /\ Plain /\ fresh /\ Numbered(rows) => PageText = rows

\* What is highlighted is a place of the term, in the row's own text.  An
\* empty search leaves what is on the screen.
HighlightsAreMatches ==
  pc = "mess" /\ fresh /\ term # <<>> =>
    \A r \in 1 .. Len(page) :
      LET cells == page[r].cells
      IN  \A k \in 1 .. Len(cells) : cells[k].hi =>
            \E b \in 0 .. search_len - 1 :
              /\ k - b \in 1 .. Len(cells) - search_len + 1
              /\ \A j \in 1 .. search_len : cells[k - b + j - 1].char = term[j]

\* Where scrolling stops is where the text stops: "bottom of file" (mess.c:306)
\* appears when the last row is in the window and on no row before, so that
\* every row can be reached; "top of file" when the first row is.
ScrollStopsAtEnds ==
  pc = "mess" /\ Plain =>
    /\ status = "bottom of file" =>
         scroll_offset + Window = Len(TextRows(txt))
    /\ status = "scroll down" /\ Len(TextRows(txt)) >= Window =>
         scroll_offset + Window <= Len(TextRows(txt))
    /\ status = "top of file" => scroll_offset = 0
=============================================================================
