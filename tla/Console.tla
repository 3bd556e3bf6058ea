------------------------------- MODULE Console -------------------------------
(***************************************************************************)
(* kernel/klib/console/console.c and panicshell/panic_console.c: the text  *)
(* console with its cursor, scrolling, the line input of shell and         *)
(* programs, and the blinking block that the same loop draws and erases;   *)
(* and the window that takes its place after an exception, which has the   *)
(* same operations but no block, and waits for no tick.                    *)
(*                                                                         *)
(* A cell of the screen holds a character, a blank or the block.  The      *)
(* console keeps no copy of its text: what it does not redraw right is     *)
(* lost.  Pixels, margins, colours and titles are left out; scroll_step,   *)
(* which moves the first scroll by a few more pixels, is a row here, and   *)
(* one size does for both windows.  cursor_enabled is not a variable:      *)
(* console_input sets it, and the statements that would reset it come      *)
(* after an endless loop.                                                  *)
(***************************************************************************)
EXTENDS Ticks, Sequences, SequencesExt

CONSTANTS
  MAX_ROWS, MAX_COLS,   \* max_rows, max_cols: the size of the screen
  MAX_LEN,              \* the size of the caller's buffer (128 in the shell)
  BLINK,                \* blink_interval_ticks (50)
  Letters,              \* the characters that can be drawn
  MaxText               \* bound: the characters printed since console_clear

ASSUME SizeAssumption ==
  /\ MAX_ROWS \in Nat \ {0} /\ MAX_COLS \in Nat \ {0, 1}
  /\ MAX_LEN \in Nat \ {0} /\ BLINK \in 1 .. W - 1

NL == "nl"        \* '\n'
BS == "bs"        \* '\b'
NUL == "nul"      \* '\0'
Blank == " "
Block == "block"  \* a cell painted in the text colour: the cursor
Row == 0 .. MAX_ROWS - 1
Col == 0 .. MAX_COLS - 1

\* The three control characters are not drawn, and no character is a block.
ASSUME TextAssumption ==
  /\ Letters \cap {NL, BS, NUL, Block} = {}
  /\ MaxText \in Nat

VARIABLES
  window,      \* "console", or "panic" for good
  con,         \* the cells, cursor_x, cursor_y and cursor_drawn
  last_blink,  \* last_blink_tick
  ticks,       \* the tick counter
  pc,          \* "idle", or the statement of console_input's loop that is next
  echo,        \* console_input prints the newline, console_input_nonl does not
  last_loop,   \* console_input's last_loop_tick
  buf, idx,    \* the caller's buffer and console_input's idx
  lag,         \* history: ticks since the loop last looked at the counter
  text,        \* history: the characters printed and not taken back
  stuck        \* history: '\b' met a line that starts at the left edge

timing == <<last_blink, ticks, last_loop, lag>>
input == <<echo, buf, idx>>
vars == <<window, con, timing, pc, input, text, stuck>>

-----------------------------------------------------------------------------
(***************************************************************************)
(* The screen.                                                             *)
(***************************************************************************)
BlankRow == [c \in Col |-> Blank]
BlankScreen == [r \in Row |-> BlankRow]

\* erase_cursor; draw_char of a space.
Erase(s) == [s EXCEPT !.cell[s.y][s.x] = Blank]

\* draw_cursor.
DrawCursor(s) == [s EXCEPT !.cell[s.y][s.x] = Block]

Scroll(s) ==
  [s EXCEPT !.cell = [r \in Row |->
                        IF r + 1 \in Row THEN s.cell[r + 1] ELSE BlankRow],
            !.y = IF s.y > 0 THEN s.y - 1 ELSE s.y]

\* Mutant of NewLine: the console scrolls when the cursor enters the last row.
NewLineEarly(s) ==
  LET next == [s EXCEPT !.x = 0, !.y = s.y + 1]
  IN  IF next.y >= MAX_ROWS - 1
        THEN [Scroll(next) EXCEPT !.y = MAX_ROWS - 1]
        ELSE next

NewLine(s) ==
  LET next == [s EXCEPT !.x = 0, !.y = s.y + 1]
  IN  IF next.y >= MAX_ROWS
        THEN [Scroll(next) EXCEPT !.y = MAX_ROWS - 1]
        ELSE next

BackSpace(s) == Erase([s EXCEPT !.x = IF s.x > 0 THEN s.x - 1 ELSE s.x])

DrawChar(s, c) ==
  LET next == [s EXCEPT !.cell[s.y][s.x] = c, !.x = s.x + 1]
  IN  IF next.x >= MAX_COLS THEN NewLine(next) ELSE next

\* Mutant of WithoutCursor: the flag is reset, the block stays.
WithoutCursorFlag(s) == [s EXCEPT !.drawn = FALSE]

WithoutCursor(s) ==
  IF s.drawn THEN [Erase(s) EXCEPT !.drawn = FALSE] ELSE s

Putc(s0, c) ==
  LET s == WithoutCursor(s0)
  IN  CASE c = NL -> NewLine(s)
        [] c = BS -> BackSpace(s)
        [] OTHER  -> DrawChar(s, c)

-----------------------------------------------------------------------------
(***************************************************************************)
(* The reference: the text on a page as long as it takes, of which the     *)
(* screen shows the end.  Place(t)[n] is where the n-th character goes.    *)
(***************************************************************************)
Place(t) ==
  LET place[n \in 1 .. Len(t) + 1] ==
        IF n = 1 THEN [row |-> 0, col |-> 0]
        ELSE LET p == place[n - 1]
             IN  IF t[n - 1] = NL \/ p.col + 1 = MAX_COLS
                   THEN [row |-> p.row + 1, col |-> 0]
                   ELSE [row |-> p.row, col |-> p.col + 1]
  IN  place

\* The page after another character: '\b' takes the last one of the row back.
Printed(t, c) ==
  IF c # BS THEN Append(t, c)
  ELSE IF Place(t)[Len(t) + 1].col > 0 THEN Front(t) ELSE t

-----------------------------------------------------------------------------
Init ==
  /\ window = "console"
  /\ con = [cell |-> BlankScreen, x |-> 0, y |-> 0, drawn |-> TRUE]
  /\ last_blink = 0 /\ ticks = 0 /\ last_loop = 0 /\ lag = 0
  /\ pc = "idle" /\ echo = TRUE /\ idx = 0
  /\ buf = [i \in 0 .. MAX_LEN - 1 |-> NUL]
  /\ text = <<>> /\ stuck = FALSE

\* pit_uptime_handler.  The loop comes round before the counter does: W ticks
\* are 497 days.
Tick ==
  /\ window = "console"
  /\ pc # "idle" => lag < W - BLINK - 1
  /\ ticks' = Ticked(ticks)
  /\ lag' = IF pc = "idle" THEN 0 ELSE lag + 1
  /\ UNCHANGED <<window, con, last_blink, last_loop, pc, input, text, stuck>>

\* console_putc from the kernel or, as a system call, from a program.
PutChar(c) ==
  /\ pc = "idle"
  /\ Len(Printed(text, c)) <= MaxText
  /\ con' = Putc(con, c)
  /\ text' = Printed(text, c)
  /\ UNCHANGED <<window, timing, pc, input, stuck>>

\* console_clear: the flag of the cursor stays as it is.
Clear ==
  /\ pc = "idle" /\ window = "console"
  /\ con' = [con EXCEPT !.cell = BlankScreen, !.x = 0, !.y = 0]
  /\ text' = <<>>
  /\ UNCHANGED <<window, timing, pc, input, stuck>>

\* pshell_init and pshell_clear: an exception, also one of the panic shell.
\* The console is not looked at any more.
Panic ==
  /\ pc = "idle"
  /\ window' = "panic"
  /\ con' = [cell |-> BlankScreen, x |-> 0, y |-> 0, drawn |-> FALSE]
  /\ text' = <<>>
  /\ ticks' = 0 /\ last_blink' = 0 /\ last_loop' = 0 /\ lag' = 0
  /\ buf' = [i \in 0 .. MAX_LEN - 1 |-> NUL]
  /\ UNCHANGED <<pc, echo, idx, stuck>>

\* Where an input loop starts: pshell_input looks for a key at once.
Top == IF window = "console" THEN "poll" ELSE "key"

ConsoleInput ==
  /\ pc = "idle"
  /\ pc' = Top
  /\ IF window = "console" THEN echo' \in BOOLEAN ELSE UNCHANGED echo
  /\ UNCHANGED <<window, con, timing, buf, idx, text, stuck>>

\* now = uptime_ticks(): the loop does something once per tick.
Poll ==
  /\ pc = "poll"
  /\ lag' = 0
  /\ last_loop' = ticks
  /\ pc' = IF ticks # last_loop THEN "update" ELSE "poll"
  /\ UNCHANGED <<window, con, last_blink, ticks, input, text, stuck>>

\* Mutant of BlinkDue: the sum is compared, and a counter past W never is.
BlinkDueSum == ticks >= last_blink + BLINK

BlinkDue == (ticks - last_blink) % W >= BLINK

\* console_update, which reads the counter again.
Update ==
  /\ pc = "update"
  /\ last_blink' = IF BlinkDue THEN ticks ELSE last_blink
  /\ con' = IF ~BlinkDue THEN con
            ELSE IF con.drawn THEN [Erase(con) EXCEPT !.drawn = FALSE]
            ELSE DrawCursor([con EXCEPT !.drawn = TRUE])
  /\ pc' = "key"
  /\ UNCHANGED <<window, ticks, last_loop, lag, input, text, stuck>>

NoKey ==
  /\ pc = "key"
  /\ pc' = Top
  /\ UNCHANGED <<window, con, timing, input, text, stuck>>

\* The return of console_input ends the life of its variables.
LeaveInput ==
  /\ pc' = "idle" /\ echo' = TRUE /\ idx' = 0 /\ last_loop' = 0
  /\ lag' = 0 /\ stuck' = FALSE

\* Mutant of EnterKey: the string is not terminated.
EnterKeyNoEnd ==
  /\ pc = "key"
  /\ LET s == IF echo THEN Putc(con, NL) ELSE con
     IN  con' = IF window = "console"
                  THEN Erase([s EXCEPT !.drawn = FALSE]) ELSE s
  /\ text' = IF echo THEN Append(text, NL) ELSE text
  /\ Len(text') <= MaxText
  /\ LeaveInput
  /\ UNCHANGED <<window, last_blink, ticks, buf>>

EnterKey ==
  /\ pc = "key"
  /\ LET s == IF echo THEN Putc(con, NL) ELSE con
     IN  con' = IF window = "console"
                  THEN Erase([s EXCEPT !.drawn = FALSE]) ELSE s
  /\ text' = IF echo THEN Append(text, NL) ELSE text
  /\ Len(text') <= MaxText
  /\ buf' = [buf EXCEPT ![idx] = NUL]
  /\ LeaveInput
  /\ UNCHANGED <<window, last_blink, ticks>>

\* At the left edge the buffer loses a character that stays on the screen.
BackSpaceKey ==
  /\ pc = "key"
  /\ IF idx > 0
       THEN /\ idx' = idx - 1
            /\ con' = Putc(con, BS)
            /\ text' = Printed(text, BS)
            /\ stuck' = (stuck \/ con.x = 0)
       ELSE UNCHANGED <<idx, con, text, stuck>>
  /\ pc' = Top
  /\ UNCHANGED <<window, timing, echo, buf>>

Fits == idx < MAX_LEN - 1

CharKey(c) ==
  /\ pc = "key"
  /\ IF Fits
       THEN /\ Len(text) < MaxText
            /\ con' = Putc(con, c)
            /\ text' = Printed(text, c)
            /\ buf' = [buf EXCEPT ![idx] = c]
            /\ idx' = idx + 1
       ELSE UNCHANGED <<con, text, buf, idx>>
  /\ pc' = Top
  /\ UNCHANGED <<window, timing, echo, stuck>>

\* kbd_read_char gave a key, or kbd_has_char said there is none.
Key ==
  \/ NoKey \/ EnterKey \/ BackSpaceKey
  \/ \E c \in Letters : CharKey(c)

Next ==
  \/ Tick \/ Clear \/ Panic \/ ConsoleInput \/ Poll \/ Update \/ Key
  \/ \E c \in Letters \cup {NL, BS} : PutChar(c)

\* The loop runs on and the timer ticks; what the user types is not assumed.
Fairness == WF_vars(Tick) /\ WF_vars(Poll) /\ WF_vars(Update) /\ WF_vars(Key)

Spec == Init /\ [][Next]_vars /\ Fairness

-----------------------------------------------------------------------------
\* The cursor stays on the screen, idx in the buffer with room for the NUL.
TypeOK ==
  /\ window \in {"console", "panic"}
  /\ con \in [cell : [Row -> [Col -> Letters \cup {Blank, Block}]],
              x : Col, y : Row, drawn : BOOLEAN]
  /\ {ticks, last_blink, last_loop, lag} \subseteq 0 .. W - 1
  /\ pc \in {"idle", "poll", "update", "key"}
  /\ echo \in BOOLEAN /\ stuck \in BOOLEAN
  /\ buf \in [0 .. MAX_LEN - 1 -> Letters \cup {NUL}]
  /\ idx \in 0 .. MAX_LEN - 1
  /\ text \in Seq(Letters \cup {NL}) /\ Len(text) <= MaxText

\* The screen shows the end of the text that was printed, each character in
\* its place and nothing else: blinking, erasing, backspacing and scrolling
\* neither lose a character nor leave one behind.
ScreenShowsText ==
  LET place == Place(text)
      end == place[Len(text) + 1]
      top == IF end.row < MAX_ROWS THEN 0 ELSE end.row - (MAX_ROWS - 1)
      At(r, c) == {n \in 1 .. Len(text) : place[n] = [row |-> top + r,
                                                      col |-> c]}
      Expected(r, c) ==
        IF \E n \in At(r, c) : text[n] # NL
          THEN text[CHOOSE n \in At(r, c) : text[n] # NL] ELSE Blank
  IN  /\ con.x = end.col /\ top + con.y = end.row
      /\ \A r \in Row, c \in Col :
           con.cell[r][c] # Block => con.cell[r][c] = Expected(r, c)

\* A block on the screen is the cursor: the flag says so, and it is where the
\* next character goes.  So none stays behind when the cursor moves on.
BlockIsCursor ==
  \A r \in Row, c \in Col :
    con.cell[r][c] = Block => con.drawn /\ r = con.y /\ c = con.x

\* The string in the buffer: the characters before the first NUL.
CString(b) ==
  LET end == CHOOSE n \in 0 .. MAX_LEN :
               /\ n < MAX_LEN => b[n] = NUL
               /\ \A i \in 0 .. n - 1 : b[i] # NUL
  IN  [i \in 1 .. end |-> b[i - 1]]

\* When Enter ends the input the caller's string is exactly what was shown,
\* whatever an earlier line left in the buffer.
LineReturned ==
  [][pc # "idle" /\ pc' = "idle" /\ ~stuck =>
       CString(buf') = SubSeq(text, Len(text) - idx + 1, Len(text))]_vars

\* While the console awaits a line the cursor keeps blinking, also when the
\* counter wraps around.
Awaited == pc # "idle" /\ window = "console"
CursorBlinks ==
  /\ Awaited ~> ~Awaited \/ con.drawn
  /\ Awaited ~> ~Awaited \/ ~con.drawn
=============================================================================
