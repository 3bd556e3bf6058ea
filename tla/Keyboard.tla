------------------------------- MODULE Keyboard -----------------------------
(***************************************************************************)
(* kernel/klib/input/keyboard/keyboard.c with keymap.c, from the key to    *)
(* the reader: the handler of IRQ 1 turns one scancode at a time into      *)
(* modifier state and characters, which wait in the keyboard buffer, the   *)
(* bounded queue KeyRing implements, for kbd_read_char.                    *)
(*                                                                         *)
(* The keyboard and its controller are external: the controller holds the  *)
(* scancodes that the handler has not read yet and loses those that do not *)
(* fit.  Interrupts are off while a program runs, so the handler may be as *)
(* late as it likes, and a release of a modifier may be what is lost.      *)
(***************************************************************************)
EXTENDS Sequences, Naturals, SequencesExt

CONSTANTS
  WireSize,   \* scancodes the controller holds
  Capacity,   \* characters the buffer holds (127)
  Keys        \* bound: the keys in use, of AllKeys

\* A letter, a key with two symbols, a key the keymap maps to 0, the keys the
\* handler names, and the keypad's Enter, which sends a prefix byte first.
ShiftKeys == {"lshift", "rshift"}
AllKeys ==
  ShiftKeys \cup
  {"ctrl", "alt", "caps", "backspace", "enter", "keypad", "a", "1", "f1"}
NoChar == "nul"
Characters == {"a", "A", "1", "!", "newline", "backspace"}

ASSUME KeyboardAssumption ==
  WireSize \in Nat \ {0} /\ Capacity \in Nat \ {0} /\ Keys \subseteq AllKeys

VARIABLES
  \* the keyboard
  held,      \* the keys that are down
  capsOn,    \* caps lock, counted by presses
  wire,      \* the scancodes in the controller
  stale,     \* history: the modifiers of which the handler missed a change
  \* keyboard.c and buffer.c
  shift, ctrl, alt, caps,
  queue,     \* the characters made and not yet read
  want       \* history: what was meant by the keys typed and not yet read

hand == <<held, capsOn>>
line == <<wire, stale>>
modifiers == <<shift, ctrl, alt, caps>>
vars == <<hand, line, modifiers, queue, want>>

Init ==
  /\ held = {} /\ capsOn = FALSE
  /\ wire = << >> /\ stale = {}
  /\ shift = FALSE /\ ctrl = FALSE /\ alt = FALSE /\ caps = FALSE
  /\ queue = << >> /\ want = << >>

-----------------------------------------------------------------------------
(***************************************************************************)
(* The keyboard (external).  0xE0 has the bit of a release, of a key 0x60  *)
(* that the handler does not name.                                         *)
(***************************************************************************)
Make(k) == [key |-> k, up |-> FALSE]
Break(k) == [key |-> k, up |-> TRUE]
Prefix == Break("0x60")
Codes(code) == IF code.key = "keypad"
                 THEN <<Prefix, [code EXCEPT !.key = "enter"]>>
                 ELSE <<code>>

\* What a key means to the one who presses it.  While the handler is wrong
\* about a modifier it may be anything.
Doubtful == "doubtful"
Meant(k) ==
  LET shifted == held \cap ShiftKeys # {}
  IN  CASE k = "a" -> IF shifted \/ capsOn THEN "A" ELSE "a"
        [] k = "1" -> IF shifted THEN "!" ELSE "1"
        [] k \in {"enter", "keypad"} -> "newline"
        [] k = "backspace" -> "backspace"
        [] OTHER -> NoChar

\* The modifier a key belongs to.
Modifier(k) == IF k \in ShiftKeys THEN "shift" ELSE k

\* The codes that fit are kept.  A change of shift, ctrl or alt that gets
\* through tells the handler all there is to know of it; of two changes of caps
\* lock that do not, the second makes up for the first.
Send(code, changes) ==
  LET codes == Codes(code)
      room == WireSize - Len(wire)
      fits == Len(codes) <= room
      m == {Modifier(code.key)} \cap {"shift", "ctrl", "alt", "caps"}
      char == IF code.up THEN NoChar ELSE Meant(code.key)
  IN  /\ wire' = wire \o IF fits THEN codes ELSE SubSeq(codes, 1, room)
      /\ stale' = IF ~changes THEN stale
                  ELSE IF m = {"caps"}
                    THEN IF fits THEN stale
                         ELSE (stale \cup m) \ (stale \cap m)
                  ELSE IF fits THEN stale \ m ELSE stale \cup m
      /\ want' = IF ~fits \/ char = NoChar THEN want
                 ELSE Append(want, IF stale = {} THEN char ELSE Doubtful)

\* One shift key at a time.
Press(k) ==
  /\ k \notin held
  /\ k \in ShiftKeys => held \cap ShiftKeys = {}
  /\ held' = held \cup {k}
  /\ capsOn' = (capsOn # (k = "caps"))
  /\ Send(Make(k), TRUE)
  /\ UNCHANGED <<modifiers, queue>>

Release(k) ==
  /\ k \in held
  /\ held' = held \ {k}
  /\ Send(Break(k), k # "caps")
  /\ UNCHANGED <<capsOn, modifiers, queue>>

\* A key held down repeats (caps lock is taken not to).
Repeat(k) ==
  /\ k \in held \ {"caps"}
  /\ Send(Make(k), FALSE)
  /\ UNCHANGED <<hand, modifiers, queue>>

-----------------------------------------------------------------------------
(***************************************************************************)
(* keyboard_handler.                                                       *)
(***************************************************************************)
KeymapNormal(k) == CASE k = "a" -> "a" [] k = "1" -> "1" [] OTHER -> NoChar
KeymapShift(k)  == CASE k = "a" -> "A" [] k = "1" -> "!" [] OTHER -> NoChar

\* Mutant of ShiftAfter: the release of a shift key is not seen.
ShiftAfterSticky(code) == code.key \in ShiftKeys \/ shift

\* The modifiers after a scancode.
ShiftAfter(code) == IF code.key \in ShiftKeys THEN ~code.up ELSE shift
CtrlAfter(code) == IF code.key = "ctrl" THEN ~code.up ELSE ctrl
AltAfter(code) == IF code.key = "alt" THEN ~code.up ELSE alt
CapsAfter(code) == IF code = Make("caps") THEN ~caps ELSE caps

\* Caps lock raises a small letter, and lowers a capital unless shift is on,
\* when there is none.
CapsLocked(c) ==
  IF caps /\ c = "a" THEN "A"
  ELSE IF caps /\ c = "A" /\ ~shift THEN "a" ELSE c

Decode(code) ==
  LET c == IF shift THEN KeymapShift(code.key) ELSE KeymapNormal(code.key)
  IN  IF code.up THEN NoChar
      ELSE CASE code.key = "backspace" -> "backspace"
             [] code.key = "enter" -> "newline"
             [] OTHER -> CapsLocked(c)

\* Mutant of Stored: a full buffer drops its oldest character for the new one.
StoredAnyway(c) ==
  IF Len(queue) < Capacity THEN Append(queue, c) ELSE Append(Tail(queue), c)

\* kb_buffer_put: a character that finds the buffer full is dropped.
Stored(c) == IF Len(queue) < Capacity THEN Append(queue, c) ELSE queue

KeyboardHandler ==
  /\ wire # << >>
  /\ LET code == Head(wire)
         c == Decode(code)
         dropped == c # NoChar /\ Len(queue) = Capacity
     IN  /\ shift' = ShiftAfter(code)
         /\ ctrl' = CtrlAfter(code)
         /\ alt' = AltAfter(code)
         /\ caps' = CapsAfter(code)
         /\ queue' = IF c = NoChar THEN queue ELSE Stored(c)
         /\ want' = IF dropped THEN RemoveAt(want, Capacity + 1) ELSE want
  /\ wire' = Tail(wire)
  /\ UNCHANGED <<hand, stale>>

\* kbd_read_char, once kbd_has_char has said yes.
KbdReadChar ==
  /\ queue # << >>
  /\ queue' = Tail(queue)
  /\ want' = Tail(want)
  /\ UNCHANGED <<hand, line, modifiers>>

Next ==
  \/ \E k \in Keys : Press(k) \/ Release(k) \/ Repeat(k)
  \/ KeyboardHandler \/ KbdReadChar

Spec == Init /\ [][Next]_vars

-----------------------------------------------------------------------------
TypeOK ==
  /\ held \subseteq Keys /\ capsOn \in BOOLEAN
  /\ Len(wire) <= WireSize
  /\ stale \subseteq {"shift", "ctrl", "alt", "caps"}
  /\ {shift, ctrl, alt, caps} \subseteq BOOLEAN
  /\ queue \in Seq(Characters) /\ Len(queue) <= Capacity
  /\ want \in Seq(Characters \cup {Doubtful})

\* What is read is what was typed, in that order: each character is what was
\* meant when its key went down, although the handler may run much later, when
\* shift is up again and caps lock changed.  Keys are missing only where the
\* controller or the buffer was full, and what follows them is not affected.
TypedIsRead ==
  /\ Len(queue) <= Len(want)
  /\ \A i \in DOMAIN queue : want[i] \in {queue[i], Doubtful}
  /\ wire = << >> => Len(queue) = Len(want)

\* A modifier does not stick: when the handler has caught up, each is on
\* exactly when its key is down.  If a change of it was lost, it is right again
\* from the next change on; caps lock is, from the next change that is lost.
ModifiersRecover ==
  LET on == [m \in {"shift", "ctrl", "alt", "caps"} |->
               CASE m = "shift" -> held \cap ShiftKeys # {}
                 [] m = "caps" -> capsOn
                 [] OTHER -> m \in held]
  IN  wire = << >> => /\ shift = on["shift"] \/ "shift" \in stale
                      /\ ctrl = on["ctrl"] \/ "ctrl" \in stale
                      /\ alt = on["alt"] \/ "alt" \in stale
                      /\ caps = (on["caps"] # ("caps" \in stale))
=============================================================================
