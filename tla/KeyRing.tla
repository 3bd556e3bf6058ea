------------------------------ MODULE KeyRing -------------------------------
(***************************************************************************)
(* kernel/klib/input/keyboard/buffer.c: the ring between the keyboard      *)
(* interrupt handler, which puts characters, and the one thread of the     *)
(* kernel, which gets them in read_key (kernel/utils.c).                   *)
(*                                                                         *)
(* The handler runs with interrupts off, so a put is one step that falls   *)
(* between any two steps of the reader.  head, tail and buffer are plain   *)
(* (not volatile) objects and nothing orders the two memory accesses of    *)
(* kb_buffer_get, the load of buffer[tail] and the store of tail: a build  *)
(* may emit them in either order, and both orders are behaviours here.     *)
(***************************************************************************)
EXTENDS Integers, Sequences

CONSTANTS
  KB_BUF_SIZE,  \* the number of slots of the ring (128 in the code)
  Chars,        \* the characters the handler may store
  NUL           \* the character 0: "no character"

ASSUME SizeAssumption == KB_BUF_SIZE \in Nat \ {0, 1}
ASSUME NULAssumption == NUL \notin Chars

VARIABLES
  buffer,  \* the slots
  head,    \* the slot the next put fills
  tail,    \* the slot the next get empties
  pc,      \* where the reader is
  slot,    \* the old tail, once the reader has advanced it before loading
  c,       \* the reader's local copy of the character
  ret,     \* what read_key returned last
  lost     \* history: the character a full ring dropped last

ringVars == <<buffer, head, tail, pc, slot, c, ret, lost>>

Slots == 0 .. KB_BUF_SIZE - 1

Succ(i) == (i + 1) % KB_BUF_SIZE

\* The slots that hold a stored character: from tail up to, and without, head.
Occupied(i) ==
  IF tail <= head THEN tail <= i /\ i < head ELSE tail <= i \/ i < head

RingInit ==
  /\ buffer = [i \in Slots |-> NUL]
  /\ head = 0
  /\ tail = 0
  /\ pc = "poll"
  /\ slot = 0
  /\ c = NUL
  /\ ret = NUL
  /\ lost = NUL

(***************************************************************************)
(* The handler.  A put into a full ring drops the character.               *)
(***************************************************************************)
\* Mutant of Full: the test forgets that head wraps.
FullUnwrapped == head + 1 = tail

Full == Succ(head) = tail

Put(k) ==
  /\ buffer' = IF Full THEN buffer ELSE [buffer EXCEPT ![head] = k]
  /\ head' = IF Full THEN head ELSE Succ(head)
  /\ lost' = IF Full THEN k ELSE lost
  /\ UNCHANGED <<tail, pc, slot, c, ret>>

(***************************************************************************)
(* The reader: spin on kb_buffer_has_char, then kb_buffer_get, then test   *)
(* what it returned.                                                       *)
(***************************************************************************)
\* Mutant of HasChar: read_key does not ask before it gets.
HasCharUntested ==
  /\ pc = "poll"
  /\ pc' = "get"
  /\ UNCHANGED <<buffer, head, tail, slot, c, ret, lost>>

HasChar ==
  /\ pc = "poll"
  /\ head # tail
  /\ pc' = "get"
  /\ UNCHANGED <<buffer, head, tail, slot, c, ret, lost>>

\* kb_buffer_get, load first.  The emptiness test comes before the load.
Load ==
  /\ pc = "get"
  /\ c' = IF head = tail THEN NUL ELSE buffer[tail]
  /\ pc' = IF head = tail THEN "return" ELSE "loaded"
  /\ UNCHANGED <<buffer, head, tail, slot, ret, lost>>

\* Mutant of Advance: the character is read and left in the ring.
AdvanceForgotten ==
  /\ pc = "loaded"
  /\ pc' = "return"
  /\ UNCHANGED <<buffer, head, tail, slot, c, ret, lost>>

Advance ==
  /\ pc = "loaded"
  /\ tail' = Succ(tail)
  /\ pc' = "return"
  /\ UNCHANGED <<buffer, head, slot, c, ret, lost>>

\* kb_buffer_get, store of tail first.
AdvanceEarly ==
  /\ pc = "get"
  /\ head # tail
  /\ slot' = tail
  /\ tail' = Succ(tail)
  /\ pc' = "advanced"
  /\ UNCHANGED <<buffer, head, c, ret, lost>>

LoadLate ==
  /\ pc = "advanced"
  /\ c' = buffer[slot]
  /\ pc' = "return"
  /\ UNCHANGED <<buffer, head, tail, slot, ret, lost>>

\* read_key leaves its loop with a character and polls again without one.
Return ==
  /\ pc = "return"
  /\ ret' = IF c = NUL THEN ret ELSE c
  /\ pc' = "poll"
  /\ UNCHANGED <<buffer, head, tail, slot, c, lost>>

Reader == HasChar \/ Load \/ Advance \/ AdvanceEarly \/ LoadLate \/ Return

RingNext == Reader \/ \E k \in Chars : Put(k)

RingSpec == RingInit /\ [][RingNext]_ringVars

\* The processor keeps executing the reader: interrupts only delay it.
FairRingSpec == RingSpec /\ WF_ringVars(Reader)

-----------------------------------------------------------------------------
RingTypeOK ==
  /\ buffer \in [Slots -> Chars \cup {NUL}]
  /\ head \in Slots
  /\ tail \in Slots
  /\ pc \in {"poll", "get", "loaded", "advanced", "return"}
  /\ slot \in Slots
  /\ c \in Chars \cup {NUL}
  /\ ret \in Chars \cup {NUL}
  /\ lost \in Chars \cup {NUL}

\* Once kb_buffer_has_char answered yes, kb_buffer_get returns a character
\* that was stored, whatever interrupts came in between: the reader never
\* comes back with the 0 that means "empty".
GetReturnsKey == pc = "return" => c \in Chars

\* The slot the reader is about to load from is not overwritten, neither
\* before tail has moved past it nor, when the build stores tail first, after.
Loading(i) ==
  \/ pc = "get" /\ i = tail
  \/ pc = "advanced" /\ i = slot
SlotInFlight ==
  [][\A i \in Slots : Loading(i) => buffer'[i] = buffer[i]]_ringVars

\* A stored character does not stay in the ring: a reader that keeps calling
\* read_key gets to it even if the keyboard never stops interrupting.
EveryKeyTaken == \A i \in Slots : Occupied(i) ~> ~Occupied(i)

(***************************************************************************)
(* The queue the ring stands for.                                          *)
(***************************************************************************)
Count == IF tail <= head THEN head - tail ELSE head - tail + KB_BUF_SIZE
At(j) == IF tail + j <= KB_BUF_SIZE THEN tail + j - 1
                                    ELSE tail + j - 1 - KB_BUF_SIZE
Contents == [j \in 1 .. Count |-> buffer[At(j)]]
Delivered == CASE pc = "return" -> c
               [] pc = "advanced" -> buffer[slot]
               [] OTHER -> ret

Queue == INSTANCE KeyQueue WITH queue <- Contents, got <- Delivered,
                                Capacity <- KB_BUF_SIZE - 1

\* The ring is a FIFO queue of KB_BUF_SIZE - 1 characters: they come out once
\* each and in the order of the puts, and one is dropped only when it is full.
ImplementsQueue == Queue!Spec
=============================================================================
