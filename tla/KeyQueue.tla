------------------------------ MODULE KeyQueue ------------------------------
(***************************************************************************)
(* What the keyboard buffer promises its readers: a first-in first-out     *)
(* queue of at most Capacity characters.  A character that arrives when    *)
(* the queue is full is dropped; nothing else is ever lost, doubled or     *)
(* reordered.  KeyRing.tla is the code that implements it.                 *)
(***************************************************************************)
EXTENDS Naturals, Sequences

CONSTANTS
  Chars,     \* the characters the keyboard handler can store
  Capacity   \* how many of them the queue holds

VARIABLES
  queue,     \* the characters stored and not yet taken, oldest first
  got,       \* the character taken last
  lost       \* the character dropped last

vars == <<queue, got, lost>>

Init ==
  /\ queue = << >>
  /\ got \notin Chars
  /\ lost \notin Chars

Store(k) ==
  /\ Len(queue) < Capacity
  /\ queue' = Append(queue, k)
  /\ UNCHANGED <<got, lost>>

Drop(k) ==
  /\ Len(queue) = Capacity
  /\ lost' = k
  /\ UNCHANGED <<queue, got>>

Take ==
  /\ queue # << >>
  /\ got' = Head(queue)
  /\ queue' = Tail(queue)
  /\ UNCHANGED lost

Next == Take \/ \E k \in Chars : Store(k) \/ Drop(k)

Spec == Init /\ [][Next]_vars
=============================================================================
