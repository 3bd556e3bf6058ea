----------------------------- MODULE MCKeyboard -----------------------------
(***************************************************************************)
(* A hand with at most two keys down, which is enough for a modifier and a *)
(* key, released in either order.  Left out are keys that the handler      *)
(* treats like one that is in: ctrl and alt like shift, backspace like the *)
(* keypad's enter.  The buffer holds one character.                        *)
(***************************************************************************)
EXTENDS Keyboard, FiniteSets

MCKeys == {"lshift", "rshift", "caps", "keypad", "a", "1"}

Bound == Cardinality(held) <= 2
=============================================================================
