------------------------------- MODULE MCMess -------------------------------
(***************************************************************************)
(* Three columns and two rows of text: all texts of up to four characters  *)
(* with letters and newlines, some with tabs, some of seven characters,    *)
(* and one of eleven lines, the last two of which have numbers too wide.   *)
(***************************************************************************)
EXTENDS Mess

MCTexts ==
  UNION {[1 .. n -> {"a", "b", NL}] : n \in 0 .. 4}
    \cup UNION {[1 .. n -> {"a", NL, TAB}] : n \in 0 .. 3}
    \cup {<<a, b, c>> \o <<"a", "b", "a", "a">> :
            a \in {"a", NL}, b \in {"a", NL}, c \in {"b", NL}}
    \cup {<<"a">> \o [n \in 1 .. 8 |-> NL] \o <<"a", "b", NL, "b", NL, "a">>}
MCTerms == {<<>>, <<"a">>, <<"a", "b">>}
=============================================================================
