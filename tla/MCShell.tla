------------------------------ MODULE MCShell -------------------------------
(***************************************************************************)
(* Four of the commands under short names, one a prefix of another; lines  *)
(* of up to seven of three characters, so of up to four words: as many as  *)
(* argv holds.  Addresses have 11 bits: 64 pages, the last not mapped.     *)
(***************************************************************************)
EXTENDS Shell

Command(name, func, min_args, max_args) ==
  [name |-> name, func |-> func, min_args |-> min_args, max_args |-> max_args]

MCRegistered ==
  << Command(<<"b">>, "autorun", 0, 0),
     Command(<<"b", "b">>, "mess", 1, 1),
     Command(<<"a">>, "exec-elf", 1, -1),
     Command(<<"a", "b">>, "shutdown", 0, 0) >>

MCLines == UNION {[1 .. n -> {" ", "a", "b"}] : n \in 0 .. 7}

MCNumbers == UNION {[1 .. n -> {"0", "1", "2", "-", "x"}] : n \in 0 .. 3}

HexWords ==
  { <<"0">>, <<"8">>, <<"1", "F">>, <<"7", "f", "8">>, <<"7", "b", "8">>,
    <<"7", "D", "F">>, <<"0", "x", "4">>, <<"8", "0", "0">>, <<"g">>,
    <<"3", "g">> }

MCPlain == {<<"h">>, <<"r">>}
MCBacktrace == <<"t">>
MCMemdump == <<"m">>
MCWhereami == <<"w">>

MCPanicLines ==
  LET Spaced(w, v) == w \o <<" ", " ">> \o v
      dumps == {Spaced(MCMemdump, Spaced(w, v)) : w, v \in HexWords}
      others == {<<>>, <<"m">>, <<"m", " ", "8">>, <<"w", " ">>, <<"x">>,
                 <<"r">>, <<"h">>, <<"t">>}
  IN  dumps \cup others \cup {<<" ">> \o l : l \in dumps \cup others}
=============================================================================
