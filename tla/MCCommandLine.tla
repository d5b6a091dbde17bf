--------------------------- MODULE MCCommandLine ----------------------------
(***************************************************************************)
(* main on every line of up to three of the groups below, in any order and *)
(* spelling, and on lines of loose arguments that form no groups.          *)
(***************************************************************************)
EXTENDS CommandLine

\* INT_MAX is 7, 9 is beyond it.
MCNumerals == ("0" :> 0) @@ ("5" :> 5) @@ ("9" :> 9)

MCFiles == {<<"prog">>, <<"state">>}

\* An option with its value, spelled in every way.
Long(name, text)       == {<< <<"-", "-", name>>, text >>, << <<"-", "-", name, "=">> \o text >>}
Short(letter, text)    == {<< <<"-", letter>>, text >>, << <<"-", letter>> \o text >>}
Spelled(k, text, ways) == [option : {k}, text : {text}, args : ways]

Groups ==
  UNION
  { Spelled(2, <<"prog">>, {<< <<"prog">> >>}),
    Spelled(2, <<"dir">>, {<< <<"dir">> >>}),
    Spelled(1, <<"true">>, {<< <<"-", "h">> >>, << <<"-", "-", "help">> >>}),
    Spelled(3, <<"rv32i">>, {<< <<"-", "-", "isa", "=", "rv32i">> >>}),
    Spelled(4, <<"5">>, Long("steps", <<"5">>) \cup Short("s", <<"5">>)),
    Spelled(4, <<"-", "5">>, {<< <<"-", "s">>, <<"-", "5">> >>}),
    Spelled(4, <<"9">>, {<< <<"-", "s", "9">> >>}),
    Spelled(5, <<"state">>, {<< <<"-", "-", "init_state">>, <<"state">> >>}),
    Spelled(5, <<"out">>, {<< <<"-", "i", "out">> >>}),
    Spelled(6, <<"out">>, Long("final_state", <<"out">>)),
    Spelled(7, <<"true">>, {<< <<"-", "-", "interactive">> >>}),
    Spelled(7, <<"no">>, {<< <<"-", "-", "interactive", "=", "no">> >>}),
    Spelled(7, <<"out">>, {<< <<"-", "-", "interactive", "=", "out">> >>}),
    Spelled(8, <<"true">>, {<< <<"-", "-", "disable-logs">> >>}) }

Grouped(gs) ==
  [args   |-> FlattenSeq([i \in DOMAIN gs |-> gs[i].args]),
   groups |-> [i \in DOMAIN gs |-> [option |-> gs[i].option, text |-> gs[i].text]]]

UpTo3(S) == UNION {[1 .. n -> S] : n \in 0 .. 3}

\* Unknown, abbreviated and run-together options, the mark, a negative number,
\* the empty string, an option without its value.
Arguments ==
  { <<"prog">>, <<"-", "-", "step">>, <<"-", "x">>, <<"-", "h", "s">>, <<"-", "h", "5">>,
    <<"-", "-">>, <<"-", "5">>, <<>>, <<"-", "s">>, <<"-", "-", "final_state", "=">>,
    <<"-", "-", "isa", "=", "rv64">>, <<"-", "s", "out">>, <<"-", "-", "disable-logs", "=", "9">> }

MCGivenLines ==
  {Grouped(gs) : gs \in UpTo3(Groups)} \cup [args : UpTo3(Arguments), groups : {<<>>}]
=============================================================================
