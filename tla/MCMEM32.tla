------------------------------ MODULE MCMEM32 -------------------------------
(***************************************************************************)
(* MEM32 with three pages of five bytes: a word fits a page at two offsets *)
(* only, one of them misaligned, and every wider access has addresses at   *)
(* which it straddles two pages.                                           *)
(***************************************************************************)
EXTENDS MEM32

MCByte == {0, 1}

\* Both ends of each page, and the same addresses 2^32 higher.
MCAddr == {0, 1, 4, 8, 13, 16}

MCWord == {[i \in 0 .. 3 |-> IF i \in {0, 3} THEN 1 ELSE 0]}

\* Code in the first page, data across the first two, a segment that runs off
\* the end of the address space, and one whose data are longer than its memsz.
MCSegmentInfos ==
  {[vaddr |-> 1, memsz |-> 3, data |-> <<1, 0, 1>>, rights |-> {"r", "x"}],
   [vaddr |-> 3, memsz |-> 5, data |-> <<1, 1, 1>>, rights |-> {"r", "w"}],
   [vaddr |-> 12, memsz |-> 5, data |-> <<>>, rights |-> {"r", "w", "x"}],
   [vaddr |-> 6, memsz |-> 1, data |-> <<0, 1>>, rights |-> {"w"}]}
=============================================================================
