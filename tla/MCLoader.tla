------------------------------ MODULE MCLoader ------------------------------
(***************************************************************************)
(* The loader on files laid out as a linker does it, section table last,   *)
(* with it first, and without sections; with two segments of which one is  *)
(* padded with zeros, with segments that share a page, with a segment that *)
(* is empty, and with a note between them; each cut off at every length.   *)
(***************************************************************************)
EXTENDS Loader

MCByte == 0 .. 3

Ehdr_(entry, shoff, shnum, phoff, phnum) ==
  [magic |-> TRUE, riscv |-> TRUE, entry |-> entry, shoff |-> shoff, shnum |-> shnum,
   names |-> IF shnum = 0 THEN 0 ELSE shnum - 1, phoff |-> phoff, phnum |-> phnum]

Ph(type, off, vaddr, filesz, memsz, rights) ==
  [type |-> type, off |-> off, vaddr |-> vaddr, filesz |-> filesz, memsz |-> memsz,
   rights |-> rights]

Text(off)         == Ph("LOAD", off, 5, 3, 3, {"r", "x"})
Data(off, vaddr)  == Ph("LOAD", off, vaddr, 2, 6, {"r", "w"})
Empty(off)        == Ph("LOAD", off, 10, 0, 0, {"r"})
Note(off)         == Ph("NULL", off, 20, 2, 2, {"r"})

\* Header and program headers, data, names, sections.
Linked(hs, strsize) ==
  LET at == 8 + 8 * Len(hs) IN
  [ehdr |-> Ehdr_(5, at + 7, 3, 8, Len(hs)), phdrs |-> hs,
   strings |-> [off |-> at + 5, size |-> strsize]]

\* Names and sections, then program headers and data.
SectionsFirst(hs) ==
  [ehdr |-> Ehdr_(5, 10, 2, 16, Len(hs)), phdrs |-> hs,
   strings |-> [off |-> 8, size |-> 2]]

Bare(hs) ==
  [ehdr |-> Ehdr_(5, 0, 0, 8, Len(hs)), phdrs |-> hs,
   strings |-> [off |-> 0, size |-> 0]]

Foreign(f) == [f EXCEPT !.ehdr.riscv = FALSE]

Layouts ==
  { Linked(<<Text(24), Data(27, 10)>>, 2), Linked(<<Text(24), Data(27, 10)>>, 0),
    Linked(<<Text(24), Data(27, 6)>>, 2), Bare(<<Text(24), Data(27, 10)>>),
    Linked(<<Text(24), Empty(27)>>, 2),
    Linked(<<Text(32), Note(35), Data(35, 10)>>, 2),
    SectionsFirst(<<Text(32), Data(35, 10)>>), Foreign(Bare(<<Text(16)>>)) }

Cut(f, n) ==
  [ehdr |-> f.ehdr, phdrs |-> f.phdrs, strings |-> f.strings, len |-> n,
   bytes |-> [i \in 1 .. 50 |-> i % 4]]

MCFiles == {Cut(f, n) : f \in Layouts, n \in 0 .. 50}

\* Not the magic number; another machine's; a header left by chance.
MCGarbage ==
  { [Ehdr_(0, 0, 0, 0, 0) EXCEPT !.magic = FALSE], [Ehdr_(0, 0, 0, 0, 0) EXCEPT !.riscv = FALSE],
    Ehdr_(9, 3, 2, 4, 1), Ehdr_(9, 3, 0, 4, 1) }
=============================================================================
