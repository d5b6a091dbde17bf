------------------------------- MODULE Loader -------------------------------
(***************************************************************************)
(* Simulator::load_elf (inc/simulator.hpp) and Parser::load_elf with       *)
(* read_section_names (inc/parser.hpp): from a file to a pc and a page     *)
(* table.  The parser reads one ifstream, whose reads nobody tests: a read *)
(* that runs over the end of the file leaves the rest of its buffer as it  *)
(* was, zero in every case but the first, and fails the stream, after      *)
(* which all seeks and reads do nothing.                                   *)
(*                                                                         *)
(* Positions count words in the headers and bytes in the segments, which   *)
(* keeps files short; the headers have EhSize, ShSize and PhSize words.    *)
(***************************************************************************)
EXTENDS SegmentTable

CONSTANTS
  Files,     \* what may be on the disk
  Garbage,   \* what the uninitialized ehdr may look like
  ShSize     \* size of an Elf32_Shdr

\* The fields of an Elf32_Ehdr, with names for e_shstrndx, in their order.
EhFields == <<"magic", "riscv", "entry", "phoff", "shoff", "phnum", "shnum", "names">>
EhSize   == Len(EhFields)

\* The fields of an Elf32_Phdr, in their order.
PhFields == <<"type", "off", "vaddr", "paddr", "filesz", "memsz", "rights", "align">>
PhSize   == Len(PhFields)

Phdr ==
  [type : {"LOAD", "NULL"}, off : Nat, vaddr : Space, filesz : Nat, memsz : Nat,
   rights : SUBSET Right]

NullPhdr ==
  [type |-> "NULL", off |-> 0, vaddr |-> 0, filesz |-> 0, memsz |-> 0, rights |-> {}]

\* names is the section that holds the names of sections: file.strings.
Ehdr ==
  [magic : BOOLEAN, riscv : BOOLEAN, entry : Space, shoff : Nat, shnum : Nat,
   names : Nat, phoff : Nat, phnum : Nat]

ASSUME LoaderAssumption ==
  /\ ShSize \in Nat /\ ShSize >= 2
  /\ Garbage \subseteq Ehdr
  /\ \A f \in Files :
       /\ f.ehdr \in Ehdr /\ f.len \in Nat
       /\ f.strings \in [off : Nat, size : Nat]
       /\ f.phdrs \in Seq(Phdr) /\ Len(f.phdrs) = f.ehdr.phnum
       /\ f.bytes \in Seq(Byte) /\ f.len <= Len(f.bytes)
       /\ f.ehdr.shnum > 0 => f.ehdr.names < f.ehdr.shnum

VARIABLES
  file,       \* the file, cut off after file.len
  stage,      \* where load_elf is; at the end "unopened", "refused" or "loaded"
  good,       \* the stream has not failed
  ehdr, phdrs,
  next,       \* the program header, then the segment, the loops are at
  infos,      \* Parser::segments_
  pc, segments

reading == <<ehdr, phdrs, next>>
vars    == <<file, stage, good, reading, infos, pc, segments>>

Init ==
  /\ file \in Files
  /\ stage = "closed"
  /\ good = TRUE
  /\ ehdr \in Garbage
  /\ phdrs = <<>>
  /\ next = 1
  /\ infos = <<>>
  /\ pc = 0
  /\ segments = [t \in {} |-> {}]

-----------------------------------------------------------------------------
\* seekg(off), read(n): whether all of it was read.
Fits(off, n) == good /\ off + n <= file.len

Open ==
  /\ stage = "closed"
  /\ stage' \in {"header", "unopened"}
  /\ UNCHANGED <<file, good, reading, infos, pc, segments>>

ReadHeader ==
  /\ stage = "header"
  /\ good' = Fits(0, EhSize)
  /\ ehdr' = [f \in DOMAIN ehdr |->
                IF \E i \in DOMAIN EhFields : EhFields[i] = f /\ Fits(0, i)
                THEN file.ehdr[f] ELSE ehdr[f]]
  /\ stage' = IF ~ ehdr'.magic \/ ~ ehdr'.riscv THEN "refused" ELSE "sections"
  /\ UNCHANGED <<file, phdrs, next, infos, pc, segments>>

\* Wrong: a section without a name is passed over.
ReadSectionNamesLeniently ==
  LET entry  == ehdr.shoff + ehdr.names * ShSize
      found  == Fits(entry, ShSize - 1)
  IN /\ stage = "sections"
     /\ good' = IF ehdr.shnum = 0 THEN good
                ELSE /\ Fits(ehdr.shoff, ehdr.shnum * ShSize)
                     /\ found => Fits(file.strings.off, file.strings.size)
     /\ stage' = "phdrs"
     /\ UNCHANGED <<file, reading, infos, pc, segments>>

(***************************************************************************)
(* read_section_names.  Offset and size of the names are not the last word *)
(* of their section header.  Without any name the first section already    *)
(* makes a string of a null pointer, which throws.                         *)
(***************************************************************************)
ReadSectionNames ==
  LET entry == ehdr.shoff + ehdr.names * ShSize
      found == Fits(entry, ShSize - 1)
      size  == IF found THEN file.strings.size ELSE 0
  IN /\ stage = "sections"
     /\ good' = IF ehdr.shnum = 0 THEN good
                ELSE /\ Fits(ehdr.shoff, ehdr.shnum * ShSize)
                     /\ Fits(file.strings.off, size)
     /\ stage' = IF ehdr.shnum # 0 /\ size = 0 THEN "refused" ELSE "phdrs"
     /\ UNCHANGED <<file, reading, infos, pc, segments>>

\* What a table of zeros holds of program header k after the read.
PhdrRead(k) ==
  LET start == ehdr.phoff + (k - 1) * PhSize
  IN [f \in DOMAIN NullPhdr |->
        IF \E i \in DOMAIN PhFields : PhFields[i] = f /\ Fits(start, i)
        THEN file.phdrs[k][f] ELSE NullPhdr[f]]

ReadProgramHeaders ==
  /\ stage = "phdrs"
  /\ phdrs' = [k \in 1 .. ehdr.phnum |-> PhdrRead(k)]
  /\ good' = Fits(ehdr.phoff, ehdr.phnum * PhSize)
  /\ stage' = "segments"
  /\ UNCHANGED <<file, ehdr, next, infos, pc, segments>>

\* Wrong: every program header is taken for a PT_LOAD.
ReadSegmentOfAnyType ==
  LET h == phdrs[next]
  IN /\ stage = "segments" /\ next <= Len(phdrs)
     /\ next' = next + 1
     /\ good' = Fits(h.off, h.filesz)
     /\ infos' = Append(infos,
                   [vaddr |-> h.vaddr, memsz |-> h.memsz, rights |-> h.rights,
                    data |-> [i \in 1 .. h.filesz |->
                                IF Fits(h.off, i) THEN file.bytes[h.off + i] ELSE Zero]])
     /\ UNCHANGED <<file, stage, ehdr, phdrs, pc, segments>>

ReadSegment ==
  LET h == phdrs[next]
  IN /\ stage = "segments" /\ next <= Len(phdrs)
     /\ next' = next + 1
     /\ IF h.type = "LOAD"
        THEN /\ good' = Fits(h.off, h.filesz)
             /\ infos' = Append(infos,
                   [vaddr |-> h.vaddr, memsz |-> h.memsz, rights |-> h.rights,
                    data |-> [i \in 1 .. h.filesz |->
                                IF Fits(h.off, i) THEN file.bytes[h.off + i] ELSE Zero]])
        ELSE UNCHANGED <<good, infos>>
     /\ UNCHANGED <<file, stage, ehdr, phdrs, pc, segments>>

\* Parsed: the simulator sets the pc before it maps anything.
SetEntryPoint ==
  /\ stage = "segments" /\ next > Len(phdrs)
  /\ stage' = "mapping" /\ next' = 1
  /\ pc' = ehdr.entry
  /\ UNCHANGED <<file, good, ehdr, phdrs, infos, segments>>

AddSegment ==
  LET g == Aligned(infos[next])
  IN /\ stage = "mapping" /\ next <= Len(infos)
     /\ segments' = WithSegment(segments, g)
     /\ next' = next + 1
     /\ stage' = IF Overlaps(segments, g) THEN "refused" ELSE stage
     /\ UNCHANGED <<file, good, ehdr, phdrs, infos, pc>>

MapDone ==
  /\ stage = "mapping" /\ next > Len(infos)
  /\ stage' = "loaded"
  /\ UNCHANGED <<file, good, reading, infos, pc, segments>>

Next ==
  \/ Open \/ ReadHeader \/ ReadSectionNames \/ ReadProgramHeaders \/ ReadSegment
  \/ SetEntryPoint \/ AddSegment \/ MapDone

Spec == Init /\ [][Next]_vars

-----------------------------------------------------------------------------
(***************************************************************************)
(* Properties.                                                             *)
(***************************************************************************)
Segs(f) == {f.phdrs[k] : k \in {k \in DOMAIN f.phdrs : f.phdrs[k].type = "LOAD"}}

Complete(f) ==
  /\ EhSize <= f.len
  /\ f.ehdr.shnum > 0 => /\ f.ehdr.shoff + f.ehdr.shnum * ShSize <= f.len
                         /\ f.strings.off + f.strings.size <= f.len
  /\ f.ehdr.phoff + f.ehdr.phnum * PhSize <= f.len
  /\ \A h \in Segs(f) : h.off + h.filesz <= f.len

\* From the start of the page a segment begins in; that page is mapped even
\* for a segment without a byte, unless it begins where the page does.
PagesOf(h) ==
  {Tag(a) : a \in h.vaddr - (h.vaddr % PageSize) .. h.vaddr + h.memsz - 1}

\* The segments end where the address space does, or before.
InSpace(f) == \A h \in Segs(f) : h.vaddr + h.memsz <= AddrSpace /\ Loadable(h)

\* A RISC-V file whose sections, if any, have names, and whose segments share
\* no page; the indices of two segments tell equal ones apart.
Acceptable(f) ==
  /\ f.ehdr.magic /\ f.ehdr.riscv
  /\ f.ehdr.shnum > 0 => f.strings.size > 0
  /\ \A k, m \in DOMAIN f.phdrs :
       k # m /\ {f.phdrs[k], f.phdrs[m]} \subseteq Segs(f) =>
         PagesOf(f.phdrs[k]) \cap PagesOf(f.phdrs[m]) = {}

Ended == stage \in {"refused", "loaded"}

\* Of the files that are all there and fit into the address space, exactly the
\* acceptable ones are loaded; the pc is then the entry point, the bytes of every
\* segment are at its addresses, zeros follow them, its pages have its rights
\* and no others are mapped.
LoadsWhatTheFileSays ==
  Ended /\ Complete(file) /\ InSpace(file) =>
    /\ stage = "loaded" <=> Acceptable(file)
    /\ stage = "loaded" =>
         /\ pc = file.ehdr.entry
         /\ DOMAIN segments = UNION {PagesOf(h) : h \in Segs(file)}
         /\ \A h \in Segs(file) :
              /\ \A i \in 0 .. h.memsz - 1 :
                   BytesOf(segments)[h.vaddr + i] =
                     IF i < h.filesz THEN file.bytes[h.off + i + 1] ELSE Zero
              /\ \A t \in PagesOf(h) : segments[t].rights = h.rights

\* What protects from a truncated file, though no read is tested, is the table
\* of sections at its end, where linkers put it: cut off before the last words
\* of the header of the names, it makes load_elf throw.
NamesGuardAgainstTruncation ==
  stage = "loaded" /\ ~ Complete(file) /\ EhSize <= file.len =>
    \/ file.ehdr.shnum = 0
    \/ file.ehdr.shoff + (file.ehdr.names + 1) * ShSize - 1 <= file.len

\* parser.hpp:63 has "Not a valid ELF file", and main.cpp:24 wants an "ELF binary":
\* a file whose headers are all there is loaded only if it holds the segments
\* that they announce.
SegmentsAreInTheFile ==
  LET headers == EhSize <= file.len /\ file.ehdr.phoff + file.ehdr.phnum * PhSize <= file.len
  IN stage = "loaded" /\ headers => \A h \in Segs(file) : h.off + h.filesz <= file.len
=============================================================================
