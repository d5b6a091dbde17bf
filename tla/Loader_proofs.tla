--------------------------- MODULE Loader_proofs ----------------------------
(***************************************************************************)
(* For every file, whatever the sizes, offsets and counts in its headers   *)
(* and whatever the uninitialized header held: what the section table at   *)
(* the end protects a truncated file from (NamesGuardAgainstTruncation),   *)
(* and what load_elf makes of a file that is all there                     *)
(* (LoadsWhatTheFileSays).                                                 *)
(***************************************************************************)
EXTENDS Loader, SegmentTable_proofs

\* load_elf has passed read_section_names and not thrown.
NamesRead == stage \in {"phdrs", "segments", "mapping", "loaded"}

NamesOfFile(f) ==
  \/ f.ehdr.shnum = 0
  \/ f.ehdr.shoff + f.ehdr.names * ShSize + (ShSize - 1) <= f.len

(***************************************************************************)
(* The inductive invariant.  The stream is good and the header arbitrary   *)
(* until the header is read; then the header is the file's, if the file    *)
(* has a whole one, and read_section_names lets no file pass whose names   *)
(* it could not find.                                                      *)
(***************************************************************************)
IInv ==
  /\ file \in Files
  /\ stage \in {"closed", "header"} => good /\ ehdr \in Ehdr
  /\ stage \notin {"closed", "header", "unopened"} /\ EhSize <= file.len =>
       ehdr = file.ehdr
  /\ NamesRead /\ EhSize <= file.len => NamesOfFile(file)

LEMMA FileTypes ==
  ASSUME NEW f \in Files
  PROVE  /\ f.ehdr \in Ehdr /\ f.len \in Nat
         /\ f.ehdr.shoff \in Nat /\ f.ehdr.shnum \in Nat /\ f.ehdr.names \in Nat
         /\ ShSize \in Nat /\ ShSize >= 2
BY LoaderAssumption DEF Ehdr

LEMMA HeaderSize == EhSize = 8 /\ DOMAIN EhFields = 1 .. 8
BY DEF EhSize, EhFields

\* A read of a whole header yields the file's, field by field.
LEMMA WholeHeader ==
  ASSUME IInv, stage = "header", EhSize <= file.len, ReadHeader
  PROVE  ehdr' = file.ehdr
<1> DEFINE G == file.ehdr
<1>1. ehdr \in Ehdr /\ G \in Ehdr /\ good /\ file.len \in Nat
  BY FileTypes DEF IInv
<1>2. /\ DOMAIN ehdr = {EhFields[i] : i \in 1 .. 8}
      /\ DOMAIN G = DOMAIN ehdr
      /\ G = [f \in DOMAIN G |-> G[f]]
  BY <1>1 DEF Ehdr, EhFields
<1>3. ASSUME NEW f \in DOMAIN ehdr
      PROVE  \E i \in DOMAIN EhFields : EhFields[i] = f /\ Fits(0, i)
  <2>1. PICK i \in 1 .. 8 : EhFields[i] = f
    BY <1>2
  <2>2. i \in DOMAIN EhFields /\ Fits(0, i)
    BY <1>1, HeaderSize DEF Fits
  <2> QED
    BY <2>1, <2>2
<1>4. ehdr' = [f \in DOMAIN ehdr |-> G[f]]
  BY <1>3 DEF ReadHeader
<1> QED
  BY <1>2, <1>4

LEMMA InitIInv == Init => IInv
BY LoaderAssumption DEF Init, IInv, NamesRead

\* The read of the names: a file that is not refused has them.
LEMMA NamesStep ==
  ASSUME IInv, ReadSectionNames, stage' = "phdrs", EhSize <= file.len
  PROVE  NamesOfFile(file)
<1> DEFINE entry == ehdr.shoff + ehdr.names * ShSize
<1>1. stage = "sections" /\ ehdr = file.ehdr
  BY DEF IInv, ReadSectionNames
<1>2. CASE ehdr.shnum = 0
  BY <1>1, <1>2 DEF NamesOfFile
<1>3. CASE ehdr.shnum # 0
  <2>1. Fits(entry, ShSize - 1)
    BY <1>3 DEF ReadSectionNames
  <2> QED
    BY <1>1, <2>1 DEF NamesOfFile, Fits
<1> QED
  BY <1>2, <1>3

LEMMA StepIInv == IInv /\ [Next]_vars => IInv'
<1> SUFFICES ASSUME IInv, [Next]_vars PROVE IInv'
  OBVIOUS
<1> USE DEF IInv, NamesRead
<1>1. CASE Open
  BY <1>1 DEF Open, reading
<1>2. CASE ReadHeader
  <2>1. stage = "header" /\ stage' \in {"refused", "sections"} /\ file' = file
    BY <1>2 DEF ReadHeader
  <2> QED
    BY <1>2, <2>1, WholeHeader
<1>3. CASE ReadSectionNames
  <2>1. /\ stage = "sections" /\ stage' \in {"refused", "phdrs"}
        /\ UNCHANGED <<file, ehdr>>
    BY <1>3 DEF ReadSectionNames, reading
  <2> QED
    BY <1>3, <2>1, NamesStep
<1>4. CASE ReadProgramHeaders
  BY <1>4 DEF ReadProgramHeaders
<1>5. CASE ReadSegment
  BY <1>5 DEF ReadSegment
<1>6. CASE SetEntryPoint
  BY <1>6 DEF SetEntryPoint
<1>7. CASE AddSegment
  BY <1>7 DEF AddSegment
<1>8. CASE MapDone
  BY <1>8 DEF MapDone, reading
<1>9. CASE UNCHANGED vars
  BY <1>9 DEF vars, reading
<1> QED
  BY <1>1, <1>2, <1>3, <1>4, <1>5, <1>6, <1>7, <1>8, <1>9 DEF Next

\* The sum of the invariant is the one of the property.
LEMMA IInvGuards == IInv => NamesGuardAgainstTruncation
<1> SUFFICES ASSUME IInv, stage = "loaded", EhSize <= file.len, file.ehdr.shnum # 0
             PROVE  file.ehdr.shoff + (file.ehdr.names + 1) * ShSize - 1 <= file.len
  BY DEF NamesGuardAgainstTruncation
<1> DEFINE n == file.ehdr.names
<1>1. file.ehdr.shoff + n * ShSize + (ShSize - 1) <= file.len
  BY DEF IInv, NamesRead, NamesOfFile
<1>2. n \in Nat /\ ShSize \in Nat /\ file.ehdr.shoff \in Nat /\ file.len \in Nat
  BY FileTypes DEF IInv
<1>3. (n + 1) * ShSize = n * ShSize + ShSize /\ n * ShSize \in Nat
  BY <1>2
<1> QED
  BY <1>1, <1>2, <1>3

\* No file whose header is whole gets through load_elf cut off before the words
\* of the section table that read_section_names looks at, unless it has no
\* sections: for every file, and whatever the reads left uninitialized.
THEOREM NamesGuard == Spec => []NamesGuardAgainstTruncation
<1>1. Spec => []IInv
  BY InitIInv, StepIInv, PTL DEF Spec
<1> QED
  BY <1>1, IInvGuards, PTL

-----------------------------------------------------------------------------
(***************************************************************************)
(* LoadsWhatTheFileSays.  When a file is all there and fits, the stream    *)
(* never fails, so that the headers are the file's.  The second invariant  *)
(* follows the two loops: the parser has listed one SegmentInfo for each   *)
(* PT_LOAD it has passed, and add_segment has mapped the pages of those it *)
(* has been given, of which no two share a page.                           *)
(***************************************************************************)
Usable(f) == Complete(f) /\ InSpace(f)

NoPages == [t \in {} |-> {}]

\* The SegmentInfo a program header of the file stands for.
Info(f, h) ==
  [vaddr |-> h.vaddr, memsz |-> h.memsz, rights |-> h.rights,
   data |-> [i \in 1 .. h.filesz |-> f.bytes[h.off + i]]]

LoadsUpTo(f, n) == {k \in 1 .. n : f.phdrs[k].type = "LOAD"}

\* src tells which program header each SegmentInfo of the list comes from.
ListedFrom(f, list, src, n) ==
  /\ \A j \in 1 .. Len(list) :
       /\ src[j] \in LoadsUpTo(f, n)
       /\ list[j] = Info(f, f.phdrs[src[j]])
  /\ \A j, l \in 1 .. Len(list) : j # l => src[j] # src[l]
  /\ \A k \in LoadsUpTo(f, n) : \E j \in 1 .. Len(list) : src[j] = k

Listed(f, list, n) ==
  /\ list \in Seq(SegmentInfo)
  /\ \E src \in [1 .. Len(list) -> 1 .. n] : ListedFrom(f, list, src, n)

Pages(list, j) == Tags(Aligned(list[j]))

Placed(list, segs, n) ==
  /\ Table(segs)
  /\ DOMAIN segs = UNION {Pages(list, j) : j \in 1 .. n}
  /\ \A j \in 1 .. n :
       \A t \in Pages(list, j) : segs[t] = SegmentPage(Aligned(list[j]), t)
  /\ \A j, l \in 1 .. n : j # l => Pages(list, j) \cap Pages(list, l) = {}

Started == stage \in {"closed", "header", "sections", "phdrs"}

Follows ==
  /\ stage \notin {"refused", "unopened"} => good
  /\ Started => next = 1 /\ infos = <<>>
  /\ Started \/ stage = "segments" => segments = NoPages
  /\ stage \in {"sections", "phdrs", "segments", "mapping", "loaded"} =>
       file.ehdr.magic /\ file.ehdr.riscv
  /\ NamesRead => (file.ehdr.shnum > 0 => file.strings.size > 0)
  /\ stage = "segments" =>
       /\ phdrs = file.phdrs /\ next \in 1 .. Len(file.phdrs) + 1
       /\ Listed(file, infos, next - 1)
  /\ stage \in {"mapping", "loaded"} =>
       /\ pc = file.ehdr.entry
       /\ Listed(file, infos, Len(file.phdrs))
       /\ next \in 1 .. Len(infos) + 1 /\ Placed(infos, segments, next - 1)
  /\ stage = "loaded" => next = Len(infos) + 1
  /\ stage = "refused" => ~ Acceptable(file)

LInv == IInv /\ (Usable(file) => Follows)

LEMMA FileFacts ==
  ASSUME NEW f \in Files
  PROVE  /\ f.len \in Nat /\ f.phdrs \in Seq(Phdr) /\ Len(f.phdrs) = f.ehdr.phnum
         /\ f.ehdr.phoff \in Nat /\ f.ehdr.phnum \in Nat
         /\ f.strings.off \in Nat /\ f.strings.size \in Nat
         /\ f.bytes \in Seq(Byte) /\ f.len <= Len(f.bytes)
         /\ f.ehdr.shnum > 0 => f.ehdr.names < f.ehdr.shnum
         /\ \A k \in 1 .. Len(f.phdrs) :
              f.phdrs[k] \in Phdr /\ (f.phdrs[k] \in Segs(f) <=> f.phdrs[k].type = "LOAD")
<1>1. /\ f.ehdr \in Ehdr /\ f.len \in Nat /\ f.strings \in [off : Nat, size : Nat]
      /\ f.phdrs \in Seq(Phdr) /\ Len(f.phdrs) = f.ehdr.phnum
      /\ f.bytes \in Seq(Byte) /\ f.len <= Len(f.bytes)
      /\ f.ehdr.shnum > 0 => f.ehdr.names < f.ehdr.shnum
  BY LoaderAssumption
<1>2. f.ehdr.phoff \in Nat /\ f.ehdr.phnum \in Nat
  BY <1>1 DEF Ehdr
<1>3. DOMAIN f.phdrs = 1 .. Len(f.phdrs)
  BY <1>1
<1>4. \A k \in 1 .. Len(f.phdrs) :
        f.phdrs[k] \in Phdr /\ (f.phdrs[k] \in Segs(f) <=> f.phdrs[k].type = "LOAD")
  BY SMTT(30), <1>1, <1>3 DEF Segs
<1> QED
  BY <1>1, <1>2, <1>4

\* What add_segment gets for a program header: a segment it can handle, whose
\* pages are those of the property.
LEMMA InfoFacts ==
  ASSUME NEW f \in Files, Usable(f), NEW h \in Segs(f)
  PROVE  /\ Info(f, h) \in SegmentInfo /\ Loadable(Info(f, h))
         /\ Info(f, h).vaddr = h.vaddr /\ Info(f, h).memsz = h.memsz
         /\ Info(f, h).rights = h.rights
         /\ h.vaddr + h.memsz <= AddrSpace /\ h.vaddr \in Nat /\ h.memsz \in Nat
         /\ Len(Info(f, h).data) = h.filesz
         /\ \A i \in 1 .. h.filesz : Info(f, h).data[i] = f.bytes[h.off + i]
         /\ Tags(Aligned(Info(f, h))) = PagesOf(h)
<1> DEFINE data == [i \in 1 .. h.filesz |-> f.bytes[h.off + i]]
<1>1. PICK k \in DOMAIN f.phdrs : h = f.phdrs[k]
  BY DEF Segs
<1>2. h \in Phdr
  BY <1>1, FileFacts
<1>3. /\ h.vaddr \in Space /\ h.memsz \in Nat /\ h.filesz \in Nat /\ h.off \in Nat
      /\ h.rights \in SUBSET Right /\ h.vaddr \in Nat
  BY <1>2, Sizes DEF Phdr, Space
<1>4. h.off + h.filesz <= f.len /\ h.vaddr + h.memsz <= AddrSpace /\ Loadable(h)
  BY DEF Usable, Complete, InSpace
<1>5. data \in Seq(Byte) /\ Len(data) = h.filesz
  <2>1. ASSUME NEW i \in 1 .. h.filesz PROVE f.bytes[h.off + i] \in Byte
    <3>1. h.off + i \in 1 .. Len(f.bytes) /\ f.bytes \in Seq(Byte)
      BY SMTT(30), <1>3, <1>4, FileFacts
    <3> QED
      BY <3>1
  <2> QED
    BY <1>3, <2>1
<1> HIDE DEF data
<1>6. Info(f, h) = [vaddr |-> h.vaddr, memsz |-> h.memsz, rights |-> h.rights, data |-> data]
  BY DEF Info, data
<1>7. Info(f, h) \in SegmentInfo /\ Loadable(Info(f, h))
  BY <1>3, <1>4, <1>5, <1>6 DEF SegmentInfo, Loadable
<1>8. Tags(Aligned(Info(f, h))) = PagesOf(h)
  BY <1>4, <1>6, <1>7, SegmentTags DEF PagesOf
<1>9. \A i \in 1 .. h.filesz : data[i] = f.bytes[h.off + i]
  BY DEF data
<1> QED
  BY <1>3, <1>4, <1>5, <1>6, <1>7, <1>8, <1>9

\* A program header that the loop passes over, and one that it lists.
LEMMA ListSkipped ==
  ASSUME NEW f, NEW list, NEW n \in Nat, Listed(f, list, n),
         f.phdrs[n + 1].type # "LOAD"
  PROVE  Listed(f, list, n + 1)
<1>1. LoadsUpTo(f, n + 1) = LoadsUpTo(f, n)
  BY DEF LoadsUpTo
<1>2. PICK src \in [1 .. Len(list) -> 1 .. n] : ListedFrom(f, list, src, n)
  BY DEF Listed
<1>3. src \in [1 .. Len(list) -> 1 .. n + 1]
  BY <1>2
<1>4. ListedFrom(f, list, src, n + 1)
  BY <1>1, <1>2 DEF ListedFrom
<1> QED
  BY <1>3, <1>4 DEF Listed

LEMMA ListExtended ==
  ASSUME NEW f, NEW list, NEW n \in Nat, Listed(f, list, n),
         f.phdrs[n + 1].type = "LOAD", Info(f, f.phdrs[n + 1]) \in SegmentInfo
  PROVE  Listed(f, Append(list, Info(f, f.phdrs[n + 1])), n + 1)
<1> DEFINE m    == Len(list)
           info == Info(f, f.phdrs[n + 1])
           new  == Append(list, info)
<1>1. LoadsUpTo(f, n + 1) = LoadsUpTo(f, n) \cup {n + 1} /\ n + 1 \notin LoadsUpTo(f, n)
  BY DEF LoadsUpTo
<1>2. list \in Seq(SegmentInfo) /\ m \in Nat
  BY DEF Listed
<1>3. PICK src \in [1 .. m -> 1 .. n] : ListedFrom(f, list, src, n)
  BY DEF Listed
<1> DEFINE all == [j \in 1 .. m + 1 |-> IF j = m + 1 THEN n + 1 ELSE src[j]]
<1> HIDE DEF info
<1>4. /\ new \in Seq(SegmentInfo) /\ Len(new) = m + 1 /\ new[m + 1] = info
      /\ \A j \in 1 .. m : new[j] = list[j]
  BY <1>2 DEF info
<1> HIDE DEF new, m
<1>5. /\ all \in [1 .. m + 1 -> 1 .. n + 1] /\ all[m + 1] = n + 1
      /\ \A j \in 1 .. m : all[j] = src[j]
  BY <1>2, <1>3
<1> HIDE DEF all
<1>6. \A j \in 1 .. m + 1 : j = m + 1 \/ j \in 1 .. m
  BY <1>2
<1>s. /\ \A j \in 1 .. m : src[j] \in LoadsUpTo(f, n) /\ list[j] = Info(f, f.phdrs[src[j]])
      /\ \A j, l \in 1 .. m : j # l => src[j] # src[l]
      /\ \A k \in LoadsUpTo(f, n) : \E j \in 1 .. m : src[j] = k
  BY <1>3 DEF ListedFrom, m
<1>7. ASSUME NEW j \in 1 .. m + 1
      PROVE  all[j] \in LoadsUpTo(f, n + 1) /\ new[j] = Info(f, f.phdrs[all[j]])
  <2>1. CASE j = m + 1
    BY <1>1, <1>4, <1>5, <2>1 DEF info
  <2>2. CASE j \in 1 .. m
    BY <1>1, <1>s, <1>4, <1>5, <2>2
  <2> QED
    BY <1>6, <2>1, <2>2
<1>8. ASSUME NEW j \in 1 .. m + 1, NEW l \in 1 .. m + 1, j # l
      PROVE  all[j] # all[l]
  <2>1. CASE j = m + 1
    BY <1>1, <1>s, <1>5, <1>6, <1>8, <2>1
  <2>2. CASE l = m + 1
    BY <1>1, <1>s, <1>5, <1>6, <1>8, <2>2
  <2>3. CASE j \in 1 .. m /\ l \in 1 .. m
    BY <1>s, <1>5, <1>8, <2>3
  <2> QED
    BY <1>6, <2>1, <2>2, <2>3
<1>9. ASSUME NEW k \in LoadsUpTo(f, n + 1)
      PROVE  \E j \in 1 .. m + 1 : all[j] = k
  <2>1. CASE k = n + 1
    BY <1>2, <1>5, <2>1
  <2>2. CASE k \in LoadsUpTo(f, n)
    <3>1. PICK j \in 1 .. m : src[j] = k
      BY <1>s, <2>2
    <3>2. j \in 1 .. m + 1 /\ all[j] = k
      BY <1>2, <1>5, <3>1
    <3> QED
      BY <3>2
  <2> QED
    BY <1>1, <2>1, <2>2
<1>10. ListedFrom(f, new, all, n + 1)
  BY <1>4, <1>7, <1>8, <1>9 DEF ListedFrom
<1> QED
  BY <1>4, <1>5, <1>10 DEF Listed, new, info

\* What the list knows of the segment add_segment is given.
LEMMA ListFacts ==
  ASSUME NEW f \in Files, Usable(f), NEW list, Listed(f, list, Len(f.phdrs))
  PROVE  \E src \in [1 .. Len(list) -> 1 .. Len(f.phdrs)] :
           /\ \A j \in 1 .. Len(list) :
                /\ f.phdrs[src[j]] \in Segs(f)
                /\ list[j] = Info(f, f.phdrs[src[j]])
                /\ Pages(list, j) = PagesOf(f.phdrs[src[j]])
                /\ list[j] \in SegmentInfo /\ Loadable(list[j])
           /\ \A j, l \in 1 .. Len(list) : j # l => src[j] # src[l]
           /\ \A k \in 1 .. Len(f.phdrs) :
                f.phdrs[k] \in Segs(f) => \E j \in 1 .. Len(list) : src[j] = k
<1>1. PICK src \in [1 .. Len(list) -> 1 .. Len(f.phdrs)] :
             ListedFrom(f, list, src, Len(f.phdrs))
  BY DEF Listed
<1>2. \A k \in 1 .. Len(f.phdrs) :
        k \in LoadsUpTo(f, Len(f.phdrs)) <=> f.phdrs[k] \in Segs(f)
  BY FileFacts DEF LoadsUpTo
<1>3. ASSUME NEW j \in 1 .. Len(list)
      PROVE  /\ f.phdrs[src[j]] \in Segs(f)
             /\ list[j] = Info(f, f.phdrs[src[j]])
             /\ Pages(list, j) = PagesOf(f.phdrs[src[j]])
             /\ list[j] \in SegmentInfo /\ Loadable(list[j])
  <2>1. src[j] \in 1 .. Len(f.phdrs)
    BY <1>1
  <2>2. src[j] \in LoadsUpTo(f, Len(f.phdrs)) /\ list[j] = Info(f, f.phdrs[src[j]])
    BY <1>1 DEF ListedFrom
  <2>3. f.phdrs[src[j]] \in Segs(f)
    BY <1>2, <2>1, <2>2
  <2> QED
    BY <2>2, <2>3, InfoFacts DEF Pages
<1> QED
  BY <1>1, <1>2, <1>3 DEF ListedFrom

\* Two segments of the file that share a page: it is not acceptable.
LEMMA OverlapRefused ==
  ASSUME NEW f \in Files, Usable(f), NEW list, Listed(f, list, Len(f.phdrs)),
         NEW segs, NEW n \in Nat, n < Len(list), Placed(list, segs, n),
         Overlaps(segs, Aligned(list[n + 1]))
  PROVE  ~ Acceptable(f)
<1>0. Len(list) \in Nat
  BY DEF Listed
<1>1. PICK src \in [1 .. Len(list) -> 1 .. Len(f.phdrs)] :
        /\ \A j \in 1 .. Len(list) :
             /\ f.phdrs[src[j]] \in Segs(f)
             /\ Pages(list, j) = PagesOf(f.phdrs[src[j]])
        /\ \A j, l \in 1 .. Len(list) : j # l => src[j] # src[l]
  BY ListFacts
<1>2. PICK t : t \in Pages(list, n + 1) /\ t \in DOMAIN segs
  BY DEF Overlaps, Pages
<1>3. PICK j \in 1 .. n : t \in Pages(list, j)
  BY <1>2 DEF Placed
<1>4. j \in 1 .. Len(list) /\ n + 1 \in 1 .. Len(list) /\ j # n + 1
  BY <1>0
<1> DEFINE k == src[j]
           m == src[n + 1]
<1>5. k \in 1 .. Len(f.phdrs) /\ m \in 1 .. Len(f.phdrs) /\ k # m
  BY <1>1, <1>4
<1>6. /\ f.phdrs[k] \in Segs(f) /\ f.phdrs[m] \in Segs(f)
      /\ t \in PagesOf(f.phdrs[k]) /\ t \in PagesOf(f.phdrs[m])
  BY <1>1, <1>2, <1>3, <1>4
<1>7. DOMAIN f.phdrs = 1 .. Len(f.phdrs)
  BY FileFacts
<1> HIDE DEF k, m
<1> QED
  BY <1>5, <1>6, <1>7 DEF Acceptable

\* One more segment, in front of whose pages none was.
LEMMA PlaceExtended ==
  ASSUME NEW list \in Seq(SegmentInfo), NEW n \in Nat, n < Len(list),
         Loadable(list[n + 1]), NEW segs, Placed(list, segs, n),
         ~ Overlaps(segs, Aligned(list[n + 1]))
  PROVE  Placed(list, WithSegment(segs, Aligned(list[n + 1])), n + 1)
<1> DEFINE s   == list[n + 1]
           new == WithSegment(segs, Aligned(s))
<1>1. s \in SegmentInfo /\ Loadable(s) /\ Table(segs)
  BY DEF Placed
<1>2. Mappable(segs, Aligned(s)) = Pages(list, n + 1)
  BY DEF Overlaps, Mappable, Pages
<1> HIDE DEF s
<1>a. /\ Table(new) /\ DOMAIN new = DOMAIN segs \cup Mappable(segs, Aligned(s))
      /\ \A t \in DOMAIN segs : new[t] = segs[t]
      /\ \A t \in Mappable(segs, Aligned(s)) :
           t \notin DOMAIN segs /\ new[t] = SegmentPage(Aligned(s), t)
  BY <1>1, WithSegmentFacts
<1>3. /\ Table(new) /\ DOMAIN new = DOMAIN segs \cup Pages(list, n + 1)
      /\ \A t \in DOMAIN segs : new[t] = segs[t]
      /\ \A t \in Pages(list, n + 1) :
           t \notin DOMAIN segs /\ new[t] = SegmentPage(Aligned(s), t)
  BY <1>2, <1>a
<1> HIDE DEF new
<1>4. \A j \in 1 .. n + 1 : j = n + 1 \/ j \in 1 .. n
  OBVIOUS
<1>5. \A j \in 1 .. n : j \in 1 .. n + 1
  OBVIOUS
<1>6. n + 1 \in 1 .. n + 1
  OBVIOUS
<1>p. /\ DOMAIN segs = UNION {Pages(list, j) : j \in 1 .. n}
      /\ \A j \in 1 .. n :
           \A t \in Pages(list, j) : segs[t] = SegmentPage(Aligned(list[j]), t)
      /\ \A j, l \in 1 .. n : j # l => Pages(list, j) \cap Pages(list, l) = {}
  BY DEF Placed
<1>7. DOMAIN new = UNION {Pages(list, j) : j \in 1 .. n + 1}
  <2>1. ASSUME NEW t \in DOMAIN new PROVE \E j \in 1 .. n + 1 : t \in Pages(list, j)
    <3>1. CASE t \in Pages(list, n + 1)
      BY <1>6, <3>1
    <3>2. CASE t \in DOMAIN segs
      <4>1. PICK j \in 1 .. n : t \in Pages(list, j)
        BY <1>p, <3>2
      <4>2. j \in 1 .. n + 1
        BY <1>5
      <4> QED
        BY <4>1, <4>2
    <3> QED
      BY <1>3, <3>1, <3>2, Zenon
  <2>2. ASSUME NEW j \in 1 .. n + 1, NEW t \in Pages(list, j) PROVE t \in DOMAIN new
    <3>1. CASE j = n + 1
      BY <1>3, <2>2, <3>1, Zenon
    <3>2. CASE j \in 1 .. n
      <4>1. t \in DOMAIN segs
        BY <1>p, <2>2, <3>2, Zenon
      <4> QED
        BY <1>3, <4>1, Zenon
    <3> QED
      BY <1>4, <3>1, <3>2
  <2> QED
    BY <2>1, <2>2, Zenon
<1>d. \A j \in 1 .. n : Pages(list, j) \subseteq DOMAIN segs
  BY <1>p, Zenon
<1>8. ASSUME NEW j \in 1 .. n + 1, NEW t \in Pages(list, j)
      PROVE  new[t] = SegmentPage(Aligned(list[j]), t)
  <2>1. CASE j = n + 1
    BY <1>3, <1>8, <2>1 DEF s
  <2>2. CASE j \in 1 .. n
    <3>1. t \in DOMAIN segs
      BY <1>d, <1>8, <2>2
    <3> QED
      BY <1>3, <1>p, <2>2, <3>1
  <2> QED
    BY <1>4, <2>1, <2>2
<1>9. ASSUME NEW j \in 1 .. n + 1, NEW l \in 1 .. n + 1, j # l
      PROVE  Pages(list, j) \cap Pages(list, l) = {}
  <2>1. CASE j \in 1 .. n /\ l \in 1 .. n
    BY <1>p, <1>9, <2>1
  <2>2. CASE j = n + 1 /\ l \in 1 .. n
    BY <1>3, <1>d, <2>2
  <2>3. CASE l = n + 1 /\ j \in 1 .. n
    BY <1>3, <1>d, <2>3
  <2> QED
    BY <1>4, <1>9, <2>1, <2>2, <2>3
<1> QED
  BY <1>3, <1>7, <1>8, <1>9 DEF Placed, new, s

\* The bytes and the rights of a segment of the file.
Mapped(f, segs, h) ==
  /\ \A i \in 0 .. h.memsz - 1 :
       BytesOf(segs)[h.vaddr + i] =
         IF i < h.filesz THEN f.bytes[h.off + i + 1] ELSE Zero
  /\ \A t \in PagesOf(h) : segs[t].rights = h.rights

\* When every segment is placed, the file was acceptable and the memory is what
\* it says.
LEMMA AllPlaced ==
  ASSUME NEW f \in Files, Usable(f), NEW list, Listed(f, list, Len(f.phdrs)),
         NEW segs, Placed(list, segs, Len(list))
  PROVE  /\ \A k, m \in DOMAIN f.phdrs :
              k # m /\ {f.phdrs[k], f.phdrs[m]} \subseteq Segs(f) =>
                PagesOf(f.phdrs[k]) \cap PagesOf(f.phdrs[m]) = {}
         /\ DOMAIN segs = UNION {PagesOf(h) : h \in Segs(f)}
         /\ \A h \in Segs(f) : Mapped(f, segs, h)
<1>0. DOMAIN f.phdrs = 1 .. Len(f.phdrs) /\ Len(list) \in Nat
  BY FileFacts DEF Listed
<1>1. PICK src \in [1 .. Len(list) -> 1 .. Len(f.phdrs)] :
        /\ \A j \in 1 .. Len(list) :
             /\ f.phdrs[src[j]] \in Segs(f)
             /\ list[j] = Info(f, f.phdrs[src[j]])
             /\ Pages(list, j) = PagesOf(f.phdrs[src[j]])
             /\ list[j] \in SegmentInfo /\ Loadable(list[j])
        /\ \A k \in 1 .. Len(f.phdrs) :
             f.phdrs[k] \in Segs(f) => \E j \in 1 .. Len(list) : src[j] = k
  BY ListFacts
<1>2. \A h \in Segs(f) : \E j \in 1 .. Len(list) : f.phdrs[src[j]] = h
  <2>1. SUFFICES ASSUME NEW h \in Segs(f)
                 PROVE  \E j \in 1 .. Len(list) : f.phdrs[src[j]] = h
    OBVIOUS
  <2>2. PICK k \in 1 .. Len(f.phdrs) : h = f.phdrs[k]
    BY <1>0 DEF Segs
  <2> QED
    BY <1>1, <2>2
<1>3. ASSUME NEW k \in DOMAIN f.phdrs, NEW m \in DOMAIN f.phdrs, k # m,
             {f.phdrs[k], f.phdrs[m]} \subseteq Segs(f)
      PROVE  PagesOf(f.phdrs[k]) \cap PagesOf(f.phdrs[m]) = {}
  <2>1. PICK j \in 1 .. Len(list) : src[j] = k
    BY <1>0, <1>1, <1>3
  <2>2. PICK l \in 1 .. Len(list) : src[l] = m
    BY <1>0, <1>1, <1>3
  <2>3. j # l
    BY <1>3, <2>1, <2>2
  <2>4. Pages(list, j) \cap Pages(list, l) = {}
    BY <2>3 DEF Placed
  <2> QED
    BY <1>1, <2>1, <2>2, <2>4
<1>4. DOMAIN segs = UNION {PagesOf(h) : h \in Segs(f)}
  <2>1. DOMAIN segs = UNION {Pages(list, j) : j \in 1 .. Len(list)}
    BY DEF Placed
  <2>2. \A j \in 1 .. Len(list) : \E h \in Segs(f) : Pages(list, j) = PagesOf(h)
    BY <1>1
  <2>3. \A h \in Segs(f) : \E j \in 1 .. Len(list) : Pages(list, j) = PagesOf(h)
    BY <1>1, <1>2
  <2> QED
    BY <2>1, <2>2, <2>3, Zenon
<1>5. ASSUME NEW h \in Segs(f)
      PROVE  Mapped(f, segs, h)
  <2>1. PICK j \in 1 .. Len(list) : f.phdrs[src[j]] = h
    BY <1>2
  <2> DEFINE s == list[j]
  <2>2. /\ s = Info(f, h) /\ s \in SegmentInfo /\ Loadable(s)
        /\ Tags(Aligned(s)) = PagesOf(h)
    BY <1>1, <2>1 DEF Pages
  <2>3. /\ s.vaddr = h.vaddr /\ s.memsz = h.memsz /\ s.rights = h.rights
        /\ h.vaddr + h.memsz <= AddrSpace /\ h.vaddr \in Nat /\ h.memsz \in Nat
        /\ Len(s.data) = h.filesz
        /\ \A i \in 1 .. h.filesz : s.data[i] = f.bytes[h.off + i]
    BY <2>2, InfoFacts
  <2>4. \A t \in Tags(Aligned(s)) : t \in DOMAIN segs /\ segs[t] = SegmentPage(Aligned(s), t)
    BY DEF Placed, Pages
  <2> HIDE DEF s
  <2>5. ASSUME NEW t \in PagesOf(h) PROVE segs[t].rights = h.rights
    <3>1. segs[t] = SegmentPage(Aligned(s), t)
      BY <2>2, <2>4
    <3>2. SegmentPage(Aligned(s), t).rights = Aligned(s).rights
      BY DEF SegmentPage
    <3>3. Aligned(s).rights = s.rights
      BY DEF Aligned
    <3> QED
      BY <2>3, <3>1, <3>2, <3>3
  <2>6. ASSUME NEW i \in 0 .. h.memsz - 1
        PROVE  BytesOf(segs)[h.vaddr + i] =
                 IF i < h.filesz THEN f.bytes[h.off + i + 1] ELSE Zero
    <3> DEFINE b == h.vaddr + i
    <3>1. /\ b \in s.vaddr .. s.vaddr + s.memsz - 1 /\ b < AddrSpace /\ b - s.vaddr = i
          /\ b \in Space /\ i \in Nat
      BY SMTT(30), <2>3, Sizes DEF Space
    <3> HIDE DEF b
    <3>2. Tag(b) \in Tags(Aligned(s))
      BY <2>2, <3>1, CoveredPages
    <3>3. BytesOf(segs)[b] = SegmentPage(Aligned(s), Tag(b)).data[b - Tag(b) * PageSize]
      BY <2>4, <3>1, <3>2 DEF BytesOf
    <3>4. SegmentPage(Aligned(s), Tag(b)).data[b - Tag(b) * PageSize] =
            IF b - s.vaddr < Len(s.data) THEN s.data[b - s.vaddr + 1] ELSE Zero
      BY <2>2, <3>1, SegmentBytes
    <3>5. BytesOf(segs)[b] = IF i < h.filesz THEN s.data[i + 1] ELSE Zero
      BY <2>3, <3>1, <3>3, <3>4
    <3>6. i < h.filesz => s.data[i + 1] = f.bytes[h.off + i + 1]
      <4>1. CASE i < h.filesz
        <5>1. h.filesz \in Nat /\ h.off \in Nat
          <6>1. PICK k \in 1 .. Len(f.phdrs) : h = f.phdrs[k]
            BY <1>0 DEF Segs
          <6>2. h \in Phdr
            BY <6>1, FileFacts
          <6> QED
            BY <6>2 DEF Phdr
        <5>2. i + 1 \in 1 .. h.filesz /\ h.off + (i + 1) = h.off + i + 1
          BY <3>1, <4>1, <5>1
        <5> QED
          BY <2>3, <5>2
      <4> QED
        BY <4>1
    <3> QED
      BY <3>5, <3>6 DEF b
  <2> QED
    BY <2>5, <2>6 DEF Mapped
<1> QED
  BY <1>3, <1>4, <1>5

LEMMA NothingPlaced ==
  ASSUME NEW list
  PROVE  Table(NoPages) /\ Placed(list, NoPages, 0)
<1>1. DOMAIN NoPages = {} /\ NoPages \in [{} -> Page]
  BY DEF NoPages
<1>2. Table(NoPages)
  BY <1>1 DEF Table
<1>3. UNION {Pages(list, j) : j \in 1 .. 0} = {}
  OBVIOUS
<1> QED
  BY <1>1, <1>2, <1>3 DEF Placed

LEMMA NothingListed ==
  ASSUME NEW f
  PROVE  Listed(f, <<>>, 0)
<1>1. LoadsUpTo(f, 0) = {} /\ Len(<<>>) = 0 /\ <<>> \in Seq(SegmentInfo)
  BY DEF LoadsUpTo
<1> DEFINE src == [j \in 1 .. 0 |-> 0]
<1>2. src \in [1 .. 0 -> 1 .. 0] /\ ListedFrom(f, <<>>, src, 0)
  BY <1>1 DEF ListedFrom
<1> QED
  BY <1>1, <1>2 DEF Listed

LEMMA InitLInv == Init => LInv
<1> SUFFICES ASSUME Init PROVE Follows
  BY InitIInv DEF LInv
<1> QED
  BY DEF Init, Follows, Started, NamesRead, NoPages

(***************************************************************************)
(* One lemma for each step of load_elf on a file that is all there.        *)
(***************************************************************************)
LEMMA HeaderFollows ==
  ASSUME IInv, Usable(file), Follows, ReadHeader
  PROVE  Follows'
<1>1. /\ stage = "header" /\ good /\ next = 1 /\ infos = <<>> /\ segments = NoPages
      /\ UNCHANGED <<file, next, infos, segments>>
      /\ stage' = IF ~ ehdr'.magic \/ ~ ehdr'.riscv THEN "refused" ELSE "sections"
  BY DEF Follows, Started, ReadHeader
<1>2. EhSize <= file.len /\ ehdr' = file.ehdr
  BY <1>1, WholeHeader DEF Usable, Complete
<1>3. good'
  <2>1. file.len \in Nat /\ EhSize \in Nat
    BY HeaderSize, FileTypes DEF IInv
  <2>2. Fits(0, EhSize)
    BY <1>1, <1>2, <2>1 DEF Fits
  <2> QED
    BY <2>2 DEF ReadHeader
<1>4. CASE stage' = "refused"
  <2>1. ~ Acceptable(file)'
    BY <1>1, <1>2, <1>4 DEF Acceptable
  <2> QED
    BY <1>1, <1>4, <2>1 DEF Follows, Started, NamesRead
<1>5. CASE stage' = "sections"
  BY <1>1, <1>2, <1>3, <1>5 DEF Follows, Started, NamesRead
<1> QED
  BY <1>1, <1>4, <1>5

LEMMA SectionsFollow ==
  ASSUME IInv, Usable(file), Follows, ReadSectionNames
  PROVE  Follows'
<1> DEFINE e     == file.ehdr
           entry == e.shoff + e.names * ShSize
<1>1. /\ stage = "sections" /\ good /\ next = 1 /\ infos = <<>> /\ segments = NoPages
      /\ UNCHANGED <<file, ehdr, next, infos, segments>>
      /\ e.magic /\ e.riscv /\ ehdr = e /\ file \in Files
  BY DEF Follows, Started, ReadSectionNames, reading, IInv, Usable, Complete
<1>2. /\ e.shnum \in Nat /\ e.names \in Nat /\ e.shoff \in Nat /\ file.len \in Nat
      /\ ShSize \in Nat /\ ShSize >= 2
      /\ file.strings.off \in Nat /\ file.strings.size \in Nat
      /\ e.shnum > 0 => e.names < e.shnum
  BY <1>1, FileTypes, FileFacts
<1>3. CASE e.shnum = 0
  BY <1>1, <1>3 DEF ReadSectionNames, Follows, Started, NamesRead
<1>4. CASE e.shnum # 0
  <2>1. /\ e.names + 1 <= e.shnum /\ e.shoff + e.shnum * ShSize <= file.len
        /\ file.strings.off + file.strings.size <= file.len
    BY <1>2, <1>4 DEF Usable, Complete
  <2>2. ShSize * (e.names + 1) <= ShSize * e.shnum
    <3>1. e.names + 1 \in Int /\ e.shnum \in Int
      BY <1>2
    <3> HIDE DEF e
    <3> QED
      BY <1>2, <2>1, <3>1, TimesMonotone
  <2>3. ShSize * (e.names + 1) = e.names * ShSize + ShSize /\ ShSize * e.shnum = e.shnum * ShSize
    BY <1>2
  <2>4. e.names * ShSize \in Nat /\ e.shnum * ShSize \in Nat
    BY <1>2
  <2>5. entry + (ShSize - 1) <= file.len
    BY <1>2, <2>1, <2>2, <2>3, <2>4
  <2>6. Fits(entry, ShSize - 1)
    BY <1>1, <2>5 DEF Fits
  <2>7. /\ good' = (Fits(e.shoff, e.shnum * ShSize) /\ Fits(file.strings.off, file.strings.size))
        /\ stage' = IF file.strings.size = 0 THEN "refused" ELSE "phdrs"
    BY <1>1, <1>4, <2>6 DEF ReadSectionNames
  <2>8. good'
    BY <1>1, <2>1, <2>7 DEF Fits
  <2>9. CASE file.strings.size = 0
    <3>1. ~ Acceptable(file)'
      BY <1>1, <1>2, <1>4, <2>9 DEF Acceptable
    <3> QED
      BY <1>1, <2>7, <2>9, <3>1 DEF Follows, Started, NamesRead
  <2>10. CASE file.strings.size # 0
    BY <1>1, <1>2, <2>7, <2>8, <2>10 DEF Follows, Started, NamesRead
  <2> QED
    BY <2>9, <2>10
<1> QED
  BY <1>3, <1>4

\* Field by field, each program header is the file's.
LEMMA WholeProgramHeader ==
  ASSUME file \in Files, Usable(file), good, ehdr = file.ehdr,
         NEW k \in 1 .. Len(file.phdrs)
  PROVE  PhdrRead(k) = file.phdrs[k]
<1> DEFINE e     == file.ehdr
           start == e.phoff + (k - 1) * PhSize
           h     == file.phdrs[k]
<1>1. PhSize = 8 /\ DOMAIN PhFields = 1 .. 8
  BY DEF PhSize, PhFields
<1>2. /\ e.phoff \in Nat /\ e.phnum \in Nat /\ file.len \in Nat /\ k \in 1 .. e.phnum
      /\ e.phoff + e.phnum * 8 <= file.len
      /\ h \in Phdr
  BY <1>1, FileFacts DEF Usable, Complete
<1>3. /\ DOMAIN NullPhdr = {"type", "off", "vaddr", "filesz", "memsz", "rights"}
      /\ DOMAIN h = DOMAIN NullPhdr /\ h = [f \in DOMAIN h |-> h[f]]
  BY <1>2 DEF NullPhdr, Phdr
<1>4. \A i \in 1 .. 8 : Fits(start, i)
  <2>1. /\ start = e.phoff + (k - 1) * 8 /\ k \in Nat /\ k <= e.phnum
        /\ (k - 1) * 8 + 8 <= e.phnum * 8
    BY <1>1, <1>2
  <2>2. start \in Nat /\ start + 8 <= file.len
    <3> HIDE DEF start, e
    <3> QED
      BY SMTT(30), <1>2, <2>1
  <2>3. \A i \in 1 .. 8 : start + i <= file.len
    <3> HIDE DEF start
    <3> QED
      BY <1>2, <2>2
  <2> QED
    BY <2>3 DEF Fits
<1>5. ASSUME NEW f \in DOMAIN NullPhdr
      PROVE  \E i \in DOMAIN PhFields : PhFields[i] = f /\ Fits(start, i)
  <2>1. \E i \in 1 .. 8 : PhFields[i] = f
    BY <1>3 DEF PhFields
  <2> QED
    BY <1>1, <1>4, <2>1
<1>6. PhdrRead(k) = [f \in DOMAIN NullPhdr |-> h[f]]
  BY <1>5 DEF PhdrRead
<1> QED
  BY <1>3, <1>6

LEMMA ProgramHeadersFollow ==
  ASSUME IInv, Usable(file), Follows, ReadProgramHeaders
  PROVE  Follows'
<1> DEFINE f == file
<1>1. /\ stage = "phdrs" /\ stage' = "segments" /\ good /\ next = 1 /\ infos = <<>>
      /\ segments = NoPages /\ UNCHANGED <<file, ehdr, next, infos, segments>>
      /\ f.ehdr.magic /\ f.ehdr.riscv /\ ehdr = f.ehdr /\ f \in Files
      /\ f.ehdr.shnum > 0 => f.strings.size > 0
  BY DEF Follows, Started, NamesRead, ReadProgramHeaders, IInv, Usable, Complete
<1>2. Len(f.phdrs) = f.ehdr.phnum /\ f.phdrs \in Seq(Phdr) /\ Len(f.phdrs) \in Nat
  BY <1>1, FileFacts
<1>3. good'
  BY <1>1 DEF ReadProgramHeaders, Fits, Usable, Complete
<1>4. phdrs' = [k \in 1 .. Len(f.phdrs) |-> f.phdrs[k]]
  BY <1>1, <1>2, WholeProgramHeader DEF ReadProgramHeaders
<1>5. phdrs' = f.phdrs
  BY <1>2, <1>4
<1>6. Listed(f, <<>>, 0)
  BY NothingListed
<1> QED
  BY <1>1, <1>2, <1>3, <1>5, <1>6 DEF Follows, Started, NamesRead

LEMMA SegmentFollows ==
  ASSUME IInv, Usable(file), Follows, ReadSegment
  PROVE  Follows'
<1> DEFINE f == file
           n == next - 1
           h == f.phdrs[next]
<1>1. /\ stage = "segments" /\ good /\ next <= Len(phdrs) /\ phdrs = f.phdrs
      /\ next \in 1 .. Len(f.phdrs) + 1 /\ Listed(f, infos, n) /\ segments = NoPages
      /\ next' = next + 1 /\ UNCHANGED <<file, stage, ehdr, phdrs, segments>>
      /\ f.ehdr.magic /\ f.ehdr.riscv /\ f \in Files
      /\ f.ehdr.shnum > 0 => f.strings.size > 0
  BY DEF Follows, Started, NamesRead, ReadSegment, IInv
<1>2. /\ Len(f.phdrs) \in Nat /\ next \in 1 .. Len(f.phdrs) /\ n \in Nat /\ n + 1 = next
      /\ next' \in 1 .. Len(f.phdrs) + 1 /\ next' - 1 = n + 1 /\ file.len \in Nat
  BY SMTT(30), <1>1, FileFacts
<1>3. good' /\ Listed(f, infos', n + 1)
  <2>1. CASE h.type = "LOAD"
    <3>1. h \in Segs(f) /\ h \in Phdr
      BY <1>1, <1>2, <2>1, FileFacts
    <3>2. h.off + h.filesz <= f.len /\ h.off \in Nat /\ h.filesz \in Nat
      BY <3>1 DEF Usable, Complete, Phdr
    <3>3. Fits(h.off, h.filesz) /\ \A i \in 1 .. h.filesz : Fits(h.off, i)
      BY <1>1, <1>2, <3>2 DEF Fits
    <3>4. infos' = Append(infos, Info(f, h)) /\ good' = Fits(h.off, h.filesz)
      BY <1>1, <2>1, <3>3 DEF ReadSegment, Info
    <3>5. Info(f, h) \in SegmentInfo
      BY <1>1, <3>1, InfoFacts
    <3> HIDE DEF n
    <3>6. Listed(f, Append(infos, Info(f, h)), n + 1)
      BY <1>1, <1>2, <2>1, <3>5, ListExtended
    <3> QED
      BY <3>3, <3>4, <3>6
  <2>2. CASE h.type # "LOAD"
    <3>1. infos' = infos /\ good' = good
      BY <1>1, <2>2 DEF ReadSegment
    <3> HIDE DEF n
    <3>2. Listed(f, infos, n + 1)
      BY <1>1, <1>2, <2>2, ListSkipped
    <3> QED
      BY <1>1, <3>1, <3>2
  <2> QED
    BY <2>1, <2>2
<1>4. Listed(file', infos', next' - 1)
  <2> HIDE DEF n
  <2> QED
    BY <1>1, <1>2, <1>3
<1> QED
  BY <1>1, <1>2, <1>3, <1>4 DEF Follows, Started, NamesRead

LEMMA EntryPointFollows ==
  ASSUME IInv, Usable(file), Follows, SetEntryPoint
  PROVE  Follows'
<1> DEFINE f == file
<1>1. /\ stage = "segments" /\ stage' = "mapping" /\ next' = 1 /\ pc' = ehdr.entry
      /\ good /\ next > Len(phdrs) /\ phdrs = f.phdrs /\ next \in 1 .. Len(f.phdrs) + 1
      /\ Listed(f, infos, next - 1) /\ segments = NoPages
      /\ UNCHANGED <<file, good, ehdr, phdrs, infos, segments>>
      /\ f.ehdr.magic /\ f.ehdr.riscv /\ f \in Files /\ ehdr = f.ehdr
      /\ f.ehdr.shnum > 0 => f.strings.size > 0
  BY DEF Follows, Started, NamesRead, SetEntryPoint, IInv, Usable, Complete
<1>2. Len(f.phdrs) \in Nat
  BY <1>1, FileFacts
<1>3. Listed(f, infos, Len(f.phdrs)) /\ Len(infos) \in Nat
  <2>1. next - 1 = Len(f.phdrs)
    BY <1>1, <1>2
  <2> QED
    BY <1>1, <2>1 DEF Listed
<1>4. Placed(infos, segments, 0)
  BY <1>1, NothingPlaced
<1> QED
  BY <1>1, <1>3, <1>4 DEF Follows, Started, NamesRead

LEMMA MappingFollows ==
  ASSUME IInv, Usable(file), Follows, AddSegment
  PROVE  Follows'
<1> DEFINE f == file
           n == next - 1
           s == infos[next]
<1>1. /\ stage = "mapping" /\ good /\ next <= Len(infos) /\ pc = f.ehdr.entry
      /\ next \in 1 .. Len(infos) + 1 /\ Listed(f, infos, Len(f.phdrs))
      /\ Placed(infos, segments, n)
      /\ next' = next + 1 /\ UNCHANGED <<file, good, ehdr, phdrs, infos, pc>>
      /\ segments' = WithSegment(segments, Aligned(s))
      /\ stage' = IF Overlaps(segments, Aligned(s)) THEN "refused" ELSE stage
      /\ f.ehdr.magic /\ f.ehdr.riscv /\ f \in Files
      /\ f.ehdr.shnum > 0 => f.strings.size > 0
  BY DEF Follows, Started, NamesRead, AddSegment, IInv
<1>2. /\ Len(infos) \in Nat /\ n \in Nat /\ n < Len(infos) /\ n + 1 = next
      /\ next' \in 1 .. Len(infos) + 1 /\ next' - 1 = n + 1 /\ infos \in Seq(SegmentInfo)
  BY <1>1 DEF Listed
<1> HIDE DEF n
<1>3. Loadable(infos[n + 1])
  <2>1. n + 1 \in 1 .. Len(infos)
    BY <1>2
  <2> QED
    BY <1>1, <2>1, ListFacts
<1>4. CASE Overlaps(segments, Aligned(s))
  <2>1. ~ Acceptable(f)
    BY <1>1, <1>2, <1>4, OverlapRefused
  <2>2. ~ Acceptable(file')
    BY <1>1, <2>1
  <2>3. stage' = "refused"
    BY <1>1, <1>4
  <2> QED
    BY <1>1, <2>2, <2>3 DEF Follows, Started, NamesRead
<1>5. CASE ~ Overlaps(segments, Aligned(s))
  <2>1. Placed(infos, WithSegment(segments, Aligned(s)), n + 1)
    BY <1>1, <1>2, <1>3, <1>5, PlaceExtended
  <2>2. Placed(infos', segments', next' - 1) /\ stage' = stage
    BY <1>1, <1>2, <1>5, <2>1
  <2> QED
    BY <1>1, <1>2, <2>2 DEF Follows, Started, NamesRead
<1> QED
  BY <1>4, <1>5

LEMMA StepLInv == LInv /\ [Next]_vars => LInv'
<1> SUFFICES ASSUME LInv, [Next]_vars PROVE LInv'
  OBVIOUS
<1>1. IInv /\ IInv' /\ file' = file
  BY StepIInv
     DEF LInv, Next, vars, reading, Open, ReadHeader, ReadSectionNames,
         ReadProgramHeaders, ReadSegment, SetEntryPoint, AddSegment, MapDone
<1> SUFFICES ASSUME Usable(file) PROVE Follows'
  BY <1>1 DEF LInv
<1>2. Follows
  BY DEF LInv
<1>3. CASE Open
  BY <1>2, <1>3 DEF Open, reading, Follows, Started, NamesRead
<1>4. CASE ReadHeader
  BY <1>1, <1>2, <1>4, HeaderFollows
<1>5. CASE ReadSectionNames
  BY <1>1, <1>2, <1>5, SectionsFollow
<1>6. CASE ReadProgramHeaders
  BY <1>1, <1>2, <1>6, ProgramHeadersFollow
<1>7. CASE ReadSegment
  BY <1>1, <1>2, <1>7, SegmentFollows
<1>8. CASE SetEntryPoint
  BY <1>1, <1>2, <1>8, EntryPointFollows
<1>9. CASE AddSegment
  BY <1>1, <1>2, <1>9, MappingFollows
<1>10. CASE MapDone
  <2>1. Len(infos) \in Nat /\ next \in 1 .. Len(infos) + 1
    BY <1>2, <1>10 DEF MapDone, Follows, Listed
  <2> QED
    BY <1>2, <1>10, <2>1 DEF MapDone, reading, Follows, Started, NamesRead
<1>11. CASE UNCHANGED vars
  BY <1>2, <1>11 DEF vars, reading, Follows, Started, NamesRead
<1> QED
  BY <1>3, <1>4, <1>5, <1>6, <1>7, <1>8, <1>9, <1>10, <1>11 DEF Next

LEMMA LInvLoads == LInv => LoadsWhatTheFileSays
<1> SUFFICES ASSUME LInv, Ended, Usable(file), Follows
             PROVE  LoadsWhatTheFileSays
  BY DEF LInv, Usable, LoadsWhatTheFileSays
<1> DEFINE f == file
<1>1. f \in Files
  BY DEF LInv, IInv
<1>2. CASE stage = "refused"
  BY <1>2 DEF Follows, LoadsWhatTheFileSays
<1>3. CASE stage = "loaded"
  <2>1. /\ Listed(f, infos, Len(f.phdrs)) /\ next = Len(infos) + 1 /\ pc = f.ehdr.entry
        /\ Placed(infos, segments, next - 1) /\ f.ehdr.magic /\ f.ehdr.riscv
        /\ f.ehdr.shnum > 0 => f.strings.size > 0
    BY <1>3 DEF Follows, NamesRead
  <2>2. Placed(infos, segments, Len(infos))
    <3>1. next - 1 = Len(infos)
      BY <2>1 DEF Listed
    <3> QED
      BY <2>1, <3>1
  <2>3. Acceptable(f)
    BY <1>1, <2>1, <2>2, AllPlaced DEF Acceptable
  <2>4. DOMAIN segments = UNION {PagesOf(h) : h \in Segs(f)}
    BY <1>1, <2>1, <2>2, AllPlaced
  <2>5. \A h \in Segs(f) : Mapped(f, segments, h)
    BY <1>1, <2>1, <2>2, AllPlaced
  <2> QED
    BY <1>3, <2>1, <2>3, <2>4, <2>5 DEF Mapped, LoadsWhatTheFileSays
<1> QED
  BY <1>2, <1>3 DEF Ended

\* Whatever file is on the disk, however its segments lie in it and in the
\* address space: if it is all there and fits, load_elf either throws because it
\* must, or leaves the pc, the bytes, the zeros after them and the rights of every
\* page as the file says, and maps nothing else.
THEOREM LoadsTheFile == Spec => []LoadsWhatTheFileSays
<1>1. Spec => []LInv
  BY InitLInv, StepLInv, PTL DEF Spec
<1> QED
  BY <1>1, LInvLoads, PTL
=============================================================================
