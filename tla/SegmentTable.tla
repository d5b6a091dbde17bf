---------------------------- MODULE SegmentTable ----------------------------
(***************************************************************************)
(* The page table of class MEM32 (inc/memory.hpp) as operators on its one  *)
(* field, segments_: a function from the tags of the mapped pages to their *)
(* data and rights.  MEM32 makes a state machine of it; the modules of the *)
(* CPU and its drivers use the same operators.                             *)
(*                                                                         *)
(* A definition commented "Wrong:" is a plausible bug in the definition    *)
(* that follows it, of no part in the model: README.md names the property  *)
(* that refutes it.                                                        *)
(***************************************************************************)
EXTENDS MemoryInterface

Page == [data : [InPage -> Byte], rights : SUBSET Right]

Tag(addr) == U32(addr) \div PageSize

(***************************************************************************)
(* get_seg: a page that is not there is created first, with exactly the    *)
(* rights the access asks for; the rights are tested on what is there.     *)
(***************************************************************************)
ZeroPage(need) == [data |-> [i \in InPage |-> Zero], rights |-> need]

\* Wrong: a page created for a store can be read back.
CreatePageReadable(segs, tag, need) ==
  [t \in DOMAIN segs \cup {tag} |->
     IF t \in DOMAIN segs THEN segs[t] ELSE ZeroPage(need \cup {"r"})]

CreatePage(segs, tag, need) ==
  [t \in DOMAIN segs \cup {tag} |->
     IF t \in DOMAIN segs THEN segs[t] ELSE ZeroPage(need)]

GetSeg(segs, op, addr) == CreatePage(segs, Tag(addr), Need(op))

\* Wrong: the test of the w right is missing.
PermittedToWrite(segs, op, addr) ==
  Need(op) \ {"w"} \subseteq segs[Tag(addr)].rights

\* Wrong: the test of the x right is missing.
PermittedToExecute(segs, op, addr) ==
  Need(op) \ {"x"} \subseteq segs[Tag(addr)].rights

Permitted(segs, op, addr) == Need(op) \subseteq segs[Tag(addr)].rights

\* The 32-bit accessors subtract from the whole uint64_t address.
Offset(op, addr) ==
  (IF Width(op) = 4 THEN addr ELSE U32(addr)) - Tag(addr) * PageSize

\* What an accessor does, segs being the table after get_seg.
OutcomeIn(segs, op, addr) ==
  IF ~ Permitted(segs, op, addr) THEN "AccessFault"
  ELSE IF Offset(op, addr) + Width(op) > PageSize THEN "BoundaryFault"
  ELSE "ok"

OutcomeOf(segs, op, addr) == OutcomeIn(GetSeg(segs, op, addr), op, addr)

ValueAt(segs, op, addr) ==
  [i \in 0 .. Width(op) - 1 |-> segs[Tag(addr)].data[Offset(op, addr) + i]]

\* The table after a store of val, when the accessor does not throw.
Written(segs, op, addr, val) ==
  [segs EXCEPT ![Tag(addr)].data =
     [i \in InPage |-> IF i - Offset(op, addr) \in 0 .. Width(op) - 1
                       THEN val[i - Offset(op, addr)] ELSE @[i]]]

(***************************************************************************)
(* add_segment.  The segment is widened downwards to a page boundary, cut  *)
(* into pages and padded with zeros.  All sizes are uint32_t.              *)
(***************************************************************************)
Aligned(s) ==
  LET offset == s.vaddr % PageSize
  IN [vaddr  |-> s.vaddr - offset,
      memsz  |-> U32(offset + s.memsz),
      data   |-> [k \in 1 .. offset + Len(s.data) |->
                    IF k <= offset THEN Zero ELSE s.data[k - offset]],
      rights |-> s.rights]

StartTag(g) == g.vaddr \div PageSize
EndTag(g)   == StartTag(g) + U32(g.memsz + PageSize - 1) \div PageSize
Tags(g)     == StartTag(g) .. EndTag(g) - 1

\* Wrong: the page is not padded with zeros.
SegmentPageUnpadded(g, tag) ==
  LET source == (tag - StartTag(g)) * PageSize
      copied == {i \in InPage : source + i < Len(g.data)}
  IN [data |-> [i \in copied |-> g.data[source + i + 1]], rights |-> g.rights]

\* Wrong: every page is copied from the start of the segment.
SegmentPageFromStart(g, tag) ==
  [data   |-> [i \in InPage |-> IF i < Len(g.data) THEN g.data[i + 1] ELSE Zero],
   rights |-> g.rights]

SegmentPage(g, tag) ==
  LET source == (tag - StartTag(g)) * PageSize
  IN [data   |-> [i \in InPage |-> IF source + i < Len(g.data)
                                   THEN g.data[source + i + 1] ELSE Zero],
      rights |-> g.rights]

\* The loop maps pages upwards until it meets one that is taken.
Mappable(segs, g) ==
  {t \in Tags(g) : \A u \in Tags(g) \cap DOMAIN segs : t < u}

\* Wrong: pages that are already mapped are replaced.
WithSegmentOver(segs, g) ==
  [t \in DOMAIN segs \cup Tags(g) |->
     IF t \in Tags(g) THEN SegmentPage(g, t) ELSE segs[t]]

WithSegment(segs, g) ==
  [t \in DOMAIN segs \cup Mappable(segs, g) |->
     IF t \in DOMAIN segs THEN segs[t] ELSE SegmentPage(g, t)]

Overlaps(segs, g) == Tags(g) \cap DOMAIN segs # {}

-----------------------------------------------------------------------------
\* The address space behind a page table; where no page is, bytes are zero.
BytesOf(segs) ==
  [b \in Space |-> IF Tag(b) \in DOMAIN segs
                   THEN segs[Tag(b)].data[b - Tag(b) * PageSize] ELSE Zero]
=============================================================================
