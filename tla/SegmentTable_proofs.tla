------------------------- MODULE SegmentTable_proofs ------------------------
(***************************************************************************)
(* Lemmas about the page table's operators, for every size of page and of  *)
(* address space, every alphabet of bytes and every set of segments that   *)
(* MemoryAssumption allows.  The proofs about the memory, the CPU and the  *)
(* loader cite them.                                                       *)
(***************************************************************************)
EXTENDS SegmentTable, TLAPS

-----------------------------------------------------------------------------
(***************************************************************************)
(* Arithmetic of pages.                                                    *)
(***************************************************************************)

\* Multiplication by a natural number is monotone.
LEMMA TimesMonotone ==
  ASSUME NEW x \in Int, NEW y \in Int, NEW z \in Nat, x <= y
  PROVE  z * x <= z * y
  BY SMT

\* Multiplication distributes over subtraction.
LEMMA TimesDistributes ==
  ASSUME NEW x \in Nat, NEW y \in Nat, NEW z \in Nat, x - y \in Nat
  PROVE  /\ (x - y) * z \in Nat /\ (x - y) * z = x * z - y * z
         /\ x * z \in Nat /\ y * z \in Nat
<1>1. (x - y) * z = x * z - y * z
  BY SMT
<1>2. x * z \in Nat /\ y * z \in Nat /\ (x - y) * z \in Nat
  BY SMT
<1> QED
  BY <1>1, <1>2

\* The sizes behave: a page has room for a word, the space for a page.
LEMMA Sizes ==
  /\ PageSize \in Nat /\ PageSize >= 4
  /\ PageCount \in Nat /\ PageCount >= 1
  /\ AddrSpace \in Nat /\ AddrSpace >= 4
<1>1. PageSize \in Nat /\ PageSize >= 4 /\ PageCount \in Nat /\ PageCount >= 1
  BY MemoryAssumption
<1>2. PageSize * 1 <= PageSize * PageCount
  BY <1>1, TimesMonotone
<1> QED
  BY <1>1, <1>2 DEF AddrSpace

\* A number has one quotient and one remainder by the page size.
LEMMA QuotientIsUnique ==
  ASSUME NEW a \in Int, NEW q \in Int, NEW r \in 0 .. PageSize - 1,
         a = q * PageSize + r
  PROVE  a \div PageSize = q /\ a % PageSize = r
  BY Sizes, SMT

\* An integer is its page's start and its offset in the page.
LEMMA PageAndOffset ==
  ASSUME NEW a \in Int
  PROVE  /\ a \div PageSize \in Int
         /\ a % PageSize \in InPage
         /\ a = (a \div PageSize) * PageSize + (a % PageSize)
  BY Sizes, SMT DEF InPage

\* The number of pages that n bytes from address a reach.
LEMMA LastPage ==
  ASSUME NEW a \in Int, NEW n \in Nat, NEW q \in Int, NEW offset \in 0 .. PageSize - 1,
         a = q * PageSize + offset
  PROVE  /\ q + (offset + n - 1 + PageSize) \div PageSize = (a + n - 1) \div PageSize + 1
         /\ (a + n - 1) \div PageSize \in Int
<1> DEFINE m == offset + n - 1
           d == m \div PageSize
           r == m % PageSize
<1>1. m \in Int
  BY Sizes
<1>2. d \in Int /\ r \in 0 .. PageSize - 1 /\ m = d * PageSize + r
  BY <1>1, PageAndOffset DEF InPage
<1> HIDE DEF d, r
<1>3. m + PageSize = (d + 1) * PageSize + r
  BY <1>1, <1>2, Sizes
<1>4. (m + PageSize) \div PageSize = d + 1
  BY <1>1, <1>2, <1>3, QuotientIsUnique, Sizes
<1>5. a + n - 1 = q * PageSize + m
  BY Sizes
<1>6. (q + d) * PageSize = q * PageSize + d * PageSize
  BY <1>2, Sizes
<1>7. a + n - 1 = (q + d) * PageSize + r
  BY <1>1, <1>2, <1>5, <1>6, Sizes
<1>8. (a + n - 1) \div PageSize = q + d
  BY <1>2, <1>7, QuotientIsUnique, Sizes
<1> QED
  BY <1>2, <1>4, <1>8

\* Truncation to 32 bits.
LEMMA Truncated ==
  ASSUME NEW a \in Nat
  PROVE  /\ U32(a) \in Space
         /\ U32(a) <= a
         /\ a < AddrSpace => U32(a) = a
         /\ a >= AddrSpace => a - U32(a) >= AddrSpace
<1>1. a = AddrSpace * (a \div AddrSpace) + (a % AddrSpace)
  BY Sizes, SMT
<1>2. a % AddrSpace \in 0 .. AddrSpace - 1 /\ a \div AddrSpace \in Nat
  BY Sizes, SMT
<1>3. a < AddrSpace => a % AddrSpace = a
  BY Sizes, SMT
<1>4. ASSUME a >= AddrSpace PROVE a - (a % AddrSpace) >= AddrSpace
  <2>1. a \div AddrSpace >= 1
    BY <1>1, <1>2, <1>4, Sizes, SMT
  <2>2. AddrSpace * 1 <= AddrSpace * (a \div AddrSpace)
    BY <1>2, <2>1, Sizes, TimesMonotone
  <2> QED
    BY <1>1, <1>2, <2>2, Sizes, SMT
<1>5. AddrSpace * (a \div AddrSpace) >= 0
  BY <1>2, Sizes, SMT
<1> QED
  BY <1>1, <1>2, <1>3, <1>4, <1>5, Sizes DEF U32, Space

\* The tag of an address names a page of the space, at whose start it lies.
LEMMA TagFacts ==
  ASSUME NEW a \in Nat
  PROVE  /\ Tag(a) \in 0 .. PageCount - 1
         /\ U32(a) - Tag(a) * PageSize \in InPage
<1> DEFINE q == U32(a) \div PageSize
           r == U32(a) % PageSize
<1>1. U32(a) \in 0 .. AddrSpace - 1
  BY Truncated DEF Space
<1>2. q \in Int /\ r \in InPage /\ U32(a) = q * PageSize + r
  <2>1. U32(a) \in Int
    BY <1>1, Sizes
  <2> QED
    BY <2>1, PageAndOffset
<1>3. q >= 0
  BY <1>1, Sizes, SMT
<1>4. q < PageCount
  <2>1. SUFFICES ASSUME q >= PageCount PROVE FALSE
    BY <1>2, Sizes
  <2>2. PageSize * PageCount <= PageSize * q
    BY <1>2, <2>1, Sizes, TimesMonotone
  <2> QED
    BY <1>1, <1>2, <2>2, Sizes DEF AddrSpace, InPage
<1> QED
  BY <1>2, <1>3, <1>4, Sizes DEF Tag, InPage

\* The start of a page is a natural number.
LEMMA AddressFacts ==
  ASSUME NEW a \in Nat
  PROVE  U32(a) \in Nat /\ Tag(a) \in Nat /\ Tag(a) * PageSize \in Nat
  BY TagFacts, Truncated, Sizes DEF Space

\* The bytes of an access that stays in its page are bytes of that page.
LEMMA SamePage ==
  ASSUME NEW b \in Space, NEW tag \in Nat, NEW i \in InPage,
         b = tag * PageSize + i
  PROVE  Tag(b) = tag
<1>1. U32(b) = b
  BY Truncated, Sizes DEF Space
<1>2. b \div PageSize = tag
  BY QuotientIsUnique, Sizes DEF Space, InPage
<1> QED
  BY <1>1, <1>2 DEF Tag


-----------------------------------------------------------------------------
(***************************************************************************)
(* The accessors.                                                          *)
(***************************************************************************)

Ops == Reads \cup Writes

\* The offset an accessor computes, when it accepts it, is the byte's position
\* in its page, and it accepts it just when the bytes are all in that page.
LEMMA OffsetFacts ==
  ASSUME NEW op \in Ops, NEW a \in Nat
  PROVE  /\ Width(op) \in 1 .. 4
         /\ Offset(op, a) \in Nat
         /\ Offset(op, a) + Width(op) <= PageSize =>
              Offset(op, a) = U32(a) - Tag(a) * PageSize
         /\ Offset(op, a) + Width(op) <= PageSize <=>
              /\ U32(a) - Tag(a) * PageSize + Width(op) <= PageSize
              /\ Width(op) = 4 => a < AddrSpace
<1> DEFINE start == Tag(a) * PageSize
           pos   == U32(a) - start
<1>1. Width(op) \in {1, 2, 4}
  BY DEF Width
<1>2. start \in Nat /\ pos \in 0 .. PageSize - 1 /\ U32(a) \in Nat
  BY TagFacts, Truncated, Sizes DEF InPage, Space
<1>3. CASE Width(op) = 4 /\ a >= AddrSpace
  <2>1. Offset(op, a) = a - start /\ a - start >= AddrSpace
    BY <1>2, <1>3, Truncated, Sizes DEF Offset
  <2>2. AddrSpace >= PageSize
    BY Sizes, TimesMonotone DEF AddrSpace
  <2> QED
    BY <1>1, <1>2, <1>3, <2>1, <2>2, Sizes
<1>4. CASE Width(op) # 4 \/ a < AddrSpace
  <2>1. Offset(op, a) = pos
    BY <1>2, <1>4, Truncated, Sizes DEF Offset
  <2> QED
    BY <1>1, <1>2, <1>4, <2>1, Sizes
<1> QED
  BY <1>3, <1>4, Sizes

\* A well-formed page table.
Table(segs) == DOMAIN segs \subseteq Nat /\ segs \in [DOMAIN segs -> Page]

\* A table that has gained a page, and lost and changed none.
Grown(segs, new, tag, page) ==
  /\ Table(new)
  /\ tag \in DOMAIN new
  /\ DOMAIN new = DOMAIN segs \cup {tag}
  /\ \A t \in DOMAIN segs : new[t] = segs[t]
  /\ tag \notin DOMAIN segs => new[tag] = page

\* get_seg adds at most one page, the one it was asked for, and changes none.
LEMMA GetSegFacts ==
  ASSUME NEW segs, Table(segs), NEW op \in Ops, NEW a \in Nat
  PROVE  Grown(segs, GetSeg(segs, op, a), Tag(a), ZeroPage(Need(op)))
<1>1. Tag(a) \in Nat
  BY TagFacts, Sizes
<1>2. ZeroPage(Need(op)) \in Page
  BY MemoryAssumption DEF ZeroPage, Page, Need, Right
<1>3. \A t \in DOMAIN segs : segs[t] \in Page
  BY DEF Table
<1> QED
  BY <1>1, <1>2, <1>3 DEF GetSeg, CreatePage, Table, Grown

\* An accessor answers "ok" or throws one of its two exceptions.
LEMMA OutcomeFacts ==
  ASSUME NEW segs, NEW op \in Ops, NEW a \in Nat
  PROVE  /\ OutcomeIn(segs, op, a) \in AccessFaults \cup {"ok"}
         /\ OutcomeIn(segs, op, a) = "ok" <=>
              Permitted(segs, op, a) /\ Offset(op, a) + Width(op) <= PageSize
<1>1. Offset(op, a) \in Nat /\ Width(op) \in Nat /\ PageSize \in Nat
  BY OffsetFacts, Sizes
<1> QED
  BY <1>1 DEF OutcomeIn, AccessFaults

\* A load that does not throw returns bytes.
LEMMA ValueType ==
  ASSUME NEW segs, Table(segs), NEW op \in Ops, NEW a \in Nat,
         Tag(a) \in DOMAIN segs, OutcomeIn(segs, op, a) = "ok"
  PROVE  ValueAt(segs, op, a) \in [0 .. Width(op) - 1 -> Byte]
<1>1. segs[Tag(a)].data \in [InPage -> Byte]
  BY DEF Table, Page
<1>2. Offset(op, a) \in Nat /\ Width(op) \in Nat /\ Offset(op, a) + Width(op) <= PageSize
  BY OffsetFacts, OutcomeFacts
<1>3. \A i \in 0 .. Width(op) - 1 : Offset(op, a) + i \in InPage
  BY <1>2, Sizes DEF InPage
<1> QED
  BY <1>1, <1>3 DEF ValueAt

\* A value with a byte for each that the accessor takes.
Supplies(val, op) == \A i \in 0 .. Width(op) - 1 : val[i] \in Byte

\* A store changes the data of one page, and no rights; of its value, it takes
\* as many bytes as it has.
LEMMA WrittenPages ==
  ASSUME NEW segs, Table(segs), NEW op \in Ops, NEW a \in Nat,
         Tag(a) \in DOMAIN segs,
         NEW val, Supplies(val, op)
  PROVE  /\ Table(Written(segs, op, a, val))
         /\ DOMAIN Written(segs, op, a, val) = DOMAIN segs
         /\ \A t \in DOMAIN segs :
              /\ Written(segs, op, a, val)[t].rights = segs[t].rights
              /\ t # Tag(a) => Written(segs, op, a, val)[t] = segs[t]
<1> DEFINE new == [i \in InPage |-> IF i - Offset(op, a) \in 0 .. Width(op) - 1
                                    THEN val[i - Offset(op, a)]
                                    ELSE segs[Tag(a)].data[i]]
<1>1. segs[Tag(a)] \in Page
  BY DEF Table
<1>2. new \in [InPage -> Byte]
  BY <1>1 DEF Page, Supplies
<1>3. Written(segs, op, a, val) =
        [t \in DOMAIN segs |-> IF t = Tag(a) THEN [segs[t] EXCEPT !.data = new]
                               ELSE segs[t]]
  BY DEF Written, Table
<1>4. [segs[Tag(a)] EXCEPT !.data = new] \in Page
  BY <1>1, <1>2 DEF Page
<1>6. [segs[Tag(a)] EXCEPT !.data = new].rights = segs[Tag(a)].rights
  BY <1>1 DEF Page
<1>7. \A t \in DOMAIN segs : segs[t] \in Page
  BY DEF Table
<1> HIDE DEF new
<1>8. Table(Written(segs, op, a, val))
  BY <1>3, <1>4, <1>7 DEF Table
<1>9. \A t \in DOMAIN segs :
        /\ Written(segs, op, a, val)[t].rights = segs[t].rights
        /\ t # Tag(a) => Written(segs, op, a, val)[t] = segs[t]
  BY <1>3, <1>6
<1> QED
  BY <1>3, <1>8, <1>9

\* In particular when its value has no more bytes than it takes.
LEMMA WrittenFacts ==
  ASSUME NEW segs, Table(segs), NEW op \in Ops, NEW a \in Nat,
         Tag(a) \in DOMAIN segs, NEW val \in [0 .. Width(op) - 1 -> Byte]
  PROVE  /\ Table(Written(segs, op, a, val))
         /\ DOMAIN Written(segs, op, a, val) = DOMAIN segs
         /\ \A t \in DOMAIN segs :
              /\ Written(segs, op, a, val)[t].rights = segs[t].rights
              /\ t # Tag(a) => Written(segs, op, a, val)[t] = segs[t]
<1>1. Supplies(val, op)
  BY DEF Supplies
<1> QED
  BY <1>1, WrittenPages

\* The bytes it changes are those at the offset of its address.
LEMMA WrittenData ==
  ASSUME NEW segs, Table(segs), NEW op \in Ops, NEW a \in Nat,
         Tag(a) \in DOMAIN segs, NEW val, NEW i \in InPage
  PROVE  Written(segs, op, a, val)[Tag(a)].data[i] =
           IF i - Offset(op, a) \in 0 .. Width(op) - 1
           THEN val[i - Offset(op, a)] ELSE segs[Tag(a)].data[i]
<1> DEFINE new == [j \in InPage |-> IF j - Offset(op, a) \in 0 .. Width(op) - 1
                                    THEN val[j - Offset(op, a)]
                                    ELSE segs[Tag(a)].data[j]]
<1>1. segs[Tag(a)] \in Page
  BY DEF Table
<1>2. Written(segs, op, a, val)[Tag(a)] = [segs[Tag(a)] EXCEPT !.data = new]
  BY DEF Written, Table
<1>3. [segs[Tag(a)] EXCEPT !.data = new].data = new
  BY <1>1 DEF Page
<1> QED
  BY <1>2, <1>3

-----------------------------------------------------------------------------
(***************************************************************************)
(* add_segment.                                                            *)
(***************************************************************************)

\* Widening a segment to a page boundary pads its data, and its last page is
\* the page of its last byte: no 32-bit sum on the way there wraps.
LEMMA AlignedFacts ==
  ASSUME NEW s \in SegmentInfo, Loadable(s)
  PROVE  LET g      == Aligned(s)
             offset == s.vaddr % PageSize
         IN /\ offset \in InPage
            /\ s.vaddr = StartTag(g) * PageSize + offset
            /\ StartTag(g) = s.vaddr \div PageSize
            /\ StartTag(g) \in Nat
            /\ EndTag(g) = (s.vaddr + s.memsz - 1) \div PageSize + 1
            /\ EndTag(g) \in Int
            /\ g.data \in Seq(Byte)
            /\ Len(g.data) = offset + Len(s.data)
            /\ \A k \in 1 .. offset + Len(s.data) :
                 g.data[k] = IF k <= offset THEN Zero ELSE s.data[k - offset]
            /\ g.rights = s.rights
            /\ g.rights \in SUBSET Right
<1> DEFINE g      == Aligned(s)
           offset == s.vaddr % PageSize
           q      == s.vaddr \div PageSize
           m      == offset + s.memsz - 1
<1> HIDE DEF m
<1>1. s.memsz + 2 * PageSize <= AddrSpace
  BY DEF Loadable
<1>2. s.vaddr \in 0 .. AddrSpace - 1 /\ s.memsz \in Nat /\ s.data \in Seq(Byte)
      /\ s.rights \in SUBSET Right
  BY <1>1 DEF SegmentInfo, Space
<1>3. q \in Int /\ offset \in 0 .. PageSize - 1 /\ s.vaddr = q * PageSize + offset
  <2>1. s.vaddr \in Int
    BY <1>2
  <2> QED
    BY <2>1, PageAndOffset DEF InPage
<1>4. q \in Nat
  BY <1>2, Sizes, SMT
<1>q. q = s.vaddr \div PageSize /\ offset = s.vaddr % PageSize
  OBVIOUS
<1>o. offset = s.vaddr - q * PageSize
  BY <1>2, <1>3, Sizes
<1>a. g = [vaddr |-> s.vaddr - offset, memsz |-> U32(offset + s.memsz),
           data |-> [k \in 1 .. offset + Len(s.data) |->
                       IF k <= offset THEN Zero ELSE s.data[k - offset]],
           rights |-> s.rights]
  BY DEF Aligned
<1> HIDE DEF g, q, offset
<1>5. g.vaddr = q * PageSize + 0
  BY <1>2, <1>3, <1>4, <1>a, Sizes
<1>6. StartTag(g) = q
  BY <1>4, <1>5, QuotientIsUnique, Sizes DEF StartTag
<1>7. g.memsz = m + 1
  <2>1. offset + s.memsz \in Nat /\ offset + s.memsz < AddrSpace
    BY <1>1, <1>2, <1>3, Sizes
  <2> QED
    BY <1>2, <1>3, <1>a, <2>1, Truncated DEF m
<1>8. U32(g.memsz + PageSize - 1) = m + PageSize
  <2>1. m + PageSize \in Nat /\ m + PageSize < AddrSpace
    BY SMTT(30), <1>1, <1>2, <1>3, Sizes DEF m
  <2>2. m \in Int
    BY <1>2, <1>3, Sizes DEF m
  <2>3. g.memsz + PageSize - 1 = m + PageSize
    BY <1>7, <2>2, Sizes
  <2> QED
    BY <2>1, <2>3, Truncated
<1>9. EndTag(g) = (s.vaddr + s.memsz - 1) \div PageSize + 1 /\ EndTag(g) \in Int
  <2>1. s.vaddr \in Int /\ s.memsz \in Nat
    BY <1>2, Sizes
  <2>2. /\ q + (m + PageSize) \div PageSize = (s.vaddr + s.memsz - 1) \div PageSize + 1
        /\ (s.vaddr + s.memsz - 1) \div PageSize \in Int
    BY <1>3, <2>1, LastPage DEF m
  <2>3. EndTag(g) = q + (m + PageSize) \div PageSize
    BY <1>6, <1>8 DEF EndTag
  <2> QED
    BY <2>2, <2>3
<1>10. g.data = [k \in 1 .. offset + Len(s.data) |->
                   IF k <= offset THEN Zero ELSE s.data[k - offset]]
  BY <1>a
<1>11. offset + Len(s.data) \in Nat /\ Len(s.data) \in Nat
  BY <1>2, <1>3
<1>12. \A k \in 1 .. offset + Len(s.data) : g.data[k] \in Byte
  BY <1>2, <1>3, <1>10, <1>11, MemoryAssumption
<1>13. g.data \in [1 .. offset + Len(s.data) -> Byte]
  BY <1>10, <1>12
<1>14. g.data \in Seq(Byte) /\ Len(g.data) = offset + Len(s.data)
  BY <1>11, <1>13
<1>15. g.rights = s.rights
  BY <1>a
<1> QED
  BY <1>2, <1>3, <1>4, <1>6, <1>9, <1>10, <1>14, <1>15 DEF g, q, offset, InPage

\* A page cut from a segment is a page.
LEMMA SegmentPageType ==
  ASSUME NEW s \in SegmentInfo, Loadable(s), NEW t \in Tags(Aligned(s))
  PROVE  SegmentPage(Aligned(s), t) \in Page
<1> DEFINE g      == Aligned(s)
           source == (t - StartTag(g)) * PageSize
<1>1. /\ g.data \in Seq(Byte) /\ g.rights \in SUBSET Right
      /\ StartTag(g) \in Nat /\ EndTag(g) \in Int
  BY AlignedFacts
<1>2. t - StartTag(g) \in Nat
  BY <1>1 DEF Tags
<1>3. source \in Nat
  BY <1>2, Sizes
<1> HIDE DEF source
<1>4. \A i \in InPage : source + i < Len(g.data) => g.data[source + i + 1] \in Byte
  BY <1>1, <1>3, Sizes DEF InPage
<1> HIDE DEF g
<1> QED
  BY <1>1, <1>4, MemoryAssumption DEF SegmentPage, Page, g, source

\* add_segment maps pages that were not mapped and changes none that was.
LEMMA WithSegmentFacts ==
  ASSUME NEW segs, Table(segs), NEW s \in SegmentInfo, Loadable(s)
  PROVE  /\ Table(WithSegment(segs, Aligned(s)))
         /\ DOMAIN WithSegment(segs, Aligned(s)) =
              DOMAIN segs \cup Mappable(segs, Aligned(s))
         /\ \A t \in DOMAIN segs : WithSegment(segs, Aligned(s))[t] = segs[t]
         /\ \A t \in Mappable(segs, Aligned(s)) :
              /\ t \notin DOMAIN segs
              /\ WithSegment(segs, Aligned(s))[t] = SegmentPage(Aligned(s), t)
<1> DEFINE g == Aligned(s)
<1>1. StartTag(g) \in Nat /\ EndTag(g) \in Int
  BY AlignedFacts
<1>2. \A t \in Mappable(segs, g) : t \in Tags(g) /\ t \in Nat /\ t \notin DOMAIN segs
  BY <1>1 DEF Mappable, Tags
<1>3. \A t \in Mappable(segs, g) : SegmentPage(g, t) \in Page
  BY <1>2, SegmentPageType
<1>4. \A t \in DOMAIN segs : segs[t] \in Page
  BY DEF Table
<1> QED
  BY <1>2, <1>3, <1>4 DEF WithSegment, Table

\* Division by the page size is monotone.
LEMMA QuotientMonotone ==
  ASSUME NEW x \in Int, NEW y \in Int, x <= y
  PROVE  x \div PageSize <= y \div PageSize
<1> DEFINE p == x \div PageSize
           q == y \div PageSize
<1>1. /\ p \in Int /\ x % PageSize \in 0 .. PageSize - 1
      /\ x = p * PageSize + (x % PageSize)
  BY PageAndOffset DEF InPage
<1>2. /\ q \in Int /\ y % PageSize \in 0 .. PageSize - 1
      /\ y = q * PageSize + (y % PageSize)
  BY PageAndOffset DEF InPage
<1> HIDE DEF p, q
<1>3. SUFFICES ASSUME p > q PROVE FALSE
  BY <1>1, <1>2 DEF p, q
<1>4. PageSize * (q + 1) <= PageSize * p
  BY <1>1, <1>2, <1>3, Sizes, TimesMonotone
<1>5. PageSize * (q + 1) = q * PageSize + PageSize /\ PageSize * p = p * PageSize
  BY <1>1, <1>2, Sizes
<1>6. p * PageSize \in Int /\ q * PageSize \in Int
  BY <1>1, <1>2, Sizes
<1> QED
  BY <1>1, <1>2, <1>4, <1>5, <1>6, Sizes

\* The pages of a segment are those of its bytes, as far as the space reaches.
LEMMA CoveredPages ==
  ASSUME NEW s \in SegmentInfo, Loadable(s),
         NEW a \in s.vaddr .. s.vaddr + s.memsz - 1, a < AddrSpace
  PROVE  Tag(a) \in Tags(Aligned(s))
<1>1. s.vaddr \in Nat /\ s.memsz \in Nat
  BY Sizes DEF SegmentInfo, Space
<1>2. a \in Nat /\ U32(a) = a
  BY <1>1, Truncated
<1>3. Tag(a) = a \div PageSize /\ Tag(a) \in Int
  BY <1>2, AddressFacts DEF Tag
<1>4. s.vaddr \div PageSize <= a \div PageSize
  BY <1>1, <1>2, QuotientMonotone
<1>5. a \div PageSize <= (s.vaddr + s.memsz - 1) \div PageSize
  BY <1>1, <1>2, QuotientMonotone
<1>6. /\ StartTag(Aligned(s)) = s.vaddr \div PageSize
      /\ StartTag(Aligned(s)) \in Nat
      /\ EndTag(Aligned(s)) = (s.vaddr + s.memsz - 1) \div PageSize + 1
      /\ EndTag(Aligned(s)) \in Int
  BY AlignedFacts
<1>7. (s.vaddr + s.memsz - 1) \div PageSize \in Int
  BY <1>1, Sizes, PageAndOffset
<1> QED
  BY <1>3, <1>4, <1>5, <1>6, <1>7 DEF Tags

\* A segment that meets no page is mapped whole, with its rights.
LEMMA WholeSegment ==
  ASSUME NEW segs, Table(segs), NEW s \in SegmentInfo, Loadable(s),
         ~ Overlaps(segs, Aligned(s)), NEW t \in Tags(Aligned(s))
  PROVE  /\ t \in DOMAIN WithSegment(segs, Aligned(s))
         /\ WithSegment(segs, Aligned(s))[t].rights = s.rights
<1>1. t \in Mappable(segs, Aligned(s))
  BY DEF Overlaps, Mappable
<1>2. Aligned(s).rights = s.rights
  BY DEF Aligned
<1>3. /\ t \in DOMAIN WithSegment(segs, Aligned(s))
      /\ WithSegment(segs, Aligned(s))[t] = SegmentPage(Aligned(s), t)
  <2> DEFINE new == WithSegment(segs, Aligned(s))
  <2>1. /\ DOMAIN new = DOMAIN segs \cup Mappable(segs, Aligned(s))
        /\ \A u \in Mappable(segs, Aligned(s)) : new[u] = SegmentPage(Aligned(s), u)
    BY WithSegmentFacts
  <2> HIDE DEF new
  <2>2. t \in DOMAIN new /\ new[t] = SegmentPage(Aligned(s), t)
    BY <1>1, <2>1
  <2> QED
    BY <2>2 DEF new
<1>4. SegmentPage(Aligned(s), t).rights = Aligned(s).rights
  BY DEF SegmentPage
<1> QED
  BY <1>2, <1>3, <1>4

-----------------------------------------------------------------------------
(***************************************************************************)
(* The flat array of bytes behind a page table, BytesOf.                   *)
(***************************************************************************)

\* A byte's position in its page.
LEMMA Position ==
  ASSUME NEW b \in Space
  PROVE  /\ b \in Nat /\ U32(b) = b
         /\ Tag(b) \in 0 .. PageCount - 1
         /\ b - Tag(b) * PageSize \in InPage
<1>1. b \in Nat /\ b < AddrSpace
  BY Sizes DEF Space
<1> QED
  BY <1>1, Truncated, TagFacts

\* Creating a page changes no byte.
LEMMA GetSegBytes ==
  ASSUME NEW segs, Table(segs), NEW op \in Ops, NEW a \in Nat
  PROVE  BytesOf(GetSeg(segs, op, a)) = BytesOf(segs)
<1> DEFINE new == GetSeg(segs, op, a)
<1>1. /\ DOMAIN new = DOMAIN segs \cup {Tag(a)}
      /\ \A t \in DOMAIN segs : new[t] = segs[t]
      /\ Tag(a) \notin DOMAIN segs => new[Tag(a)] = ZeroPage(Need(op))
  <2>1. Grown(segs, GetSeg(segs, op, a), Tag(a), ZeroPage(Need(op)))
    BY GetSegFacts
  <2> QED
    BY <2>1 DEF Grown
<1> HIDE DEF new
<1>2. ASSUME NEW b \in Space
      PROVE  (IF Tag(b) \in DOMAIN new THEN new[Tag(b)].data[b - Tag(b) * PageSize]
              ELSE Zero) =
             (IF Tag(b) \in DOMAIN segs THEN segs[Tag(b)].data[b - Tag(b) * PageSize]
              ELSE Zero)
  <2>1. CASE Tag(b) \in DOMAIN new \ DOMAIN segs
    <3>1. new[Tag(b)].data = [i \in InPage |-> Zero]
      BY <1>1, <2>1 DEF ZeroPage
    <3> QED
      BY <2>1, <3>1, Position
  <2>2. CASE Tag(b) \notin DOMAIN new \ DOMAIN segs
    BY <1>1, <2>2
  <2> QED
    BY <2>1, <2>2
<1> QED
  BY <1>2 DEF BytesOf, new

\* Nor does mapping a segment of zeros.
LEMMA ZeroSegmentBytes ==
  ASSUME NEW segs, Table(segs), NEW s \in SegmentInfo, Loadable(s),
         \A k \in 1 .. Len(s.data) : s.data[k] = Zero
  PROVE  BytesOf(WithSegment(segs, Aligned(s))) = BytesOf(segs)
<1> DEFINE g      == Aligned(s)
           new    == WithSegment(segs, g)
           offset == s.vaddr % PageSize
<1>1. /\ DOMAIN new = DOMAIN segs \cup Mappable(segs, g)
      /\ \A t \in DOMAIN segs : new[t] = segs[t]
      /\ \A t \in Mappable(segs, g) :
           t \notin DOMAIN segs /\ new[t] = SegmentPage(g, t)
  BY WithSegmentFacts
<1>s. Len(s.data) \in Nat
  BY DEF SegmentInfo
<1>2. /\ offset \in InPage /\ StartTag(g) \in Nat
      /\ Len(g.data) = offset + Len(s.data)
      /\ \A k \in 1 .. offset + Len(s.data) :
           g.data[k] = IF k <= offset THEN Zero ELSE s.data[k - offset]
  BY AlignedFacts
<1> HIDE DEF offset, g, new
<1>o. offset \in Nat
  BY <1>2, Sizes DEF InPage
<1>3. \A k \in 1 .. Len(g.data) : g.data[k] = Zero
  <2>1. SUFFICES ASSUME NEW k \in 1 .. Len(g.data) PROVE g.data[k] = Zero
    OBVIOUS
  <2>2. k \in 1 .. offset + Len(s.data)
    BY <1>2, <2>1
  <2>3. k > offset => k - offset \in 1 .. Len(s.data)
    BY <1>s, <1>o, <1>2, <2>2
  <2>4. k <= offset \/ k > offset
    BY <1>s, <1>o, <1>2, <2>2
  <2> QED
    BY <1>2, <2>2, <2>3, <2>4
<1>4. ASSUME NEW b \in Space
      PROVE  BytesOf(new)[b] = BytesOf(segs)[b]
  <2> DEFINE t      == Tag(b)
             pos    == b - t * PageSize
             source == (t - StartTag(g)) * PageSize
  <2>1. t \in Nat /\ pos \in InPage
    BY Position, Sizes
  <2>2. CASE t \in Mappable(segs, g)
    <3>1. BytesOf(new)[b] = SegmentPage(g, t).data[pos] /\ BytesOf(segs)[b] = Zero
      BY <1>1, <2>2 DEF BytesOf
    <3>2. t - StartTag(g) \in Nat
      BY <1>2, <2>1, <2>2 DEF Mappable, Tags
    <3>3. source \in Nat
      BY <3>2, Sizes
    <3> HIDE DEF source, pos
    <3>4. source + pos < Len(g.data) => g.data[source + pos + 1] = Zero
      BY <1>s, <1>o, <1>2, <1>3, <2>1, <3>3, Sizes DEF InPage
    <3>5. SegmentPage(g, t).data[pos] =
            IF source + pos < Len(g.data) THEN g.data[source + pos + 1] ELSE Zero
      BY <2>1 DEF SegmentPage, source
    <3> QED
      BY <3>1, <3>4, <3>5 DEF pos
  <2>3. CASE t \notin Mappable(segs, g)
    BY <1>1, <2>3 DEF BytesOf
  <2> QED
    BY <2>2, <2>3
<1>5. BytesOf(new) = [b \in Space |-> BytesOf(new)[b]]
      /\ BytesOf(segs) = [b \in Space |-> BytesOf(segs)[b]]
  BY DEF BytesOf
<1> QED
  BY <1>4, <1>5 DEF new, g

\* The pages of a segment that ends within the space, by the addresses in them.
LEMMA SegmentTags ==
  ASSUME NEW s \in SegmentInfo, Loadable(s), s.vaddr + s.memsz <= AddrSpace
  PROVE  Tags(Aligned(s)) =
           {Tag(a) : a \in s.vaddr - (s.vaddr % PageSize) .. s.vaddr + s.memsz - 1}
<1> DEFINE v      == s.vaddr
           offset == v % PageSize
           start  == StartTag(Aligned(s))
           last   == (v + s.memsz - 1) \div PageSize
<1>1. v \in Nat /\ v < AddrSpace /\ s.memsz \in Nat /\ PageSize \in Nat /\ PageSize >= 4
      /\ AddrSpace \in Nat
  BY Sizes DEF SegmentInfo, Space
<1>2. /\ offset \in 0 .. PageSize - 1 /\ v = start * PageSize + offset /\ start \in Nat
      /\ EndTag(Aligned(s)) = last + 1
  BY AlignedFacts DEF InPage
<1>3. last \in Int /\ v + s.memsz - 1 \in Int
  BY <1>1, PageAndOffset
<1>4. /\ v + s.memsz - 1 = last * PageSize + ((v + s.memsz - 1) % PageSize)
      /\ (v + s.memsz - 1) % PageSize \in 0 .. PageSize - 1
  BY <1>3, PageAndOffset DEF InPage
<1>5. Tags(Aligned(s)) = start .. last
  BY <1>2, <1>3 DEF Tags
<1> HIDE DEF v, offset, start, last
<1>6. start * PageSize \in Nat
  BY <1>1, <1>2
<1>7. ASSUME NEW a \in v - offset .. v + s.memsz - 1
      PROVE  Tag(a) \in start .. last
  <2>1. a \in Nat /\ a < AddrSpace /\ U32(a) = a /\ start * PageSize <= a
    <3>1. a \in Nat /\ a < AddrSpace /\ start * PageSize <= a
      <4>1. v + s.memsz <= AddrSpace
        BY DEF v
      <4> QED
        BY <1>1, <1>2, <1>3, <1>6, <4>1
    <3> QED
      BY <3>1, Truncated
  <2>2. Tag(a) = a \div PageSize /\ Tag(a) \in Int
    BY <2>1, AddressFacts DEF Tag
  <2>3. a \div PageSize <= last
    BY <1>3, <2>1, QuotientMonotone DEF last
  <2>4. (start * PageSize) \div PageSize = start
    BY <1>1, <1>2, <1>6, QuotientIsUnique
  <2>5. start <= a \div PageSize
    BY <1>6, <2>1, <2>4, QuotientMonotone
  <2> QED
    BY <1>2, <1>3, <2>2, <2>3, <2>5
<1>8. ASSUME NEW t \in start .. last
      PROVE  \E a \in v - offset .. v + s.memsz - 1 : Tag(a) = t
  <2> DEFINE a == t * PageSize
  <2>1. t \in Nat /\ a \in Nat
    BY <1>1, <1>2, <1>3
  <2>2. PageSize * start <= PageSize * t /\ PageSize * t <= PageSize * last
    BY <1>1, <1>2, <1>3, <2>1, TimesMonotone
  <2>3. start * PageSize <= a /\ a <= last * PageSize /\ last * PageSize \in Int
    BY <1>1, <1>2, <1>3, <2>1, <2>2
  <2>4. a \in v - offset .. v + s.memsz - 1
    <3> HIDE DEF a
    <3> QED
      BY <1>1, <1>2, <1>3, <1>4, <1>6, <2>1, <2>3
  <2>5. a < AddrSpace
    <3>1. v + s.memsz <= AddrSpace
      BY DEF v
    <3> HIDE DEF a
    <3> QED
      BY <1>1, <2>1, <2>4, <3>1
  <2>6. Tag(a) = t
    <3>1. a \in Space /\ a = t * PageSize + 0 /\ 0 \in InPage
      BY <1>1, <2>1, <2>5 DEF Space, InPage
    <3> QED
      BY <2>1, <3>1, SamePage
  <2> QED
    BY <2>4, <2>6
<1> QED
  BY <1>5, <1>7, <1>8 DEF v, offset

\* A mapped segment has its data at its addresses, and zeros after them.
LEMMA SegmentBytes ==
  ASSUME NEW s \in SegmentInfo, Loadable(s),
         NEW b \in s.vaddr .. s.vaddr + s.memsz - 1, b < AddrSpace
  PROVE  SegmentPage(Aligned(s), Tag(b)).data[b - Tag(b) * PageSize] =
           IF b - s.vaddr < Len(s.data) THEN s.data[b - s.vaddr + 1] ELSE Zero
<1> DEFINE g      == Aligned(s)
           offset == s.vaddr % PageSize
           start  == StartTag(g)
           first  == start * PageSize
           t      == Tag(b)
           pos    == b - t * PageSize
           source == (t - start) * PageSize
           i      == b - s.vaddr
<1>1. /\ s.vaddr \in Nat /\ s.memsz \in Nat /\ Len(s.data) \in Nat
      /\ b \in Nat /\ b \in Space
  BY Sizes DEF SegmentInfo, Space
<1>2. /\ offset \in 0 .. PageSize - 1 /\ start \in Nat /\ s.vaddr = first + offset
      /\ Len(g.data) = offset + Len(s.data)
      /\ \A k \in 1 .. offset + Len(s.data) :
           g.data[k] = IF k <= offset THEN Zero ELSE s.data[k - offset]
  BY AlignedFacts DEF InPage
<1>3. t \in Tags(g) /\ t \in 0 .. PageCount - 1 /\ pos \in InPage
  BY <1>1, CoveredPages, Position
<1>4. i \in Nat /\ b = s.vaddr + i
  BY <1>1
<1> HIDE DEF g, offset, start, i
<1>5. t - start \in Nat /\ t \in Nat
  <2> HIDE DEF t, pos
  <2> QED
    BY <1>2, <1>3, Sizes DEF Tags, start
<1>6. SegmentPage(g, t).data[pos] =
        IF source + pos < Len(g.data) THEN g.data[source + pos + 1] ELSE Zero
  BY <1>3 DEF SegmentPage, start
<1>7. source + pos = offset + i
  <2> DEFINE x == t * PageSize
  <2>1. source = x - first /\ source \in Nat /\ x \in Nat /\ first \in Nat
    <3> HIDE DEF t
    <3>1. /\ (t - start) * PageSize \in Nat
          /\ (t - start) * PageSize = t * PageSize - start * PageSize
          /\ t * PageSize \in Nat /\ start * PageSize \in Nat
      BY <1>2, <1>5, Sizes, TimesDistributes
    <3> QED
      BY <3>1
  <2>2. pos = b - x
    OBVIOUS
  <2>3. offset \in Nat
    BY <1>2, Sizes
  <2> HIDE DEF x, first, source, pos
  <2> QED
    BY <1>1, <1>2, <1>4, <2>1, <2>2, <2>3
<1> HIDE DEF source, t, pos, first
<1>8. offset \in Nat
  BY <1>2, Sizes
<1>9. CASE i < Len(s.data)
  <2>1. g.data[offset + i + 1] = s.data[i + 1]
    <3> DEFINE k == offset + i + 1
    <3>1. k \in 1 .. offset + Len(s.data) /\ ~ (k <= offset) /\ k - offset = i + 1
      BY <1>1, <1>4, <1>8, <1>9
    <3> HIDE DEF k
    <3>2. g.data[k] = s.data[k - offset]
      BY <1>2, <3>1
    <3>3. g.data[k] = s.data[i + 1]
      BY <3>1, <3>2
    <3> QED
      BY <3>3 DEF k
  <2>2. offset + i < offset + Len(s.data)
    BY <1>1, <1>4, <1>8, <1>9
  <2>3. SegmentPage(g, t).data[pos] = s.data[i + 1]
    BY <1>2, <1>6, <1>7, <2>1, <2>2
  <2> QED
    BY <1>9, <2>3 DEF t, pos, g, i
<1>10. CASE ~ (i < Len(s.data))
  <2>1. ~ (offset + i < offset + Len(s.data))
    BY <1>1, <1>4, <1>8, <1>10
  <2>2. SegmentPage(g, t).data[pos] = Zero
    BY <1>2, <1>6, <1>7, <2>1
  <2> QED
    BY <1>10, <2>2 DEF t, pos, g, i
<1> QED
  BY <1>9, <1>10

-----------------------------------------------------------------------------
(***************************************************************************)
(* Loads and stores on the flat array of bytes behind a page table.        *)
(***************************************************************************)

\* The bytes an accessor accepts are consecutive bytes of the space, in the
\* page of its address, at the offset it computes.
LEMMA AcceptedBytes ==
  ASSUME NEW op \in Ops, NEW a \in Nat, Offset(op, a) + Width(op) <= PageSize,
         NEW i \in 0 .. Width(op) - 1
  PROVE  /\ U32(a) + i \in Space
         /\ Tag(U32(a) + i) = Tag(a)
         /\ (U32(a) + i) - Tag(a) * PageSize = Offset(op, a) + i
         /\ Offset(op, a) + i \in InPage
<1> DEFINE start == Tag(a) * PageSize
<1>1. /\ Width(op) \in 1 .. 4 /\ Offset(op, a) \in Nat
      /\ Offset(op, a) = U32(a) - start
  BY OffsetFacts
<1>2. Tag(a) \in 0 .. PageCount - 1 /\ start \in Nat /\ U32(a) \in Nat
  BY TagFacts, Truncated, Sizes DEF Space
<1>3. Offset(op, a) + i \in 0 .. PageSize - 1
  BY <1>1, Sizes
<1>4. U32(a) + i = start + (Offset(op, a) + i)
  BY <1>1, <1>2
<1>5. start + PageSize <= AddrSpace
  <2>1. PageSize * (Tag(a) + 1) <= PageSize * PageCount
    BY <1>2, Sizes, TimesMonotone
  <2> QED
    BY <1>2, <2>1, Sizes DEF AddrSpace
<1>6. U32(a) + i \in Space
  BY <1>2, <1>3, <1>4, <1>5, Sizes DEF Space
<1>7. Tag(U32(a) + i) = Tag(a)
  BY <1>2, <1>3, <1>4, <1>6, SamePage, Sizes DEF InPage
<1> QED
  BY <1>1, <1>2, <1>3, <1>4, <1>6, <1>7 DEF InPage

\* A load returns the bytes at its address.
LEMMA ValueBytes ==
  ASSUME NEW segs, Table(segs), NEW op \in Ops, NEW a \in Nat,
         Tag(a) \in DOMAIN segs, OutcomeIn(segs, op, a) = "ok"
  PROVE  ValueAt(segs, op, a) =
           [i \in 0 .. Width(op) - 1 |-> BytesOf(segs)[U32(a) + i]]
<1>1. Offset(op, a) + Width(op) <= PageSize
  BY OutcomeFacts
<1>2. ASSUME NEW i \in 0 .. Width(op) - 1
      PROVE  BytesOf(segs)[U32(a) + i] = segs[Tag(a)].data[Offset(op, a) + i]
  <2> DEFINE b == U32(a) + i
  <2>1. b \in Space /\ Tag(b) = Tag(a) /\ b - Tag(a) * PageSize = Offset(op, a) + i
    BY <1>1, AcceptedBytes
  <2> HIDE DEF b
  <2>2. BytesOf(segs)[b] = segs[Tag(a)].data[Offset(op, a) + i]
    BY <2>1 DEF BytesOf
  <2> QED
    BY <2>2 DEF b
<1> QED
  BY <1>2 DEF ValueAt

\* The flat memory after a store.
Stored(bytes, op, a, val) ==
  [b \in Space |-> IF b - U32(a) \in 0 .. Width(op) - 1 THEN val[b - U32(a)] ELSE bytes[b]]

\* A store changes the bytes at its address, and no other.
LEMMA WrittenBytes ==
  ASSUME NEW segs, Table(segs), NEW op \in Ops, NEW a \in Nat,
         Tag(a) \in DOMAIN segs, OutcomeIn(segs, op, a) = "ok",
         NEW val, Supplies(val, op)
  PROVE  BytesOf(Written(segs, op, a, val)) = Stored(BytesOf(segs), op, a, val)
<1> DEFINE new == Written(segs, op, a, val)
<1>1. Offset(op, a) + Width(op) <= PageSize
  BY OutcomeFacts
<1>2. /\ Width(op) \in 1 .. 4 /\ Offset(op, a) \in Nat
      /\ Offset(op, a) = U32(a) - Tag(a) * PageSize
  BY <1>1, OffsetFacts
<1>a. U32(a) \in Nat /\ Tag(a) * PageSize \in Nat
  BY AddressFacts
<1>3. DOMAIN new = DOMAIN segs /\ \A t \in DOMAIN segs : t # Tag(a) => new[t] = segs[t]
  BY WrittenPages
<1>4. ASSUME NEW b \in Space
      PROVE  BytesOf(new)[b] = IF b - U32(a) \in 0 .. Width(op) - 1
                               THEN val[b - U32(a)] ELSE BytesOf(segs)[b]
  <2> DEFINE pos == b - Tag(b) * PageSize
  <2>1. b \in Nat /\ pos \in InPage
    BY Position
  <2>2. CASE Tag(b) = Tag(a)
    <3>1. pos - Offset(op, a) = b - U32(a)
      BY <1>2, <1>a, <2>1, <2>2 DEF InPage
    <3>2. new[Tag(a)].data[pos] = IF pos - Offset(op, a) \in 0 .. Width(op) - 1
                                  THEN val[pos - Offset(op, a)]
                                  ELSE segs[Tag(a)].data[pos]
      <4> HIDE DEF pos
      <4> QED
        BY <1>2, <2>1, WrittenData
    <3>3. BytesOf(new)[b] = new[Tag(a)].data[pos]
      BY <1>3, <2>2 DEF BytesOf
    <3>4. BytesOf(segs)[b] = segs[Tag(a)].data[pos]
      BY <2>2 DEF BytesOf
    <3> QED
      BY <3>1, <3>2, <3>3, <3>4
  <2>3. CASE Tag(b) # Tag(a)
    <3>1. b - U32(a) \notin 0 .. Width(op) - 1
      <4>1. SUFFICES ASSUME b - U32(a) \in 0 .. Width(op) - 1 PROVE FALSE
        OBVIOUS
      <4>2. b = U32(a) + (b - U32(a))
        BY <1>a, <2>1
      <4> QED
        BY <1>1, <2>3, <4>1, <4>2, AcceptedBytes
    <3>2. BytesOf(new)[b] = BytesOf(segs)[b]
      BY <1>3, <2>3 DEF BytesOf
    <3> QED
      BY <3>1, <3>2
  <2> QED
    BY <2>2, <2>3
<1>5. BytesOf(new) = [b \in Space |-> BytesOf(new)[b]]
  BY DEF BytesOf
<1> QED
  BY <1>4, <1>5 DEF Stored
=============================================================================
