---------------------------- MODULE MEM32_proofs ----------------------------
(***************************************************************************)
(* Proofs about MEM32, for every size of page and of address space, every  *)
(* alphabet of bytes and every set of addresses, values and segments that  *)
(* MemoryAssumption allows.                                                *)
(***************************************************************************)
EXTENDS MEM32, SegmentTable_proofs

-----------------------------------------------------------------------------
(***************************************************************************)
(* Invariants.  LazyPagesAreOneWay is inductive only with the rights that  *)
(* get_seg gives a page it creates: those of one kind of access, so that a *)
(* page that may be written may not be read.                               *)
(***************************************************************************)
LazyRights == \A t \in DOMAIN segments \ loaded : \E op \in Ops : segments[t].rights = Need(op)

IInv == TypeOK /\ LazyRights /\ LazyPagesAreOneWay

\* A step is a load, a store or an add_segment.
LEMMA NextCases ==
  ASSUME Next
  PROVE  \/ \E op \in Reads, a \in Addr : Load(op, a)
         \/ \E op \in Writes, a \in Addr, w \in Word : Store(op, a, Low(w, Width(op)))
         \/ \E s \in SegmentInfos : AddSegment(s)
<1>1. ASSUME NEW a \in Addr, Read8(a) \/ Read16(a) \/ Read32(a) \/ ReadInstr32(a)
      PROVE  \E op \in Reads : Load(op, a)
  BY <1>1 DEF Read8, Read16, Read32, ReadInstr32, Reads
<1>2. ASSUME NEW a \in Addr, NEW w \in Word, Write8(a, w) \/ Write16(a, w) \/ Write32(a, w)
      PROVE  \E op \in Writes : Store(op, a, Low(w, Width(op)))
  <2>1. Width("write8") = 1 /\ Width("write16") = 2 /\ Width("write32") = 4
    BY DEF Width
  <2> QED
    BY <1>2, <2>1 DEF Write8, Write16, Write32, Writes
<1> QED
  BY <1>1, <1>2 DEF Next

\* The low bytes of a word.
LEMMA LowType ==
  ASSUME NEW op \in Ops, NEW w \in Word
  PROVE  Low(w, Width(op)) \in [0 .. Width(op) - 1 -> Byte]
<1>1. w \in [0 .. 3 -> Byte] /\ Width(op) \in 1 .. 4
  BY OffsetFacts, MemoryAssumption
<1>2. \A i \in 0 .. Width(op) - 1 : w[i] \in Byte
  BY <1>1
<1> QED
  BY <1>2 DEF Low

\* What an access answers is a reply.
LEMMA ReplyType ==
  ASSUME NEW op \in Ops, NEW res \in AccessFaults \cup {"ok"},
         NEW val \in [0 .. Width(op) - 1 -> Byte]
  PROVE  /\ Loaded(val) \in Reply
         /\ [outcome |-> res, value |-> <<>>] \in Reply
<1>1. Width(op) \in {1, 2, 4}
  BY DEF Width
<1>2. Loaded(val) \in Reply
  BY <1>1 DEF Reply
<1>3. CASE res = "ok"
  BY <1>2, <1>3 DEF Reply, Done
<1>4. CASE res \in AccessFaults
  BY <1>2, <1>4 DEF Reply, Fault
<1> QED
  BY <1>2, <1>3, <1>4

\* The initial state satisfies the invariant.
LEMMA InitIInv == Init => IInv
<1> SUFFICES ASSUME Init PROVE IInv
  OBVIOUS
<1>1. DOMAIN segments = {} /\ segments \in [DOMAIN segments -> Page]
  BY DEF Init
<1>2. TypeOK
  BY <1>1 DEF Init, TypeOK, Reply
<1> QED
  BY <1>1, <1>2 DEF IInv, LazyRights, LazyPagesAreOneWay

\* Pages that get_seg adds to the table are as the invariant says.
LEMMA GetSegIInv ==
  ASSUME IInv, NEW op \in Ops, NEW a \in Nat
  PROVE  LET segs == GetSeg(segments, op, a)
         IN /\ Table(segs)
            /\ loaded \subseteq DOMAIN segs
            /\ \A t \in DOMAIN segs \ loaded :
                 /\ \E o \in Ops : segs[t].rights = Need(o)
                 /\ "r" \in segs[t].rights => segs[t].data = [i \in InPage |-> Zero]
<1> DEFINE segs == GetSeg(segments, op, a)
<1>1. Table(segments) /\ loaded \subseteq DOMAIN segments
  BY DEF IInv, TypeOK, Table
<1>2. /\ Table(segs)
      /\ DOMAIN segs = DOMAIN segments \cup {Tag(a)}
      /\ \A t \in DOMAIN segments : segs[t] = segments[t]
      /\ Tag(a) \notin DOMAIN segments => segs[Tag(a)] = ZeroPage(Need(op))
  <2>1. Grown(segments, GetSeg(segments, op, a), Tag(a), ZeroPage(Need(op)))
    BY <1>1, GetSegFacts
  <2> QED
    BY <1>1, <2>1 DEF Grown
<1>3. ASSUME NEW t \in DOMAIN segs \ loaded
      PROVE  /\ \E o \in Ops : segs[t].rights = Need(o)
             /\ "r" \in segs[t].rights => segs[t].data = [i \in InPage |-> Zero]
  <2>1. CASE t \in DOMAIN segments
    BY <1>2, <1>3, <2>1 DEF IInv, LazyRights, LazyPagesAreOneWay
  <2>2. CASE t \notin DOMAIN segments
    BY <1>2, <1>3, <2>2 DEF ZeroPage
  <2> QED
    BY <2>1, <2>2
<1> QED
  BY <1>1, <1>2, <1>3

\* A load preserves the invariant.
LEMMA LoadIInv ==
  ASSUME IInv, NEW op \in Reads, NEW a \in Addr, Load(op, a)
  PROVE  IInv'
<1> DEFINE segs == GetSeg(segments, op, a)
           res  == OutcomeIn(segs, op, a)
<1>1. op \in Ops /\ a \in Nat
  BY MemoryAssumption DEF Ops
<1>2. segments' = segs /\ loaded' = loaded
  BY DEF Load
<1>3. reply' = IF res = "ok" THEN Loaded(ValueAt(segs, op, a)) ELSE Fault(res)
  BY DEF Load
<1>4. /\ Table(segs) /\ loaded \subseteq DOMAIN segs
      /\ \A t \in DOMAIN segs \ loaded :
           /\ \E o \in Ops : segs[t].rights = Need(o)
           /\ "r" \in segs[t].rights => segs[t].data = [i \in InPage |-> Zero]
  BY <1>1, GetSegIInv
<1>5. res \in AccessFaults \cup {"ok"}
  BY <1>1, OutcomeFacts
<1>6. Tag(a) \in DOMAIN segs
  <2>0. Table(segments)
    BY DEF IInv, TypeOK, Table
  <2>1. Grown(segments, GetSeg(segments, op, a), Tag(a), ZeroPage(Need(op)))
    BY <2>0, <1>1, GetSegFacts
  <2> QED
    BY <1>1, <2>1 DEF Grown
<1> HIDE DEF segs, res
<1>7. reply' \in Reply
  <2>1. CASE res = "ok"
    <3>1. ValueAt(segs, op, a) \in [0 .. Width(op) - 1 -> Byte]
      BY <1>1, <1>4, <1>6, <2>1, ValueType DEF res
    <3> QED
      BY <1>1, <1>3, <1>5, <2>1, <3>1, ReplyType
  <2>2. CASE res # "ok"
    BY <1>3, <1>5, <2>2 DEF Reply
  <2> QED
    BY <2>1, <2>2
<1>8. TypeOK'
  BY <1>2, <1>4, <1>7 DEF TypeOK, Table
<1>9. LazyRights' /\ LazyPagesAreOneWay'
  BY <1>2, <1>4 DEF LazyRights, LazyPagesAreOneWay
<1> QED
  BY <1>8, <1>9 DEF IInv

\* A store preserves the invariant: a lazy page it may write may not be read.
LEMMA StoreIInv ==
  ASSUME IInv, NEW op \in Writes, NEW a \in Addr, NEW w \in Word,
         Store(op, a, Low(w, Width(op)))
  PROVE  IInv'
<1> DEFINE segs == GetSeg(segments, op, a)
           res  == OutcomeIn(segs, op, a)
           val  == Low(w, Width(op))
<1>1. op \in Ops /\ a \in Nat
  BY MemoryAssumption DEF Ops
<1>2. segments' = (IF res = "ok" THEN Written(segs, op, a, val) ELSE segs)
      /\ loaded' = loaded /\ reply' = [outcome |-> res, value |-> <<>>]
  BY DEF Store
<1>3. val \in [0 .. Width(op) - 1 -> Byte]
  BY <1>1, LowType
<1>4. /\ Table(segs) /\ loaded \subseteq DOMAIN segs
      /\ \A t \in DOMAIN segs \ loaded :
           /\ \E o \in Ops : segs[t].rights = Need(o)
           /\ "r" \in segs[t].rights => segs[t].data = [i \in InPage |-> Zero]
  BY <1>1, GetSegIInv
<1>5. res \in AccessFaults \cup {"ok"}
  BY <1>1, OutcomeFacts
<1>6. Tag(a) \in DOMAIN segs
  <2>0. Table(segments)
    BY DEF IInv, TypeOK, Table
  <2>1. Grown(segments, GetSeg(segments, op, a), Tag(a), ZeroPage(Need(op)))
    BY <2>0, <1>1, GetSegFacts
  <2> QED
    BY <1>1, <2>1 DEF Grown
<1>7. res = "ok" => "w" \in segs[Tag(a)].rights
  <2>1. Need(op) = {"w"}
    BY DEF Need, Writes
  <2> QED
    BY <1>1, <2>1, OutcomeFacts DEF Permitted
<1> HIDE DEF segs, res, val
<1>8. reply' \in Reply
  BY <1>1, <1>2, <1>3, <1>5, ReplyType
<1>9. CASE res # "ok"
  <2>1. TypeOK'
    BY <1>2, <1>4, <1>8, <1>9 DEF TypeOK, Table
  <2>2. LazyRights' /\ LazyPagesAreOneWay'
    BY <1>2, <1>4, <1>9 DEF LazyRights, LazyPagesAreOneWay
  <2> QED
    BY <2>1, <2>2 DEF IInv
<1>10. CASE res = "ok"
  <2> DEFINE new == Written(segs, op, a, val)
  <2>1. /\ Table(new) /\ DOMAIN new = DOMAIN segs
        /\ \A t \in DOMAIN segs : /\ new[t].rights = segs[t].rights
                                  /\ t # Tag(a) => new[t] = segs[t]
    <3>1. Table(segs)
      BY <1>4
    <3> QED
      BY <1>1, <1>3, <1>6, <3>1, WrittenFacts
  <2>2. segments' = new
    BY <1>2, <1>10
  <2> HIDE DEF new
  <2>3. TypeOK'
    BY <1>2, <1>4, <1>8, <2>1, <2>2 DEF TypeOK, Table
  <2>4. LazyRights'
    BY <1>2, <1>4, <2>1, <2>2 DEF LazyRights
  <2>5. ASSUME NEW t \in DOMAIN new \ loaded, "r" \in new[t].rights
        PROVE  new[t].data = [i \in InPage |-> Zero]
    <3>1. t # Tag(a)
      <4>1. \A o \in Ops : ~ ({"r", "w"} \subseteq Need(o))
        BY DEF Need
      <4> QED
        BY <1>4, <1>6, <1>7, <1>10, <2>1, <2>5, <4>1
    <3> QED
      BY <1>4, <2>1, <2>5, <3>1
  <2>6. LazyPagesAreOneWay'
    BY <1>2, <2>2, <2>5 DEF LazyPagesAreOneWay
  <2> QED
    BY <2>3, <2>4, <2>6 DEF IInv
<1> QED
  BY <1>9, <1>10

\* Adding a segment preserves the invariant: it maps no lazy page.
LEMMA AddSegmentIInv ==
  ASSUME IInv, NEW s \in SegmentInfos, AddSegment(s)
  PROVE  IInv'
<1> DEFINE g   == Aligned(s)
           new == WithSegment(segments, g)
<1>1. Table(segments) /\ loaded \subseteq DOMAIN segments
  BY DEF IInv, TypeOK, Table
<1>2. /\ segments' = new
      /\ loaded' = loaded \cup Mappable(segments, g)
      /\ reply' = IF Overlaps(segments, g) THEN Fault("SegmentOverlap") ELSE Done
  BY DEF AddSegment
<1>3. /\ Table(new)
      /\ DOMAIN new = DOMAIN segments \cup Mappable(segments, g)
      /\ \A t \in DOMAIN segments : new[t] = segments[t]
  BY <1>1, WithSegmentFacts, MemoryAssumption
<1> HIDE DEF g, new
<1>4. reply' \in Reply
  BY <1>2 DEF Reply
<1>5. TypeOK'
  BY <1>1, <1>2, <1>3, <1>4 DEF TypeOK, Table
<1>6. \A t \in DOMAIN segments' \ loaded' :
        t \in DOMAIN segments \ loaded /\ segments'[t] = segments[t]
  BY <1>2, <1>3
<1>7. LazyRights' /\ LazyPagesAreOneWay'
  BY <1>6 DEF IInv, LazyRights, LazyPagesAreOneWay
<1> QED
  BY <1>5, <1>7 DEF IInv

\* Every step preserves the invariant.
LEMMA NextIInv == IInv /\ [Next]_vars => IInv'
<1> SUFFICES ASSUME IInv, [Next]_vars PROVE IInv'
  OBVIOUS
<1>1. CASE Next
  BY <1>1, NextCases, LoadIInv, StoreIInv, AddSegmentIInv
<1>2. CASE UNCHANGED vars
  BY <1>2 DEF vars, IInv, TypeOK, LazyRights, LazyPagesAreOneWay
<1> QED
  BY <1>1, <1>2

\* The invariant holds in every reachable state.
THEOREM Invariance == Spec => []IInv
  BY InitIInv, NextIInv, PTL DEF Spec

\* The page table is always well formed: tags map to whole pages of bytes, and
\* every accessor and add_segment answers as its signature says.
THEOREM TypeCorrect == Spec => []TypeOK
<1>1. IInv => TypeOK
  BY DEF IInv
<1> QED
  BY <1>1, Invariance, PTL

\* What a program stores in a page that no segment maps can never be loaded
\* back: a page created by its first access (create_page) is one-way.
THEOREM LazyPagesOneWay == Spec => []LazyPagesAreOneWay
<1>1. IInv => LazyPagesAreOneWay
  BY DEF IInv
<1> QED
  BY <1>1, Invariance, PTL

-----------------------------------------------------------------------------
(***************************************************************************)
(* What a step may never do to a page.                                     *)
(***************************************************************************)

\* A mapped page stays mapped with its rights, and with its data unless it may
\* be written.
LEMMA PagesKept ==
  ASSUME IInv, Next, NEW t \in DOMAIN segments
  PROVE  /\ t \in DOMAIN segments'
         /\ segments'[t].rights = segments[t].rights
         /\ "w" \notin segments[t].rights => segments'[t].data = segments[t].data
<1>1. Table(segments)
  BY DEF IInv, TypeOK, Table
<1>2. ASSUME NEW op \in Reads, NEW a \in Addr, Load(op, a)
      PROVE  t \in DOMAIN segments' /\ segments'[t] = segments[t]
  <2>1. op \in Ops /\ a \in Nat
    BY MemoryAssumption DEF Ops
  <2>2. segments' = GetSeg(segments, op, a)
    BY <1>2 DEF Load
  <2> QED
    <3>1. Grown(segments, GetSeg(segments, op, a), Tag(a), ZeroPage(Need(op)))
      BY <1>1, <2>1, <2>2, GetSegFacts
    <3> QED
      BY <1>1, <2>1, <2>2, <3>1 DEF Grown
<1>3. ASSUME NEW op \in Writes, NEW a \in Addr, NEW w \in Word,
             Store(op, a, Low(w, Width(op)))
      PROVE  /\ t \in DOMAIN segments'
             /\ segments'[t].rights = segments[t].rights
             /\ "w" \notin segments[t].rights => segments'[t].data = segments[t].data
  <2> DEFINE segs == GetSeg(segments, op, a)
             val  == Low(w, Width(op))
             res  == OutcomeIn(segs, op, a)
  <2>1. op \in Ops /\ a \in Nat
    BY MemoryAssumption DEF Ops
  <2>2. /\ Table(segs) /\ Tag(a) \in DOMAIN segs
        /\ t \in DOMAIN segs /\ segs[t] = segments[t]
    <3>1. /\ Table(segs)
          /\ DOMAIN segs = DOMAIN segments \cup {Tag(a)}
          /\ \A u \in DOMAIN segments : segs[u] = segments[u]
      <4>1. Grown(segments, GetSeg(segments, op, a), Tag(a), ZeroPage(Need(op)))
        BY <1>1, <2>1, GetSegFacts
      <4> QED
        BY <1>1, <2>1, <4>1 DEF Grown
    <3> QED
      BY <3>1
  <2>3. segments' = IF res = "ok" THEN Written(segs, op, a, val) ELSE segs
    BY <1>3 DEF Store
  <2>4. CASE res # "ok"
    BY <2>2, <2>3, <2>4
  <2>5. CASE res = "ok"
    <3>1. val \in [0 .. Width(op) - 1 -> Byte]
      BY <2>1, LowType
    <3>2. "w" \in segs[Tag(a)].rights
      <4>1. Need(op) = {"w"}
        BY DEF Need, Writes
      <4> QED
        BY <2>1, <2>5, <4>1, OutcomeFacts DEF Permitted
    <3> HIDE DEF segs, val, res
    <3>3. /\ t \in DOMAIN Written(segs, op, a, val)
          /\ Written(segs, op, a, val)[t].rights = segs[t].rights
          /\ t # Tag(a) => Written(segs, op, a, val)[t] = segs[t]
      BY <2>1, <2>2, <3>1, WrittenFacts
    <3> QED
      BY <2>2, <2>3, <2>5, <3>2, <3>3
  <2> QED
    BY <2>4, <2>5
<1>4. ASSUME NEW s \in SegmentInfos, AddSegment(s)
      PROVE  t \in DOMAIN segments' /\ segments'[t] = segments[t]
  <2>1. segments' = WithSegment(segments, Aligned(s))
    BY <1>4 DEF AddSegment
  <2> QED
    BY <1>1, <2>1, WithSegmentFacts, MemoryAssumption
<1> QED
  BY <1>2, <1>3, <1>4, NextCases

\* A page is never unmapped and never changes its rights.
THEOREM RightsForever == Spec => RightsAreForever
<1>1. IInv /\ [Next]_vars =>
        [\A t \in DOMAIN segments :
           t \in DOMAIN segments' /\ segments'[t].rights = segments[t].rights]_vars
  BY PagesKept
<1> QED
  BY <1>1, Invariance, PTL DEF Spec, RightsAreForever

\* A page without the w right keeps its contents for ever.
THEOREM ReadOnlyPages == Spec => ReadOnlyPagesAreConstant
<1>1. IInv /\ [Next]_vars =>
        [\A t \in DOMAIN segments : "w" \notin segments[t].rights =>
           t \in DOMAIN segments' /\ segments'[t].data = segments[t].data]_vars
  BY PagesKept
<1> QED
  BY <1>1, Invariance, PTL DEF Spec, ReadOnlyPagesAreConstant

-----------------------------------------------------------------------------
(***************************************************************************)
(* A segment on the flat array of bytes behind a page table.               *)
(***************************************************************************)

\* Indices of a sequence padded with offset zeros and of the sequence itself.
LEMMA Padded ==
  ASSUME NEW b \in Int, NEW start \in Int, NEW n \in Nat, NEW offset \in Nat,
         NEW k \in Nat, k = (b - start) + offset
  PROVE  /\ b - start \in 0 .. n - 1 =>
              /\ k + 1 \in 1 .. offset + n
              /\ k + 1 > offset
              /\ (k + 1) - offset = (b - start) + 1
         /\ b - start \notin 0 .. n - 1 /\ k < offset + n =>
              /\ k + 1 \in 1 .. offset + n
              /\ k + 1 <= offset
  OBVIOUS

\* A segment's image fills the pages it maps, and no other byte changes.
LEMMA WithSegmentBytes ==
  ASSUME NEW segs, Table(segs), NEW s \in SegmentInfos
  PROVE  BytesOf(WithSegment(segs, Aligned(s))) =
           [b \in Space |-> IF Tag(b) \in Mappable(segs, Aligned(s))
                            THEN Flat!Image(s, b) ELSE BytesOf(segs)[b]]
<1> DEFINE g   == Aligned(s)
           new == WithSegment(segs, g)
           offset == s.vaddr % PageSize
<1>1. /\ DOMAIN new = DOMAIN segs \cup Mappable(segs, g)
      /\ \A t \in DOMAIN segs : new[t] = segs[t]
      /\ \A t \in Mappable(segs, g) :
           t \notin DOMAIN segs /\ new[t] = SegmentPage(g, t)
  BY WithSegmentFacts, MemoryAssumption
<1>2. /\ s.vaddr = StartTag(g) * PageSize + offset
      /\ offset \in Nat /\ StartTag(g) \in Nat
      /\ g.data \in Seq(Byte) /\ Len(g.data) = offset + Len(s.data)
      /\ \A k \in 1 .. offset + Len(s.data) :
           g.data[k] = IF k <= offset THEN Zero ELSE s.data[k - offset]
  BY AlignedFacts, MemoryAssumption, Sizes DEF InPage
<1>3. s.data \in Seq(Byte) /\ Len(s.data) \in Nat /\ s.vaddr \in Nat
  BY MemoryAssumption, Sizes DEF SegmentInfo, Space
<1> HIDE DEF offset, g, new
<1>4. ASSUME NEW b \in Space
      PROVE  BytesOf(new)[b] = IF Tag(b) \in Mappable(segs, g)
                               THEN Flat!Image(s, b) ELSE BytesOf(segs)[b]
  <2> DEFINE t   == Tag(b)
             pos == b - t * PageSize
             source == (t - StartTag(g)) * PageSize
  <2>1. b \in Nat /\ t \in Nat /\ pos \in InPage /\ t * PageSize \in Nat
    BY Position, AddressFacts, Sizes DEF InPage
  <2>2. CASE t \in Mappable(segs, g)
    <3>1. BytesOf(new)[b] = SegmentPage(g, t).data[pos]
      BY <1>1, <2>2 DEF BytesOf
    <3>2. SegmentPage(g, t).data[pos] =
            IF source + pos < Len(g.data) THEN g.data[source + pos + 1] ELSE Zero
      BY <2>1 DEF SegmentPage
    <3>3. t - StartTag(g) \in Nat
      BY <1>2, <2>1, <2>2 DEF Mappable, Tags
    <3>4. source \in Nat /\ source = t * PageSize - StartTag(g) * PageSize
          /\ StartTag(g) * PageSize \in Nat
      <4> HIDE DEF t
      <4>1. t \in Nat /\ StartTag(g) \in Nat /\ PageSize \in Nat
        BY <1>2, <2>1, Sizes
      <4> QED
        BY <3>3, <4>1, TimesDistributes
    <3>5. source + pos = (b - s.vaddr) + offset
      BY <1>2, <1>3, <2>1, <3>4
    <3>6. pos \in Nat
      BY <2>1, Sizes DEF InPage
    <3> DEFINE k == source + pos
               n == Len(s.data)
    <3>7. k \in Nat
      BY <3>4, <3>6
    <3>8. k = (b - s.vaddr) + offset
          /\ n \in Nat /\ offset \in Nat /\ s.vaddr \in Int /\ b \in Int
      BY <1>2, <1>3, <2>1, <3>5
    <3>9. SegmentPage(g, t).data[pos] = IF k < Len(g.data) THEN g.data[k + 1] ELSE Zero
      BY <3>2
    <3> HIDE DEF t, pos, source, k, n
    <3>10. CASE b - s.vaddr \in 0 .. n - 1
      <4>1. k + 1 \in 1 .. offset + n /\ k + 1 > offset
            /\ (k + 1) - offset = (b - s.vaddr) + 1
        BY <3>7, <3>8, <3>10, Padded
      <4>2. g.data[k + 1] = s.data[(b - s.vaddr) + 1]
        BY <1>2, <4>1 DEF n
      <4>3. k < Len(g.data)
        BY <1>2, <3>7, <3>8, <4>1 DEF n
      <4>4. Flat!Image(s, b) = s.data[(b - s.vaddr) + 1]
        BY <3>10 DEF Flat!Image, n
      <4> QED
        BY <2>2, <3>1, <3>9, <4>2, <4>3, <4>4 DEF t
    <3>11. CASE b - s.vaddr \notin 0 .. n - 1
      <4>1. Flat!Image(s, b) = Zero
        BY <3>11 DEF Flat!Image, n
      <4>2. CASE k < Len(g.data)
        <5>0. k < offset + n
          BY <1>2, <4>2 DEF n
        <5>1. k + 1 \in 1 .. offset + n /\ k + 1 <= offset
          BY <3>7, <3>8, <3>11, <5>0, Padded
        <5>2. g.data[k + 1] = Zero
          BY <1>2, <5>1 DEF n
        <5> QED
          BY <2>2, <3>1, <3>9, <4>1, <4>2, <5>2 DEF t
      <4>3. CASE ~ (k < Len(g.data))
        BY <2>2, <3>1, <3>9, <4>1, <4>3 DEF t
      <4> QED
        BY <4>2, <4>3
    <3> QED
      BY <3>10, <3>11
  <2>3. CASE t \notin Mappable(segs, g)
    BY <1>1, <2>3 DEF BytesOf
  <2> QED
    BY <2>2, <2>3
<1>5. BytesOf(new) = [b \in Space |-> BytesOf(new)[b]]
  BY DEF BytesOf
<1> QED
  BY <1>4, <1>5 DEF g, new

-----------------------------------------------------------------------------
(***************************************************************************)
(* MEM32 implements FlatMemory: what a step of the page table does to the  *)
(* flat view is what the flat memory does.                                 *)
(***************************************************************************)
RightsOf(segs) == [t \in DOMAIN segs |-> segs[t].rights]

\* The flat view is a function of the page table.
LEMMA View ==
  /\ FlatBytes = BytesOf(segments) /\ FlatRights = RightsOf(segments)
  /\ FlatBytes' = BytesOf(segments') /\ FlatRights' = RightsOf(segments')
  BY DEF FlatBytes, BytesOf, FlatRights, RightsOf

\* The two specifications speak of the same interface.
LEMMA SameInterface ==
  /\ Flat!AddrSpace = AddrSpace /\ Flat!Space = Space
  /\ Flat!Reads = Reads /\ Flat!Writes = Writes /\ Flat!Done = Done
  /\ \A op : Flat!Width(op) = Width(op) /\ Flat!Need(op) = Need(op)
  /\ \A k : Flat!Fault(k) = Fault(k) /\ Flat!Loaded(k) = Loaded(k)
  /\ \A w, n : Flat!Low(w, n) = Low(w, n)
<1>1. Flat!AddrSpace = AddrSpace
  BY DEF Flat!AddrSpace, AddrSpace
<1>2. Flat!Space = Space
  BY <1>1 DEF Flat!Space, Space
<1>3. Flat!Reads = Reads /\ Flat!Writes = Writes
  BY DEF Flat!Reads, Reads, Flat!Writes, Writes
<1>4. ASSUME NEW op PROVE Flat!Width(op) = Width(op)
  BY Zenon DEF Flat!Width, Width
<1>5. ASSUME NEW op PROVE Flat!Need(op) = Need(op)
  BY <1>3, Zenon DEF Flat!Need, Need
<1>6. Flat!Done = Done /\ \A k : Flat!Fault(k) = Fault(k) /\ Flat!Loaded(k) = Loaded(k)
  BY DEF Flat!Done, Done, Flat!Fault, Fault, Flat!Loaded, Loaded
<1>7. \A w, n : Flat!Low(w, n) = Low(w, n)
  BY DEF Flat!Low, Low
<1> QED
  BY <1>1, <1>2, <1>3, <1>4, <1>5, <1>6, <1>7

\* get_seg grants and refuses what the flat memory grants and refuses.
LEMMA SameOutcome ==
  ASSUME Table(segments), NEW op \in Ops, NEW a \in Nat
  PROVE  /\ Flat!PageOf(a) = Tag(a)
         /\ Flat!Outcome(op, a) = OutcomeIn(GetSeg(segments, op, a), op, a)
<1> DEFINE segs == GetSeg(segments, op, a)
<1>1. Flat!PageOf(a) = Tag(a)
  BY SameInterface DEF Flat!PageOf, Tag, U32
<1>2. /\ Tag(a) \in DOMAIN segments => segs[Tag(a)] = segments[Tag(a)]
      /\ Tag(a) \notin DOMAIN segments => segs[Tag(a)] = ZeroPage(Need(op))
  <2>1. Grown(segments, GetSeg(segments, op, a), Tag(a), ZeroPage(Need(op)))
    BY GetSegFacts
  <2> QED
    BY <2>1 DEF Grown
<1> HIDE DEF segs
<1>3. Flat!RightsFor(op, a) = segs[Tag(a)].rights
  <2>1. DOMAIN FlatRights = DOMAIN segments
        /\ \A t \in DOMAIN segments : FlatRights[t] = segments[t].rights
    BY DEF FlatRights
  <2>2. Flat!RightsFor(op, a) = IF Tag(a) \in DOMAIN segments
                               THEN segments[Tag(a)].rights ELSE Need(op)
    BY <1>1, <2>1, SameInterface DEF Flat!RightsFor
  <2> QED
    BY <1>2, <2>2 DEF ZeroPage
<1>4. (a % AddrSpace) % PageSize = U32(a) - Tag(a) * PageSize
  <2>1. U32(a) \in Int
    BY AddressFacts
  <2>2. /\ U32(a) = (U32(a) \div PageSize) * PageSize + (U32(a) % PageSize)
        /\ U32(a) % PageSize \in InPage
    BY <2>1, PageAndOffset
  <2> DEFINE start == (U32(a) \div PageSize) * PageSize
             rest  == U32(a) % PageSize
  <2>3. start \in Nat /\ start = Tag(a) * PageSize
    BY AddressFacts DEF Tag
  <2>4. rest \in Nat
    BY <2>2, Sizes DEF InPage
  <2>5. rest = (a % AddrSpace) % PageSize
    BY DEF U32
  <2> HIDE DEF start, rest
  <2>6. U32(a) = start + rest
    BY <2>2 DEF start, rest
  <2>7. U32(a) - start = rest
    BY <2>3, <2>4, <2>6
  <2> QED
    BY <2>3, <2>5, <2>7
<1>5. Flat!InReach(op, a) <=> Offset(op, a) + Width(op) <= PageSize
  BY <1>4, OffsetFacts, SameInterface DEF Flat!InReach
<1>6. Offset(op, a) + Width(op) > PageSize <=> ~ (Offset(op, a) + Width(op) <= PageSize)
  BY OffsetFacts, Sizes
<1>7. Flat!Outcome(op, a) = OutcomeIn(segs, op, a)
  BY <1>3, <1>5, <1>6, SameInterface DEF Flat!Outcome, OutcomeIn, Permitted
<1> QED
  BY <1>1, <1>7 DEF segs

\* What get_seg does to the rights is what a touch of the flat memory does.
LEMMA SameTouch ==
  ASSUME Table(segments), NEW op \in Ops, NEW a \in Nat,
         RightsOf(segments') = RightsOf(GetSeg(segments, op, a))
  PROVE  Flat!Touch(op, a)
<1> DEFINE segs == GetSeg(segments, op, a)
<1>1. /\ DOMAIN segs = DOMAIN segments \cup {Tag(a)}
      /\ \A t \in DOMAIN segments : segs[t] = segments[t]
      /\ Tag(a) \notin DOMAIN segments => segs[Tag(a)] = ZeroPage(Need(op))
  <2>1. Grown(segments, GetSeg(segments, op, a), Tag(a), ZeroPage(Need(op)))
    BY GetSegFacts
  <2> QED
    BY <2>1 DEF Grown
<1>2. Flat!PageOf(a) = Tag(a)
  BY SameOutcome
<1>3. DOMAIN FlatRights = DOMAIN segments
      /\ \A t \in DOMAIN segments : FlatRights[t] = segments[t].rights
  BY DEF FlatRights
<1> HIDE DEF segs
<1>4. RightsOf(segs) =
        [t \in DOMAIN segments \cup {Tag(a)} |->
           IF t \in DOMAIN segments THEN FlatRights[t] ELSE Need(op)]
  BY <1>1, <1>3 DEF RightsOf, ZeroPage
<1>5. FlatRights' = RightsOf(segs)
  BY View DEF segs
<1> QED
  BY <1>2, <1>3, <1>4, <1>5, SameInterface DEF Flat!Touch

\* A load of MEM32 is a load of the flat memory.
LEMMA LoadImplements ==
  ASSUME IInv, NEW op \in Reads, NEW a \in Addr, Load(op, a)
  PROVE  Flat!Load(op, a)
<1> DEFINE segs == GetSeg(segments, op, a)
           res  == OutcomeIn(segs, op, a)
<1>1. op \in Ops /\ a \in Nat /\ Table(segments)
  BY MemoryAssumption DEF Ops, IInv, TypeOK, Table
<1>2. segments' = segs
      /\ reply' = IF res = "ok" THEN Loaded(ValueAt(segs, op, a)) ELSE Fault(res)
  BY DEF Load
<1>3. Table(segs) /\ Tag(a) \in DOMAIN segs
  <2>1. Grown(segments, GetSeg(segments, op, a), Tag(a), ZeroPage(Need(op)))
    BY <1>1, GetSegFacts
  <2> QED
    BY <1>1, <2>1 DEF Grown
<1>4. BytesOf(segs) = BytesOf(segments)
  BY <1>1, GetSegBytes
<1>5. Flat!Touch(op, a)
  BY <1>1, <1>2, SameTouch
<1>6. Flat!Outcome(op, a) = res
  BY <1>1, SameOutcome
<1> HIDE DEF segs, res
<1>7. FlatBytes' = FlatBytes
  BY <1>2, <1>4, View
<1>8. reply' = IF res = "ok"
               THEN Loaded([i \in 0 .. Width(op) - 1 |-> FlatBytes[U32(a) + i]])
               ELSE Fault(res)
  <2>1. CASE res = "ok"
    <3>1. ValueAt(segs, op, a) = [i \in 0 .. Width(op) - 1 |-> BytesOf(segs)[U32(a) + i]]
      BY <1>1, <1>3, <2>1, ValueBytes DEF res
    <3>2. BytesOf(segs) = FlatBytes
      BY <1>4, View
    <3> QED
      BY <1>2, <2>1, <3>1, <3>2
  <2>2. CASE res # "ok"
    BY <1>2, <2>2
  <2> QED
    BY <2>1, <2>2
<1> QED
  BY <1>5, <1>6, <1>7, <1>8, SameInterface DEF Flat!Load, U32

\* A store of MEM32 is a store of the flat memory.
LEMMA StoreImplements ==
  ASSUME IInv, NEW op \in Writes, NEW a \in Addr, NEW w \in Word,
         Store(op, a, Low(w, Width(op)))
  PROVE  Flat!Store(op, a, Low(w, Width(op)))
<1> DEFINE segs == GetSeg(segments, op, a)
           res  == OutcomeIn(segs, op, a)
           val  == Low(w, Width(op))
<1>1. op \in Ops /\ a \in Nat /\ Table(segments)
  BY MemoryAssumption DEF Ops, IInv, TypeOK, Table
<1>2. segments' = (IF res = "ok" THEN Written(segs, op, a, val) ELSE segs)
      /\ reply' = [outcome |-> res, value |-> <<>>]
  BY DEF Store
<1>3. Table(segs) /\ Tag(a) \in DOMAIN segs
  <2>1. Grown(segments, GetSeg(segments, op, a), Tag(a), ZeroPage(Need(op)))
    BY <1>1, GetSegFacts
  <2> QED
    BY <1>1, <2>1 DEF Grown
<1>4. BytesOf(segs) = BytesOf(segments)
  BY <1>1, GetSegBytes
<1>5. val \in [0 .. Width(op) - 1 -> Byte]
  BY <1>1, LowType
<1>6. Flat!Outcome(op, a) = res
  BY <1>1, SameOutcome
<1>7. RightsOf(segments') = RightsOf(segs)
  <2>1. CASE res # "ok"
    BY <1>2, <2>1
  <2>2. CASE res = "ok"
    <3> DEFINE new == Written(segs, op, a, val)
    <3> HIDE DEF segs, val, new
    <3>1. DOMAIN new = DOMAIN segs /\ \A t \in DOMAIN segs : new[t].rights = segs[t].rights
      BY <1>1, <1>3, <1>5, WrittenFacts DEF new
    <3>2. RightsOf(new) = RightsOf(segs)
      BY <3>1 DEF RightsOf
    <3> QED
      BY <1>2, <2>2, <3>2 DEF new
  <2> QED
    BY <2>1, <2>2
<1>8. Flat!Touch(op, a)
  BY <1>1, <1>7, SameTouch
<1> HIDE DEF segs, res, val
<1>9. FlatBytes' = IF res = "ok" THEN Stored(FlatBytes, op, a, val) ELSE FlatBytes
  <2>1. CASE res = "ok"
    <3>0. Supplies(val, op)
      BY <1>5 DEF Supplies
    <3>1. BytesOf(Written(segs, op, a, val)) = Stored(BytesOf(segs), op, a, val)
      BY <1>1, <1>3, <2>1, <3>0, WrittenBytes DEF res
    <3>2. BytesOf(segs) = FlatBytes
      BY <1>4, View
    <3>3. FlatBytes' = BytesOf(Written(segs, op, a, val))
      BY <1>2, <2>1, View
    <3> QED
      BY <2>1, <3>1, <3>2, <3>3
  <2>2. CASE res # "ok"
    BY <1>2, <1>4, <2>2, View
  <2> QED
    BY <2>1, <2>2
<1>10. Flat!Store(op, a, val)
  BY <1>2, <1>6, <1>8, <1>9, SameInterface DEF Flat!Store, U32, Stored
<1> QED
  BY <1>10 DEF val

\* Adding a segment to MEM32 is mapping it in the flat memory.
LEMMA AddSegmentImplements ==
  ASSUME IInv, NEW s \in SegmentInfos, AddSegment(s)
  PROVE  Flat!Map(s)
<1> DEFINE g   == Aligned(s)
           new == WithSegment(segments, g)
<1>1. Table(segments)
  BY DEF IInv, TypeOK, Table
<1>2. /\ segments' = new
      /\ reply' = IF Overlaps(segments, g) THEN Fault("SegmentOverlap") ELSE Done
  BY DEF AddSegment
<1>3. Flat!Cover(s) = Tags(g)
  <2>1. /\ StartTag(g) = s.vaddr \div PageSize
        /\ EndTag(g) = (s.vaddr + s.memsz - 1) \div PageSize + 1
        /\ EndTag(g) \in Int
    BY AlignedFacts, MemoryAssumption
  <2> DEFINE last == (s.vaddr + s.memsz - 1) \div PageSize
  <2>2. last \in Int
    <3>1. s.vaddr \in Int /\ s.memsz \in Int
      BY MemoryAssumption, Sizes DEF SegmentInfo, Space
    <3>2. s.vaddr + s.memsz - 1 \in Int
      BY <3>1
    <3> QED
      BY <3>2, PageAndOffset
  <2> HIDE DEF last
  <2>3. EndTag(g) - 1 = last
    BY <2>1, <2>2 DEF last
  <2> QED
    BY <2>1, <2>3 DEF Flat!Cover, Tags, last
<1>4. DOMAIN FlatRights = DOMAIN segments
      /\ \A t \in DOMAIN segments : FlatRights[t] = segments[t].rights
  BY DEF FlatRights
<1>5. Flat!Fresh(s) = Mappable(segments, g)
  BY <1>3, <1>4 DEF Flat!Fresh, Mappable
<1>6. /\ DOMAIN new = DOMAIN segments \cup Mappable(segments, g)
      /\ \A t \in DOMAIN segments : new[t] = segments[t]
      /\ \A t \in Mappable(segments, g) :
           t \notin DOMAIN segments /\ new[t] = SegmentPage(g, t)
  BY <1>1, WithSegmentFacts, MemoryAssumption
<1>7. BytesOf(new) = [b \in Space |-> IF Tag(b) \in Mappable(segments, g)
                                      THEN Flat!Image(s, b) ELSE BytesOf(segments)[b]]
  BY <1>1, WithSegmentBytes
<1>8. g.rights = s.rights
  BY DEF Aligned
<1> HIDE DEF g, new
<1>9. FlatRights' = [t \in DOMAIN FlatRights \cup Flat!Fresh(s) |->
                       IF t \in DOMAIN FlatRights THEN FlatRights[t] ELSE s.rights]
  <2>1. \A t \in Mappable(segments, g) : new[t].rights = s.rights
    BY <1>6, <1>8 DEF SegmentPage
  <2>2. RightsOf(new) = [t \in DOMAIN segments \cup Mappable(segments, g) |->
                           IF t \in DOMAIN segments THEN FlatRights[t] ELSE s.rights]
    BY <1>4, <1>6, <2>1 DEF RightsOf
  <2> QED
    BY <1>2, <1>4, <1>5, <2>2, View
<1>10. \A b \in Space : Flat!PageOf(b) = Tag(b)
  BY SameInterface DEF Flat!PageOf, Tag, U32
<1>11. FlatBytes' = [b \in Space |-> IF Flat!PageOf(b) \in Flat!Fresh(s)
                                     THEN Flat!Image(s, b) ELSE FlatBytes[b]]
  BY <1>2, <1>5, <1>7, <1>10, View
<1>12. reply' = IF Flat!Cover(s) \cap DOMAIN FlatRights = {} THEN Done
                ELSE Fault("SegmentOverlap")
  BY <1>2, <1>3, <1>4 DEF Overlaps
<1> QED
  BY <1>9, <1>11, <1>12, SameInterface DEF Flat!Map

\* Every answer of the page table is the answer of one flat array of bytes.
THEOREM Implementation == Spec => ImplementsFlatMemory
<1>1. Init => Flat!Init
  <2> SUFFICES ASSUME Init PROVE Flat!Init
    OBVIOUS
  <2>1. DOMAIN segments = {} /\ reply = Done
    BY DEF Init
  <2>2. FlatBytes = [b \in Space |-> Zero]
    BY <2>1 DEF FlatBytes, BytesOf
  <2>3. FlatRights = [t \in {} |-> {}]
    BY <2>1 DEF FlatRights
  <2> QED
    BY <2>1, <2>2, <2>3, SameInterface DEF Flat!Init
<1>2. IInv /\ [Next]_vars => [Flat!Next]_(Flat!vars)
  <2> SUFFICES ASSUME IInv, [Next]_vars PROVE [Flat!Next]_(Flat!vars)
    OBVIOUS
  <2>1. ASSUME NEW op \in Reads, NEW a \in Addr, Load(op, a) PROVE Flat!Next
    BY <2>1, LoadImplements, SameInterface DEF Flat!Next
  <2>2. ASSUME NEW op \in Writes, NEW a \in Addr, NEW w \in Word,
               Store(op, a, Low(w, Width(op)))
        PROVE  Flat!Next
    BY <2>2, StoreImplements, SameInterface DEF Flat!Next
  <2>3. ASSUME NEW s \in SegmentInfos, AddSegment(s) PROVE Flat!Next
    BY <2>3, AddSegmentImplements DEF Flat!Next
  <2>4. CASE UNCHANGED vars
    BY <2>4 DEF vars, Flat!vars, FlatBytes, BytesOf, FlatRights
  <2> QED
    BY <2>1, <2>2, <2>3, <2>4, NextCases
<1> QED
  BY <1>1, <1>2, Invariance, PTL DEF Spec, ImplementsFlatMemory, Flat!Spec

\* An access that throws changes no byte, in its own page or in another.
THEOREM NothingStored == Spec => FaultsStoreNothing
<1>1. IInv /\ [Next]_vars => [reply'.outcome \in AccessFaults => FlatBytes' = FlatBytes]_vars
  <2> SUFFICES ASSUME IInv, Next, reply'.outcome \in AccessFaults
               PROVE  FlatBytes' = FlatBytes
    OBVIOUS
  <2>1. ASSUME NEW op \in Reads, NEW a \in Addr, Load(op, a)
        PROVE  FlatBytes' = FlatBytes
    BY <2>1, LoadImplements DEF Flat!Load
  <2>2. ASSUME NEW op \in Writes, NEW a \in Addr, NEW w \in Word,
               Store(op, a, Low(w, Width(op)))
        PROVE  FlatBytes' = FlatBytes
    <3>1. Flat!Store(op, a, Low(w, Width(op)))
      BY <2>2, StoreImplements
    <3>2. reply'.outcome = Flat!Outcome(op, a)
      BY <3>1 DEF Flat!Store
    <3>3. Flat!Outcome(op, a) # "ok"
      BY <3>2 DEF AccessFaults
    <3> QED
      BY <3>1, <3>3 DEF Flat!Store
  <2>3. ASSUME NEW s \in SegmentInfos, AddSegment(s) PROVE FALSE
    BY <2>3 DEF AddSegment, Fault, Done, AccessFaults
  <2> QED
    BY <2>1, <2>2, <2>3, NextCases
<1> QED
  BY <1>1, Invariance, PTL DEF Spec, FaultsStoreNothing

=============================================================================
