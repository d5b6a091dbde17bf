----------------------------- MODULE CPU_proofs -----------------------------
(***************************************************************************)
(* Proofs about the CPU on its page table, for every size of page and of   *)
(* buffer, every decoder and arithmetic that InstructionAssumption allows, *)
(* every program, every input and every answer of the host.                *)
(***************************************************************************)
EXTENDS CPU, SegmentTable_proofs

-----------------------------------------------------------------------------
(***************************************************************************)
(* Arithmetic of words.                                                    *)
(***************************************************************************)

\* Truncation takes every integer to a word.
LEMMA WordOfInt ==
  ASSUME NEW n \in Int
  PROVE  U32(n) \in Space /\ U32(n) \in Nat
BY Sizes, SMT DEF U32, Space

\* A number has one remainder by the size of the space.
LEMMA RemainderIsUnique ==
  ASSUME NEW n \in Int, NEW q \in Int, NEW r \in 0 .. AddrSpace - 1,
         n = q * AddrSpace + r
  PROVE  n % AddrSpace = r
  BY Sizes, SMT

\* The distance from a to x, taken modulo the space, leads from a to x.
LEMMA Distance ==
  ASSUME NEW x \in Space, NEW a \in Nat
  PROVE  /\ U32(x - a) \in Space
         /\ U32(a + U32(x - a)) = x
<1> DEFINE q == (x - a) \div AddrSpace
           i == (x - a) % AddrSpace
<1>1. x \in Int /\ x - a \in Int
  BY Sizes DEF Space
<1>2. q \in Int /\ i \in Space /\ x - a = q * AddrSpace + i
  BY <1>1, Sizes, SMT DEF Space
<1> HIDE DEF q, i
<1>3. a + i = (-q) * AddrSpace + x
  <2>1. (-q) * AddrSpace = - (q * AddrSpace)
    BY <1>2, Sizes
  <2> QED
    BY <1>1, <1>2, <2>1, Sizes DEF Space
<1>4. (a + i) % AddrSpace = x
  <2>1. a + i \in Int /\ -q \in Int /\ x \in 0 .. AddrSpace - 1
    BY <1>2, Sizes DEF Space
  <2> QED
    BY <1>3, <2>1, RemainderIsUnique
<1> QED
  BY <1>2, <1>4 DEF U32, i

\* The values of bytes.
LEMMA ByteValues ==
  /\ Radix \in Nat /\ Radix >= 2
  /\ Byte = 0 .. Radix - 1 /\ Byte \subseteq Nat /\ Zero = 0 /\ Zero \in Byte
BY InstructionAssumption, MemoryAssumption

LEMMA HalfType ==
  ASSUME NEW b, b[0] \in Byte, b[1] \in Byte
  PROVE  Half(b) \in Nat
BY ByteValues DEF Half

LEMMA FullType ==
  ASSUME NEW b \in MachineWord
  PROVE  Full(b) \in Nat
<1>1. b[0] \in Byte /\ b[1] \in Byte /\ b[2] \in Nat /\ b[3] \in Nat
  BY ByteValues DEF MachineWord
<1>2. Half(b) \in Nat
  BY <1>1, HalfType
<1>3. Radix * Radix \in Nat /\ b[2] + Radix * b[3] \in Nat
  BY <1>1, ByteValues
<1> QED
  BY <1>2, <1>3 DEF Full

\* A register's bytes are bytes, as many as any store takes.
LEMMA BytesType ==
  ASSUME NEW v \in Nat, NEW op \in Writes
  PROVE  Supplies(Bytes(v), op)
<1>1. Width(op) \in 1 .. 4
  BY OffsetFacts DEF Ops
<1>2. ASSUME NEW n \in Int PROVE n % Radix \in Byte
  BY ByteValues, SMT
<1>3. /\ v \div Radix \in Int /\ v \div (Radix * Radix) \in Int
      /\ v \div (Radix * Radix * Radix) \in Int
  <2>1. Radix * Radix \in Nat \ {0}
    BY ByteValues, SMT
  <2>2. (Radix * Radix) * Radix \in Nat \ {0}
    BY <2>1, ByteValues, SMT
  <2> QED
    BY <2>1, <2>2, ByteValues, SMT
<1>4. \A i \in 0 .. 3 : Bytes(v)[i] \in Byte
  BY <1>2, <1>3 DEF Bytes
<1> QED
  BY <1>1, <1>4 DEF Supplies

\* What a load leaves in its register is an integer.
LEMMA ExtendedType ==
  ASSUME NEW type \in Loads, NEW b \in [0 .. Width(Accessor(type)) - 1 -> Byte]
  PROVE  Extended(type, b) \in Int
<1>1. b[0] \in Byte
  BY DEF Loads, Accessor, Width
<1>2. CASE type \in {"LB", "LBU"}
  BY <1>1, <1>2, ByteValues DEF Extended, Signed
<1>3. CASE type \in {"LH", "LHU"}
  <2>1. b[1] \in Byte
    BY <1>3 DEF Accessor, Width
  <2>2. Half(b) \in Nat
    BY <1>1, <2>1, HalfType
  <2>3. Radix * Radix \in Nat
    BY ByteValues
  <2> QED
    BY <1>3, <2>2, <2>3 DEF Extended, Signed
<1>4. CASE type = "LW"
  <2>1. b \in MachineWord
    BY <1>4 DEF Accessor, Width, MachineWord
  <2> QED
    BY <1>4, <2>1, FullType DEF Extended
<1> QED
  BY <1>2, <1>3, <1>4 DEF Loads

-----------------------------------------------------------------------------
(***************************************************************************)
(* Pages the program causes to be created serve one kind of access: those  *)
(* that may be read, or fetched from, still hold zeros.                    *)
(***************************************************************************)
LazyPage(page) ==
  /\ \E op \in Ops : page.rights = Need(op)
  /\ "r" \in page.rights => page.data = [i \in InPage |-> Zero]

Lazy(segs) ==
  /\ Table(segs)
  /\ loaded \subseteq DOMAIN segs
  /\ \A t \in DOMAIN segs \ loaded : t \in 0 .. PageCount - 1 /\ LazyPage(segs[t])

\* A page created for an access is lazy.
LEMMA ZeroPageIsLazy ==
  ASSUME NEW op \in Ops
  PROVE  ZeroPage(Need(op)) \in Page /\ LazyPage(ZeroPage(Need(op)))
<1>1. Need(op) \subseteq Right
  BY DEF Need, Right
<1> QED
  BY <1>1, MemoryAssumption DEF ZeroPage, Page, LazyPage

\* What may be written may not be read.
LEMMA WriteOnly ==
  ASSUME NEW page, LazyPage(page), NEW op \in Writes, Need(op) \subseteq page.rights
  PROVE  "r" \notin page.rights
BY DEF LazyPage, Need, Writes, Ops, Reads

\* get_seg keeps the pages lazy.
LEMMA GetSegLazy ==
  ASSUME NEW segs, Lazy(segs), NEW op \in Ops, NEW a \in Nat
  PROVE  /\ Lazy(GetSeg(segs, op, a))
         /\ Tag(a) \in DOMAIN GetSeg(segs, op, a)
<1> DEFINE new == GetSeg(segs, op, a)
<1>1. Grown(segs, new, Tag(a), ZeroPage(Need(op)))
  BY GetSegFacts DEF Lazy
<1>2. Tag(a) \in 0 .. PageCount - 1
  BY TagFacts
<1>3. LazyPage(ZeroPage(Need(op)))
  BY ZeroPageIsLazy
<1> HIDE DEF new
<1>4. Table(new) /\ loaded \subseteq DOMAIN new /\ Tag(a) \in DOMAIN new
  BY <1>1 DEF Grown, Lazy
<1>5. ASSUME NEW t \in DOMAIN new \ loaded
      PROVE  t \in 0 .. PageCount - 1 /\ LazyPage(new[t])
  BY <1>1, <1>2, <1>3 DEF Grown, Lazy
<1> QED
  BY <1>4, <1>5 DEF Lazy, new

\* A store that is permitted keeps them lazy: it goes to no page of zeros that
\* can be read.
LEMMA WrittenLazy ==
  ASSUME NEW segs, Lazy(segs), NEW op \in Writes, NEW a \in Nat,
         Tag(a) \in DOMAIN segs, Permitted(segs, op, a),
         NEW val, Supplies(val, op)
  PROVE  Lazy(Written(segs, op, a, val))
<1> DEFINE new == Written(segs, op, a, val)
<1>1. /\ Table(new) /\ DOMAIN new = DOMAIN segs
      /\ \A t \in DOMAIN segs : /\ new[t].rights = segs[t].rights
                                /\ t # Tag(a) => new[t] = segs[t]
  BY WrittenPages DEF Lazy, Ops
<1> HIDE DEF new
<1>2. ASSUME NEW t \in DOMAIN segs \ loaded
      PROVE  t \in 0 .. PageCount - 1 /\ LazyPage(new[t])
  <2>1. t \in 0 .. PageCount - 1 /\ LazyPage(segs[t])
    BY DEF Lazy
  <2>2. CASE t # Tag(a)
    BY <1>1, <2>1, <2>2
  <2>3. CASE t = Tag(a)
    <3>1. "r" \notin segs[t].rights
      BY <2>1, <2>3, WriteOnly DEF Permitted
    <3> QED
      BY <1>1, <2>1, <3>1 DEF LazyPage
  <2> QED
    BY <2>2, <2>3
<1> QED
  BY <1>1, <1>2 DEF Lazy, new

\* The bytes a loop of accesses reaches are not refused.
LEMMA ReachedFacts ==
  ASSUME NEW op, NEW a, NEW n, NEW i \in Reached(op, a, n)
  PROVE  i \in 0 .. n - 1 /\ OutcomeOf(segments, op, a + i) = "ok"
<1>1. i \in 0 .. n - 1 /\ \A j \in Refused(op, a, n) : i < j
  BY DEF Reached
<1>2. i \notin Refused(op, a, n)
  BY <1>1
<1> QED
  BY <1>1, <1>2 DEF Refused

\* A loop of accesses creates pages as a single one does.
LEMMA TouchedLazy ==
  ASSUME Lazy(segments), NEW op \in Ops, NEW a \in Nat, NEW n \in Nat
  PROVE  LET segs == Touched(op, a, n)
         IN /\ Lazy(segs)
            /\ \A t \in DOMAIN segments : t \in DOMAIN segs /\ segs[t] = segments[t]
            /\ \A t \in DOMAIN segs \ DOMAIN segments : segs[t] = ZeroPage(Need(op))
            /\ \A i \in Reached(op, a, n) : Tag(a + i) \in DOMAIN segs
<1> DEFINE segs == Touched(op, a, n)
           tags == {Tag(a + i) : i \in Reached(op, a, n)}
           new  == tags \ DOMAIN segments
<1>1. \A i \in Reached(op, a, n) : a + i \in Nat
  BY ReachedFacts
<1>2. \A t \in tags : t \in 0 .. PageCount - 1
  BY <1>1, TagFacts
<1>3. segs = [t \in DOMAIN segments \cup new |->
                IF t \in new THEN ZeroPage(Need(op)) ELSE segments[t]]
  BY DEF Touched
<1>4. ZeroPage(Need(op)) \in Page /\ LazyPage(ZeroPage(Need(op)))
  BY ZeroPageIsLazy
<1>5. \A i \in Reached(op, a, n) : Tag(a + i) \in tags
  OBVIOUS
<1> HIDE DEF segs, tags
<1>6. /\ DOMAIN segs = DOMAIN segments \cup new
      /\ \A t \in DOMAIN segments : segs[t] = segments[t]
      /\ \A t \in new : segs[t] = ZeroPage(Need(op))
  BY <1>3
<1>7. PageCount \in Nat
  BY Sizes
<1>8. Table(segs)
  <2>1. \A t \in DOMAIN segments : t \in Nat /\ segments[t] \in Page
    BY DEF Lazy, Table
  <2>2. \A t \in DOMAIN segs : t \in Nat /\ segs[t] \in Page
    BY <1>2, <1>4, <1>6, <1>7, <2>1
  <2> QED
    BY <1>3, <2>2 DEF Table
<1>9. \A t \in DOMAIN segs \ loaded : t \in 0 .. PageCount - 1 /\ LazyPage(segs[t])
  BY <1>2, <1>4, <1>6 DEF Lazy
<1>10. Lazy(segs)
  BY <1>6, <1>8, <1>9 DEF Lazy
<1> QED
  BY <1>5, <1>6, <1>10 DEF segs

\* The byte of page t that lies i bytes behind a is in the page of a + i.
LEMMA PageOfDistance ==
  ASSUME NEW t \in 0 .. PageCount - 1, NEW p \in InPage, NEW a \in Nat
  PROVE  Tag(a + U32(t * PageSize + p - a)) = t
<1> DEFINE x == t * PageSize + p
<1>1. t \in Nat /\ x \in Nat
  BY Sizes DEF InPage
<1>2. x \in Space
  <2>1. PageSize * (t + 1) <= PageSize * PageCount
    BY Sizes, TimesMonotone
  <2>2. x < PageSize * (t + 1)
    BY <1>1, Sizes DEF InPage
  <2> QED
    BY <1>1, <2>1, <2>2, Sizes DEF AddrSpace, Space
<1>3. Tag(x) = t
  BY <1>1, <1>2, SamePage
<1>4. U32(x) = x /\ U32(a + U32(x - a)) = x
  BY <1>1, <1>2, Truncated, Distance, Sizes DEF Space
<1>5. \A b : U32(b) = U32(x) => Tag(b) = Tag(x)
  BY DEF Tag
<1>6. U32(a + U32(x - a)) = U32(x)
  BY <1>4
<1>7. Tag(a + U32(x - a)) = t
  BY <1>3, <1>5, <1>6
<1>8. t * PageSize + p - a = x - a
  <2>1. t * PageSize \in Nat
    BY Sizes
  <2> QED
    BY <2>1, Sizes DEF InPage
<1> QED
  BY <1>7, <1>8

\* Bytes copied in, as far as they are not refused, leave the pages lazy.
LEMMA CopyInLazy ==
  ASSUME Lazy(segments), NEW a \in Nat, NEW data \in Seq(Byte)
  PROVE  Lazy(CopyIn(a, data))
<1> DEFINE segs    == Touched("write8", a, Len(data))
           reached == Reached("write8", a, Len(data))
           at(t, p) == U32(t * PageSize + p - a)
           bytes(t) == [p \in InPage |-> IF at(t, p) \in reached
                                         THEN data[at(t, p) + 1] ELSE segs[t].data[p]]
           new     == CopyIn(a, data)
<1>w. "write8" \in Ops /\ "write8" \in Writes /\ Len(data) \in Nat
  BY DEF Ops, Writes
<1>1. /\ Lazy(segs)
      /\ \A t \in DOMAIN segments : t \in DOMAIN segs /\ segs[t] = segments[t]
      /\ \A t \in DOMAIN segs \ DOMAIN segments : segs[t] = ZeroPage(Need("write8"))
      /\ \A i \in reached : Tag(a + i) \in DOMAIN segs
  BY <1>w, TouchedLazy
<1>2. \A i \in reached : i \in 0 .. Len(data) - 1 /\ OutcomeOf(segments, "write8", a + i) = "ok"
  BY ReachedFacts
<1>3. \A t \in DOMAIN segs : segs[t] \in Page /\ t \in Nat
  BY <1>1 DEF Lazy, Table
<1>4. new = [t \in DOMAIN segs |-> [segs[t] EXCEPT !.data = bytes(t)]]
  BY DEF CopyIn
<1>5. \A t \in DOMAIN segs : bytes(t) \in [InPage -> Byte]
  <2>1. ASSUME NEW t \in DOMAIN segs, NEW p \in InPage
        PROVE  bytes(t)[p] \in Byte
    <3>1. segs[t].data \in [InPage -> Byte]
      BY <1>3 DEF Page
    <3>2. at(t, p) \in reached => data[at(t, p) + 1] \in Byte
      BY <1>2
    <3> QED
      BY <3>1, <3>2
  <2> QED
    BY <2>1
<1> HIDE DEF bytes, new, segs, reached, at
<1>6. \A t \in DOMAIN segs : /\ new[t] \in Page
                             /\ new[t].rights = segs[t].rights
                             /\ new[t].data = bytes(t)
  BY <1>3, <1>4, <1>5 DEF Page
<1>7. DOMAIN new = DOMAIN segs /\ Table(new)
  BY <1>3, <1>4, <1>6 DEF Table
<1>8. ASSUME NEW t \in DOMAIN segs \ loaded
      PROVE  t \in 0 .. PageCount - 1 /\ LazyPage(new[t])
  <2>1. t \in 0 .. PageCount - 1 /\ LazyPage(segs[t])
    BY <1>1 DEF Lazy
  <2>2. CASE \A p \in InPage : at(t, p) \notin reached
    <3>1. segs[t].data \in [InPage -> Byte]
      BY <1>3 DEF Page
    <3>2. bytes(t) = segs[t].data
      BY <2>2, <3>1 DEF bytes
    <3> QED
      BY <1>6, <2>1, <3>2 DEF LazyPage
  <2>3. CASE \E p \in InPage : at(t, p) \in reached
    <3>1. PICK p \in InPage : at(t, p) \in reached
      BY <2>3
    <3>2. Tag(a + at(t, p)) = t
      BY <2>1, PageOfDistance DEF at
    <3>3. a + at(t, p) \in Nat /\ OutcomeOf(segments, "write8", a + at(t, p)) = "ok"
      BY <1>2, <3>1
    <3>4. Need("write8") \subseteq GetSeg(segments, "write8", a + at(t, p))[t].rights
      BY <1>w, <3>2, <3>3, OutcomeFacts DEF OutcomeOf, Permitted
    <3>5. Need("write8") \subseteq segs[t].rights
      <4>1. CASE t \in DOMAIN segments
        BY <1>1, <3>2, <3>4, <4>1 DEF GetSeg, CreatePage
      <4>2. CASE t \notin DOMAIN segments
        BY <1>1, <4>2 DEF ZeroPage
      <4> QED
        BY <4>1, <4>2
    <3>6. "r" \notin segs[t].rights
      BY <1>w, <2>1, <3>5, WriteOnly
    <3> QED
      BY <1>6, <2>1, <3>6 DEF LazyPage
  <2> QED
    BY <2>1, <2>2, <2>3
<1> QED
  BY <1>1, <1>7, <1>8 DEF Lazy, new

\* Bytes copied out are bytes.
LEMMA CopyOutType ==
  ASSUME Lazy(segments), NEW a \in Nat, NEW m \in Nat, NEW n \in 0 .. m,
         Refused("read8", a, m) = {}
  PROVE  CopyOut(Touched("read8", a, m), a, n) \in Seq(Byte)
<1> DEFINE segs == Touched("read8", a, m)
<1>1. "read8" \in Ops
  BY DEF Ops, Reads
<1>2. Lazy(segs) /\ \A i \in 0 .. m - 1 : Tag(a + i) \in DOMAIN segs
  BY <1>1, TouchedLazy DEF Reached
<1> HIDE DEF segs
<1>3. ASSUME NEW i \in 1 .. n
      PROVE  ByteAt(segs, a + i - 1) \in Byte
  <2>1. a + i - 1 \in Nat /\ a + i - 1 = a + (i - 1) /\ i - 1 \in 0 .. m - 1
    OBVIOUS
  <2>2. segs[Tag(a + i - 1)] \in Page
    BY <1>2, <2>1 DEF Lazy, Table
  <2>3. U32(a + i - 1) - Tag(a + i - 1) * PageSize \in InPage
    BY <2>1, TagFacts
  <2> QED
    BY <2>2, <2>3 DEF ByteAt, Page
<1> QED
  BY <1>3 DEF CopyOut, segs

-----------------------------------------------------------------------------
(***************************************************************************)
(* The inductive invariant: the types, lazy pages, and read calls that are *)
(* the program's.  What a program wrote to a page of its own it can        *)
(* neither read back nor execute.                                          *)
(***************************************************************************)
ReadCalls == call.kind = "read" => regs[a7] = SysRead

IInv == TypeOK /\ Lazy(segments) /\ ReadCalls

Kinds == AccessFaults \cup {"InstructionAddressMisaligned", "IllegalInstruction",
                            "UnknownSyscall"}

HostOK == consumed \in 0 .. Len(Input) /\ output \in Seq(Byte)

\* The word at the pc comes from a page that was loaded, with the right to
\* execute it: a page created since is zeros, and zeros do not decode.
LEMMA FetchFacts ==
  ASSUME IInv
  PROVE  /\ pc \in Nat /\ Lazy(Code)
         /\ Fetch # "ok" => Fetch \in Kinds
         /\ Fetch = "ok" =>
              /\ Instr \in Instruction
              /\ Tag(pc) \in loaded /\ {"r", "x"} \subseteq segments[Tag(pc)].rights
<1>o. "read_instr32" \in Ops /\ Need("read_instr32") = {"r", "x"}
      /\ Width("read_instr32") = 4
  BY DEF Ops, Reads, Writes, Need, Width
<1>1. pc \in Nat /\ Table(segments)
  BY Sizes DEF IInv, TypeOK, Space, Lazy
<1>2. Lazy(Code) /\ Tag(pc) \in DOMAIN Code
  BY <1>o, <1>1, GetSegLazy DEF Code, IInv
<1>3. OutcomeIn(Code, "read_instr32", pc) \in AccessFaults \cup {"ok"}
  BY <1>o, <1>1, OutcomeFacts
<1>4. ASSUME Fetch = "ok"
      PROVE  /\ Instr \in Instruction
             /\ Tag(pc) \in loaded /\ {"r", "x"} \subseteq segments[Tag(pc)].rights
  <2>1. OutcomeIn(Code, "read_instr32", pc) = "ok" /\ Instr # Illegal
    BY <1>3, <1>4 DEF Fetch
  <2>2. ValueAt(Code, "read_instr32", pc) \in MachineWord
    <3>1. ValueAt(Code, "read_instr32", pc) \in [0 .. Width("read_instr32") - 1 -> Byte]
      BY <1>o, <1>1, <1>2, <2>1, ValueType DEF Lazy
    <3>2. 0 .. Width("read_instr32") - 1 = 0 .. 3
      BY <1>o
    <3> QED
      BY <3>1, <3>2, Zenon DEF MachineWord
  <2>3. Instr \in Instruction
    BY <2>1, <2>2, InstructionAssumption DEF Instr
  <2>4. {"r", "x"} \subseteq Code[Tag(pc)].rights
    BY <1>o, <1>1, <2>1, OutcomeFacts DEF Permitted
  <2>5. Tag(pc) \in loaded
    <3>1. SUFFICES ASSUME Tag(pc) \notin loaded PROVE FALSE
      OBVIOUS
    <3>2. Code[Tag(pc)].data = [i \in InPage |-> Zero]
      BY <1>2, <2>4, <3>1 DEF Lazy, LazyPage
    <3>3. \A i \in 0 .. 3 : Offset("read_instr32", pc) + i \in InPage
      <4>1. Offset("read_instr32", pc) \in Nat /\ Offset("read_instr32", pc) + 4 <= PageSize
        BY <1>o, <1>1, <2>1, OutcomeFacts, OffsetFacts
      <4> QED
        BY <4>1, Sizes DEF InPage
    <3>4. ValueAt(Code, "read_instr32", pc) = [k \in 0 .. 3 |-> 0]
      BY <1>o, <3>2, <3>3, ByteValues DEF ValueAt
    <3> QED
      BY <2>1, <3>4, InstructionAssumption DEF Instr
  <2>6. Code[Tag(pc)] = segments[Tag(pc)]
    BY <2>5 DEF IInv, Lazy, Code, GetSeg, CreatePage
  <2> QED
    BY <2>3, <2>4, <2>5, <2>6
<1>5. Fetch # "ok" => Fetch \in Kinds
  BY <1>3 DEF Fetch, Kinds
<1> QED
  BY <1>1, <1>2, <1>4, <1>5

\* What is executed was decoded from a word.
LEMMA FetchWord ==
  ASSUME IInv, Fetch = "ok"
  PROVE  \E w \in MachineWord : Instr = Decode(w)
<1>1. "read_instr32" \in Ops /\ 0 .. Width("read_instr32") - 1 = 0 .. 3
  BY DEF Ops, Reads, Width, Writes
<1>2. pc \in Nat /\ Lazy(Code)
  BY FetchFacts
<1>3. Tag(pc) \in DOMAIN Code
  BY DEF Code, GetSeg, CreatePage
<1>4. OutcomeIn(Code, "read_instr32", pc) = "ok"
  BY DEF Fetch
<1>5. ValueAt(Code, "read_instr32", pc) \in [0 .. Width("read_instr32") - 1 -> Byte]
  BY <1>1, <1>2, <1>3, <1>4, ValueType DEF Lazy
<1> QED
  BY <1>1, <1>5, Zenon DEF MachineWord, Instr

\* write_reg leaves words, and x0 alone.
LEMMA WriteRegType ==
  ASSUME IInv, NEW idx \in RegIdx, NEW v \in Int
  PROVE  WriteReg(idx, v) \in [RegIdx -> Space] /\ WriteReg(idx, v)[0] = 0
<1>1. U32(v) \in Space
  BY WordOfInt
<1>2. regs \in [RegIdx -> Space] /\ regs[0] = 0 /\ 0 \in RegIdx
  BY InstructionAssumption DEF IInv, TypeOK
<1> QED
  BY <1>1, <1>2 DEF WriteReg

\* The operands of an instruction.
LEMMA OperandTypes ==
  ASSUME IInv, Fetch = "ok"
  PROVE  /\ Instr.type \in Types /\ Instr.rd \in RegIdx
         /\ Instr.imm \in Int
         /\ regs[Instr.rs1] \in Space /\ regs[Instr.rs1] \in Nat
         /\ regs[Instr.rs2] \in Space /\ regs[Instr.rs2] \in Nat
         /\ Address \in Nat
<1>1. Instr \in Instruction /\ Imm \subseteq Int
  BY FetchFacts, InstructionAssumption
<1>2. regs \in [RegIdx -> Space] /\ Space \subseteq Nat
  BY Sizes DEF IInv, TypeOK, Space
<1>3. /\ Instr.type \in Types /\ Instr.rd \in RegIdx
      /\ Instr.rs1 \in RegIdx /\ Instr.rs2 \in RegIdx /\ Instr.imm \in Int
  BY <1>1 DEF Instruction
<1>4. regs[Instr.rs1] \in Nat /\ regs[Instr.rs2] \in Nat
  BY <1>2, <1>3
<1>5. Address \in Nat
  <2> DEFINE n == regs[Instr.rs1] + Instr.imm
  <2>1. n \in Int
    BY <1>3, <1>4
  <2>2. U32(n) \in Nat
    BY <2>1, WordOfInt
  <2> QED
    BY <2>1, <2>2, Sizes DEF Address
<1> QED
  BY <1>2, <1>3, <1>4, <1>5

\* The end of an instruction restores the invariant.
LEMMA RetireIInv ==
  ASSUME IInv, NEW segs, Lazy(segs), NEW file \in [RegIdx -> Space], file[0] = 0,
         NEW target \in Int, Retire(segs, file, target),
         running' \in BOOLEAN, HostOK'
  PROVE  IInv'
<1>1. U32(target) \in Space
  BY WordOfInt
<1>2. segments' = segs /\ loaded' = loaded
  BY DEF Retire
<1>3. Lazy(segments)'
  BY <1>2 DEF Lazy, Table
<1>4. TypeOK'
  BY <1>1, <1>2, <1>3 DEF Retire, TypeOK, Lazy, Table, HostOK, NoCall
<1> QED
  BY <1>3, <1>4 DEF IInv, ReadCalls, Retire, NoCall

\* And so does an exception.
LEMMA ThrowIInv ==
  ASSUME IInv, NEW segs, Lazy(segs), NEW kind \in Kinds, Throw(kind, segs), HostOK'
  PROVE  IInv'
<1>1. segments' = segs /\ loaded' = loaded /\ UNCHANGED <<pc, regs, running>>
  BY DEF Throw, machine
<1>2. Lazy(segments)'
  BY <1>1 DEF Lazy, Table
<1>3. TypeOK'
  BY <1>1, <1>2 DEF Throw, TypeOK, IInv, Kinds, Lazy, Table, HostOK, NoCall
<1> QED
  BY <1>2, <1>3 DEF IInv, ReadCalls, Throw, NoCall

-----------------------------------------------------------------------------
(***************************************************************************)
(* One lemma per action, or per kind of instruction.                       *)
(***************************************************************************)

\* Execute: an instruction that only works on the registers and the pc.
LEMMA RegistersIInv ==
  ASSUME IInv, Fetch = "ok", UNCHANGED host,
         NEW file \in [RegIdx -> Space], file[0] = 0, NEW target \in Int,
         Retire(Code, file, target), running' \in BOOLEAN
  PROVE  IInv'
<1>1. HostOK'
  BY DEF IInv, TypeOK, HostOK, host
<1> QED
  BY <1>1, FetchFacts, RetireIInv

LEMMA FetchFaultIInv ==
  ASSUME IInv, FetchFault
  PROVE  IInv'
<1>1. HostOK'
  BY DEF IInv, TypeOK, HostOK, host, FetchFault
<1>2. Lazy(IF pc % 4 # 0 THEN segments ELSE Code)
  BY FetchFacts DEF IInv
<1> QED
  BY <1>1, <1>2, FetchFacts, ThrowIInv DEF FetchFault

LEMMA ArithmeticIInv ==
  ASSUME IInv, Arithmetic
  PROVE  IInv'
<1> DEFINE y == IF Instr.type \in RTypes THEN regs[Instr.rs2] ELSE Instr.imm
           v == Alu(Instr.type, regs[Instr.rs1], y)
<1>1. Fetch = "ok" /\ Instr.type \in RTypes \cup ITypes
  BY DEF Arithmetic, Executes
<1>2. v \in Int
  <2>1. PICK w \in MachineWord : Instr = Decode(w)
    BY <1>1, FetchWord
  <2> QED
    BY <1>1, <2>1, OperandTypes, InstructionAssumption
<1>3. WriteReg(Instr.rd, v) \in [RegIdx -> Space] /\ WriteReg(Instr.rd, v)[0] = 0
  BY <1>1, <1>2, OperandTypes, WriteRegType
<1>4. Retire(Code, WriteReg(Instr.rd, v), pc + 4) /\ UNCHANGED <<running, host>>
  BY DEF Arithmetic
<1>5. pc + 4 \in Int /\ running' \in BOOLEAN
  BY <1>4, FetchFacts DEF IInv, TypeOK
<1> HIDE DEF v
<1> QED
  BY <1>1, <1>3, <1>4, <1>5, RegistersIInv

LEMMA LoadIInv ==
  ASSUME IInv, LoadInstr
  PROVE  IInv'
<1> DEFINE op   == Accessor(Instr.type)
           segs == GetSeg(Code, op, Address)
           res  == OutcomeIn(segs, op, Address)
           v    == Extended(Instr.type, ValueAt(segs, op, Address))
<1>1. Fetch = "ok" /\ Instr.type \in Loads /\ HostOK' /\ op \in Reads
  BY DEF LoadInstr, Executes, IInv, TypeOK, HostOK, host, Accessor, Loads, Reads
<1>2. op \in Ops /\ Address \in Nat /\ Lazy(Code)
  BY <1>1, OperandTypes, FetchFacts DEF Ops
<1>3. Lazy(segs) /\ Tag(Address) \in DOMAIN segs
  BY <1>2, GetSegLazy
<1>4. res \in AccessFaults \cup {"ok"}
  BY <1>2, OutcomeFacts
<1>5. CASE res = "ok"
  <2>1. v \in Int
    BY <1>1, <1>2, <1>3, <1>5, ValueType, ExtendedType DEF Lazy
  <2>2. WriteReg(Instr.rd, v) \in [RegIdx -> Space] /\ WriteReg(Instr.rd, v)[0] = 0
    BY <1>1, <2>1, OperandTypes, WriteRegType
  <2>3. Retire(segs, WriteReg(Instr.rd, v), pc + 4) /\ UNCHANGED running
    BY <1>5 DEF LoadInstr
  <2>4. pc + 4 \in Int /\ running' \in BOOLEAN
    BY <2>3, FetchFacts DEF IInv, TypeOK
  <2> HIDE DEF v, segs
  <2> QED
    BY <1>1, <1>3, <2>2, <2>3, <2>4, RetireIInv
<1>6. CASE res # "ok"
  <2>1. Throw(res, segs) /\ res \in Kinds
    BY <1>4, <1>6 DEF LoadInstr, Kinds
  <2> QED
    BY <1>1, <1>3, <2>1, ThrowIInv
<1> QED
  BY <1>5, <1>6

LEMMA StoreIInv ==
  ASSUME IInv, StoreInstr
  PROVE  IInv'
<1> DEFINE op   == Accessor(Instr.type)
           segs == GetSeg(Code, op, Address)
           res  == OutcomeIn(segs, op, Address)
           new  == Written(segs, op, Address, Bytes(regs[Instr.rs2]))
<1>1. Fetch = "ok" /\ Instr.type \in Stores /\ HostOK' /\ op \in Writes
  BY DEF StoreInstr, Executes, IInv, TypeOK, HostOK, host, Accessor, Loads, Stores, Writes
<1>2. op \in Ops /\ Address \in Nat /\ Lazy(Code)
  BY <1>1, OperandTypes, FetchFacts DEF Ops
<1>3. Lazy(segs) /\ Tag(Address) \in DOMAIN segs
  BY <1>2, GetSegLazy
<1>4. res \in AccessFaults \cup {"ok"}
  BY <1>2, OutcomeFacts
<1>5. CASE res = "ok"
  <2>1. Permitted(segs, op, Address) /\ Supplies(Bytes(regs[Instr.rs2]), op)
    BY <1>1, <1>2, <1>5, OutcomeFacts, OperandTypes, BytesType
  <2>2. Lazy(new)
    BY <1>1, <1>2, <1>3, <2>1, WrittenLazy
  <2>3. Retire(new, regs, pc + 4) /\ UNCHANGED running
    BY <1>5 DEF StoreInstr
  <2>4. pc + 4 \in Int /\ running' \in BOOLEAN /\ regs \in [RegIdx -> Space] /\ regs[0] = 0
    BY <2>3, FetchFacts DEF IInv, TypeOK
  <2> HIDE DEF new
  <2> QED
    BY <1>1, <2>2, <2>3, <2>4, RetireIInv
<1>6. CASE res # "ok"
  <2>1. Throw(res, segs) /\ res \in Kinds
    BY <1>4, <1>6 DEF StoreInstr, Kinds
  <2> QED
    BY <1>1, <1>3, <2>1, ThrowIInv
<1> QED
  BY <1>5, <1>6

LEMMA BranchIInv ==
  ASSUME IInv, Branch
  PROVE  IInv'
<1> DEFINE target == pc + (IF Taken(Instr.type, regs[Instr.rs1], regs[Instr.rs2])
                           THEN Instr.imm ELSE 4)
<1>1. Fetch = "ok" /\ Retire(Code, regs, target) /\ UNCHANGED <<running, host>>
  BY DEF Branch, Executes
<1>2. target \in Int
  BY <1>1, FetchFacts, OperandTypes
<1>3. running' \in BOOLEAN /\ regs \in [RegIdx -> Space] /\ regs[0] = 0
  BY <1>1 DEF IInv, TypeOK
<1> HIDE DEF target
<1> QED
  BY <1>1, <1>2, <1>3, RegistersIInv

LEMMA JumpIInv ==
  ASSUME IInv, Jump
  PROVE  IInv'
<1> DEFINE jump   == U32(regs[Instr.rs1] + Instr.imm)
           file   == WriteReg(Instr.rd, pc + 4)
           target == IF Instr.type = "JAL" THEN pc + Instr.imm ELSE jump - (jump % 2)
<1>1. Fetch = "ok" /\ Retire(Code, file, target) /\ UNCHANGED <<running, host>>
  BY DEF Jump, Executes
<1>2. target \in Int
  <2>1. regs[Instr.rs1] + Instr.imm \in Int /\ pc + Instr.imm \in Int
    BY <1>1, FetchFacts, OperandTypes
  <2>2. jump \in Nat
    BY <2>1, WordOfInt
  <2> QED
    BY <2>1, <2>2
<1>3. file \in [RegIdx -> Space] /\ file[0] = 0
  BY <1>1, FetchFacts, OperandTypes, WriteRegType
<1>4. running' \in BOOLEAN
  BY <1>1 DEF IInv, TypeOK
<1> HIDE DEF target, file
<1> QED
  BY <1>1, <1>2, <1>3, <1>4, RegistersIInv

LEMMA UpperIInv ==
  ASSUME IInv, Upper
  PROVE  IInv'
<1> DEFINE v    == IF Instr.type = "AUIPC" THEN pc + Instr.imm ELSE Instr.imm
           file == WriteReg(Instr.rd, v)
<1>1. Fetch = "ok" /\ Retire(Code, file, pc + 4) /\ UNCHANGED <<running, host>>
  BY DEF Upper, Executes
<1>2. v \in Int /\ pc + 4 \in Int
  BY <1>1, FetchFacts, OperandTypes
<1>3. file \in [RegIdx -> Space] /\ file[0] = 0
  BY <1>1, <1>2, OperandTypes, WriteRegType
<1>4. running' \in BOOLEAN
  BY <1>1 DEF IInv, TypeOK
<1> HIDE DEF file
<1> QED
  BY <1>1, <1>2, <1>3, <1>4, RegistersIInv

LEMMA NopIInv ==
  ASSUME IInv, Nop \/ Exit
  PROVE  IInv'
<1>1. Fetch = "ok" /\ Retire(Code, regs, pc + 4) /\ UNCHANGED host
  BY DEF Nop, Exit, Executes, host
<1>2. running' \in BOOLEAN /\ regs \in [RegIdx -> Space] /\ regs[0] = 0
  BY DEF IInv, TypeOK, Nop, Exit
<1>3. pc + 4 \in Int
  BY FetchFacts
<1> QED
  BY <1>1, <1>2, <1>3, RegistersIInv

LEMMA UnknownSyscallIInv ==
  ASSUME IInv, UnknownSyscall
  PROVE  IInv'
<1>1. Throw("UnknownSyscall", Code) /\ HostOK' /\ "UnknownSyscall" \in Kinds
  BY DEF UnknownSyscall, IInv, TypeOK, HostOK, host, Kinds
<1> QED
  BY <1>1, FetchFacts, ThrowIInv

\* A value a system call returns: the end of the ECALL.
LEMMA ReturnIInv ==
  ASSUME IInv, NEW segs, Lazy(segs), NEW n \in Int, Return(n, segs), HostOK'
  PROVE  IInv'
<1>1. Retire(segs, WriteReg(a0, n), pc + 4) /\ UNCHANGED running
  BY DEF Return
<1>2. WriteReg(a0, n) \in [RegIdx -> Space] /\ WriteReg(a0, n)[0] = 0
  BY InstructionAssumption, WriteRegType
<1>3. pc + 4 \in Int /\ running' \in BOOLEAN
  BY <1>1, FetchFacts DEF IInv, TypeOK
<1> QED
  BY <1>1, <1>2, <1>3, RetireIInv

\* A turn of the loop of a system call that is not its last.
LEMMA TurnIInv ==
  ASSUME IInv, NEW segs, Lazy(segs), segments' = segs,
         UNCHANGED <<machine, loaded>>, thrown' = "none", HostOK',
         call' \in [kind : {"none", "read", "write"}, total : Nat, start : Nat,
                    turn : BOOLEAN],
         call'.total < regs[a2], call'.kind = "read" => regs[a7] = SysRead
  PROVE  IInv'
<1>1. Lazy(segments)'
  BY DEF Lazy, Table
<1>2. TypeOK'
  BY <1>1 DEF TypeOK, IInv, Lazy, Table, HostOK, machine
<1> QED
  BY <1>1, <1>2 DEF IInv, ReadCalls, machine

LEMMA BeginIInv ==
  ASSUME IInv, Fetch = "ok", NEW kind \in {"read", "write"}, NEW start \in Nat,
         kind = "read" => regs[a7] = SysRead, Begin(kind, start)
  PROVE  IInv'
<1>1. HostOK' /\ Lazy(Code)
  BY FetchFacts DEF Begin, IInv, TypeOK, HostOK, host
<1>2. CASE Return(0, Code)
  BY <1>1, <1>2, ReturnIInv
<1>3. CASE ~ Return(0, Code)
  <2>1. /\ regs[a2] > 0
        /\ call' = [kind |-> kind, total |-> 0, start |-> start, turn |-> FALSE]
        /\ segments' = Code /\ thrown' = "none" /\ UNCHANGED <<machine, loaded>>
    BY <1>3 DEF Begin
  <2> QED
    BY <1>1, <2>1, TurnIInv
<1> QED
  BY <1>2, <1>3

\* Where a turn of a system call takes up, and how much it moves.
LEMMA TurnFacts ==
  ASSUME IInv, call.kind # "none"
  PROVE  /\ From \in Nat /\ Chunk \in 1 .. BufSize
         /\ call.total \in Nat /\ regs[a2] \in Nat /\ call.total + Chunk <= regs[a2]
<1>1. regs[a1] \in Nat /\ regs[a2] \in Nat /\ BufSize \in Nat \ {0}
  BY InstructionAssumption, CPUAssumption, Sizes DEF IInv, TypeOK, Space
<1>2. call.total \in Nat /\ call.total < regs[a2]
  BY DEF IInv, TypeOK
<1> QED
  BY <1>1, <1>2 DEF From, Chunk

LEMMA ContinueIInv ==
  ASSUME IInv, call.kind # "none", NEW segs, Lazy(segs), HostOK',
         NEW n \in Nat, n <= Chunk, Continue(n, segs)
  PROVE  IInv'
<1>1. /\ call.total + n \in Nat /\ call.total + n <= regs[a2]
      /\ regs[a2] \in Nat /\ Chunk \in Nat
  BY TurnFacts
<1>2. CASE n < Chunk \/ call.total + n = regs[a2]
  BY <1>1, <1>2, ReturnIInv DEF Continue
<1>3. CASE ~ (n < Chunk \/ call.total + n = regs[a2])
  <2>1. /\ call' = [call EXCEPT !.total = @ + n, !.turn = ~ @]
        /\ segments' = segs /\ thrown' = "none" /\ UNCHANGED <<machine, loaded>>
    BY <1>3 DEF Continue
  <2>2. call \in [kind : {"none", "read", "write"}, total : Nat, start : Nat,
                  turn : BOOLEAN]
    BY DEF IInv, TypeOK
  <2>3. /\ call'.total = call.total + n /\ call'.total < regs[a2]
        /\ call'.kind = "read" => regs[a7] = SysRead
    BY <1>1, <1>3, <2>1, <2>2 DEF IInv, ReadCalls
  <2>4. call' \in [kind : {"none", "read", "write"}, total : Nat, start : Nat,
                   turn : BOOLEAN]
    BY <1>1, <2>1, <2>2
  <2> QED
    BY <2>1, <2>3, <2>4, TurnIInv
<1> QED
  BY <1>2, <1>3

LEMMA ReadChunkIInv ==
  ASSUME IInv, NEW n \in 0 .. BufSize, ReadChunk(n)
  PROVE  IInv'
<1> DEFINE data == SubSeq(Input, consumed + 1, consumed + n)
           segs == CopyIn(From, data)
<1>1. /\ call.kind = "read" /\ n \in Nat /\ n <= Chunk
      /\ consumed \in Nat /\ consumed + n <= Len(Input) /\ Input \in Seq(Byte)
      /\ consumed' = consumed + n /\ output' = output /\ output \in Seq(Byte)
  BY CPUAssumption DEF ReadChunk, IInv, TypeOK
<1>2. HostOK'
  BY <1>1 DEF HostOK
<1>3. data \in Seq(Byte)
  BY <1>1
<1> HIDE DEF data
<1>4. Lazy(segs)
  BY <1>1, <1>3, TurnFacts, CopyInLazy DEF IInv
<1>5. CASE Refused("write8", From, n) = {}
  <2>1. Continue(n, segs)
    BY <1>5 DEF ReadChunk, data
  <2> QED
    BY <1>1, <1>2, <1>4, <2>1, ContinueIInv
<1>6. CASE Refused("write8", From, n) # {}
  <2>1. Throw("AccessFault", segs) /\ "AccessFault" \in Kinds
    BY <1>6 DEF ReadChunk, data, Kinds, AccessFaults
  <2> QED
    BY <1>2, <1>4, <2>1, ThrowIInv
<1> QED
  BY <1>5, <1>6

LEMMA ReadErrorIInv ==
  ASSUME IInv, ReadError
  PROVE  IInv'
<1> DEFINE n == IF call.total = 0 THEN -1 ELSE call.total
<1>1. HostOK' /\ n \in Int /\ Lazy(segments) /\ Return(n, segments)
  BY DEF ReadError, IInv, TypeOK, HostOK, host
<1> HIDE DEF n
<1> QED
  BY <1>1, ReturnIInv

\* The pages the buffer's bytes are read from.
LEMMA OutgoingLazy ==
  ASSUME IInv, call.kind = "write"
  PROVE  Lazy(Touched("read8", From, Chunk))
<1>1. From \in Nat /\ Chunk \in Nat /\ "read8" \in Ops
  BY TurnFacts DEF Ops, Reads
<1> QED
  BY <1>1, TouchedLazy DEF IInv

LEMMA WriteFaultIInv ==
  ASSUME IInv, WriteFault
  PROVE  IInv'
<1>1. HostOK' /\ "AccessFault" \in Kinds
  BY DEF WriteFault, IInv, TypeOK, HostOK, host, Kinds, AccessFaults
<1> QED
  BY <1>1, OutgoingLazy, ThrowIInv DEF WriteFault

LEMMA WriteChunkIInv ==
  ASSUME IInv, NEW n \in 0 .. BufSize, WriteChunk(n)
  PROVE  IInv'
<1> DEFINE segs == Touched("read8", From, Chunk)
           sent == CopyOut(segs, From, n)
<1>1. /\ call.kind = "write" /\ n \in Nat /\ n <= Chunk
      /\ Refused("read8", From, Chunk) = {}
      /\ output' = output \o sent /\ consumed' = consumed
      /\ Continue(n, segs)
  BY CPUAssumption DEF WriteChunk
<1>2. From \in Nat /\ Chunk \in Nat /\ n \in 0 .. Chunk
  BY <1>1, TurnFacts
<1>3. sent \in Seq(Byte)
  BY <1>1, <1>2, CopyOutType DEF IInv
<1> HIDE DEF sent
<1>4. HostOK'
  BY <1>1, <1>3 DEF HostOK, IInv, TypeOK
<1> QED
  BY <1>1, <1>4, OutgoingLazy, ContinueIInv

LEMMA WriteErrorIInv ==
  ASSUME IInv, WriteError
  PROVE  IInv'
<1>1. HostOK'
  BY DEF WriteError, IInv, TypeOK, HostOK, host
<1> QED
  BY <1>1, OutgoingLazy, ReturnIInv DEF WriteError

LEMMA SetPCIInv ==
  ASSUME IInv, NEW addr \in Addr, SetPC(addr)
  PROVE  IInv'
<1>1. U32(addr) \in Space
  BY MemoryAssumption, WordOfInt
<1>2. Lazy(segments)'
  BY DEF SetPC, IInv, Lazy, Table
<1>3. TypeOK'
  BY <1>1, <1>2 DEF SetPC, IInv, TypeOK, host
<1> QED
  BY <1>2, <1>3 DEF SetPC, IInv, ReadCalls

-----------------------------------------------------------------------------
(***************************************************************************)
(* The invariant holds.                                                    *)
(***************************************************************************)

\* The loaded image: every page of it is loaded, so none need be lazy.
LEMMA InitIInv ==
  ASSUME Init
  PROVE  IInv
<1>1. PICK p \in Programs : /\ segments = Image(Aligned(p.code), Aligned(p.data))
                            /\ pc = p.entry
  BY DEF Init
<1>2. p.code \in SegmentInfos /\ p.data \in SegmentInfos /\ pc \in Space
  BY <1>1, CPUAssumption
<1> DEFINE empty == [t \in {} |-> {}]
<1>3. Table(empty)
  BY DEF Table
<1> HIDE DEF empty
<1>4. Table(segments)
  <2>1. Table(WithSegment(empty, Aligned(p.code)))
    BY <1>2, <1>3, WithSegmentFacts, MemoryAssumption
  <2>2. Table(WithSegment(WithSegment(empty, Aligned(p.code)), Aligned(p.data)))
    BY <1>2, <2>1, WithSegmentFacts, MemoryAssumption
  <2> QED
    BY <1>1, <2>2 DEF Image, empty
<1>5. Lazy(segments)
  BY <1>4 DEF Lazy, Init
<1>6. regs \in [RegIdx -> Space] /\ regs[0] = 0
  BY CPUAssumption DEF Init
<1>7. Len(Input) \in Nat
  BY CPUAssumption
<1>8. TypeOK
  BY <1>2, <1>4, <1>6, <1>7 DEF Init, TypeOK, Table, NoCall
<1> QED
  BY <1>5, <1>8 DEF IInv, ReadCalls, Init, NoCall

LEMMA ExecuteIInv ==
  ASSUME IInv, Execute
  PROVE  IInv'
<1>1. CASE BeginRead
  <2>1. Fetch = "ok" /\ Begin("read", consumed) /\ consumed \in Nat /\ regs[a7] = SysRead
    BY <1>1 DEF BeginRead, Executes, IInv, TypeOK
  <2> QED
    BY <2>1, BeginIInv
<1>2. CASE BeginWrite
  <2>1. Fetch = "ok" /\ Begin("write", Len(output)) /\ Len(output) \in Nat
    BY <1>2 DEF BeginWrite, Executes, IInv, TypeOK
  <2> QED
    BY <2>1, BeginIInv
<1>3. CASE ~ BeginRead /\ ~ BeginWrite
  BY <1>3, FetchFaultIInv, ArithmeticIInv, LoadIInv, StoreIInv, BranchIInv, JumpIInv,
     UpperIInv, NopIInv, UnknownSyscallIInv DEF Execute
<1> QED
  BY <1>1, <1>2, <1>3

LEMMA StepIInv ==
  ASSUME IInv, [Next]_vars
  PROVE  IInv'
<1>1. CASE Execute
  BY <1>1, ExecuteIInv
<1>2. CASE SystemCall
  BY <1>2, ReadChunkIInv, ReadErrorIInv, WriteFaultIInv, WriteChunkIInv, WriteErrorIInv
     DEF SystemCall
<1>3. CASE \E addr \in Addr : SetPC(addr)
  BY <1>3, SetPCIInv
<1>4. CASE UNCHANGED vars
  BY <1>4 DEF vars, machine, host, IInv, TypeOK, Lazy, Table, ReadCalls
<1> QED
  BY <1>1, <1>2, <1>3, <1>4 DEF Next

\* Registers and pc stay 32-bit words and x0 zero, and a system call never
\* transfers more than it was asked for, whatever the program does: the types
\* of CPU_RV32I's state, and of the memory it runs on.
THEOREM TypeCorrect == Spec => []TypeOK
<1>1. Init => IInv
  BY InitIInv
<1>2. IInv /\ [Next]_vars => IInv'
  BY StepIInv
<1>3. IInv => TypeOK
  BY DEF IInv
<1> QED
  BY <1>1, <1>2, <1>3, PTL DEF Spec

-----------------------------------------------------------------------------
\* An instruction is executed only out of a page that was loaded as code: a
\* page that get_seg creates for the fetch has the rights to be executed, but
\* its zeros do not decode, and what a store creates cannot be fetched from.
THEOREM CodeWasLoaded == Spec => ExecutedCodeWasLoaded
<1>1. ASSUME IInv, Execute, thrown' = "none" \/ call' # NoCall
      PROVE  Tag(pc) \in loaded /\ {"r", "x"} \subseteq segments[Tag(pc)].rights
  <2>1. Fetch # "ok" => Fetch \in Kinds
    BY <1>1, FetchFacts
  <2>2. ~ FetchFault
    BY <1>1, <2>1 DEF FetchFault, Throw, Kinds, AccessFaults
  <2>3. Fetch = "ok"
    BY <1>1, <2>2 DEF Execute, Arithmetic, LoadInstr, StoreInstr, Branch, Jump, Upper,
                      Nop, Exit, UnknownSyscall, BeginRead, BeginWrite, Executes
  <2> QED
    BY <1>1, <2>3, FetchFacts
<1>2. IInv /\ [Next]_vars =>
        [Execute /\ (thrown' = "none" \/ call' # NoCall) =>
           Tag(pc) \in loaded /\ {"r", "x"} \subseteq segments[Tag(pc)].rights]_vars
  BY <1>1
<1>3. Init => IInv
  BY InitIInv
<1>4. IInv /\ [Next]_vars => IInv'
  BY StepIInv
<1> QED
  BY <1>2, <1>3, <1>4, PTL DEF Spec, ExecutedCodeWasLoaded

-----------------------------------------------------------------------------
(***************************************************************************)
(* Precise faults.                                                         *)
(***************************************************************************)

\* The pages a loop of accesses creates change no byte.
LEMMA TouchedBytes ==
  ASSUME IInv, NEW op \in Ops, NEW a \in Nat, NEW n \in Nat
  PROVE  BytesOf(Touched(op, a, n)) = Memory
<1> DEFINE segs == Touched(op, a, n)
<1>1. /\ \A t \in DOMAIN segments : t \in DOMAIN segs /\ segs[t] = segments[t]
      /\ \A t \in DOMAIN segs \ DOMAIN segments : segs[t] = ZeroPage(Need(op))
  BY TouchedLazy DEF IInv
<1> HIDE DEF segs
<1>2. ASSUME NEW b \in Space
      PROVE  (IF Tag(b) \in DOMAIN segs THEN segs[Tag(b)].data[b - Tag(b) * PageSize]
              ELSE Zero) =
             (IF Tag(b) \in DOMAIN segments
              THEN segments[Tag(b)].data[b - Tag(b) * PageSize] ELSE Zero)
  BY <1>1, <1>2, Position DEF ZeroPage
<1> QED
  BY <1>2 DEF BytesOf, Memory, segs

\* Nor does the fetch, or an access that follows it.
LEMMA FetchBytes ==
  ASSUME IInv
  PROVE  /\ BytesOf(Code) = Memory
         /\ \A op \in Ops, a \in Nat : BytesOf(GetSeg(Code, op, a)) = Memory
<1>1. "read_instr32" \in Ops /\ pc \in Nat /\ Table(segments) /\ Table(Code)
  BY FetchFacts DEF Ops, Reads, IInv, Lazy
<1>2. BytesOf(Code) = Memory
  BY <1>1, GetSegBytes DEF Code, Memory
<1> QED
  BY <1>1, <1>2, GetSegBytes

\* An instruction that throws leaves the registers, the pc and every byte of
\* the memory as they were: the caller of Simulator::step may retry it, and the
\* debugger sees the machine in front of the instruction.  Only a read system
\* call may have stored a part of its input.
THEOREM FaultsPrecise == Spec => FaultsArePrecise
<1> DEFINE Precise == /\ UNCHANGED machine
                      /\ call.kind # "read" => Memory' = Memory
<1>1. ASSUME IInv, NEW kind, NEW segs, Throw(kind, segs), BytesOf(segs) = Memory
      PROVE  Precise
  <2>1. Memory' = BytesOf(segs)
    BY <1>1 DEF Memory, Throw, BytesOf
  <2> QED
    BY <1>1, <2>1 DEF Throw
<1>2. ASSUME IInv, Execute, thrown' # "none"
      PROVE  Precise
  <2>1. CASE FetchFault
    <3>1. BytesOf(IF pc % 4 # 0 THEN segments ELSE Code) = Memory
      BY <1>2, FetchBytes DEF Memory
    <3> QED
      BY <1>1, <1>2, <2>1, <3>1 DEF FetchFault
  <2>2. CASE LoadInstr
    <3> DEFINE op   == Accessor(Instr.type)
               segs == GetSeg(Code, op, Address)
    <3>1. Throw(OutcomeIn(segs, op, Address), segs)
      BY <1>2, <2>2 DEF LoadInstr, Retire
    <3>2. op \in Ops /\ Address \in Nat
      BY <1>2, <2>2, OperandTypes DEF LoadInstr, Executes, Accessor, Loads, Ops, Reads
    <3>3. BytesOf(segs) = Memory
      BY <1>2, <3>2, FetchBytes
    <3> QED
      BY <1>1, <1>2, <3>1, <3>3
  <2>3. CASE StoreInstr
    <3> DEFINE op   == Accessor(Instr.type)
               segs == GetSeg(Code, op, Address)
    <3>1. Throw(OutcomeIn(segs, op, Address), segs)
      BY <1>2, <2>3 DEF StoreInstr, Retire
    <3>2. op \in Ops /\ Address \in Nat
      BY <1>2, <2>3, OperandTypes
         DEF StoreInstr, Executes, Accessor, Loads, Stores, Ops, Writes
    <3>3. BytesOf(segs) = Memory
      BY <1>2, <3>2, FetchBytes
    <3> QED
      BY <1>1, <1>2, <3>1, <3>3
  <2>4. CASE UnknownSyscall
    BY <1>1, <1>2, <2>4, FetchBytes DEF UnknownSyscall
  <2>5. ~ (Arithmetic \/ Branch \/ Jump \/ Upper \/ Nop \/ Exit \/ BeginRead \/ BeginWrite)
    BY <1>2 DEF Arithmetic, Branch, Jump, Upper, Nop, Exit, BeginRead, BeginWrite, Begin,
                Return, Retire
  <2> QED
    BY <1>2, <2>1, <2>2, <2>3, <2>4, <2>5 DEF Execute
<1>3. ASSUME IInv, SystemCall, thrown' # "none"
      PROVE  Precise
  <2>1. CASE WriteFault
    <3>1. From \in Nat /\ Chunk \in Nat /\ "read8" \in Ops
      BY <1>3, <2>1, TurnFacts DEF WriteFault, Ops, Reads
    <3>2. BytesOf(Touched("read8", From, Chunk)) = Memory
      BY <1>3, <3>1, TouchedBytes
    <3> QED
      BY <1>1, <1>3, <2>1, <3>2 DEF WriteFault
  <2>2. CASE \E n \in 0 .. BufSize : ReadChunk(n)
    BY <1>3, <2>2 DEF ReadChunk, Continue, Return, Retire, Throw, machine
  <2>3. ~ (ReadError \/ WriteError \/ \E n \in 0 .. BufSize : WriteChunk(n))
    BY <1>3 DEF ReadError, WriteError, WriteChunk, Continue, Return, Retire
  <2> QED
    BY <1>3, <2>1, <2>2, <2>3 DEF SystemCall
<1>4. IInv /\ [Next]_vars => [thrown' # "none" => Precise]_vars
  BY <1>2, <1>3 DEF Next, SetPC
<1>5. Init => IInv
  BY InitIInv
<1>6. IInv /\ [Next]_vars => IInv'
  BY StepIInv
<1> QED
  BY <1>4, <1>5, <1>6, PTL DEF Spec, FaultsArePrecise

-----------------------------------------------------------------------------
(***************************************************************************)
(* Pages are never lost, and keep their rights.                            *)
(***************************************************************************)
Keeps(segs) ==
  \A t \in DOMAIN segments : t \in DOMAIN segs /\ segs[t].rights = segments[t].rights

\* The fetch, an access after it and a store keep the pages.
LEMMA AccessKeeps ==
  ASSUME IInv
  PROVE  /\ Keeps(segments) /\ Keeps(Code)
         /\ \A op \in Ops, a \in Nat : Keeps(GetSeg(Code, op, a))
<1>1. Keeps(segments) /\ Keeps(Code)
  BY DEF Keeps, Code, GetSeg, CreatePage
<1>2. ASSUME NEW op \in Ops, NEW a \in Nat
      PROVE  Keeps(GetSeg(Code, op, a))
  BY <1>1 DEF Keeps, GetSeg, CreatePage
<1> QED
  BY <1>1, <1>2

\* So do the loops of accesses of a system call.
LEMMA TouchedKeeps ==
  ASSUME IInv, NEW op \in Ops, NEW a \in Nat, NEW n \in Nat
  PROVE  Keeps(Touched(op, a, n))
BY TouchedLazy DEF Keeps, IInv

LEMMA CopyInKeeps ==
  ASSUME IInv, NEW a \in Nat, NEW data \in Seq(Byte)
  PROVE  Keeps(CopyIn(a, data))
<1> DEFINE segs     == Touched("write8", a, Len(data))
           at(t, p) == U32(t * PageSize + p - a)
           bytes(t) == [p \in InPage |->
                          IF at(t, p) \in Reached("write8", a, Len(data))
                          THEN data[at(t, p) + 1] ELSE segs[t].data[p]]
<1>1. "write8" \in Ops /\ Len(data) \in Nat
  BY DEF Ops, Writes
<1>2. Keeps(segs) /\ Lazy(segs)
  BY <1>1, TouchedKeeps, TouchedLazy DEF IInv
<1>3. CopyIn(a, data) = [t \in DOMAIN segs |-> [segs[t] EXCEPT !.data = bytes(t)]]
  BY DEF CopyIn
<1> HIDE DEF segs, bytes
<1>4. \A t \in DOMAIN segs : [segs[t] EXCEPT !.data = bytes(t)].rights = segs[t].rights
  BY <1>2 DEF Lazy, Table, Page
<1> QED
  BY <1>2, <1>3, <1>4 DEF Keeps

\* No step of the CPU takes a page away or changes its rights.
LEMMA StepKeeps ==
  ASSUME IInv, Execute \/ SystemCall
  PROVE  Keeps(segments') /\ loaded' = loaded
<1>1. loaded' = loaded
  BY DEF Execute, SystemCall, FetchFault, Arithmetic, LoadInstr, StoreInstr, Branch, Jump,
         Upper, Nop, Exit, UnknownSyscall, BeginRead, BeginWrite, Begin, ReadChunk,
         WriteChunk, ReadError, WriteFault, WriteError, Continue, Return, Retire, Throw
<1>2. CASE LoadInstr \/ StoreInstr
  <2> DEFINE op   == Accessor(Instr.type)
             segs == GetSeg(Code, op, Address)
             val  == Bytes(regs[Instr.rs2])
  <2>1. Fetch = "ok" /\ Instr.type \in Loads \cup Stores
    BY <1>2 DEF LoadInstr, StoreInstr, Executes
  <2>2. op \in Ops /\ Address \in Nat
    BY <2>1, OperandTypes DEF Accessor, Loads, Stores, Ops, Reads, Writes
  <2>3. Keeps(segs)
    BY <2>2, AccessKeeps
  <2>4. CASE segments' = segs
    BY <1>1, <2>3, <2>4
  <2>5. CASE StoreInstr /\ segments' = Written(segs, op, Address, val)
    <3>1. Lazy(segs) /\ Tag(Address) \in DOMAIN segs
      BY <2>2, FetchFacts, GetSegLazy
    <3>2. op \in Writes
      BY <2>5 DEF StoreInstr, Executes, Accessor, Loads, Stores, Writes
    <3>3. Supplies(val, op)
      BY <2>1, <3>2, OperandTypes, BytesType
    <3>4. Keeps(Written(segs, op, Address, val))
      <4> HIDE DEF segs, val, op
      <4> QED
        BY <2>2, <2>3, <3>1, <3>3, WrittenPages DEF Keeps, Lazy
    <3> QED
      BY <1>1, <2>5, <3>4
  <2> QED
    BY <1>2, <2>4, <2>5 DEF LoadInstr, StoreInstr, Retire, Throw
<1>3. CASE Execute /\ ~ (LoadInstr \/ StoreInstr)
  <2>1. segments' = segments \/ segments' = Code
    BY <1>3 DEF Execute, FetchFault, Arithmetic, Branch, Jump, Upper, Nop, Exit,
                UnknownSyscall, BeginRead, BeginWrite, Begin, Return, Retire, Throw
  <2> QED
    BY <1>1, <2>1, AccessKeeps
<1>4. ASSUME NEW n \in 0 .. BufSize, ReadChunk(n)
      PROVE  Keeps(segments')
  <2> DEFINE data == SubSeq(Input, consumed + 1, consumed + n)
  <2>1. segments' = CopyIn(From, data)
    BY <1>4 DEF ReadChunk, Continue, Return, Retire, Throw
  <2>2. n \in Nat /\ consumed \in Nat /\ consumed + n <= Len(Input) /\ Input \in Seq(Byte)
        /\ call.kind # "none"
    BY <1>4, CPUAssumption DEF ReadChunk, IInv, TypeOK
  <2>3. data \in Seq(Byte)
    BY <2>2
  <2> HIDE DEF data
  <2> QED
    BY <2>1, <2>2, <2>3, TurnFacts, CopyInKeeps
<1>5. CASE ReadError
  BY <1>1, <1>5, AccessKeeps DEF ReadError, Return, Retire
<1>6. CASE WriteFault \/ WriteError \/ \E n \in 0 .. BufSize : WriteChunk(n)
  <2>1. segments' = Touched("read8", From, Chunk) /\ call.kind # "none"
    BY <1>6 DEF WriteFault, WriteError, WriteChunk, Continue, Return, Retire, Throw
  <2>2. "read8" \in Ops /\ From \in Nat /\ Chunk \in Nat
    BY <2>1, TurnFacts DEF Ops, Reads
  <2> QED
    BY <1>1, <2>1, <2>2, TouchedKeeps
<1> QED
  BY <1>1, <1>2, <1>3, <1>4, <1>5, <1>6 DEF SystemCall

-----------------------------------------------------------------------------
(***************************************************************************)
(* CPU and memory implement the instruction set.  First the words and      *)
(* values that both specifications compute.                                *)
(***************************************************************************)
LEMMA SameInstructions ==
  /\ Rv32!Space = Space /\ \A n : Rv32!U32(n) = U32(n)
  /\ Rv32!RTypes = RTypes /\ Rv32!ITypes = ITypes /\ Rv32!Loads = Loads
  /\ Rv32!Stores = Stores /\ Rv32!Branches = Branches /\ Rv32!Jumps = Jumps
  /\ Rv32!Uppers = Uppers /\ Rv32!Illegal = Illegal
  /\ Rv32!a0 = a0 /\ Rv32!a1 = a1 /\ Rv32!a2 = a2 /\ Rv32!a7 = a7
  /\ Rv32!SysRead = SysRead /\ Rv32!SysWrite = SysWrite /\ Rv32!SysExit = SysExit
<1>1. Rv32!AddrSpace = AddrSpace
  BY DEF Rv32!AddrSpace, AddrSpace
<1>2. Rv32!Space = Space /\ \A n : Rv32!U32(n) = U32(n)
  BY <1>1 DEF Rv32!Space, Space, Rv32!U32, U32
<1>3. /\ Rv32!RTypes = RTypes /\ Rv32!ITypes = ITypes /\ Rv32!Loads = Loads
      /\ Rv32!Stores = Stores /\ Rv32!Branches = Branches /\ Rv32!Jumps = Jumps
      /\ Rv32!Uppers = Uppers /\ Rv32!Illegal = Illegal
  BY DEF Rv32!RTypes, RTypes, Rv32!ITypes, ITypes, Rv32!Loads, Loads, Rv32!Stores, Stores,
         Rv32!Branches, Branches, Rv32!Jumps, Jumps, Rv32!Uppers, Uppers, Rv32!Illegal, Illegal
<1>4. /\ Rv32!a0 = a0 /\ Rv32!a1 = a1 /\ Rv32!a2 = a2 /\ Rv32!a7 = a7
      /\ Rv32!SysRead = SysRead /\ Rv32!SysWrite = SysWrite /\ Rv32!SysExit = SysExit
  BY DEF Rv32!a0, a0, Rv32!a1, a1, Rv32!a2, a2, Rv32!a7, a7, Rv32!SysRead, SysRead,
         Rv32!SysWrite, SysWrite, Rv32!SysExit, SysExit
<1> QED
  BY <1>2, <1>3, <1>4

LEMMA SameValues ==
  /\ \A b : Rv32!Half(b) = Half(b) /\ Rv32!Full(b) = Full(b)
  /\ \A v : Rv32!Bytes(v) = Bytes(v)
  /\ \A v, n : Rv32!Signed(v, n) = Signed(v, n)
  /\ \A type, b : Rv32!Extended(type, b) = Extended(type, b)
  /\ \A type, x, y : Rv32!Taken(type, x, y) = Taken(type, x, y)
<1>1. \A b : Rv32!Half(b) = Half(b)
  BY DEF Rv32!Half, Half
<1>2. \A b : Rv32!Full(b) = Full(b)
  BY <1>1 DEF Rv32!Full, Full
<1>3. \A v : Rv32!Bytes(v) = Bytes(v)
  BY DEF Rv32!Bytes, Bytes
<1>4. \A v, n : Rv32!Signed(v, n) = Signed(v, n)
  BY DEF Rv32!Signed, Signed
<1>5. \A type, b : Rv32!Extended(type, b) = Extended(type, b)
  BY <1>1, <1>2, <1>4, Zenon DEF Rv32!Extended, Extended
<1>6. \A type, x, y : Rv32!Taken(type, x, y) = Taken(type, x, y)
  <2>1. Rv32!AddrSpace = AddrSpace
    BY DEF Rv32!AddrSpace, AddrSpace
  <2> QED
    BY <1>4, <2>1, Zenon DEF Rv32!Taken, Taken
<1> QED
  BY <1>1, <1>2, <1>3, <1>4, <1>5, <1>6

\* Counting on from an address that has been truncated already.
LEMMA NextBytes ==
  ASSUME NEW n \in Int, NEW i \in Nat, U32(n) + i \in Space
  PROVE  U32(n + i) = U32(n) + i
<1> DEFINE q == n \div AddrSpace
           r == n % AddrSpace
<1>1. q \in Int /\ r \in Space /\ n = q * AddrSpace + r
  BY Sizes, SMT DEF Space
<1>2. U32(n) = r
  BY DEF U32
<1> HIDE DEF q, r
<1>3. n + i = q * AddrSpace + (r + i) /\ r + i \in 0 .. AddrSpace - 1
  <2>1. q * AddrSpace \in Int
    BY <1>1, Sizes
  <2> QED
    BY <1>1, <1>2, <2>1, Sizes DEF Space
<1>4. n + i \in Int
  OBVIOUS
<1>5. (n + i) % AddrSpace = r + i
  BY <1>1, <1>3, <1>4, RemainderIsUnique
<1> QED
  BY <1>2, <1>5 DEF U32

\* How far b lies behind an address, modulo the space.
LEMMA Behind ==
  ASSUME NEW n \in Int, NEW b \in Space
  PROVE  U32(b - n) = IF b >= U32(n) THEN b - U32(n) ELSE b - U32(n) + AddrSpace
<1> DEFINE q == n \div AddrSpace
           r == n % AddrSpace
<1>1. q \in Int /\ r \in Space /\ n = q * AddrSpace + r
  BY Sizes, SMT DEF Space
<1>2. U32(n) = r
  BY DEF U32
<1> HIDE DEF q, r
<1>3. q * AddrSpace \in Int /\ (-q) * AddrSpace = - (q * AddrSpace)
      /\ (-q - 1) * AddrSpace = - (q * AddrSpace) - AddrSpace
  BY <1>1, Sizes
<1>4. b - n \in Int /\ b \in Int /\ r \in Int
  BY <1>1, Sizes DEF Space
<1>5. CASE b >= r
  <2>1. b - n = (-q) * AddrSpace + (b - r) /\ b - r \in 0 .. AddrSpace - 1 /\ -q \in Int
    BY <1>1, <1>3, <1>4, <1>5, Sizes DEF Space
  <2>2. (b - n) % AddrSpace = b - r
    BY <1>4, <2>1, RemainderIsUnique
  <2> QED
    BY <1>2, <1>5, <2>2 DEF U32
<1>6. CASE ~ (b >= r)
  <2>1. /\ b - n = (-q - 1) * AddrSpace + (b - r + AddrSpace)
        /\ b - r + AddrSpace \in 0 .. AddrSpace - 1 /\ -q - 1 \in Int
    BY <1>1, <1>3, <1>4, <1>6, Sizes DEF Space
  <2>2. (b - n) % AddrSpace = b - r + AddrSpace
    BY <1>4, <2>1, RemainderIsUnique
  <2> QED
    BY <1>2, <1>6, <2>2 DEF U32
<1> QED
  BY <1>5, <1>6

\* An access reads the bytes that the instruction set names, at whichever
\* integer the address was computed as.
LEMMA AccessBytes ==
  ASSUME NEW segs, Table(segs), NEW op \in Ops, NEW a \in Nat,
         Tag(a) \in DOMAIN segs, OutcomeIn(segs, op, a) = "ok",
         NEW n \in Int, U32(n) = U32(a), NEW i \in 0 .. Width(op) - 1
  PROVE  /\ U32(n) + i \in Space
         /\ ValueAt(segs, op, a)[i] = BytesOf(segs)[U32(n + i)]
<1>1. Offset(op, a) + Width(op) <= PageSize /\ Width(op) \in 1 .. 4
  BY OutcomeFacts, OffsetFacts
<1>2. U32(a) + i \in Space
  BY <1>1, AcceptedBytes
<1>3. U32(n + i) = U32(a) + i
  BY <1>1, <1>2, NextBytes
<1>4. ValueAt(segs, op, a) = [k \in 0 .. Width(op) - 1 |-> BytesOf(segs)[U32(a) + k]]
  BY ValueBytes
<1> QED
  BY <1>2, <1>3, <1>4

\* The address of a load or a store, in 64 bits and in 32.
LEMMA AddressWord ==
  ASSUME IInv, Fetch = "ok"
  PROVE  /\ regs[Instr.rs1] + Instr.imm \in Int
         /\ U32(regs[Instr.rs1] + Instr.imm) = U32(Address)
<1> DEFINE n == regs[Instr.rs1] + Instr.imm
<1>1. n \in Int
  BY OperandTypes
<1>2. U32(n) \in Space /\ U32(n) \in Nat
  BY <1>1, WordOfInt
<1>3. U32(U32(n) + AddrSpace) = U32(n)
  <2>1. /\ U32(n) + AddrSpace = 1 * AddrSpace + U32(n)
        /\ U32(n) + AddrSpace \in Int /\ U32(n) \in 0 .. AddrSpace - 1
    BY <1>2, Sizes DEF Space
  <2>2. (U32(n) + AddrSpace) % AddrSpace = U32(n)
    BY <2>1, RemainderIsUnique
  <2> QED
    BY <2>2 DEF U32
<1>4. Address = IF n < 0 THEN U32(n) + AddrSpace ELSE n
  BY DEF Address
<1> QED
  BY <1>1, <1>3, <1>4

\* The bytes behind a page table are bytes.
LEMMA BytesOfType ==
  ASSUME NEW segs, Table(segs)
  PROVE  BytesOf(segs) \in [Space -> Byte]
<1>1. ASSUME NEW b \in Space, Tag(b) \in DOMAIN segs
      PROVE  segs[Tag(b)].data[b - Tag(b) * PageSize] \in Byte
  BY <1>1, Position DEF Table, Page
<1> QED
  BY <1>1, ByteValues DEF BytesOf

\* What is fetched is the instruction at the pc.
LEMMA SameFetch ==
  ASSUME IInv, Fetch = "ok"
  PROVE  Rv32!AtInstruction(Instr) /\ Decode(Rv32!Load(pc)) = Instr
<1>1. "read_instr32" \in Ops /\ Width("read_instr32") = 4
  BY DEF Ops, Reads, Width, Writes
<1>2. pc \in Nat /\ Lazy(Code) /\ Tag(pc) \in DOMAIN Code
  BY FetchFacts DEF Code, GetSeg, CreatePage
<1>3. OutcomeIn(Code, "read_instr32", pc) = "ok" /\ pc % 4 = 0 /\ Instr # Illegal
  BY DEF Fetch
<1>4. BytesOf(Code) = Memory
  BY FetchBytes
<1>5. ASSUME NEW k \in 0 .. 3
      PROVE  ValueAt(Code, "read_instr32", pc)[k] = Memory[U32(pc + k)]
  <2>1. k \in 0 .. Width("read_instr32") - 1
    BY <1>1
  <2> QED
    BY <1>1, <1>2, <1>3, <1>4, <2>1, AccessBytes DEF Lazy
<1>6. ValueAt(Code, "read_instr32", pc) =
        [k \in 0 .. 3 |-> ValueAt(Code, "read_instr32", pc)[k]]
  BY <1>1 DEF ValueAt
<1>7. Rv32!Load(pc) = ValueAt(Code, "read_instr32", pc)
  BY <1>5, <1>6, SameInstructions DEF Rv32!Load
<1> QED
  BY <1>3, <1>7, SameInstructions DEF Rv32!AtInstruction, Instr

\* write_reg sets the register that the instruction set sets.
LEMMA SameRegister ==
  ASSUME IInv, NEW idx \in RegIdx, NEW v
  PROVE  WriteReg(idx, v) = Rv32!Register(idx, v)
<1>1. regs \in [RegIdx -> Space]
  BY DEF IInv, TypeOK
<1> QED
  BY <1>1, SameInstructions DEF WriteReg, Rv32!Register

-----------------------------------------------------------------------------
(***************************************************************************)
(* Then one lemma per kind of step.                                        *)
(***************************************************************************)

\* What the step of the machine is, seen through the refinement mapping.
LEMMA Mapped ==
  /\ Memory = BytesOf(segments) /\ Memory' = BytesOf(segments')
  /\ (call # NoCall)' = (call' # NoCall)
BY DEF Memory, BytesOf, NoCall

\* What a step of the CPU is to the machine.  A system call begins or goes on;
\* an instruction is completed; or an exception is thrown, in front of any
\* effect or in the middle of a system call, which it abandons.
Advances ==
  LET i == Decode(Rv32!Load(pc))
  IN IF call' # NoCall THEN Rv32!Call(i) \/ (call # NoCall /\ Rv32!Progress)
     ELSE IF thrown' = "none" THEN Rv32!Retire(i) \/ Rv32!Exit(i) \/ Rv32!Return(i)
     ELSE IF call = NoCall THEN UNCHANGED Rv32!vars
     ELSE Rv32!Progress

\* The end of an instruction that is no ECALL.
LEMMA RetireImplements ==
  ASSUME IInv, Fetch = "ok", call = NoCall, Instr.type # "ECALL", UNCHANGED running,
         NEW segs, NEW file, NEW target, Retire(segs, file, target),
         BytesOf(segs) = IF Instr.type \in Stores THEN Rv32!Stored(Instr) ELSE Memory,
         file = IF Rv32!HasResult(Instr) THEN Rv32!Register(Instr.rd, Rv32!Result(Instr))
                ELSE regs,
         U32(target) = U32(Rv32!Target(Instr))
  PROVE  Advances
<1>1. /\ regs' = file /\ pc' = U32(target) /\ segments' = segs /\ call' = NoCall
      /\ thrown' = "none"
  BY DEF Retire
<1>2. Memory' = BytesOf(segs)
  BY <1>1, Mapped
<1>3. UNCHANGED <<running, call # NoCall>>
  BY <1>1
<1>4. Rv32!Retire(Instr)
  BY <1>1, <1>2, <1>3, SameFetch, SameInstructions DEF Rv32!Retire
<1> QED
  BY <1>1, <1>4, SameFetch DEF Advances

\* Where the pc goes, unless the instruction is a jump or a branch.
LEMMA NextPC ==
  ASSUME Instr.type \notin Jumps \cup Branches
  PROVE  Rv32!Target(Instr) = pc + 4
<1>1. Instr.type # "JAL" /\ Instr.type # "JALR" /\ Instr.type \notin Rv32!Branches
  BY SameInstructions DEF Jumps
<1> QED
  BY <1>1 DEF Rv32!Target

\* The result of each kind of instruction: the kinds are disjoint.
LEMMA Results ==
  /\ Instr.type \in RTypes =>
       Rv32!Result(Instr) = Alu(Instr.type, regs[Instr.rs1], regs[Instr.rs2])
  /\ Instr.type \in ITypes =>
       Rv32!Result(Instr) = Alu(Instr.type, regs[Instr.rs1], Instr.imm)
  /\ Instr.type \in Loads =>
       Rv32!Result(Instr) =
         Extended(Instr.type, Rv32!Load(regs[Instr.rs1] + Instr.imm))
  /\ Instr.type \in Jumps => Rv32!Result(Instr) = pc + 4
  /\ Instr.type \in Uppers =>
       Rv32!Result(Instr) = IF Instr.type = "AUIPC" THEN pc + Instr.imm ELSE Instr.imm
<1> DEFINE r  == Instr.type \in Rv32!RTypes
           i  == Instr.type \in Rv32!ITypes
           l  == Instr.type \in Rv32!Loads
           j  == Instr.type \in Rv32!Jumps
           au == Instr.type = "AUIPC"
           u  == Instr.type \in {"LUI", "LI"}
<1>1. CASE Instr.type \in RTypes
  <2>1. r /\ ~ i /\ ~ l /\ ~ j /\ ~ au /\ ~ u
    BY <1>1, SameInstructions DEF RTypes, ITypes, Loads, Jumps
  <2>2. ~ Instr.type \in ITypes \cup Loads \cup Jumps \cup Uppers
    BY <1>1 DEF RTypes, ITypes, Loads, Jumps, Uppers
  <2> QED
    BY <2>1, <2>2, Zenon DEF Rv32!Result
<1>2. CASE Instr.type \in ITypes
  <2>1. i /\ ~ r /\ ~ l /\ ~ j /\ ~ au /\ ~ u
    BY <1>2, SameInstructions DEF RTypes, ITypes, Loads, Jumps
  <2>2. ~ Instr.type \in RTypes \cup Loads \cup Jumps \cup Uppers
    BY <1>2 DEF RTypes, ITypes, Loads, Jumps, Uppers
  <2> QED
    BY <2>1, <2>2, Zenon DEF Rv32!Result
<1>3. CASE Instr.type \in Loads
  <2>1. l /\ ~ r /\ ~ i /\ ~ j /\ ~ au /\ ~ u
    BY <1>3, SameInstructions DEF RTypes, ITypes, Loads, Jumps
  <2>2. ~ Instr.type \in RTypes \cup ITypes \cup Jumps \cup Uppers
    BY <1>3 DEF RTypes, ITypes, Loads, Jumps, Uppers
  <2>3. Rv32!Result(Instr) =
          Rv32!Extended(Instr.type, Rv32!Load(regs[Instr.rs1] + Instr.imm))
    BY <2>1, Zenon DEF Rv32!Result
  <2> QED
    BY <2>2, <2>3, SameValues, Zenon
<1>4. CASE Instr.type \in Jumps
  <2>1. j /\ ~ r /\ ~ i /\ ~ l /\ ~ au /\ ~ u
    BY <1>4, SameInstructions DEF RTypes, ITypes, Loads, Jumps
  <2>2. ~ Instr.type \in RTypes \cup ITypes \cup Loads \cup Uppers
    BY <1>4 DEF RTypes, ITypes, Loads, Jumps, Uppers
  <2> QED
    BY <2>1, <2>2, Zenon DEF Rv32!Result
<1>5. CASE Instr.type \in Uppers
  <2>1. /\ ~ r /\ ~ i /\ ~ l /\ ~ j
        /\ ~ Instr.type \in RTypes \cup ITypes \cup Loads \cup Jumps
    BY <1>5, SameInstructions DEF RTypes, ITypes, Loads, Jumps, Uppers
  <2>2. CASE au
    <3>1. ~ u
      BY <2>2
    <3> QED
      BY <2>1, <2>2, <3>1, Zenon DEF Rv32!Result
  <2>3. CASE ~ au
    <3>1. u
      BY <1>5, <2>3 DEF Uppers
    <3> QED
      BY <2>1, <2>3, <3>1, Zenon DEF Rv32!Result
  <2> QED
    BY <2>2, <2>3
<1> QED
  BY <1>1, <1>2, <1>3, <1>4, <1>5

LEMMA ArithmeticImplements ==
  ASSUME IInv, Arithmetic
  PROVE  Advances
<1> DEFINE y == IF Instr.type \in RTypes THEN regs[Instr.rs2] ELSE Instr.imm
           v == Alu(Instr.type, regs[Instr.rs1], y)
<1>1. Fetch = "ok" /\ call = NoCall /\ Instr.type \in RTypes \cup ITypes
      /\ Retire(Code, WriteReg(Instr.rd, v), pc + 4) /\ UNCHANGED running
  BY DEF Arithmetic, Executes
<1>2. Instr.type \notin Jumps \cup Branches \cup Stores /\ Instr.type # "ECALL"
  BY <1>1 DEF RTypes, ITypes, Jumps, Branches, Stores
<1>3. Rv32!HasResult(Instr) /\ Rv32!Result(Instr) = v
  <2>1. Rv32!HasResult(Instr)
    BY <1>1, SameInstructions DEF Rv32!HasResult
  <2>2. CASE Instr.type \in RTypes
    BY <2>1, <2>2, Results, Zenon
  <2>3. CASE Instr.type \notin RTypes
    <3>1. Instr.type \in ITypes
      BY <1>1, <2>3
    <3> QED
      BY <2>1, <2>3, <3>1, Results, Zenon
  <2> QED
    BY <2>1, <2>2, <2>3
<1>4. WriteReg(Instr.rd, v) = Rv32!Register(Instr.rd, Rv32!Result(Instr))
  BY <1>1, <1>3, OperandTypes, SameRegister
<1> HIDE DEF v
<1> QED
  BY <1>1, <1>2, <1>3, <1>4, FetchBytes, NextPC, RetireImplements

\* A load extends the bytes at its address.
LEMMA LoadedValue ==
  ASSUME IInv, Fetch = "ok", Instr.type \in Loads,
         OutcomeIn(GetSeg(Code, Accessor(Instr.type), Address), Accessor(Instr.type),
                   Address) = "ok"
  PROVE  Rv32!Result(Instr) =
           Extended(Instr.type,
                    ValueAt(GetSeg(Code, Accessor(Instr.type), Address),
                            Accessor(Instr.type), Address))
<1> DEFINE op   == Accessor(Instr.type)
           segs == GetSeg(Code, op, Address)
           n    == regs[Instr.rs1] + Instr.imm
           val  == ValueAt(segs, op, Address)
           all  == Rv32!Load(n)
<1>1. op \in Ops /\ Address \in Nat /\ Lazy(Code)
  BY OperandTypes, FetchFacts DEF Accessor, Loads, Ops, Reads
<1>2. Table(segs) /\ Tag(Address) \in DOMAIN segs /\ BytesOf(segs) = Memory
  BY <1>1, GetSegLazy, FetchBytes DEF Lazy
<1>3. n \in Int /\ U32(n) = U32(Address)
  BY AddressWord
<1>4. ASSUME NEW i \in 0 .. Width(op) - 1, i \in 0 .. 3
      PROVE  val[i] = all[i]
  <2>1. val[i] = Memory[U32(n + i)]
    BY <1>1, <1>2, <1>3, AccessBytes
  <2> QED
    BY <1>4, <2>1, SameInstructions DEF Rv32!Load
<1>5. Rv32!Result(Instr) = Extended(Instr.type, all)
  BY Results
<1> HIDE DEF val, all
<1>6. CASE Instr.type \in {"LB", "LBU"}
  <2>1. val[0] = all[0]
    BY <1>4, <1>6 DEF Accessor, Width
  <2> QED
    BY <1>5, <1>6, <2>1 DEF Extended, val
<1>7. CASE Instr.type \in {"LH", "LHU"}
  <2>1. val[0] = all[0] /\ val[1] = all[1]
    BY <1>4, <1>7 DEF Accessor, Width
  <2> QED
    BY <1>5, <1>7, <2>1 DEF Extended, Half, val
<1>8. CASE Instr.type = "LW"
  <2>1. val[0] = all[0] /\ val[1] = all[1] /\ val[2] = all[2] /\ val[3] = all[3]
    BY <1>4, <1>8 DEF Accessor, Width
  <2>2. Full(val) = Full(all)
    BY <2>1 DEF Full, Half
  <2> QED
    BY <1>5, <1>8, <2>2 DEF Extended, val
<1> QED
  BY <1>6, <1>7, <1>8 DEF Loads

\* A throw in front of any effect is no step of the machine.
LEMMA ThrowImplements ==
  ASSUME call = NoCall, NEW kind \in Kinds, NEW segs, Throw(kind, segs),
         BytesOf(segs) = Memory
  PROVE  Advances
<1>1. Memory' = Memory /\ UNCHANGED <<pc, regs, running>> /\ call' = NoCall
      /\ thrown' # "none"
  BY Mapped DEF Throw, machine, Kinds, AccessFaults
<1>2. UNCHANGED Rv32!vars
  BY <1>1 DEF Rv32!vars
<1> QED
  BY <1>1, <1>2 DEF Advances

LEMMA LoadImplements ==
  ASSUME IInv, LoadInstr
  PROVE  Advances
<1> DEFINE op   == Accessor(Instr.type)
           segs == GetSeg(Code, op, Address)
           v    == Extended(Instr.type, ValueAt(segs, op, Address))
<1>1. Fetch = "ok" /\ call = NoCall /\ Instr.type \in Loads
  BY DEF LoadInstr, Executes
<1>2. op \in Ops /\ Address \in Nat /\ BytesOf(segs) = Memory
  BY <1>1, OperandTypes, FetchBytes DEF Accessor, Loads, Ops, Reads
<1>3. CASE OutcomeIn(segs, op, Address) = "ok"
  <2>1. Retire(segs, WriteReg(Instr.rd, v), pc + 4) /\ UNCHANGED running
    BY <1>3 DEF LoadInstr
  <2>2. Rv32!HasResult(Instr) /\ Rv32!Result(Instr) = v
    BY <1>1, <1>3, LoadedValue, SameInstructions DEF Rv32!HasResult
  <2>3. WriteReg(Instr.rd, v) = Rv32!Register(Instr.rd, Rv32!Result(Instr))
    BY <1>1, <2>2, OperandTypes, SameRegister
  <2>4. Instr.type \notin Jumps \cup Branches \cup Stores /\ Instr.type # "ECALL"
    BY <1>1 DEF Loads, Jumps, Branches, Stores
  <2> HIDE DEF v, segs
  <2> QED
    BY <1>1, <1>2, <2>1, <2>2, <2>3, <2>4, NextPC, RetireImplements
<1>4. CASE OutcomeIn(segs, op, Address) # "ok"
  BY <1>1, <1>2, <1>4, OutcomeFacts, ThrowImplements DEF LoadInstr, Kinds
<1> QED
  BY <1>3, <1>4

\* A store changes the bytes from its address on, as many as its type says.
LEMMA StoredBytes ==
  ASSUME IInv, Fetch = "ok", Instr.type \in Stores,
         OutcomeIn(GetSeg(Code, Accessor(Instr.type), Address), Accessor(Instr.type),
                   Address) = "ok"
  PROVE  BytesOf(Written(GetSeg(Code, Accessor(Instr.type), Address),
                         Accessor(Instr.type), Address, Bytes(regs[Instr.rs2]))) =
           Rv32!Stored(Instr)
<1> DEFINE op   == Accessor(Instr.type)
           segs == GetSeg(Code, op, Address)
           n    == regs[Instr.rs1] + Instr.imm
           val  == Bytes(regs[Instr.rs2])
<1>1. op \in Ops /\ op \in Writes /\ Address \in Nat /\ Lazy(Code)
  BY OperandTypes, FetchFacts DEF Accessor, Stores, Loads, Ops, Writes
<1>2. Table(segs) /\ Tag(Address) \in DOMAIN segs /\ BytesOf(segs) = Memory
  BY <1>1, GetSegLazy, FetchBytes DEF Lazy
<1>3. n \in Int /\ U32(n) = U32(Address)
  BY AddressWord
<1>4. Supplies(val, op)
  BY <1>1, OperandTypes, BytesType
<1>5. Rv32!Size(Instr) = Width(op) /\ Width(op) \in 1 .. 4
  BY <1>1, OffsetFacts DEF Rv32!Size, Width, Accessor, Stores, Loads
<1>6. U32(n) + (Width(op) - 1) \in Space /\ U32(n) \in Space
  <2>1. Width(op) - 1 \in 0 .. Width(op) - 1
    BY <1>5
  <2> QED
    BY <1>1, <1>2, <1>3, <2>1, AccessBytes, WordOfInt
<1> HIDE DEF n
<1>7. ASSUME NEW b \in Space
      PROVE  /\ U32(b - n) < Width(op) <=> b - U32(n) \in 0 .. Width(op) - 1
             /\ b - U32(n) \in 0 .. Width(op) - 1 => U32(b - n) = b - U32(n)
  <2>1. U32(b - n) = IF b >= U32(n) THEN b - U32(n) ELSE b - U32(n) + AddrSpace
    BY <1>3, Behind
  <2> QED
    BY <1>5, <1>6, <2>1, Sizes DEF Space
<1>8. BytesOf(Written(segs, op, Address, val)) = Stored(Memory, op, Address, val)
  BY <1>1, <1>2, <1>4, WrittenBytes
<1>9. Stored(Memory, op, Address, val) =
        [b \in Space |-> IF U32(b - n) < Width(op) THEN val[U32(b - n)] ELSE Memory[b]]
  BY <1>3, <1>7 DEF Stored
<1>10. Rv32!Stored(Instr) =
         [b \in Space |-> IF U32(b - n) < Width(op) THEN val[U32(b - n)] ELSE Memory[b]]
  BY <1>5, SameInstructions, SameValues DEF Rv32!Stored, n
<1> QED
  BY <1>8, <1>9, <1>10

LEMMA StoreImplements ==
  ASSUME IInv, StoreInstr
  PROVE  Advances
<1> DEFINE op   == Accessor(Instr.type)
           segs == GetSeg(Code, op, Address)
           new  == Written(segs, op, Address, Bytes(regs[Instr.rs2]))
<1>1. Fetch = "ok" /\ call = NoCall /\ Instr.type \in Stores
  BY DEF StoreInstr, Executes
<1>2. op \in Ops /\ Address \in Nat /\ BytesOf(segs) = Memory
  BY <1>1, OperandTypes, FetchBytes DEF Accessor, Loads, Stores, Ops, Writes
<1>3. CASE OutcomeIn(segs, op, Address) = "ok"
  <2>1. Retire(new, regs, pc + 4) /\ UNCHANGED running
    BY <1>3 DEF StoreInstr
  <2>2. BytesOf(new) = Rv32!Stored(Instr)
    BY <1>1, <1>3, StoredBytes
  <2>3. ~ Rv32!HasResult(Instr) /\ Instr.type \notin Jumps \cup Branches
        /\ Instr.type # "ECALL"
    BY <1>1, SameInstructions
       DEF Rv32!HasResult, RTypes, ITypes, Loads, Stores, Jumps, Branches, Uppers
  <2> HIDE DEF new
  <2> QED
    BY <1>1, <2>1, <2>2, <2>3, NextPC, RetireImplements
<1>4. CASE OutcomeIn(segs, op, Address) # "ok"
  BY <1>1, <1>2, <1>4, OutcomeFacts, ThrowImplements DEF StoreInstr, Kinds
<1> QED
  BY <1>3, <1>4

LEMMA BranchImplements ==
  ASSUME IInv, Branch
  PROVE  Advances
<1> DEFINE taken  == Taken(Instr.type, regs[Instr.rs1], regs[Instr.rs2])
           target == pc + (IF taken THEN Instr.imm ELSE 4)
<1>1. Fetch = "ok" /\ call = NoCall /\ Instr.type \in Branches
      /\ Retire(Code, regs, target) /\ UNCHANGED running
  BY DEF Branch, Executes
<1>2. ~ Rv32!HasResult(Instr) /\ Instr.type \notin Jumps \cup Stores /\ Instr.type # "ECALL"
  BY <1>1, SameInstructions
     DEF Rv32!HasResult, RTypes, ITypes, Loads, Stores, Jumps, Branches, Uppers
<1>3. Rv32!Target(Instr) = target
  <2>1. Instr.type # "JAL" /\ Instr.type # "JALR" /\ Instr.type \in Rv32!Branches
    BY <1>1, <1>2, SameInstructions DEF Jumps
  <2>2. Rv32!Taken(Instr.type, regs[Instr.rs1], regs[Instr.rs2]) = taken
    BY SameValues
  <2> HIDE DEF taken
  <2> QED
    BY <2>1, <2>2 DEF Rv32!Target
<1> HIDE DEF target
<1> QED
  BY <1>1, <1>2, <1>3, FetchBytes, RetireImplements

\* Clearing the lowest bit.
LEMMA LowestBit ==
  ASSUME NEW n \in Nat
  PROVE  n - (n % 2) = 2 * (n \div 2)
  BY SMT

LEMMA JumpImplements ==
  ASSUME IInv, Jump
  PROVE  Advances
<1> DEFINE to     == U32(regs[Instr.rs1] + Instr.imm)
           file   == WriteReg(Instr.rd, pc + 4)
           target == IF Instr.type = "JAL" THEN pc + Instr.imm ELSE to - (to % 2)
<1>1. Fetch = "ok" /\ call = NoCall /\ Instr.type \in Jumps
      /\ Retire(Code, file, target) /\ UNCHANGED running
  BY DEF Jump, Executes
<1>2. Instr.type \notin RTypes \cup ITypes \cup Loads \cup Stores /\ Instr.type # "ECALL"
  BY <1>1 DEF RTypes, ITypes, Loads, Stores, Jumps
<1>3. Rv32!HasResult(Instr) /\ Rv32!Result(Instr) = pc + 4
  BY <1>1, Results, SameInstructions DEF Rv32!HasResult
<1>4. file = Rv32!Register(Instr.rd, Rv32!Result(Instr))
  BY <1>1, <1>3, OperandTypes, SameRegister
<1>5. Rv32!Target(Instr) = target
  <2>1. CASE Instr.type = "JAL"
    BY <2>1 DEF Rv32!Target
  <2>2. CASE Instr.type = "JALR"
    <3>1. to \in Nat
      BY <1>1, AddressWord, WordOfInt
    <3>2. to - (to % 2) = 2 * (to \div 2)
      BY <3>1, LowestBit
    <3>3. Rv32!Target(Instr) = 2 * (to \div 2)
      <4>1. Instr.type # "JAL" /\ Instr.type \notin Rv32!Branches
        BY <2>2, SameInstructions DEF Branches
      <4>2. Rv32!U32(regs[Instr.rs1] + Instr.imm) = to
        BY SameInstructions
      <4>3. Rv32!Target(Instr) = 2 * (Rv32!U32(regs[Instr.rs1] + Instr.imm) \div 2)
        BY <2>2, <4>1, Zenon DEF Rv32!Target
      <4> QED
        BY <4>2, <4>3
    <3> QED
      BY <2>2, <3>2, <3>3
  <2> QED
    BY <1>1, <2>1, <2>2 DEF Jumps
<1> HIDE DEF file, target
<1> QED
  BY <1>1, <1>2, <1>3, <1>4, <1>5, FetchBytes, RetireImplements

LEMMA UpperImplements ==
  ASSUME IInv, Upper
  PROVE  Advances
<1> DEFINE v    == IF Instr.type = "AUIPC" THEN pc + Instr.imm ELSE Instr.imm
           file == WriteReg(Instr.rd, v)
<1>1. Fetch = "ok" /\ call = NoCall /\ Instr.type \in Uppers
      /\ Retire(Code, file, pc + 4) /\ UNCHANGED running
  BY DEF Upper, Executes
<1>2. /\ Instr.type \notin RTypes \cup ITypes \cup Loads \cup Stores
      /\ Instr.type \notin Jumps \cup Branches /\ Instr.type # "ECALL"
  BY <1>1 DEF RTypes, ITypes, Loads, Stores, Jumps, Branches, Uppers
<1>3. Rv32!HasResult(Instr) /\ Rv32!Result(Instr) = v
  BY <1>1, Results, SameInstructions DEF Rv32!HasResult
<1>4. file = Rv32!Register(Instr.rd, Rv32!Result(Instr))
  BY <1>1, <1>3, OperandTypes, SameRegister
<1> HIDE DEF file
<1> QED
  BY <1>1, <1>2, <1>3, <1>4, FetchBytes, NextPC, RetireImplements

LEMMA NopImplements ==
  ASSUME IInv, Nop
  PROVE  Advances
<1>1. Fetch = "ok" /\ call = NoCall /\ Instr.type \in Nops
      /\ Retire(Code, regs, pc + 4) /\ UNCHANGED running
  BY DEF Nop, Executes
<1>2. /\ ~ Rv32!HasResult(Instr) /\ Instr.type \notin Stores
      /\ Instr.type \notin Jumps \cup Branches /\ Instr.type # "ECALL"
  BY <1>1, SameInstructions
     DEF Rv32!HasResult, RTypes, ITypes, Loads, Stores, Jumps, Branches, Uppers, Nops
<1> QED
  BY <1>1, <1>2, FetchBytes, NextPC, RetireImplements

LEMMA ExitImplements ==
  ASSUME IInv, Exit
  PROVE  Advances
<1>1. /\ Fetch = "ok" /\ call = NoCall /\ Instr.type = "ECALL" /\ regs[a7] = SysExit
      /\ Retire(Code, regs, pc + 4) /\ running' = FALSE
  BY DEF Exit, Executes
<1>2. /\ regs' = regs /\ pc' = U32(pc + 4) /\ segments' = Code /\ call' = NoCall
      /\ thrown' = "none"
  BY <1>1 DEF Retire
<1>3. Memory' = Memory
  BY <1>2, Mapped, FetchBytes
<1>4. Rv32!Exit(Instr)
  BY <1>1, <1>2, <1>3, SameFetch, SameInstructions DEF Rv32!Exit
<1> QED
  BY <1>1, <1>2, <1>4, SameFetch DEF Advances

\* A step that changes nothing, or part of the buffer of a read.
LEMMA TransferImplements ==
  ASSUME IInv, NEW segs, Table(segs), segments' = segs,
         \A b \in Space : BytesOf(segs)[b] # Memory[b] =>
           regs[a7] = SysRead /\ U32(b - regs[a1]) < regs[a2]
  PROVE  Rv32!Transfer
<1>1. Memory' = BytesOf(segs)
  BY Mapped
<1>2. Memory' \in [Space -> Byte]
  BY <1>1, BytesOfType
<1>3. ASSUME NEW b \in Space, Memory'[b] # Memory[b]
      PROVE  regs[a7] = SysRead /\ b \in Rv32!Buffer
  BY <1>1, <1>3, SameInstructions DEF Rv32!Buffer
<1> QED
  BY <1>2, <1>3, SameInstructions DEF Rv32!Transfer

\* A system call in progress goes on, or is abandoned.
LEMMA ProgressImplements ==
  ASSUME call # NoCall, Rv32!Transfer, UNCHANGED machine,
         call' # NoCall \/ thrown' # "none"
  PROVE  Advances
<1>1. (call # NoCall)' \in BOOLEAN
  BY Zenon
<1>2. Rv32!Progress
  BY <1>1 DEF Rv32!Progress, machine
<1> QED
  BY <1>2 DEF Advances

\* A system call returns.
LEMMA ReturnImplements ==
  ASSUME IInv, call # NoCall \/ (Fetch = "ok" /\ Rv32!AtCall(Instr)),
         Rv32!Transfer, NEW segs, NEW n \in (0 .. regs[a2]) \cup {-1}, Return(n, segs)
  PROVE  Advances
<1> DEFINE i == Decode(Rv32!Load(pc))
<1>1. /\ regs' = WriteReg(a0, n) /\ pc' = U32(pc + 4) /\ call' = NoCall
      /\ running' = running /\ thrown' = "none"
  BY DEF Return, Retire
<1>2. call # NoCall \/ Rv32!AtCall(i)
  BY SameFetch
<1> HIDE DEF i
<1>3. regs' = Rv32!Register(a0, n)
  <2>1. a0 \in RegIdx
    BY InstructionAssumption
  <2> QED
    BY <1>1, <2>1, SameRegister
<1>4. \E m \in (0 .. regs[Rv32!a2]) \cup {-1} : regs' = Rv32!Register(Rv32!a0, m)
  BY <1>3, SameInstructions
<1>5. pc' = Rv32!U32(pc + 4) /\ (call # NoCall)' = FALSE
  BY <1>1, SameInstructions
<1>6. Rv32!Return(i)
  BY <1>1, <1>2, <1>4, <1>5 DEF Rv32!Return
<1> QED
  BY <1>1, <1>6 DEF Advances, i

LEMMA BeginImplements ==
  ASSUME IInv, call = NoCall, Fetch = "ok", Instr.type = "ECALL",
         regs[a7] \in {SysRead, SysWrite},
         NEW kind \in {"read", "write"}, NEW start, Begin(kind, start)
  PROVE  Advances
<1>1. Rv32!AtCall(Instr)
  BY SameFetch, SameInstructions DEF Rv32!AtCall
<1>2. CASE Return(0, Code)
  <2>1. segments' = Code /\ Table(Code)
    BY <1>2, FetchFacts DEF Return, Retire, Lazy
  <2>2. Rv32!Transfer
    BY <2>1, FetchBytes, TransferImplements
  <2>3. 0 \in (0 .. regs[a2]) \cup {-1}
    BY InstructionAssumption, Sizes DEF IInv, TypeOK, Space
  <2> QED
    BY <1>1, <1>2, <2>2, <2>3, ReturnImplements
<1>3. CASE ~ Return(0, Code)
  <2>1. /\ call' = [kind |-> kind, total |-> 0, start |-> start, turn |-> FALSE]
        /\ segments' = Code /\ UNCHANGED machine
    BY <1>3 DEF Begin
  <2>2. call' # NoCall
    <3>1. call'.kind # "none"
      BY <2>1
    <3> QED
      BY <3>1 DEF NoCall
  <2>3. Memory' = Memory
    BY <2>1, Mapped, FetchBytes
  <2>4. Rv32!Call(Instr)
    BY <1>1, <2>1, <2>2, <2>3 DEF Rv32!Call, machine, NoCall
  <2> QED
    BY <2>2, <2>4, SameFetch DEF Advances
<1> QED
  BY <1>2, <1>3

LEMMA ContinueImplements ==
  ASSUME IInv, call.kind # "none", Rv32!Transfer, NEW segs,
         NEW n \in Nat, n <= Chunk, Continue(n, segs)
  PROVE  Advances
<1>1. /\ call.total + n \in Nat /\ call.total + n <= regs[a2]
      /\ regs[a2] \in Nat /\ call # NoCall
  BY TurnFacts DEF NoCall
<1>2. CASE n < Chunk \/ call.total + n = regs[a2]
  <2>1. Return(call.total + n, segs) /\ call.total + n \in (0 .. regs[a2]) \cup {-1}
    BY <1>1, <1>2 DEF Continue
  <2> QED
    BY <1>1, <2>1, ReturnImplements
<1>3. CASE ~ (n < Chunk \/ call.total + n = regs[a2])
  <2>1. /\ call' = [call EXCEPT !.total = @ + n, !.turn = ~ @]
        /\ UNCHANGED <<machine, loaded>>
    BY <1>3 DEF Continue
  <2>2. call'.kind = call.kind
    BY <2>1 DEF IInv, TypeOK
  <2>3. call' # NoCall
    BY <2>2 DEF NoCall
  <2> QED
    BY <1>1, <2>1, <2>3, ProgressImplements
<1> QED
  BY <1>2, <1>3

\* Copying in changes the bytes that the loop reaches, and no other.
LEMMA CopyInExact ==
  ASSUME IInv, NEW a \in Nat, NEW data \in Seq(Byte), NEW b \in Space
  PROVE  BytesOf(CopyIn(a, data))[b] =
           IF U32(b - a) \in Reached("write8", a, Len(data)) THEN data[U32(b - a) + 1]
           ELSE Memory[b]
<1> DEFINE segs    == Touched("write8", a, Len(data))
           new     == CopyIn(a, data)
           reached == Reached("write8", a, Len(data))
           t       == Tag(b)
           p       == b - t * PageSize
           at      == U32(t * PageSize + p - a)
<1>1. "write8" \in Ops /\ Len(data) \in Nat
  BY DEF Ops, Writes
<1>2. BytesOf(segs) = Memory
  BY <1>1, TouchedBytes
<1>3. b \in Nat /\ U32(b) = b /\ t \in 0 .. PageCount - 1 /\ p \in InPage
  BY Position
<1>4. DOMAIN new = DOMAIN segs
  BY DEF CopyIn
<1>5. Lazy(segs) /\ \A i \in reached : Tag(a + i) \in DOMAIN segs
  BY <1>1, TouchedLazy DEF IInv
<1>6. at = U32(b - a)
  <2>1. t * PageSize + p - a = b - a
    <3>1. t * PageSize \in Nat
      BY <1>3, Sizes
    <3> QED
      BY <1>3, <3>1
  <2> QED
    BY <2>1
<1>7. CASE t \notin DOMAIN segs
  <2>1. U32(b - a) \notin reached
    <3>1. SUFFICES ASSUME U32(b - a) \in reached PROVE FALSE
      OBVIOUS
    <3>2. U32(a + U32(b - a)) = b
      BY Distance
    <3>3. Tag(a + U32(b - a)) = t
      BY <1>3, <3>2 DEF Tag
    <3> QED
      BY <1>5, <1>7, <3>1, <3>3
  <2>2. BytesOf(new)[b] = Zero /\ Memory[b] = Zero
    BY <1>2, <1>4, <1>7 DEF BytesOf
  <2> QED
    BY <2>1, <2>2
<1>8. CASE t \in DOMAIN segs
  <2>1. segs[t] \in Page
    BY <1>5, <1>8 DEF Lazy, Table
  <2>2. new[t].data[p] = IF at \in reached THEN data[at + 1] ELSE segs[t].data[p]
    <3> HIDE DEF segs, reached, t, p
    <3> DEFINE bytes == [q \in InPage |-> IF U32(t * PageSize + q - a) \in reached
                                          THEN data[U32(t * PageSize + q - a) + 1]
                                          ELSE segs[t].data[q]]
    <3>1. new[t] = [segs[t] EXCEPT !.data = bytes]
      BY <1>8 DEF CopyIn, segs, reached
    <3> HIDE DEF bytes
    <3>2. new[t].data = bytes
      BY <2>1, <3>1 DEF Page
    <3> QED
      BY <1>3, <3>2 DEF bytes
  <2>3. BytesOf(new)[b] = new[t].data[p] /\ Memory[b] = segs[t].data[p]
    BY <1>2, <1>4, <1>8 DEF BytesOf
  <2> HIDE DEF at, reached, new
  <2>4. BytesOf(new)[b] = IF U32(b - a) \in reached THEN data[U32(b - a) + 1] ELSE Memory[b]
    BY <1>6, <2>2, <2>3
  <2> QED
    BY <2>4 DEF new, reached
<1> QED
  BY <1>7, <1>8

\* In particular, only the bytes of the buffer change.
LEMMA CopyInBytes ==
  ASSUME IInv, NEW a \in Nat, NEW data \in Seq(Byte), NEW b \in Space,
         BytesOf(CopyIn(a, data))[b] # Memory[b]
  PROVE  U32(b - a) \in 0 .. Len(data) - 1
BY CopyInExact, ReachedFacts

LEMMA ReadChunkImplements ==
  ASSUME IInv, NEW n \in 0 .. BufSize, ReadChunk(n)
  PROVE  Advances
<1> DEFINE data == SubSeq(Input, consumed + 1, consumed + n)
           segs == CopyIn(From, data)
<1>1. /\ call.kind = "read" /\ call # NoCall /\ n \in Nat /\ n <= Chunk
      /\ consumed \in Nat /\ consumed + n <= Len(Input) /\ Input \in Seq(Byte)
      /\ regs[a7] = SysRead
  BY CPUAssumption DEF ReadChunk, IInv, TypeOK, ReadCalls, NoCall
<1>2. data \in Seq(Byte) /\ Len(data) = n
  BY <1>1
<1>3. /\ From \in Nat /\ call.total \in Nat /\ regs[a2] \in Nat
      /\ call.total + n <= regs[a2] /\ From = regs[a1] + call.total
      /\ regs[a1] \in Nat /\ regs[a2] < AddrSpace
  <2>1. regs[a1] \in Space /\ regs[a2] \in Space
    BY InstructionAssumption DEF IInv, TypeOK
  <2> QED
    BY <1>1, <2>1, TurnFacts, Sizes DEF From, Space
<1> HIDE DEF data
<1>4. Table(segs) /\ segments' = segs
  <2>1. Lazy(segs)
    BY <1>2, <1>3, CopyInLazy DEF IInv
  <2>2. segments' = segs
    BY DEF ReadChunk, Continue, Return, Retire, Throw, data
  <2> QED
    BY <2>1, <2>2 DEF Lazy
<1>5. ASSUME NEW b \in Space, BytesOf(segs)[b] # Memory[b]
      PROVE  U32(b - regs[a1]) < regs[a2]
  <2>1. U32(b - From) \in 0 .. n - 1
    BY <1>2, <1>3, <1>5, CopyInBytes
  <2>2. b - From \in Int /\ b - regs[a1] = (b - From) + call.total
    BY <1>3, Sizes DEF Space
  <2>3. U32(b - From) + call.total \in Space /\ U32(b - From) + call.total < regs[a2]
    <3> DEFINE u == U32(b - From)
    <3>1. u \in Nat /\ u < n
      BY <1>1, <2>1
    <3>2. /\ n \in Nat /\ call.total \in Nat /\ regs[a2] \in Nat
          /\ call.total + n <= regs[a2] /\ regs[a2] < AddrSpace
      BY <1>1, <1>3
    <3> HIDE DEF segs, u
    <3>3. u + call.total \in Nat /\ u + call.total < regs[a2]
      BY <3>1, <3>2
    <3>4. u + call.total \in Space
      BY <3>2, <3>3, Sizes DEF Space
    <3> QED
      BY <3>3, <3>4 DEF u
  <2>4. U32((b - From) + call.total) = U32(b - From) + call.total
    BY <1>3, <2>2, <2>3, NextBytes
  <2> QED
    BY <2>2, <2>3, <2>4
<1>6. Rv32!Transfer
  BY <1>1, <1>4, <1>5, TransferImplements
<1>7. CASE Refused("write8", From, n) = {}
  <2>1. Continue(n, segs)
    BY <1>7 DEF ReadChunk, data
  <2> QED
    BY <1>1, <1>6, <2>1, ContinueImplements
<1>8. CASE Refused("write8", From, n) # {}
  <2>1. UNCHANGED machine /\ thrown' # "none"
    BY <1>8 DEF ReadChunk, Throw
  <2> QED
    BY <1>1, <1>6, <2>1, ProgressImplements
<1> QED
  BY <1>7, <1>8

LEMMA ReadErrorImplements ==
  ASSUME IInv, ReadError
  PROVE  Advances
<1> DEFINE n == IF call.total = 0 THEN -1 ELSE call.total
<1>1. call # NoCall /\ call.kind # "none" /\ Return(n, segments)
  BY DEF ReadError, NoCall
<1>2. n \in (0 .. regs[a2]) \cup {-1}
  BY <1>1, TurnFacts
<1>3. segments' = segments /\ Table(segments)
  BY <1>1 DEF Return, Retire, IInv, Lazy
<1>4. Rv32!Transfer
  BY <1>3, TransferImplements DEF Memory
<1> HIDE DEF n
<1> QED
  BY <1>1, <1>2, <1>4, ReturnImplements

LEMMA WriteImplements ==
  ASSUME IInv, \/ WriteFault \/ WriteError
               \/ \E n \in 0 .. BufSize : WriteChunk(n)
  PROVE  Advances
<1> DEFINE segs == Touched("read8", From, Chunk)
<1>1. call.kind = "write" /\ call # NoCall
  BY DEF WriteFault, WriteError, WriteChunk, NoCall
<1>2. From \in Nat /\ Chunk \in Nat /\ "read8" \in Ops
  BY <1>1, TurnFacts DEF Ops, Reads
<1>3. BytesOf(segs) = Memory /\ Table(segs)
  BY <1>1, <1>2, TouchedBytes, OutgoingLazy DEF Lazy
<1> HIDE DEF segs
<1>4. segments' = segs
  BY DEF WriteFault, WriteError, WriteChunk, Throw, Return, Retire, Continue, segs
<1>5. Rv32!Transfer
  BY <1>3, <1>4, TransferImplements
<1>6. CASE WriteFault
  BY <1>1, <1>5, <1>6, ProgressImplements DEF WriteFault, Throw
<1>7. CASE WriteError
  BY <1>1, <1>5, <1>7, ReturnImplements DEF WriteError
<1>8. CASE \E n \in 0 .. BufSize : WriteChunk(n)
  <2>1. PICK n \in 0 .. BufSize : WriteChunk(n)
    BY <1>8
  <2>2. n \in Nat /\ n <= Chunk /\ Continue(n, segs)
    BY <2>1, CPUAssumption DEF WriteChunk, segs
  <2> QED
    BY <1>1, <1>5, <2>2, ContinueImplements
<1> QED
  BY <1>6, <1>7, <1>8

LEMMA SetPCImplements ==
  ASSUME IInv, NEW addr \in Addr, SetPC(addr)
  PROVE  Rv32!Next
<1>1. U32(addr) \in Space
  BY MemoryAssumption, WordOfInt
<1>2. Memory' = Memory
  BY Mapped DEF SetPC
<1>3. Rv32!SetPC
  BY <1>1, <1>2, SameInstructions DEF Rv32!SetPC, SetPC, NoCall
<1> QED
  BY <1>3 DEF Rv32!Next

LEMMA ExecuteImplements ==
  ASSUME IInv, Execute
  PROVE  Advances
<1>1. CASE FetchFault
  <2>1. BytesOf(IF pc % 4 # 0 THEN segments ELSE Code) = Memory
    BY FetchBytes DEF Memory
  <2> QED
    BY <1>1, <2>1, FetchFacts, ThrowImplements DEF FetchFault
<1>2. CASE UnknownSyscall
  BY <1>2, FetchBytes, ThrowImplements DEF UnknownSyscall, Executes, Kinds
<1>3. CASE BeginRead
  BY <1>3, BeginImplements DEF BeginRead, Executes
<1>4. CASE BeginWrite
  BY <1>4, BeginImplements DEF BeginWrite, Executes
<1>5. CASE Arithmetic \/ Branch \/ Jump \/ Upper \/ Nop \/ Exit
  BY <1>5, ArithmeticImplements, BranchImplements, JumpImplements, UpperImplements,
     NopImplements, ExitImplements
<1>6. CASE LoadInstr \/ StoreInstr
  BY <1>6, LoadImplements, StoreImplements
<1> QED
  BY <1>1, <1>2, <1>3, <1>4, <1>5, <1>6 DEF Execute

LEMMA SystemCallImplements ==
  ASSUME IInv, SystemCall
  PROVE  Advances
BY ReadChunkImplements, ReadErrorImplements, WriteImplements DEF SystemCall

\* The simulator's CPU on its page table is the RV32I machine over flat memory:
\* whatever the program, every step retires one instruction with its effects in
\* full, or traps and changes nothing, or is a turn of a system call that
\* touches no byte outside the buffer of a read.
THEOREM IsaImplemented == Spec => ImplementsISA
<1>1. Init => Rv32!Init
  <2> SUFFICES ASSUME Init PROVE Rv32!Init
    OBVIOUS
  <2>1. IInv
    BY InitIInv
  <2>2. Memory \in [Space -> Byte]
    BY <2>1, BytesOfType DEF IInv, Lazy, Memory
  <2>3. pc \in Space /\ regs \in [RegIdx -> Space] /\ regs[0] = 0
    BY <2>1 DEF IInv, TypeOK
  <2> QED
    BY <2>2, <2>3, SameInstructions DEF Init, Rv32!Init
<1>2. IInv /\ [Next]_vars => [Rv32!Next]_(Rv32!vars)
  <2> SUFFICES ASSUME IInv, [Next]_vars PROVE [Rv32!Next]_(Rv32!vars)
    OBVIOUS
  <2>1. CASE Execute \/ SystemCall
    <3>1. Advances
      BY <2>1, ExecuteImplements, SystemCallImplements
    <3> QED
      BY <3>1 DEF Advances, Rv32!Next
  <2>2. CASE \E addr \in Addr : SetPC(addr)
    BY <2>2, SetPCImplements
  <2>3. CASE UNCHANGED vars
    BY <2>3, Mapped DEF vars, machine, Rv32!vars, NoCall
  <2> QED
    BY <2>1, <2>2, <2>3 DEF Next
<1>3. Init => IInv
  BY InitIInv
<1>4. IInv /\ [Next]_vars => IInv'
  BY StepIInv
<1> QED
  BY <1>1, <1>2, <1>3, <1>4, PTL DEF Spec, ImplementsISA, Rv32!Spec

-----------------------------------------------------------------------------
(***************************************************************************)
(* What a system call returns is what it has done.  The invariant follows  *)
(* the buffer over the turns of the loop: what came in, or went out, since *)
(* the call began is what it holds, from its first byte on.                *)
(***************************************************************************)

\* What total bytes transferred mean, for a read and for a write.
Received(total) ==
  /\ consumed = call.start + total
  /\ \A i \in 0 .. total - 1 : Memory[U32(regs[a1] + i)] = Input[call.start + i + 1]

Sent(total) ==
  /\ Len(output) = call.start + total
  /\ \A i \in 0 .. total - 1 : Memory[U32(regs[a1] + i)] = output[call.start + i + 1]

Transferred ==
  /\ call.kind = "read"  => Received(call.total)
  /\ call.kind = "write" => Sent(call.total)

\* What a turn leaves, n bytes after the one before it.
ReceivedMore(n) ==
  /\ consumed' = call.start + call.total + n
  /\ \A i \in 0 .. call.total + n - 1 :
       Memory'[U32(regs[a1] + i)] = Input[call.start + i + 1]

SentMore(n) ==
  /\ Len(output') = call.start + call.total + n
  /\ \A i \in 0 .. call.total + n - 1 :
       Memory'[U32(regs[a1] + i)] = output'[call.start + i + 1]

\* The registers of a call in progress.
LEMMA CallFacts ==
  ASSUME IInv, call.kind # "none"
  PROVE  /\ call.start \in Nat /\ call.total \in Nat /\ call.total < regs[a2]
         /\ regs[a1] \in Nat /\ regs[a2] \in Nat /\ regs[a2] < AddrSpace
         /\ From = regs[a1] + call.total
<1>1. regs[a1] \in Space /\ regs[a2] \in Space
  BY InstructionAssumption DEF IInv, TypeOK
<1> QED
  BY <1>1, Sizes DEF IInv, TypeOK, Space, From

\* How far a byte of the buffer lies behind where a turn takes up: bytes that
\* were transferred before are out of the turn's reach.
LEMMA BehindTurn ==
  ASSUME NEW a \in Nat, NEW total \in Nat, NEW i \in Nat,
         i < AddrSpace, total < AddrSpace
  PROVE  U32(U32(a + i) - (a + total)) =
           IF i >= total THEN i - total ELSE AddrSpace + (i - total)
<1> DEFINE q == (a + i) \div AddrSpace
           r == (a + i) % AddrSpace
<1>1. /\ AddrSpace \in Nat \ {0} /\ a + i \in Int
      /\ q \in Int /\ r \in 0 .. AddrSpace - 1 /\ a + i = q * AddrSpace + r
  BY Sizes, SMT
<1>2. U32(a + i) = r
  BY DEF U32
<1> HIDE DEF q, r
<1>3. (-q) * AddrSpace = - (q * AddrSpace) /\ q * AddrSpace \in Int
      /\ (-q - 1) * AddrSpace = - (q * AddrSpace) - AddrSpace
  BY <1>1
<1>4. CASE i >= total
  <2>1. r - (a + total) = (-q) * AddrSpace + (i - total) /\ r - (a + total) \in Int
        /\ i - total \in 0 .. AddrSpace - 1 /\ -q \in Int
    BY <1>1, <1>3, <1>4
  <2>2. (r - (a + total)) % AddrSpace = i - total
    BY <2>1, RemainderIsUnique
  <2> QED
    BY <1>2, <1>4, <2>2 DEF U32
<1>5. CASE i < total
  <2> DEFINE d == AddrSpace + (i - total)
  <2>1. r - (a + total) = (-q - 1) * AddrSpace + d /\ r - (a + total) \in Int
        /\ d \in 0 .. AddrSpace - 1 /\ -q - 1 \in Int
    BY <1>1, <1>3, <1>5
  <2> HIDE DEF d
  <2>2. (r - (a + total)) % AddrSpace = d
    BY <2>1, RemainderIsUnique
  <2> QED
    BY <1>2, <1>5, <2>2 DEF U32, d
<1> QED
  BY <1>4, <1>5

\* A turn of a read stores what the host has handed over behind what was there.
LEMMA ReadTurn ==
  ASSUME IInv, Transferred, NEW n \in 0 .. BufSize, ReadChunk(n),
         Refused("write8", From, n) = {}
  PROVE  ReceivedMore(n)
<1> DEFINE data == SubSeq(Input, consumed + 1, consumed + n)
           segs == CopyIn(From, data)
<1>1. /\ call.kind = "read" /\ n \in Nat /\ n <= Chunk
      /\ consumed \in Nat /\ consumed + n <= Len(Input) /\ Input \in Seq(Byte)
      /\ consumed' = consumed + n
  BY CPUAssumption DEF ReadChunk, IInv, TypeOK
<1>2. data \in Seq(Byte) /\ Len(data) = n
      /\ \A k \in 1 .. n : data[k] = Input[consumed + k]
  BY <1>1
<1>3. /\ call.start \in Nat /\ call.total \in Nat /\ call.total + n < AddrSpace
      /\ regs[a1] \in Nat /\ From = regs[a1] + call.total /\ From \in Nat
  BY <1>1, CallFacts, TurnFacts, Sizes
<1>4. consumed = call.start + call.total
      /\ \A i \in 0 .. call.total - 1 :
           Memory[U32(regs[a1] + i)] = Input[call.start + i + 1]
  BY <1>1 DEF Transferred, Received
<1>5. segments' = segs
  BY DEF ReadChunk, Continue, Return, Retire, Throw
<1>6. Memory' = BytesOf(segs)
  BY <1>5, Mapped
<1>7. Reached("write8", From, n) = 0 .. n - 1
  BY DEF Reached
<1> HIDE DEF data
<1>8. ASSUME NEW i \in 0 .. call.total + n - 1
      PROVE  Memory'[U32(regs[a1] + i)] = Input[call.start + i + 1]
  <2> DEFINE b == U32(regs[a1] + i)
             k == U32(b - From)
  <2>1. i \in Nat /\ i < AddrSpace /\ call.total < AddrSpace /\ regs[a1] + i \in Int
    BY SMTT(30), <1>1, <1>3, Sizes
  <2>2. b \in Space
    BY <2>1, WordOfInt
  <2>3. k = IF i >= call.total THEN i - call.total ELSE AddrSpace + (i - call.total)
    BY <1>3, <2>1, BehindTurn
  <2>4. Memory'[b] = IF k \in 0 .. n - 1 THEN data[k + 1] ELSE Memory[b]
    <3> HIDE DEF b
    <3>1. BytesOf(segs)[b] = IF k \in Reached("write8", From, Len(data))
                             THEN data[k + 1] ELSE Memory[b]
      BY <1>2, <1>3, <2>2, CopyInExact
    <3> HIDE DEF segs, k
    <3> QED
      BY <1>2, <1>6, <1>7, <3>1
  <2> HIDE DEF k, b, segs
  <2>5. CASE i >= call.total
    <3>1. k = i - call.total /\ k \in 0 .. n - 1 /\ k + 1 \in 1 .. n
      BY SMTT(30), <1>1, <1>3, <2>1, <2>3, <2>5
    <3>2. Memory'[b] = Input[consumed + (k + 1)]
      BY <1>2, <2>4, <3>1
    <3>3. consumed + (k + 1) = call.start + i + 1
      BY <1>3, <1>4, <2>1, <3>1
    <3> QED
      BY <3>2, <3>3 DEF b
  <2>6. CASE i < call.total
    <3>1. k \notin 0 .. n - 1 /\ i \in 0 .. call.total - 1
      <4>1. k = AddrSpace + (i - call.total) /\ AddrSpace \in Nat /\ n \in Nat
        BY <1>1, <1>3, <2>1, <2>3, <2>6, Sizes
      <4>2. k \in Int /\ k >= n
        BY <1>3, <2>1, <4>1
      <4> QED
        BY <1>3, <2>1, <2>6, <4>1, <4>2
    <3>2. Memory'[b] = Memory[b]
      BY <2>4, <3>1
    <3> QED
      BY <1>4, <3>1, <3>2 DEF b
  <2> QED
    BY <1>3, <2>1, <2>5, <2>6
<1>9. consumed' = call.start + call.total + n
  BY <1>1, <1>3, <1>4
<1> QED
  BY <1>8, <1>9 DEF ReceivedMore

\* A turn of a write gives the host the bytes behind those it has had.
LEMMA WriteTurn ==
  ASSUME IInv, Transferred, NEW n \in 0 .. BufSize, WriteChunk(n)
  PROVE  SentMore(n)
<1> DEFINE segs == Touched("read8", From, Chunk)
           more == CopyOut(segs, From, n)
<1>1. /\ call.kind = "write" /\ n \in Nat /\ n <= Chunk /\ output' = output \o more
      /\ Refused("read8", From, Chunk) = {}
  BY CPUAssumption DEF WriteChunk
<1>2. /\ call.start \in Nat /\ call.total \in Nat /\ call.total + n < AddrSpace
      /\ regs[a1] \in Nat /\ From = regs[a1] + call.total
      /\ From \in Nat /\ Chunk \in Nat /\ "read8" \in Ops
  BY <1>1, CallFacts, TurnFacts, Sizes DEF Ops, Reads
<1>3. Len(output) = call.start + call.total
      /\ \A i \in 0 .. call.total - 1 :
           Memory[U32(regs[a1] + i)] = output[call.start + i + 1]
  BY <1>1 DEF Transferred, Sent
<1>4. /\ segments' = segs /\ BytesOf(segs) = Memory
      /\ \A i \in 0 .. n - 1 : Tag(From + i) \in DOMAIN segs
  <2>1. segments' = segs
    BY DEF WriteChunk, Continue, Return, Retire
  <2>2. BytesOf(segs) = Memory
    BY <1>2, TouchedBytes
  <2>3. \A i \in Reached("read8", From, Chunk) : Tag(From + i) \in DOMAIN segs
    BY <1>2, TouchedLazy DEF IInv
  <2>4. Reached("read8", From, Chunk) = 0 .. Chunk - 1
    BY <1>1 DEF Reached
  <2> HIDE DEF segs
  <2> QED
    BY <1>1, <1>2, <2>1, <2>2, <2>3, <2>4
<1>5. Memory' = Memory
  BY <1>4, Mapped
<1>6. more \in Seq(Byte) /\ output \in Seq(Byte) /\ Len(more) = n
  <2>1. more \in Seq(Byte)
    BY <1>1, <1>2, CopyOutType DEF IInv
  <2>2. Len(more) = n
    BY <1>1 DEF CopyOut
  <2> QED
    BY <2>1, <2>2 DEF IInv, TypeOK
<1>7. \A k \in 1 .. n : more[k] = ByteAt(segs, From + k - 1)
  BY DEF CopyOut
<1> HIDE DEF segs, more
<1>8. ASSUME NEW i \in 0 .. call.total + n - 1
      PROVE  Memory'[U32(regs[a1] + i)] = output'[call.start + i + 1]
  <2>1. i \in Nat
    OBVIOUS
  <2>2. CASE i < call.total
    <3>1. i \in 0 .. call.total - 1 /\ call.start + i + 1 \in 1 .. Len(output)
      BY SMTT(30), <1>2, <1>3, <2>1, <2>2
    <3>2. output'[call.start + i + 1] = output[call.start + i + 1]
      BY <1>1, <1>6, <3>1
    <3> QED
      BY <1>3, <1>5, <3>1, <3>2
  <2>3. CASE i >= call.total
    <3> DEFINE k == i - call.total + 1
               x == regs[a1] + i
    <3>1. /\ k \in 1 .. n /\ k - 1 \in 0 .. n - 1 /\ x \in Nat
          /\ call.start + i + 1 = Len(output) + k
          /\ From + k - 1 = x /\ From + (k - 1) = x
      <4>1. Len(output) = call.start + call.total /\ n \in Nat
        BY <1>1, <1>3
      <4>2. i \in Nat /\ i >= call.total /\ i <= call.total + n - 1
        BY <1>2, <2>1, <2>3, <4>1
      <4>3. call.total \in Nat /\ regs[a1] \in Nat
        BY <1>2
      <4>4. k \in Int /\ 1 <= k /\ k <= n
        BY <4>1, <4>2, <4>3
      <4>5. k \in 1 .. n /\ k - 1 \in 0 .. n - 1
        <5> HIDE DEF k
        <5> QED
          BY <4>1, <4>4
      <4>6. x \in Nat
        BY <4>2, <4>3
      <4>7. call.start + i + 1 = Len(output) + k
        BY SMTT(30), <1>2, <4>1, <4>2
      <4>8. From + k - 1 = x /\ From + (k - 1) = x
        BY <1>2, <4>2
      <4> QED
        BY <4>5, <4>6, <4>7, <4>8
    <3> HIDE DEF k, x
    <3>2. output'[call.start + i + 1] = more[k]
      BY SMTT(30), <1>1, <1>6, <3>1
    <3>3. more[k] = ByteAt(segs, x) /\ Tag(x) \in DOMAIN segs
      BY <1>4, <1>7, <3>1
    <3>4. U32(x) \in Space /\ U32(U32(x)) = U32(x) /\ Tag(U32(x)) = Tag(x)
      BY <3>1, Truncated, Position DEF Tag
    <3>5. BytesOf(segs)[U32(x)] = ByteAt(segs, x)
      BY <3>3, <3>4 DEF BytesOf, ByteAt
    <3> QED
      BY <1>4, <1>5, <3>2, <3>3, <3>5 DEF x
  <2> QED
    BY <1>2, <2>1, <2>2, <2>3
<1>9. Len(output') = call.start + call.total + n
  <2>1. Len(output \o more) = Len(output) + Len(more)
    BY <1>6
  <2>2. Len(output') = call.start + call.total + Len(more)
    BY <1>1, <1>3, <2>1
  <2> QED
    BY <1>6, <2>2
<1> QED
  BY <1>8, <1>9 DEF SentMore

\* The number that a system call leaves in a0.
LEMMA CountReturned ==
  ASSUME IInv, NEW segs, NEW n \in Space, Return(n, segs)
  PROVE  regs'[a0] = n
<1>1. a0 \in RegIdx /\ a0 # 0
  BY InstructionAssumption DEF a0
<1>2. regs' = [regs EXCEPT ![a0] = U32(n)] /\ regs \in [RegIdx -> Space]
  BY <1>1 DEF Return, Retire, WriteReg, IInv, TypeOK
<1>3. U32(n) = n
  BY Position
<1> QED
  BY <1>1, <1>2, <1>3

LEMMA ErrorReturned ==
  ASSUME IInv, NEW segs, Return(-1, segs)
  PROVE  regs'[a0] = U32(-1)
<1>1. a0 \in RegIdx /\ a0 # 0
  BY InstructionAssumption DEF a0
<1> QED
  BY <1>1 DEF Return, Retire, WriteReg, IInv, TypeOK

\* The error number is the last word, which a count reaches only when the
\* whole address space is asked for.
LEMMA ErrorNumber == U32(-1) = AddrSpace - 1
<1>1. -1 = (-1) * AddrSpace + (AddrSpace - 1) /\ AddrSpace - 1 \in 0 .. AddrSpace - 1
  BY Sizes
<1> QED
  BY <1>1, RemainderIsUnique DEF U32

\* Steps that begin a call, or take it one turn further, keep track of it.
LEMMA ContinueTransferred ==
  ASSUME IInv, NEW segs, NEW n \in Nat, Continue(n, segs),
         call.kind = "read"  => ReceivedMore(n),
         call.kind = "write" => SentMore(n)
  PROVE  Transferred'
<1>1. CASE n < Chunk \/ call.total + n = regs[a2]
  BY <1>1 DEF Continue, Return, Retire, NoCall, Transferred
<1>2. CASE ~ (n < Chunk \/ call.total + n = regs[a2])
  <2>1. call' = [call EXCEPT !.total = @ + n, !.turn = ~ @] /\ regs' = regs
    BY <1>2 DEF Continue, machine
  <2>2. /\ call'.kind = call.kind /\ call'.start = call.start
        /\ call'.total = call.total + n
        /\ call.total \in Nat /\ call.start \in Nat
    BY <2>1 DEF IInv, TypeOK
  <2>3. call.start + (call.total + n) = call.start + call.total + n
    BY <2>2
  <2>4. CASE call.kind = "read"
    <3>1. consumed' = call.start + (call.total + n)
      BY <2>3, <2>4 DEF ReceivedMore
    <3>2. Received(call.total)'
      BY <2>1, <2>2, <2>4, <3>1 DEF ReceivedMore, Received
    <3> QED
      BY <2>2, <2>4, <3>2 DEF Transferred
  <2>5. CASE call.kind = "write"
    <3>1. Len(output') = call.start + (call.total + n)
      BY <2>3, <2>5 DEF SentMore
    <3>2. Sent(call.total)'
      BY <2>1, <2>2, <2>5, <3>1 DEF SentMore, Sent
    <3> QED
      BY <2>2, <2>5, <3>2 DEF Transferred
  <2>6. CASE call.kind \notin {"read", "write"}
    BY <2>2, <2>6 DEF Transferred
  <2> QED
    BY <2>4, <2>5, <2>6
<1> QED
  BY <1>1, <1>2

LEMMA SystemCallTransferred ==
  ASSUME IInv, Transferred, SystemCall
  PROVE  Transferred'
<1>1. ASSUME NEW n \in 0 .. BufSize, ReadChunk(n)
      PROVE  Transferred'
  <2> DEFINE segs == CopyIn(From, SubSeq(Input, consumed + 1, consumed + n))
  <2>1. CASE Refused("write8", From, n) = {}
    <3>1. ReceivedMore(n) /\ call.kind = "read"
      BY <1>1, <2>1, ReadTurn DEF ReadChunk
    <3>2. Continue(n, segs) /\ n \in Nat
      BY <1>1, <2>1, CPUAssumption DEF ReadChunk
    <3> HIDE DEF segs
    <3> QED
      BY <3>1, <3>2, ContinueTransferred
  <2>2. CASE Refused("write8", From, n) # {}
    BY <1>1, <2>2 DEF ReadChunk, Throw, Transferred, NoCall
  <2> QED
    BY <2>1, <2>2
<1>2. ASSUME NEW n \in 0 .. BufSize, WriteChunk(n)
      PROVE  Transferred'
  <2>1. SentMore(n) /\ call.kind = "write"
    BY <1>2, WriteTurn DEF WriteChunk
  <2>2. Continue(n, Touched("read8", From, Chunk)) /\ n \in Nat
    BY <1>2, CPUAssumption DEF WriteChunk
  <2> QED
    BY <2>1, <2>2, ContinueTransferred
<1>3. CASE ReadError \/ WriteFault \/ WriteError
  BY <1>3 DEF ReadError, WriteFault, WriteError, Throw, Return, Retire, Transferred, NoCall
<1> QED
  BY <1>1, <1>2, <1>3 DEF SystemCall

LEMMA StepTransferred ==
  ASSUME IInv, Transferred, [Next]_vars
  PROVE  Transferred'
<1>1. ASSUME NEW kind \in {"read", "write"}, NEW start, Begin(kind, start),
             kind = "read" => start = consumed, kind = "write" => start = Len(output)
      PROVE  Transferred'
  <2>1. CASE Return(0, Code)
    BY <2>1 DEF Return, Retire, NoCall, Transferred
  <2>2. CASE ~ Return(0, Code)
    <3>1. call' = [kind |-> kind, total |-> 0, start |-> start, turn |-> FALSE]
          /\ consumed' = consumed /\ output' = output
      BY <1>1, <2>2 DEF Begin, host
    <3>2. call'.kind = kind /\ call'.total = 0 /\ call'.start = start
      BY <3>1
    <3>3. consumed + 0 = consumed /\ Len(output) + 0 = Len(output)
      BY DEF IInv, TypeOK
    <3> QED
      BY <1>1, <3>1, <3>2, <3>3 DEF Transferred, Received, Sent
  <2> QED
    BY <2>1, <2>2
<1>2. CASE BeginRead \/ BeginWrite
  BY <1>1, <1>2 DEF BeginRead, BeginWrite
<1>3. CASE Execute /\ ~ (BeginRead \/ BeginWrite)
  BY <1>3 DEF Execute, FetchFault, Arithmetic, LoadInstr, StoreInstr, Branch, Jump, Upper,
              Nop, Exit, UnknownSyscall, Retire, Throw, NoCall, Transferred
<1>4. CASE \E addr \in Addr : SetPC(addr)
  BY <1>4 DEF SetPC, NoCall, Transferred
<1>5. CASE UNCHANGED vars
  BY <1>5, Mapped DEF vars, machine, host, Transferred, Received, Sent
<1>6. CASE SystemCall
  BY <1>6, SystemCallTransferred
<1> QED
  BY <1>2, <1>3, <1>4, <1>5, <1>6 DEF Next

\* What the last turn returns.
LEMMA LastTurn ==
  ASSUME IInv, call.kind # "none", NEW segs, NEW n \in Nat, n <= Chunk,
         Continue(n, segs), call' = NoCall
  PROVE  regs'[a0] = call.total + n
<1>1. call.total + n \in Space
  <2>1. call.total + n \in Nat /\ call.total + n < AddrSpace
    BY TurnFacts, CallFacts, Sizes
  <2> QED
    BY <2>1, Sizes DEF Space
<1>2. call'.kind = "none"
  BY DEF NoCall
<1>3. Return(call.total + n, segs)
  BY <1>2 DEF Continue, IInv, TypeOK
<1> QED
  BY <1>1, <1>3, CountReturned

\* A system call's count is exact, over however many turns of its loop: so many
\* bytes were read, and they are in the buffer, in order and from its start; so
\* many were written, and they are the buffer's.  A read that reports an error
\* has taken nothing, a write that does has sent what the turns before it sent,
\* which is the front of the buffer.  The hypothesis is there for the error number, 2^32 - 1,
\* which is also what a read of so many bytes would return.
THEOREM CountsExact ==
  Len(Input) < AddrSpace - 1 => (Spec => TransfersAreExact)
<1> SUFFICES ASSUME Len(Input) < AddrSpace - 1
             PROVE  Spec => TransfersAreExact
  OBVIOUS
<1> DEFINE n         == regs'[a0]
           buffer(i) == Memory'[U32(regs[a1] + i)]
           Exact == CASE call.kind = "read" ->
                           IF n = U32(-1) THEN consumed' = call.start
                           ELSE /\ consumed' = call.start + n
                                /\ \A i \in 0 .. n - 1 :
                                     buffer(i) = Input[call.start + i + 1]
                      [] call.kind = "write" ->
                           LET sent == Len(output') - call.start
                           IN /\ n = sent \/ (n = U32(-1) /\ sent = call.total)
                              /\ \A i \in 0 .. sent - 1 :
                                   buffer(i) = output'[call.start + i + 1]
<1>1. ASSUME IInv, Transferred, SystemCall, call' = NoCall, thrown' = "none"
      PROVE  Exact
  <2>1. ASSUME NEW k \in 0 .. BufSize, ReadChunk(k)
        PROVE  Exact
    <3> DEFINE segs == CopyIn(From, SubSeq(Input, consumed + 1, consumed + k))
    <3>1. Refused("write8", From, k) = {}
      BY <1>1, <2>1 DEF ReadChunk, Throw
    <3>2. /\ call.kind = "read" /\ k \in Nat /\ k <= Chunk /\ Continue(k, segs)
          /\ consumed' <= Len(Input)
      BY <2>1, <3>1, CPUAssumption DEF ReadChunk
    <3>3. ReceivedMore(k)
      BY <1>1, <2>1, <3>1, ReadTurn
    <3> HIDE DEF segs
    <3>4. n = call.total + k
      BY <1>1, <3>2, LastTurn
    <3>5. call.start \in Nat /\ call.total \in Nat /\ call.start + call.total + k = call.start + n
      BY <1>1, <3>2, <3>4, CallFacts
    <3>6. n # U32(-1)
      <4>1. call.start + n <= Len(Input) /\ n \in Nat /\ Len(Input) \in Nat
        BY <3>2, <3>3, <3>4, <3>5, CPUAssumption DEF ReceivedMore
      <4> HIDE DEF n
      <4> QED
        BY <3>5, <4>1, ErrorNumber, Sizes
    <3>7. consumed' = call.start + n
      BY <3>3, <3>5 DEF ReceivedMore
    <3>8. \A i \in 0 .. n - 1 : buffer(i) = Input[call.start + i + 1]
      <4>1. \A i \in 0 .. call.total + k - 1 : buffer(i) = Input[call.start + i + 1]
        BY <3>3 DEF ReceivedMore
      <4>2. n - 1 = call.total + k - 1
        BY <3>2, <3>4, <3>5
      <4> HIDE DEF n, buffer
      <4> QED
        BY <4>1, <4>2
    <3> HIDE DEF n, buffer
    <3> QED
      BY <3>2, <3>6, <3>7, <3>8
  <2>2. ASSUME NEW k \in 0 .. BufSize, WriteChunk(k)
        PROVE  Exact
    <3>1. /\ call.kind = "write" /\ k \in Nat /\ k <= Chunk
          /\ Continue(k, Touched("read8", From, Chunk))
      BY <2>2, CPUAssumption DEF WriteChunk
    <3>2. SentMore(k)
      BY <1>1, <2>2, WriteTurn
    <3>3. n = call.total + k
      BY <1>1, <3>1, LastTurn
    <3>4. call.start + call.total + k = call.start + n
      BY <1>1, <3>1, <3>3, CallFacts
    <3>5. Len(output') - call.start = n
      <4>1. Len(output') = call.start + n /\ call.start \in Nat /\ n \in Nat
        BY <1>1, <3>1, <3>2, <3>3, <3>4, CallFacts DEF SentMore
      <4> HIDE DEF n
      <4> QED
        BY <4>1
    <3>6. \A i \in 0 .. (Len(output') - call.start) - 1 : buffer(i) = output'[call.start + i + 1]
      <4>1. \A i \in 0 .. call.total + k - 1 : buffer(i) = output'[call.start + i + 1]
        BY <3>2 DEF SentMore
      <4>2. (Len(output') - call.start) - 1 = call.total + k - 1
        BY <1>1, <3>1, <3>3, <3>5, CallFacts
      <4> HIDE DEF n, buffer
      <4> QED
        BY <4>1, <4>2
    <3> HIDE DEF n, buffer
    <3> QED
      BY <3>1, <3>5, <3>6
  <2>3. CASE ReadError
    <3>1. call.kind = "read" /\ consumed' = consumed /\ segments' = segments
          /\ Return(IF call.total = 0 THEN -1 ELSE call.total, segments)
      BY <2>3 DEF ReadError, host, Return, Retire
    <3>2. /\ call.total \in Nat /\ call.start \in Nat /\ call.total < regs[a2]
          /\ regs[a2] \in Nat /\ regs[a2] < AddrSpace
      BY <1>1, <3>1, CallFacts
    <3>3. Received(call.total)
      BY <1>1, <3>1 DEF Transferred
    <3>4. CASE call.total = 0
      <4>1. n = U32(-1)
        BY <1>1, <3>1, <3>4, ErrorReturned
      <4>2. consumed' = call.start
        BY <3>1, <3>2, <3>3, <3>4 DEF Received
      <4> QED
        BY <3>1, <4>1, <4>2
    <3>5. CASE call.total # 0
      <4>1. n = call.total
        <5>1. call.total \in Space
          BY <3>2, Sizes DEF Space
        <5> QED
          BY <1>1, <3>1, <3>5, <5>1, CountReturned
      <4>2. n # U32(-1)
        <5>1. n \in Nat /\ n < regs[a2]
          BY <3>2, <4>1
        <5> HIDE DEF n
        <5> QED
          BY <3>2, <5>1, ErrorNumber, Sizes
      <4>3. Memory' = Memory
        BY <3>1, Mapped
      <4>4. /\ consumed' = call.start + n
            /\ \A i \in 0 .. n - 1 : buffer(i) = Input[call.start + i + 1]
        BY <3>1, <3>3, <4>1, <4>3 DEF Received
      <4> QED
        BY <3>1, <4>2, <4>4
    <3> QED
      BY <3>4, <3>5
  <2>4. CASE WriteError
    <3>1. call.kind = "write" /\ Return(-1, Touched("read8", From, Chunk))
      BY <2>4 DEF WriteError
    <3>2. n = U32(-1)
      BY <1>1, <3>1, ErrorReturned
    <3>3. Sent(call.total)
      BY <1>1, <3>1 DEF Transferred
    <3>4. output' = output /\ Memory' = Memory
      <4>1. output' = output /\ segments' = Touched("read8", From, Chunk)
        BY <2>4 DEF WriteError, host, Return, Retire
      <4>2. From \in Nat /\ Chunk \in Nat /\ "read8" \in Ops
        BY <1>1, <3>1, CallFacts, TurnFacts DEF Ops, Reads
      <4>3. BytesOf(Touched("read8", From, Chunk)) = Memory
        BY <1>1, <4>2, TouchedBytes DEF IInv
      <4> QED
        BY <4>1, <4>3, Mapped
    <3>5. Len(output') - call.start = call.total
      <4>1. Len(output') = call.start + call.total /\ call.start \in Nat /\ call.total \in Nat
        BY <1>1, <3>1, <3>3, <3>4, CallFacts DEF Sent
      <4> QED
        BY <4>1
    <3>6. \A i \in 0 .. call.total - 1 : buffer(i) = output'[call.start + i + 1]
      BY <3>3, <3>4 DEF Sent
    <3> HIDE DEF n, buffer
    <3> QED
      BY <3>1, <3>2, <3>5, <3>6
  <2>5. ~ WriteFault
    BY <1>1 DEF WriteFault, Throw
  <2> QED
    BY <1>1, <2>1, <2>2, <2>3, <2>4, <2>5 DEF SystemCall
<1> HIDE DEF Exact
<1>2. IInv /\ Transferred /\ [Next]_vars =>
        [call # NoCall /\ call' = NoCall /\ thrown' = "none" => Exact]_vars
  <2>1. Execute => call = NoCall
    BY DEF Execute, FetchFault, Arithmetic, LoadInstr, StoreInstr, Branch, Jump, Upper, Nop,
           Exit, UnknownSyscall, BeginRead, BeginWrite, Executes
  <2>2. \A addr \in Addr : SetPC(addr) => call = NoCall
    BY DEF SetPC
  <2> QED
    BY <1>1, <2>1, <2>2 DEF Next
<1>3. Init => IInv /\ Transferred
  BY InitIInv DEF Init, NoCall, Transferred
<1>4. IInv /\ Transferred /\ [Next]_vars => IInv' /\ Transferred'
  BY StepIInv, StepTransferred
<1> QED
  BY <1>2, <1>3, <1>4, PTL DEF Spec, TransfersAreExact, Exact

-----------------------------------------------------------------------------
(***************************************************************************)
(* A fault repeats.  The invariant says why the last step threw, in terms  *)
(* of the state it left behind: what threw will throw again.  For a system *)
(* call that is only so when its ecall is still there after the bytes it   *)
(* has read: when no page is both executable and writable.                 *)
(***************************************************************************)
SeparateRights ==
  \A p \in Programs : /\ ~ {"w", "x"} \subseteq p.code.rights
                      /\ ~ {"w", "x"} \subseteq p.data.rights

Separate == \A t \in loaded : ~ {"w", "x"} \subseteq segments[t].rights

\* At an ecall that begins a read or a write of at least one byte.
AtTransfer ==
  /\ Fetch = "ok" /\ Instr.type = "ECALL"
  /\ regs[a7] \in {SysRead, SysWrite} /\ regs[a2] > 0

Calling == call.kind # "none" => AtTransfer

\* What the access of the instruction at the pc comes to.
AccessOutcome ==
  LET op == Accessor(Instr.type)
  IN OutcomeIn(GetSeg(Code, op, Address), op, Address)

Again ==
  thrown # "none" =>
    /\ call = NoCall
    /\ \/ Fetch = thrown
       \/ Fetch = "ok" /\ Instr.type \in Loads \cup Stores /\ AccessOutcome = thrown
       \/ /\ Fetch = "ok" /\ Instr.type = "ECALL" /\ thrown = "UnknownSyscall"
          /\ regs[a7] \notin {SysRead, SysWrite, SysExit}
       \/ AtTransfer

FInv == Separate /\ Calling /\ Again

\* get_seg leaves a table that has the page alone.
LEMMA GetSegThere ==
  ASSUME NEW segs, Table(segs), NEW op, NEW a, Tag(a) \in DOMAIN segs
  PROVE  GetSeg(segs, op, a) = segs
<1>1. segs = [t \in DOMAIN segs |-> segs[t]] /\ DOMAIN segs \cup {Tag(a)} = DOMAIN segs
  BY DEF Table
<1>2. GetSeg(segs, op, a) =
        [t \in DOMAIN segs \cup {Tag(a)} |->
           IF t \in DOMAIN segs THEN segs[t] ELSE ZeroPage(Need(op))]
  BY DEF GetSeg, CreatePage
<1> QED
  BY <1>1, <1>2

\* While the page of the pc stays as it is, the same is fetched.
LEMMA FetchAgain ==
  ASSUME Table(segments'), pc' = pc, Tag(pc) \in DOMAIN segments',
         segments'[Tag(pc)] = Code[Tag(pc)]
  PROVE  Code' = segments' /\ Fetch' = Fetch /\ Instr' = Instr
<1> DEFINE segs == segments'
           at   == pc
<1>1. Code' = GetSeg(segs, "read_instr32", at)
  BY DEF Code, GetSeg
<1>2. Code' = segs
  BY <1>1, GetSegThere
<1>3. OutcomeIn(segs, "read_instr32", at) = OutcomeIn(Code, "read_instr32", pc)
  BY DEF OutcomeIn, Permitted
<1>4. ValueAt(segs, "read_instr32", at) = ValueAt(Code, "read_instr32", pc)
  BY DEF ValueAt
<1>5. OutcomeIn(Code, "read_instr32", pc)' = OutcomeIn(segs, "read_instr32", at)
  BY <1>2 DEF OutcomeIn, Permitted, Offset, Tag
<1>6. ValueAt(Code, "read_instr32", pc)' = ValueAt(segs, "read_instr32", at)
  BY <1>2 DEF ValueAt, Offset, Tag
<1>7. Instr' = Instr
  BY <1>4, <1>6 DEF Instr
<1> HIDE DEF segs, at
<1>8. Fetch' = Fetch
  BY <1>3, <1>5, <1>7 DEF Fetch
<1> QED
  BY <1>2, <1>7, <1>8 DEF segs

\* So it is for a step that throws before it has stored anything.
LEMMA ThrowAgain ==
  ASSUME IInv, NEW kind, NEW segs, Table(segs), Throw(kind, segs),
         Tag(pc) \in DOMAIN segs, segs[Tag(pc)] = Code[Tag(pc)]
  PROVE  /\ Code' = segs /\ Fetch' = Fetch /\ Instr' = Instr /\ regs' = regs
         /\ Address' = Address /\ thrown' = kind /\ call' = NoCall
<1>1. segments' = segs /\ pc' = pc /\ regs' = regs /\ thrown' = kind /\ call' = NoCall
  BY DEF Throw, machine
<1>2. Code' = segs /\ Fetch' = Fetch /\ Instr' = Instr
  BY <1>1, FetchAgain
<1>3. Address' = Address
  BY <1>1, <1>2 DEF Address
<1> QED
  BY <1>1, <1>2, <1>3

LEMMA FetchFaultAgain ==
  ASSUME IInv, FetchFault
  PROVE  Again'
<1>1. Lazy(Code) /\ Lazy(segments) /\ Tag(pc) \in DOMAIN Code
  BY FetchFacts DEF IInv, Code, GetSeg, CreatePage
<1>2. CASE pc % 4 # 0
  <2>1. pc' = pc /\ thrown' = Fetch /\ call' = NoCall
    BY <1>2 DEF FetchFault, Throw, machine
  <2>2. Fetch' = "InstructionAddressMisaligned" /\ Fetch = "InstructionAddressMisaligned"
    BY <1>2, <2>1 DEF Fetch
  <2> QED
    BY <2>1, <2>2 DEF Again, NoCall
<1>3. CASE pc % 4 = 0
  <2>1. Throw(Fetch, Code)
    BY <1>3 DEF FetchFault
  <2>2. Fetch' = Fetch /\ thrown' = Fetch /\ call' = NoCall
    BY <1>1, <2>1, ThrowAgain DEF Lazy
  <2> QED
    BY <2>2 DEF Again, NoCall
<1> QED
  BY <1>2, <1>3

\* A load or a store at fault has created the page it is refused.
LEMMA AccessFaultAgain ==
  ASSUME IInv, LoadInstr \/ StoreInstr, thrown' # "none"
  PROVE  Again'
<1> DEFINE op   == Accessor(Instr.type)
           segs == GetSeg(Code, op, Address)
           res  == OutcomeIn(segs, op, Address)
<1>1. Fetch = "ok" /\ Instr.type \in Loads \cup Stores /\ Throw(res, segs)
  BY DEF LoadInstr, StoreInstr, Executes, Retire
<1>2. op \in Ops /\ Address \in Nat
  BY <1>1, OperandTypes DEF Accessor, Loads, Stores, Ops, Reads, Writes
<1>3. Lazy(segs) /\ Tag(Address) \in DOMAIN segs
  BY <1>2, FetchFacts, GetSegLazy
<1>4. Tag(pc) \in DOMAIN segs /\ segs[Tag(pc)] = Code[Tag(pc)]
  BY DEF GetSeg, CreatePage, Code
<1> HIDE DEF segs
<1>5. /\ Code' = segs /\ Fetch' = "ok" /\ Instr' = Instr /\ Address' = Address
      /\ thrown' = res /\ call' = NoCall
  BY <1>1, <1>3, <1>4, ThrowAgain DEF Lazy
<1>6. GetSeg(segs, op, Address) = segs
  BY <1>3, GetSegThere DEF Lazy
<1>7. AccessOutcome' = res
  <2>1. GetSeg(Code, op, Address)' = GetSeg(segs, op, Address)
    BY <1>5 DEF GetSeg, Tag
  <2> QED
    BY <1>5, <1>6, <2>1 DEF AccessOutcome, OutcomeIn, Permitted, Offset, Tag
<1> QED
  BY <1>1, <1>5, <1>7 DEF Again, NoCall

LEMMA UnknownSyscallAgain ==
  ASSUME IInv, UnknownSyscall
  PROVE  Again'
<1>1. /\ Fetch = "ok" /\ Instr.type = "ECALL" /\ regs[a7] \notin {SysRead, SysWrite, SysExit}
      /\ Throw("UnknownSyscall", Code)
  BY DEF UnknownSyscall, Executes
<1>2. Lazy(Code) /\ Tag(pc) \in DOMAIN Code
  BY FetchFacts DEF Code, GetSeg, CreatePage
<1>3. /\ Fetch' = "ok" /\ Instr' = Instr /\ regs' = regs
      /\ thrown' = "UnknownSyscall" /\ call' = NoCall
  BY <1>1, <1>2, ThrowAgain DEF Lazy
<1> QED
  BY <1>1, <1>3 DEF Again, NoCall

\* A page without the right to be written is not written by a read.
LEMMA CopyInSpares ==
  ASSUME IInv, NEW a \in Nat, NEW data \in Seq(Byte),
         NEW t \in DOMAIN segments, t \in 0 .. PageCount - 1,
         "w" \notin segments[t].rights
  PROVE  t \in DOMAIN CopyIn(a, data) /\ CopyIn(a, data)[t] = segments[t]
<1> DEFINE segs    == Touched("write8", a, Len(data))
           reached == Reached("write8", a, Len(data))
           at(p)   == U32(t * PageSize + p - a)
           bytes   == [p \in InPage |-> IF at(p) \in reached
                                        THEN data[at(p) + 1] ELSE segs[t].data[p]]
<1>1. "write8" \in Ops /\ Len(data) \in Nat /\ Need("write8") = {"w"}
  BY DEF Ops, Writes, Need
<1>2. t \in DOMAIN segs /\ segs[t] = segments[t]
  BY <1>1, TouchedLazy DEF IInv
<1>3. t \in DOMAIN CopyIn(a, data) /\ CopyIn(a, data)[t] = [segs[t] EXCEPT !.data = bytes]
  BY <1>2 DEF CopyIn
<1>4. ASSUME NEW p \in InPage
      PROVE  at(p) \notin reached
  <2>1. SUFFICES ASSUME at(p) \in reached PROVE FALSE
    OBVIOUS
  <2>2. Tag(a + at(p)) = t
    BY PageOfDistance
  <2>3. a + at(p) \in Nat /\ OutcomeOf(segments, "write8", a + at(p)) = "ok"
    BY <2>1, ReachedFacts
  <2>4. {"w"} \subseteq GetSeg(segments, "write8", a + at(p))[t].rights
    BY <1>1, <2>2, <2>3, OutcomeFacts DEF OutcomeOf, Permitted
  <2>5. GetSeg(segments, "write8", a + at(p))[t] = segments[t]
    BY <2>2 DEF GetSeg, CreatePage
  <2> QED
    BY <2>4, <2>5
<1>5. segments[t] \in Page
  BY DEF IInv, Lazy, Table
<1>6. bytes = segments[t].data
  <2>1. segments[t].data \in [InPage -> Byte]
    BY <1>5 DEF Page
  <2> HIDE DEF at, reached, segs
  <2>2. bytes = [p \in InPage |-> segments[t].data[p]]
    BY <1>2, <1>4
  <2> HIDE DEF bytes
  <2> QED
    BY <2>1, <2>2
<1> HIDE DEF bytes, segs
<1> QED
  BY <1>2, <1>3, <1>5, <1>6 DEF Page

\* No turn of a system call changes its own ecall.
LEMMA EcallStays ==
  ASSUME IInv, Separate, call.kind # "none", Fetch = "ok", SystemCall
  PROVE  Tag(pc) \in DOMAIN segments' /\ segments'[Tag(pc)] = Code[Tag(pc)]
<1> DEFINE t == Tag(pc)
<1>1. /\ pc \in Nat /\ t \in loaded /\ t \in DOMAIN segments
      /\ "x" \in segments[t].rights /\ t \in 0 .. PageCount - 1
  BY FetchFacts, TagFacts DEF IInv, Lazy
<1>2. "w" \notin segments[t].rights
  BY <1>1 DEF Separate
<1>3. Code[t] = segments[t]
  BY <1>1 DEF Code, GetSeg, CreatePage
<1> HIDE DEF t
<1>4. ASSUME NEW n \in 0 .. BufSize, ReadChunk(n)
      PROVE  t \in DOMAIN segments' /\ segments'[t] = segments[t]
  <2> DEFINE data == SubSeq(Input, consumed + 1, consumed + n)
  <2>1. segments' = CopyIn(From, data)
    BY <1>4 DEF ReadChunk, Continue, Return, Retire, Throw
  <2>2. n \in Nat /\ consumed \in Nat /\ consumed + n <= Len(Input) /\ Input \in Seq(Byte)
    BY <1>4, CPUAssumption DEF ReadChunk, IInv, TypeOK
  <2>3. data \in Seq(Byte)
    BY <2>2
  <2> HIDE DEF data
  <2>4. From \in Nat
    BY TurnFacts
  <2>5. t \in DOMAIN CopyIn(From, data) /\ CopyIn(From, data)[t] = segments[t]
    BY <1>1, <1>2, <2>3, <2>4, CopyInSpares
  <2> QED
    BY <2>1, <2>5
<1>5. ASSUME ReadError
      PROVE  t \in DOMAIN segments' /\ segments'[t] = segments[t]
  BY <1>1, <1>5 DEF ReadError, Return, Retire
<1>6. ASSUME WriteFault \/ WriteError \/ \E n \in 0 .. BufSize : WriteChunk(n)
      PROVE  t \in DOMAIN segments' /\ segments'[t] = segments[t]
  <2>1. segments' = Touched("read8", From, Chunk)
    BY <1>6 DEF WriteFault, WriteError, WriteChunk, Continue, Return, Retire, Throw
  <2>2. "read8" \in Ops /\ From \in Nat /\ Chunk \in Nat
    BY TurnFacts DEF Ops, Reads
  <2> QED
    <3>1. Lazy(segments)
      BY DEF IInv
    <3>2. \A u \in DOMAIN segments : /\ u \in DOMAIN Touched("read8", From, Chunk)
                                    /\ Touched("read8", From, Chunk)[u] = segments[u]
      BY <2>2, <3>1, TouchedLazy
    <3> QED
      BY <1>1, <2>1, <3>2
<1>7. t \in DOMAIN segments' /\ segments'[t] = segments[t]
  BY <1>4, <1>5, <1>6 DEF SystemCall
<1> QED
  BY <1>3, <1>7 DEF t

\* As long as it does not return, the machine stays at the ecall.
LEMMA AtTransferStays ==
  ASSUME AtTransfer, UNCHANGED machine, Table(segments'),
         Tag(pc) \in DOMAIN segments', segments'[Tag(pc)] = Code[Tag(pc)]
  PROVE  AtTransfer'
<1>1. Fetch' = Fetch /\ Instr' = Instr /\ regs' = regs
  BY FetchAgain DEF machine
<1> QED
  BY <1>1 DEF AtTransfer

LEMMA StepSeparate ==
  ASSUME IInv, Separate, Execute \/ SystemCall
  PROVE  Separate'
<1>1. loaded' = loaded
      /\ \A t \in DOMAIN segments : segments'[t].rights = segments[t].rights
  BY StepKeeps DEF Keeps
<1> QED
  BY <1>1 DEF Separate, IInv, Lazy

LEMMA SystemCallFInv ==
  ASSUME IInv, IInv', FInv, SystemCall
  PROVE  FInv'
<1>1. call.kind # "none"
  BY DEF SystemCall, ReadChunk, ReadError, WriteFault, WriteChunk, WriteError
<1>2. AtTransfer
  BY <1>1 DEF FInv, Calling
<1>3. Tag(pc) \in DOMAIN segments' /\ segments'[Tag(pc)] = Code[Tag(pc)] /\ Table(segments')
  <2>1. Table(segments')
    BY DEF IInv, Lazy, Table
  <2> QED
    BY <1>1, <1>2, <2>1, EcallStays DEF FInv, AtTransfer
<1>4. UNCHANGED machine => AtTransfer'
  BY <1>2, <1>3, AtTransferStays
<1>5. \/ thrown' = "none" /\ call' = NoCall
      \/ thrown' = "none" /\ UNCHANGED machine
      \/ UNCHANGED machine /\ call' = NoCall
  BY DEF SystemCall, ReadChunk, ReadError, WriteFault, WriteChunk, WriteError, Continue,
         Return, Retire, Throw
<1>6. Calling' /\ Again'
  BY <1>4, <1>5 DEF Calling, Again, NoCall
<1> QED
  BY <1>6, StepSeparate DEF FInv

LEMMA BeginFInv ==
  ASSUME IInv, Fetch = "ok", Instr.type = "ECALL", regs[a7] \in {SysRead, SysWrite},
         NEW kind, NEW start, Begin(kind, start)
  PROVE  Calling' /\ Again'
<1>1. CASE Return(0, Code)
  BY <1>1 DEF Return, Retire, Calling, Again, NoCall
<1>2. CASE ~ Return(0, Code)
  <2>1. /\ regs[a2] > 0 /\ segments' = Code /\ thrown' = "none" /\ UNCHANGED machine
    BY <1>2 DEF Begin
  <2>2. Table(segments') /\ Tag(pc) \in DOMAIN segments'
    BY <2>1, FetchFacts DEF Lazy, Code, GetSeg, CreatePage
  <2>3. AtTransfer'
    BY <2>1, <2>2, AtTransferStays DEF AtTransfer
  <2> QED
    BY <2>1, <2>3 DEF Calling, Again
<1> QED
  BY <1>1, <1>2

LEMMA ExecuteFInv ==
  ASSUME IInv, FInv, Execute
  PROVE  FInv'
<1>1. ASSUME BeginRead \/ BeginWrite
      PROVE  Calling' /\ Again'
  BY <1>1, BeginFInv DEF BeginRead, BeginWrite, Executes
<1>2. ASSUME ~ (BeginRead \/ BeginWrite)
      PROVE  Calling' /\ Again'
  <2>1. call' = NoCall
    BY <1>2 DEF Execute, FetchFault, Arithmetic, LoadInstr, StoreInstr, Branch, Jump, Upper,
                Nop, Exit, UnknownSyscall, Retire, Throw
  <2>2. thrown' # "none" => FetchFault \/ LoadInstr \/ StoreInstr \/ UnknownSyscall
    BY <1>2 DEF Execute, Arithmetic, Branch, Jump, Upper, Nop, Exit, Retire
  <2>3. thrown' # "none" => Again'
    BY <2>2, FetchFaultAgain, AccessFaultAgain, UnknownSyscallAgain
  <2>4. thrown' = "none" => Again'
    BY DEF Again
  <2>5. Calling'
    BY <2>1 DEF Calling, NoCall
  <2> QED
    BY <2>3, <2>4, <2>5
<1> QED
  BY <1>1, <1>2, StepSeparate DEF FInv

LEMMA StepFInv ==
  ASSUME IInv, IInv', FInv, [Next]_vars
  PROVE  FInv'
<1>1. CASE \E addr \in Addr : SetPC(addr)
  BY <1>1 DEF SetPC, FInv, Separate, Calling, Again, NoCall
<1>2. CASE UNCHANGED vars
  <2>1. /\ segments' = segments /\ pc' = pc /\ regs' = regs /\ thrown' = thrown
        /\ call' = call /\ loaded' = loaded
    BY <1>2 DEF vars, machine
  <2>2. Code' = Code
    BY <2>1 DEF Code, GetSeg, Tag
  <2>3. Instr' = Instr /\ OutcomeIn(Code, "read_instr32", pc)' =
                            OutcomeIn(Code, "read_instr32", pc)
    BY <2>1, <2>2 DEF Instr, ValueAt, OutcomeIn, Permitted, Offset, Tag
  <2>4. Fetch' = Fetch
    BY <2>1, <2>3 DEF Fetch
  <2>5. Address' = Address
    BY <2>1, <2>3 DEF Address
  <2>6. AccessOutcome' = AccessOutcome
    BY <2>2, <2>3, <2>5
       DEF AccessOutcome, GetSeg, OutcomeIn, Permitted, Offset, Tag
  <2> QED
    BY <2>1, <2>3, <2>4, <2>6 DEF FInv, Separate, Calling, Again, AtTransfer, NoCall
<1> QED
  BY <1>1, <1>2, ExecuteFInv, SystemCallFInv DEF Next

\* The loaded segments are apart, page for page, and keep their rights.
LEMMA InitFInv ==
  ASSUME SeparateRights, Init
  PROVE  FInv
<1>1. PICK p \in Programs : segments = Image(Aligned(p.code), Aligned(p.data))
  BY DEF Init
<1>2. p.code \in SegmentInfo /\ p.data \in SegmentInfo
  BY CPUAssumption, MemoryAssumption
<1> DEFINE empty == [t \in {} |-> {}]
           first == WithSegment(empty, Aligned(p.code))
<1>3. \A t \in DOMAIN first : first[t].rights = p.code.rights
  BY DEF WithSegment, SegmentPage, Aligned
<1> HIDE DEF first
<1>4. \A t \in DOMAIN segments :
        segments[t].rights = p.code.rights \/ segments[t].rights = p.data.rights
  <2>1. segments = WithSegment(first, Aligned(p.data))
    BY <1>1 DEF Image, first
  <2> QED
    BY <1>3, <2>1 DEF WithSegment, SegmentPage, Aligned
<1>5. Separate
  BY <1>4 DEF Init, Separate, SeparateRights
<1> QED
  BY <1>5 DEF FInv, Init, Calling, Again, NoCall

\* What a step does after a fault, in terms of the invariant.
LEMMA FaultRepeats ==
  ASSUME IInv, FInv, thrown # "none", Execute
  PROVE  thrown' = thrown \/ call' # NoCall
<1>1. thrown # "ok"
  BY DEF IInv, TypeOK, AccessFaults
<1>2. CASE Fetch = thrown
  BY <1>1, <1>2 DEF Execute, FetchFault, Arithmetic, LoadInstr, StoreInstr, Branch, Jump,
       Upper, Nop, Exit, UnknownSyscall, BeginRead, BeginWrite, Executes, Throw
<1>3. CASE Fetch = "ok" /\ Instr.type \in Loads \cup Stores /\ AccessOutcome = thrown
  <2>1. LoadInstr \/ StoreInstr
    BY <1>3 DEF Execute, FetchFault, Arithmetic, Branch, Jump, Upper, Nop, Exit,
         UnknownSyscall, BeginRead, BeginWrite, Executes, RTypes, ITypes, Loads, Stores,
         Branches, Jumps, Uppers, Nops
  <2> QED
    BY <1>1, <1>3, <2>1 DEF LoadInstr, StoreInstr, Throw, AccessOutcome
<1>4. CASE Fetch = "ok" /\ Instr.type = "ECALL"
  <2>1. Exit \/ UnknownSyscall \/ BeginRead \/ BeginWrite
    BY <1>4 DEF Execute, FetchFault, Arithmetic, LoadInstr, StoreInstr, Branch, Jump, Upper,
         Nop, Executes, RTypes, ITypes, Loads, Stores, Branches, Jumps, Uppers, Nops
  <2>2. CASE thrown = "UnknownSyscall" /\ regs[a7] \notin {SysRead, SysWrite, SysExit}
    BY <2>1, <2>2 DEF Exit, UnknownSyscall, BeginRead, BeginWrite, Throw
  <2>3. CASE AtTransfer
    <3>1. \E kind \in {"read", "write"} : \E start : Begin(kind, start)
      BY <2>1, <2>3 DEF AtTransfer, Exit, UnknownSyscall, BeginRead, BeginWrite, SysRead,
                        SysWrite, SysExit
    <3>2. PICK kind \in {"read", "write"} : \E start : Begin(kind, start)
      BY <3>1
    <3>3. regs[a2] # 0
      BY <2>3 DEF AtTransfer
    <3>4. call'.kind = kind
      BY <3>2, <3>3 DEF Begin
    <3> QED
      BY <3>4 DEF NoCall
  <2> QED
    BY <1>1, <1>4, <2>2, <2>3 DEF FInv, Again, Loads, Stores
<1> QED
  BY <1>2, <1>3, <1>4 DEF FInv, Again, AtTransfer

\* An instruction that has thrown throws the same again when it is executed
\* again, though the first attempt may have created its page: the lazily
\* created page never turns one fault into another or into success.  A system
\* call at fault begins again.  The hypothesis is needed: what a read stores
\* over its own ecall is executed next.
THEOREM FaultsAgain == SeparateRights => (Spec => FaultsRepeat)
<1> SUFFICES ASSUME SeparateRights PROVE Spec => FaultsRepeat
  OBVIOUS
<1>1. IInv /\ FInv /\ [Next]_vars =>
        [thrown # "none" /\ Execute => thrown' = thrown \/ call' # NoCall]_vars
  BY FaultRepeats
<1>2. Init => IInv /\ FInv
  BY InitIInv, InitFInv
<1>3. IInv /\ FInv /\ [Next]_vars => IInv' /\ FInv'
  BY StepIInv, StepFInv
<1> QED
  BY <1>1, <1>2, <1>3, PTL DEF Spec, FaultsRepeat

-----------------------------------------------------------------------------
(***************************************************************************)
(* What bounds a system call.                                              *)
(***************************************************************************)
\* A turn that is not the last has moved a whole buffer, on the way to the same
\* count, and left the machine at its ecall.
FullTurn ==
  /\ UNCHANGED machine /\ call'.kind = call.kind
  /\ call'.total = call.total + BufSize /\ call'.total < regs[a2]

\* A transfer ends only by returning, or makes all the progress a turn can make:
\* the chunks of syscall_read and syscall_write never shrink before the last.
TurnsAreFull == [][call # NoCall /\ call' # NoCall => FullTurn]_vars

LEMMA ContinueFull ==
  ASSUME IInv, call.kind # "none", NEW segs, NEW n \in Nat, n <= Chunk, Continue(n, segs),
         call' # NoCall
  PROVE  FullTurn
<1>1. /\ n = Chunk /\ call.total + n # regs[a2]
      /\ call' = [call EXCEPT !.total = @ + n, !.turn = ~ @] /\ UNCHANGED machine
  <2>1. ~ Return(call.total + n, segs)
    BY DEF Return, Retire
  <2>2. ~ (n < Chunk \/ call.total + n = regs[a2])
    BY <2>1 DEF Continue
  <2> QED
    BY <2>2, TurnFacts DEF Continue
<1>2. /\ call.total \in Nat /\ regs[a2] \in Nat /\ call.total + Chunk <= regs[a2]
      /\ Chunk \in 1 .. BufSize
  BY TurnFacts
<1>3. Chunk = BufSize
  <2>1. regs[a2] - call.total <= BufSize => Chunk = regs[a2] - call.total
    BY DEF Chunk
  <2>2. ~ (regs[a2] - call.total <= BufSize) => Chunk = BufSize
    BY DEF Chunk
  <2> QED
    BY <1>1, <1>2, <2>1, <2>2
<1>4. call'.kind = call.kind /\ call'.total = call.total + n
  BY <1>1 DEF IInv, TypeOK
<1> QED
  BY <1>1, <1>2, <1>3, <1>4 DEF FullTurn

\* handle_read and handle_write go round again only after a whole buffer, so
\* that they end after at most a2 / BufSize + 1 turns, whatever the host
\* answers and for any size of the buffer: what CallsEnd says of small ones, but
\* for the host's answering at all.
THEOREM CallsAreBounded == Spec => TurnsAreFull
<1>1. ASSUME IInv, Next, call # NoCall, call' # NoCall
      PROVE  FullTurn
  <2>1. SystemCall
    BY <1>1 DEF Next, SetPC, Execute, FetchFault, Arithmetic, LoadInstr, StoreInstr, Branch,
                Jump, Upper, Nop, Exit, UnknownSyscall, BeginRead, BeginWrite, Executes
  <2>2. ~ ReadError /\ ~ WriteFault /\ ~ WriteError
    BY <1>1 DEF ReadError, WriteFault, WriteError, Return, Retire, Throw
  <2>3. PICK n \in 0 .. BufSize : ReadChunk(n) \/ WriteChunk(n)
    BY <2>1, <2>2 DEF SystemCall
  <2>4. /\ call.kind # "none" /\ n \in Nat /\ n <= Chunk
        /\ \E segs : Continue(n, segs)
    BY <1>1, <2>3, CPUAssumption DEF ReadChunk, WriteChunk, Throw
  <2> QED
    BY <1>1, <2>4, ContinueFull
<1>2. IInv /\ [Next]_vars => [call # NoCall /\ call' # NoCall => FullTurn]_vars
  BY <1>1
<1>3. Init => IInv
  BY InitIInv
<1>4. IInv /\ [Next]_vars => IInv'
  BY StepIInv
<1> QED
  BY <1>2, <1>3, <1>4, PTL DEF Spec, TurnsAreFull

-----------------------------------------------------------------------------
(***************************************************************************)
(* What bounds the memory of a program.                                    *)
(***************************************************************************)
\* The pages in reach of the next step: those of the buffer that a turn of a
\* system call moves, that of the instruction when it cannot be fetched, that
\* of the operand of a load or store, and else none.
Addressed ==
  IF call # NoCall THEN {Tag(From + i) : i \in 0 .. Chunk - 1}
  ELSE IF Fetch # "ok" THEN {Tag(pc)}
  ELSE IF Instr.type \in Loads \cup Stores THEN {Tag(Address)}
  ELSE {}

\* A step of the CPU adds to the page table at most the pages it addresses, though
\* get_seg adds one for every access that meets none.
MapsWhatItAddresses == [][DOMAIN segments' \subseteq DOMAIN segments \cup Addressed]_vars

\* An instruction that can be fetched lies in a page that is there.
LEMMA CodeIsThere ==
  ASSUME IInv
  PROVE  /\ DOMAIN Code \subseteq DOMAIN segments \cup {Tag(pc)}
         /\ Fetch = "ok" => DOMAIN Code \subseteq DOMAIN segments
<1>1. DOMAIN Code = DOMAIN segments \cup {Tag(pc)}
  BY DEF Code, GetSeg, CreatePage
<1>2. Fetch = "ok" => Tag(pc) \in DOMAIN segments
  BY FetchFacts DEF IInv, TypeOK
<1> QED
  BY <1>1, <1>2

LEMMA ExecuteMaps ==
  ASSUME IInv, Execute
  PROVE  DOMAIN segments' \subseteq DOMAIN segments \cup Addressed
<1>1. call = NoCall
  BY DEF Execute, FetchFault, Arithmetic, LoadInstr, StoreInstr, Branch, Jump, Upper, Nop,
         Exit, UnknownSyscall, BeginRead, BeginWrite, Executes
<1>2. CASE FetchFault
  <2>1. Addressed = {Tag(pc)} /\ (segments' = segments \/ segments' = Code)
    BY <1>1, <1>2 DEF FetchFault, Throw, Addressed
  <2> QED
    BY <2>1, CodeIsThere
<1>3. CASE LoadInstr \/ StoreInstr
  <2> DEFINE op   == Accessor(Instr.type)
             segs == GetSeg(Code, op, Address)
             val  == Bytes(regs[Instr.rs2])
  <2>1. Fetch = "ok" /\ Instr.type \in Loads \cup Stores
    BY <1>3 DEF LoadInstr, StoreInstr, Executes
  <2>2. Addressed = {Tag(Address)}
    BY <1>1, <2>1 DEF Addressed
  <2>3. DOMAIN segs = DOMAIN Code \cup {Tag(Address)}
    BY DEF GetSeg, CreatePage
  <2>4. DOMAIN Written(segs, op, Address, val) = DOMAIN segs
    BY DEF Written
  <2>5. segments' = segs \/ segments' = Written(segs, op, Address, val)
    BY <1>3 DEF LoadInstr, StoreInstr, Retire, Throw
  <2> HIDE DEF segs
  <2> QED
    BY <2>1, <2>2, <2>3, <2>4, <2>5, CodeIsThere
<1>4. CASE ~ FetchFault /\ ~ LoadInstr /\ ~ StoreInstr
  <2>1. Fetch = "ok" /\ segments' = Code
    BY <1>4 DEF Execute, Arithmetic, Branch, Jump, Upper, Nop, Exit, UnknownSyscall,
                BeginRead, BeginWrite, Begin, Executes, Return, Retire, Throw
  <2> QED
    BY <2>1, CodeIsThere
<1> QED
  BY <1>2, <1>3, <1>4

LEMMA SystemCallMaps ==
  ASSUME IInv, SystemCall
  PROVE  DOMAIN segments' \subseteq DOMAIN segments \cup Addressed
<1>1. call.kind # "none"
  BY DEF SystemCall, ReadChunk, WriteChunk, ReadError, WriteFault, WriteError
<1>2. Addressed = {Tag(From + i) : i \in 0 .. Chunk - 1}
  BY <1>1 DEF Addressed, NoCall
<1>3. ASSUME NEW op, NEW n \in 0 .. Chunk
      PROVE  DOMAIN Touched(op, From, n) \subseteq DOMAIN segments \cup Addressed
  <2>1. DOMAIN Touched(op, From, n) =
          DOMAIN segments \cup ({Tag(From + i) : i \in Reached(op, From, n)} \ DOMAIN segments)
    BY DEF Touched
  <2>2. Reached(op, From, n) \subseteq 0 .. Chunk - 1
    <3>1. Chunk \in Nat
      BY <1>1, TurnFacts
    <3>2. 0 .. n - 1 \subseteq 0 .. Chunk - 1
      BY <3>1
    <3> QED
      BY <3>2, Zenon DEF Reached
  <2> QED
    BY <1>2, <2>1, <2>2, Zenon
<1>4. ASSUME NEW n \in 0 .. BufSize, ReadChunk(n)
      PROVE  DOMAIN segments' \subseteq DOMAIN segments \cup Addressed
  <2> DEFINE data == SubSeq(Input, consumed + 1, consumed + n)
  <2>1. segments' = CopyIn(From, data)
    BY <1>4 DEF ReadChunk, Continue, Return, Retire, Throw
  <2>2. /\ n \in Nat /\ n <= Chunk /\ Chunk \in Nat
        /\ consumed \in Nat /\ consumed + n <= Len(Input) /\ Input \in Seq(Byte)
    BY <1>1, <1>4, TurnFacts, CPUAssumption DEF ReadChunk, IInv, TypeOK
  <2>3. Len(data) = n
    BY <2>2
  <2>4. DOMAIN CopyIn(From, data) = DOMAIN Touched("write8", From, n)
    BY <2>3 DEF CopyIn
  <2>5. n \in 0 .. Chunk
    BY <2>2
  <2> HIDE DEF data
  <2> QED
    BY <1>3, <2>1, <2>4, <2>5, Zenon
<1>5. CASE ReadError
  BY <1>5 DEF ReadError, Return, Retire
<1>6. CASE WriteFault \/ WriteError \/ \E n \in 0 .. BufSize : WriteChunk(n)
  <2>1. segments' = Touched("read8", From, Chunk)
    <3>1. CASE WriteFault
      BY <3>1 DEF WriteFault, Throw
    <3>2. CASE WriteError
      BY <3>2 DEF WriteError, Return, Retire
    <3>3. ASSUME NEW n \in 0 .. BufSize, WriteChunk(n)
          PROVE  segments' = Touched("read8", From, Chunk)
      <4>1. Continue(n, Touched("read8", From, Chunk))
        BY <3>3 DEF WriteChunk
      <4> QED
        BY <4>1, Zenon DEF Continue, Return, Retire
    <3> QED
      BY <1>6, <3>1, <3>2, <3>3
  <2>2. Chunk \in 0 .. Chunk
    BY <1>1, TurnFacts
  <2> QED
    BY <1>3, <2>1, <2>2, Zenon
<1> QED
  BY <1>4, <1>5, <1>6 DEF SystemCall

\* get_seg creates pages for whoever asks, but a step maps no page it has not
\* addressed: an instruction creates at most one, that of its operand or, if it
\* cannot be fetched, its own; a turn of a system call those of its buffer.  A
\* program's memory is that of its loaded pages and its accesses.
THEOREM FootprintBounded == Spec => MapsWhatItAddresses
<1>1. IInv /\ [Next]_vars => [DOMAIN segments' \subseteq DOMAIN segments \cup Addressed]_vars
  <2> SUFFICES ASSUME IInv, Next
               PROVE  DOMAIN segments' \subseteq DOMAIN segments \cup Addressed
    OBVIOUS
  <2>1. CASE \E addr \in Addr : SetPC(addr)
    BY <2>1 DEF SetPC
  <2> QED
    BY <2>1, ExecuteMaps, SystemCallMaps DEF Next
<1>2. Init => IInv
  BY InitIInv
<1>3. IInv /\ [Next]_vars => IInv'
  BY StepIInv
<1> QED
  BY <1>1, <1>2, <1>3, PTL DEF Spec, MapsWhatItAddresses
=============================================================================
