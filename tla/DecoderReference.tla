-------------------------- MODULE DecoderReference --------------------------
(***************************************************************************)
(* The encoding of RV32I the other way round: what an assembler makes of   *)
(* an instruction, format by format, and a machine of one step that        *)
(* assembles an instruction, or takes any word, and decodes it.            *)
(***************************************************************************)
EXTENDS Decoder

CONSTANTS
  Regs,    \* register numbers and shift amounts
  Imm12,   \* immediates of the formats I and S
  Imm13,   \* distances of branches
  Imm20,   \* upper immediates
  Imm21,   \* distances of jumps
  Words    \* other words

\* The two's complement numbers of n bits, and the words.
Signed(n) == {v \in Int : -(2 ^ (n - 1)) <= v /\ v < 2 ^ (n - 1)}
Word32    == {w \in Int : -2147483647 - 1 <= w /\ w <= 2147483647}

ASSUME DecoderAssumption ==
  /\ Regs \subseteq 0 .. 31
  /\ Imm12 \subseteq Signed(12)
  /\ \A n \in Imm13 : n \in Signed(13) /\ n % 2 = 0
  /\ Imm20 \subseteq Signed(20)
  /\ \A n \in Imm21 : n \in Signed(21) /\ n % 2 = 0
  /\ Words \subseteq Word32

\* The six parts a word may have, named for the bits they begin at; the last
\* one has the sign.
WordOf(p0, p7, p12, p15, p20, p25) ==
  p0 + 2 ^ 7 * (p7 + 2 ^ 5 * (p12 + 2 ^ 3 * (p15 + 2 ^ 5 * (p20 + 2 ^ 5 * p25))))

\* n bits of v from bit lo upwards, and all of them.
Bits(v, lo, n) == (v \div 2 ^ lo) % 2 ^ n
From(v, lo)    == v \div 2 ^ lo

RFormat(op, f3, f7, i) == WordOf(op, i.rd, f3, i.rs1, i.rs2, f7)

IFormat(op, f3, i) == WordOf(op, i.rd, f3, i.rs1, Bits(i.imm, 0, 5), From(i.imm, 5))

SFormat(op, f3, i) == WordOf(op, Bits(i.imm, 0, 5), f3, i.rs1, i.rs2, From(i.imm, 5))

\* Bit 0 of a distance is not encoded.
BFormat(op, f3, i) ==
  WordOf(op, Bits(i.imm, 11, 1) + 2 * Bits(i.imm, 1, 4), f3, i.rs1, i.rs2,
         Bits(i.imm, 5, 6) + 2 ^ 6 * From(i.imm, 12))

UFormat(op, i) ==
  WordOf(op, i.rd, Bits(i.imm, 0, 3), Bits(i.imm, 3, 5), Bits(i.imm, 8, 5), From(i.imm, 13))

JFormat(op, i) ==
  WordOf(op, i.rd, Bits(i.imm, 12, 3), Bits(i.imm, 15, 5),
         Bits(i.imm, 11, 1) + 2 * Bits(i.imm, 1, 4), Bits(i.imm, 5, 6) + 2 ^ 6 * From(i.imm, 20))

\* The opcode map: the format, the opcode, funct3 and funct7 of each type.
Row(format, op, f3, f7) == [format |-> format, op |-> op, f3 |-> f3, f7 |-> f7]

Map ==
  [ ADD  |-> Row("R", 51, 0, 0),  SUB   |-> Row("R", 51, 0, 32), SLL  |-> Row("R", 51, 1, 0),
    SLT  |-> Row("R", 51, 2, 0),  SLTU  |-> Row("R", 51, 3, 0),  XOR  |-> Row("R", 51, 4, 0),
    SRL  |-> Row("R", 51, 5, 0),  SRA   |-> Row("R", 51, 5, 32), OR   |-> Row("R", 51, 6, 0),
    AND  |-> Row("R", 51, 7, 0),
    ADDI |-> Row("I", 19, 0, 0),  LI    |-> Row("I", 19, 0, 0),  SLTI |-> Row("I", 19, 2, 0),
    SLTIU |-> Row("I", 19, 3, 0), XORI  |-> Row("I", 19, 4, 0),  ORI  |-> Row("I", 19, 6, 0),
    ANDI |-> Row("I", 19, 7, 0),  SLLI  |-> Row("Sh", 19, 1, 0), SRLI |-> Row("Sh", 19, 5, 0),
    SRAI |-> Row("Sh", 19, 5, 32),
    LB   |-> Row("I", 3, 0, 0),   LH    |-> Row("I", 3, 1, 0),   LW   |-> Row("I", 3, 2, 0),
    LBU  |-> Row("I", 3, 4, 0),   LHU   |-> Row("I", 3, 5, 0),   JALR |-> Row("I", 103, 0, 0),
    SB   |-> Row("S", 35, 0, 0),  SH    |-> Row("S", 35, 1, 0),  SW   |-> Row("S", 35, 2, 0),
    BEQ  |-> Row("B", 99, 0, 0),  BNE   |-> Row("B", 99, 1, 0),  BLT  |-> Row("B", 99, 4, 0),
    BGE  |-> Row("B", 99, 5, 0),  BLTU  |-> Row("B", 99, 6, 0),  BGEU |-> Row("B", 99, 7, 0),
    LUI  |-> Row("U", 55, 0, 0),  AUIPC |-> Row("U", 23, 0, 0),  JAL  |-> Row("J", 111, 0, 0),
    ECALL |-> Row("E", 115, 0, 0), EBREAK |-> Row("E", 115, 0, 1),
    FENCE |-> Row("E", 15, 0, 0), FENCE_I |-> Row("E", 15, 1, 0) ]

Types == DOMAIN Map

Encode(i) ==
  LET row == Map[i.type] IN
  CASE row.format = "R"  -> RFormat(row.op, row.f3, row.f7, i)
    [] row.format = "Sh" -> RFormat(row.op, row.f3, row.f7, [i EXCEPT !.rs2 = i.imm])
    [] row.format = "I"  -> IFormat(row.op, row.f3, i)
    [] row.format = "S"  -> SFormat(row.op, row.f3, i)
    [] row.format = "B"  -> BFormat(row.op, row.f3, i)
    [] row.format = "U"  -> UFormat(row.op, i)
    [] row.format = "J"  -> JFormat(row.op, i)
    [] row.format = "E"  -> IFormat(row.op, row.f3, [i EXCEPT !.imm = row.f7])

\* The instructions of a type; an ADDI from x0 is called LI.
Instructions(t) ==
  LET format == Map[t].format IN
  CASE format = "R"  -> {R(t, d, s1, s2) : d, s1, s2 \in Regs}
    [] format = "Sh" -> {I(t, d, s1, n) : d, s1 \in Regs, n \in Regs}
    [] t = "ADDI"    -> {I(t, d, s1, n) : d \in Regs, s1 \in Regs \ {0}, n \in Imm12}
    [] t = "LI"      -> {U(t, d, n) : d \in Regs, n \in Imm12}
    [] format = "I" /\ t \notin {"ADDI", "LI"} ->
         {I(t, d, s1, n) : d, s1 \in Regs, n \in Imm12}
    [] format = "S"  -> {S(t, s1, s2, n) : s1, s2 \in Regs, n \in Imm12}
    [] format = "B"  -> {S(t, s1, s2, n) : s1, s2 \in Regs, n \in Imm13}
    [] format = "U"  -> {U(t, d, n) : d \in Regs, n \in Imm20}
    [] format = "J"  -> {U(t, d, n) : d \in Regs, n \in Imm21}
    [] format = "E"  -> {U(t, 0, 0)}

Assembled == UNION {Instructions(t) : t \in Types}

-----------------------------------------------------------------------------
VARIABLES
  source,  \* the instruction that was assembled, if the word is not any word
  word,
  instr    \* what it decodes to

vars == <<source, word, instr>>

Unknown == [type |-> "Unknown"]

Init ==
  /\ \/ source \in Assembled /\ word = Encode(source)
     \/ source = Unknown /\ word \in Words
  /\ instr = Unknown

Decode ==
  /\ instr' = Decode32(word)
  /\ UNCHANGED <<source, word>>

Spec == Init /\ [][Decode]_vars

\* Types in whose words the decoder looks at every bit.
Strict ==
  Types \ {"JALR", "SRLI", "SRAI", "ECALL", "EBREAK", "FENCE", "FENCE_I"}

\* No word is mistaken for an instruction of a type the decoder looks at in every
\* bit: what decodes to one of these is its encoding.  The others, which ignore
\* some bits, are left out: words that RV32I reserves do decode to them.
NothingElseDecodes ==
  instr.type \in Strict => Encode(instr) = word

\* Every instruction, with every sign and every field of its immediate, comes
\* out of its encoding as it went in.
DecodesWhatIsEncoded ==
  [][source # Unknown => instr' = source]_vars
=============================================================================
