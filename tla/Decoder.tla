------------------------------ MODULE Decoder -------------------------------
(***************************************************************************)
(* Decoder_RV32I::decode32 (inc/decoder.hpp) on real 32-bit words, each    *)
(* given as the int32_t of the same bits: \div 2^k is then the arithmetic  *)
(* shift the code makes of (int32_t)b >> k.  A word the code throws        *)
(* IllegalInstruction32 for decodes to Illegal.                            *)
(*                                                                         *)
(* The upper immediates of LUI and AUIPC are counted in units of 2^12.     *)
(***************************************************************************)
EXTENDS Integers, Sequences

\* (b >> lo) & (2^n - 1)
Field(b, lo, n) == (b \div 2 ^ lo) % 2 ^ n

\* (int32_t)b >> 31
SignOf(b) == IF b < 0 THEN -1 ELSE 0

Rd(b)     == Field(b, 7, 5)
Rs1(b)    == Field(b, 15, 5)
Rs2(b)    == Field(b, 20, 5)
Funct3(b) == Field(b, 12, 3)
Funct7(b) == Field(b, 25, 7)

ImmI(b) == b \div 2 ^ 20

\* Wrong: the high part of the immediate is not sign-extended.
ImmSUnsigned(b) == Field(b, 25, 7) * 32 + Field(b, 7, 5)

ImmS(b) == (b \div 2 ^ 25) * 32 + Field(b, 7, 5)

ImmB(b) ==
  4096 * SignOf(b) + 2048 * Field(b, 7, 1) + 32 * Field(b, 25, 6) + 2 * Field(b, 8, 4)

ImmU(b) == b \div 2 ^ 12

ImmJ(b) ==
  1048576 * SignOf(b) + 4096 * Field(b, 12, 8) + 2048 * Field(b, 20, 1) + 2 * Field(b, 21, 10)

\* The constructors of inc/instruction.hpp: what is not given is zero.
R(name, d, s1, s2) == [type |-> name, rd |-> d, rs1 |-> s1, rs2 |-> s2, imm |-> 0]
I(name, d, s1, n)  == [type |-> name, rd |-> d, rs1 |-> s1, rs2 |-> 0, imm |-> n]
S(name, s1, s2, n) == [type |-> name, rd |-> 0, rs1 |-> s1, rs2 |-> s2, imm |-> n]
U(name, d, n)      == [type |-> name, rd |-> d, rs1 |-> 0, rs2 |-> 0, imm |-> n]

Illegal == [type |-> "Illegal"]

\* A switch over funct3, by the names of its cases, "" where it has none.
Case(names, b) == names[Funct3(b) + 1]

\* Where a switch has no case the code throws.
Legal(i) == IF i.type = "" THEN Illegal ELSE i

-----------------------------------------------------------------------------
DecodeR(b) ==
  LET name == CASE Funct7(b) = 0 ->
                     Case(<<"ADD", "SLL", "SLT", "SLTU", "XOR", "SRL", "OR", "AND">>, b)
                [] Funct7(b) = 32 -> Case(<<"SUB", "", "", "", "", "SRA", "", "">>, b)
                [] OTHER -> ""
  IN Legal(R(name, Rd(b), Rs1(b), Rs2(b)))

\* The switch but for its cases 0x1 and 0x5, which are shifts.
ImmediateName(b) == Case(<<"ADDI", "", "SLTI", "SLTIU", "XORI", "", "ORI", "ANDI">>, b)

ShiftName(b) ==
  CASE Funct3(b) = 1 /\ Funct7(b) = 0       -> "SLLI"
    [] Funct3(b) = 5 /\ Field(b, 30, 2) = 0 -> "SRLI"
    [] Funct3(b) = 5 /\ Field(b, 30, 2) = 1 -> "SRAI"
    [] OTHER -> ""

\* An ADDI from x0 is the pseudo-instruction LI.
DecodeImmediate(b) ==
  CASE Funct3(b) = 0 /\ Rs1(b) = 0 -> U("LI", Rd(b), ImmI(b))
    [] Funct3(b) \in {1, 5} -> Legal(I(ShiftName(b), Rd(b), Rs1(b), Field(b, 20, 5)))
    [] OTHER -> Legal(I(ImmediateName(b), Rd(b), Rs1(b), ImmI(b)))

DecodeLoad(b) ==
  Legal(I(Case(<<"LB", "LH", "LW", "", "LBU", "LHU", "", "">>, b), Rd(b), Rs1(b), ImmI(b)))

DecodeS(b) ==
  Legal(S(Case(<<"SB", "SH", "SW", "", "", "", "", "">>, b), Rs1(b), Rs2(b), ImmS(b)))

\* Wrong: the switch has no case for the unsigned comparisons.
DecodeBSigned(b) ==
  Legal(S(Case(<<"BEQ", "BNE", "", "", "BLT", "BGE", "BLT", "BGE">>, b),
          Rs1(b), Rs2(b), ImmB(b)))

DecodeB(b) ==
  Legal(S(Case(<<"BEQ", "BNE", "", "", "BLT", "BGE", "BLTU", "BGEU">>, b),
          Rs1(b), Rs2(b), ImmB(b)))

\* Neither reads the bits it has no use for.
DecodeSystem(b) ==
  CASE Funct3(b) = 0 /\ Field(b, 20, 12) = 0 -> U("ECALL", 0, 0)
    [] Funct3(b) = 0 /\ Field(b, 20, 12) = 1 -> U("EBREAK", 0, 0)
    [] OTHER -> Illegal

DecodeMiscMem(b) ==
  Legal(U(Case(<<"FENCE", "FENCE_I", "", "", "", "", "", "">>, b), 0, 0))

Decode32(b) ==
  LET opcode == Field(b, 0, 7) IN
  CASE opcode = 51  -> DecodeR(b)             \* 0x33
    [] opcode = 19  -> DecodeImmediate(b)     \* 0x13
    [] opcode = 3   -> DecodeLoad(b)          \* 0x03
    [] opcode = 103 -> I("JALR", Rd(b), Rs1(b), ImmI(b))
    [] opcode = 35  -> DecodeS(b)             \* 0x23
    [] opcode = 99  -> DecodeB(b)             \* 0x63
    [] opcode = 55  -> U("LUI", Rd(b), ImmU(b))
    [] opcode = 23  -> U("AUIPC", Rd(b), ImmU(b))
    [] opcode = 111 -> U("JAL", Rd(b), ImmJ(b))
    [] opcode = 15  -> DecodeMiscMem(b)       \* 0x0F
    [] opcode = 115 -> DecodeSystem(b)        \* 0x73
    [] OTHER        -> Illegal
=============================================================================
