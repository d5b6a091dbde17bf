---------------------------- MODULE Instructions ----------------------------
(***************************************************************************)
(* What the CPU and the instruction set it implements have in common: the  *)
(* decoded instructions (inc/instruction.hpp), the words and bytes they    *)
(* work on, and the pure parts of CPU_RV32I::execute (inc/cpu.hpp).        *)
(*                                                                         *)
(* A word has four bytes and AddrSpace values, in the code 2^32.  How the  *)
(* 32 bits encode an instruction and how the arithmetic works bit by bit   *)
(* are the parameters Decode and Alu; modules Decoder and ALU model them.  *)
(***************************************************************************)
EXTENDS MemoryInterface

CONSTANTS
  Radix,        \* the number of values of a byte, 256 in the code
  RegIdx,       \* the registers a program uses, out of 0..31
  Imm,          \* the immediates of its instructions
  Decode(_),    \* Decoder_RV32I::decode32, on the four bytes of a word
  Alu(_, _, _)  \* the arithmetic of execute: type, first and second operand

RTypes   == {"ADD", "SUB", "SLL", "SLT", "SLTU", "XOR", "SRL", "SRA", "OR", "AND"}
ITypes   == {"ADDI", "SLTI", "SLTIU", "XORI", "ORI", "ANDI", "SLLI", "SRLI", "SRAI"}
Loads    == {"LB", "LH", "LW", "LBU", "LHU"}
Stores   == {"SB", "SH", "SW"}
Branches == {"BEQ", "BNE", "BLT", "BGE", "BLTU", "BGEU"}
Jumps    == {"JAL", "JALR"}
Uppers   == {"LUI", "AUIPC", "LI"}
Nops     == {"EBREAK", "FENCE", "FENCE_I"}
Types    == RTypes \cup ITypes \cup Loads \cup Stores \cup Branches \cup Jumps
              \cup Uppers \cup Nops \cup {"ECALL"}

\* Fields a format does not have are zero; a shift's shamt is its imm.
Instruction ==
  [type : Types, rd : RegIdx, rs1 : RegIdx, rs2 : RegIdx, imm : Imm]

\* decode32 threw IllegalInstruction32.
Illegal == [type |-> "Illegal"]

\* Reg::a0, a1, a2 and a7 of the system call convention.
a0 == 10
a1 == 11
a2 == 12
a7 == 17

SysRead  == 63
SysWrite == 64
SysExit  == 93

MachineWord == [0 .. 3 -> Byte]

ASSUME InstructionAssumption ==
  /\ Radix \in Nat /\ Radix >= 2
  /\ Byte = 0 .. Radix - 1 /\ Zero = 0
  /\ AddrSpace = Radix * Radix * Radix * Radix
  /\ RegIdx \subseteq 0 .. 31 /\ {0, a0, a1, a2, a7} \subseteq RegIdx
  /\ Imm \subseteq Int /\ 0 \in Imm
  /\ \A w \in MachineWord : Decode(w) \in Instruction \cup {Illegal}
  /\ Decode([k \in 0 .. 3 |-> 0]) = Illegal
  /\ \A w \in MachineWord :
       /\ Decode(w).type \in RTypes =>
            \A x, y \in Space : Alu(Decode(w).type, x, y) \in Int
       /\ Decode(w).type \in ITypes =>
            \A x \in Space : Alu(Decode(w).type, x, Decode(w).imm) \in Int

-----------------------------------------------------------------------------
\* Little-endian values of two and of four bytes, and the bytes of a word.
Half(b) == b[0] + Radix * b[1]

Full(b) == Half(b) + (Radix * Radix) * (b[2] + Radix * b[3])

Bytes(v) ==
  [i \in 0 .. 3 |->
     (CASE i = 0 -> v
        [] i = 1 -> v \div Radix
        [] i = 2 -> v \div (Radix * Radix)
        [] OTHER -> v \div (Radix * Radix * Radix)) % Radix]

\* (int32_t), or (int32_t)(intN_t) of one of the first size values.
Signed(v, size) == IF 2 * v >= size THEN v - size ELSE v

\* What a load leaves in its register.
Extended(type, b) ==
  CASE type = "LB"  -> Signed(b[0], Radix)
    [] type = "LH"  -> Signed(Half(b), Radix * Radix)
    [] type = "LBU" -> b[0]
    [] type = "LHU" -> Half(b)
    [] OTHER        -> Full(b)

Taken(type, x, y) ==
  LET sx == Signed(x, AddrSpace)
      sy == Signed(y, AddrSpace)
  IN CASE type = "BEQ"  -> x = y
       [] type = "BNE"  -> x # y
       [] type = "BLT"  -> sx < sy
       [] type = "BGE"  -> sx >= sy
       [] type = "BLTU" -> x < y
       [] OTHER         -> x >= y
=============================================================================
