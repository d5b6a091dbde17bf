-------------------------------- MODULE ALU ---------------------------------
(***************************************************************************)
(* The arithmetic of CPU_RV32I::execute (inc/cpu.hpp), for words of XLen   *)
(* bits.  read_reg gives a register as a uint64_t, which is sign-extended  *)
(* only where the code casts it to int32_t; immediates are an int32_t.  A  *)
(* result is what is handed to write_reg, which keeps its low XLen bits.   *)
(***************************************************************************)
EXTENDS Integers

CONSTANT XLen   \* 32 in the code; a power of two, as the shift mask has it

ASSUME XLenAssumption == XLen \in {1, 2, 4, 8, 16, 32}

Modulus == 2 ^ XLen

Truncated(v) == v % Modulus

AsSigned(v) == IF v >= Modulus \div 2 THEN v - Modulus ELSE v

\* The bitwise operators, by way of the set of bits that are one.
Ones(v)     == {k \in 0 .. XLen - 1 : (v \div 2 ^ k) % 2 = 1}
FromOnes(S) ==
  LET low[k \in 0 .. XLen] ==   \* the k lowest of them
        IF k = 0 THEN 0 ELSE low[k - 1] + (IF k - 1 \in S THEN 2 ^ (k - 1) ELSE 0)
  IN low[XLen]

And(x, y) == FromOnes(Ones(x) \cap Ones(y))
Or(x, y)  == FromOnes(Ones(x) \cup Ones(y))
Xor(x, y) == FromOnes((Ones(x) \cup Ones(y)) \ (Ones(x) \cap Ones(y)))

\* & 0x1F
Amount(y) == y % XLen

Flag(b) == IF b THEN 1 ELSE 0

\* Wrong: the register is shifted as the uint64_t that read_reg returns.
ShiftRightUnsigned(x, y) == x \div 2 ^ Amount(y)

ShiftRightArithmetic(x, y) == AsSigned(x) \div 2 ^ Amount(y)

ResultOf(type, x, y) ==
  CASE type \in {"ADD", "ADDI"}  -> x + y
    [] type = "SUB"              -> x - y
    [] type \in {"SLL", "SLLI"}  -> x * 2 ^ Amount(y)
    [] type \in {"SRL", "SRLI"}  -> x \div 2 ^ Amount(y)
    [] type \in {"SRA", "SRAI"}  -> ShiftRightArithmetic(x, y)
    [] type = "SLT"              -> Flag(AsSigned(x) < AsSigned(y))
    [] type = "SLTI"             -> Flag(AsSigned(x) < y)
    [] type = "SLTU"             -> Flag(x < y)
    [] type = "SLTIU"            -> Flag(x < Truncated(y))
    [] type \in {"XOR", "XORI"}  -> Xor(x, Truncated(y))
    [] type \in {"OR", "ORI"}    -> Or(x, Truncated(y))
    [] type \in {"AND", "ANDI"}  -> And(x, Truncated(y))
=============================================================================
