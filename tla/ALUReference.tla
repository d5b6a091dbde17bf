---------------------------- MODULE ALUReference ----------------------------
(***************************************************************************)
(* RV32I's arithmetic defined bit by bit, as an adder and a shifter do it, *)
(* and a machine of one step that compares the ALU with it, for every pair *)
(* of operands.                                                            *)
(***************************************************************************)
EXTENDS ALU

Sign  == XLen - 1
Index == 0 .. Sign

Bit(v, k) == (v \div 2 ^ k) % 2 = 1

Number(bit(_)) == FromOnes({k \in Index : bit(k)})

Differ(x, y, k) == ~ (Bit(x, k) <=> Bit(y, k))

\* The carry into bit k of the sum of x, y and the carry c into bit 0.
Carry(x, y, c) ==
  LET carry[k \in 0 .. XLen] ==
        IF k = 0 THEN c
        ELSE \/ Bit(x, k - 1) /\ Bit(y, k - 1)
             \/ (Bit(x, k - 1) \/ Bit(y, k - 1)) /\ carry[k - 1]
  IN carry

Sum(x, y, c) ==
  LET carry == Carry(x, y, c)
      bit(k) == ~ (Differ(x, y, k) <=> carry[k])
  IN Number(bit)

Not(x) == Modulus - 1 - x

\* x - y is x + ~y + 1; its carry out is clear when it borrows.
Borrows(x, y) == ~ Carry(x, Not(y), TRUE)[XLen]

\* The sign of x - y, unless the subtraction overflows.
Below(x, y) == IF Differ(x, y, Sign) THEN Bit(x, Sign) ELSE Borrows(x, y)

Shifted(bit(_), y) == LET at(k) == bit(k + (y % XLen)) IN Number(at)

Family(type) ==
  CASE type \in {"ADD", "ADDI"} -> "ADD"   [] type = "SUB" -> "SUB"
    [] type \in {"SLL", "SLLI"} -> "SLL"   [] type \in {"SRL", "SRLI"} -> "SRL"
    [] type \in {"SRA", "SRAI"} -> "SRA"   [] type \in {"SLT", "SLTI"} -> "SLT"
    [] type \in {"SLTU", "SLTIU"} -> "SLTU"
    [] type \in {"XOR", "XORI"} -> "XOR"   [] type \in {"OR", "ORI"} -> "OR"
    [] type \in {"AND", "ANDI"} -> "AND"

\* y is an operand of XLen bits: a register, or an immediate sign-extended.
Reference(type, x, y) ==
  LET f == Family(type)
      both(k)   == Bit(x, k) /\ Bit(y, k)
      either(k) == Bit(x, k) \/ Bit(y, k)
      one(k)    == Differ(x, y, k)
      left(k)   == k >= y % XLen /\ Bit(x, k - (y % XLen))
      right(k)  == k < XLen /\ Bit(x, k)
      signed(k) == Bit(x, IF k < XLen THEN k ELSE Sign)
  IN CASE f = "ADD"  -> Sum(x, y, FALSE)
       [] f = "SUB"  -> Sum(x, Not(y), TRUE)
       [] f = "SLL"  -> Number(left)
       [] f = "SRL"  -> Shifted(right, y)
       [] f = "SRA"  -> Shifted(signed, y)
       [] f = "SLT"  -> Flag(Below(x, y))
       [] f = "SLTU" -> Flag(Borrows(x, y))
       [] f = "XOR"  -> Number(one)
       [] f = "OR"   -> Number(either)
       [] f = "AND"  -> Number(both)

-----------------------------------------------------------------------------
VARIABLES type, x, y, result

aluVars == <<type, x, y, result>>

RegisterOps  == {"ADD", "SUB", "SLL", "SLT", "SLTU", "XOR", "SRL", "SRA", "OR", "AND"}
ImmediateOps == {"ADDI", "SLTI", "SLTIU", "XORI", "ORI", "ANDI"}
ShiftOps     == {"SLLI", "SRLI", "SRAI"}
Operations   == RegisterOps \cup ImmediateOps \cup ShiftOps

Word == 0 .. Modulus - 1

ALUInit ==
  /\ x \in Word
  /\ \/ type \in RegisterOps /\ y \in Word
     \/ type \in ImmediateOps /\ y \in {AsSigned(v) : v \in Word}
     \/ type \in ShiftOps /\ y \in Index
  /\ result = -1

\* execute: the result as write_reg leaves it in rd.
Compute ==
  /\ result' = Truncated(ResultOf(type, x, y))
  /\ UNCHANGED <<type, x, y>>

ALUSpec == ALUInit /\ [][Compute]_aluVars

\* Whatever the operands, signed or not, the C++ expression over uint64_t and
\* int32_t leaves in rd the word that RV32I's definition of the instruction
\* yields.
ComputesRV32I ==
  [][(type \in Operations) =>
       result' = Reference(type, x, Truncated(y))]_aluVars
=============================================================================
