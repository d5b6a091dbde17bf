---------------------------- MODULE Disassembly -----------------------------
(***************************************************************************)
(* The listing of an instruction in the log of fetch_and_decode            *)
(* (inc/decoder.hpp): get_instr_name and get_instr_operands of             *)
(* src/instruction_impl.cpp, as a sequence of a name and of operands, and  *)
(* an assembler that reads it back.                                        *)
(***************************************************************************)
EXTENDS DecoderReference

\* reg_names
RegNames ==
  <<"zero", "ra", "sp", "gp", "tp", "t0", "t1", "t2", "s0", "s1", "a0", "a1", "a2", "a3",
    "a4", "a5", "a6", "a7", "s2", "s3", "s4", "s5", "s6", "s7", "s8", "s9", "s10", "s11",
    "t3", "t4", "t5", "t6">>

RegName(r) == RegNames[r + 1]

RTypes   == {t \in Types : Map[t].format = "R"}
Loads    == {"LB", "LH", "LW", "LBU", "LHU"}
Stores   == {"SB", "SH", "SW"}
Branches == {"BEQ", "BNE", "BLT", "BGE", "BLTU", "BGEU"}

\* Wrong: the register of a store's address is the one it stores.
OffsetOfRs2(i) ==
  <<i.imm, RegName(IF i.type \in Stores THEN i.rs2 ELSE i.rs1)>>

\* An operand that is "imm(rs1)".
Offset(i) == <<i.imm, RegName(i.rs1)>>

\* Upper immediates are listed with the twelve bits they are shifted by.
Shown(i) == IF i.type \in {"LUI", "AUIPC"} THEN 4096 * i.imm ELSE i.imm

Operands(i) ==
  CASE i.type \in RTypes   -> <<RegName(i.rd), RegName(i.rs1), RegName(i.rs2)>>
    [] i.type \in Loads \cup {"JALR"} -> <<RegName(i.rd), Offset(i)>>
    [] i.type \in Stores   -> <<RegName(i.rs2), Offset(i)>>
    [] i.type \in Branches -> <<RegName(i.rs1), RegName(i.rs2), Shown(i)>>
    [] i.type \in {"JAL", "LUI", "AUIPC"} -> <<RegName(i.rd), Shown(i)>>
    [] i.type \in {"ECALL", "EBREAK"} -> <<>>
    [] i.type \in {"FENCE", "FENCE_I"} -> <<"unknown">>
    [] OTHER -> <<RegName(i.rd), RegName(i.rs1), Shown(i)>>

\* get_instr_name has a case for every type but the fences.
Name(i) == IF i.type \in {"FENCE", "FENCE_I"} THEN "unknown" ELSE i.type

\* An illegal instruction is thrown before it is listed.
Listing(i) == IF i.type = "Illegal" THEN <<>> ELSE <<Name(i)>> \o Operands(i)

VARIABLE listing

FetchAndDecode == Decode /\ listing' = Listing(instr')

DisassemblySpec ==
  Init /\ listing = <<>> /\ [][FetchAndDecode]_<<vars, listing>>

-----------------------------------------------------------------------------
(***************************************************************************)
(* Properties.                                                             *)
(***************************************************************************)
\* The numbers the calling convention gives its registers, by their purpose.
RegOf ==
  [ zero |-> 0, ra |-> 1, sp |-> 2, gp |-> 3, tp |-> 4,
    a0 |-> 10, a1 |-> 11, a2 |-> 12, a3 |-> 13, a4 |-> 14, a5 |-> 15, a6 |-> 16, a7 |-> 17,
    t0 |-> 5, t1 |-> 6, t2 |-> 7, t3 |-> 28, t4 |-> 29, t5 |-> 30, t6 |-> 31,
    s0 |-> 8, s1 |-> 9, s2 |-> 18, s3 |-> 19, s4 |-> 20, s5 |-> 21, s6 |-> 22, s7 |-> 23,
    s8 |-> 24, s9 |-> 25, s10 |-> 26, s11 |-> 27 ]

\* The instruction an assembler makes of a listing, by the format of its name.
ReadBack(l) ==
  LET row     == Map[l[1]]
      reg(k)  == RegOf[l[k]]
      base    == RegOf[l[3][2]]
  IN CASE row.format = "R" -> R(l[1], reg(2), reg(3), reg(4))
       [] l[1] \in Loads \cup {"JALR"} -> I(l[1], reg(2), base, l[3][1])
       [] row.format = "S" -> S(l[1], base, reg(2), l[3][1])
       [] row.format = "B" -> S(l[1], reg(2), reg(3), l[4])
       [] row.format = "U" -> U(l[1], reg(2), l[3] \div 4096)
       [] row.format = "J" -> U(l[1], reg(2), l[3])
       [] row.format = "E" -> U(l[1], 0, 0)
       [] OTHER -> I(l[1], reg(2), reg(3), l[4])

\* What the log lists for a word, other than a fence, is assembled to the word
\* again, as far as the decoder looks at its bits: no operand is lost, swapped
\* or given another register's name on the way through the two switches.  "li"
\* is read with the operand "zero" the listing gives it.
ListingReadsBack ==
  listing # <<>> /\ listing[1] # "unknown" =>
    /\ ReadBack(listing) = instr
    /\ instr.type \in Strict => Encode(ReadBack(listing)) = word
=============================================================================
