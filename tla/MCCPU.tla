------------------------------- MODULE MCCPU --------------------------------
(***************************************************************************)
(* The CPU with bytes of four values: words have eight bits, the address   *)
(* space 256 bytes in 32 pages of eight.  A word encodes the instruction   *)
(* at its value's place in Table.                                          *)
(*                                                                         *)
(* The short programs have their code in page one and their data in page   *)
(* two.  The longer ones read, write what they have read and exit, with    *)
(* the system calls of examples/scan.s; the buffer of the simulator has    *)
(* two bytes, so that a call of three or more turns its loop several times.*)
(***************************************************************************)
EXTENDS CPU

A == INSTANCE ALU WITH XLen <- 8

MCByte   == 0 .. 3
MCRegIdx == {0, a0, a1, a2, a7}
MCImm    == -8 .. 8 \cup {SysWrite, SysExit}

MCAlu(type, x, y) == A!ResultOf(type, x, y)

I(type, rd, rs1, rs2, imm) ==
  [type |-> type, rd |-> rd, rs1 |-> rs1, rs2 |-> rs2, imm |-> imm]

\* Every type of instruction; loads and stores with negative offsets, a JALR
\* whose rd is its rs1, results for x0.
Table ==
  << I("ECALL", 0, 0, 0, 0),
     I("LB", a0, a1, 0, 0), I("LH", a2, a1, 0, -1), I("LW", a0, a1, 0, 1),
     I("LBU", 0, a1, 0, 1), I("LHU", a2, a1, 0, 0),
     I("SB", 0, a1, a0, 0), I("SH", 0, a1, a0, -8), I("SW", 0, a1, a0, 2),
     I("BEQ", 0, a0, a2, 8), I("BNE", 0, a0, a2, 8), I("BLT", 0, a0, a2, -4),
     I("BGE", 0, a0, a2, -4), I("BLTU", 0, a0, a2, 6), I("BGEU", 0, a0, a2, -8),
     I("JAL", a0, 0, 0, 4), I("JALR", a1, a1, 0, 1), I("JALR", 0, a2, 0, -8),
     I("LUI", a2, 0, 0, 8), I("AUIPC", a1, 0, 0, 8), I("LI", a0, 0, 0, -3),
     I("EBREAK", 0, 0, 0, 0), I("FENCE", 0, 0, 0, 0), I("FENCE_I", 0, 0, 0, 0),
     I("ADD", a0, a1, a2, 0), I("SUB", a0, a0, a1, 0), I("SLT", a0, a1, a2, 0),
     I("SRA", a0, a1, a2, 0), I("XOR", a2, a2, a1, 0), I("SLTU", a0, a1, a2, 0),
     I("ADDI", a1, a1, 0, -4), I("ADDI", 0, a1, 0, 1), I("SLTIU", a0, a0, 0, -1),
     I("SRAI", a0, a0, 0, 1), I("ANDI", a1, a1, 0, 7),
     I("LI", a7, 0, 0, SysWrite), I("LI", a7, 0, 0, SysExit) >>

SetWrite == Len(Table) - 1
SetExit  == Len(Table)

MCDecode(w) ==
  IF Full(w) \in 1 .. Len(Table) THEN Table[Full(w)] ELSE Illegal

Encoded(n) == [k \in 1 .. 4 |-> Bytes(n)[k - 1]]

MCCode(n, m) ==
  [vaddr |-> 8, memsz |-> 8, data |-> Encoded(n) \o Encoded(m), rights |-> {"r", "x"}]

MCData(r) ==
  [vaddr |-> 16, memsz |-> 8, data |-> <<1, 0, 0, 0, 0, 3, 2, 1>>, rights |-> r]

\* Any instruction, then a system call or a load.
ShortPrograms ==
  {[code |-> MCCode(n, m), data |-> MCData({"r", "w", "x"}), entry |-> 8] :
     n \in DOMAIN Table, m \in {1, 4}}
  \cup {[code |-> MCCode(n, 1), data |-> MCData({"r"}), entry |-> 8] :
     n \in DOMAIN Table}

CallsCode ==
  [vaddr |-> 16, memsz |-> 24, rights |-> {"r", "x"},
   data |-> Encoded(1) \o Encoded(SetWrite) \o Encoded(1)
              \o Encoded(SetExit) \o Encoded(1)]

CallsData(r) ==
  [vaddr |-> 48, memsz |-> 16, rights |-> r,
   data |-> <<1, 0, 0, 0, 0, 0, 0, 0, 0, 0, 0, 0, 0, 3, 2, 1>>]

CallingPrograms ==
  {[code |-> CallsCode, data |-> CallsData(r), entry |-> 16] :
     r \in {{"r"}, {"w"}, {"r", "w"}, {"r", "w", "x"}}}

MCPrograms == ShortPrograms \cup CallingPrograms

MCSegmentInfos == {p.code : p \in MCPrograms} \cup {p.data : p \in MCPrograms}

File(v0, v1, v2, v7) ==
  [i \in MCRegIdx |-> CASE i = 0 -> 0 [] i = a0 -> v0 [] i = a1 -> v1
                        [] i = a2 -> v2 [] i = a7 -> v7]

\* Buffers in the data pages, over their end and over the end of the address
\* space, from an unmapped page into the code, and empty; pages nobody mapped; a
\* system call that does not exist.
MCRegisterFiles ==
  {File(1, 22, 3, SysRead), File(255, 14, 3, SysWrite), File(9, 255, 1, SysExit),
   File(7, 0, 2, 1), File(0, 50, 5, SysRead), File(0, 61, 5, SysRead),
   File(0, 254, 3, SysRead), File(0, 13, 5, SysRead), File(0, 50, 0, SysRead)}

MCInput == <<3, 1, 2, 3, 1>>

\* Misaligned, and address zero with a high half that set_pc drops.
MCAddr == {2, 256}
=============================================================================
