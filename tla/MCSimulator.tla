---------------------------- MODULE MCSimulator -----------------------------
(***************************************************************************)
(* The simulator with programs that end, go on for ever, fault, make a     *)
(* system call that is not implemented, read their input, and store to a   *)
(* page the debugger may have looked at.  Bytes have four values, pages    *)
(* have eight bytes.                                                       *)
(***************************************************************************)
EXTENDS Simulator

MCByte   == 0 .. 3
MCRegIdx == {0, a0, a1, a2, a7}
MCImm    == {0, 1, SysExit}

\* The programs' only arithmetic is an ADDI.
MCAlu(type, x, y) == x + y

I(type, rd, rs1, rs2, imm) ==
  [type |-> type, rd |-> rd, rs1 |-> rs1, rs2 |-> rs2, imm |-> imm]

Table ==
  << I("ECALL", 0, 0, 0, 0), I("LI", a7, 0, 0, SysExit), I("JAL", 0, 0, 0, 0),
     I("SB", 0, a1, a0, 0), I("LW", a2, a1, 0, 0), I("ADDI", a0, a0, 0, 1) >>

MCDecode(w) ==
  IF Full(w) \in 1 .. Len(Table) THEN Table[Full(w)] ELSE Illegal

Encoded(n) == [k \in 1 .. 4 |-> Bytes(n)[k - 1]]

\* Two instructions, and an exit in the next page.
MCCode(n, m) ==
  [vaddr |-> 8, memsz |-> 16, rights |-> {"r", "x"},
   data |-> Encoded(n) \o Encoded(m) \o Encoded(2) \o Encoded(1)]

MCData == [vaddr |-> 32, memsz |-> 8, rights |-> {"r", "w"}, data |-> <<1, 2, 3>>]

MCPrograms ==
  {[code |-> MCCode(n, m), data |-> MCData, entry |-> 8] : n, m \in 1 .. 6}

MCSegmentInfos == {p.code : p \in MCPrograms} \cup {MCData}

File(v1, v7) ==
  [i \in MCRegIdx |-> CASE i = a1 -> v1 [] i = a2 -> 3 [] i = a7 -> v7 [] OTHER -> 0]

\* A word at 38 straddles two pages; nothing is mapped at 0 and 248.
MCRegisterFiles == {File(38, SysRead), File(0, SysExit), File(248, 1)}

MCInput == <<3, 1, 2>>

\* What the user may type; 250 straddles the end of the address space.
MCAddr == {0, 10, 250}

MCSteps  == {-1, 0, 1, 4}
MCCounts == {-1, 2}
=============================================================================
