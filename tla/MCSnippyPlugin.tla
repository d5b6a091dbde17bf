--------------------------- MODULE MCSnippyPlugin ---------------------------
(***************************************************************************)
(* The plugin with bytes of four values and pages of eight bytes.  The     *)
(* host writes programs that overwrite the instruction being executed, by  *)
(* a store and by a system call, and that jump to address zero.            *)
(***************************************************************************)
EXTENDS SnippyPlugin

MCByte   == 0 .. 3
MCRegIdx == {0, a0, a1, a2, a7}
MCImm    == {0, 2, 8, 19, SysRead}

\* The programs do no arithmetic.
MCAlu(type, x, y) == x

I(type, rd, rs1, rs2, imm) ==
  [type |-> type, rd |-> rd, rs1 |-> rs1, rs2 |-> rs2, imm |-> imm]

Table ==
  << I("ECALL", 0, 0, 0, 0), I("LI", a7, 0, 0, SysRead), I("LI", a2, 0, 0, 2),
     I("LI", a1, 0, 0, 19), I("SB", 0, 0, a1, 8), I("JALR", 0, 0, 0, 0) >>

MCDecode(w) ==
  IF Full(w) \in 1 .. Len(Table) THEN Table[Full(w)] ELSE Illegal

Encoded(n) == [k \in 1 .. 4 |-> Bytes(n)[k - 1]]

\* Read two bytes to address 19, the second of which is the call's own;
\* store over the instruction at eight; jump to zero.
MCHostData ==
  { Encoded(2) \o Encoded(3) \o Encoded(4) \o Encoded(1),
    Encoded(5) \o Encoded(6), <<3, 3>> }

Config(romst, romsz, ramst, ramsz) ==
  [RomStart |-> romst, RomSize |-> romsz, RamStart |-> ramst, RamSize |-> ramsz]

\* Adjacent, either first; apart, with a size that is not whole pages; sharing
\* a page; only RAM, at zero; ROM over the end of the address space; none that
\* are plausible.
MCConfigs ==
  { Config(8, 8, 16, 8), Config(24, 8, 16, 8), Config(8, 16, 40, 12),
    Config(8, 16, 16, 8), Config(0, 0, 0, 8), Config(240, 24, 0, 0),
    Config(4, 8, 40, 8) }

MCInput == <<3, 1>>

\* Address zero, the start, the last byte of a page and 2^32 beyond the start.
MCAddr   == {0, 8, 23, 264}

\* A register is 64 bits wide for the host: zero, an address, and 2^32 beyond each.
MCValues == {0, 19, 256, 275}

\* x0, a register that is used, the pc, and none.
MCHostRegisters == {0, a1, PCReg, PCReg + 1}
=============================================================================
