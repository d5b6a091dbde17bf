-------------------------------- MODULE ISA ---------------------------------
(***************************************************************************)
(* The machine README.md promises: RV32I over a flat array of bytes.  An   *)
(* instruction retires with the effects of its definition or it traps,     *)
(* and a trap changes nothing at all: no register, no byte, not the pc.    *)
(* Which accesses trap is the memory's business (FlatMemory).              *)
(*                                                                         *)
(* A system call takes any number of steps; until it returns, it changes   *)
(* nothing but the buffer of a read.  It returns in a0 a count within the  *)
(* limit it was given, or the negative error of the host.                  *)
(***************************************************************************)
EXTENDS Instructions

VARIABLES pc, regs, bytes, running,
          busy   \* a system call has not returned yet

vars == <<pc, regs, bytes, running, busy>>

Load(a) == [k \in 0 .. 3 |-> bytes[U32(a + k)]]

Result(i) ==
  LET x == regs[i.rs1] IN
  CASE i.type \in RTypes         -> Alu(i.type, x, regs[i.rs2])
    [] i.type \in ITypes         -> Alu(i.type, x, i.imm)
    [] i.type \in Loads          -> Extended(i.type, Load(x + i.imm))
    [] i.type \in Jumps          -> pc + 4
    [] i.type = "AUIPC"          -> pc + i.imm
    [] i.type \in {"LUI", "LI"}  -> i.imm

HasResult(i) == i.type \in RTypes \cup ITypes \cup Loads \cup Jumps \cup Uppers

Target(i) ==
  CASE i.type = "JAL"  -> pc + i.imm
    [] i.type = "JALR" -> 2 * (U32(regs[i.rs1] + i.imm) \div 2)
    [] i.type \in Branches /\ Taken(i.type, regs[i.rs1], regs[i.rs2]) -> pc + i.imm
    [] OTHER -> pc + 4

Size(i) == CASE i.type = "SB" -> 1 [] i.type = "SH" -> 2 [] i.type = "SW" -> 4

Stored(i) ==
  [b \in Space |->
     LET k == U32(b - (regs[i.rs1] + i.imm))
     IN IF k < Size(i) THEN Bytes(regs[i.rs2])[k] ELSE bytes[b]]

Register(idx, v) == [r \in RegIdx |-> IF r = idx /\ r # 0 THEN U32(v) ELSE regs[r]]

-----------------------------------------------------------------------------
Init ==
  /\ pc \in Space
  /\ regs \in [RegIdx -> Space] /\ regs[0] = 0
  /\ bytes \in [Space -> Byte]
  /\ running = TRUE
  /\ busy = FALSE

AtInstruction(i) == pc % 4 = 0 /\ i = Decode(Load(pc)) /\ i # Illegal

Retire(i) ==
  /\ ~ busy /\ AtInstruction(i) /\ i.type # "ECALL"
  /\ regs' = IF HasResult(i) THEN Register(i.rd, Result(i)) ELSE regs
  /\ bytes' = IF i.type \in Stores THEN Stored(i) ELSE bytes
  /\ pc' = U32(Target(i))
  /\ UNCHANGED <<running, busy>>

Exit(i) ==
  /\ ~ busy /\ AtInstruction(i) /\ i.type = "ECALL" /\ regs[a7] = SysExit
  /\ running' = FALSE
  /\ pc' = U32(pc + 4)
  /\ UNCHANGED <<regs, bytes, busy>>

AtCall(i) ==
  /\ ~ busy /\ AtInstruction(i)
  /\ i.type = "ECALL" /\ regs[a7] \in {SysRead, SysWrite}

Call(i) ==
  /\ AtCall(i)
  /\ busy' = TRUE
  /\ UNCHANGED <<pc, regs, bytes, running>>

\* The bytes from a1 on, as many as a2 says, wrapping at the end of memory.
Buffer == {b \in Space : U32(b - regs[a1]) < regs[a2]}

Transfer ==
  /\ bytes' \in [Space -> Byte]
  /\ \A b \in Space : bytes'[b] # bytes[b] => regs[a7] = SysRead /\ b \in Buffer

\* A fault abandons the call: the instruction has not retired.
Progress ==
  /\ busy /\ Transfer
  /\ UNCHANGED <<pc, regs, running>>
  /\ busy' \in BOOLEAN

Return(i) ==
  /\ busy \/ AtCall(i)
  /\ Transfer
  /\ \E n \in (0 .. regs[a2]) \cup {-1} : regs' = Register(a0, n)
  /\ pc' = U32(pc + 4)
  /\ busy' = FALSE
  /\ UNCHANGED running

SetPC ==
  /\ ~ busy
  /\ pc' \in Space
  /\ UNCHANGED <<regs, bytes, running, busy>>

Next ==
  \/ LET i == Decode(Load(pc)) IN Retire(i) \/ Exit(i) \/ Call(i) \/ Return(i)
  \/ Progress \/ SetPC

Spec == Init /\ [][Next]_vars
=============================================================================
