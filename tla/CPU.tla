-------------------------------- MODULE CPU ---------------------------------
(***************************************************************************)
(* Class CPU_RV32I (inc/cpu.hpp) on a MEM32, with fetch_and_decode of      *)
(* class Decoder_RV32I (inc/decoder.hpp): every step fetches, decodes and  *)
(* executes the instruction at the pc, as Simulator::step and the Snippy   *)
(* plugin do.  An exception leaves the step where the code throws it.      *)
(*                                                                         *)
(* The system calls read and write copy through a buffer of BufSize bytes: *)
(* one action is one turn of their loop, one system call of the host.      *)
(***************************************************************************)
EXTENDS SegmentTable, Instructions

CONSTANTS
  Programs,       \* what load_elf loads: two segments and an entry point
  RegisterFiles,  \* initial registers, RegIdx -> Space
  BufSize,        \* sizeof(buffer_), BUFSIZ in the code
  Input,          \* the bytes the host has to read
  MaxOutput       \* bound: bytes the program writes

ASSUME CPUAssumption ==
  /\ PageSize % 4 = 0
  /\ Programs \subseteq [code : SegmentInfos, data : SegmentInfos, entry : Space]
  /\ \A f \in RegisterFiles : f \in [RegIdx -> Space] /\ f[0] = 0
  /\ BufSize \in Nat \ {0} /\ BufSize < AddrSpace
  /\ Input \in Seq(Byte)
  /\ MaxOutput \in Nat

VARIABLES
  segments,   \* the memory the CPU runs on
  pc, regs,   \* pc_, regs_
  running,    \* is_running_
  thrown,     \* what the last step threw, or "none"
  call,       \* the system call being executed, its total; turn and start are
              \* history, the parity of its turns and what was transferred before
  consumed,   \* history: how much of Input the host has handed out
  output,     \* history: the bytes the host has taken
  loaded      \* history: the pages that were loaded before the program ran

host    == <<consumed, output>>
machine == <<pc, regs, running>>
vars    == <<segments, machine, thrown, call, host, loaded>>

NoCall == [kind |-> "none", total |-> 0, start |-> 0, turn |-> FALSE]

Image(code, data) == WithSegment(WithSegment([t \in {} |-> {}], code), data)

Init ==
  /\ \E p \in Programs :
       /\ Tags(Aligned(p.code)) \cap Tags(Aligned(p.data)) = {}
       /\ segments = Image(Aligned(p.code), Aligned(p.data))
       /\ pc = p.entry
  /\ regs \in RegisterFiles
  /\ loaded = DOMAIN segments
  /\ running = TRUE
  /\ thrown = "none"
  /\ call = NoCall
  /\ consumed = 0
  /\ output = <<>>

-----------------------------------------------------------------------------
(***************************************************************************)
(* fetch_and_decode.  A misaligned pc throws before the memory is touched. *)
(***************************************************************************)
Code == GetSeg(segments, "read_instr32", pc)

Instr == Decode(ValueAt(Code, "read_instr32", pc))

Fetch ==
  IF pc % 4 # 0 THEN "InstructionAddressMisaligned"
  ELSE IF OutcomeIn(Code, "read_instr32", pc) # "ok"
       THEN OutcomeIn(Code, "read_instr32", pc)
  ELSE IF Instr = Illegal THEN "IllegalInstruction" ELSE "ok"

Executes(types) == call = NoCall /\ Fetch = "ok" /\ Instr.type \in types

\* Wrong: x0 is a register like the others.
WriteRegZero(idx, v) == [regs EXCEPT ![idx] = U32(v)]

\* write_reg
WriteReg(idx, v) == IF idx = 0 THEN regs ELSE [regs EXCEPT ![idx] = U32(v)]

\* Wrong: the pc moves on before the exception leaves the step.
ThrowSkipping(kind, segs) ==
  /\ thrown' = kind
  /\ segments' = segs
  /\ call' = NoCall
  /\ pc' = U32(pc + 4)
  /\ UNCHANGED <<regs, running, loaded>>

Throw(kind, segs) ==
  /\ thrown' = kind
  /\ segments' = segs
  /\ call' = NoCall
  /\ UNCHANGED <<machine, loaded>>

Retire(segs, file, target) ==
  /\ segments' = segs
  /\ regs' = file
  /\ pc' = U32(target)
  /\ thrown' = "none"
  /\ call' = NoCall
  /\ UNCHANGED loaded

(***************************************************************************)
(* read_reg(rs1) + imm, in 64 bits: a negative sum is 2^64 - n, an address *)
(* beyond AddrSpace with the same low 32 bits as the one taken here.       *)
(***************************************************************************)
Address ==
  LET n == regs[Instr.rs1] + Instr.imm
  IN IF n < 0 THEN U32(n) + AddrSpace ELSE n

Accessor(type) ==
  CASE type \in {"LB", "LBU"} -> "read8"
    [] type \in {"LH", "LHU"} -> "read16"
    [] type = "LW"            -> "read32"
    [] type = "SB"            -> "write8"
    [] type = "SH"            -> "write16"
    [] type = "SW"            -> "write32"

-----------------------------------------------------------------------------
FetchFault ==
  /\ call = NoCall /\ Fetch # "ok"
  /\ Throw(Fetch, IF pc % 4 # 0 THEN segments ELSE Code)
  /\ UNCHANGED host

Arithmetic ==
  /\ Executes(RTypes \cup ITypes)
  /\ LET y == IF Instr.type \in RTypes THEN regs[Instr.rs2] ELSE Instr.imm
     IN Retire(Code, WriteReg(Instr.rd, Alu(Instr.type, regs[Instr.rs1], y)), pc + 4)
  /\ UNCHANGED <<running, host>>

\* Wrong: the destination is cleared before the load is known to succeed.
LoadClearing ==
  /\ Executes(Loads)
  /\ LET op   == Accessor(Instr.type)
         segs == GetSeg(Code, op, Address)
         res  == OutcomeIn(segs, op, Address)
     IN /\ segments' = segs
        /\ regs' = WriteReg(Instr.rd, IF res # "ok" THEN 0
                                      ELSE Extended(Instr.type, ValueAt(segs, op, Address)))
        /\ pc' = IF res = "ok" THEN U32(pc + 4) ELSE pc
        /\ thrown' = IF res = "ok" THEN "none" ELSE res
  /\ UNCHANGED <<running, call, host, loaded>>

LoadInstr ==
  /\ Executes(Loads)
  /\ LET op   == Accessor(Instr.type)
         segs == GetSeg(Code, op, Address)
         res  == OutcomeIn(segs, op, Address)
     IN \/ /\ res = "ok"
           /\ Retire(segs,
                     WriteReg(Instr.rd, Extended(Instr.type, ValueAt(segs, op, Address))),
                     pc + 4)
           /\ UNCHANGED running
        \/ res # "ok" /\ Throw(res, segs)
  /\ UNCHANGED host

StoreInstr ==
  /\ Executes(Stores)
  /\ LET op   == Accessor(Instr.type)
         segs == GetSeg(Code, op, Address)
         res  == OutcomeIn(segs, op, Address)
     IN \/ /\ res = "ok"
           /\ Retire(Written(segs, op, Address, Bytes(regs[Instr.rs2])), regs, pc + 4)
           /\ UNCHANGED running
        \/ res # "ok" /\ Throw(res, segs)
  /\ UNCHANGED host

Branch ==
  /\ Executes(Branches)
  /\ Retire(Code, regs,
            pc + (IF Taken(Instr.type, regs[Instr.rs1], regs[Instr.rs2])
                  THEN Instr.imm ELSE 4))
  /\ UNCHANGED <<running, host>>

\* Wrong: rd is written before rs1 is read.
JumpLinkFirst ==
  /\ Executes(Jumps)
  /\ LET file   == WriteReg(Instr.rd, pc + 4)
         target == U32(file[Instr.rs1] + Instr.imm)
     IN Retire(Code, file,
               IF Instr.type = "JAL" THEN pc + Instr.imm ELSE target - (target % 2))
  /\ UNCHANGED <<running, host>>

\* JALR reads rs1 before it writes rd; both may be the same register.
Jump ==
  /\ Executes(Jumps)
  /\ LET target == U32(regs[Instr.rs1] + Instr.imm)
     IN Retire(Code, WriteReg(Instr.rd, pc + 4),
               IF Instr.type = "JAL" THEN pc + Instr.imm ELSE target - (target % 2))
  /\ UNCHANGED <<running, host>>

Upper ==
  /\ Executes(Uppers)
  /\ Retire(Code,
            WriteReg(Instr.rd, IF Instr.type = "AUIPC" THEN pc + Instr.imm ELSE Instr.imm),
            pc + 4)
  /\ UNCHANGED <<running, host>>

Nop ==
  /\ Executes(Nops)
  /\ Retire(Code, regs, pc + 4)
  /\ UNCHANGED <<running, host>>

-----------------------------------------------------------------------------
(***************************************************************************)
(* ECALL.                                                                  *)
(***************************************************************************)
Exit ==
  /\ Executes({"ECALL"}) /\ regs[a7] = SysExit
  /\ Retire(Code, regs, pc + 4)
  /\ running' = FALSE
  /\ UNCHANGED host

UnknownSyscall ==
  /\ Executes({"ECALL"}) /\ regs[a7] \notin {SysRead, SysWrite, SysExit}
  /\ Throw("UnknownSyscall", Code)
  /\ UNCHANGED host

Return(n, segs) ==
  /\ Retire(segs, WriteReg(a0, n), pc + 4)
  /\ UNCHANGED running

\* The loop turns while total < a2; a count of zero returns at once.
Begin(kind, start) ==
  /\ UNCHANGED host
  /\ \/ regs[a2] = 0 /\ Return(0, Code)
     \/ /\ regs[a2] > 0
        /\ call' = [kind |-> kind, total |-> 0, start |-> start, turn |-> FALSE]
        /\ segments' = Code
        /\ thrown' = "none"
        /\ UNCHANGED <<machine, loaded>>

BeginRead ==
  Executes({"ECALL"}) /\ regs[a7] = SysRead /\ Begin("read", consumed)

BeginWrite ==
  Executes({"ECALL"}) /\ regs[a7] = SysWrite /\ Begin("write", Len(output))

\* Wrong: every turn of the loop starts at the first byte of the buffer.
FromStart == regs[a1]

From == regs[a1] + call.total

Chunk == IF regs[a2] - call.total <= BufSize THEN regs[a2] - call.total ELSE BufSize

(***************************************************************************)
(* A loop of read8 or write8 over n bytes from address a on.  Byte i is    *)
(* refused when its page is there without the right; the loop stops at the *)
(* first such byte.  Other pages are created as it comes to them.          *)
(***************************************************************************)
Refused(op, a, n) ==
  {i \in 0 .. n - 1 : OutcomeOf(segments, op, a + i) # "ok"}

Reached(op, a, n) ==
  LET refused == Refused(op, a, n)
  IN {i \in 0 .. n - 1 : \A j \in refused : i < j}

Touched(op, a, n) ==
  LET new == {Tag(a + i) : i \in Reached(op, a, n)} \ DOMAIN segments
  IN [t \in DOMAIN segments \cup new |->
        IF t \in new THEN ZeroPage(Need(op)) ELSE segments[t]]

ByteAt(segs, b) == segs[Tag(b)].data[U32(b) - (Tag(b) * PageSize)]

CopyIn(a, data) ==
  LET segs == Touched("write8", a, Len(data))
      reached == Reached("write8", a, Len(data))
      at(t, p) == U32(t * PageSize + p - a)
  IN [t \in DOMAIN segs |->
        [segs[t] EXCEPT !.data =
           [p \in InPage |-> IF at(t, p) \in reached
                             THEN data[at(t, p) + 1] ELSE @[p]]]]

CopyOut(segs, a, n) == [i \in 1 .. n |-> ByteAt(segs, a + i - 1)]

\* Wrong: the loop goes on after a short transfer.
ContinueUntilFull(n, segs) ==
  IF call.total + n = regs[a2]
  THEN Return(call.total + n, segs)
  ELSE /\ call' = [call EXCEPT !.total = @ + n, !.turn = ~ @]
       /\ segments' = segs
       /\ thrown' = "none"
       /\ UNCHANGED <<machine, loaded>>

\* The loop ends on a short transfer and when everything is transferred.
Continue(n, segs) ==
  IF n < Chunk \/ call.total + n = regs[a2]
  THEN Return(call.total + n, segs)
  ELSE /\ call' = [call EXCEPT !.total = @ + n, !.turn = ~ @]
       /\ segments' = segs
       /\ thrown' = "none"
       /\ UNCHANGED <<machine, loaded>>

\* The host reads n bytes into the buffer; zero is the end of its input.
ReadChunk(n) ==
  LET data == SubSeq(Input, consumed + 1, consumed + n)
      segs == CopyIn(From, data)
  IN /\ call.kind = "read"
     /\ n <= Chunk /\ consumed + n <= Len(Input)
     /\ consumed' = consumed + n
     /\ IF Refused("write8", From, n) = {}
        THEN Continue(n, segs)
        ELSE Throw("AccessFault", segs)
     /\ UNCHANGED output

\* An error of the host: the bytes read before it are reported instead.
ReadError ==
  /\ call.kind = "read"
  /\ Return(IF call.total = 0 THEN -1 ELSE call.total, segments)
  /\ UNCHANGED host

\* The buffer is filled from memory before the host sees any of it.
WriteFault ==
  /\ call.kind = "write"
  /\ Refused("read8", From, Chunk) # {}
  /\ Throw("AccessFault", Touched("read8", From, Chunk))
  /\ UNCHANGED host

WriteChunk(n) ==
  LET segs == Touched("read8", From, Chunk)
  IN /\ call.kind = "write"
     /\ Refused("read8", From, Chunk) = {}
     /\ n <= Chunk /\ Len(output) + n <= MaxOutput
     /\ output' = output \o CopyOut(segs, From, n)
     /\ Continue(n, segs)
     /\ UNCHANGED consumed

\* An error of the host replaces the count of what is already written.
WriteError ==
  /\ call.kind = "write"
  /\ Refused("read8", From, Chunk) = {}
  /\ Return(-1, Touched("read8", From, Chunk))
  /\ UNCHANGED host

-----------------------------------------------------------------------------
\* A client, the debugger or the plugin, moves the program counter.
SetPC(addr) ==
  /\ call = NoCall
  /\ pc' = U32(addr)
  /\ thrown' = "none"
  /\ UNCHANGED <<segments, regs, running, call, host, loaded>>

Execute ==
  \/ FetchFault
  \/ Arithmetic \/ LoadInstr \/ StoreInstr \/ Branch \/ Jump \/ Upper \/ Nop
  \/ Exit \/ UnknownSyscall \/ BeginRead \/ BeginWrite

SystemCall ==
  \/ \E n \in 0 .. BufSize : ReadChunk(n) \/ WriteChunk(n)
  \/ ReadError \/ WriteFault \/ WriteError

Next == Execute \/ SystemCall \/ \E addr \in Addr : SetPC(addr)

Spec == Init /\ [][Next]_vars

\* The host answers every system call, and the simulator goes on when it does.
FairSpec == Spec /\ WF_vars(SystemCall)

-----------------------------------------------------------------------------
\* Registers and pc hold 32-bit words, x0 holds zero; a call in progress has
\* transferred less than a2 asks for, and no more than the host handed over.
TypeOK ==
  /\ DOMAIN segments \subseteq Nat /\ segments \in [DOMAIN segments -> Page]
  /\ loaded \subseteq DOMAIN segments
  /\ pc \in Space
  /\ regs \in [RegIdx -> Space] /\ regs[0] = 0
  /\ running \in BOOLEAN
  /\ thrown \in AccessFaults \cup {"none", "InstructionAddressMisaligned",
                                   "IllegalInstruction", "UnknownSyscall"}
  /\ call \in [kind : {"none", "read", "write"}, total : Nat, start : Nat,
              turn : BOOLEAN]
  /\ call.kind # "none" => call.total < regs[a2]
  /\ consumed \in 0 .. Len(Input)
  /\ output \in Seq(Byte)

Memory == BytesOf(segments)

\* CPU and memory together are the RV32I machine: every step retires the
\* instruction the flat memory holds at the pc, with its effects in full, or
\* traps and changes nothing, or is one more turn of a system call.
Rv32 == INSTANCE ISA WITH bytes <- Memory, busy <- call # NoCall

ImplementsISA == Rv32!Spec

\* A step that throws has not executed its instruction: whatever was done
\* before the throw, registers, pc and memory are as they were, except that a
\* read may have stored a part of its input.
FaultsArePrecise ==
  [][thrown' # "none" =>
       /\ UNCHANGED machine
       /\ call.kind # "read" => Memory' = Memory]_vars

\* Executing a faulting instruction once more faults in the same way, though
\* the first attempt may have created pages: nothing but a client's SetPC gets
\* a program past it.  A faulting system call starts over instead, unless a read
\* has overwritten its own ecall, in a page that is both code and writable.
FaultsRepeat ==
  [][thrown # "none" /\ Execute => thrown' = thrown \/ call' # NoCall]_vars

\* Only pages that were loaded as code are ever executed: never a page that no
\* segment maps, whatever a program or a system call wrote there, nor a data
\* page.  What a program stores in a segment that is both code and writable is.
ExecutedCodeWasLoaded ==
  [][Execute /\ (thrown' = "none" \/ call' # NoCall) =>
       Tag(pc) \in loaded /\ {"r", "x"} \subseteq segments[Tag(pc)].rights]_vars

\* The count a system call returns is exact, over all the turns of its loop:
\* after a read, so many bytes of input were taken since the call began and
\* they are in the buffer, in order; after a write, so many bytes went out and
\* they are those of the buffer.  When a read reports an error none were taken;
\* when a write does, the turns before the error are out, and nothing else is.
TransfersAreExact ==
  [][call # NoCall /\ call' = NoCall /\ thrown' = "none" =>
       LET n == regs'[a0]
           buffer(i) == Memory'[U32(regs[a1] + i)]
       IN CASE call.kind = "read" ->
                 IF n = U32(-1) THEN consumed' = call.start
                 ELSE /\ consumed' = call.start + n
                      /\ \A i \in 0 .. n - 1 : buffer(i) = Input[call.start + i + 1]
            [] call.kind = "write" ->
                 LET sent == Len(output') - call.start
                 IN /\ n = sent \/ (n = U32(-1) /\ sent = call.total)
                    /\ \A i \in 0 .. sent - 1 : buffer(i) = output'[call.start + i + 1]]_vars

\* A system call ends, whatever the host answers at each turn.
CallsEnd == call # NoCall ~> call = NoCall
=============================================================================
