---------------------------- MODULE SnippyPlugin ----------------------------
(***************************************************************************)
(* The plugin for llvm-snippy (snippy-plugin/main.cpp): a CPU_RV32I on a   *)
(* MEM32 behind the C interface of RVM.hpp.  The host creates a model from *)
(* the regions of its configuration, fills registers and memory, executes  *)
(* an instruction at a time and looks at the results; it is one thread.    *)
(*                                                                         *)
(* rvm_executeInstr is Enter, which fetches the word of the trace, and     *)
(* then the steps of the CPU, with no call of the host in between.         *)
(***************************************************************************)
EXTENDS CPU, FiniteSets

CONSTANTS
  Configs,        \* the memory regions of an RVMConfig
  FallbackStart,  \* kFallbackRomStart
  FallbackSpan,   \* kFallbackRomSpan
  MaxStart,       \* the last start a region may have, 0xFFFF0000
  MaxSize,        \* the largest size of a region, 0x10000000
  Values, HostData, HostCounts, Tracing,   \* as in RVM
  HostRegisters,  \* register numbers the host uses, some of no register
  MaxCalls        \* bound: calls between two creations, executeInstr aside

ASSUME SnippyPluginAssumption ==
  /\ Configs \subseteq [RomStart : Nat, RomSize : Nat, RamStart : Nat, RamSize : Nat]
  /\ FallbackStart \in Space /\ FallbackStart # 0
  /\ FallbackSpan \in Nat \ {0} /\ FallbackSpan + 2 * PageSize <= AddrSpace
  /\ MaxStart \in Space
  /\ MaxSize \in Nat /\ 2 * MaxSize + 2 * PageSize <= AddrSpace
  /\ Values \subseteq Nat
  /\ HostData \subseteq Seq(Byte) /\ HostCounts \subseteq Nat
  /\ \A d \in HostData : Len(d) <= AddrSpace
  /\ Tracing \in BOOLEAN
  /\ HostRegisters \subseteq Nat
  /\ MaxCalls \in Nat

VARIABLES
  config,   \* state->config; none when there is no state
  job,      \* rvm_executeInstr in progress: pc0 and word0, when tracing
  talk,     \* history: the last call of the host and its answer, as in RVM
  calls     \* bound: how many calls the host has made

plugin == <<config, job, talk, calls>>
all    == <<vars, plugin>>

NoConfig == [RomStart |-> 0, RomSize |-> 0, RamStart |-> 0, RamSize |-> -1]

Idle == [on |-> FALSE, line |-> <<>>]

Returned(op, at, data, value) ==
  [op |-> op, at |-> at, data |-> data, outcome |-> "returned", value |-> value,
   line |-> <<>>]

Unanswered == Returned("none", 0, <<>>, <<>>)

PCReg == 32

Ready == config # NoConfig /\ ~ job.on

-----------------------------------------------------------------------------
(***************************************************************************)
(* The memory map.                                                         *)
(***************************************************************************)
PlausibleRegion(st, sz, lowest) ==
  sz # 0 =>
    /\ st % PageSize = 0 /\ lowest <= st /\ st <= MaxStart
    /\ PageSize <= sz /\ sz <= MaxSize

\* rvm_config_memory_plausible
Plausible(c) ==
  /\ c.RomSize # 0 \/ c.RamSize # 0
  /\ PlausibleRegion(c.RomStart, c.RomSize, FallbackStart)
  /\ PlausibleRegion(c.RamStart, c.RamSize, 0)

MakeSegment(st, sz) ==
  [vaddr |-> U32(st), memsz |-> U32(sz), data |-> [i \in 1 .. sz |-> Zero],
   rights |-> Right]

Contiguous(c) ==
  /\ c.RomSize # 0 /\ c.RamSize # 0
  /\ \/ c.RomStart + c.RomSize = c.RamStart
     \/ c.RamStart + c.RamSize = c.RomStart

\* Wrong: the ROM is taken to come first.
RegionsRomFirst(c) ==
  IF ~ Plausible(c) THEN <<MakeSegment(FallbackStart, FallbackSpan)>>
  ELSE IF Contiguous(c) THEN <<MakeSegment(c.RomStart, c.RomSize + c.RamSize)>>
  ELSE (IF c.RomSize # 0 THEN <<MakeSegment(c.RomStart, c.RomSize)>> ELSE <<>>)
         \o (IF c.RamSize # 0 THEN <<MakeSegment(c.RamStart, c.RamSize)>> ELSE <<>>)

\* The segments modelCreate adds: adjacent regions are one.
Regions(c) ==
  IF ~ Plausible(c) THEN <<MakeSegment(FallbackStart, FallbackSpan)>>
  ELSE IF Contiguous(c)
  THEN <<MakeSegment(IF c.RomStart <= c.RamStart THEN c.RomStart ELSE c.RamStart,
                     c.RomSize + c.RamSize)>>
  ELSE (IF c.RomSize # 0 THEN <<MakeSegment(c.RomStart, c.RomSize)>> ELSE <<>>)
         \o (IF c.RamSize # 0 THEN <<MakeSegment(c.RamStart, c.RamSize)>> ELSE <<>>)

EmptyTable == [t \in {} |-> {}]

TableOf(rs) ==
  LET first == WithSegment(EmptyTable, Aligned(rs[1]))
  IN IF Len(rs) = 1 THEN first ELSE WithSegment(first, Aligned(rs[2]))

RegionsOverlap(rs) ==
  Len(rs) = 2 /\ Overlaps(WithSegment(EmptyTable, Aligned(rs[1])), Aligned(rs[2]))

FirstPC(c) ==
  IF ~ Plausible(c) THEN FallbackStart
  ELSE IF c.RomSize # 0 THEN c.RomStart ELSE c.RamStart

\* Wrong: the start of the ROM, whether there is one or not.
ResolveToRom(addr) == IF addr # 0 THEN addr ELSE config.RomStart

\* resolveSnippetPC
Resolve(addr) ==
  IF addr # 0 THEN addr
  ELSE IF Plausible(config) /\ config.RomSize > 0 THEN config.RomStart ELSE FallbackStart

-----------------------------------------------------------------------------
(***************************************************************************)
(* Creation and destruction.                                               *)
(***************************************************************************)
BlankMachine ==
  /\ regs' = [r \in RegIdx |-> 0]
  /\ running' = TRUE /\ thrown' = "none" /\ call' = NoCall
  /\ consumed' = 0 /\ output' = <<>>

Reset ==
  /\ segments' = EmptyTable /\ loaded' = {} /\ pc' = 0
  /\ BlankMachine
  /\ config' = NoConfig /\ job' = Idle /\ calls' = 0

PluginInit ==
  /\ segments = EmptyTable /\ loaded = {} /\ pc = 0
  /\ regs = [r \in RegIdx |-> 0]
  /\ running = TRUE /\ thrown = "none" /\ call = NoCall
  /\ consumed = 0 /\ output = <<>>
  /\ config = NoConfig /\ job = Idle /\ calls = 0
  /\ talk = Unanswered

\* Regions that share a page make add_segment throw: there is no model.
ModelCreate(c) ==
  /\ config = NoConfig
  /\ IF RegionsOverlap(Regions(c))
     THEN /\ talk' = Returned("modelCreate", 0, <<>>, <<0>>)
          /\ UNCHANGED <<vars, config, job, calls>>
     ELSE /\ segments' = TableOf(Regions(c))
          /\ loaded' = DOMAIN segments'
          /\ pc' = U32(FirstPC(c))
          /\ BlankMachine
          /\ config' = c
          /\ talk' = Returned("modelCreate", 0, <<>>, <<1>>)
          /\ UNCHANGED <<job, calls>>

ModelDestroy ==
  /\ Ready
  /\ Reset
  /\ talk' = Returned("modelDestroy", 0, <<>>, <<>>)

-----------------------------------------------------------------------------
(***************************************************************************)
(* rvm_executeInstr.                                                       *)
(***************************************************************************)
\* Wrong: the trace reads its word from the pc before it is resolved.
EnterUnresolved ==
  LET segs == GetSeg(segments, "read_instr32", pc)
      res  == OutcomeIn(segs, "read_instr32", pc)
  IN /\ Ready
     /\ pc' = U32(Resolve(pc))
     /\ segments' = IF Tracing THEN segs ELSE segments
     /\ IF Tracing /\ res # "ok"
        THEN /\ thrown' = res
             /\ talk' = Returned("executeInstr", 0, <<>>, <<1>>)
             /\ UNCHANGED job
        ELSE /\ job' = [on   |-> TRUE,
                        line |-> IF Tracing
                                 THEN <<pc', Full(ValueAt(segs, "read_instr32", pc))>>
                                 ELSE <<>>]
             /\ talk' = Unanswered
             /\ UNCHANGED thrown
     /\ UNCHANGED <<regs, running, call, host, loaded, config, calls>>

\* A pc of zero is replaced; then the trace reads its word, which may throw.
Enter ==
  LET at   == U32(Resolve(pc))
      segs == GetSeg(segments, "read_instr32", at)
      res  == OutcomeIn(segs, "read_instr32", at)
  IN /\ Ready
     /\ pc' = at
     /\ segments' = IF Tracing THEN segs ELSE segments
     /\ IF Tracing /\ res # "ok"
        THEN /\ thrown' = res
             /\ talk' = Returned("executeInstr", 0, <<>>, <<1>>)
             /\ UNCHANGED job
        ELSE /\ job' = [on   |-> TRUE,
                        line |-> IF Tracing
                                 THEN <<at, Full(ValueAt(segs, "read_instr32", at))>>
                                 ELSE <<>>]
             /\ talk' = Unanswered
             /\ UNCHANGED thrown
     /\ UNCHANGED <<regs, running, call, host, loaded, config, calls>>

\* fetch_and_decode and execute.  Nothing looks at is_running.
Work ==
  /\ job.on
  /\ Execute \/ SystemCall
  /\ IF call' # NoCall THEN UNCHANGED plugin
     ELSE /\ job' = Idle
          /\ talk' = IF thrown' = "none"
                     THEN [Returned("executeInstr", 0, <<>>, <<0>>) EXCEPT !.line = job.line]
                     ELSE Returned("executeInstr", 0, <<>>, <<1>>)
          /\ UNCHANGED <<config, calls>>

-----------------------------------------------------------------------------
(***************************************************************************)
(* What the host sets and reads.                                           *)
(***************************************************************************)
Change ==
  /\ Ready /\ calls < MaxCalls
  /\ calls' = calls + 1
  /\ UNCHANGED <<running, thrown, call, host, loaded, config, job>>

Look == Change /\ UNCHANGED <<pc, regs>>

PluginSetPC(addr) ==
  /\ Change
  /\ pc' = U32(Resolve(addr))
  /\ talk' = Returned("setPC", addr, <<>>, <<>>)
  /\ UNCHANGED <<segments, regs>>

Notify ==
  /\ Change
  /\ pc' = U32(Resolve(pc))
  /\ talk' = Returned("notifyExecutionModeBeforeSetPc", 0, <<>>, <<>>)
  /\ UNCHANGED <<segments, regs>>

\* Number 32 is the pc, as it is for the host's debugger; larger ones are none.
SetXReg(r, v) ==
  /\ Change
  /\ pc' = IF r = PCReg THEN U32(Resolve(v)) ELSE pc
  /\ regs' = IF r \in RegIdx THEN WriteReg(r, v) ELSE regs
  /\ talk' = Returned("setXReg", r, <<v>>, <<>>)
  /\ UNCHANGED segments

ReadXReg(r) ==
  /\ Look
  /\ talk' = Returned("readXReg", r, <<>>,
                      <<IF r = PCReg THEN pc ELSE IF r \in RegIdx THEN regs[r] ELSE 0>>)
  /\ UNCHANGED segments

ReadPC ==
  /\ Look
  /\ talk' = Returned("readPC", 0, <<>>, <<pc>>)
  /\ UNCHANGED segments

Ended(refused) == IF refused = {} THEN "returned" ELSE "escaped"

\* Wrong: the copy is begun only when the first and the last byte can be stored.
WriteMemEnds(addr, data) ==
  LET ends    == {0, Len(data) - 1}
      refused == Refused("write8", addr, Len(data)) \cap ends
  IN /\ Change
     /\ segments' = IF refused = {} THEN CopyIn(addr, data) ELSE segments
     /\ talk' = [Returned("writeMem", addr, data, <<>>) EXCEPT !.outcome = Ended(refused)]
     /\ UNCHANGED <<pc, regs>>

\* The loop of write8: AccessFault leaves it, and the C function, in the middle.
WriteMem(addr, data) ==
  /\ Change
  /\ segments' = CopyIn(addr, data)
  /\ talk' = [Returned("writeMem", addr, data, <<>>) EXCEPT
                !.outcome = Ended(Refused("write8", addr, Len(data)))]
  /\ UNCHANGED <<pc, regs>>

\* The loop of read8; it creates the pages it comes to, the const state or not.
ReadMem(addr, count) ==
  LET segs == Touched("read8", addr, count)
      n    == Cardinality(Reached("read8", addr, count))
  IN /\ Look
     /\ segments' = segs
     /\ talk' = [Returned("readMem", addr, <<count>>, CopyOut(segs, addr, n)) EXCEPT
                   !.outcome = Ended(Refused("read8", addr, count))]

\* What the calls answer when state is nullptr.
WithoutModel ==
  [executeInstr |-> <<1>>, readPC |-> <<0>>, setPC |-> <<>>, readXReg |-> <<0>>,
   setXReg |-> <<>>, readMem |-> <<>>, writeMem |-> <<>>]

CallInVain ==
  /\ config = NoConfig
  /\ \E op \in DOMAIN WithoutModel : talk' = Returned(op, 0, <<>>, WithoutModel[op])
  /\ UNCHANGED <<vars, config, job, calls>>

-----------------------------------------------------------------------------
HostCall ==
  \/ \E c \in Configs : ModelCreate(c)
  \/ ModelDestroy \/ CallInVain \/ Notify \/ ReadPC
  \/ \E addr \in Addr : PluginSetPC(addr)
  \/ \E r \in HostRegisters : ReadXReg(r) \/ \E v \in Values : SetXReg(r, v)
  \/ \E addr \in Addr, d \in HostData : WriteMem(addr, d)
  \/ \E addr \in Addr, c \in HostCounts : ReadMem(addr, c)

PluginNext == Enter \/ Work \/ HostCall

PluginSpec == PluginInit /\ [][PluginNext]_all

-----------------------------------------------------------------------------
(***************************************************************************)
(* Properties.                                                             *)
(***************************************************************************)
\* What the pc zero stands for; nothing when there is no model.
Start == IF config = NoConfig THEN -1 ELSE U32(Resolve(0))

\* What the host sees is the model RVM.hpp offers it: each call answers from,
\* and acts on, one RV32I machine, an executeInstr that returns 0 has retired
\* the instruction its line of the trace shows, one that returns 1 has not,
\* and a copy that is left half-way has done exactly the bytes before.
Rvm == INSTANCE RVM WITH bytes <- Memory, busy <- call # NoCall, start <- Start

ImplementsRVM == Rvm!RVMSpec

\* Every byte of the regions a model was created with, as far as a 32-bit
\* address reaches, can be read, written and executed, for as long as the model
\* lives; so can every byte of the map that replaces implausible regions.
RegionsAreUsable ==
  config # NoConfig =>
    LET usable(st, sz) ==
          \A a \in st .. st + sz - 1 : a < AddrSpace =>
            Tag(a) \in DOMAIN segments /\ segments[Tag(a)].rights = Right
    IN IF Plausible(config)
       THEN usable(config.RomStart, config.RomSize) /\ usable(config.RamStart, config.RamSize)
       ELSE usable(FallbackStart, FallbackSpan)

\* A pc of zero, be it that nobody has set it or that a program has jumped
\* there, is never executed; unless there is only RAM, execution goes on at an
\* instruction of the regions, where the model started.
ZeroIsTheStart ==
  [][~ job.on /\ job'.on =>
       /\ pc' # 0
       /\ pc = 0 /\ (Plausible(config) => config.RomSize # 0) =>
            pc' = FirstPC(config) /\ Tag(pc') \in loaded]_all

\* Tracing makes no instruction fail: when the fetch for the trace throws, so
\* would have the fetch of the instruction.
TraceFailsNothing ==
  [][Ready /\ talk'.op = "executeInstr" /\ talk'.value = <<1>> => Fetch' # "ok"]_all
=============================================================================
