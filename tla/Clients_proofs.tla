--------------------------- MODULE Clients_proofs ---------------------------
(***************************************************************************)
(* Proofs about the two programs that drive the CPU: the loops of class    *)
(* Simulator and its debugger, for every program, every count of steps and *)
(* every sequence of commands; and the plugin, for every memory map, every *)
(* program and every sequence of the host's calls.                         *)
(***************************************************************************)
EXTENDS Simulator, SnippyPlugin, CPU_proofs, FiniteSetTheorems

-----------------------------------------------------------------------------
(***************************************************************************)
(* Simulator.                                                              *)
(***************************************************************************)
\* The prompt is only ever shown while the program is running: the loop of a
\* step command in which the program exits does not come back to it.
PromptWhileRunning == mode = "prompt" => running

LEMMA BootPrompt == Boot => PromptWhileRunning
BY DEF Boot, Init, PromptWhileRunning

LEMMA StepPrompt ==
  ASSUME PromptWhileRunning, [Drive]_simVars
  PROVE  PromptWhileRunning'
<1>1. CASE Step
  BY <1>1 DEF Step, InLoop, PromptWhileRunning
<1>2. CASE IdleStep \/ LoopEnds
  BY <1>2 DEF IdleStep, LoopEnds, InLoop, PromptWhileRunning, vars, machine
<1>3. CASE Command
  BY <1>3 DEF Command, CommandStep, CommandBadStep, CommandMemory, CommandPC, CommandQuit,
              SetPC, PromptWhileRunning, vars, machine, driver
<1>4. CASE Over \/ UNCHANGED simVars
  BY <1>4 DEF Over, simVars, PromptWhileRunning, vars, machine, driver
<1> QED
  BY <1>1, <1>2, <1>3, <1>4 DEF Drive, Loop

\* What main writes as the final state is the state the program exited in: no
\* step asked for beyond the exit, in any of the loops, and no command of the
\* debugger changes the machine, its memory or what the host has seen.
THEOREM ExitFinal == SimulatorSpec => ExitIsFinal
<1>1. ASSUME PromptWhileRunning, [Drive]_simVars, ~ running
      PROVE  UNCHANGED <<machine, segments, host>>
  <2>1. ~ Step
    BY <1>1 DEF Step
  <2>2. ~ Command
    BY <1>1 DEF Command, CommandStep, CommandBadStep, CommandMemory, CommandPC,
                CommandQuit, PromptWhileRunning
  <2>3. UNCHANGED vars
    BY <1>1, <2>1, <2>2 DEF Drive, Loop, IdleStep, LoopEnds, Over, simVars
  <2> QED
    BY <2>3 DEF vars
<1>2. PromptWhileRunning /\ [Drive]_simVars =>
        [~ running => UNCHANGED <<machine, segments, host>>]_simVars
  BY <1>1
<1>3. Boot => PromptWhileRunning
  BY BootPrompt
<1>4. PromptWhileRunning /\ [Drive]_simVars => PromptWhileRunning'
  BY StepPrompt
<1> QED
  BY <1>2, <1>3, <1>4, PTL DEF SimulatorSpec, ExitIsFinal

-----------------------------------------------------------------------------
(***************************************************************************)
(* A run without limit stays where it faults.                              *)
(***************************************************************************)

\* A program that has exited has not thrown.
ExitedQuietly == ~ running => thrown = "none"

\* In a run without limit nobody but the program works on the machine.
Unlimited == mode = "continuous" => IInv /\ FInv

LEMMA BootUnlimited ==
  ASSUME SeparateRights, Boot
  PROVE  ExitedQuietly /\ Unlimited
BY InitIInv, InitFInv DEF Boot, Init, ExitedQuietly, Unlimited

LEMMA StepExitedQuietly ==
  ASSUME PromptWhileRunning, ExitedQuietly, [Drive]_simVars
  PROVE  ExitedQuietly'
<1>1. CASE Step
  <2>1. running /\ (Execute \/ SystemCall)
    BY <1>1 DEF Step
  <2>2. CASE Exit
    BY <2>2 DEF Exit, Retire, ExitedQuietly
  <2>3. CASE ~ Exit
    <3>1. running' = running
      BY <2>1, <2>3 DEF Execute, SystemCall, FetchFault, Arithmetic, LoadInstr, StoreInstr,
           Branch, Jump, Upper, Nop, UnknownSyscall, BeginRead, BeginWrite, Begin, ReadChunk,
           WriteChunk, ReadError, WriteFault, WriteError, Continue, Return, Throw, machine
    <3> QED
      BY <2>1, <3>1 DEF ExitedQuietly
  <2> QED
    BY <2>2, <2>3
<1>2. CASE IdleStep \/ LoopEnds
  BY <1>2 DEF IdleStep, LoopEnds, ExitedQuietly, vars, machine
<1>3. CASE Command
  BY <1>3 DEF Command, CommandStep, CommandBadStep, CommandMemory, CommandPC, CommandQuit,
              SetPC, ExitedQuietly, vars, machine
<1>4. CASE Over \/ UNCHANGED simVars
  BY <1>4 DEF Over, simVars, ExitedQuietly, vars, machine
<1> QED
  BY <1>1, <1>2, <1>3, <1>4 DEF Drive, Loop

LEMMA StepUnlimited ==
  ASSUME Unlimited, [Drive]_simVars
  PROVE  Unlimited'
<1>1. SUFFICES ASSUME mode' = "continuous" PROVE IInv' /\ FInv'
  BY DEF Unlimited
<1>2. mode = "continuous"
  BY <1>1 DEF Drive, Loop, Step, IdleStep, LoopEnds, Command, CommandStep, CommandBadStep,
              CommandMemory, CommandPC, CommandQuit, Over, simVars, driver
<1>3. IInv /\ FInv
  BY <1>2 DEF Unlimited
<1>4. [Next]_vars
  BY <1>2 DEF Drive, Loop, Step, IdleStep, LoopEnds, Command, CommandStep, CommandBadStep,
              CommandMemory, CommandPC, CommandQuit, Over, simVars, Next
<1> QED
  BY <1>3, <1>4, StepIInv, StepFInv

\* An instruction that throws leaves the machine as it was.
LEMMA ThrowingStays ==
  ASSUME Execute \/ SystemCall, thrown' # "none"
  PROVE  UNCHANGED machine /\ call' = NoCall
BY DEF Execute, SystemCall, FetchFault, Arithmetic, LoadInstr, StoreInstr, Branch, Jump,
       Upper, Nop, Exit, UnknownSyscall, BeginRead, BeginWrite, Begin, ReadChunk, WriteChunk,
       ReadError, WriteFault, WriteError, Continue, Return, Retire, Throw

\* A program that runs without a limit of steps and faults neither goes on nor
\* ends: step() has swallowed the exception, the instruction at fault is tried
\* again, for ever, whether it was a fetch, a load or a store.
THEOREM FaultsHold ==
  SeparateRights => (SimulatorSpec => FaultsHoldUnlimitedRuns)
<1> SUFFICES ASSUME SeparateRights PROVE SimulatorSpec => FaultsHoldUnlimitedRuns
  OBVIOUS
<1> DEFINE Faults == \/ thrown' \notin {"none", "UnknownSyscall"}
                     \/ thrown # "none" /\ (Fetch = "ok" => Instr.type # "ECALL")
<1>1. ASSUME ExitedQuietly, Unlimited, Drive, mode = "continuous", Faults
      PROVE  UNCHANGED <<machine, mode>>
  <2>1. IInv /\ FInv
    BY <1>1 DEF Unlimited
  <2>2. CASE Step
    <3>1. Execute \/ SystemCall
      BY <2>2 DEF Step
    <3>2. thrown' \notin {"none", "UnknownSyscall"}
      <4>1. CASE thrown # "none" /\ (Fetch = "ok" => Instr.type # "ECALL")
        <5>1. ~ AtTransfer /\ thrown # "UnknownSyscall" /\ call = NoCall
          <6>1. Fetch \in Kinds \cup {"ok"}
            BY <2>1, FetchFacts
          <6> QED
            BY <2>1, <4>1, <6>1
               DEF FInv, Again, AtTransfer, AccessOutcome, OutcomeIn, Fetch, Kinds, AccessFaults
        <5>2. ~ SystemCall
          BY <5>1 DEF NoCall, SystemCall, ReadChunk, ReadError, WriteFault, WriteChunk,
                      WriteError
        <5>3. thrown' = thrown \/ call' # NoCall
          BY <2>1, <3>1, <4>1, <5>2, FaultRepeats
        <5>4. call' # NoCall => BeginRead \/ BeginWrite
          BY <3>1, <5>2 DEF Execute, FetchFault, Arithmetic, LoadInstr, StoreInstr, Branch,
                            Jump, Upper, Nop, Exit, UnknownSyscall, Retire, Throw
        <5>5. call' = NoCall
          BY <4>1, <5>4 DEF BeginRead, BeginWrite, Executes
        <5> QED
          BY <4>1, <5>1, <5>3, <5>5
      <4> QED
        BY <1>1, <4>1
    <3>3. UNCHANGED machine /\ call' = NoCall
      BY <3>1, <3>2, ThrowingStays
    <3> QED
      BY <2>2, <3>2, <3>3 DEF Step
  <2>3. CASE IdleStep
    BY <2>3 DEF IdleStep, vars
  <2>4. CASE LoopEnds
    BY <1>1, <2>4 DEF LoopEnds, InLoop, ExitedQuietly, vars
  <2>5. ~ Command /\ ~ Over
    BY <1>1 DEF Command, CommandStep, CommandBadStep, CommandMemory, CommandPC, CommandQuit,
                Over
  <2> QED
    BY <1>1, <2>2, <2>3, <2>4, <2>5 DEF Drive, Loop
<1>2. ExitedQuietly /\ Unlimited /\ [Drive]_simVars =>
        [mode = "continuous" /\ Faults => UNCHANGED <<machine, mode>>]_simVars
  BY <1>1
<1>3. Boot => PromptWhileRunning /\ ExitedQuietly /\ Unlimited
  BY BootPrompt, BootUnlimited
<1>4. PromptWhileRunning /\ ExitedQuietly /\ Unlimited /\ [Drive]_simVars =>
        PromptWhileRunning' /\ ExitedQuietly' /\ Unlimited'
  BY StepPrompt, StepExitedQuietly, StepUnlimited
<1> QED
  BY <1>2, <1>3, <1>4, PTL DEF SimulatorSpec, FaultsHoldUnlimitedRuns, Faults

-----------------------------------------------------------------------------
(***************************************************************************)
(* SnippyPlugin.                                                           *)
(***************************************************************************)
\* get_seg for an access that has been through it already finds its page.
LEMMA GetSegTwice ==
  ASSUME NEW segs, NEW op, NEW a
  PROVE  GetSeg(GetSeg(segs, op, a), op, a) = GetSeg(segs, op, a)
<1> DEFINE new == GetSeg(segs, op, a)
<1>1. DOMAIN new = DOMAIN segs \cup {Tag(a)}
  BY DEF GetSeg, CreatePage
<1>2. new = [t \in DOMAIN new |-> new[t]]
  BY DEF GetSeg, CreatePage
<1>3. GetSeg(new, op, a) =
        [t \in DOMAIN new \cup {Tag(a)} |-> IF t \in DOMAIN new THEN new[t] ELSE ZeroPage(Need(op))]
  BY DEF GetSeg, CreatePage
<1>4. DOMAIN new \cup {Tag(a)} = DOMAIN new
  BY <1>1
<1> HIDE DEF new
<1> QED
  BY <1>2, <1>3, <1>4 DEF new

\* An executeInstr that ends before the CPU has begun ends in Enter, and the
\* fetch of the instruction would meet the very page the trace has met.
LEMMA EnterFails ==
  ASSUME Enter, talk'.op = "executeInstr"
  PROVE  Fetch' # "ok"
<1> DEFINE at   == U32(Resolve(pc))
           segs == GetSeg(segments, "read_instr32", at)
           res  == OutcomeIn(segs, "read_instr32", at)
<1>1. Tracing /\ res # "ok" /\ pc' = at /\ segments' = segs
  BY DEF Enter, Unanswered, Returned
<1>2. Code' = GetSeg(segs, "read_instr32", at)
  BY <1>1 DEF Code, GetSeg
<1>3. Code' = segs
  BY <1>2, GetSegTwice
<1>4. OutcomeIn(Code, "read_instr32", pc)' = res
  BY <1>1, <1>3 DEF OutcomeIn, Permitted, Offset, Tag
<1> HIDE DEF res
<1> QED
  BY <1>1, <1>4 DEF Fetch

\* With the trace on, no executeInstr returns 1 that would have returned 0
\* without it.
THEOREM TraceHarmless == PluginSpec => TraceFailsNothing
<1> DEFINE Harmless ==
             Ready /\ talk'.op = "executeInstr" /\ talk'.value = <<1>> => Fetch' # "ok"
<1>1. Enter => Harmless
  BY EnterFails
<1>2. Work => Harmless
  BY DEF Work, Ready
<1>3. HostCall => Harmless
  <2>1. \A c : ModelCreate(c) => ~ Ready
    BY DEF ModelCreate, Ready
  <2>2. CallInVain => ~ Ready
    BY DEF CallInVain, Ready
  <2>3. ModelDestroy \/ Notify \/ ReadPC => talk'.op # "executeInstr"
    BY DEF ModelDestroy, Notify, ReadPC, Returned
  <2>4. \A addr : PluginSetPC(addr) => talk'.op # "executeInstr"
    BY DEF PluginSetPC, Returned
  <2>5. \A r, v : ReadXReg(r) \/ SetXReg(r, v) => talk'.op # "executeInstr"
    BY DEF ReadXReg, SetXReg, Returned
  <2>6. \A addr, d : WriteMem(addr, d) => talk'.op # "executeInstr"
    BY DEF WriteMem, Returned
  <2>7. \A addr, n : ReadMem(addr, n) => talk'.op # "executeInstr"
    BY DEF ReadMem, Returned
  <2> QED
    BY <2>1, <2>2, <2>3, <2>4, <2>5, <2>6, <2>7 DEF HostCall
<1>4. [PluginNext]_all => [Harmless]_all
  BY <1>1, <1>2, <1>3 DEF PluginNext
<1> QED
  BY <1>4, PTL DEF PluginSpec, TraceFailsNothing

-----------------------------------------------------------------------------
(***************************************************************************)
(* The regions of a configuration.                                         *)
(***************************************************************************)

\* A region as the plugin hands it to add_segment: no 32-bit sum wraps.
LEMMA SegmentFacts ==
  ASSUME NEW st \in Space, NEW sz \in Nat, sz + 2 * PageSize <= AddrSpace
  PROVE  /\ MakeSegment(st, sz) \in SegmentInfo /\ Loadable(MakeSegment(st, sz))
         /\ MakeSegment(st, sz).vaddr = st /\ MakeSegment(st, sz).memsz = sz
         /\ MakeSegment(st, sz).rights = Right
         /\ \A k \in 1 .. Len(MakeSegment(st, sz).data) : MakeSegment(st, sz).data[k] = Zero
<1>1. st \in Nat /\ U32(st) = st /\ U32(sz) = sz
  <2>1. st \in Nat /\ st < AddrSpace /\ sz < AddrSpace
    BY Sizes DEF Space
  <2> QED
    BY <2>1, Truncated
<1>2. [i \in 1 .. sz |-> Zero] \in Seq(Byte)
  BY MemoryAssumption
<1> QED
  BY <1>1, <1>2 DEF MakeSegment, SegmentInfo, Loadable, Right

\* What is plausible of a region: it begins in the space and is small.
LEMMA RegionFacts ==
  ASSUME NEW c \in Configs, Plausible(c)
  PROVE  /\ c.RomStart \in Nat /\ c.RomSize \in Nat
         /\ c.RamStart \in Nat /\ c.RamSize \in Nat
         /\ c.RomSize # 0 => c.RomStart \in Space \ {0} /\ c.RomSize <= MaxSize
         /\ c.RamSize # 0 => c.RamStart \in Space /\ c.RamSize <= MaxSize
         /\ c.RomSize # 0 \/ c.RamSize # 0
<1>1. /\ c.RomStart \in Nat /\ c.RomSize \in Nat
      /\ c.RamStart \in Nat /\ c.RamSize \in Nat
  BY SnippyPluginAssumption
<1>2. FallbackStart \in Nat \ {0} /\ MaxStart \in Nat /\ MaxStart < AddrSpace
  BY SnippyPluginAssumption, Sizes DEF Space
<1>3. AddrSpace \in Nat
  BY Sizes
<1> QED
  BY <1>1, <1>2, <1>3 DEF Plausible, PlausibleRegion, Space

\* The bytes of a region, as far as the space reaches, are mapped by a segment.
Includes(table, st, sz) ==
  \A a \in st .. st + sz - 1 : a < AddrSpace =>
    Tag(a) \in DOMAIN table /\ table[Tag(a)].rights = Right

LEMMA SegmentIncludes ==
  ASSUME NEW table, Table(table), NEW st \in Space, NEW sz \in Nat,
         sz + 2 * PageSize <= AddrSpace,
         ~ Overlaps(table, Aligned(MakeSegment(st, sz)))
  PROVE  LET new == WithSegment(table, Aligned(MakeSegment(st, sz)))
         IN /\ Table(new) /\ BytesOf(new) = BytesOf(table)
            /\ Includes(new, st, sz)
            /\ \A t \in DOMAIN table : t \in DOMAIN new /\ new[t] = table[t]
<1> DEFINE s   == MakeSegment(st, sz)
           new == WithSegment(table, Aligned(s))
<1>1. /\ s \in SegmentInfo /\ Loadable(s) /\ s.vaddr = st /\ s.memsz = sz
      /\ s.rights = Right /\ \A k \in 1 .. Len(s.data) : s.data[k] = Zero
  BY SegmentFacts
<1> HIDE DEF s
<1>2. Table(new) /\ \A t \in DOMAIN table : t \in DOMAIN new /\ new[t] = table[t]
  BY <1>1, WithSegmentFacts
<1>3. BytesOf(new) = BytesOf(table)
  BY <1>1, ZeroSegmentBytes
<1>4. ASSUME NEW a \in st .. st + sz - 1, a < AddrSpace
      PROVE  Tag(a) \in DOMAIN new /\ new[Tag(a)].rights = Right
  <2>1. Tag(a) \in Tags(Aligned(s))
    BY <1>1, <1>4, CoveredPages
  <2> QED
    BY <1>1, <2>1, WholeSegment DEF s
<1> QED
  BY <1>2, <1>3, <1>4 DEF Includes, s

NoBytes == [b \in Space |-> Zero]

LEMMA EmptyFacts ==
  /\ Table(EmptyTable) /\ BytesOf(EmptyTable) = NoBytes
  /\ \A g : ~ Overlaps(EmptyTable, g)
BY DEF EmptyTable, Table, BytesOf, NoBytes, Overlaps

LEMMA OneRegion ==
  ASSUME NEW st \in Space, NEW sz \in Nat, sz + 2 * PageSize <= AddrSpace
  PROVE  LET new == TableOf(<<MakeSegment(st, sz)>>)
         IN Table(new) /\ BytesOf(new) = NoBytes /\ Includes(new, st, sz)
<1>1. TableOf(<<MakeSegment(st, sz)>>) = WithSegment(EmptyTable, Aligned(MakeSegment(st, sz)))
  BY DEF TableOf
<1> QED
  BY <1>1, EmptyFacts, SegmentIncludes

LEMMA TwoRegions ==
  ASSUME NEW st \in Space, NEW sz \in Nat, sz + 2 * PageSize <= AddrSpace,
         NEW st2 \in Space, NEW sz2 \in Nat, sz2 + 2 * PageSize <= AddrSpace,
         ~ RegionsOverlap(<<MakeSegment(st, sz), MakeSegment(st2, sz2)>>)
  PROVE  LET new == TableOf(<<MakeSegment(st, sz), MakeSegment(st2, sz2)>>)
         IN /\ Table(new) /\ BytesOf(new) = NoBytes
            /\ Includes(new, st, sz) /\ Includes(new, st2, sz2)
<1> DEFINE one == WithSegment(EmptyTable, Aligned(MakeSegment(st, sz)))
           two == WithSegment(one, Aligned(MakeSegment(st2, sz2)))
<1>1. TableOf(<<MakeSegment(st, sz), MakeSegment(st2, sz2)>>) = two
  BY DEF TableOf
<1>2. ~ Overlaps(one, Aligned(MakeSegment(st2, sz2)))
  BY DEF RegionsOverlap
<1>3. Table(one) /\ BytesOf(one) = NoBytes /\ Includes(one, st, sz)
  BY EmptyFacts, SegmentIncludes
<1> HIDE DEF one
<1>4. /\ Table(two) /\ BytesOf(two) = NoBytes /\ Includes(two, st2, sz2)
      /\ \A t \in DOMAIN one : t \in DOMAIN two /\ two[t] = one[t]
  BY <1>2, <1>3, SegmentIncludes
<1> HIDE DEF two
<1>5. Includes(two, st, sz)
  BY <1>3, <1>4 DEF Includes
<1> QED
  BY <1>1, <1>4, <1>5 DEF two, one

LEMMA Pair ==
  ASSUME NEW x, NEW y
  PROVE  <<x>> \o <<y>> = <<x, y>>
<1>1. <<x>> \in Seq({x, y}) /\ <<y>> \in Seq({x, y}) /\ Len(<<x>>) = 1 /\ Len(<<y>>) = 1
  OBVIOUS
<1>2. <<x>> \o <<y>> \in Seq({x, y}) /\ Len(<<x>> \o <<y>>) = 2
  BY <1>1
<1>3. (<<x>> \o <<y>>)[1] = x /\ (<<x>> \o <<y>>)[2] = y
  BY <1>1
<1>4. <<x, y>> \in Seq({x, y}) /\ Len(<<x, y>>) = 2
      /\ <<x, y>>[1] = x /\ <<x, y>>[2] = y
  OBVIOUS
<1>5. /\ <<x>> \o <<y>> = [i \in 1 .. 2 |-> (<<x>> \o <<y>>)[i]]
      /\ <<x, y>> = [i \in 1 .. 2 |-> <<x, y>>[i]]
  BY <1>2, <1>4
<1>6. \A i \in 1 .. 2 : (<<x>> \o <<y>>)[i] = <<x, y>>[i]
  BY <1>3, <1>4
<1> QED
  BY <1>5, <1>6

\* The regions that a configuration asks for, or those that replace them.
Maps(table, c) ==
  IF Plausible(c) THEN Includes(table, c.RomStart, c.RomSize) /\
                       Includes(table, c.RamStart, c.RamSize)
  ELSE Includes(table, FallbackStart, FallbackSpan)

\* The memory modelCreate makes: all zeros, with every region mapped whole.
LEMMA TableFacts ==
  ASSUME NEW c \in Configs, ~ RegionsOverlap(Regions(c))
  PROVE  /\ Table(TableOf(Regions(c))) /\ BytesOf(TableOf(Regions(c))) = NoBytes
         /\ Maps(TableOf(Regions(c)), c)
<1> DEFINE rom == MakeSegment(c.RomStart, c.RomSize)
           ram == MakeSegment(c.RamStart, c.RamSize)
           new == TableOf(Regions(c))
<1>0. /\ MaxSize \in Nat /\ 2 * MaxSize + 2 * PageSize <= AddrSpace
      /\ PageSize \in Nat /\ AddrSpace \in Nat
  BY SnippyPluginAssumption, Sizes
<1>1. CASE ~ Plausible(c)
  <2>1. Regions(c) = <<MakeSegment(FallbackStart, FallbackSpan)>>
    BY <1>1 DEF Regions
  <2> QED
    BY <1>1, <2>1, OneRegion, SnippyPluginAssumption DEF Maps
<1>2. CASE Plausible(c) /\ Contiguous(c)
  <2> DEFINE st == IF c.RomStart <= c.RamStart THEN c.RomStart ELSE c.RamStart
             sz == c.RomSize + c.RamSize
  <2>1. Regions(c) = <<MakeSegment(st, sz)>>
    BY <1>2 DEF Regions
  <2>2. /\ c.RomSize # 0 /\ c.RamSize # 0
        /\ c.RomStart + c.RomSize = c.RamStart \/ c.RamStart + c.RamSize = c.RomStart
    BY <1>2 DEF Contiguous
  <2>3. /\ c.RomStart \in Space /\ c.RamStart \in Space
        /\ c.RomStart \in Nat /\ c.RamStart \in Nat
        /\ c.RomSize \in Nat /\ c.RamSize \in Nat
        /\ c.RomSize <= MaxSize /\ c.RamSize <= MaxSize
    BY <1>2, <2>2, RegionFacts
  <2>4. st \in Space /\ sz \in Nat /\ sz + 2 * PageSize <= AddrSpace
    BY <1>0, <2>3
  <2>5. /\ \A a \in c.RomStart .. c.RomStart + c.RomSize - 1 : a \in st .. st + sz - 1
        /\ \A a \in c.RamStart .. c.RamStart + c.RamSize - 1 : a \in st .. st + sz - 1
    BY <2>2, <2>3
  <2> HIDE DEF st, sz
  <2>6. Table(new) /\ BytesOf(new) = NoBytes /\ Includes(new, st, sz)
    BY <2>1, <2>4, OneRegion
  <2> HIDE DEF new
  <2>7. Includes(new, c.RomStart, c.RomSize) /\ Includes(new, c.RamStart, c.RamSize)
    BY <2>5, <2>6 DEF Includes
  <2> QED
    BY <1>2, <2>6, <2>7 DEF Maps, new
<1>3. CASE Plausible(c) /\ ~ Contiguous(c)
  <2>1. Regions(c) = (IF c.RomSize # 0 THEN <<rom>> ELSE <<>>)
                       \o (IF c.RamSize # 0 THEN <<ram>> ELSE <<>>)
    BY <1>3 DEF Regions
  <2>2. /\ c.RomSize \in Nat /\ c.RamSize \in Nat
        /\ c.RomStart \in Nat /\ c.RamStart \in Nat
        /\ c.RomSize # 0 => c.RomStart \in Space /\ c.RomSize + 2 * PageSize <= AddrSpace
        /\ c.RamSize # 0 => c.RamStart \in Space /\ c.RamSize + 2 * PageSize <= AddrSpace
        /\ c.RomSize # 0 \/ c.RamSize # 0
    BY <1>0, <1>3, RegionFacts
  <2>3. c.RomSize = 0 => Includes(new, c.RomStart, c.RomSize)
    BY <2>2 DEF Includes
  <2>4. c.RamSize = 0 => Includes(new, c.RamStart, c.RamSize)
    BY <2>2 DEF Includes
  <2>5. CASE c.RomSize # 0 /\ c.RamSize # 0
    <3>1. Regions(c) = <<rom, ram>>
      <4>1. Regions(c) = <<rom>> \o <<ram>>
        BY <2>1, <2>5
      <4> QED
        BY <4>1, Pair
    <3>2. ~ RegionsOverlap(<<rom, ram>>)
      BY <3>1
    <3>3. /\ Table(TableOf(<<rom, ram>>)) /\ BytesOf(TableOf(<<rom, ram>>)) = NoBytes
          /\ Includes(TableOf(<<rom, ram>>), c.RomStart, c.RomSize)
          /\ Includes(TableOf(<<rom, ram>>), c.RamStart, c.RamSize)
      BY <2>2, <2>5, <3>2, TwoRegions
    <3> QED
      BY <1>3, <3>1, <3>3 DEF Maps
  <2>6. CASE c.RomSize # 0 /\ c.RamSize = 0
    <3>1. Regions(c) = <<rom>>
      BY <2>1, <2>6
    <3> QED
      BY <1>3, <2>2, <2>4, <2>6, <3>1, OneRegion DEF Maps
  <2>7. CASE c.RomSize = 0 /\ c.RamSize # 0
    <3>1. Regions(c) = <<ram>>
      BY <2>1, <2>7
    <3> QED
      BY <1>3, <2>2, <2>3, <2>7, <3>1, OneRegion DEF Maps
  <2> QED
    BY <2>2, <2>5, <2>6, <2>7
<1> QED
  BY <1>1, <1>2, <1>3

-----------------------------------------------------------------------------
(***************************************************************************)
(* The inductive invariant: that of the CPU; the regions of the model are  *)
(* mapped, the page where it starts as one of them; and no system call is  *)
(* left in progress between two calls of the host.                         *)
(***************************************************************************)
Regioned ==
  config # NoConfig =>
    /\ config \in Configs
    /\ Maps(segments, config)
    /\ Tag(FirstPC(config)) \in loaded

PInv == IInv /\ Regioned /\ (call # NoCall => job.on) /\ (~ job.on => job = Idle)

\* Where a model starts is in a region of it.
LEMMA FirstPCFacts ==
  ASSUME NEW c \in Configs
  PROVE  /\ FirstPC(c) \in Space
         /\ \A table : Maps(table, c) => Tag(FirstPC(c)) \in DOMAIN table
<1>0. /\ FallbackStart \in Space /\ FallbackStart \in Nat /\ FallbackSpan \in Nat \ {0}
      /\ AddrSpace \in Nat
  BY SnippyPluginAssumption, Sizes DEF Space
<1>1. CASE ~ Plausible(c)
  <2>1. FallbackStart \in FallbackStart .. FallbackStart + FallbackSpan - 1
        /\ FallbackStart < AddrSpace
    BY <1>0 DEF Space
  <2> QED
    BY <1>0, <1>1, <2>1 DEF FirstPC, Maps, Includes
<1>2. CASE Plausible(c) /\ c.RomSize # 0
  <2>1. c.RomStart \in Space /\ c.RomStart \in c.RomStart .. c.RomStart + c.RomSize - 1
        /\ c.RomStart < AddrSpace
    BY <1>0, <1>2, RegionFacts DEF Space
  <2> QED
    BY <1>2, <2>1 DEF FirstPC, Maps, Includes
<1>3. CASE Plausible(c) /\ c.RomSize = 0
  <2>1. c.RamStart \in Space /\ c.RamStart \in c.RamStart .. c.RamStart + c.RamSize - 1
        /\ c.RamStart < AddrSpace
    BY <1>0, <1>3, RegionFacts DEF Space
  <2> QED
    BY <1>3, <2>1 DEF FirstPC, Maps, Includes
<1> QED
  BY <1>1, <1>2, <1>3

\* The address that zero is replaced by.
LEMMA ResolveFacts ==
  ASSUME config \in Configs, NEW addr \in Nat
  PROVE  /\ Resolve(addr) \in Nat /\ U32(Resolve(addr)) \in Space
         /\ addr # 0 => Resolve(addr) = addr
         /\ Resolve(0) \in Space \ {0}
         /\ Plausible(config) => (config.RomSize # 0 => Resolve(0) = FirstPC(config))
         /\ ~ Plausible(config) => Resolve(0) = FirstPC(config)
<1>1. FallbackStart \in Space \ {0} /\ Space \subseteq Nat
  BY SnippyPluginAssumption, Sizes DEF Space
<1>2. Plausible(config) => /\ config.RomStart \in Nat /\ config.RomSize \in Nat
                           /\ config.RomSize # 0 => config.RomStart \in Space \ {0}
  BY RegionFacts
<1>3. Resolve(addr) \in Nat /\ Resolve(0) \in Space \ {0} /\ (addr # 0 => Resolve(addr) = addr)
  BY <1>1, <1>2 DEF Resolve
<1>4. U32(Resolve(addr)) \in Space
  BY <1>3, WordOfInt
<1>5. /\ Plausible(config) => (config.RomSize # 0 => Resolve(0) = FirstPC(config))
      /\ ~ Plausible(config) => Resolve(0) = FirstPC(config)
  BY <1>2 DEF Resolve, FirstPC
<1> QED
  BY <1>3, <1>4, <1>5

\* Regions stay mapped when pages are kept.
LEMMA MapsKept ==
  ASSUME NEW c, Maps(segments, c), NEW segs, Keeps(segs)
  PROVE  Maps(segs, c)
BY DEF Maps, Includes, Keeps

LEMMA RegionedKept ==
  ASSUME Regioned, Keeps(segments'), UNCHANGED <<loaded, config>>
  PROVE  Regioned'
<1>1. SUFFICES ASSUME config # NoConfig
               PROVE  Maps(segments', config) /\ Tag(FirstPC(config)) \in loaded
  BY DEF Regioned, Maps, Includes, FirstPC, Plausible, PlausibleRegion, Tag, U32
<1> QED
  BY <1>1, MapsKept DEF Regioned

\* A call of the host, or a throw, between two instructions.
LEMMA QuietIInv ==
  ASSUME IInv, call' = NoCall, UNCHANGED <<running, host, loaded>>,
         thrown' \in Kinds \cup {"none"}, pc' \in Space,
         regs' \in [RegIdx -> Space], regs'[0] = 0, Lazy(segments')
  PROVE  IInv'
<1>1. Lazy(segments)'
  BY DEF Lazy, Table
<1>2. TypeOK'
  BY <1>1 DEF TypeOK, IInv, Kinds, Lazy, Table, NoCall, host
<1> QED
  BY <1>1, <1>2 DEF IInv, ReadCalls, NoCall

\* A machine that has just been made, or destroyed.
LEMMA BlankIInv ==
  ASSUME BlankMachine, pc' \in Space, Table(segments'), loaded' = DOMAIN segments'
  PROVE  IInv'
<1>1. Lazy(segments)'
  BY DEF Lazy, Table
<1>2. 0 \in Space /\ 0 \in RegIdx /\ Len(Input) \in Nat
  BY Sizes, InstructionAssumption, CPUAssumption DEF Space
<1>3. regs' \in [RegIdx -> Space] /\ regs'[0] = 0
  BY <1>2 DEF BlankMachine
<1>4. TypeOK'
  BY <1>1, <1>2, <1>3 DEF TypeOK, BlankMachine, Lazy, Table, NoCall
<1> QED
  BY <1>1, <1>4 DEF IInv, ReadCalls, BlankMachine, NoCall

LEMMA ModelCreateInv ==
  ASSUME PInv, NEW c \in Configs, ModelCreate(c)
  PROVE  PInv'
<1>1. CASE RegionsOverlap(Regions(c))
  <2>1. UNCHANGED <<vars, config, job>>
    BY <1>1 DEF ModelCreate
  <2> QED
    BY <2>1 DEF PInv, IInv, TypeOK, Lazy, Table, ReadCalls, Regioned, Maps, Includes,
                Plausible, PlausibleRegion, FirstPC, Tag, U32, vars, machine, host
<1>2. CASE ~ RegionsOverlap(Regions(c))
  <2>1. /\ segments' = TableOf(Regions(c)) /\ loaded' = DOMAIN segments'
        /\ pc' = U32(FirstPC(c)) /\ BlankMachine /\ config' = c /\ job' = job
    BY <1>2 DEF ModelCreate
  <2>2. Table(segments') /\ Maps(segments', c)
    BY <1>2, <2>1, TableFacts
  <2>3. pc' \in Space
    BY <2>1, FirstPCFacts, WordOfInt, Sizes DEF Space
  <2>4. IInv'
    BY <2>1, <2>2, <2>3, BlankIInv
  <2>5. Tag(FirstPC(c)) \in loaded'
    BY <2>1, <2>2, FirstPCFacts
  <2>6. Regioned'
    BY <2>1, <2>2, <2>5 DEF Regioned, Maps, Includes, Plausible, PlausibleRegion, FirstPC,
                            Tag, U32
  <2> QED
    BY <2>1, <2>4, <2>6 DEF PInv, BlankMachine, NoCall, Idle
<1> QED
  BY <1>1, <1>2

LEMMA ModelDestroyInv ==
  ASSUME PInv, ModelDestroy
  PROVE  PInv'
<1>1. /\ BlankMachine /\ pc' = 0 /\ segments' = EmptyTable /\ loaded' = {}
      /\ config' = NoConfig /\ job' = Idle
  BY DEF ModelDestroy, Reset
<1>2. pc' \in Space /\ Table(segments') /\ loaded' = DOMAIN segments'
  BY <1>1, EmptyFacts, Sizes DEF EmptyTable, Space
<1> QED
  BY <1>1, <1>2, BlankIInv DEF PInv, Regioned, BlankMachine, NoCall

\* A word the host gives the pc, and one it gives a register.
LEMMA ChangeInv ==
  ASSUME PInv, Change, pc' \in Space, regs' \in [RegIdx -> Space], regs'[0] = 0,
         Lazy(segments'), Keeps(segments')
  PROVE  PInv'
<1>1. /\ config # NoConfig /\ call = NoCall
      /\ UNCHANGED <<running, thrown, call, host, loaded, config, job>>
  BY DEF Change, Ready, PInv
<1>2. thrown' \in Kinds \cup {"none"}
  BY <1>1 DEF PInv, IInv, TypeOK, Kinds
<1>3. IInv'
  BY <1>1, <1>2, QuietIInv DEF PInv
<1>4. Regioned'
  BY <1>1, RegionedKept DEF PInv
<1> QED
  BY <1>1, <1>3, <1>4 DEF PInv, NoCall

LEMMA HostCallInv ==
  ASSUME PInv, HostCall
  PROVE  PInv'
<1>t. /\ pc \in Space /\ pc \in Nat /\ regs \in [RegIdx -> Space] /\ regs[0] = 0
      /\ Lazy(segments) /\ Keeps(segments)
  BY Sizes, AccessKeeps DEF PInv, IInv, TypeOK, Space
<1>r. ASSUME Change, NEW addr \in Nat PROVE U32(Resolve(addr)) \in Space
  BY <1>r, ResolveFacts DEF Change, Ready, PInv, Regioned
<1>1. CASE \E c \in Configs : ModelCreate(c)
  BY <1>1, ModelCreateInv
<1>2. CASE ModelDestroy
  BY <1>2, ModelDestroyInv
<1>3. CASE CallInVain
  BY <1>3 DEF CallInVain, PInv, IInv, TypeOK, Lazy, Table, ReadCalls, Regioned, Maps,
              Includes, Plausible, PlausibleRegion, FirstPC, Tag, U32, vars, machine, host
<1>4. CASE Notify
  BY <1>4, <1>t, <1>r, ChangeInv DEF Notify
<1>5. CASE ReadPC \/ \E r \in HostRegisters : ReadXReg(r)
  BY <1>5, <1>t, ChangeInv DEF ReadPC, ReadXReg, Look
<1>6. ASSUME NEW addr \in Addr, PluginSetPC(addr) PROVE PInv'
  <2>1. addr \in Nat
    BY MemoryAssumption
  <2> QED
    BY <1>6, <2>1, <1>t, <1>r, ChangeInv DEF PluginSetPC
<1>7. ASSUME NEW r \in HostRegisters, NEW v \in Values, SetXReg(r, v) PROVE PInv'
  <2>1. v \in Nat
    BY SnippyPluginAssumption
  <2>2. r \in RegIdx => WriteReg(r, v) \in [RegIdx -> Space] /\ WriteReg(r, v)[0] = 0
    BY <2>1, WriteRegType DEF PInv
  <2>3. Change /\ UNCHANGED segments /\ pc' \in Space
        /\ regs' \in [RegIdx -> Space] /\ regs'[0] = 0
    BY <1>7, <2>1, <2>2, <1>t, <1>r DEF SetXReg
  <2> QED
    BY <1>t, <2>3, ChangeInv
<1>8. ASSUME NEW addr \in Addr, NEW d \in HostData, WriteMem(addr, d) PROVE PInv'
  <2>1. addr \in Nat /\ d \in Seq(Byte)
    BY MemoryAssumption, SnippyPluginAssumption
  <2>2. Lazy(CopyIn(addr, d)) /\ Keeps(CopyIn(addr, d))
    BY <1>t, <2>1, CopyInLazy, CopyInKeeps DEF PInv
  <2> QED
    BY <1>8, <1>t, <2>2, ChangeInv DEF WriteMem
<1>9. ASSUME NEW addr \in Addr, NEW n \in HostCounts, ReadMem(addr, n) PROVE PInv'
  <2>1. addr \in Nat /\ n \in Nat /\ "read8" \in Ops
    BY MemoryAssumption, SnippyPluginAssumption DEF Ops, Reads
  <2>2. Lazy(Touched("read8", addr, n)) /\ Keeps(Touched("read8", addr, n))
    BY <1>t, <2>1, TouchedLazy, TouchedKeeps DEF PInv
  <2> QED
    BY <1>9, <1>t, <2>2, ChangeInv DEF ReadMem, Look
<1> QED
  BY <1>1, <1>2, <1>3, <1>4, <1>5, <1>6, <1>7, <1>8, <1>9 DEF HostCall

LEMMA EnterInv ==
  ASSUME PInv, Enter
  PROVE  PInv'
<1> DEFINE at   == U32(Resolve(pc))
           segs == GetSeg(segments, "read_instr32", at)
           res  == OutcomeIn(segs, "read_instr32", at)
<1>1. /\ config # NoConfig /\ call = NoCall
      /\ pc' = at /\ segments' = IF Tracing THEN segs ELSE segments
      /\ \/ thrown' = thrown
         \/ Tracing /\ res # "ok" /\ thrown' = res
      /\ UNCHANGED <<regs, running, call, host, loaded, config>>
  BY DEF Enter, Ready, PInv
<1>2. /\ pc \in Nat /\ regs \in [RegIdx -> Space] /\ regs[0] = 0 /\ Lazy(segments)
      /\ thrown \in Kinds \cup {"none"} /\ config \in Configs
  BY <1>1, Sizes DEF PInv, IInv, TypeOK, Space, Regioned, Kinds
<1>3. at \in Space /\ at \in Nat
  BY <1>2, ResolveFacts, Sizes DEF Space
<1> HIDE DEF at
<1>4. "read_instr32" \in Ops
  BY DEF Ops, Reads
<1>5. Lazy(segs) /\ Keeps(segs)
  <2>1. Lazy(segs)
    BY <1>2, <1>3, <1>4, GetSegLazy
  <2>2. Keeps(segs)
    BY DEF Keeps, GetSeg, CreatePage
  <2> QED
    BY <2>1, <2>2
<1>6. res \in AccessFaults \cup {"ok"}
  BY <1>3, <1>4, OutcomeFacts
<1>7. Lazy(segments') /\ Keeps(segments')
  <2> HIDE DEF segs
  <2> QED
    BY <1>1, <1>2, <1>5, AccessKeeps DEF PInv
<1>8. thrown' \in Kinds \cup {"none"}
  <2> HIDE DEF res
  <2> QED
    BY <1>1, <1>2, <1>6 DEF Kinds, AccessFaults
<1>9. IInv'
  BY <1>1, <1>2, <1>3, <1>7, <1>8, QuietIInv DEF PInv
<1>10. Regioned'
  BY <1>1, <1>7, RegionedKept DEF PInv
<1>11. ~ job'.on => job' = Idle
  BY DEF Enter, PInv, Idle
<1> QED
  BY <1>1, <1>9, <1>10, <1>11 DEF PInv, NoCall

LEMMA WorkInv ==
  ASSUME PInv, Work
  PROVE  PInv'
<1>1. Execute \/ SystemCall
  BY DEF Work
<1>2. IInv'
  <2>1. [Next]_vars
    BY <1>1 DEF Next
  <2> QED
    BY <2>1, StepIInv DEF PInv
<1>3. Keeps(segments') /\ UNCHANGED <<loaded, config>>
  <2>1. UNCHANGED config
    BY DEF Work, plugin
  <2> QED
    BY <1>1, <2>1, StepKeeps DEF PInv
<1>4. Regioned'
  BY <1>3, RegionedKept DEF PInv
<1>5. call' # NoCall => job'.on
  BY DEF Work, plugin
<1>6. ~ job'.on => job' = Idle
  BY DEF Work, plugin
<1> QED
  BY <1>2, <1>4, <1>5, <1>6 DEF PInv, NoCall

LEMMA PluginInitInv ==
  ASSUME PluginInit
  PROVE  PInv
<1>1. /\ 0 \in Space /\ 0 \in RegIdx /\ Len(Input) \in Nat
      /\ Table(EmptyTable) /\ EmptyTable \in [{} -> Page]
  BY Sizes, InstructionAssumption, CPUAssumption, EmptyFacts DEF Space, EmptyTable
<1>2. Lazy(segments) /\ DOMAIN segments = {}
  BY <1>1 DEF PluginInit, Lazy, EmptyTable
<1>3. regs \in [RegIdx -> Space] /\ regs[0] = 0
  BY <1>1 DEF PluginInit
<1>4. TypeOK
  BY <1>1, <1>2, <1>3 DEF TypeOK, PluginInit, NoCall
<1> QED
  BY <1>2, <1>4 DEF PInv, IInv, ReadCalls, Regioned, PluginInit, NoCall

LEMMA PluginStepInv ==
  ASSUME PInv, [PluginNext]_all
  PROVE  PInv'
<1>1. CASE UNCHANGED all
  <2>1. UNCHANGED vars /\ UNCHANGED <<config, job>>
    BY <1>1 DEF all, plugin
  <2>2. IInv'
    BY <2>1, StepIInv DEF PInv
  <2>3. Regioned'
    <3>1. Keeps(segments') /\ UNCHANGED <<loaded, config>>
      BY <2>1, AccessKeeps DEF vars, Keeps
    <3> QED
      BY <3>1, RegionedKept DEF PInv
  <2> QED
    BY <2>1, <2>2, <2>3 DEF PInv, vars, NoCall
<1> QED
  BY <1>1, EnterInv, WorkInv, HostCallInv DEF PluginNext

LEMMA PluginInvariant == PluginSpec => []PInv
<1>1. PluginInit => PInv
  BY PluginInitInv
<1>2. PInv /\ [PluginNext]_all => PInv'
  BY PluginStepInv
<1> QED
  BY <1>1, <1>2, PTL DEF PluginSpec

\* Whatever regions the host asks for, adjacent, apart, implausible or near the
\* end of the address space, and whatever it and the programs do with the model:
\* all their bytes stay mapped with every right until the model is destroyed.
THEOREM RegionsUsable == PluginSpec => []RegionsAreUsable
<1>1. PInv => RegionsAreUsable
  BY DEF PInv, Regioned, RegionsAreUsable, Maps, Includes
<1> QED
  BY <1>1, PluginInvariant, PTL

\* resolveSnippetPC does its work for every configuration: no executeInstr runs
\* at zero, and one that finds zero in the pc runs where the model starts.
THEOREM ZeroStarts == PluginSpec => ZeroIsTheStart
<1> DEFINE Starts ==
             ~ job.on /\ job'.on =>
               /\ pc' # 0
               /\ pc = 0 /\ (Plausible(config) => config.RomSize # 0) =>
                    pc' = FirstPC(config) /\ Tag(pc') \in loaded
<1>1. ASSUME PInv, Enter PROVE Starts
  <2>1. config \in Configs /\ Tag(FirstPC(config)) \in loaded /\ pc \in Space
    BY <1>1 DEF Enter, Ready, PInv, Regioned, IInv, TypeOK
  <2>2. pc' = U32(Resolve(pc))
    BY <1>1 DEF Enter
  <2>3. CASE pc # 0
    <3>1. pc \in Nat /\ U32(pc) = pc /\ Resolve(pc) = pc
      BY <2>1, <2>3, ResolveFacts, Truncated, Sizes DEF Space
    <3> QED
      BY <2>2, <2>3, <3>1
  <2>4. CASE pc = 0
    <3>1. Resolve(0) \in Space \ {0} /\ 0 \in Nat
      BY <2>1, ResolveFacts
    <3>2. U32(Resolve(0)) = Resolve(0)
      BY <3>1, Truncated, Sizes DEF Space
    <3>3. (Plausible(config) => config.RomSize # 0) => Resolve(0) = FirstPC(config)
      BY <2>1, ResolveFacts
    <3> QED
      BY <2>1, <2>2, <2>4, <3>1, <3>2, <3>3
  <2> QED
    BY <2>3, <2>4
<1>2. Work => Starts
  BY DEF Work
<1>3. HostCall => Starts
  <2>1. Change => Starts
    BY DEF Change
  <2>2. ModelDestroy \/ CallInVain => Starts
    BY DEF ModelDestroy, CallInVain, Reset, Idle
  <2>3. \A c : ModelCreate(c) => Starts
    BY DEF ModelCreate
  <2> QED
    BY <2>1, <2>2, <2>3 DEF HostCall, Notify, ReadPC, PluginSetPC, ReadXReg, SetXReg,
       WriteMem, ReadMem, Look
<1>4. PInv /\ [PluginNext]_all => [Starts]_all
  BY <1>1, <1>2, <1>3 DEF PluginNext
<1> QED
  BY <1>4, PluginInvariant, PTL DEF PluginSpec, ZeroIsTheStart

-----------------------------------------------------------------------------
(***************************************************************************)
(* The plugin implements the model that its host is promised.  Both have   *)
(* the machine of the instruction set in them: first, that it is the same. *)
(***************************************************************************)
LEMMA SameWords ==
  /\ Rvm!Space = Rv32!Space /\ \A n : Rvm!U32(n) = Rv32!U32(n)
  /\ Rvm!RTypes = Rv32!RTypes /\ Rvm!ITypes = Rv32!ITypes /\ Rvm!Loads = Rv32!Loads
  /\ Rvm!Stores = Rv32!Stores /\ Rvm!Branches = Rv32!Branches /\ Rvm!Jumps = Rv32!Jumps
  /\ Rvm!Uppers = Rv32!Uppers /\ Rvm!Illegal = Rv32!Illegal
  /\ Rvm!a0 = Rv32!a0 /\ Rvm!a1 = Rv32!a1 /\ Rvm!a2 = Rv32!a2 /\ Rvm!a7 = Rv32!a7
  /\ Rvm!SysRead = Rv32!SysRead /\ Rvm!SysWrite = Rv32!SysWrite
  /\ Rvm!SysExit = Rv32!SysExit
BY DEF Rvm!Space, Rv32!Space, Rvm!U32, Rv32!U32, Rvm!AddrSpace, Rv32!AddrSpace,
       Rvm!RTypes, Rv32!RTypes, Rvm!ITypes, Rv32!ITypes, Rvm!Loads, Rv32!Loads,
       Rvm!Stores, Rv32!Stores, Rvm!Branches, Rv32!Branches, Rvm!Jumps, Rv32!Jumps,
       Rvm!Uppers, Rv32!Uppers, Rvm!Illegal, Rv32!Illegal, Rvm!a0, Rv32!a0, Rvm!a1,
       Rv32!a1, Rvm!a2, Rv32!a2, Rvm!a7, Rv32!a7, Rvm!SysRead, Rv32!SysRead,
       Rvm!SysWrite, Rv32!SysWrite, Rvm!SysExit, Rv32!SysExit

LEMMA SameWordValues ==
  /\ \A b : Rvm!Half(b) = Rv32!Half(b) /\ Rvm!Full(b) = Rv32!Full(b)
  /\ \A v : Rvm!Bytes(v) = Rv32!Bytes(v)
  /\ \A type, b : Rvm!Extended(type, b) = Rv32!Extended(type, b)
  /\ \A type, x, y : Rvm!Taken(type, x, y) = Rv32!Taken(type, x, y)
BY Zenon DEF Rvm!Half, Rv32!Half, Rvm!Full, Rv32!Full, Rvm!Bytes, Rv32!Bytes, Rvm!Extended,
       Rv32!Extended, Rvm!Taken, Rv32!Taken, Rvm!Signed, Rv32!Signed, Rvm!AddrSpace,
       Rv32!AddrSpace

LEMMA SameEffects ==
  /\ \A a : Rvm!Load(a) = Rv32!Load(a)
  /\ \A i : Rvm!HasResult(i) <=> Rv32!HasResult(i)
  /\ \A i : Rvm!Target(i) = Rv32!Target(i)
  /\ \A i : Rvm!Stored(i) = Rv32!Stored(i)
  /\ \A r, v : Rvm!Register(r, v) = Rv32!Register(r, v)
  /\ \A i : Rvm!AtInstruction(i) <=> Rv32!AtInstruction(i)
  /\ \A i : Rvm!AtCall(i) <=> Rv32!AtCall(i)
  /\ Rvm!Transfer <=> Rv32!Transfer
<1>1. \A a : Rvm!Load(a) = Rv32!Load(a)
  BY SameWords DEF Rvm!Load, Rv32!Load
<1>2. \A i : Rvm!HasResult(i) <=> Rv32!HasResult(i)
  BY SameWords DEF Rvm!HasResult, Rv32!HasResult
<1>3. \A i : Rvm!Target(i) = Rv32!Target(i)
  BY SameWords, SameWordValues, Zenon DEF Rvm!Target, Rv32!Target
<1>4. \A i : Rvm!Stored(i) = Rv32!Stored(i)
  BY SameWords, SameWordValues, Zenon DEF Rvm!Stored, Rv32!Stored, Rvm!Size, Rv32!Size
<1>5. \A r, v : Rvm!Register(r, v) = Rv32!Register(r, v)
  BY SameWords DEF Rvm!Register, Rv32!Register
<1>6. \A i : Rvm!AtInstruction(i) <=> Rv32!AtInstruction(i)
  BY <1>1, SameWords DEF Rvm!AtInstruction, Rv32!AtInstruction
<1>7. \A i : Rvm!AtCall(i) <=> Rv32!AtCall(i)
  BY <1>6, SameWords DEF Rvm!AtCall, Rv32!AtCall
<1>8. Rvm!Transfer <=> Rv32!Transfer
  BY SameWords DEF Rvm!Transfer, Rv32!Transfer, Rvm!Buffer, Rv32!Buffer
<1> QED
  BY <1>1, <1>2, <1>3, <1>4, <1>5, <1>6, <1>7, <1>8

LEMMA SameResult ==
  ASSUME NEW i
  PROVE  Rvm!Result(i) = Rv32!Result(i)
BY SameWords, SameWordValues, SameEffects, Zenon DEF Rvm!Result, Rv32!Result

LEMMA SameSteps ==
  /\ \A i : Rvm!Retire(i) <=> Rv32!Retire(i)
  /\ \A i : Rvm!Exit(i) <=> Rv32!Exit(i)
  /\ \A i : Rvm!Call(i) <=> Rv32!Call(i)
  /\ \A i : Rvm!Return(i) <=> Rv32!Return(i)
  /\ Rvm!Progress <=> Rv32!Progress
  /\ UNCHANGED Rvm!vars <=> UNCHANGED Rv32!vars
<1>1. ASSUME NEW i PROVE Rvm!Retire(i) <=> Rv32!Retire(i)
  BY SameWords, SameEffects, SameResult DEF Rvm!Retire, Rv32!Retire
<1>2. \A i : Rvm!Exit(i) <=> Rv32!Exit(i)
  BY SameWords, SameEffects DEF Rvm!Exit, Rv32!Exit
<1>3. \A i : Rvm!Call(i) <=> Rv32!Call(i)
  BY SameWords, SameEffects DEF Rvm!Call, Rv32!Call
<1>4. \A i : Rvm!Return(i) <=> Rv32!Return(i)
  BY SameWords, SameEffects DEF Rvm!Return, Rv32!Return
<1>5. Rvm!Progress <=> Rv32!Progress
  BY SameEffects DEF Rvm!Progress, Rv32!Progress
<1>6. UNCHANGED Rvm!vars <=> UNCHANGED Rv32!vars
  BY DEF Rvm!vars, Rv32!vars
<1> QED
  BY <1>1, <1>2, <1>3, <1>4, <1>5, <1>6

\* The pc zero, and what stands for it.
LEMMA StartFacts ==
  ASSUME PInv
  PROVE  /\ Rvm!NoModel = -1
         /\ config = NoConfig => Start = -1
         /\ config # NoConfig =>
              /\ Start = Resolve(0) /\ Start \in Space
              /\ \A addr \in Nat : U32(Resolve(addr)) = U32(Rvm!At(addr))
              /\ \A addr \in Space : U32(Resolve(addr)) = Rvm!At(addr)
         /\ Rvm!Ready <=> Ready
<1>1. Rvm!NoModel = -1 /\ (config = NoConfig => Start = -1)
  BY DEF Rvm!NoModel, Start
<1>2. ASSUME config # NoConfig
      PROVE  /\ Start = Resolve(0) /\ Start \in Space
             /\ \A addr \in Nat : U32(Resolve(addr)) = U32(Rvm!At(addr))
             /\ \A addr \in Space : U32(Resolve(addr)) = Rvm!At(addr)
  <2>1. config \in Configs /\ 0 \in Nat
    BY <1>2 DEF PInv, Regioned
  <2>2. Resolve(0) \in Space
    BY <2>1, ResolveFacts
  <2>3. \A n \in Space : n \in Nat /\ U32(n) = n
    BY Truncated, Sizes DEF Space
  <2>4. Start = Resolve(0)
    BY <1>2, <2>2, <2>3 DEF Start
  <2>5. \A addr \in Nat : Resolve(addr) = Rvm!At(addr)
    BY <2>1, <2>4, ResolveFacts DEF Rvm!At
  <2>6. \A addr \in Space : Rvm!At(addr) \in Space
    BY <2>2, <2>4 DEF Rvm!At
  <2> QED
    BY <2>2, <2>3, <2>4, <2>5, <2>6
<1>3. Start = -1 <=> config = NoConfig
  BY <1>1, <1>2, Sizes DEF Space
<1>4. Rvm!Ready <=> Ready
  BY <1>1, <1>3 DEF Rvm!Ready, Ready
<1> QED
  BY <1>1, <1>2, <1>4

LEMMA StartKept ==
  ASSUME UNCHANGED config
  PROVE  Start' = Start
BY DEF Start, Resolve, Plausible, PlausibleRegion, NoConfig, U32

LEMMA SameExchanges ==
  /\ \A op, at, data, value : Rvm!Returned(op, at, data, value) = Returned(op, at, data, value)
  /\ Rvm!Unanswered = Unanswered /\ Rvm!Idle = Idle /\ Rvm!PCReg = PCReg
  /\ \A op, at, data, value, res :
       [Returned(op, at, data, value) EXCEPT !.outcome = res] =
         Rvm!Exchange(op, at, data, res, value, <<>>)
  /\ \A op, at, data, value, line :
       [Returned(op, at, data, value) EXCEPT !.line = line] =
         Rvm!Exchange(op, at, data, "returned", value, line)
BY DEF Rvm!Returned, Rvm!Exchange, Returned, Rvm!Unanswered, Unanswered, Rvm!Idle, Idle,
       Rvm!PCReg, PCReg

\* The word of the trace is the one at the pc that is executed.
LEMMA TraceWord ==
  ASSUME PInv, NEW a \in Space,
         OutcomeIn(GetSeg(segments, "read_instr32", a), "read_instr32", a) = "ok"
  PROVE  Full(ValueAt(GetSeg(segments, "read_instr32", a), "read_instr32", a)) =
           Rvm!Full(Rvm!Load(a))
<1> DEFINE segs == GetSeg(segments, "read_instr32", a)
           word == ValueAt(segs, "read_instr32", a)
<1>1. "read_instr32" \in Ops /\ Width("read_instr32") = 4 /\ a \in Nat
  BY Sizes DEF Ops, Reads, Writes, Width, Space
<1>2. Lazy(segs) /\ Tag(a) \in DOMAIN segs
  BY <1>1, GetSegLazy DEF PInv, IInv
<1>3. BytesOf(segs) = Memory
  BY <1>1, GetSegBytes DEF Memory, PInv, IInv, Lazy
<1>4. ASSUME NEW k \in 0 .. 3
      PROVE  word[k] = Memory[U32(a + k)]
  <2>1. k \in 0 .. Width("read_instr32") - 1 /\ a \in Int
    BY <1>1
  <2> QED
    BY <1>1, <1>2, <1>3, <2>1, AccessBytes DEF Lazy
<1>5. word = [k \in 0 .. 3 |-> word[k]]
  BY <1>1 DEF ValueAt
<1>6. Rvm!Load(a) = word
  BY <1>4, <1>5, SameWords, SameInstructions DEF Rvm!Load
<1> QED
  BY <1>6, SameWordValues, SameValues

LEMMA EnterImplements ==
  ASSUME PInv, Enter
  PROVE  Rvm!Enter \/ Rvm!Fail
<1> DEFINE at   == U32(Resolve(pc))
           segs == GetSeg(segments, "read_instr32", at)
           res  == OutcomeIn(segs, "read_instr32", at)
           line == <<at, Full(ValueAt(segs, "read_instr32", at))>>
<1>1. /\ Ready /\ pc' = at /\ segments' = IF Tracing THEN segs ELSE segments
      /\ UNCHANGED <<regs, running, call, config>>
  BY DEF Enter
<1>2. pc \in Space /\ pc \in Nat /\ config # NoConfig /\ Table(segments)
  BY <1>1, Sizes DEF PInv, IInv, TypeOK, Space, Ready, Lazy
<1>3. at = Rvm!At(pc) /\ at \in Space
  <2>1. config \in Configs
    BY <1>2 DEF PInv, Regioned
  <2> QED
    BY <1>2, <2>1, StartFacts, ResolveFacts
<1>4. Memory' = Memory
  <2>1. "read_instr32" \in Ops /\ at \in Nat
    BY <1>3, Sizes DEF Ops, Reads, Space
  <2>2. BytesOf(segs) = BytesOf(segments)
    BY <1>2, <2>1, GetSegBytes
  <2> QED
    BY <1>1, <2>2, Mapped
<1>5. Rvm!Ready /\ pc' = Rvm!At(pc) /\ UNCHANGED <<regs, running>> /\ Start' = Start
      /\ (call # NoCall)' = (call # NoCall)
  BY <1>1, <1>3, StartFacts, StartKept, Mapped
<1>6. CASE Tracing /\ res # "ok"
  <2>1. talk' = Rvm!Returned("executeInstr", 0, <<>>, <<1>>) /\ job' = job
    BY <1>6, SameExchanges DEF Enter
  <2>2. job' = Rvm!Idle
    BY <1>1, <2>1, SameExchanges DEF Ready, PInv
  <2> QED
    BY <1>4, <1>5, <2>1, <2>2 DEF Rvm!Fail
<1>7. CASE ~ (Tracing /\ res # "ok")
  <2>1. /\ talk' = Unanswered
        /\ job' = [on |-> TRUE, line |-> IF Tracing THEN line ELSE <<>>]
    BY <1>7 DEF Enter
  <2>2. Tracing => line = <<Rvm!At(pc), Rvm!Full(Rvm!Load(Rvm!At(pc)))>>
    BY <1>3, <1>7, TraceWord
  <2>3. job' = [on |-> TRUE, line |-> IF Tracing
                                      THEN <<Rvm!At(pc), Rvm!Full(Rvm!Load(Rvm!At(pc)))>>
                                      ELSE <<>>]
    BY <2>1, <2>2
  <2> QED
    BY <1>4, <1>5, <2>1, <2>3, SameExchanges DEF Rvm!Enter
<1> QED
  BY <1>6, <1>7

LEMMA WorkImplements ==
  ASSUME PInv, Work
  PROVE  Rvm!Work \/ Rvm!Complete \/ Rvm!Fail
<1> DEFINE i == Decode(Rv32!Load(pc))
<1>1. job.on /\ UNCHANGED config /\ Advances
  BY ExecuteImplements, SystemCallImplements DEF Work, plugin, PInv
<1>2. Start' = Start /\ (call # NoCall)' = (call' # NoCall) /\ Rvm!Load(pc) = Rv32!Load(pc)
  BY <1>1, StartKept, Mapped, SameEffects
<1>3. CASE call' # NoCall
  <2>1. UNCHANGED <<job, talk>>
    BY <1>3 DEF Work, plugin
  <2>2. Rv32!Call(i) \/ Rv32!Progress
    BY <1>1, <1>3 DEF Advances
  <2>3. Rvm!Call(i) \/ Rvm!Progress
    BY <2>2, SameSteps
  <2> QED
    BY <1>1, <1>2, <1>3, <2>1, <2>3 DEF Rvm!Work
<1>4. CASE call' = NoCall /\ thrown' = "none"
  <2>1. /\ job' = Rvm!Idle
        /\ talk' = Rvm!Exchange("executeInstr", 0, <<>>, "returned", <<0>>, job.line)
    BY <1>4, SameExchanges DEF Work
  <2>2. Rv32!Retire(i) \/ Rv32!Exit(i) \/ Rv32!Return(i)
    BY <1>1, <1>4 DEF Advances
  <2>3. Rvm!Retire(i) \/ Rvm!Exit(i) \/ Rvm!Return(i)
    BY <2>2, SameSteps
  <2> QED
    BY <1>1, <1>2, <2>1, <2>3 DEF Rvm!Complete
<1>5. CASE call' = NoCall /\ thrown' # "none"
  <2>1. /\ job' = Rvm!Idle
        /\ talk' = Rvm!Returned("executeInstr", 0, <<>>, <<1>>)
    BY <1>5, SameExchanges DEF Work
  <2>2. IF call = NoCall THEN UNCHANGED Rv32!vars ELSE Rv32!Progress
    BY <1>1, <1>5 DEF Advances
  <2>3. IF call = NoCall THEN UNCHANGED Rvm!vars ELSE Rvm!Progress
    BY <2>2, SameSteps
  <2> QED
    BY <1>1, <1>2, <1>5, <2>1, <2>3 DEF Rvm!Fail
<1> QED
  BY <1>3, <1>4, <1>5

\* A copy does the bytes in front of the first one that is refused: all, when
\* none is.
LEMMA ReachedInterval ==
  ASSUME NEW op, NEW a, NEW m \in Nat
  PROVE  LET n == Cardinality(Reached(op, a, m))
         IN /\ n \in 0 .. m /\ Reached(op, a, m) = 0 .. n - 1
            /\ n = m <=> Refused(op, a, m) = {}
<1> DEFINE R == Reached(op, a, m)
           n == Cardinality(R)
<1>1. /\ R \subseteq 0 .. m - 1
      /\ \A i \in R : \A k \in 0 .. i : k \in R
  <2>1. Refused(op, a, m) \subseteq 0 .. m - 1
    BY DEF Refused
  <2>2. R = {i \in 0 .. m - 1 : \A j \in Refused(op, a, m) : i < j}
    BY DEF Reached
  <2> QED
    BY <2>1, <2>2
<1>2. Refused(op, a, m) \subseteq 0 .. m - 1 /\ Refused(op, a, m) \cap R = {}
  BY DEF Reached, Refused
<1>3. Refused(op, a, m) = {} => R = 0 .. m - 1
  BY DEF Reached
<1> HIDE DEF R
<1>4. IsFiniteSet(0 .. m - 1) /\ Cardinality(0 .. m - 1) = m
  BY FS_Interval
<1>5. IsFiniteSet(R) /\ n \in Nat /\ n <= m
  <2>1. R \in SUBSET (0 .. m - 1)
    BY <1>1
  <2>2. IsFiniteSet(R) /\ Cardinality(R) <= Cardinality(0 .. m - 1)
    BY <1>4, <2>1, FS_Subset
  <2> QED
    BY <1>4, <2>2, FS_CardinalityType
<1>6. ASSUME NEW i \in R PROVE i < n
  <2>1. i \in Nat /\ 0 .. i \subseteq R
    BY <1>1
  <2>2. Cardinality(0 .. i) = i + 1
    BY <2>1, FS_Interval
  <2>3. Cardinality(0 .. i) <= n
    BY <1>5, <2>1, FS_Subset
  <2> QED
    BY <1>5, <2>1, <2>2, <2>3
<1>7. R \subseteq 0 .. n - 1
  <2>1. \A i \in R : i \in Nat /\ i < n
    BY <1>1, <1>6
  <2> HIDE DEF n
  <2> QED
    BY <1>5, <2>1
<1>8. IsFiniteSet(0 .. n - 1) /\ Cardinality(0 .. n - 1) = n
  <2> HIDE DEF n
  <2>1. n - 1 \in Int /\ (0 > n - 1 <=> n = 0)
    BY <1>5
  <2> QED
    BY <1>5, <2>1, FS_Interval
<1>9. R = 0 .. n - 1
  BY <1>7, <1>8, FS_Subset
<1>10. n = m => Refused(op, a, m) = {}
  BY <1>2, <1>9
<1>11. Refused(op, a, m) = {} => n = m
  BY <1>3, <1>4
<1> QED
  BY <1>5, <1>9, <1>10, <1>11 DEF R

\* Calls between two instructions that leave the memory alone.
LEMMA QuietMapped ==
  ASSUME PInv, Change
  PROVE  /\ Rvm!Ready /\ UNCHANGED <<running, job>> /\ Start' = Start
         /\ (call # NoCall)' = (call # NoCall) /\ config # NoConfig
BY StartFacts, StartKept, Mapped DEF Change, Ready

LEMMA WriteMemImplements ==
  ASSUME PInv, NEW addr \in Addr, NEW d \in HostData, WriteMem(addr, d)
  PROVE  \E n \in 0 .. Len(d) : Rvm!WriteMem(addr, d, n)
<1> DEFINE n == Cardinality(Reached("write8", addr, Len(d)))
<1>1. addr \in Nat /\ addr \in Int /\ d \in Seq(Byte) /\ Len(d) \in Nat
  BY MemoryAssumption, SnippyPluginAssumption
<1>2. /\ n \in 0 .. Len(d) /\ Reached("write8", addr, Len(d)) = 0 .. n - 1
      /\ n = Len(d) <=> Refused("write8", addr, Len(d)) = {}
  BY <1>1, ReachedInterval
<1> HIDE DEF n
<1>3. segments' = CopyIn(addr, d) /\ UNCHANGED <<pc, regs>> /\ Change
  BY DEF WriteMem
<1>4. ASSUME NEW b \in Space
      PROVE  Memory'[b] = IF U32(b - addr) < n THEN d[U32(b - addr) + 1] ELSE Memory[b]
  <2>1. b - addr \in Int
    BY <1>1, Sizes DEF Space
  <2>2. U32(b - addr) \in Nat
    BY <2>1, WordOfInt
  <2>3. U32(b - addr) \in 0 .. n - 1 <=> U32(b - addr) < n
    BY <1>2, <2>2
  <2>4. BytesOf(segments')[b] = IF U32(b - addr) \in 0 .. n - 1 THEN d[U32(b - addr) + 1]
                                ELSE Memory[b]
    BY <1>1, <1>2, <1>3, CopyInExact DEF PInv
  <2> QED
    BY <2>3, <2>4, Mapped
<1>5. Memory' = [b \in Space |-> Memory'[b]]
  BY Mapped DEF BytesOf
<1>6. Memory' = [b \in Rvm!Space |-> IF Rvm!U32(b - addr) < n THEN d[Rvm!U32(b - addr) + 1]
                                     ELSE Memory[b]]
  BY <1>4, <1>5, SameWords, SameInstructions
<1>7. talk' = Rvm!Exchange("writeMem", addr, d, IF n = Len(d) THEN "returned" ELSE "escaped",
                           <<>>, <<>>)
  <2>1. Ended(Refused("write8", addr, Len(d))) = IF n = Len(d) THEN "returned" ELSE "escaped"
    BY <1>2 DEF Ended
  <2> QED
    BY <2>1, SameExchanges DEF WriteMem
<1>8. Rvm!WriteMem(addr, d, n)
  BY <1>3, <1>6, <1>7, QuietMapped DEF Rvm!WriteMem
<1> QED
  BY <1>2, <1>8

LEMMA ReadMemImplements ==
  ASSUME PInv, NEW addr \in Addr, NEW count \in HostCounts, ReadMem(addr, count)
  PROVE  \E n \in 0 .. count : Rvm!ReadMem(addr, count, n)
<1> DEFINE segs == Touched("read8", addr, count)
           n    == Cardinality(Reached("read8", addr, count))
<1>1. addr \in Nat /\ count \in Nat /\ "read8" \in Ops
  BY MemoryAssumption, SnippyPluginAssumption DEF Ops, Reads
<1>2. /\ n \in 0 .. count /\ Reached("read8", addr, count) = 0 .. n - 1
      /\ n = count <=> Refused("read8", addr, count) = {}
  BY <1>1, ReachedInterval
<1>3. /\ Change /\ UNCHANGED <<pc, regs>> /\ segments' = segs
      /\ talk' = [Returned("readMem", addr, <<count>>, CopyOut(segs, addr, n)) EXCEPT
                    !.outcome = Ended(Refused("read8", addr, count))]
  BY DEF ReadMem, Look
<1> HIDE DEF n
<1>4. BytesOf(segs) = Memory /\ Memory' = Memory
  BY <1>1, <1>3, TouchedBytes, Mapped DEF PInv
<1>5. \A i \in 0 .. n - 1 : Tag(addr + i) \in DOMAIN segs
  BY <1>1, <1>2, TouchedLazy DEF PInv, IInv
<1> HIDE DEF segs
<1>6. ASSUME NEW i \in 1 .. n
      PROVE  ByteAt(segs, addr + i - 1) = Memory[U32(addr + i - 1)]
  <2>1. addr + i - 1 \in Nat /\ i - 1 \in 0 .. n - 1 /\ addr + (i - 1) = addr + i - 1
    BY <1>1, <1>2
  <2>2. U32(addr + i - 1) \in Space
    BY <2>1, WordOfInt
  <2>3. Tag(U32(addr + i - 1)) = Tag(addr + i - 1)
    <3>1. U32(addr + i - 1) \in Nat /\ U32(U32(addr + i - 1)) = U32(addr + i - 1)
      BY <2>2, Truncated, Sizes DEF Space
    <3> QED
      BY <3>1 DEF Tag
  <2>4. Tag(addr + i - 1) \in DOMAIN segs
    BY <1>5, <2>1
  <2> QED
    BY <1>4, <2>2, <2>3, <2>4 DEF ByteAt, BytesOf
<1>7. CopyOut(segs, addr, n) = [i \in 1 .. n |-> Memory[Rvm!U32(addr + i - 1)]]
  BY <1>6, SameWords, SameInstructions DEF CopyOut
<1>8. talk' = Rvm!Exchange("readMem", addr, <<count>>,
                           IF n = count THEN "returned" ELSE "escaped",
                           [i \in 1 .. n |-> Memory[Rvm!U32(addr + i - 1)]], <<>>)
  <2>1. Ended(Refused("read8", addr, count)) = IF n = count THEN "returned" ELSE "escaped"
    BY <1>2 DEF Ended
  <2> QED
    BY <1>3, <1>7, <2>1, SameExchanges
<1>9. Rvm!ReadMem(addr, count, n)
  BY <1>3, <1>4, <1>8, QuietMapped DEF Rvm!ReadMem, Rvm!vars
<1> QED
  BY <1>2, <1>9

LEMMA ModelCreateImplements ==
  ASSUME PInv, NEW c \in Configs, ModelCreate(c)
  PROVE  Rvm!ModelCreate
<1>1. config = NoConfig /\ Start = Rvm!NoModel /\ job' = job
  BY StartFacts DEF ModelCreate
<1>2. CASE RegionsOverlap(Regions(c))
  <2>1. /\ UNCHANGED <<vars, config>>
        /\ talk' = Rvm!Returned("modelCreate", 0, <<>>, <<0>>)
    BY <1>2, SameExchanges DEF ModelCreate
  <2>2. Start' = Start /\ UNCHANGED Rvm!vars
    BY <2>1, StartKept, Mapped DEF vars, machine, Rvm!vars, NoCall
  <2> QED
    BY <1>1, <2>1, <2>2 DEF Rvm!ModelCreate
<1>3. CASE ~ RegionsOverlap(Regions(c))
  <2>1. /\ segments' = TableOf(Regions(c)) /\ BlankMachine /\ config' = c
        /\ talk' = Rvm!Returned("modelCreate", 0, <<>>, <<1>>)
    BY <1>3, SameExchanges DEF ModelCreate
  <2>2. PInv'
    BY ModelCreateInv
  <2>3. config' # NoConfig
    BY <2>1, SnippyPluginAssumption DEF NoConfig
  <2>4. pc' \in Space
    BY <2>2 DEF PInv, IInv, TypeOK
  <2>5. Start' \in Space
    <3>1. Resolve(0)' \in Nat
      <4>1. c.RomStart \in Nat /\ FallbackStart \in Nat
        BY SnippyPluginAssumption, Sizes DEF Space
      <4> QED
        BY <2>1, <4>1 DEF Resolve
    <3>2. U32(Resolve(0)') \in Space
      BY <3>1, WordOfInt
    <3>3. Start' = U32(Resolve(0)')
      BY <2>3 DEF Start, U32, NoConfig
    <3> QED
      BY <3>2, <3>3
  <2>6. Memory' = [b \in Space |-> 0]
    BY <1>3, <2>1, TableFacts, Mapped, InstructionAssumption DEF NoBytes
  <2>7. Rvm!Fresh
    BY <2>1, <2>4, <2>6, Mapped, SameWords, SameInstructions DEF Rvm!Fresh, BlankMachine
  <2> QED
    BY <1>1, <2>1, <2>5, <2>7, SameWords, SameInstructions DEF Rvm!ModelCreate
<1> QED
  BY <1>2, <1>3

LEMMA ModelDestroyImplements ==
  ASSUME PInv, ModelDestroy
  PROVE  Rvm!ModelDestroy
<1>1. /\ Ready /\ segments' = EmptyTable /\ BlankMachine /\ config' = NoConfig /\ pc' = 0
      /\ job' = Idle /\ talk' = Rvm!Returned("modelDestroy", 0, <<>>, <<>>)
  BY SameExchanges DEF ModelDestroy, Reset
<1>2. Rvm!Ready /\ job' = job
  BY <1>1, StartFacts DEF Ready, PInv
<1>3. Start' = Rvm!NoModel
  BY <1>1, StartFacts DEF Start, NoConfig
<1>4. Memory' = [b \in Space |-> 0] /\ 0 \in Space
  BY <1>1, EmptyFacts, Mapped, InstructionAssumption, Sizes DEF NoBytes, Space
<1>5. Rvm!Fresh
  BY <1>1, <1>4, Mapped, SameWords, SameInstructions DEF Rvm!Fresh, BlankMachine
<1> QED
  BY <1>1, <1>2, <1>3, <1>5 DEF Rvm!ModelDestroy

LEMMA CallInVainImplements ==
  ASSUME PInv, CallInVain
  PROVE  Rvm!CallInVain
<1>1. config = NoConfig /\ Start = Rvm!NoModel /\ UNCHANGED <<vars, config, job>>
  BY StartFacts DEF CallInVain
<1>2. Start' = Start /\ UNCHANGED Rvm!vars
  BY <1>1, StartKept, Mapped DEF vars, machine, Rvm!vars, NoCall
<1>3. Rvm!WithoutModel = WithoutModel
  BY DEF Rvm!WithoutModel, WithoutModel
<1>4. \E op \in DOMAIN WithoutModel : talk' = Rvm!Returned(op, 0, <<>>, WithoutModel[op])
  BY SameExchanges DEF CallInVain
<1> QED
  BY <1>1, <1>2, <1>3, <1>4 DEF Rvm!CallInVain

\* What the host reads and sets between two instructions.
LEMMA SetImplements ==
  ASSUME PInv
  PROVE  /\ Notify => Rvm!Notify
         /\ \A addr \in Addr : PluginSetPC(addr) => Rvm!MovePC(addr)
         /\ \A r : \A v \in Values : SetXReg(r, v) => Rvm!SetXReg(r, v)
<1>1. pc \in Space
  BY DEF PInv, IInv, TypeOK
<1>2. ASSUME Notify PROVE Rvm!Notify
  <2>1. Change /\ pc' = U32(Resolve(pc)) /\ UNCHANGED <<segments, regs>>
        /\ talk' = Rvm!Returned("notifyExecutionModeBeforeSetPc", 0, <<>>, <<>>)
    BY <1>2, SameExchanges DEF Notify
  <2>2. pc' = Rvm!At(pc) /\ Memory' = Memory
    BY <1>1, <2>1, QuietMapped, StartFacts, Mapped
  <2> QED
    BY <2>1, <2>2, QuietMapped DEF Rvm!Notify
<1>3. ASSUME NEW addr \in Addr, PluginSetPC(addr) PROVE Rvm!MovePC(addr)
  <2>1. Change /\ pc' = U32(Resolve(addr)) /\ UNCHANGED <<segments, regs>>
        /\ talk' = Rvm!Returned("setPC", addr, <<>>, <<>>)
    BY <1>3, SameExchanges DEF PluginSetPC
  <2>2. addr \in Nat
    BY MemoryAssumption
  <2>3. pc' = Rvm!U32(Rvm!At(addr)) /\ Memory' = Memory
    BY <2>1, <2>2, QuietMapped, StartFacts, Mapped, SameWords, SameInstructions
  <2> QED
    BY <2>1, <2>3, QuietMapped DEF Rvm!MovePC
<1>4. ASSUME NEW r, NEW v \in Values, SetXReg(r, v) PROVE Rvm!SetXReg(r, v)
  <2>1. /\ Change /\ pc' = (IF r = PCReg THEN U32(Resolve(v)) ELSE pc)
        /\ regs' = (IF r \in RegIdx THEN WriteReg(r, v) ELSE regs) /\ UNCHANGED segments
        /\ talk' = Rvm!Returned("setXReg", r, <<v>>, <<>>)
    BY <1>4, SameExchanges DEF SetXReg
  <2>2. v \in Nat
    BY SnippyPluginAssumption
  <2>3. Memory' = Memory /\ (r = PCReg => pc' = Rvm!U32(Rvm!At(v)))
    BY <2>1, <2>2, QuietMapped, StartFacts, Mapped, SameWords, SameInstructions
  <2>4. r \in RegIdx => r # PCReg /\ WriteReg(r, v) = Rvm!Register(r, v)
    BY InstructionAssumption, SameRegister, SameEffects DEF PInv, PCReg
  <2> QED
    BY <2>1, <2>3, <2>4, QuietMapped, SameExchanges DEF Rvm!SetXReg
<1> QED
  BY <1>2, <1>3, <1>4

LEMMA ReadImplements ==
  ASSUME PInv
  PROVE  /\ ReadPC => Rvm!ReadPC
         /\ \A r : ReadXReg(r) => Rvm!ReadXReg(r)
<1>1. Look /\ UNCHANGED segments => UNCHANGED Rvm!vars /\ Rvm!Ready /\ Start' = Start /\ job' = job
  BY QuietMapped, Mapped DEF Look, Rvm!vars
<1>2. ReadPC => Rvm!ReadPC
  BY <1>1, SameExchanges DEF ReadPC, Rvm!ReadPC
<1>3. \A r : ReadXReg(r) => Rvm!ReadXReg(r)
  BY <1>1, SameExchanges DEF ReadXReg, Rvm!ReadXReg
<1> QED
  BY <1>2, <1>3

LEMMA HostCallImplements ==
  ASSUME PInv, HostCall
  PROVE  Rvm!Host
<1>1. CASE \E c \in Configs : ModelCreate(c)
  BY <1>1, ModelCreateImplements DEF Rvm!Host
<1>2. CASE ModelDestroy \/ CallInVain
  BY <1>2, ModelDestroyImplements, CallInVainImplements DEF Rvm!Host
<1>3. CASE Notify \/ ReadPC
  BY <1>3, SetImplements, ReadImplements DEF Rvm!Host
<1>4. CASE \E addr \in Addr : PluginSetPC(addr)
  BY <1>4, SetImplements DEF Rvm!Host
<1>5. CASE \E r \in HostRegisters : ReadXReg(r) \/ \E v \in Values : SetXReg(r, v)
  <2>1. PICK r \in HostRegisters : ReadXReg(r) \/ \E v \in Values : SetXReg(r, v)
    BY <1>5
  <2>2. Rvm!ReadXReg(r) \/ \E v \in Values : Rvm!SetXReg(r, v)
    BY <2>1, SetImplements, ReadImplements
  <2>3. \E s \in HostRegisters : Rvm!ReadXReg(s) \/ \E v \in Values : Rvm!SetXReg(s, v)
    BY <2>2, Zenon
  <2> QED
    BY <2>3, Zenon DEF Rvm!Host
<1>6. CASE \E addr \in Addr, d \in HostData : WriteMem(addr, d)
  BY <1>6, WriteMemImplements DEF Rvm!Host
<1>7. CASE \E addr \in Addr, c \in HostCounts : ReadMem(addr, c)
  BY <1>7, ReadMemImplements DEF Rvm!Host
<1> QED
  BY <1>1, <1>2, <1>3, <1>4, <1>5, <1>6, <1>7 DEF HostCall

\* To its host the plugin is the model RVM.hpp offers, whatever the host does
\* and whatever programs it runs: each call acts on one RV32I machine and
\* answers from it, an executeInstr that returns 0 has retired exactly the
\* instruction its line of the trace shows and one that returns 1 has retired
\* none, and a copy that an exception leaves has done exactly the bytes before.
THEOREM RvmImplemented == PluginSpec => ImplementsRVM
<1>1. PluginInit => Rvm!RVMInit
  <2> SUFFICES ASSUME PluginInit PROVE Rvm!RVMInit
    OBVIOUS
  <2>1. PInv /\ config = NoConfig
    BY PluginInitInv DEF PluginInit
  <2>2. Memory \in [Space -> Byte]
    BY <2>1, BytesOfType DEF PInv, IInv, Lazy, Memory
  <2>3. pc \in Space /\ regs \in [RegIdx -> Space] /\ regs[0] = 0
    BY <2>1 DEF PInv, IInv, TypeOK
  <2>4. Rvm!Init
    BY <2>2, <2>3, SameWords, SameInstructions DEF PluginInit, Rvm!Init
  <2> QED
    BY <2>1, <2>4, StartFacts, SameExchanges DEF PluginInit, Rvm!RVMInit
<1>2. PInv /\ [PluginNext]_all => [Rvm!RVMNext]_(Rvm!rvmvars)
  <2> SUFFICES ASSUME PInv, [PluginNext]_all PROVE [Rvm!RVMNext]_(Rvm!rvmvars)
    OBVIOUS
  <2>1. CASE UNCHANGED all
    <3>1. UNCHANGED vars /\ UNCHANGED <<config, job, talk>>
      BY <2>1 DEF all, plugin
    <3>2. Start' = Start /\ UNCHANGED Rvm!vars
      BY <3>1, StartKept, Mapped DEF vars, machine, Rvm!vars, NoCall
    <3> QED
      BY <3>1, <3>2 DEF Rvm!rvmvars
  <2> QED
    BY <2>1, EnterImplements, WorkImplements, HostCallImplements DEF PluginNext, Rvm!RVMNext
<1> QED
  BY <1>1, <1>2, PluginInvariant, PTL DEF PluginSpec, ImplementsRVM, Rvm!RVMSpec
=============================================================================
