# A TLA+ model of rv_simulator

rv_simulator runs RV32I programs: it loads an ELF file, interprets its
instructions, passes the program's `read` and `write` calls on to the host, and
offers a debugger's prompt and files that carry a machine state from one run to
the next. The same CPU and memory serve as a model plugin of llvm-snippy.

This directory holds TLA+ modules of that program, TLC configurations that check
them on small instances, and TLAPS proofs, for every size, about its memory, its
CPU and the parts around them.

## The system

| Component | Source | State | Operations |
| --- | --- | --- | --- |
| Memory | `inc/memory.hpp`, `MEM32` | `segments_`, a map from page numbers to pages with rights | seven accessors, `add_segment` |
| Decoder | `inc/decoder.hpp`, `inc/instruction.hpp` | none | `decode32`, `fetch_and_decode` |
| CPU | `inc/cpu.hpp`, `CPU_RV32I` | `pc_`, `regs_`, `is_running_`, the buffer of the system calls | `execute`, `set_pc`, `write_reg`, `handle_read`, `handle_write`, `handle_exit` |
| Simulator | `inc/simulator.hpp`, `Simulator` | the loop it is in | `load_elf`, `run`, `continuous_run`, `step`, `interactive_mode` |
| State files | `inc/simulator.hpp` | a file | `load_initial_state`, `dump_cpu_state` |
| ELF loader | `inc/parser.hpp`, `Parser` | a stream, segments, the entry point | `load_elf`, `read_section_names` |
| Command line | `main.cpp` | `Config`, the exit status | `main` |
| Argument parser | `inc/CLI11.hpp`, vendored | the options, their results, what is left to parse | `add_option`, `parse`, `exit` |
| Disassembly | `src/instruction_impl.cpp`, `inc/utility.hpp` | none | listing an instruction in the log |
| Snippy plugin | `snippy-plugin/` | a CPU, a memory, a configuration | `rvm_modelCreate`, `rvm_executeInstr`, `rvm_readMem`, ... |

**How they interact.** All of it is one thread and plain calls. `main` has the
parser of CLI11 bind its options, loads the ELF file through `Parser` into
`MEM32`, may load a state file, and drives `Simulator` in one of three loops;
each turn is one `step`: fetch, decode, execute. `execute` calls the accessors of
`MEM32` and, for ECALL, the host. `MEM32` answers with a value or an exception,
and `step` swallows the exceptions of memory and decoder. The debugger calls
`read32` and `set_pc` between steps. The plugin has no loop: its host asks for
one instruction at a time and reads and writes registers and memory in between.

**What is hard in it.**
- *Memory.* `get_seg` creates a page that is not there, with the rights of the
  access that asked. Which accesses a page allows thus depends on the order of a
  program's first accesses, on the debugger, on the plugin's host and trace, and
  on failed instructions. Addresses arrive as 64-bit sums; the 32-bit accessors
  subtract from all 64 bits.
- *Partial failure.* An exception can leave an instruction at several places:
  before the fetch, after the fetch created a page, in a load, in a store, in
  the middle of the bytes a system call copies, in the middle of a segment. The
  plugin lets it leave a C function, in the middle of a copy. No read of an ELF
  file is tested, so a truncated one goes on as something else; no write of a state
  file is, so one that is cut off passes for a success.
- *Retries.* After a fault the pc still names the faulting instruction, and
  `continuous_run` tries it again on a memory the first attempt has changed.
- *The host.* It may answer each turn of a system call with fewer bytes, with
  none or with an error, and the program must be told the exact count.
- *Pure functions at their edges.* Mixed signed and unsigned 64-bit arithmetic,
  immediates scattered over the instruction word, switches that must agree.
- *The command line.* One option has many spellings, letters may run together,
  an unknown option fails only after everything behind it has been taken.

There is no concurrency, and nothing is persistent but the state file.

**What makes each part correct.**
- Memory: it is one flat array of bytes with rights per page; what is protected
  stays protected; an access that fails stores nothing.
- CPU: each step is one instruction of RV32I, in full or not at all; only loaded
  code executes; system calls move what they say they moved, and end.
- Decoder, arithmetic and listing: they agree with RV32I's definitions, and what
  is listed identifies the instruction.
- Simulator: bounded runs end, exited programs stay as they are, faults hold.
- State files: loaded whole or not at all; what was saved whole can be resumed.
- Loader: a file's segments are where its headers say, with their rights.
- Plugin: its host sees one RV32I machine; its regions are usable; its trace
  changes nothing.
- Command line: spelling and order do not matter, nothing unknown passes, the
  exit status tells what has run and whether a final state was begun.

`PROJECT.json` lists the hazards line by line, with the properties meant for each.

## The modules

```
MemoryInterface          accesses, segments, answers; sizes as CONSTANTS
  FlatMemory             abstract: a flat array of bytes with rights
  SegmentTable           the page table of MEM32, as operators
    MEM32                class MEM32 as a state machine  => FlatMemory
    Loader               an ELF file, read by read, to a pc and a page table
  Instructions           decoded instructions, words, loads, branches
    ISA                  abstract: RV32I over a flat array of bytes
      RVM                abstract: the model behind the C interface, on ISA
    CPU                  CPU_RV32I on SegmentTable       => ISA
      Simulator          the loops and the debugger, on CPU
      SnippyPlugin       the plugin and its host, on CPU => RVM
ALU, ALUReference        the arithmetic, and RV32I's bit by bit
Decoder, DecoderReference  decode32, and an assembler
  Disassembly            the listing, and its reader
ArgumentParser           CLI::App::parse
  CommandLine            main, on ArgumentParser
StateFile                state files over several sessions
```

`=>` is a refinement that a run checks. `MCx.tla` gives the constants of module
`x` values for TLC; `MCInstructions` joins `Disassembly` and `ALUReference`.
`x_proofs.tla` holds the theorems about `x`, `SegmentTable_proofs` the lemmas
about the page table that those on memory and CPU share, and `Clients_proofs` the
theorems about both clients of the CPU, `Simulator` and `SnippyPlugin`.

| Code | Model |
| --- | --- |
| `segments_` | `segments`, a function from tags to `[data, rights]` |
| `get_seg`, `create_page` | `GetSeg`, `CreatePage`; the tests of the rights are `Permitted` |
| the offset of an access and its test | `Offset`, `OutcomeIn` |
| `get_alligned_segment`, `add_segment` | `Aligned`, `SegmentPage`, `WithSegment` |
| `fetch_and_decode` | `Fetch`, `Instr`, `FetchFault` |
| the cases of `execute` | `Arithmetic`, `LoadInstr`, `StoreInstr`, `Branch`, `Jump`, `Upper`, `Nop`, `Exit`, `UnknownSyscall` |
| the exception that leaves a step | `thrown` and `Throw` |
| `handle_read`, `handle_write` | `BeginRead` or `BeginWrite`, then one of `ReadChunk`, `ReadError`, `WriteChunk`, `WriteError`, `WriteFault` for each turn of the loop, with `call` for the local variables |
| `decode32` and its `decode_X` | `Decode32`, `DecodeX` |
| `get_instr_name`, `get_instr_operands` | `Name`, `Operands` |
| `run`, `continuous_run`, `step` | `mode`, `left`; `Step`, `IdleStep`, `LoopEnds` |
| commands `s`, `m`, `p`, `q` | `CommandStep`, `CommandBadStep`, `CommandMemory`, `CommandPC`, `CommandQuit` |
| `load_initial_state`, `dump_cpu_state` | `LoadInitialState`, `DumpCPUState` |
| `Parser::load_elf`, `read_section_names` | `Open`, `ReadHeader`, `ReadSectionNames`, `ReadProgramHeaders`, `ReadSegment`, one action per read or seek and read, with `good` for the state of the stream |
| `Simulator::load_elf` | `SetEntryPoint`, then an `AddSegment` for each segment, `MapDone` |
| `rvm_modelCreate`, `rvm_modelDestroy` | `Plausible`, `Contiguous`, `Regions`; `ModelCreate`, `ModelDestroy` |
| `rvm_executeInstr` | `Enter`, which resolves the pc and fetches for the trace, then the actions of `CPU` in `Work` until one ends it |
| `rvm_setPC`, `rvm_readPC`, `rvm_setXReg`, `rvm_readXReg`, `rvm_writeMem`, `rvm_readMem` | `PluginSetPC`, `ReadPC`, `SetXReg`, `ReadXReg`, `WriteMem`, `ReadMem`, each with its answer in `talk` |
| `App::add_option`, `_parse` and its passes over the options | `AddOption`, `StartParse`; `ParseMark`, `ParseUnknown`, `ParseFlag`, `ParseOption`, `ParsePositional`, one per argument; `ProcessHelp`, `ProcessRequirements`, `RunCallback`, `ProcessExtras` |
| `main` | `BuildApp`, `ParseArguments`, `ParseThrew`, `CreateSimulator`, `LoadElf`, `LoadState`, `RunProgram`, `SaveState` |

**Abstractions.** Sizes are constants: a byte has `Radix` values, a word four
bytes, the address space `AddrSpace = PageSize * PageCount`, which is `Radix^4`.
`CPU` takes decoding and arithmetic as the operator constants `Decode` and `Alu`
and is checked for any table of instructions; `Decoder` and `ALU` model the real
ones. History variables (`loaded`, `consumed`, `output`, `call.start`, `asked`,
`retired`, `dumped`, `talk`, `written`) record what a property refers to and no
guard of the code reads them. (`call.turn` changes with each turn of a system
call, so that a turn is never a stutter.) The file descriptor of a system call
is left out: every descriptor is one input and one output of the host, or fails.
Logging is left out, but for the lines of the plugin's trace and the operands of
a listed instruction, which have properties.

**Instructions.** A word is the `int32_t` of its bits, so that a shift is a
division and a mask a remainder. An instruction to assemble is any of those the
constants `Regs` and `Imm12` to `Imm21` allow, which are never more than what the
format of a type has room for; `Words` are words to decode that nobody assembled.
An upper immediate is counted in units of 2^12.

**Memory.** `ImplementsFlatMemory` refines `MEM32` to `FlatMemory`: the page
table, its lazily filled pages and all offset arithmetic are gone there; an
access fails when its page lacks a right or its bytes leave the page. The
refinement maps `bytes` to the contents of the pages, zero where there is none.
It compares the answer of every call, so it shows that a load yields the last
bytes stored by stores of any width.

**CPU.** `ImplementsISA` refines `CPU` to `ISA`, with `bytes` mapped as above and
`busy` to a system call in progress. A fault must be a stutter of `ISA`: that is
the claim that exceptions are precise. The initial states of `CPU` are what a
successful `load_elf` of two segments leaves.

**Plugin.** `ImplementsRVM` refines `SnippyPlugin` to `RVM`, the same `ISA` with
calls between its instructions. `talk` holds every call with its answer, so the
refinement is about what the host sees: return values, copied bytes, the lines
of the trace, and calls that are left by an exception. Two things `RVM.hpp` does
not say are part of the promise of `RVM`, and its header says so: a pc of zero
stands for the place where the model starts, and a copy may stop half-way.

**Loader.** A file is a record of its headers, the offsets of what they point to
and a length at which it is cut off. A read beyond that length leaves what was in
its buffer, which is zero but for the uninitialized `ehdr`: there it is any value
of `Garbage`.

**State files.** A file is a sequence of numbers and words. `FileOf` is the file of a
state; `DumpCPUState` leaves it whole or as any of its `Truncations`, since nobody
tests whether the writes of the stream went well.

**Command line.** `SaveState` follows `dump_cpu_state`: it fails when the file cannot be
opened, and otherwise succeeds, whether `written` is all of the state or a part. A string is the sequence of its lexemes, split only where the
parser may split it. A line is given together with what was meant by it, as
options with values; the parser sees the strings alone.

## The runs

| Run | Module | What it asks | States |
| --- | --- | --- | --- |
| `memory` | `MCMEM32` | is the page table a flat memory, whatever order its clients call in | 8631 |
| `cpu` | `MCCPU` | is each step one RV32I instruction, or a trap without effect; do system calls transfer what they report, and end | 86576 |
| `instructions` | `MCInstructions` | is decoding the inverse of encoding, is listing readable, is the arithmetic RV32I's | 95420 |
| `simulator` | `MCSimulator` | do the loops stop when they should, and only then | 46580 |
| `state_file` | `MCStateFile` | what survives from one session to the next | 74369 |
| `snippy` | `MCSnippyPlugin` | is the plugin one RV32I machine to any host | 15039 |
| `loader` | `MCLoader` | is a file loaded as its headers say, and what happens to a truncated one | 7011 |
| `command_line` | `MCCommandLine` | do all spellings mean the same, and what does the exit status tell | 76518 |

Each property is stated in words above its definition; `PROJECT.json` says which
run checks which.

**Bounds, and why they are enough.**
- `memory`: three pages of five bytes. A word fits at two offsets of a page, so
  there are aligned, misaligned and straddling accesses of each width; `MCAddr`
  has both ends of pages and an address 2^32 higher. Four segments cover code,
  data across two pages, an overlap with pages below it, one beyond the end of
  the address space, and data longer than `memsz`.
- `cpu`: bytes of four values, so words of 8 bits and 32 pages of 8 bytes. The
  short programs are every pair of an instruction of `Table`, which has every
  type of load, store, branch, jump and system call, and an ECALL or LW; the
  calling programs read, write what they have read and exit, with a data page of
  each set of rights. Nine register files put buffers and operands in the data
  page, over its end, over the end of memory and in unmapped pages. With a buffer
  of two bytes, counts of up to five give transfers of three turns, with short
  ones, errors and faults in each. `Input` and `MaxOutput` bound what is moved.
  The programs run as far as they get.
- `instructions`: real 32-bit words. Every type, with registers and immediates
  with all bits clear, all set and alternating, at both ends of their ranges and
  with single bits set, and registers at both ends of each range of names; words
  of every opcode, funct3 and six values of funct7 for what should not decode.
  Arithmetic on words of four bits, every type with every pair of operands: the
  code is uniform in the width but for the mask of a shift, which is a parameter.
- `simulator`: all programs of two instructions out of six, then an exit; bounds
  of 0, 1 and 4 steps and none; a debugger that steps, looks, moves and quits.
- `state_file`: three registers of four values, so that a number has two digits;
  eleven files of all shapes, and every file that was saved, whole or cut off behind
  any of its numbers or digits; any number of sessions.
- `snippy`: regions that are adjacent in either order, apart, on one page, RAM
  alone and at zero, ROM over the end of the address space, and implausible ones.
  The host writes programs that overwrite the instruction in progress, by a store
  and by a system call, or jump to zero. Registers and
  addresses are also given as values 2^32 higher. `MaxCalls` bounds its calls, other than
  executeInstr, between a creation and the next at two: one to put a program in
  place, one to disturb it or to look.
- `loader`: eight layouts (sections last, first and none; no name; segments on
  one page; an empty segment; a note between segments; another machine's file),
  each cut off at every length.
- `command_line`: every line of up to three of 19 groups of arguments, and every
  line of up to three of 13 loose arguments, with ones that are unknown, run
  together or negative. Three positions are enough for a pair of options to
  interfere in either order with something before, between or after.

**Fairness.** Safety runs have none. `CallsEnd` assumes weak fairness of
`SystemCall`: the host answers each call; nothing is assumed of its answers.
`BoundedRunsEnd` assumes weak fairness of `Loop`, since the simulator is one
thread in a loop; the user's commands have none. `ParsingEnds` assumes weak
fairness of `ParseArguments`: the parser is one thread and never waits.

`loader` and `command_line` turn off the test for deadlock: `load_elf` and `main`
return. In every other run a step is always possible, be it the explicit stutter
of a simulator that has ended (`Over`).

**Runs that show a disagreement** (`expect: violation`), each of one property:

| Run | Property | What the code does |
| --- | --- | --- |
| `state_file_registers` | `DumpsRestoreTheRegisters` | a file as `-f` writes it is loaded by `-i` with every register shifted by one: `values[i]` is indexed as if the pc were not in front (`simulator.hpp:66`) |
| `loader_truncated` | `SegmentsAreInTheFile` | a file without sections that has all of its headers but ends before its segments do is loaded, with zeros for what is missing (`parser.hpp:60`) |
| `simulator_steps` | `StepsAreInstructions` | `--steps n` counts attempts; an instruction that faults uses up the rest |
| `memory_lazy` | `OnlyLoadedPagesAreMapped` | no access is ever answered with the `PageFault` the memory declares |

**Observations.** Things a reader of the code may want to know; no run is about them:
- The debugger's `m` and the plugin's `rvm_readMem` create the page they look at,
  readable only, so that a later store there fails: a looked-at run may differ
  from one that is not.
- `handle_read` may overwrite its own ecall, in a page that is code and writable,
  and fault afterwards; what is tried again is then another instruction. The
  comment of `FaultsRepeat` excepts this; the same goes for `FaultsHoldUnlimitedRuns`.
  No run has such a program, and the theorems about the two exclude it (`SeparateRights`).
- `main` returns zero also when the writes of the final state fail, on a full disk say:
  `dump_cpu_state` tests only that the file could be opened (`simulator.hpp:73`), and
  `README.md:111` promises of `-f` that the state is saved. `SaveState` has this outcome,
  so `StatusTellsWhatHappened` says of a zero no more than that the file was begun.
- A state file that is cut off in its last number is loaded like a whole one. The
  number is that of x31, which a file with a pc in front loses in any case
  (`state_file_registers`). A file that is cut off before it is refused.
- A write that fails in a later turn reports the error alone: a guest that writes
  the buffer again sends what was out already a second time.
- Words that RV32I reserves decode to JALR, SRLI, SRAI, FENCE, FENCE_I, ECALL and
  EBREAK, of which the decoder ignores some bits (`NothingElseDecodes` leaves them out).
- A read of 2^32 - 1 bytes that succeeds returns the number that also says it failed.
- CLI11 puts letters behind a flag's letter back on the line: with a flag `-v`, an
  argument `-v-` would leave `--`, after which nothing is an option any more. `main`'s
  only letter of a flag is `-h`, which ends the parse (`LettersAskForHelp`).
- The plugin sends a pc of zero to a constant when its regions have RAM only, not
  to the start of RAM where the model began (`ZeroIsTheStart` leaves this out).
- The listing of `li` has an operand `zero` too many, `lui` and `auipc` list the
  immediate with its shift, fences are listed as `unknown`, and the pseudo-instructions
  `mv` and `j` that the repository's README names are never listed.
- `--final_state=` with nothing behind the `=` takes the next argument.
- A segment within two pages of 4 GiB wraps `add_segment`'s `uint32_t` sums and
  maps nothing; `Loadable` excludes it.

**Mutants.** A definition under the comment `Wrong:` is a plausible bug in the
definition it is named after and has no part in the model. With it put in the
place of that definition, TLC refutes the property:

| Run | Property | Definition | Mutant |
| --- | --- | --- | --- |
| `memory` | `TypeOK` | `SegmentPage` | `SegmentPageUnpadded` |
| `memory` | `LazyPagesAreOneWay` | `CreatePage` | `CreatePageReadable` |
| `memory` | `ImplementsFlatMemory` | `SegmentPage` | `SegmentPageFromStart` |
| `memory` | `RightsAreForever` | `WithSegment` | `WithSegmentOver` |
| `memory` | `ReadOnlyPagesAreConstant` | `Permitted` | `PermittedToWrite` |
| `memory` | `FaultsStoreNothing` | `Store` | `StoreThenTest` |
| `cpu` | `TypeOK` | `WriteReg` | `WriteRegZero` |
| `cpu` | `ImplementsISA` | `Jump` | `JumpLinkFirst` |
| `cpu` | `FaultsArePrecise` | `LoadInstr` | `LoadClearing` |
| `cpu` | `FaultsRepeat` | `Throw` | `ThrowSkipping` |
| `cpu` | `ExecutedCodeWasLoaded` | `Permitted` | `PermittedToExecute` |
| `cpu` | `TransfersAreExact` | `From` | `FromStart` |
| `cpu` | `CallsEnd` | `Continue` | `ContinueUntilFull` |
| `instructions` | `NothingElseDecodes` | `DecodeB` | `DecodeBSigned` |
| `instructions` | `ListingReadsBack` | `Offset` | `OffsetOfRs2` |
| `instructions` | `DecodesWhatIsEncoded` | `ImmS` | `ImmSUnsigned` |
| `instructions` | `ComputesRV32I` | `ShiftRightArithmetic` | `ShiftRightUnsigned` |
| `simulator` | `ExitIsFinal` | `Step` | `StepRegardless` |
| `simulator` | `BoundedRunsEnd` | `Countdown` | `CountdownRetired` |
| `simulator` | `FaultsHoldUnlimitedRuns` | `Step` | `StepThrowing` |
| `state_file` | `RefusedFilesChangeNothing` | `LoadInitialState` | `LoadInitialStateEagerly` |
| `state_file` | `DumpsRestoreThePC` | `FileOf` | `FileOfRegistersFirst` |
| `snippy` | `RegionsAreUsable` | `Regions` | `RegionsRomFirst` |
| `snippy` | `ImplementsRVM` | `WriteMem` | `WriteMemEnds` |
| `snippy` | `ZeroIsTheStart` | `Resolve` | `ResolveToRom` |
| `snippy` | `TraceFailsNothing` | `Enter` | `EnterUnresolved` |
| `loader` | `LoadsWhatTheFileSays` | `ReadSegment` | `ReadSegmentOfAnyType` |
| `loader` | `NamesGuardAgainstTruncation` | `ReadSectionNames` | `ReadSectionNamesLeniently` |
| `command_line` | `SpellingAndOrderDoNotMatter` | `CallbackError` | `CallbackErrorTakeLast` |
| `command_line` | `UnknownOptionsAreRefused` | `ProcessExtras` | `ProcessExtrasIgnored` |
| `command_line` | `StatusTellsWhatHappened` | `SaveState` | `SaveStateSilently` |
| `command_line` | `ParsingEnds` | `ParseFlag` | `ParseFlagForEver` |

## The proofs

Each theorem holds for all values of the constants that the named assumptions of
its module allow.

| Theorem | Property |
| --- | --- |
| `MEM32_proofs!Invariance` | `IInv`, the inductive invariant |
| `MEM32_proofs!TypeCorrect` | `TypeOK` |
| `MEM32_proofs!LazyPagesOneWay` | `LazyPagesAreOneWay` |
| `MEM32_proofs!RightsForever` | `RightsAreForever` |
| `MEM32_proofs!ReadOnlyPages` | `ReadOnlyPagesAreConstant` |
| `MEM32_proofs!Implementation` | `ImplementsFlatMemory` |
| `MEM32_proofs!NothingStored` | `FaultsStoreNothing` |
| `CPU_proofs!TypeCorrect` | `TypeOK` |
| `CPU_proofs!CodeWasLoaded` | `ExecutedCodeWasLoaded` |
| `CPU_proofs!FaultsPrecise` | `FaultsArePrecise` |
| `CPU_proofs!IsaImplemented` | `ImplementsISA` |
| `Clients_proofs!ExitFinal` | `ExitIsFinal` |
| `Clients_proofs!TraceHarmless` | `TraceFailsNothing` |
| `Loader_proofs!NamesGuard` | `NamesGuardAgainstTruncation` |
| `CommandLine_proofs!Status` | `StatusTellsWhatHappened` |
| `StateFile_proofs!PCRestored` | `DumpsRestoreThePC` |
| `CPU_proofs!CountsExact` | `TransfersAreExact` |
| `CPU_proofs!FaultsAgain` | `FaultsRepeat` |
| `Clients_proofs!FaultsHold` | `FaultsHoldUnlimitedRuns` |
| `Clients_proofs!RegionsUsable` | `RegionsAreUsable` |
| `Clients_proofs!ZeroStarts` | `ZeroIsTheStart` |
| `Clients_proofs!RvmImplemented` | `ImplementsRVM` |
| `Loader_proofs!LoadsTheFile` | `LoadsWhatTheFileSays` |
| `CommandLine_proofs!UnknownRefused` | `UnknownOptionsAreRefused` |
| `InstructionSet_proofs!NoOtherWords` | `NothingElseDecodes` |
| `InstructionSet_proofs!RoundTrip` | `DecodesWhatIsEncoded` |
| `InstructionSet_proofs!LogReadsBack` | `ListingReadsBack` |
| `InstructionSet_proofs!ALUComputesRV32I` | `ComputesRV32I` |
| `InstructionSet_proofs!DecoderAndALUFit` | `InstructionAssumption` of `Decoder` and `ALU` |
| `CPU_proofs!CallsAreBounded` | `TurnsAreFull`, stated in the module of the proof |
| `CPU_proofs!FootprintBounded` | `MapsWhatItAddresses`, stated in the module of the proof |
| `CommandLine_proofs!SpellingAndOrder` | `SpellingAndOrderDoNotMatter` |
| `StateFile_proofs!RefusedIsHarmless` | `RefusedFilesChangeNothing` |

**What is assumed.** The named assumptions of the modules, all of which TLC
evaluates on the runs:
- `MemoryAssumption`: pages of at least four bytes, any number of them, any
  addresses, words and segments; its only part of substance is `Loadable`, that no
  segment comes within two pages of the size of the address space.
- `InstructionAssumption`: a word is four bytes, the address space `Radix^4`,
  decoding yields instructions, words of zeros are none, and arithmetic yields
  numbers. `DecoderAndALUFit` proves it of `Decoder` and `ALU` with the bytes, pages and
  registers of the code.
- `CPUAssumption`: whole words fit pages, programs have two segments, the initial
  x0 is zero and the buffer is smaller than the address space.
- `LoaderAssumption`: the table of section headers holds that of the names, a file
  has as many program headers as it says and at least `len` bytes.
- `SnippyPluginAssumption`: two regions of the size `main.cpp` takes for plausible,
  and the map that replaces implausible ones, end two pages short of the address
  space (they are 256 MiB of 4 GiB); the fallback does not start at zero; the host
  copies no more than there are addresses.
- `DecoderAssumption`: registers have five bits, immediates the bits of their format,
  distances are even, words have 32 bits. Nothing in it is a restriction.
- `XLenAssumption`: a word has a power of two of bits, which the mask of the shifts
  presupposes; 32 is one.
- `GroupsAssumption`: a line that comes with groups can be cut into spellings of them,
  and no option's name is `-`, `!` or `=`. The first is what having groups means, the
  second holds of `main`'s names.
- `ArgumentAssumption`, `StateFileAssumption` and `SimulatorAssumption` type the constants.

Four hypotheses stand in the theorems themselves, because the property is false
without them and the code does not establish them:
- `SeparateRights` (`FaultsAgain`, `FaultsHold`): no segment is both writable and
  executable. Otherwise a read may replace its own ecall, fault, and not fault again.
- `Len(Input) < AddrSpace - 1` (`CountsExact`): otherwise a count may be the number
  of the error.
- `LettersAskForHelp` (`UnknownRefused`): the app's only flags with letters are those
  that ask for help. It is a fact about `main`'s app (`MainLetters`), not about
  every app of CLI11 (see the observations).
- `OnlyOnePositional` (`SpellingAndOrder`): the app has at most one positional, as
  `main`'s has (`MainPositional`). With two, the order of arguments means something.

**Memory** (`SegmentTable_proofs`, `MEM32_proofs`). Three layers.
1. *Arithmetic.* Quotient and remainder by `PageSize` are unique; a tag and an
   offset name an address; an access that passes the test of its offset lies in
   one page (`TagFacts`, `OffsetFacts`); the tags of an aligned segment are the
   pages its bytes cover (`LastPage`, `AlignedFacts`).
2. *The page table.* What `GetSeg`, `Written` and `WithSegment` do to it: they
   keep it well formed, add pages, and change only what they should.
3. *The state machine.* `IInv` is `TypeOK`, `LazyPagesAreOneWay` and
   `LazyRights`. `LazyPagesAreOneWay` is not inductive: a store could reach a
   lazily created page that is readable and writable. `LazyRights` excludes
   it: the rights of such a page are those one kind of access needs. The action
   properties follow from `IInv` action by action, and the refinement shows
   that each call of `MEM32` is the call of `FlatMemory` with the same answer.

**CPU** (`CPU_proofs`). `IInv` is `TypeOK`, `Lazy` and `ReadCalls`.
- `TypeOK` alone is inductive, with x0 = 0 as the part a wrong instruction would
  break.
- `Lazy` says of every page that was not loaded that its rights are those of one
  kind of access and that it is zeros if it may be read. System calls store by
  `write8`, as stores do, so they keep it; this is what `CodeWasLoaded` rests on: a
  word fetched from such a page is zeros, which decode to nothing.
- `ReadCalls` says that a read in progress finds its number still in a7. The
  refinement needs it: `ISA` knows a transfer by a7 alone.
- `IsaImplemented` goes action by action. A load or store of `CPU` goes through
  the page table, and the lemmas on `Memory` show that it is one on flat bytes;
  `GetSeg` never changes a byte, so a fault is a stutter; a turn of a read stores
  byte by byte through `CopyIn`, which is shown to change bytes of the buffer only.
- `CountsExact` is about the history of a call. `Transferred` says at each of its
  turns that what has been moved since the call began is in the buffer (`Received`)
  or was in it (`Sent`), byte for byte, and that the count so far is its length. A
  turn adds to it (`ReadTurn`, `WriteTurn`) since its bytes lie behind those of the
  turns before (`BehindTurn`): the whole transfer is shorter than the space. An error
  of a write ends the call behind a turn, where `Transferred` says what is out.
- `FaultsAgain` needs to know why the last step threw, in terms of the state it left
  behind. `Again` says it: the fetch throws now, or the access does in the table as
  `GetSeg` has left it, or the system call is unknown, or it is a transfer, which
  begins again. `Calling`, that a call in progress is at its own ecall, holds only
  while no store of the call reaches the page of the pc, hence `Separate`.
- `CallsAreBounded` is the part of `CallsEnd` that needs no fairness: a turn that is not
  the last moves `BufSize` bytes towards a count that nobody changes, so a call of a
  count of c ends at the latest at its turn number c divided by `BufSize`, rounded up,
  or the first if c is zero.
- `FootprintBounded` says whose pages `get_seg` creates: `Addressed` are those in reach
  of the next step, one for a load, a store or an instruction that cannot be fetched,
  none for any other instruction, since its word was fetched from a page that is there.

**The parts around them.**
- `ExitFinal`: no loop and no command moves a program that has exited. It needs
  that the prompt is shown only while the program runs (`PromptWhileRunning`).
- `FaultsHold`: `FaultsAgain`'s lemma step by step. `Unlimited` carries its invariant
  through a run without limit, where no command interferes, and `ExitedQuietly` says
  that the program that has exited has not thrown.
- `TraceHarmless`: `GetSeg` is idempotent (`GetSegTwice`), so the fetch of the
  instruction meets the page and the outcome of the fetch of the trace.
- `RegionsUsable`: the pages of a region cover its bytes (`CoveredPages`), one region
  after another; merged ones cover both parts. `Regioned` keeps the map for the life
  of the model, since no step takes a page away or changes its rights (`StepKeeps`).
- `RvmImplemented`: `PInv` is the CPU's invariant, `Regioned`, and that no system
  call is left in progress between two calls of the host. `Regioned` also says that
  the model starts in a loaded page, so that a zero pc is never replaced by an address
  that means something else. Calls are then shown one by one to be those of `RVM`, with
  copies byte by byte (`CopyInExact`); the instruction is `IsaImplemented`'s, with the
  fetch of the trace in front of it.
- `NamesGuard`: the invariant follows the stream: as long as it is good, the
  header is the file's; when it is not, the table of sections reads as zeros and
  the exception of `std::string` refuses the file.
- `LoadsTheFile`: `LInv` follows the two loops. `Listed` relates the segments collected
  so far to the program headers passed, by the header each comes from; `Placed` says
  that the pages mapped so far are those of the segments given to `add_segment`, each
  with its bytes and rights. `add_segment` maps page by page and leaves pages that
  exist as they are, so `Placed` needs that no two segments share one; a file where two
  do is not `Acceptable`, and the exception of the second refuses it.
- `Status`: the invariant records what `main` has behind it at each step: which loop has
  run, and that nothing of a final state is written before `SaveState`.
- `UnknownRefused`: `UInv` says that the arguments that are left are a suffix of the
  line, unless help was asked for, and that every unknown option in front of it is
  excused, by a `--` somewhere before it or by an option right before it that takes a
  value and has none of its own, or in `missing`.
- `SpellingAndOrder`: a line is cut at the ends of its groups (`CutBy`), and each turn of
  the loop of `parse` takes exactly one piece of it, whichever of its spellings that is
  (`SpellingTaken`, `NextSpelling`). So `GInv` can say of the loop that it is at a cut
  (`At`) and has collected what the groups in front of it give each option
  (`Collected`). Behind the loop it carries what that amounts to for the whole line
  (`Done`), that no callback runs while help is asked for or something required is
  missing, and that the callbacks so far have bound what their own options' groups say
  (`Called`). The property alone speaks of the end of `parse` only.
- `PCRestored`: a file that was dumped, or what is left of one, parses and does not begin
  with the `@` of a file without a pc. Only one with a value for the pc and every
  register is taken (`TruncatedFiles`); if its last number lacks digits, that is a
  register's, never the pc.
- `RefusedIsHarmless` needs no invariant; it is there for all files.

**Decoder and listing** (`InstructionSet_proofs`). `NoOtherWords`, `RoundTrip` and
`LogReadsBack` follow from `Consistent`: the word is the encoding of its source, or any
word; what has been decoded is `Decode32` of it, and what is listed is the listing of
that.
- A word is made of six parts in exactly one way (`Packed`, `Unpacked`), and each field
  and each immediate of the decoder is a function of these parts (`Immediates`). With
  them `Decode32` is a function of the parts (`DecodedParts`).
- A scattered immediate has its pieces and is made of them (`Pieces`, `PiecesUnique`),
  so that those of branches and jumps can be taken apart and put together again.
- `RoundTrip` then goes format by format over the rows of the opcode map
  (`AssembledDecodes`). `NoOtherWords` goes by opcode: a word decodes to `Illegal` or
  to an instruction that is encoded as this word (`WordFaithful`), which the prover is
  shown for all 2^32 words. `LogReadsBack` needs in addition that no two
  registers share a name and that each format's operands identify its instruction.

**Arithmetic** (`InstructionSet_proofs`). `ALUComputesRV32I` compares integers with
sequences of bits, so its lemmas are inductions over the bits. No theorem of the
library with a predicate as its parameter can be cited here; instead a set of
counterexamples has a least member (`Smallest`), by the well-foundedness of `<`, and
`Inductive` is the induction over a set of numbers that follows.
- A word is known by its bits (`Whole`, `NumberOf`), and these do not depend on what is
  above the word (`BitOfTruncated`, `TruncatedIs`).
- The carry into bit k says that the sum of the low k bits does not fit them
  (`CarryMeans`), so the adder adds (`Adder`), with the complement it
  subtracts (`Borrowed`), and its last carry and the signs compare (`BelowMeans`).
- Shifts move bits (`ShiftedRight`, `ShiftedLeft`), and the sign fills them (`AboveWord`).
- `Computed` goes operation by operation, with what `read_reg`'s `uint64_t`, the casts
  to `int32_t` and the truncation of `write_reg` make of each operand.

**Decoder and ALU below the CPU** (`InstructionSet_proofs`). `CPU` is told the same
instruction in its own terms: four bytes instead of a word (`WordOfBytes`) and upper
immediates as they are added (`DecodedBytes`). `DecoderAndALUFit` instantiates
`Instructions` with them. That zeros decode to nothing (`ZerosIllegal`) is what
`CodeWasLoaded` rests on; that an instruction names one of 32 registers in each field
its format has is read off the formats (`DecodedInstructions`).

**Only model-checked.**
- Liveness (`CallsEnd`, `BoundedRunsEnd`, `ParsingEnds`), beyond the prover.
- The properties of the `violation` runs, which are false.

## Not modelled

- CLI11 beyond `parse`: help texts, configuration files, the environment,
  subcommands, option groups, containers, validators but `ExistingFile`. The
  program never runs them, so no use of the library in the program says
  what they should do. It is why the map covers a small share of all lines: 12216 of
  the 14670 are this header, and of the rest it covers most.
- The plugin's floating-point, vector and control registers, which are stubs,
  `logMessage`, which prints, and `getModelConfig`, which hands the configuration back.
- `dump`, `dump_segment` and `to_hex`, which only print; logging.
- The default case of `execute`, which the decoder never reaches.
- Segments that wrap the `uint32_t` sums of `add_segment` (`Loadable`).
- Crashes, lost messages and the like: there are no processes, no network and no
  state on disk but the state file, which is written once, at the end.

## Plan

All components are modelled as far as the program runs them. Every safety property of
a passing run is proved, and so is what the proofs about the CPU assume of the
instruction set. Liveness is left to TLC. A change of the code belongs into the module
that maps its lines, then into the runs, then into the proofs, in this order.
