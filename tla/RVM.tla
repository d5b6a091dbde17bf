-------------------------------- MODULE RVM ---------------------------------
(***************************************************************************)
(* The model behind the interface of snippy-plugin/RVM.hpp, as a host sees *)
(* it: the RV32I machine of ISA, which the host executes one instruction   *)
(* at a time and whose pc, registers and bytes it reads and sets between   *)
(* two instructions.  Every call leaves its exchange in talk.              *)
(*                                                                         *)
(* Two things the interface does not say are part of the promise.  The pc  *)
(* zero means the place where the model starts, whoever put it there.  And *)
(* an exception may leave a copy half-way: the call has not returned.      *)
(***************************************************************************)
EXTENDS ISA

CONSTANTS
  Values,      \* the values it gives registers
  HostData,    \* what it writes to memory
  HostCounts,  \* how many bytes it reads
  HostRegisters,   \* the register numbers it uses
  Tracing      \* instruction_trace_enabled()

VARIABLES
  start,   \* what the pc zero stands for; none when there is no model
  job,     \* an executeInstr in progress, and the line it will print
  talk     \* the last call of the host and its answer

rvmvars == <<vars, start, job, talk>>

NoModel == -1

Idle == [on |-> FALSE, line |-> <<>>]

\* A call: its name, the address or register it is about, and its data; then
\* how it ended, with which result, and what it printed.
Exchange(op, at, data, outcome, value, line) ==
  [op |-> op, at |-> at, data |-> data, outcome |-> outcome, value |-> value,
   line |-> line]

Returned(op, at, data, value) == Exchange(op, at, data, "returned", value, <<>>)

Unanswered == Returned("none", 0, <<>>, <<>>)

\* Register numbers beyond the file: the first names the pc.
PCReg == 32

Ready == start # NoModel /\ ~ job.on

At(addr) == IF addr = 0 THEN start ELSE addr

-----------------------------------------------------------------------------
RVMInit ==
  /\ Init
  /\ start = NoModel
  /\ job = Idle
  /\ talk = Unanswered

Fresh ==
  /\ pc' \in Space
  /\ regs' = [r \in RegIdx |-> 0]
  /\ bytes' = [b \in Space |-> 0]
  /\ running' = TRUE /\ busy' = FALSE

ModelCreate ==
  /\ start = NoModel
  /\ \/ /\ talk' = Returned("modelCreate", 0, <<>>, <<1>>)
        /\ Fresh /\ start' \in Space
     \/ /\ talk' = Returned("modelCreate", 0, <<>>, <<0>>)
        /\ UNCHANGED <<vars, start>>
  /\ UNCHANGED job

ModelDestroy ==
  /\ Ready
  /\ talk' = Returned("modelDestroy", 0, <<>>, <<>>)
  /\ Fresh /\ start' = NoModel
  /\ UNCHANGED job

\* What the calls answer when they are handed no model.
WithoutModel ==
  [executeInstr |-> <<1>>, readPC |-> <<0>>, setPC |-> <<>>, readXReg |-> <<0>>,
   setXReg |-> <<>>, readMem |-> <<>>, writeMem |-> <<>>]

CallInVain ==
  /\ start = NoModel
  /\ \E op \in DOMAIN WithoutModel : talk' = Returned(op, 0, <<>>, WithoutModel[op])
  /\ UNCHANGED <<vars, start, job>>

\* The line of the trace: where the instruction is, and its word as it is
\* before the instruction is executed.
Enter ==
  /\ Ready
  /\ pc' = At(pc)
  /\ job' = [on |-> TRUE, line |-> IF Tracing THEN <<At(pc), Full(Load(At(pc)))>> ELSE <<>>]
  /\ talk' = Unanswered
  /\ UNCHANGED <<regs, bytes, running, busy, start>>

Work ==
  /\ job.on
  /\ LET i == Decode(Load(pc)) IN Call(i) \/ (Progress /\ busy')
  /\ UNCHANGED <<start, job, talk>>

\* The instruction has retired: the call returns 0 and prints its line.
Complete ==
  /\ job.on
  /\ job' = Idle
  /\ talk' = Exchange("executeInstr", 0, <<>>, "returned", <<0>>, job.line)
  /\ LET i == Decode(Load(pc)) IN Retire(i) \/ Exit(i) \/ Return(i)
  /\ UNCHANGED start

\* It has not: the call returns 1 and prints nothing.
Fail ==
  /\ job' = Idle
  /\ talk' = Returned("executeInstr", 0, <<>>, <<1>>)
  /\ \/ Ready /\ pc' = At(pc) /\ UNCHANGED <<regs, bytes, running, busy>>
     \/ job.on /\ ~ busy /\ UNCHANGED vars
     \/ job.on /\ busy /\ Progress /\ ~ busy'
  /\ UNCHANGED start

-----------------------------------------------------------------------------
MovePC(addr) ==
  /\ Ready
  /\ talk' = Returned("setPC", addr, <<>>, <<>>)
  /\ pc' = U32(At(addr))
  /\ UNCHANGED <<regs, bytes, running, busy, start, job>>

\* Zero in the pc now, before a setPC that may not come.
Notify ==
  /\ Ready
  /\ talk' = Returned("notifyExecutionModeBeforeSetPc", 0, <<>>, <<>>)
  /\ pc' = At(pc)
  /\ UNCHANGED <<regs, bytes, running, busy, start, job>>

SetXReg(r, v) ==
  /\ Ready
  /\ talk' = Returned("setXReg", r, <<v>>, <<>>)
  /\ IF r = PCReg THEN pc' = U32(At(v)) /\ UNCHANGED regs
     ELSE /\ regs' = IF r \in RegIdx THEN Register(r, v) ELSE regs
          /\ UNCHANGED pc
  /\ UNCHANGED <<bytes, running, busy, start, job>>

\* n bytes of data from addr on; fewer when the copy is not finished.
WriteMem(addr, data, n) ==
  /\ Ready
  /\ talk' = Exchange("writeMem", addr, data,
                      IF n = Len(data) THEN "returned" ELSE "escaped", <<>>, <<>>)
  /\ bytes' = [b \in Space |-> IF U32(b - addr) < n THEN data[U32(b - addr) + 1] ELSE bytes[b]]
  /\ UNCHANGED <<pc, regs, running, busy, start, job>>

ReadMem(addr, count, n) ==
  /\ Ready
  /\ talk' = Exchange("readMem", addr, <<count>>,
                      IF n = count THEN "returned" ELSE "escaped",
                      [i \in 1 .. n |-> bytes[U32(addr + i - 1)]], <<>>)
  /\ UNCHANGED <<vars, start, job>>

ReadPC ==
  /\ Ready
  /\ talk' = Returned("readPC", 0, <<>>, <<pc>>)
  /\ UNCHANGED <<vars, start, job>>

ReadXReg(r) ==
  /\ Ready
  /\ talk' = Returned("readXReg", r, <<>>,
                      <<IF r = PCReg THEN pc ELSE IF r \in RegIdx THEN regs[r] ELSE 0>>)
  /\ UNCHANGED <<vars, start, job>>

-----------------------------------------------------------------------------
Host ==
  \/ ModelCreate \/ ModelDestroy \/ CallInVain
  \/ Notify \/ ReadPC
  \/ \E addr \in Addr : MovePC(addr)
  \/ \E r \in HostRegisters : ReadXReg(r) \/ \E v \in Values : SetXReg(r, v)
  \/ \E addr \in Addr, d \in HostData : \E n \in 0 .. Len(d) : WriteMem(addr, d, n)
  \/ \E addr \in Addr, c \in HostCounts : \E n \in 0 .. c : ReadMem(addr, c, n)

RVMNext == Enter \/ Work \/ Complete \/ Fail \/ Host

RVMSpec == RVMInit /\ [][RVMNext]_rvmvars
=============================================================================
