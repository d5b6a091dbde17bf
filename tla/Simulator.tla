----------------------------- MODULE Simulator ------------------------------
(***************************************************************************)
(* Class Simulator (inc/simulator.hpp) as main.cpp drives it once the ELF  *)
(* file is loaded: a run of a given number of steps, a run until the       *)
(* program exits, or the debugger's prompt, whose commands step, look at   *)
(* memory and move the pc.                                                 *)
(*                                                                         *)
(* step() swallows the memory's and the decoder's exceptions, after which  *)
(* the pc still names the faulting instruction; an unknown system call     *)
(* goes through to main, which ends without writing the final state.       *)
(***************************************************************************)
EXTENDS CPU

CONSTANTS
  Steps,   \* the values of --steps; negative for a run without limit
  Counts   \* what the user steps by at the prompt

ASSUME SimulatorAssumption == Steps \subseteq Int /\ Counts \subseteq Int

VARIABLES
  mode,      \* which loop the simulator is in, "ended" or "aborted"
  left,      \* turns left in run(); negative is a size_t that never runs out
  asked,     \* history: the steps main was asked for
  retired    \* history: the instructions a run of main has completed

driver == <<mode, left, asked, retired>>

Boot ==
  /\ Init
  /\ retired = 0
  /\ \/ \E n \in Steps :
          /\ mode = IF n < 0 THEN "continuous" ELSE "run"
          /\ left = n
          /\ asked = n
     \/ mode = "prompt" /\ left = 0 /\ asked = 0

-----------------------------------------------------------------------------
InLoop ==
  \/ mode \in {"run", "stepping"} /\ left # 0
  \/ mode = "continuous" /\ running

\* Wrong: a step that throws does not count.
CountdownRetired == left' = IF left < 0 \/ thrown' # "none" THEN left ELSE left - 1

Countdown == left' = IF left < 0 THEN left ELSE left - 1

\* Wrong: step() does not look at is_running.
StepRegardless ==
  /\ InLoop
  /\ Execute \/ SystemCall
  /\ UNCHANGED asked
  /\ IF call' # NoCall THEN UNCHANGED <<mode, left, retired>>
     ELSE /\ Countdown
          /\ mode' = IF thrown' = "UnknownSyscall" THEN "aborted" ELSE mode
          /\ retired' = IF mode = "run" /\ thrown' = "none" THEN retired + 1 ELSE retired

\* Wrong: whatever is thrown goes through to main.
StepThrowing ==
  /\ InLoop /\ running
  /\ Execute \/ SystemCall
  /\ UNCHANGED asked
  /\ IF call' # NoCall THEN UNCHANGED <<mode, left, retired>>
     ELSE /\ Countdown
          /\ mode' = IF thrown' # "none" THEN "aborted" ELSE mode
          /\ retired' = IF mode = "run" /\ thrown' = "none" THEN retired + 1 ELSE retired

\* step(): what it catches ends the turn, nothing else.
Step ==
  /\ InLoop /\ running
  /\ Execute \/ SystemCall
  /\ UNCHANGED asked
  /\ IF call' # NoCall THEN UNCHANGED <<mode, left, retired>>
     ELSE /\ Countdown
          /\ mode' = IF thrown' = "UnknownSyscall" THEN "aborted" ELSE mode
          /\ retired' = IF mode = "run" /\ thrown' = "none" THEN retired + 1 ELSE retired

\* "no program is running"
IdleStep ==
  /\ InLoop /\ ~ running
  /\ UNCHANGED <<vars, mode, asked, retired>>
  /\ Countdown

LoopEnds ==
  /\ ~ InLoop /\ mode \in {"run", "continuous", "stepping"}
  /\ mode' = IF mode = "stepping" /\ running THEN "prompt" ELSE "ended"
  /\ UNCHANGED <<vars, left, asked, retired>>

-----------------------------------------------------------------------------
(***************************************************************************)
(* Commands of interactive_mode; "r" and "h" only print.                   *)
(***************************************************************************)
\* s n, the int n becoming a size_t.
CommandStep(n) ==
  /\ mode = "prompt"
  /\ mode' = "stepping"
  /\ left' = n
  /\ UNCHANGED <<vars, asked, retired>>

\* s with what is not an int: stoi throws, nobody catches it before main.
CommandBadStep ==
  /\ mode = "prompt"
  /\ mode' = "aborted"
  /\ UNCHANGED <<vars, left, asked, retired>>

\* m addr reads two words; the second only when the first does not throw.
CommandMemory(addr) ==
  LET first  == GetSeg(segments, "read32", addr)
      second == GetSeg(first, "read32", U32(addr + 4))
  IN /\ mode = "prompt"
     /\ segments' = IF OutcomeIn(first, "read32", addr) = "ok" THEN second ELSE first
     /\ UNCHANGED <<machine, thrown, call, host, loaded, driver>>

\* p addr
CommandPC(addr) ==
  /\ mode = "prompt"
  /\ SetPC(addr)
  /\ UNCHANGED driver

\* q, or the end of the input
CommandQuit ==
  /\ mode = "prompt"
  /\ mode' = "ended"
  /\ UNCHANGED <<vars, left, asked, retired>>

Over == mode \in {"ended", "aborted"} /\ UNCHANGED <<vars, driver>>

Loop == Step \/ IdleStep \/ LoopEnds

Command ==
  \/ \E n \in Counts : CommandStep(n)
  \/ CommandBadStep
  \/ \E addr \in Addr : CommandMemory(U32(addr)) \/ CommandPC(U32(addr))
  \/ CommandQuit

Drive == Loop \/ Command \/ Over

simVars == <<vars, driver>>

\* The simulator is one thread: a loop that can take a turn takes it.  The user
\* may leave the prompt waiting for ever.
SimulatorSpec == Boot /\ [][Drive]_simVars /\ WF_simVars(Loop)

-----------------------------------------------------------------------------
\* A program that has exited stays exactly as it was, whatever steps were asked
\* for beyond its end: the final state that main writes is that of the exit.
ExitIsFinal ==
  [][~ running => UNCHANGED <<machine, segments, host>>]_simVars

\* A run of a given number of steps ends, though the program loops, faults for
\* ever or waits in a system call, and so does a step command of the debugger.
BoundedRunsEnd ==
  (mode \in {"run", "stepping"} /\ left >= 0) ~> mode \in {"prompt", "ended", "aborted"}

\* A run without limit ends when the program exits or makes an unknown call.  A
\* fault does not end it: the instruction at fault is tried again for ever.  (A
\* system call at fault is begun again, and the host may end it otherwise.)
FaultsHoldUnlimitedRuns ==
  [][/\ mode = "continuous"
     /\ \/ thrown' \notin {"none", "UnknownSyscall"}
        \/ thrown # "none" /\ (Fetch = "ok" => Instr.type # "ECALL")
     => UNCHANGED <<machine, mode>>]_simVars

-----------------------------------------------------------------------------
\* README.md on --steps: "Number of instructions to execute before stopping."
StepsAreInstructions ==
  mode = "ended" /\ running /\ asked > 0 => retired = asked
=============================================================================
