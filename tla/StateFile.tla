----------------------------- MODULE StateFile ------------------------------
(***************************************************************************)
(* The state files of options -i and -f: load_initial_state and            *)
(* dump_cpu_state (inc/simulator.hpp), in the order main.cpp calls them.   *)
(* A session starts with the entry point in pc and zeros in the registers, *)
(* may load the file, runs, and may write the file that the next session   *)
(* finds.  Between sessions a user may leave any file there.               *)
(*                                                                         *)
(* A file is a sequence of tokens: values as stoul returns them, "@", and  *)
(* words stoul throws at.  What the program does between load and dump is  *)
(* the business of module CPU; here it leaves any pc and any registers.    *)
(***************************************************************************)
EXTENDS Integers, Sequences

CONSTANTS
  Registers,   \* 32 in the code
  Base,        \* 16: numbers are written in hexadecimal,
  Digits,      \* with all of their 8 digits
  WordSpace,   \* 2^32 in the code
  Entry,       \* e_entry of the ELF file
  At,          \* the token "@"
  Junk,        \* a token stoul throws at
  UserFiles    \* what users write

Index == 0 .. Registers - 1
Words == 0 .. WordSpace - 1

ASSUME StateFileAssumption ==
  /\ Registers \in Nat \ {0} /\ WordSpace \in Nat \ {0} /\ Entry \in Words
  /\ Base \in Nat \ {0} /\ Digits \in Nat /\ WordSpace = Base ^ Digits
  /\ At \notin Nat
  /\ \A f \in UserFiles : f \in Seq(Nat \cup {At, Junk})

VARIABLES
  phase,      \* "loaded" the ELF file, "ready" to run, "ran", "over"
  pc, regs,
  file,       \* the tokens of the state file
  dumped      \* history: the state the file was dumped from, if it was

vars == <<phase, pc, regs, file, dumped>>

ByUser == [pc |-> -1, regs |-> <<>>]

Fresh == [i \in Index |-> 0]

Init ==
  /\ phase = "loaded"
  /\ pc = Entry /\ regs = Fresh
  /\ file \in UserFiles
  /\ dumped = ByUser

-----------------------------------------------------------------------------
KeepsPC(f) == f # <<>> /\ f[1] = At

\* An "@" is no value anywhere but in the first place.
Parses(f) == \A k \in DOMAIN f : f[k] \in Nat \/ (k = 1 /\ f[k] = At)

Accepted(f) == Parses(f) /\ Len(f) >= Registers + 1

\* The vector the tokens are pushed to; it is indexed from zero.
Values(f) == IF KeepsPC(f) THEN Tail(f) ELSE f

Value(f, i) == Values(f)[i + 1] % WordSpace

\* write_reg drops what the file has for x0.
FileRegs(f) == [i \in Index |-> IF i = 0 THEN 0 ELSE Value(f, i)]

\* Wrong: the pc is set before the file is known to have a value for each
\* register.
LoadInitialStateEagerly ==
  /\ phase = "loaded"
  /\ phase' = IF Accepted(file) THEN "ready" ELSE "over"
  /\ pc' = IF Parses(file) /\ ~ KeepsPC(file) /\ file # <<>> THEN Value(file, 0) ELSE pc
  /\ regs' = IF Accepted(file) THEN FileRegs(file) ELSE regs
  /\ UNCHANGED <<file, dumped>>

\* A file that is refused ends the session.
LoadInitialState ==
  /\ phase = "loaded"
  /\ phase' = IF Accepted(file) THEN "ready" ELSE "over"
  /\ pc' = IF Accepted(file) /\ ~ KeepsPC(file) THEN Value(file, 0) ELSE pc
  /\ regs' = IF Accepted(file) THEN FileRegs(file) ELSE regs
  /\ UNCHANGED <<file, dumped>>

\* Without option -i.
SkipInitialState ==
  /\ phase = "loaded"
  /\ phase' = "ready"
  /\ UNCHANGED <<pc, regs, file, dumped>>

Run ==
  /\ phase = "ready"
  /\ phase' = "ran"
  /\ pc' \in Words
  /\ regs' \in {f \in [Index -> Words] : f[0] = 0}
  /\ UNCHANGED <<file, dumped>>

\* Wrong: the file starts with the registers.
FileOfRegistersFirst(s) ==
  [k \in 1 .. Registers + 1 |-> IF k > Registers THEN s.pc ELSE s.regs[k - 1]]

\* What a state is dumped as.
FileOf(s) == [k \in 1 .. Registers + 1 |-> IF k = 1 THEN s.pc ELSE s.regs[k - 2]]

\* What is left of a file that is not written to its end, for want of space say:
\* its first tokens, the last of them with digits missing.
Truncations(f) ==
  {SubSeq(f, 1, n) : n \in 0 .. Len(f)} \cup
  {[SubSeq(f, 1, n) EXCEPT ![n] = @ \div Base ^ k] : n \in 1 .. Len(f), k \in 1 .. Digits}

\* Nobody asks the stream whether its writes went well.
DumpCPUState ==
  /\ phase = "ran"
  /\ phase' = "over"
  /\ dumped' = [pc |-> pc, regs |-> regs]
  /\ file' \in Truncations(FileOf(dumped'))
  /\ UNCHANGED <<pc, regs>>

\* Without option -f, when the file cannot be opened, or when the run was aborted.
SkipFinalState ==
  /\ phase = "ran"
  /\ phase' = "over"
  /\ UNCHANGED <<pc, regs, file, dumped>>

NewSession ==
  /\ phase = "over"
  /\ phase' = "loaded"
  /\ pc' = Entry /\ regs' = Fresh
  /\ \/ UNCHANGED <<file, dumped>>
     \/ file' \in UserFiles /\ dumped' = ByUser

Next ==
  \/ LoadInitialState \/ SkipInitialState \/ Run
  \/ DumpCPUState \/ SkipFinalState \/ NewSession

Spec == Init /\ [][Next]_vars

-----------------------------------------------------------------------------
\* A file is taken whole or not at all: one with a word in it, a misplaced "@"
\* or too few values leaves the pc at the entry point and the registers zero.
RefusedFilesChangeNothing ==
  [][LoadInitialState /\ phase' = "over" => UNCHANGED <<pc, regs>>]_vars

\* The pc a session saves is where the next one starts when it loads the file.
\* A file that was saved whole is never refused; of one that was cut off, no
\* session ever starts at a pc that lacks digits.
DumpsRestoreThePC ==
  [][LoadInitialState /\ dumped # ByUser =>
       /\ phase' = "ready" => pc' = dumped.pc
       /\ file = FileOf(dumped) => phase' = "ready"]_vars

-----------------------------------------------------------------------------
\* README.md has -f save "PC followed by x0-x31" and -i "Load initial PC and
\* registers": a session that loads what the last one saved, all of it, goes on
\* from there.
DumpsRestoreTheRegisters ==
  [][LoadInitialState /\ dumped # ByUser /\ file = FileOf(dumped) => regs' = dumped.regs]_vars
=============================================================================
