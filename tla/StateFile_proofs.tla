-------------------------- MODULE StateFile_proofs --------------------------
(***************************************************************************)
(* DumpsRestoreThePC for every number of registers, every word size and    *)
(* every file a user may leave.                                            *)
(***************************************************************************)
EXTENDS StateFile, TLAPS

States == [pc : Words, regs : [Index -> Words]]

(***************************************************************************)
(* The inductive invariant: what a run leaves are words, and a file that    *)
(* was dumped is still a beginning of the file of the state it was dumped  *)
(* from.                                                                   *)
(***************************************************************************)
IInv ==
  /\ phase = "ran" => [pc |-> pc, regs |-> regs] \in States
  /\ dumped # ByUser => dumped \in States /\ file \in Truncations(FileOf(dumped))

LEMMA Constants ==
  Registers \in Nat \ {0} /\ WordSpace \in Nat \ {0} /\ At \notin Nat /\ 0 \in Words
BY StateFileAssumption DEF Words

LEMMA WordRemainder == ASSUME NEW w \in Words PROVE w % WordSpace = w
BY Constants DEF Words

LEMMA DumpedFile ==
  ASSUME NEW s \in States
  PROVE  /\ FileOf(s) \in Seq(Words) /\ Len(FileOf(s)) = Registers + 1
         /\ DOMAIN FileOf(s) = 1 .. Registers + 1
         /\ \A k \in 1 .. Registers + 1 : FileOf(s)[k] \in Words
         /\ FileOf(s)[1] = s.pc /\ s.pc \in Words
<1> DEFINE f == FileOf(s)
<1>1. s.pc \in Words /\ s.regs \in [Index -> Words]
  BY DEF States
<1>2. \A k \in 1 .. Registers + 1 : f[k] \in Words
  <2>1. SUFFICES ASSUME NEW k \in 1 .. Registers + 1, k # 1
                 PROVE  s.regs[k - 2] \in Words
    BY <1>1 DEF FileOf
  <2>2. k - 2 \in Index
    BY <2>1, Constants DEF Index
  <2> QED
    BY <1>1, <2>2
<1>3. f \in Seq(Words) /\ Len(f) = Registers + 1 /\ DOMAIN f = 1 .. Registers + 1
  BY <1>2, Constants DEF FileOf
<1>4. f[1] = s.pc
  BY Constants DEF FileOf
<1> QED
  BY <1>1, <1>2, <1>3, <1>4

\* A file that starts with a word keeps no pc and has that word for it.
LEMMA StartsWithThePC ==
  ASSUME NEW f, NEW w \in Words, f # <<>>, f[1] = w
  PROVE  ~ KeepsPC(f) /\ Value(f, 0) = w
<1>1. w # At
  BY Constants DEF Words
<1>2. ~ KeepsPC(f)
  BY <1>1 DEF KeepsPC
<1> QED
  BY <1>2, WordRemainder DEF Value, Values

LEMMA TruncationFacts ==
  ASSUME NEW f, Len(f) \in Nat, NEW g \in Truncations(f)
  PROVE  \E n \in 0 .. Len(f) :
           \/ g = SubSeq(f, 1, n)
           \/ n >= 1 /\ \E v : g = [SubSeq(f, 1, n) EXCEPT ![n] = v]
<1> DEFINE short == {SubSeq(f, 1, n) : n \in 0 .. Len(f)}
           cut   == {[SubSeq(f, 1, n) EXCEPT ![n] = @ \div Base ^ k] :
                     n \in 1 .. Len(f), k \in 1 .. Digits}
<1>1. CASE g \in short
  BY <1>1
<1>2. ASSUME NEW n \in 1 .. Len(f), NEW k \in 1 .. Digits,
             g = [SubSeq(f, 1, n) EXCEPT ![n] = @ \div Base ^ k]
      PROVE  \E v : g = [SubSeq(f, 1, n) EXCEPT ![n] = v]
  BY <1>2, Zenon
<1>3. \A n \in 1 .. Len(f) : n \in 0 .. Len(f) /\ n >= 1
  OBVIOUS
<1>4. CASE g \in cut
  <2>1. PICK n \in 1 .. Len(f), k \in 1 .. Digits :
          g = [SubSeq(f, 1, n) EXCEPT ![n] = @ \div Base ^ k]
    BY <1>4
  <2> QED
    BY <1>2, <1>3, <2>1, Zenon
<1>5. g \in short \/ g \in cut
  BY DEF Truncations
<1> QED
  BY <1>1, <1>4, <1>5

\* Of what may be left of a dumped file, only what has every token is taken;
\* there is a register behind the pc, so no digit of the pc is missing there.
LEMMA TruncatedFiles ==
  ASSUME NEW s \in States, NEW g \in Truncations(FileOf(s)), Len(g) >= Registers + 1
  PROVE  g # <<>> /\ g[1] = s.pc
<1> DEFINE f == FileOf(s)
<1>1. f \in Seq(Words) /\ Len(f) = Registers + 1 /\ f[1] = s.pc
  BY DumpedFile
<1> HIDE DEF f
<1>2. PICK n \in 0 .. Len(f) :
        \/ g = SubSeq(f, 1, n)
        \/ n >= 1 /\ \E v : g = [SubSeq(f, 1, n) EXCEPT ![n] = v]
  <2>1. g \in Truncations(f)
    BY DEF f
  <2>2. Len(f) \in Nat
    BY <1>1, Constants
  <2> QED
    BY <2>1, <2>2, TruncationFacts
<1>3. /\ SubSeq(f, 1, n) \in Seq(Words) /\ Len(SubSeq(f, 1, n)) = n
      /\ DOMAIN SubSeq(f, 1, n) = 1 .. n /\ n \in Nat
      /\ n >= 1 => SubSeq(f, 1, n)[1] = f[1]
  BY <1>1, Constants
<1>4. Len(g) = n /\ DOMAIN g = 1 .. n
  BY <1>2, <1>3
<1>5. n = Registers + 1 /\ n > 1
  BY <1>1, <1>4, Constants
<1>6. g[1] = f[1]
  <2>1. CASE g = SubSeq(f, 1, n)
    <3>1. n >= 1
      BY <1>3, <1>5
    <3> QED
      BY <1>3, <2>1, <3>1, Zenon
  <2>2. ASSUME NEW v, g = [SubSeq(f, 1, n) EXCEPT ![n] = v]
        PROVE  g[1] = f[1]
    <3>1. 1 \in DOMAIN SubSeq(f, 1, n) /\ n # 1 /\ n >= 1
      BY <1>3, <1>5
    <3> QED
      BY <1>3, <2>2, <3>1, Zenon
  <2> QED
    BY <1>2, <2>1, <2>2, Zenon
<1> QED
  BY <1>1, <1>4, <1>5, <1>6

\* A file that was dumped whole is taken.
LEMMA WholeFiles ==
  ASSUME NEW s \in States
  PROVE  Accepted(FileOf(s))
<1>1. Words \subseteq Nat
  BY Constants DEF Words
<1>2. Parses(FileOf(s))
  BY <1>1, DumpedFile DEF Parses
<1> QED
  BY <1>2, DumpedFile, Constants DEF Accepted

LEMMA InitIInv == Init => IInv
BY DEF Init, IInv

LEMMA StepIInv == IInv /\ [Next]_vars => IInv'
<1> SUFFICES ASSUME IInv, [Next]_vars PROVE IInv'
  OBVIOUS
<1> USE DEF IInv
<1>1. CASE LoadInitialState
  BY <1>1 DEF LoadInitialState
<1>2. CASE SkipInitialState
  BY <1>2 DEF SkipInitialState
<1>3. CASE Run
  BY <1>3 DEF Run, States
<1>4. CASE DumpCPUState
  BY <1>4 DEF DumpCPUState
<1>5. CASE SkipFinalState
  BY <1>5 DEF SkipFinalState
<1>6. CASE NewSession
  BY <1>6 DEF NewSession
<1>7. CASE UNCHANGED vars
  BY <1>7 DEF vars
<1> QED
  BY <1>1, <1>2, <1>3, <1>4, <1>5, <1>6, <1>7 DEF Next

LEMMA StepRestores ==
  ASSUME IInv, LoadInitialState, dumped # ByUser
  PROVE  /\ phase' = "ready" => pc' = dumped.pc
         /\ file = FileOf(dumped) => phase' = "ready"
<1>1. dumped \in States /\ file \in Truncations(FileOf(dumped))
  BY DEF IInv
<1>2. phase' = "ready" <=> Accepted(file)
  BY DEF LoadInitialState
<1>3. ASSUME Accepted(file) PROVE pc' = dumped.pc
  <2>1. file # <<>> /\ file[1] = dumped.pc /\ dumped.pc \in Words
    BY <1>1, <1>3, TruncatedFiles, DumpedFile DEF Accepted
  <2> QED
    BY <1>3, <2>1, StartsWithThePC DEF LoadInitialState
<1> QED
  BY <1>1, <1>2, <1>3, WholeFiles

\* A session that loads the file the last one saved starts at the pc it saved.
\* A file that was saved whole is never refused, and one that was cut off never
\* starts a session at part of a pc, for every number of registers and whatever
\* was run, skipped or left in the file before.
THEOREM PCRestored == Spec => DumpsRestoreThePC
<1>1. Spec => []IInv
  BY InitIInv, StepIInv, PTL DEF Spec
<1>2. IInv => [LoadInitialState /\ dumped # ByUser =>
                 /\ phase' = "ready" => pc' = dumped.pc
                 /\ file = FileOf(dumped) => phase' = "ready"]_vars
  BY StepRestores
<1> QED
  BY <1>1, <1>2, PTL DEF DumpsRestoreThePC

-----------------------------------------------------------------------------
\* A file with a misplaced "@", with a word that is no number or with too few
\* values changes no register and not the pc, however much of it could have
\* been taken: parse_state_file has thrown before load_initial_state assigns.
THEOREM RefusedIsHarmless == Spec => RefusedFilesChangeNothing
<1>1. [Next]_vars => [LoadInitialState /\ phase' = "over" => UNCHANGED <<pc, regs>>]_vars
  BY DEF LoadInitialState
<1> QED
  BY <1>1, PTL DEF Spec, RefusedFilesChangeNothing
=============================================================================
