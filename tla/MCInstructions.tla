--------------------------- MODULE MCInstructions ---------------------------
(***************************************************************************)
(* An instruction on its own: its word, its listing and its arithmetic.    *)
(* The decoder and the ALU share no state, so that a behaviour is a step   *)
(* of the one or of the other.                                             *)
(*                                                                         *)
(* Registers are every name at both ends of its range, and all bits clear, *)
(* set and alternating; immediates are both ends of their ranges, values   *)
(* around zero and single bits.                                            *)
(***************************************************************************)
EXTENDS Disassembly, ALUReference

MCRegs  == {0, 1, 5, 8, 9, 10, 17, 18, 21, 28, 31}
MCImm12 == {-2048, -1366, -1, 0, 32, 1365, 2047}
MCImm13 == {2 * n : n \in MCImm12}
MCImm20 == {-524288, -349526, -1, 0, 1, 74565, 524287}
MCImm21 == {2 * n : n \in MCImm20} \cup {1024, 2048, 4096}

\* Every opcode, each with every funct3, some funct7 and some registers.
MCWords ==
  {WordOf(op, d, f3, s1, s2, f7) :
     op \in {Map[t].op : t \in Types} \cup {0, 7, 127}, d \in {0, 21}, f3 \in 0 .. 7,
     s1 \in {0, 10}, s2 \in {0, 1, 31}, f7 \in {0, 1, 32, 33, -64, -1}}

\* Nothing to decode, and nothing to compute.
NoWord == source = Unknown /\ word = 0 /\ instr = Unknown

NoOperation == type = "none" /\ x = 0 /\ y = 0 /\ result = -1

MCInit ==
  /\ listing = <<>>
  /\ (Init /\ NoOperation) \/ (ALUInit /\ NoWord)

MCNext ==
  \/ type = "none" /\ FetchAndDecode /\ UNCHANGED aluVars
  \/ type # "none" /\ Compute /\ UNCHANGED <<vars, listing>>

MCSpec == MCInit /\ [][MCNext]_<<vars, listing, aluVars>>
=============================================================================
