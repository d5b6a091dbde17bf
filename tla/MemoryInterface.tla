-------------------------- MODULE MemoryInterface --------------------------
(***************************************************************************)
(* What a client of the simulator's memory sees: the accesses of class     *)
(* IMEM (inc/memory.hpp), the segments a loader hands to add_segment, and  *)
(* the answers.  Shared by the page table of MEM32 and by the flat memory  *)
(* that it implements.                                                     *)
(*                                                                         *)
(* The sizes are scaled: in the code Byte is 0..255, PageSize is 0x1000,   *)
(* PageCount is 2^20, so that AddrSpace is 2^32.  Addresses reach the      *)
(* memory as uint64_t: Addr may go beyond AddrSpace, as the sum of a       *)
(* 32-bit register and a sign-extended immediate does.                     *)
(***************************************************************************)
EXTENDS Integers, Sequences

CONSTANTS
  Byte,          \* the values of a uint8_t
  Zero,          \* the byte 0
  PageSize,      \* alignment_, bytes in a page
  PageCount,     \* pages a 32-bit address can name
  Addr,          \* 64-bit addresses clients use
  Word,          \* 32-bit values clients store, little-endian: 0..3 -> Byte
  SegmentInfos   \* segments loaders add

AddrSpace == PageSize * PageCount
Space     == 0 .. AddrSpace - 1
InPage    == 0 .. PageSize - 1

\* static_cast<uint32_t>
U32(n) == n % AddrSpace

Right == {"r", "w", "x"}

\* Parser::SegmentInfo; filesz is never read after the parser has set it.
SegmentInfo ==
  [vaddr : Space, memsz : Nat, data : Seq(Byte), rights : SUBSET Right]

(***************************************************************************)
(* A segment this close to 2^32 bytes would wrap the uint32_t arithmetic   *)
(* of add_segment; the bound is far above what a host can hold.            *)
(***************************************************************************)
Loadable(s) == s.memsz + 2 * PageSize <= AddrSpace

ASSUME MemoryAssumption ==
  /\ Zero \in Byte
  /\ PageSize \in Nat /\ PageSize >= 4
  /\ PageCount \in Nat \ {0}
  /\ Addr \subseteq Nat
  /\ Word \subseteq [0 .. 3 -> Byte]
  /\ SegmentInfos \subseteq SegmentInfo
  /\ \A s \in SegmentInfos : Loadable(s)

Reads  == {"read8", "read16", "read32", "read_instr32"}
Writes == {"write8", "write16", "write32"}

Width(op) ==
  CASE op \in {"read8", "write8"}   -> 1
    [] op \in {"read16", "write16"} -> 2
    [] OTHER                        -> 4

\* The (r, w, x) arguments each accessor passes to get_seg.
Need(op) ==
  CASE op \in Writes       -> {"w"}
    [] op = "read_instr32" -> {"r", "x"}
    [] OTHER               -> {"r"}

\* A store of fewer than four bytes keeps the low bytes of the register.
Low(word, n) == [i \in 0 .. n - 1 |-> word[i]]

Done        == [outcome |-> "ok", value |-> <<>>]
Loaded(val) == [outcome |-> "ok", value |-> val]
Fault(kind) == [outcome |-> kind, value |-> <<>>]

AccessFaults == {"AccessFault", "BoundaryFault"}

Reply ==
  {Done} \cup {Fault(k) : k \in AccessFaults \cup {"SegmentOverlap"}}
    \cup {Loaded(val) : val \in UNION {[0 .. n - 1 -> Byte] : n \in {1, 2, 4}}}
=============================================================================
