------------------------------- MODULE MEM32 --------------------------------
(***************************************************************************)
(* Class MEM32 (inc/memory.hpp) as a state machine.  Its clients are the   *)
(* loader (add_segment), the CPU and the system calls (all accessors), the *)
(* debugger's "m" command (read32) and the Snippy plugin (read8, write8,   *)
(* read_instr32); any of them may call at any time.                        *)
(***************************************************************************)
EXTENDS SegmentTable

VARIABLES
  segments,   \* segments_: tag -> page
  reply,      \* what the last call returned or threw
  loaded      \* history: the tags mapped by add_segment

vars == <<segments, reply, loaded>>

Init ==
  /\ segments = [t \in {} |-> {}]
  /\ reply = Done
  /\ loaded = {}

(***************************************************************************)
(* Accessors.  The page created by get_seg stays, whatever is thrown.      *)
(***************************************************************************)
Load(op, addr) ==
  LET segs == GetSeg(segments, op, addr)
      res  == OutcomeIn(segs, op, addr)
  IN /\ segments' = segs
     /\ reply' = IF res = "ok" THEN Loaded(ValueAt(segs, op, addr)) ELSE Fault(res)
     /\ UNCHANGED loaded

\* Wrong: the bytes are stored before the offset is tested.
StoreThenTest(op, addr, val) ==
  LET segs == GetSeg(segments, op, addr)
      res  == OutcomeIn(segs, op, addr)
  IN /\ segments' = IF res = "AccessFault" THEN segs ELSE Written(segs, op, addr, val)
     /\ reply' = [outcome |-> res, value |-> <<>>]
     /\ UNCHANGED loaded

Store(op, addr, val) ==
  LET segs == GetSeg(segments, op, addr)
      res  == OutcomeIn(segs, op, addr)
  IN /\ segments' = IF res = "ok" THEN Written(segs, op, addr, val) ELSE segs
     /\ reply' = [outcome |-> res, value |-> <<>>]
     /\ UNCHANGED loaded

Read8(addr)       == Load("read8", addr)
Read16(addr)      == Load("read16", addr)
Read32(addr)      == Load("read32", addr)
ReadInstr32(addr) == Load("read_instr32", addr)
Write8(addr, w)   == Store("write8", addr, Low(w, 1))
Write16(addr, w)  == Store("write16", addr, Low(w, 2))
Write32(addr, w)  == Store("write32", addr, Low(w, 4))

AddSegment(s) ==
  LET g == Aligned(s)
  IN /\ segments' = WithSegment(segments, g)
     /\ loaded' = loaded \cup Mappable(segments, g)
     /\ reply' = IF Overlaps(segments, g) THEN Fault("SegmentOverlap") ELSE Done

Next ==
  \/ \E a \in Addr : Read8(a) \/ Read16(a) \/ Read32(a) \/ ReadInstr32(a)
  \/ \E a \in Addr, w \in Word : Write8(a, w) \/ Write16(a, w) \/ Write32(a, w)
  \/ \E s \in SegmentInfos : AddSegment(s)

Spec == Init /\ [][Next]_vars

-----------------------------------------------------------------------------
\* The table maps tags to whole pages; loaded pages are mapped pages.
TypeOK ==
  /\ DOMAIN segments \subseteq Nat
  /\ segments \in [DOMAIN segments -> Page]
  /\ loaded \subseteq DOMAIN segments
  /\ reply \in Reply

(***************************************************************************)
(* The flat array of bytes a client sees through the page table.           *)
(***************************************************************************)
FlatBytes == BytesOf(segments)

FlatRights == [t \in DOMAIN segments |-> segments[t].rights]

Flat == INSTANCE FlatMemory WITH bytes <- FlatBytes, rights <- FlatRights

\* Every answer of MEM32, for every width, is the answer of one flat array of
\* bytes: loads return the last bytes stored at their addresses, by stores of
\* any width or by the loader, whenever their pages came to be mapped.
ImplementsFlatMemory == Flat!Spec

\* A page is never unmapped and never changes its rights: not by get_seg, which
\* creates pages, and not by an add_segment that runs into pages already there.
RightsAreForever ==
  [][\A t \in DOMAIN segments :
       t \in DOMAIN segments' /\ segments'[t].rights = segments[t].rights]_vars

\* A page nobody may write keeps its contents, whatever stores to its
\* neighbours, faults and failed loads happen: code stays what was loaded.
ReadOnlyPagesAreConstant ==
  [][\A t \in DOMAIN segments : "w" \notin segments[t].rights =>
       t \in DOMAIN segments' /\ segments'[t].data = segments[t].data]_vars

\* An accessor that throws stores nothing: neither a byte of the straddling
\* value nor anything in the page that get_seg created for it.
FaultsStoreNothing ==
  [][reply'.outcome \in AccessFaults => FlatBytes' = FlatBytes]_vars

\* A page created by its first access serves only that kind of access: what a
\* program stores in a page no segment maps can never be loaded back.
LazyPagesAreOneWay ==
  \A t \in DOMAIN segments \ loaded :
    "r" \in segments[t].rights => segments[t].data = [i \in InPage |-> Zero]

-----------------------------------------------------------------------------
\* The message of class PageFault says "No segment mapped": a page that no
\* add_segment mapped stays unmapped, an access to it being refused.
OnlyLoadedPagesAreMapped == DOMAIN segments \subseteq loaded
=============================================================================
