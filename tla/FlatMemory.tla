---------------------------- MODULE FlatMemory -----------------------------
(***************************************************************************)
(* What MEM32 promises to the CPU, the debugger and the loaders: one flat  *)
(* array of bytes, and a set of rights for each page that was ever named.  *)
(* There is no page table, no lazily filled storage and no offset          *)
(* arithmetic here.  An access is refused when its page lacks a right it   *)
(* needs, or when its bytes do not lie in one page; a page nobody has      *)
(* named yet is granted exactly the rights its first access needs.         *)
(***************************************************************************)
EXTENDS MemoryInterface

VARIABLES
  bytes,    \* the contents of the address space
  rights,   \* page -> rights, for the pages mapped so far
  reply     \* the answer to the last call

vars == <<bytes, rights, reply>>

PageOf(a) == (a % AddrSpace) \div PageSize

\* The rights in force for an access, an unmapped page being granted it.
RightsFor(op, a) ==
  IF PageOf(a) \in DOMAIN rights THEN rights[PageOf(a)] ELSE Need(op)

\* Word accesses do not wrap at the end of the address space, others do.
InReach(op, a) ==
  /\ ((a % AddrSpace) % PageSize) + Width(op) <= PageSize
  /\ Width(op) = 4 => a < AddrSpace

Outcome(op, a) ==
  IF ~ (Need(op) \subseteq RightsFor(op, a)) THEN "AccessFault"
  ELSE IF ~ InReach(op, a) THEN "BoundaryFault"
  ELSE "ok"

Touch(op, a) ==
  rights' = [t \in DOMAIN rights \cup {PageOf(a)} |->
               IF t \in DOMAIN rights THEN rights[t] ELSE Need(op)]

Init ==
  /\ bytes = [b \in Space |-> Zero]
  /\ rights = [t \in {} |-> {}]
  /\ reply = Done

Load(op, a) ==
  /\ Touch(op, a)
  /\ reply' = IF Outcome(op, a) = "ok"
              THEN Loaded([i \in 0 .. Width(op) - 1 |-> bytes[(a % AddrSpace) + i]])
              ELSE Fault(Outcome(op, a))
  /\ UNCHANGED bytes

Store(op, a, val) ==
  /\ Touch(op, a)
  /\ reply' = [outcome |-> Outcome(op, a), value |-> <<>>]
  /\ bytes' = IF Outcome(op, a) = "ok"
              THEN [b \in Space |->
                      IF b - (a % AddrSpace) \in 0 .. Width(op) - 1
                      THEN val[b - (a % AddrSpace)] ELSE bytes[b]]
              ELSE bytes

(***************************************************************************)
(* Mapping a segment gives its rights to every page it covers, its image   *)
(* and zeros to their bytes.  When one of the pages is taken the pages     *)
(* below the first such page are mapped all the same.                      *)
(***************************************************************************)
Cover(s) == (s.vaddr \div PageSize) .. ((s.vaddr + s.memsz - 1) \div PageSize)

Fresh(s) == {t \in Cover(s) : \A u \in Cover(s) \cap DOMAIN rights : t < u}

Image(s, b) ==
  IF b - s.vaddr \in 0 .. Len(s.data) - 1 THEN s.data[b - s.vaddr + 1] ELSE Zero

Map(s) ==
  /\ rights' = [t \in DOMAIN rights \cup Fresh(s) |->
                  IF t \in DOMAIN rights THEN rights[t] ELSE s.rights]
  /\ bytes' = [b \in Space |->
                 IF PageOf(b) \in Fresh(s) THEN Image(s, b) ELSE bytes[b]]
  /\ reply' = IF Cover(s) \cap DOMAIN rights = {} THEN Done
              ELSE Fault("SegmentOverlap")

Next ==
  \/ \E op \in Reads, a \in Addr : Load(op, a)
  \/ \E op \in Writes, a \in Addr, w \in Word : Store(op, a, Low(w, Width(op)))
  \/ \E s \in SegmentInfos : Map(s)

Spec == Init /\ [][Next]_vars
=============================================================================
