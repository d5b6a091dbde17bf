SPECIFICATION MCSpec
CONSTANTS
  XLen = 4
  Regs <- MCRegs
  Imm12 <- MCImm12
  Imm13 <- MCImm13
  Imm20 <- MCImm20
  Imm21 <- MCImm21
  Words <- MCWords
INVARIANTS
  NothingElseDecodes
  ListingReadsBack
PROPERTIES
  DecodesWhatIsEncoded
  ComputesRV32I
