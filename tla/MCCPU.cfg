SPECIFICATION FairSpec
CONSTANTS
  Byte <- MCByte
  Zero = 0
  PageSize = 8
  PageCount = 32
  Addr <- MCAddr
  Word = {}
  SegmentInfos <- MCSegmentInfos
  Radix = 4
  RegIdx <- MCRegIdx
  Imm <- MCImm
  Decode <- MCDecode
  Alu <- MCAlu
  Programs <- MCPrograms
  RegisterFiles <- MCRegisterFiles
  BufSize = 2
  Input <- MCInput
  MaxOutput = 5
INVARIANTS
  TypeOK
PROPERTIES
  ImplementsISA
  FaultsArePrecise
  FaultsRepeat
  ExecutedCodeWasLoaded
  TransfersAreExact
  CallsEnd
