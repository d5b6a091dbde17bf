SPECIFICATION SimulatorSpec
CONSTANTS
  Byte <- MCByte
  Zero = 0
  PageSize = 8
  PageCount = 32
  Addr <- MCAddr
  Word = {}
  SegmentInfos <- MCSegmentInfos
  Radix = 4
  RegIdx <- MCRegIdx
  Imm <- MCImm
  Decode <- MCDecode
  Alu <- MCAlu
  Programs <- MCPrograms
  RegisterFiles <- MCRegisterFiles
  BufSize = 2
  Steps <- MCSteps
  Counts <- MCCounts
  Input <- MCInput
  MaxOutput = 3
INVARIANTS
  StepsAreInstructions
