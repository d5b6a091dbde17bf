SPECIFICATION PluginSpec
CONSTANTS
  Byte <- MCByte
  Zero = 0
  PageSize = 8
  PageCount = 32
  Addr <- MCAddr
  Word = {}
  SegmentInfos = {}
  Radix = 4
  RegIdx <- MCRegIdx
  Imm <- MCImm
  Decode <- MCDecode
  Alu <- MCAlu
  Programs = {}
  RegisterFiles = {}
  BufSize = 2
  Input <- MCInput
  MaxOutput = 0
  Configs <- MCConfigs
  FallbackStart = 8
  FallbackSpan = 16
  MaxStart = 240
  MaxSize = 24
  Values <- MCValues
  HostData <- MCHostData
  HostCounts = {2}
  Tracing = TRUE
  HostRegisters <- MCHostRegisters
  MaxCalls = 2
INVARIANTS
  RegionsAreUsable
PROPERTIES
  ImplementsRVM
  ZeroIsTheStart
  TraceFailsNothing
