SPECIFICATION Spec
CONSTANTS
  Byte <- MCByte
  Zero = 0
  PageSize = 4
  PageCount = 8
  Addr = {}
  Word = {}
  SegmentInfos = {}
  Files <- MCFiles
  Garbage <- MCGarbage
  ShSize = 3
CHECK_DEADLOCK FALSE
INVARIANTS
  SegmentsAreInTheFile
