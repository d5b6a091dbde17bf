SPECIFICATION Spec
CONSTANTS
  Byte <- MCByte
  Zero = 0
  PageSize = 5
  PageCount = 3
  Addr <- MCAddr
  Word <- MCWord
  SegmentInfos <- MCSegmentInfos
INVARIANTS
  TypeOK
  LazyPagesAreOneWay
PROPERTIES
  ImplementsFlatMemory
  RightsAreForever
  ReadOnlyPagesAreConstant
  FaultsStoreNothing
