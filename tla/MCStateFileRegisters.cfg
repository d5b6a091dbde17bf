SPECIFICATION Spec
CONSTANTS
  Registers = 3
  Base = 2
  Digits = 2
  WordSpace = 4
  Entry = 1
  At = At
  Junk = Junk
  UserFiles <- MCUserFiles
PROPERTIES
  DumpsRestoreTheRegisters
