SPECIFICATION CommandLineSpec
CONSTANTS
  Options <- MainOptions
  Numerals <- MCNumerals
  IntMax = 7
  Files <- MCFiles
  GivenLines <- MCGivenLines
CHECK_DEADLOCK FALSE
INVARIANTS
  SpellingAndOrderDoNotMatter
  UnknownOptionsAreRefused
  StatusTellsWhatHappened
PROPERTY
  ParsingEnds
