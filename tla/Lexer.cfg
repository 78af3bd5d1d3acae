SPECIFICATION Spec
CONSTANTS
  Sources <- PlainSources
  BufferSize = 3
  MaxLexeme = 2
  Keywords <- MCKeywords
INVARIANTS
  LexemesCoverSource
  EachNewlineCountedOnce
  DollarMeansWholeFile
PROPERTIES
  TokensAreLongestMatches
  ReachesDollar
