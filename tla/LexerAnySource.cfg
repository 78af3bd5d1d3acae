SPECIFICATION Spec
CONSTANTS
  Sources <- AnySources
  BufferSize = 3
  MaxLexeme = 2
  Keywords <- MCKeywords
INVARIANTS
  TypeOK
  DollarIsLast
  LexemeFits
CHECK_DEADLOCK FALSE
