SPECIFICATION Spec
CONSTANTS
  Sources <- CleanSources
  BufferSize = 3
  MaxLexeme = 2
  Keywords <- MCKeywords
INVARIANT RangeIsOneToken
