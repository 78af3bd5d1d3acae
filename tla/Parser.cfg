SPECIFICATION Spec
CONSTANTS
  Sources <- MCSources
  First   <- ExactFirst
  Follow  <- ExactFollow
  Table   <- ExactTable
INVARIANTS
  TypeOK
  FirstErrorIsReal
  RecoveryFindsStatement
  ReportsInOrder
  NodesFit
  AstHoldsSource
  ExpressionsGroup
  ProgramAtEnd
PROPERTIES
  ParserStops
CHECK_DEADLOCK FALSE
