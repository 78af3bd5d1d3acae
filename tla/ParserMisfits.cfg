SPECIFICATION Spec
CONSTANTS
  Sources <- Misfits
  First   <- ExactFirst
  Follow  <- ExactFollow
  Table   <- ExactTable
PROPERTY NameOrSwitchFits
CHECK_DEADLOCK FALSE
