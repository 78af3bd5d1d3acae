SPECIFICATION Spec
CONSTANTS
  Sources <- TwoDrivers
  First   <- ExactFirst
  Follow  <- ExactFollow
  Table   <- ExactTable
INVARIANT AcceptsWholeSource
CHECK_DEADLOCK FALSE
