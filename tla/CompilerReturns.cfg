SPECIFICATION Spec
CONSTANTS
  Programs <- TwoReturns
  Inputs   <- MCInputs
  NumberSpelt <- MCNumberSpelt
INVARIANT
  ReturnsArrive
