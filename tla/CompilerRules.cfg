SPECIFICATION Spec
CONSTANTS
  Programs <- FourRules
  Inputs   <- MCInputs
  NumberSpelt <- MCNumberSpelt
INVARIANT
  FaultsAreReported
