SPECIFICATION Spec
CONSTANTS
  Programs <- MCPrograms
  Inputs   <- MCInputs
  NumberSpelt <- MCNumberSpelt
INVARIANTS
  CompilerTypeOK
  StorageDisjoint
  AcceptedIsChecked
  InnermostBinding
  AssignedExactly
  AcceptedIsLegal
  LegalIsAccepted
  Assembles
  StaysInCode
  ReturnsToCaller
  AccessAllocated
  OutputMatchesSource
PROPERTIES
  RunEnds
