SPECIFICATION Spec
CONSTANT Grammars <- MCGrammars
CONSTANT Leftovers = {0, 1, 2}
INVARIANTS
  FirstIsExact
  FollowIsExact
  TablePredicts
PROPERTIES
  TableIsMade
CHECK_DEADLOCK FALSE
