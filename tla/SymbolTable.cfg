SPECIFICATION Spec
CONSTANTS
  n1 = n1
  n2 = n2
  n3 = n3
  n4 = n4
  n5 = n5
  Names = {n1, n2, n3, n4, n5}
  v1 = v1
  v2 = v2
  Values = {v1, v2}
  NULL = NULL
  Hash <- MCHash
  Primes <- MCPrimes
INVARIANTS
  TypeOK
  Reachable
  SizeIsExact
  ProbingEnds
PROPERTIES
  TableIsMap
  CallsEnd
