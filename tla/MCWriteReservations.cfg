SPECIFICATION Spec
CONSTANTS
  Node = {n1, n2}
  NoNode = NoNode
  Raw <- Spellings
  MaxRecords = 3
  Src = Src
  Src2 = Src2
  A = A
INVARIANTS
  NoOverlap
  TrailMatchesTable
PROPERTIES
  NoHandover
CHECK_DEADLOCK FALSE
