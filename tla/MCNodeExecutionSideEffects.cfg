SPECIFICATION FairSpec
CONSTANTS
  Node <- Pair
  File <- Files
  Content <- Contents
  Absent = Absent
  NoTree = NoTree
  NoNode = NoNode
  Source <- Repository
  MaxFaults = 0
  WritePaths <- OwnFilesOfPair
  Reads <- OthersFilesOfPair
  Hidden = FALSE
  Patcher <- OnlyFirst
  Output <- VersionsOfPair
  Litter <- LitterOfSecond
  Scribble = Scribble
  Editable = {}
  MaxAttempts = 1
  Src = Src
  A = A
  B = B
  Original = Original
  V1 = V1
  V2 = V2
INVARIANTS
  SideEffectsAreOwn
