SPECIFICATION Spec
CONSTANTS
  Node <- N
  File <- Files
  Content <- Contents
  Absent = Absent
  NoTree = NoTree
  NoNode = NoNode
  Source <- Repository
  MaxFaults = 0
  WritePaths <- OwnFiles
  Reads <- OthersFiles
  Hidden = FALSE
  Patcher <- PatchersN
  Output <- Versions
  Litter <- NoLitter
  Scribble = Scribble
  Editable <- FirstFile
  MaxAttempts = 2
  Src = Src
  A = A
  B = B
  Original = Original
  V1 = V1
  V2 = V2
INVARIANTS
  EndsCommitted
  StagesOwnFilesCommitted
