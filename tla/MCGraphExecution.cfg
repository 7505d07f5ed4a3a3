SPECIFICATION FairExecutionSpec
CONSTANTS
  Node <- N
  Graphs <- MCGraphs
  WriteScopes <- MCWriteScopes
  MaxParallel = 2
  MaxAttempts = 2
  Arm <- Manifest
  Proposals <- MCProposals
  NoProposal = NoProposal
  Histories <- MCHistories
  Artifacts = {Doc}
  Src = Src
  A = A
  B = B
  Doc = Doc
INVARIANTS
  TypeOK
  StartedAfterSources
  BlockedIffFailedUpstream
  DisjointWriters
  FirstFitIsGreedy
  AcceptedMeansDone
  SuccessIsAccepted
  CompiledNeverDeadlocks
  WorkersArePermitted
  EvidenceIsFair
PROPERTIES
  ImplementsRunGraph
  VerdictsAreFinal
  Termination
