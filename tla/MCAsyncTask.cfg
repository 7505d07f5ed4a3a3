SPECIFICATION FairSpec
CONSTANTS
  Runtime <- Pair
  Reports <- QuietOrAsking
  Limited = TRUE
  MaxFaults = 1
INVARIANTS
  TypeOK
  OneRuntime
  OverMeansStopped
  AnnouncedIsStatus
  EndIsReported
  AcknowledgedTogether
PROPERTIES
  EndIsNoticed
