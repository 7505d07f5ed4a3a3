SPECIFICATION Spec
CONSTANTS
  Runtime <- Single
  Reports <- QuietOrAsking
  Limited = TRUE
  MaxFaults = 0
INVARIANTS
  ReportsReachInbox
