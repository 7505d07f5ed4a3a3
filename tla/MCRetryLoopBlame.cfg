SPECIFICATION Spec
CONSTANTS
  Worker <- ThreeWorkers
  MaxAttempts = 3
  Outcomes <- FlowOutcomes
  W1 = W1
  W2 = W2
  W3 = W3
INVARIANTS
  EnvironmentNotBlamed
