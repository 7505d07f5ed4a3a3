SPECIFICATION FairAttemptSpec
CONSTANTS
  Worker <- ThreeWorkers
  MaxAttempts = 2
  Outcomes <- MCOutcomes
  Contracts <- MCContracts
  W1 = W1
  W2 = W2
  W3 = W3
INVARIANTS
  TypeOK
  ExcludedIsFinal
  BudgetIsUsed
  SuccessIsLast
  VerdictIsGrounded
  RecordsAgree
  FactsHaveGrounds
PROPERTIES
  ImplementsRetryLoop
  AttemptsEnd
