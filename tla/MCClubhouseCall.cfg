SPECIFICATION FairSpec
CONSTANTS
  MaxAttempts = 3
  BaseDelay = 1
  Factor = 3
  MaxDelay = 2
  MaxRetryAfter = 3
  Hints <- MCHints
INVARIANTS
  TypeOK
  BudgetKept
  OutcomeTruthful
PROPERTIES
  CallReturns
