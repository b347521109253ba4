SPECIFICATION Spec
CONSTANTS
  HalfRange = 8
  TransferTimeout = 3
  MaxTimeout = 7
  MaxElapsed = 14
  MaxTransactions = 5
  PollBudgets <- SomeBudgets
INVARIANTS
  TypeOK
  DeadlineExact
  PollWithinOperation
PROPERTIES
  DeadlineKept
  CallbackTimed
