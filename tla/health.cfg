SPECIFICATION Spec
CONSTANTS
  Errors <- TwoErrors
  MaxConsecutive = 2
  MaxTotal = 4
  MaxCallbacks = 8
INVARIANTS
  TypeOK
  StateTellsLatest
  CountersSaturate
  ErrorLeavesDegraded
