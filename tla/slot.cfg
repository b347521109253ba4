\* Every operation and every request of its owner, between input and polarity calls.
SPECIFICATION Spec
CONSTANTS
  Pins <- OnePin
  PortOf <- OnePort
  CallPairs = {"INPUTS", "POLARITY"}
  RequestIds = {1}
  Kinds <- AllKinds
  CallerImages <- OneImage
  Budgets = {8}
  PowerLoss = FALSE
INVARIANTS
  TypeOK
  ExactlyOnce
  ActiveOwnsBus
  PointerDebt
PROPERTIES
  ResultStable
  FirstCauseWins
  SuccessMeansImage
  KeepsPromise
VIEW WithoutObservations
