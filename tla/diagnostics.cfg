\* Every command of both example programs.
SPECIFICATION ProgramSpec
CONSTANTS
  Pins <- OnePin
  PortOf <- OnePort
  CallPairs <- Pairs
  RequestIds = {1}
  Kinds = {"APPLY_IMAGE"}
  CallerImages <- RecoveryImages
  Budgets = {1}
  PowerLoss = TRUE
  Scripts <- BothPrograms
INVARIANTS
  TaskTypeOK
  SafeAtEnd
  QuietEndIsRestored
  RecoveryDrains
  OutlineTrue
PROPERTIES
  RestoreEnablesSaved
VIEW WithoutObservations
