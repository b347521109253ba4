\* The apply operation alone, with power loss between any two callbacks.
SPECIFICATION Spec
CONSTANTS
  Pins <- OnePin
  PortOf <- OnePort
  CallPairs = {}
  RequestIds = {1}
  Kinds = {"APPLY_IMAGE"}
  CallerImages <- OneImage
  Budgets = {8}
  PowerLoss = TRUE
INVARIANTS
  TransfersSuffice
  VerifiedBeforeInputs
  CleanupNeverAbandoned
PROPERTIES
  WriteFailureClassified
