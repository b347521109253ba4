\* The README's test for an image that needs no second apply.
SPECIFICATION Spec
CONSTANTS
  Pins <- OnePin
  PortOf <- OnePort
  CallPairs = {}
  RequestIds = {1}
  Kinds = {"APPLY_IMAGE"}
  CallerImages <- OneImage
  Budgets = {1}
  PowerLoss = FALSE
INVARIANTS
  AppliedMeansVerified
