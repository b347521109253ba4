\* Apply and input operations whose owner keeps polling.
SPECIFICATION FairSpec
CONSTANTS
  Pins <- OnePin
  PortOf <- OnePort
  CallPairs = {}
  RequestIds = {1}
  Kinds = {"APPLY_IMAGE", "READ_INPUTS"}
  CallerImages <- OneImage
  Budgets = {2}
  PowerLoss = FALSE
PROPERTIES
  OperationEnds
  ParkHappens
