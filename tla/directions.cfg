\* Output and direction calls on one pin, with power loss between any two callbacks.
SPECIFICATION Spec
CONSTANTS
  Pins <- OnePin
  PortOf <- OnePort
  CallPairs = {"OUTPUTS", "DIRECTIONS"}
  RequestIds = {1}
  Kinds = {}
  CallerImages <- NoImages
  Budgets = {1}
  PowerLoss = TRUE
PROPERTIES
  LatchBeforeEnable
