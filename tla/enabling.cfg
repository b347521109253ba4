\* The output enable ordering the register reference promises.
SPECIFICATION Spec
CONSTANTS
  Pins <- TwoPins
  PortOf <- TwoPorts
  CallPairs = {"OUTPUTS", "DIRECTIONS"}
  RequestIds = {1}
  Kinds = {}
  CallerImages <- NoImages
  Budgets = {1}
  PowerLoss = TRUE
PROPERTIES
  OutputEnableOrdering
