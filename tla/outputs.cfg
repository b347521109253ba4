\* Output and input calls, one pin on each port, with power loss.
SPECIFICATION Spec
CONSTANTS
  Pins <- TwoPins
  PortOf <- TwoPorts
  CallPairs = {"OUTPUTS", "INPUTS"}
  RequestIds = {1}
  Kinds = {}
  CallerImages <- NoImages
  Budgets = {1}
  PowerLoss = TRUE
INVARIANTS
  ShadowSound
  EvidenceConsistent
  PointerDebt
PROPERTIES
  ObservationWhole
