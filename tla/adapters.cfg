\* The callbacks of both programs, against every answer of the libraries.
SPECIFICATION BothSpec
CONSTANTS
  TimeoutMax = 5
  Requests <- SomeRequests
  Configured = 3
  Addresses = {32, 33}
  NoAddress = 0
INVARIANTS
  AdapterHonest
  DoubtIsReal
  SuccessIsComplete
  TimeoutScoped
  NativeTypeOK
  NativeRightDevice
