CONSTANTS
  EMULATE_INT_ACK = FALSE
  UseVirq = TRUE
  BadVector = FALSE
  CallbackCalls = {}
  Levels = {0, 3, 7}
  Ops = {"plain", "sr"}
  Costs = {1}
  CYC_INTERRUPT = 2
  CYC_PRIVILEGE = 3
  CYC_BUS_ERROR = 2
  CYC_ADDRESS_ERROR = 2
  CYC_RESET = 2
  Slices = {1, 3}
  Deltas <- MCDeltas
  MaxSlice = 3
SPECIFICATION FairSpec
PROPERTIES VirqServed
