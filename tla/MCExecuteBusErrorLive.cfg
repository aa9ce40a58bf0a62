CONSTANTS
  EMULATE_INT_ACK = TRUE
  UseVirq = FALSE
  BadVector = FALSE
  CallbackCalls = {"irq"}
  Levels = {0, 7}
  Ops = {"plain", "berr"}
  Costs = {2}
  CYC_INTERRUPT = 2
  CYC_PRIVILEGE = 3
  CYC_BUS_ERROR = 2
  CYC_ADDRESS_ERROR = 2
  CYC_RESET = 2
  Slices = {1, 3}
  Deltas <- MCDeltas
  MaxSlice = 4
SPECIFICATION FairSpec
PROPERTIES Returns
