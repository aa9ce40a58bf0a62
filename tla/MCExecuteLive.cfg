CONSTANTS
  EMULATE_INT_ACK = TRUE
  UseVirq = TRUE
  BadVector = FALSE
  CallbackCalls = {"irq", "halt", "slice"}
  Levels = {0, 3, 7}
  Ops = {"plain", "sr", "stop", "aerr"}
  Costs = {1}
  CYC_INTERRUPT = 2
  CYC_PRIVILEGE = 3
  CYC_BUS_ERROR = 2
  CYC_ADDRESS_ERROR = 2
  CYC_RESET = 2
  Slices = {1, 2}
  Deltas <- MCDeltas
  MaxSlice = 3
SPECIFICATION FairSpec
PROPERTIES Returns RequestServed NMIServed VirqServed
