CONSTANTS
  EMULATE_INT_ACK = TRUE
  UseVirq = FALSE
  BadVector = TRUE
  CallbackCalls = {"irq", "halt", "reset", "slice"}
  Levels = {0, 3, 7}
  Ops = {"plain", "sr", "stop", "berr", "aerr"}
  Costs = {1, 2}
  CYC_INTERRUPT = 2
  CYC_PRIVILEGE = 3
  CYC_BUS_ERROR = 2
  CYC_ADDRESS_ERROR = 2
  CYC_RESET = 2
  Slices = {1, 3}
  Deltas <- MCDeltas
  MaxSlice = 4
SPECIFICATION Spec
INVARIANTS TypeOK ClockExact ClockNeverAhead StoppedRunsNothing NMIAccounted
PROPERTIES ClockMonotone
