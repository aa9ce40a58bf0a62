CONSTANTS
  Byte = 4
  Radix = 3
  Registers <- MCRegisters
  MemorySize = 64
  Extension <- MCExtension
  RegisterNumbers <- MCRegisterNumbers
  Starts <- MCStarts
  MaxFaults = 2
SPECIFICATION Spec
CHECK_DEADLOCK FALSE
INVARIANTS
  MachineTypeOK
  RestartHarmless
  RoundTrip
