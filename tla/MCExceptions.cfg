CONSTANTS
  CPUs = {"000", "010", "020", "040"}
  Kinds <- MCKinds
  PushFaults = {"040"}
  MaxDepth <- MCDepth
  MaxWords <- MCWords
SPECIFICATION Spec
INVARIANTS TypeOK StackDiscipline FramesIntact
PROPERTIES RoundTrip UserPointerKept
