SPECIFICATION FairSpec
CONSTANTS
  p1 = p1
  p2 = p2
  NoRow = NoRow
  Positions = {p1}
  StoreRows <- LowOrClosed
  SampleEvery = 2
  MaxBlock = 3
  MaxSnoozed = 1
  Faults <- StatementFaults
PROPERTIES
  ImplementsAlertLifecycle
  BlocksEnd
  ShutdownStops
