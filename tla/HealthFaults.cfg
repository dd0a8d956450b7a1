SPECIFICATION Spec
CONSTANTS
  p1 = p1
  p2 = p2
  NoRow = NoRow
  Positions = {p1, p2}
  StoreRows <- LowOrSafe
  SampleEvery = 2
  MaxBlock = 2
  MaxSnoozed = 1
  Faults <- AllFaults
SYMMETRY Symmetric
INVARIANTS
  UndeliveredStaysPending
  BlockIsComplete
