SPECIFICATION FairLimiterSpec
CONSTANTS
  r1 = r1
  r2 = r2
  r3 = r3
  Requests = {r1, r2, r3}
  MaxRequests = 4
  Window = 4
  MaxFailures = 2
  Burst = 10
  MaxCount = 10
INVARIANTS
  CounterBound
  WindowBound
  NoImmortalKey
PROPERTIES
  NeverLockedOut
