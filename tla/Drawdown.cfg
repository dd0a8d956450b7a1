SPECIFICATION Spec
CONSTANTS
  Watches = {w1, w2}
  Rounds = {r1, r2}
  Feeders = {f1}
  None = None
  Prices <- SomePrices
  References = {0, 100}
  Thresholds <- TheThreshold
  MaxEdits = 4
  MaxFeeds = 2
  Faults <- AllFaults
SYMMETRY Symmetric
INVARIANTS
  TypeOK
  RoundAlertsTheDue
  RoundAligns
PROPERTY RemovedStaysRemoved
