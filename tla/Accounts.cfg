SPECIFICATION Spec
CONSTANTS
  Wallets = {w1, w2}
  UserIds = {u1, u2}
  Attempts = {a1, a2}
  Requests = {r1, r2, r3}
  None = None
  Ttl = 1
  MaxTime = 2
  Faults <- AllFaults
SYMMETRY Symmetric
INVARIANTS
  TypeOK
  LoginsAgree
  SessionLastsItsTime
  SubscriptionIsWhole
PROPERTIES
  OnlyOwnersSubscribe
CHECK_DEADLOCK FALSE
