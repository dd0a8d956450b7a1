SPECIFICATION Spec
CONSTANTS
  p1 = p1
  p2 = p2
  u1 = u1
  u2 = u2
  None = None
  Positions = {p1, p2}
  Users = {u1, u2}
  Owner <- TheOwner
  Bounds <- TheBounds
  Ticks <- SomeTicks
  Rounds = {r1, r2}
  MaxWrites = 4
SYMMETRY Symmetric
INVARIANTS
  ListedAsInserted
  RoundTellsAll
