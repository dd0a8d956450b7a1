SPECIFICATION Spec
CONSTANTS
  Users = {u1}
  Tokens = {t1, t2}
  Calls = {c1, c2}
  Factors = {f1, f2}
  None = None
  NoDebt = NoDebt
  TooLarge = TooLarge
  MaxEvents = 4
  Faults <- AllFaults
SYMMETRY Symmetric
INVARIANTS
  TypeOK
  RowIsOfItsTime
  ListIsComplete
  ReadErrorsAreSurvived
CHECK_DEADLOCK FALSE
