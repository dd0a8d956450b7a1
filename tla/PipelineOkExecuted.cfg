SPECIFICATION Spec
CONSTANTS
  p1 = p1
  p2 = p2
  u1 = u1
  u2 = u2
  s1 = s1
  s2 = s2
  aave = aave
  compound = compound
  NoSigner = NoSigner
  NoRequest = NoRequest
  Pipes = {p1}
  Users = {u1}
  SignerIds = {s1}
  Permissions <- DefaultOnly
  Budgets <- Budget3
  Requests <- OneUser
  Faults <- NoFaults
INVARIANTS
  OkIsExecuted
