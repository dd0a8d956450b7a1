\* The bounds on messages let the system stop.
CHECK_DEADLOCK FALSE
SPECIFICATION FairSpec
CONSTANTS
  c1 = c1
  c2 = c2
  c3 = c3
  u1 = u1
  u2 = u2
  ch1 = ch1
  ch2 = ch2
  ch3 = ch3
  Anonymous = Anonymous
  NoChannel = NoChannel
  Conns = {c1, c2}
  Users = {u1}
  Channels = {ch1, ch2}
  Capacity = 1
  MaxSent = 3
  MaxDirect = 1
INVARIANTS
  ReceiverIsRegistered
PROPERTIES
  CatchesUp
  ConnectionEnds
