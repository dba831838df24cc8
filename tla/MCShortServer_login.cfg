\* One client that logs in.
SPECIFICATION Spec
CONSTANTS
  Workers = {w1, w2}
  Clients = {c1, c2}
  Names = {n1}
  Kinds <- MCDocumented
  MaxRestarts = 0
  Faults = {}
  NoClient = NoClient
  NoMsg = NoMsg
INVARIANT
  ServerStaysUp
