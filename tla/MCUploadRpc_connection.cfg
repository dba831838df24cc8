\* Two requests at a time, no failure.
SPECIFICATION Spec
CONSTANTS
  WRITE_LEN = 2
  Handlers = {h1, h2}
  Users = {u1, u2}
  Signs = {s1}
  Shards = 2
  Bodies <- MCOneBody
  MaxDeliver = 1
  MaxRestarts = 0
  Faults = {}
  Absent = Absent
  NoReq = NoReq
  NoHandler = NoHandler
INVARIANT
  ConnectionIsExclusive
