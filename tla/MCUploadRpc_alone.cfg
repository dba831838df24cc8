\* One request at a time: two users, a two-part file, parts sent again with
\* the same or with another body.
SPECIFICATION Spec
CONSTANTS
  WRITE_LEN = 2
  Handlers = {h1}
  Users = {u1, u2}
  Signs = {s1}
  Shards = 2
  Bodies <- MCTwoBodies
  MaxDeliver = 2
  MaxRestarts = 0
  Faults = {}
  Absent = Absent
  NoReq = NoReq
  NoHandler = NoHandler
SYMMETRY MCSymmetry
INVARIANT
  PublishedPartsAreWhole
