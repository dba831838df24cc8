\* One user, a two-part file, every part delivered up to twice,
\* every call may fail, the process may die once.
SPECIFICATION Spec
CONSTANTS
  WRITE_LEN = 2
  Handlers = {h1, h2}
  Users = {u1}
  Signs = {s1}
  Shards = 2
  Bodies <- MCOneBody
  MaxDeliver = 2
  MaxRestarts = 1
  Faults <- MCAllFaults
  Absent = Absent
  NoReq = NoReq
  NoHandler = NoHandler
SYMMETRY MCSymmetry
INVARIANTS
  CountedFilesAreLinked
  WritesAreSerial
  RequestsCountOnce
PROPERTY
  PublicationIsStable
