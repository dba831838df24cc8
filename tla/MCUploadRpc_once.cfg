\* Two users upload the same two-part file, every part delivered once, two
\* requests at a time; calls whose failure Do notices may fail.
SPECIFICATION FairSpec
CONSTANTS
  WRITE_LEN = 2
  Handlers = {h1, h2}
  Users = {u1, u2}
  Signs = {s1}
  Shards = 2
  Bodies <- MCOneBody
  MaxDeliver = 1
  MaxRestarts = 0
  Faults <- MCNoticed
  Absent = Absent
  NoReq = NoReq
  NoHandler = NoHandler
INVARIANTS
  TypeOK
  NoDanglingLink
  PublishedHasAllParts
  PublishedPartsAreWhole
  AckedUploadIsLinked
  AckedUsersAreCounted
PROPERTIES
  ImplementsStore
  EveryRequestIsAnswered
