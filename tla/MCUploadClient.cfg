\* One client that uploads a file of two parts; calls time out while the server
\* goes on with them, the connection breaks once, the server dies once and has
\* four descriptors.
SPECIFICATION SysSpec
CONSTANTS
  WRITE_LEN = 4
  Handlers = {h1, h2}
  Users = {u1}
  Signs = {s1}
  Shards = 2
  Bodies <- MCBodies
  MaxDeliver = 2
  MaxRestarts = 1
  Faults <- MCDescriptorsKill
  Absent = Absent
  NoReq = NoReq
  NoHandler = NoHandler
  Clients = {c1}
  UsrOf <- MCUsrOf
  File <- MCFile
  FileSign = s1
  MAX_SIZE_PER_SHARD = 2
  Behind <- MCBehind
  MaxUploads = 1
  MaxRetry = 1
  MaxBreaks = 1
  MaxFds = 4
  ClientFaults <- MCClientFaults
  NoCall = NoCall
INVARIANTS
  SysTypeOK
  OrderlyUploadHasAllParts
  EveryByteIsStored
  OrderlyAckedUploadIsLinked
  SmoothUploadIsStored
  DanglingLinkNeedsFailure
PROPERTY
  UploadEnds
