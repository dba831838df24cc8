SPECIFICATION Spec
CONSTANTS
  WRITE_LEN = 2
  Bodies <- MCPlainBodies
  OldFiles <- MCOldFiles
INVARIANT
  BodyIsStored
