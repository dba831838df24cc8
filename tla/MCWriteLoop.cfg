SPECIFICATION Spec
CONSTANTS
  WRITE_LEN = 2
  Bodies <- MCBodies
  OldFiles <- MCOldFiles
INVARIANTS
  TypeOK
  LoopComputesWritten
  OldTailSurvives
  ShortBodyIsStored
