\* The texts of RFC 1321, cut in one, two or three pieces; a count of bits
\* whose low word overflows after 128 bytes.
SPECIFICATION Spec
CONSTANTS
  WORD = 1024
  Transform <- transform
  Magic <- magic
  Encode <- encode
  Pieces <- MCPieces
  Garbage <- MCGarbage
  MaxLength = 200
  MaxUpdates = 3
CHECK_DEADLOCK FALSE
INVARIANTS
  TypeOK
  StreamIsHashed
  DigestIsRfc
  DigestIsKnown
