\* Request and response at both ends, three calls, an entry more or some bytes less.
SPECIFICATION MsgSpec
CONSTANTS
  Classes <- MCClasses
  Values <- MCValues
  Unknown <- MCUnknown
  Cut = Cut
  Objects = {own, other}
  Own = own
  MaxCalls = 3
CHECK_DEADLOCK FALSE
INVARIANTS
  TypeOK
  UnsetIsDefault
  SizeIsExact
  SentIsReceived
  AnswerIsComplete
