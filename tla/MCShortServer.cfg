\* Two clients with any message but LOGIN and EXIT compete for one name on two
\* workers; every call may fail, the process may be started again once.
SPECIFICATION FairSpec
CONSTANTS
  Workers = {w1, w2}
  Clients = {c1, c2}
  Names = {n1}
  Kinds <- MCServed
  MaxRestarts = 1
  Faults <- MCAllFaults
  NoClient = NoClient
  NoMsg = NoMsg
INVARIANTS
  TypeOK
  NameIsGivenOnce
  SuccessIsUsable
  HomesAreRegistered
PROPERTIES
  ImplementsAccounts
  SendersAreAnswered
