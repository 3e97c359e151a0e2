SPECIFICATION Spec
CONSTANTS
  Keys = {"k"}
  Values <- PlainValues
  InitKeys = {"k"}
  InitValue <- MCInitValue
  Clients = {c1, c2}
  TextClients = {c2}
  Commands <- OnlyDelete
  Asks <- AskAll
  N = 2
  None = None
  MaxReq = 1
  MaxElections = 0
  MaxCrashes = 0
  MaxLosses = 0
INVARIANT DeletedIsGone
CHECK_DEADLOCK FALSE
