SPECIFICATION Spec
CONSTANTS
  Keys = {"k"}
  Values <- PlainValues
  InitKeys = {}
  InitValue <- MCInitValue
  Clients = {c1}
  TextClients = {}
  Commands <- PlainCommands
  Asks <- AskAll
  N = 3
  None = None
  MaxReq = 2
  MaxElections = 1
  MaxCrashes = 0
  MaxLosses = 0
INVARIANT SequentialClient
CHECK_DEADLOCK FALSE
