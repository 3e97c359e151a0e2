SPECIFICATION FairSpec
CONSTANTS
  Keys = {"k"}
  Values <- TwoValues
  InitKeys = {}
  InitValue <- MCInitValue
  Clients = {"writer", "reader", "text"}
  TextClients = {"text"}
  Commands <- StableCommands
  Asks <- AskStable
  N = 2
  None = None
  MaxReq = 1
  MaxElections = 0
  MaxCrashes = 0
  MaxLosses = 0
INVARIANT StoreAgreement
PROPERTIES ImplementsAtomicKV EveryCallReturns
CHECK_DEADLOCK FALSE
