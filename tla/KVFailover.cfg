SPECIFICATION Spec
CONSTANTS
  Keys = {"k"}
  Values <- PlainValues
  InitKeys = {}
  InitValue <- MCInitValue
  Clients = {c1}
  TextClients = {}
  Commands <- FaultyCommands
  Asks <- AskAll
  N = 3
  None = None
  MaxReq = 2
  MaxElections = 1
  MaxCrashes = 1
  MaxLosses = 1
INVARIANTS TypeOK StoreAgreement ReplyIsCommitted ProposerOrder SequentialUnderFirst
CHECK_DEADLOCK FALSE
