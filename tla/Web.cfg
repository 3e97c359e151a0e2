SPECIFICATION FairSpec
CONSTANTS
  Clients = {"c1"}
  Keys = {"x", "y"}
  Vals = {"a"}
  EmptyString = ""
  Requests <- MCRequests
  N = 2
  None = None
  MaxReq = 2
  MaxElections = 1
  MaxCrashes = 1
  MaxRestarts = 1
  MaxSnapshots = 1
INVARIANTS TypeOK StoreAgreement AnsweredIsOver StatusIsTrue ReadsKeepUp
PROPERTY EveryRequestReturns
CHECK_DEADLOCK FALSE
