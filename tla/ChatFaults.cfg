SPECIFICATION Spec
CONSTANTS
  Clients = {"ann"}
  Typed <- TwoLines
  Leavers = {}
  Size = 2
  Buffer = 1
  N = 2
  None = None
  MaxElections = 1
  MaxBlanks = 1
  MaxStops = 1
INVARIANTS TypeOK StreamsHaveNoGaps OutOfOrderOnlyAfterJoin ShownOnce SessionOrder
CHECK_DEADLOCK FALSE
