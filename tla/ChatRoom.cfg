SPECIFICATION FairSpec
CONSTANTS
  Clients = {"ann", "bob"}
  Typed <- OneLine
  Leavers = {"bob"}
  Size = 1
  Buffer = 1
  N = 2
  None = None
  MaxElections = 0
  MaxBlanks = 0
  MaxStops = 0
PROPERTY RoomHears
CHECK_DEADLOCK FALSE
