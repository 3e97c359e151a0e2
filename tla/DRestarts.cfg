SPECIFICATION Spec
CONSTANTS
  Nodes = {"n1", "n2"}
  NotANumber = NotANumber
  Commands <- MCCommands
  ValueSize = 2
  Modulus = 32
  FileSize = 4
  MaxFile = 8
  MaxLog = 2
  MaxCrashes = 1
  MaxGroups = 1
INVARIANTS TypeOK ReplyFollowsLog FileIsOfAPrefix PanicsTogether OwnSetsSurvive
CHECK_DEADLOCK FALSE
