SPECIFICATION Spec
CONSTANTS
  Pods = {"p1", "p2", "p3", "p4"}
  First = "p1"
  Loggers = {}
  NameOf <- NamesCoincide
  LoggerName = "log0"
  Cmds = {"x"}
  None = None
  StartsAfter <- OneByOne
  Faulty = {"p1", "p2", "p3"}
  Restarting = {"p1", "p2"}
  MaxTerm = 3
  MaxCrashes = 1
  MaxRestarts = 1
INVARIANTS TypeOK CommittedSurvive
PROPERTIES OnlyNamesakesRemove
CHECK_DEADLOCK FALSE
