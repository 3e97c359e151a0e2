SPECIFICATION Spec
CONSTANTS
  Pods = {"p1", "p2", "p3"}
  First = "p1"
  Loggers = {}
  NameOf <- NamesDiffer
  LoggerName = "log0"
  Cmds = {"x"}
  None = None
  StartsAfter <- AfterFirst
  Faulty = {"p2"}
  Restarting = {"p2"}
  MaxTerm = 3
  MaxCrashes = 1
  MaxRestarts = 1
INVARIANT FaultsAreTolerated
CHECK_DEADLOCK FALSE
