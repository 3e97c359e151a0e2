SPECIFICATION FairSpec
CONSTANTS
  Pods = {"p1", "p2"}
  First = "p1"
  Loggers = {}
  NameOf <- NamesDiffer
  LoggerName = "log0"
  Cmds = {}
  None = None
  StartsAfter <- AtOnce
  Faulty = {}
  Restarting = {"p1", "p2"}
  MaxTerm = 2
  MaxCrashes = 0
  MaxRestarts = 2
PROPERTIES JoinersParticipate
CHECK_DEADLOCK FALSE
