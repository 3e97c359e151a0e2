SPECIFICATION CommandLogFairSpec
CONSTANTS
  Keys = {"j", "k"}
  Values <- MCValues
  InitKeys = {}
  InitValue <- MCInitValue
  Clients = {c1}
  Commands <- MCCommands
  AdHoc <- MCAdHoc
  Nodes = {n1}
  MaxLog = 3
  MaxCrashes = 1
  MaxClusterRestarts = 1
INVARIANTS CommandLogTypeOK RecoversPrefix InstallsPastState AppliedIsLogged
PROPERTIES NeverForgets LogCompletes
CHECK_DEADLOCK FALSE
