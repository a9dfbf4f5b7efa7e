SPECIFICATION Spec
CONSTANTS
  Lines = {"right", "wrong"}
  SignalPoints = {"reading"}
  Runs <- MCRuns
  Servers <- MCServers
  Demands = {"trust", "password", "reject"}
  Databases = 2
  Lifetime = 1
  MaxClock = 2
INVARIANTS
  EchoRestored
  AskedAtMostOnce
  AskedOnceIsEnough
  TokensSafe
  ExitCodes
CHECK_DEADLOCK FALSE
