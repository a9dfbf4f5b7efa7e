SPECIFICATION Spec
CONSTANTS
  Lines = {"right", "wrong"}
  SignalPoints = {"saved", "guarded", "reading", "read"}
  Runs <- OneRun
  Servers <- OneServer
  Demands = {"password"}
  Databases = 1
  Lifetime = 1
  MaxClock = 0
INVARIANTS
  EchoRestored
CHECK_DEADLOCK FALSE
