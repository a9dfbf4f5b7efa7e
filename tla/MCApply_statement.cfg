SPECIFICATION Spec
CONSTANTS
  Size = 4
  Databases = {0, 1, 2}
  Atomic = FALSE
  OccRetries = 2
  MaxConflicts = 4
  Faults <- MCFaults
CHECK_DEADLOCK FALSE
INVARIANTS
  ScriptMirrorsApply
  NeverTwice
  BoundedAttempts
  LogTellsPoint
PROPERTIES
  GivesUpLate
  ImplementsSpec
