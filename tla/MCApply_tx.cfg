SPECIFICATION Spec
CONSTANTS
  Size = 5
  Databases = {0, 1, 2}
  Atomic = TRUE
  OccRetries = 5
  MaxConflicts = 6
  Faults <- MCFaults
CHECK_DEADLOCK FALSE
INVARIANTS
  ScriptMirrorsApply
  TypeOK
  PrefixApplied
  WholeDatabases
  BoundedAttempts
  DoneMeansAll
PROPERTIES
  ImplementsSpec
