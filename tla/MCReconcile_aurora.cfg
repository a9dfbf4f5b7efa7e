SPECIFICATION Spec
CONSTANTS
  Me = 9
  OwnerChecks = FALSE
  Dsql = FALSE
  Decl <- AuroraDecl
  Operators = {p1, p2}
  AllowDestroy = {TRUE}
  Answers = {"yes"}
  InitialCatalogs <- AuroraCatalogs
  HandGrants <- AuroraHandGrants
  HandDefaults <- AuroraHandDefaults
  HandMembers = {}
  NewRelations <- AuroraCreates
  DroppedRelations = {}
  DroppedRoles = {}
  Closing = {2}
  MaxDisturbances = 2
INVARIANTS
  Idempotent
  PlanExecutable
  ShownIsDone
PROPERTIES
  StaysWithinAuthority
  BorrowCannotOutliveRun
  CreationCovered
SYMMETRY Either
CHECK_DEADLOCK FALSE
