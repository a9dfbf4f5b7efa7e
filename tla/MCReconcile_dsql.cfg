SPECIFICATION Spec
CONSTANTS
  Me = 9
  OwnerChecks = FALSE
  Dsql = TRUE
  Decl <- DsqlDecl
  Operators = {p1}
  AllowDestroy = {TRUE, FALSE}
  Answers = {"yes", "no"}
  InitialCatalogs <- DsqlCatalogs
  HandGrants <- HandChangedGrants
  HandDefaults <- HandChangedDefaults
  HandMembers <- HandChangedMembers
  NewRelations <- MigratorCreates
  DroppedRelations <- TableDropped
  DroppedRoles <- AppDropped
  Closing = {}
  MaxDisturbances = 4
INVARIANTS
  TypeOK
  Idempotent
  PlanExecutable
  ShownIsDone
  CleanMeansReturned
PROPERTIES
  StaysWithinAuthority
  NothingTakenUnasked
  AdminKept
  CreationCovered
CHECK_DEADLOCK FALSE
