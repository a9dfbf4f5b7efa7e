SPECIFICATION Spec
CONSTANTS
  Me = 9
  OwnerChecks = FALSE
  Dsql = TRUE
  Decl <- DsqlDecl
  Operators = {p1, p2}
  AllowDestroy = {TRUE}
  Answers = {"yes"}
  InitialCatalogs <- RaceCatalogs
  HandGrants = {}
  HandDefaults = {}
  HandMembers = {}
  NewRelations = {}
  DroppedRelations <- TableDropped
  DroppedRoles <- AppDropped
  Closing = {}
  MaxDisturbances = 1
PROPERTIES
  Converges
  AdminKept
CHECK_DEADLOCK FALSE
