SPECIFICATION Spec
CONSTANTS
  Me = 9
  OwnerChecks = FALSE
  Dsql = TRUE
  Decl <- OwnerDecl
  Operators = {p1}
  AllowDestroy = {TRUE, FALSE}
  Answers = {"yes"}
  InitialCatalogs <- ForeignOnly
  HandGrants = {}
  HandDefaults = {}
  HandMembers = {}
  NewRelations = {}
  DroppedRelations = {}
  DroppedRoles = {}
  Closing = {}
  MaxDisturbances = 1
INVARIANT Idempotent
CHECK_DEADLOCK FALSE
