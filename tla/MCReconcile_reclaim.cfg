SPECIFICATION Spec
CONSTANTS
  Me = 9
  OwnerChecks = FALSE
  Dsql = TRUE
  Decl <- DsqlDecl
  Operators = {p1}
  AllowDestroy = {TRUE, FALSE}
  Answers = {"yes"}
  InitialCatalogs <- HandGranted
  HandGrants = {}
  HandDefaults = {}
  HandMembers = {}
  NewRelations = {}
  DroppedRelations = {}
  DroppedRoles = {}
  Closing = {}
  MaxDisturbances = 1
INVARIANT ReclaimIsUsed
CHECK_DEADLOCK FALSE
