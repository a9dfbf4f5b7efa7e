SPECIFICATION Spec
CONSTANTS
  Me = 9
  OwnerChecks = FALSE
  Dsql = TRUE
  Decl <- DsqlDecl
  Operators = {p1}
  AllowDestroy = {TRUE, FALSE}
  Answers = {"yes"}
  InitialCatalogs <- StrayDefault
  HandGrants = {}
  HandDefaults = {}
  HandMembers = {}
  NewRelations = {}
  DroppedRelations = {}
  DroppedRoles = {}
  Closing = {}
  MaxDisturbances = 1
INVARIANT CleanMeansReturned
CHECK_DEADLOCK FALSE
