SPECIFICATION Spec
CONSTANTS
  Me = 9
  OwnerChecks = FALSE
  Dsql = TRUE
  Decl <- ReversedDecl
  Operators = {p1}
  AllowDestroy = {TRUE}
  Answers = {"yes"}
  InitialCatalogs <- Unreversed
  HandGrants = {}
  HandDefaults = {}
  HandMembers = {}
  NewRelations = {}
  DroppedRelations = {}
  DroppedRoles = {}
  Closing = {}
  MaxDisturbances = 0
PROPERTY Converges
CHECK_DEADLOCK FALSE
