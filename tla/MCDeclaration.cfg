SPECIFICATION Spec
CONSTANTS
  Documents <- MCDocuments
  Targets <- MCTargets
  Policies <- MCPolicies
  RoleBlocks <- MCRoleBlocks
  Majors = {15, 16, 17, 18}
  RoleNames <- Names3
  Arns = {"arn:aws:iam::123456789012:role/app"}
  MaxRoles = 3
  MaxEdits = 3
INVARIANTS
  PlannerCanRely
  PlannerDerivesTheSame
  ServerKnowsPrivileges
PROPERTIES
  RenderedLoadsBack
  PinnedServerAccepted
