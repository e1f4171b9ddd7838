CONSTANTS
  User = User
  Post = Post
  Model <- MCModel
  Name <- MCName
  Deployments <- MCDeployments
  OtherScopes <- MCOtherScopes
  Principals <- MCPrincipals
  Rows <- MCRows
SPECIFICATION Spec
INVARIANTS
  GatesFollowTheRules
  ScopesReachTheirRows
