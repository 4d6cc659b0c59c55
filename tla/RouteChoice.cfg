CONSTANTS
  p1 = p1
  p2 = p2
  u1 = u1
  w1 = w1
  Providers = {p1, p2}
  Candidates = {p1, p2}
  Template = p2
  Users = {u1}
  Workspaces = {w1}
  Owners <- MCOwners
  Platform = Platform
  Nobody = Nobody
  MaxKeys = 2
  MaxPolicies = 2
  Priority <- MCPriority
  Cost <- MCCost
  Kind <- MCKind
  Requests = {q1}
  Admins = {a1}
  PolicyInputs <- MCPolicyInputs
  Measurements <- MCMeasurements
  HasEnvKey = FALSE
  Accepted <- MCAccepted
  DBFaults = TRUE
  MaxWrites = 2
SPECIFICATION FairSpec
INVARIANTS
  PrivateKeysStayPrivate
  CredentialIsInForce
  OrderIsOfAPolicyInForce
PROPERTY
  ProviderComesBack
