\* Two handlers, one administrator, one key, which an update may bind
\* to the workspace while calls run.
SPECIFICATION FairSpec
CONSTANTS
  c1 = c1  c2 = c2  k1 = k1  a1 = a1  m1 = m1
  Keys = {k1}
  Models = {m1}
  Admins = {a1}
  UpdateRequests <- MCUpdates
  NewKeys = {FALSE}
  NoKey = NoKey
  NoJob = NoJob
  Budgets <- MCBudgets
  Quotas <- MCQuotas
  TokensPerCall = 1
  MaxLogged = 1
  Policies <- MCPolicies
  PolicyBodies <- MCPolicyBodies
  NoPolicy = NoPolicy
  Calls = {c1, c2}
  KeyOf <- TheKey
  ModelOf <- TheModel
  ContentOf <- Contents
  Streams = {c1}
  Member <- Delegate
  MaxConns = 3
  Faulty = {c2}
  MaxSettled = 3
  MaxWaved = 1
INVARIANTS
  OvershootIsBounded
  RevokedKeyServesNoNewCall
  GuardrailHolds
PROPERTIES
  EveryCallEnds
