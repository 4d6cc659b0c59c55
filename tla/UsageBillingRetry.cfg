\* A call and its retry under one request id, another user's call and
\* registration, no faults.
SPECIFICATION FairSpec
CONSTANTS
  u1 = u1  u2 = u2
  c1 = c1  c2 = c2  c3 = c3
  g1 = g1  g2 = g2
  r1 = r1  r2 = r2  r3 = r3
  Users = {u1, u2}
  Calls = {c1, c2, c3}
  Grants = {g1}
  RequestIds = {r1, r2}
  RequestIdOf <- RetryIds
  OwnerOf <- RetryOwner
  KindOf <- RetryKinds
  GrantAmount <- RetryAmounts
  Opening <- RetryOpening
  Charges = {0, 2}
  NumRoutes = 2
  NoUsage = NoUsage
  DBFaults = FALSE
  Crashes = FALSE
INVARIANTS
  ChargedOncePerRequestId
  NoMovementForgotten
PROPERTIES
  HandlersEnd
