\* Two settlements and a top-up of one account, with faults and crashes.
SPECIFICATION Spec
CONSTANTS
  u1 = u1  u2 = u2
  c1 = c1  c2 = c2  c3 = c3
  g1 = g1  g2 = g2
  r1 = r1  r2 = r2  r3 = r3
  Users = {u1}
  Calls = {c1, c2}
  Grants = {g1}
  RequestIds = {r1, r2}
  RequestIdOf <- RaceIds
  OwnerOf <- RaceOwner
  KindOf <- RaceKinds
  GrantAmount <- RaceAmounts
  Opening <- RaceOpening
  Charges = {0, 1, 2}
  NumRoutes = 2
  NoUsage = NoUsage
  DBFaults = TRUE
  Crashes = TRUE
INVARIANTS
  NeverOverdrawn
  BalanceConserved
  LedgerTellsTheTruth
  ErrorsAreFree
PROPERTIES
  ImplementsAccount
