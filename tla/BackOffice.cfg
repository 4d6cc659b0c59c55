CONSTANTS
  Workspaces = {w1}
  WholeOrg = WholeOrg
  Amounts <- MCAmounts
  Periods <- MCPeriods
  MaxTransactions = 1
  MaxDay = 3
  Providers = {p1}
  ErrorRate = ErrorRate
  Statuses = {"void"}
  Limits = {1, 10}
  Readers = {a1, a2}
  Writers = {a1, a2}
  Values = {0, 1}
  NoValue = NoValue
  TTL = 1
  Patience = 1
  Faults = TRUE
  MaxCalls = 2
  MaxEvents = 1
SPECIFICATION OfficeSpec
INVARIANTS
  InvoicesStateTheirPeriods
  RetentionTellsTheTruth
PROPERTY
  AlertsOnlyAdvance
SYMMETRY AdminSymmetry
