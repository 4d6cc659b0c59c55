\* One provider, one request, one administrator, the listener.
SPECIFICATION Spec
CONSTANTS
  Providers = {p1}
  Requests = {q1}
  Admins = {a1}
  Loop = Loop
  Unlisted = Unlisted
  Failed = Failed
  DBFaults = TRUE
INVARIANTS
  RoutesAreRecent
  RoutesAreComplete
