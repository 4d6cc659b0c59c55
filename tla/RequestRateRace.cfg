\* Two handlers, two requests a minute of seven ticks, pipelines that fail, and
\* a key whose time is up after two ticks.
SPECIFICATION MCSpec
CONSTANTS
  Handlers = {h1, h2}
  Limit = 2
  Minute = 7
  Patience = 2
  RedisFaults = TRUE
  MaxTime = 18
  MaxPerTick = 1
SYMMETRY Interchangeable
CHECK_DEADLOCK FALSE
INVARIANTS
  RateTypeOK
  OverrunIsBounded
  RejectedWhenBusy
