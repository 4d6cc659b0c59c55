\* Two retention runs, a deletion and a change of the setting, with faults
\* and crashes.
SPECIFICATION Spec
CONSTANTS
  Files = {f1}
  Deleters = {d1}
  Readers = {r1, r2}
  Writers = {w1}
  Values <- MCValues
  NoValue = NoValue
  TTL = 2
  Patience = 1
  MaxAge = 1
  Faults = TRUE
INVARIANTS
  ContentFollowsRow
  ReportedOnce
  FreshUnlessDoubted
PROPERTIES
  StaleIsBounded
SYMMETRY RunSymmetry
