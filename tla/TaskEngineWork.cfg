\* Two workers over two tasks, fetched one at a time; one crash.
SPECIFICATION FairSpec
CONSTANTS
  Tasks = {t1, t2}
  Workers = {w1, w2}
  Batch = 1
  MaxCrashes = 1
INVARIANTS
  AcceptedIsStored
PROPERTIES
  ImplementsJobs
  EndedIsReported
