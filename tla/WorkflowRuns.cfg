\* Two runs of two steps around one session, one with a callback, which may be
\* one that no request can be made of; faults and crashes.
SPECIFICATION Spec
CONSTANTS
  Runs = {r1, r2}
  Hooked = {r1}
  Unparsable = {r1}
  Sessions = {s1}
  NoSession = NoSession
  NoRun = NoRun
  NumSteps = 2
  Costs <- MCCosts
  Faults = TRUE
INVARIANTS
  CompletedRunAddsUp
  OutcomeIsTold
  DeliveryTellsTheTruth
  SessionPointsToCompleted
  AnsweredIsClosed
