\* Every answer of up to three chunks, a channel shorter than the answer, and
\* a client that may leave.
SPECIFICATION FairRelaySpec
CONSTANTS
  MaxChunks = 3
  Buffer = 2
  NumRoutes = 2
INVARIANTS
  ChunksFlowInOrder
  DoneMeansDone
  BilledByLastUsage
PROPERTIES
  RelayEnds
