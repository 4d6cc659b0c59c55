\* A client that leaves in mid-stream.
SPECIFICATION FairRelaySpec
CONSTANTS
  MaxChunks = 2
  Buffer = 1
  NumRoutes = 1
PROPERTIES
  EveryStreamSettled
