CONSTANTS
  Producers = {"low", "medium", "rejected"}
  Priority <- MCPriority
  PayloadBytes <- MCLargePayload
  GapMarker = "gap"
  GapBytes = 1
  RowOverhead = 1
  EnvelopeBytes = {1}
  MaxBytes = 8
  AckPruneLimit = 1
  MaxEvents = 4
  Processes = {"service"}
  Service = "service"
  Malformed = {"rejected"}
  MaximumMessages = 1
  MaxSequence = 9
  MaxSubmissions = 2
  MaxFaults = 1
  MaxHeartbeats = 1
SPECIFICATION FairSpec
INVARIANTS NoSilentLoss GapReportsAreTrue
PROPERTIES ImplementsReliableDelivery RowsStand  
