CONSTANTS
  client = client
  server = server
  remote = remote
  outbound = outbound
  Sockets = {client, remote}
  Accepted = {remote}
  Attributed = {client}
  Matching = {client, remote}
  TupleOf <- MCTupleOf
  ProcessOf <- MCProcessOf
  Configs <- MCConfigs
  MaxCandidates = 1
  Live = {{client}, {remote}}
  MaxFaults = 2
SPECIFICATION Spec
PROPERTIES
  ClosedIsReported
CHECK_DEADLOCK FALSE
