CONSTANTS
  client = client
  server = server
  remote = remote
  outbound = outbound
  Sockets = {client, server, remote, outbound}
  Accepted = {server, remote}
  Attributed = {client, server, remote, outbound}
  Matching = {client, server, remote, outbound}
  TupleOf <- MCTupleOf
  ProcessOf <- MCProcessOf
  Configs <- MCConfigs
  MaxCandidates = 2
  Live = {{client, server}, {remote, outbound}}
  MaxFaults = 1
SPECIFICATION Spec
INVARIANTS HistoryAgrees CompletionAccounted RecordIsTheSockets
PROPERTY EndedForGood
CHECK_DEADLOCK FALSE
