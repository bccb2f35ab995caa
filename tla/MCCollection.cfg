\* Two endpoints, queues of one frame.  Linux: two observers, three events,
\* endpoint b polls.  Windows: one free pid, given out twice, one connection.
\* The sensors: calls nested in a thread, a thread id given out again, a ring and
\* a map of one entry; hosts whose pids and kernel ids are given out again.
SPECIFICATION Spec
CONSTANTS
  None = None
  Slots = {"a", "b"}
  QueueCapacity = 1
  Mappings <- MCMappings
  Hosts <- MCHosts
  SocketBuffer = 1
  Prompt = {"b"}
  MaxConns = 2
  RootPid <- MCRoots
  Outside = 3
  Pids = {4}
  PipeCapacity = 2
  MaxReuse = 1
  MaxEvents = 3
  Conns = {"c1"}
  Threads = {"t1", "t2"}
  Calls <- MCCalls
  Chains <- MCChains
  MaxAddresses = 2
  PendingCapacity = 1
  RingCapacity = 1
  MaxCalls = 3
  EtwPids = {1}
  EtwHosts <- MCEtwHosts
  MaxActive = 2
  MaxCached = 1
INVARIANTS StreamIsTheEndpoints LossIsBounded   CloseIsTrue
PROPERTIES SlowBlocksNoOther
CHECK_DEADLOCK FALSE
