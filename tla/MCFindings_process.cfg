CONSTANTS
  Pids <- MCPids
  MaxProcs = 3
  QueueBound = 2
  Tick = 4
  MaxClock = 8
  MaxExtras <- MCMaxExtras
  MaxNodes = 2
  FanoutCount = 2
  ShortCount = 1
  Window = 6
  MaxLifetime = 4
  Excluded = {}
  Contents = {"a", "b"}
  Rulesets = {"r1", "r2"}
  Hits <- MCHits
  Recent = 2
  Hosts <- MCHosts
SPECIFICATION FindingsSpec
INVARIANTS   EvidenceIsOfTheContent
PROPERTY EvidenceArrives
CHECK_DEADLOCK FALSE
