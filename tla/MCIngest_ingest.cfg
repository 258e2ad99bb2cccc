SPECIFICATION Spec
CONSTANTS
  MaxRequest = 2
  MaxLine = 2
  Concurrent = 2
  MaxRevision = 2
  Scripts <- SessionScripts
  MaxTrouble = 2
  Requests <- ClientRequests
  MaxSend = 2
  MetricLane = FALSE
  McpStream <- McpStreams
  Runner = {1, 2}
  ToolOwner = {p, q}
  MaxSent = 2
  MaxPage = 1
  NoTool = NoTool
  Sender = {s1, s2}
  MaxRejection = 2
  MaxMissed = 1
INVARIANTS
  IngressTypeOK
  PromisesAreDurable
  CheckpointAgrees
  EvidenceIsTrue
PROPERTIES
  SessionsAreConsumed
CHECK_DEADLOCK FALSE
