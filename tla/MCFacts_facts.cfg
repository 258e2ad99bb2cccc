SPECIFICATION Spec
CONSTANTS
  Evidence <- ToolEvidence
  Legacy = {2}
  Worker = {worker, replay}
  Repair = repair
  Conns = 3
  Batch = 2
  MaxCall = 2
  MaxFault = 1
  Component <- SkillComponents
  Snapshot <- Scans
  Use <- SkillUses
  Quarantined <- Payloads
  Vocabulary = {"user", "cache"}
  None = None
  MaxHandOver = 2
  Enabled <- SkillEnabled
  Declaration = {"unsupported"}
  Windows <- Hours
  ProfileLimit = 1
  MaxReports = 2
  Frames <- ClientStreams
  MaxFrames = 5
  MaxPending = 1
  MaxStream = 2
  Agent = {"codex", "claude"}
  Home = {1, 2}
  HomeHost <- Before
  Configs <- HostConfigs
  SkillRoots <- HostRoots
  Caches <- HostCaches
  Pointers <- HostPointers
  MaxVersions = 2
  MaxCached = 3
  Reserved = {"user"}
  Nameless = ""
  MaxEdits = 2
INVARIANTS
  FactsTypeOK
  ReceiptCoversProjections
  RepairCostsNothing
  InventoryIsTrue
  StreamAnswersAreTrue
PROPERTIES
  AssertionsSettle
  StreamsAnswered
CHECK_DEADLOCK FALSE
