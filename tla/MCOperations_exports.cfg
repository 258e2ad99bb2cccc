SPECIFICATION Spec
CONSTANTS
 Worker = {w1, w2}
 MaxAttempts = 3
 Preview = {p1, p2}
 Nonce = {n1, n2}
 Caller = {c1, c2}
 MaxPreviews = 1
 Fact = {f1, f2}
 Importer = {i1, i2}
 MirrorFact = {m1, m2}
 MaxMishaps = 2
 Request <- Clients
 Container = FALSE
 Limit = 2
 Window = 2
 Found <- Findings
 Triage = {"acknowledged"}
 Horizon = 2
 MaxClock = 4
 MaxFound = 3
 MaxEvidence = 1
 Target <- AgentTargets
 Key <- AgentKeys
 Value = {"theirs"}
 Unset = Unset
 MaxPlans = 2
 MaxCycle = 4
 FaultAt <- SoakFaults
 MaxRun = 2
 MaxMisdeed = 2
 Starter = {s1}
 MaxMigrate = 1
 Build <- Builds
 Equivalent <- SameSQL
INVARIANT ExportsImport
CHECK_DEADLOCK FALSE
