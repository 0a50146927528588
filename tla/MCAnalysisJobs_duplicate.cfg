SPECIFICATION Spec
CONSTANTS
    Workers = {w1, w2}
    Jobs = {j1}
    uni = uni
    biv = biv
    mul = mul
    s1 = s1
    s2 = s2
    Inputs = {uni}
    Snapshots = {s1, s2}
    StageOf <- MCStageOf
    Work <- MCWork
    ArtifactCount <- MCArtifactCount
    Pinned <- MCPinned
    SlowPhases = TRUE
    LostWrites = FALSE
    NoJob = NoJob
    NoRun = NoRun
    RecoverLimit = 2
    MaxAttempts = 2
    MaxRetries = 0
    MaxCalls = 2
    MaxCrashes = 0
    MaxEvents = 0
SYMMETRY Symmetry
INVARIANTS
    OneExecutor
CHECK_DEADLOCK FALSE
