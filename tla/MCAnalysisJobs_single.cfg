SPECIFICATION Spec
CONSTANTS
    Workers = {w1, w2}
    Jobs = {j1, j2}
    uni = uni
    biv = biv
    mul = mul
    s1 = s1
    s2 = s2
    Inputs = {uni, biv, mul}
    Snapshots = {s1, s2}
    StageOf <- MCStageOf
    Work <- MCWork
    ArtifactCount <- MCArtifactCount
    Pinned <- MCPinned
    SlowPhases = FALSE
    LostWrites = TRUE
    NoJob = NoJob
    NoRun = NoRun
    RecoverLimit = 2
    MaxAttempts = 2
    MaxRetries = 0
    MaxCalls = 2
    MaxCrashes = 1
    MaxEvents = 1
SYMMETRY Symmetry
CONSTRAINT OneInput
INVARIANTS
    TypeOK
    OwnProgressIsAccepted
    OneExecutor
    ExecutorOwnsAttempt
    SucceededJobHasSucceededRun
PROPERTIES
    ImplementsContract
CHECK_DEADLOCK FALSE
