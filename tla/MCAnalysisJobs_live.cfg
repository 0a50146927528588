SPECIFICATION FairSpec
CONSTANTS
    Workers = {w1, w2}
    Jobs = {j1}
    uni = uni
    biv = biv
    mul = mul
    s1 = s1
    s2 = s2
    Inputs = {uni}
    Snapshots = {s1, s2}
    StageOf <- MCStageOf
    Work <- MCWork
    ArtifactCount <- MCArtifactCount
    Pinned <- MCPinned
    SlowPhases = FALSE
    LostWrites = FALSE
    NoJob = NoJob
    NoRun = NoRun
    RecoverLimit = 2
    MaxAttempts = 2
    MaxRetries = 0
    MaxCalls = 2
    MaxCrashes = 1
    MaxEvents = 1
PROPERTIES
    JobsFinish
    QueuedJobsAreTaken
CHECK_DEADLOCK FALSE
