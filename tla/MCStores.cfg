CONSTANTS
    Threads = {executor, request}
    Inserts = 3
    MaxWrites = 2
    MaxErrors = 2
    MaxTime = 2
    Requests <- SmallRequests
    Workers = {v, w}
    MaxWorkerDeaths = 1
    MaxOverruns = 1
    ArtifactNames = {"x", "y"}
    StoredBytes = {"b1", "p1", "p2"}
    Publishers = {"p1", "p2", "p3"}
    ProcessOf <- SmallProcesses
    Offers <- SmallOffers
    MaxStoreCrashes = 2
    Users = {"ann", "bob"}
    Observations = {1, 2}
    Policies = {"latest"}
    Projects = {"p"}
    ProviderResults = {{}, {1}, {1, 2}}
    ReturnSettings = {"close"}
    MaxSnapshots = 2
    MaxInputs = 2
    MaxArtifacts = 3
    MaxRuns = 1
    Listings <- SmallListings
    DatesOf <- SmallDates
    FirstRevision <- SmallFirst
    Selections = {{1, 2}, {2, 3}, {1, 3, 4}, {1, 2, 3, 4}}
    BucketCounts = {1, 2}
    MaxPairCount = 3
    MaxDownloads = 1
    MaxCalls = 3
    Configs <- SmallConfigs
    Removable <- SmallRemovable
    Unaligned = {}
    Incomplete = {2}
    MaxQuotes = 3
    MaxLakeRuns = 3
    MaxMishaps = 1
    Readers = {r1}
    Contents <- ChangingContents
    Wanted = {"B"}
    BindMounted = FALSE
    MaxReads = 2
    MaxCrashes = 1
    MaxRestarts = 1
SPECIFICATION StoresSpec
INVARIANTS
    LoneWriterIsTransactional
    DurableWithoutErrors
    PartsHaveFirst
    LeasesExclude
    AcknowledgedIsServed
    EvidenceIsGranted
    SelectionStatisticsAreCurrent
    PortfolioFilesBelongTogether
    RootIsComplete
    CompleteCopyExists
    MatchedReadIsExact
PROPERTIES
    ErrorsClear
    ImplementsQueue
    RootReturns
    ReadsEnd
CHECK_DEADLOCK FALSE
